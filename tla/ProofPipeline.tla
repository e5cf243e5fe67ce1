--------------------------- MODULE ProofPipeline ---------------------------
(***************************************************************************)
(* A proof from one implementation to the other: prove splits the work     *)
(* over threads, proof_to_bytes writes it, the blob travels, both decoders *)
(* read it, and core.verify or zkboo::verify judges what its own decoder   *)
(* made of it.  A prover may have spoiled repetitions, and the blob may be *)
(* exchanged on the way.                                                   *)
(***************************************************************************)
EXTENDS Repetitions, WireFormat

CONSTANTS
    NoBlob,        \* nothing was encoded yet
    AlteredBlobs,  \* the blobs that may arrive instead
    MaxAltered     \* bound on the repetitions of a proof that is exchanged

ASSUME AlteredAssumption == \A b \in AlteredBlobs : b.len \in Nat

VARIABLES
    spoiled,  \* the repetitions whose views do not replay
    altered   \* whether the blob that arrived is another one

wireVars == <<blob, at>>
vars == <<repVars, wireVars, spoiled, altered>>

PipelineInit ==
    /\ Init
    /\ blob = NoBlob /\ at = [d \in Decoders |-> Start]
    /\ spoiled = {} /\ altered = FALSE

-----------------------------------------------------------------------------
(* A slip: the challenge whose second party is 2 is forgotten. *)
OnlyWhenFirst(e) == e = 2

(* Challenge e opens parties e and e + 1; the prover gives, and the verifier asks for, the
   input shares of party 2, which no tape holds. *)
Given(e) == 2 \in {e, (e + 1) % 3}
Asked(e) == 2 \in {e, (e + 1) % 3}

HasInputs == [k \in Reps |-> Given(trits[k])]

Prove == /\ \/ \E n \in 1 .. MaxReps, t \in 0 .. MaxThreads : StartProve(n, t)
            \/ \E w \in Chunks : ProveOne(w)
            \/ JoinProve
            \/ \E byte \in Bytes : Sample(byte)
         /\ UNCHANGED <<wireVars, spoiled, altered>>

Ship(bad) ==
    /\ phase = "sent" /\ blob = NoBlob
    /\ blob' = Encode(HasInputs)
    /\ spoiled' = bad
    /\ UNCHANGED <<repVars, at, altered>>

Exchange(b) ==
    /\ phase = "sent" /\ blob # NoBlob /\ ~altered /\ nreps <= MaxAltered
    /\ \A d \in Decoders : at[d] = Start
    /\ blob' = b /\ altered' = TRUE
    /\ UNCHANGED <<repVars, at, spoiled>>

Read(d) ==
    /\ phase = "sent" /\ blob # NoBlob
    /\ Decode(d)
    /\ UNCHANGED <<repVars, spoiled, altered>>

Decoded == \A d \in Decoders : at[d].stage \in Over

(* The decoder refused the blob, or the proof has another number of repetitions. *)
Refuse(d) ==
    /\ Decoded
    /\ at[d].stage # "accepted" \/ blob.reps # nreps
    /\ RefuseProof
    /\ UNCHANGED <<wireVars, spoiled, altered>>

(* verify_one_rep refuses a spoiled repetition, and one whose challenge asks for the
   inputs that its opening lacks.  The challenges of an exchanged blob are others. *)
Lacking(d) == {k \in Reps : Asked(trits[k]) /\ ~at[d].has[k]}

Verify(d, t, bad) ==
    /\ Decoded
    /\ at[d].stage = "accepted" /\ blob.reps = nreps
    /\ d = "python" => t = 1
    /\ ~altered => bad = spoiled \cup Lacking(d)
    /\ StartVerify(t, bad)
    /\ UNCHANGED <<wireVars, spoiled, altered>>

Check == /\ (\E w \in Chunks : CheckOne(w)) \/ JoinVerify
         /\ UNCHANGED <<wireVars, spoiled, altered>>

PipelineNext ==
    \/ Prove
    \/ \E bad \in SUBSET Reps : Ship(bad)
    \/ \E b \in AlteredBlobs : Exchange(b)
    \/ \E d \in Decoders :
           \/ Read(d)
           \/ Refuse(d)
           \/ \E t \in 0 .. MaxThreads, bad \in SUBSET Reps : Verify(d, t, bad)
    \/ Check

(* A thread that can go on does, and so does a call; nobody has to begin one, and nobody
   has to exchange a blob.  SHAKE256 does not return the byte 255 for ever. *)
Fairness ==
    /\ \A w \in 1 .. MaxReps :
           /\ WF_vars(ProveOne(w) /\ UNCHANGED <<wireVars, spoiled, altered>>)
           /\ WF_vars(CheckOne(w) /\ UNCHANGED <<wireVars, spoiled, altered>>)
    /\ WF_vars(JoinProve /\ UNCHANGED <<wireVars, spoiled, altered>>)
    /\ WF_vars((\E byte \in Bytes : Sample(byte)) /\ UNCHANGED <<wireVars, spoiled, altered>>)
    /\ WF_vars(\E bad \in SUBSET Reps : Ship(bad))
    /\ \A d \in Decoders : WF_vars(Read(d))
    /\ WF_vars(\E d \in Decoders, t \in 0 .. MaxThreads, bad \in SUBSET Reps :
                   Refuse(d) \/ Verify(d, t, bad))
    /\ WF_vars(JoinVerify /\ UNCHANGED <<wireVars, spoiled, altered>>)

PipelineSpec == PipelineInit /\ [][PipelineNext]_vars /\ Fairness

-----------------------------------------------------------------------------
(* Completeness from end to end: a proof that was made in any number of threads, encoded,
   and decoded by either implementation verifies there in any number of threads, whichever
   challenges it drew; and one with a spoiled repetition does not. *)
ArrivingProofIsJudged ==
    (phase = "returned" /\ ~altered) => (verdict <=> spoiled = {})

(* Every call of prove leads to an answer of verify: no thread waits for another, no
   decoder stops in the middle. *)
EveryCallReturns == phase = "prove" ~> phase = "returned"

=============================================================================
