---------------------------- MODULE Repetitions ----------------------------
(***************************************************************************)
(* The repetitions of one proof, prove and verify of code/rust/src/        *)
(* zkboo.rs: the jobs are cut into chunks, one thread works through each   *)
(* chunk, and the scope joins them all.  The prover has a result slot per  *)
(* repetition, the verifier a flag per thread.  core.py runs the same jobs *)
(* in one thread.  What one job does is the module ZKBoo.                  *)
(***************************************************************************)
EXTENDS Integers, Sequences

CONSTANTS
    MaxReps,     \* bound on the repetitions of a proof
    MaxThreads,  \* bound on the threads of a call
    Bytes        \* the bytes of a challenge block, those that matter

ASSUME RepsAssumption == MaxReps \in Nat
ASSUME ThreadsAssumption == MaxThreads \in Nat
ASSUME BytesAssumption == Bytes \subseteq 0 .. 255

VARIABLES
    phase,    \* what the call is doing
    nreps,    \* the repetitions asked for
    threads,  \* the threads of the call in progress, 0 outside of one
    next,     \* per chunk: the next job of its thread
    slots,    \* per repetition: how often its result slot was written, 0 is None
    trits,    \* the challenges so far
    refused,  \* the repetitions that verify_one_rep refuses
    oks,      \* per thread of the verifier: its flag
    verdict   \* what verify returned

repVars == <<phase, nreps, threads, next, slots, trits, refused, oks, verdict>>

Phases == {"idle", "prove", "sample", "sent", "verify", "returned", "panicked"}
Chunks == 1 .. MaxReps
Reps == 1 .. nreps

-----------------------------------------------------------------------------
(* Slips a maintainer could make in the definitions below. *)

FloorOfQuotient(n, t) == n \div t

StartsOneLate(w, size) == (w - 1) * size + 2

-----------------------------------------------------------------------------
CeilOfQuotient(n, t) == (n + t - 1) \div t

(* The jobs of one chunk; a single thread takes them all. *)
ChunkSize(n, t) == IF t <= 1 THEN n ELSE CeilOfQuotient(n, t)

NumChunks(n, size) == CeilOfQuotient(n, size)

(* A slip: a flag for each full chunk. *)
FlagPerFullChunk(n, t) == FloorOfQuotient(n, ChunkSize(n, t))

(* The verifier zips its flags with the chunks: the shorter of the two. *)
NumFlags(n, t) == IF t <= 1 THEN 1 ELSE IF t < n THEN t ELSE n

Size == ChunkSize(nreps, threads)

Provers == 1 .. NumChunks(nreps, Size)

Verifiers == {w \in Provers : w <= NumFlags(nreps, threads)}

First(w, size) == (w - 1) * size + 1

Last(w) == IF w * Size < nreps THEN w * Size ELSE nreps

Init ==
    /\ phase = "idle" /\ nreps = 0 /\ threads = 0
    /\ next = [w \in Chunks |-> 0]
    /\ slots = [k \in Chunks |-> 0]
    /\ trits = <<>>
    /\ refused = {}
    /\ oks = [w \in Chunks |-> TRUE]
    /\ verdict = FALSE

-----------------------------------------------------------------------------
(* Fork: chunks of size zero are a panic. *)
Forked(n, t, then) ==
    LET size == ChunkSize(n, t) IN
    /\ phase' = IF size = 0 THEN "panicked" ELSE then
    /\ next' = [w \in Chunks |-> First(w, size)]

StartProve(n, t) ==
    /\ phase = "idle"
    /\ nreps' = n /\ threads' = t
    /\ Forked(n, t, "prove")
    /\ UNCHANGED <<slots, trits, refused, oks, verdict>>

ProveOne(w) ==
    /\ phase = "prove" /\ w \in Provers
    /\ next[w] <= Last(w)
    /\ slots' = [slots EXCEPT ![next[w]] = @ + 1]
    /\ next' = [next EXCEPT ![w] = @ + 1]
    /\ UNCHANGED <<phase, nreps, threads, trits, refused, oks, verdict>>

(* The scope has joined every thread; r.unwrap() of an empty slot is a panic. *)
JoinProve ==
    /\ phase = "prove"
    /\ \A w \in Provers : next[w] > Last(w)
    /\ phase' = IF \A k \in Reps : slots[k] > 0 THEN "sample" ELSE "panicked"
    /\ threads' = 0 /\ next' = [w \in Chunks |-> 0]
    /\ UNCHANGED <<nreps, slots, trits, refused, oks, verdict>>

(* One byte of the challenge block: 255 is skipped, 85 others stand for each trit. *)
Trit(byte) == byte % 3

Sample(byte) ==
    /\ phase = "sample"
    /\ byte < 255
    /\ trits' = Append(trits, Trit(byte))
    /\ phase' = IF Len(trits) + 1 = nreps THEN "sent" ELSE phase
    /\ UNCHANGED <<nreps, threads, next, slots, refused, oks, verdict>>

(* verify of a proof with as many repetitions; bad are those that do not verify. *)
StartVerify(t, bad) ==
    /\ phase = "sent"
    /\ threads' = t /\ refused' = bad
    /\ Forked(nreps, t, "verify")
    /\ oks' = [w \in Chunks |-> TRUE]
    /\ UNCHANGED <<nreps, slots, trits, verdict>>

(* verify returns False at once: another number of repetitions, or no proof at all. *)
RefuseProof ==
    /\ phase = "sent"
    /\ phase' = "returned" /\ verdict' = FALSE /\ refused' = Reps
    /\ UNCHANGED <<nreps, threads, next, slots, trits, oks>>

(* A slip: the refusal is noted, and the next job waited for. *)
OnlyAtTheEnd(w) == next[w] > Last(w)

(* all() stops at the first job that is refused. *)
Finished(w) == next[w] > Last(w) \/ ~oks[w]

CheckOne(w) ==
    /\ phase = "verify" /\ w \in Verifiers
    /\ ~Finished(w)
    /\ IF next[w] \in refused THEN oks' = [oks EXCEPT ![w] = FALSE] /\ UNCHANGED next
       ELSE next' = [next EXCEPT ![w] = @ + 1] /\ UNCHANGED oks
    /\ UNCHANGED <<phase, nreps, threads, slots, trits, refused, verdict>>

JoinVerify ==
    /\ phase = "verify"
    /\ \A w \in Verifiers : Finished(w)
    /\ verdict' = \A w \in 1 .. NumFlags(nreps, threads) : oks[w]
    /\ phase' = "returned"
    /\ threads' = 0 /\ next' = [w \in Chunks |-> 0]
    /\ UNCHANGED <<nreps, slots, trits, refused, oks>>

Next ==
    \/ \E n \in 1 .. MaxReps, t \in 0 .. MaxThreads : StartProve(n, t)
    \/ \E w \in Chunks : ProveOne(w) \/ CheckOne(w)
    \/ JoinProve \/ RefuseProof \/ JoinVerify
    \/ \E byte \in Bytes : Sample(byte)
    \/ \E t \in 0 .. MaxThreads, bad \in SUBSET Reps : StartVerify(t, bad)

Spec == Init /\ [][Next]_repVars

-----------------------------------------------------------------------------
(* The type of every variable. *)
TypeOK ==
    /\ phase \in Phases
    /\ nreps \in 0 .. MaxReps /\ threads \in 0 .. MaxThreads
    /\ next \in [Chunks -> Nat]
    /\ slots \in [Chunks -> Nat]
    /\ trits \in Seq(0 .. 2)
    /\ refused \subseteq Reps
    /\ oks \in [Chunks -> BOOLEAN]
    /\ verdict \in BOOLEAN

(* However the jobs are split, every repetition is proved by exactly one thread and
   exactly once: no seed is used for two of them, no slot is left for unwrap() to panic
   on, no chunk is empty; and there is one challenge for each. *)
EachRepetitionOnce ==
    /\ phase # "panicked"
    /\ phase = "prove" => \A k \in Chunks : slots[k] <= 1
    /\ phase \in {"sample", "sent", "verify", "returned"} =>
           \A k \in Chunks : slots[k] = IF k <= nreps THEN 1 ELSE 0
    /\ phase \in {"sent", "verify", "returned"} => Len(trits) = nreps

(* However the jobs are split and the threads run, verify returns True exactly when every
   repetition verifies: no job is left to no thread, and a flag that has no chunk spoils
   nothing. *)
VerdictIsUnanimous == phase = "returned" => (verdict <=> refused = {})

=============================================================================
