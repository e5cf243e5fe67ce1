------------------------------- MODULE ZKBoo -------------------------------
(***************************************************************************)
(* One repetition of the proof, in code/python/core.py, and in circuit.rs  *)
(* and zkboo.rs with the same engines gate by gate: a prover runs the      *)
(* circuit on three additive shares and commits to each party's view; the  *)
(* challenge e opens party e and party f = e + 1, and the verifier replays *)
(* those two.  The circuit is any straight-line program.  Hashes are ideal:*)
(* a commitment is what was hashed, and a challenge is any e whatever was  *)
(* committed.  The same first messages may meet each challenge once, which *)
(* is how the soundness of the protocol is stated.                         *)
(***************************************************************************)
EXTENDS Integers, Sequences, FiniteSets

CONSTANTS
    P,            \* the modulus
    NumInputs,    \* witness elements, num_witness in the code
    Program,      \* the gates in order; gate k writes wire NumInputs + k
    Outputs,      \* the wires that are the outputs of the circuit
    Seeds,
    Expand,       \* per seed: the tape expand_tape makes of it
    NoProof, NoChallenge, NoOpening,
    MaxLies       \* bound on the deviations of a prover from prove_one_rep

Field == 0 .. P - 1
Parties == 0 .. 2
Lists(n) == [1 .. n -> Field]

Gates == [op : {"cst", "add", "sub", "add_c", "mul_c", "mul"}, a : Nat, b : Nat, c : Field]

MulsUpTo(n) == {k \in 1 .. n : Program[k].op = "mul"}
NumMuls == Cardinality(MulsUpTo(Len(Program)))
NumWires == NumInputs + Len(Program)

ASSUME FieldAssumption == P \in Nat /\ P > 1
ASSUME ProgramAssumption ==
    /\ NumInputs \in Nat /\ Program \in Seq(Gates)
    /\ \A k \in DOMAIN Program : {Program[k].a, Program[k].b} \subseteq 1 .. NumInputs + k - 1
    /\ Outputs \in Seq(1 .. NumWires)
ASSUME TapeAssumption == Expand \in [Seeds -> Lists(NumInputs + NumMuls)]
ASSUME SentinelAssumption == NoChallenge \notin Parties

VARIABLES
    \* the prover: seeds and explicit input shares, the value and the three shares of
    \* each wire so far, the mask cursor i, the multiplication outputs per party
    seeds, inputs2, plain, wires, i, mults, lies,
    \* commitments and output shares, with the outputs the verifier expects
    sent,
    \* the verifier: challenge, opening, the two replayed shares of each wire so far, the
    \* cursors on masks and on mults_f, the recomputed outputs of e; a verdict per challenge
    e, opened, pair, vi, j, me, verdict

proverVars == <<seeds, inputs2, plain, wires, i, mults>>
replayVars == <<e, opened, pair, vi, j, me>>
vars == <<proverVars, lies, sent, replayVars, verdict>>

-----------------------------------------------------------------------------
(* field.rs, with a slip a maintainer could make. *)
SubWithoutWrap(x, y) == x - y

Add(x, y) == IF x + y >= P THEN x + y - P ELSE x + y
Sub(x, y) == IF x >= y THEN x - y ELSE x + P - y
Mul(x, y) == (x * y) % P

(* The party after p, whose shares p's multiplications read. *)
After(p) == (p + 1) % 3

-----------------------------------------------------------------------------
(* A slip: the mask of the next party is not taken off. *)
OneMaskOnly(a, a1, b, b1, r, r1) == Add(Add(Mul(a, b), Mul(a1, b)), Add(Mul(a, b1), r))

-----------------------------------------------------------------------------
(* The three engines.  A constant belongs to party 0 alone. *)
NativeGate(g, w) ==
    CASE g.op = "cst" -> g.c
      [] g.op = "add" -> Add(w[g.a], w[g.b])
      [] g.op = "sub" -> Sub(w[g.a], w[g.b])
      [] g.op = "add_c" -> Add(w[g.a], g.c)
      [] g.op = "mul_c" -> Mul(w[g.a], g.c)
      [] g.op = "mul" -> Mul(w[g.a], w[g.b])

LinearShare(g, isZero, x, y) ==
    CASE g.op = "cst" -> IF isZero THEN g.c ELSE 0
      [] g.op = "add" -> Add(x, y)
      [] g.op = "sub" -> Sub(x, y)
      [] g.op = "add_c" -> IF isZero THEN Add(x, g.c) ELSE x
      [] g.op = "mul_c" -> Mul(x, g.c)

(* A party's share of a product, from its own shares a, b and mask r and those of the
   party after it. *)
MulShare(a, a1, b, b1, r, r1) ==
    Sub(Add(Add(Mul(a, b), Mul(a1, b)), Add(Mul(a, b1), r)), r1)

ProverLinear(g, w) == [p \in Parties |-> LinearShare(g, p = 0, w[g.a][p], w[g.b][p])]

ProverMul(g, w, n) ==
    [p \in Parties |->
        MulShare(w[g.a][p], w[g.a][After(p)], w[g.b][p], w[g.b][After(p)],
                 Expand[seeds[p]][n], Expand[seeds[After(p)]][n])]

(* A slip: the opened pair is taken for parties 0 and 1. *)
ConstantsToTheFirst(g, w, ch) ==
    <<LinearShare(g, TRUE, w[g.a][1], w[g.b][1]), LinearShare(g, FALSE, w[g.a][2], w[g.b][2])>>

PairLinear(g, w, ch) ==
    <<LinearShare(g, ch = 0, w[g.a][1], w[g.b][1]),
      LinearShare(g, After(ch) = 0, w[g.a][2], w[g.b][2])>>

PairMul(g, w, te, tf, zf) ==
    <<MulShare(w[g.a][1], w[g.a][2], w[g.b][1], w[g.b][2], te, tf), zf>>

-----------------------------------------------------------------------------
(* Shares of parties 0 and 1 are their tape prefixes, party 2's complete the sharing. *)
InputsOfTwo(witness, t0, t1) == [k \in 1 .. NumInputs |-> Sub(Sub(witness[k], t0[k]), t1[k])]

(* xe and xf in verify_one_rep. *)
InputShare(p, tape, in2, k) == IF p < 2 THEN tape[k] ELSE in2[k]

Extra(p, in2) == IF p = 2 THEN in2 ELSE <<>>

Commit(seed, extra, outputs) == [seed |-> seed, extra |-> extra, mults |-> outputs]

Init ==
    /\ seeds \in [Parties -> Seeds]
    /\ plain \in Lists(NumInputs)
    /\ inputs2 = InputsOfTwo(plain, Expand[seeds[0]], Expand[seeds[1]])
    /\ wires = [k \in 1 .. NumInputs |->
                   [p \in Parties |-> InputShare(p, Expand[seeds[p]], inputs2, k)]]
    /\ i = NumInputs
    /\ mults = [p \in Parties |-> <<>>]
    /\ lies = 0 /\ sent = NoProof
    /\ e = NoChallenge /\ opened = NoOpening /\ pair = <<>> /\ vi = 0 /\ j = 0 /\ me = <<>>
    /\ verdict = [p \in Parties |-> "none"]

-----------------------------------------------------------------------------
(* A prover that lies does so by what it sends in place of honest. *)
Says(said, honest) ==
    /\ lies' = IF said = honest THEN lies ELSE lies + 1
    /\ lies' <= MaxLies

(* The gate that writes the next wire. *)
GateAfter(w) == Program[Len(w) - NumInputs + 1]

ProveLinear ==
    /\ sent = NoProof /\ Len(wires) < NumWires
    /\ LET g == GateAfter(wires) IN
       /\ g.op # "mul"
       /\ plain' = Append(plain, NativeGate(g, plain))
       /\ wires' = Append(wires, ProverLinear(g, wires))
    /\ UNCHANGED <<seeds, inputs2, i, mults, lies, sent, replayVars, verdict>>

ProveMul(z) ==
    /\ sent = NoProof /\ Len(wires) < NumWires
    /\ LET g == GateAfter(wires) IN
       /\ g.op = "mul"
       /\ Says(z, ProverMul(g, wires, i + 1))
       /\ plain' = Append(plain, NativeGate(g, plain))
    /\ wires' = Append(wires, z)
    /\ i' = i + 1
    /\ mults' = [p \in Parties |-> Append(mults[p], z[p])]
    /\ UNCHANGED <<seeds, inputs2, sent, replayVars, verdict>>

OutputShares == [p \in Parties |-> [k \in DOMAIN Outputs |-> wires[Outputs[k]][p]]]
PlainOutputs == [k \in DOMAIN Outputs |-> plain[Outputs[k]]]

(* The end of prove_one_rep; what the verifier expects is its own affair. *)
Send(outs, expected) ==
    /\ sent = NoProof /\ Len(wires) = NumWires
    /\ Says(outs, OutputShares)
    /\ sent' = [commits |-> [p \in Parties |-> Commit(seeds[p], Extra(p, inputs2), mults[p])],
                outs |-> outs, expected |-> expected]
    /\ UNCHANGED <<proverVars, replayVars, verdict>>

-----------------------------------------------------------------------------
Asked(ch) == 2 \in {ch, After(ch)}

HonestOpening(ch) ==
    [seed_e |-> seeds[ch], seed_f |-> seeds[After(ch)],
     inputs2 |-> IF Asked(ch) THEN inputs2 ELSE <<>>, mults_f |-> mults[After(ch)]]

(* The openings that pass the checks on lengths and ranges; the others are refused. *)
Openings(ch) == [seed_e : Seeds, seed_f : Seeds,
                 inputs2 : IF Asked(ch) THEN Lists(NumInputs) ELSE {<<>>},
                 mults_f : Lists(NumMuls)]

SumsMatch(outs, expected) ==
    \A k \in DOMAIN Outputs : Add(Add(outs[0][k], outs[1][k]), outs[2][k]) = expected[k]

RejectSums(ch) ==
    /\ sent # NoProof /\ e = NoChallenge /\ verdict[ch] = "none"
    /\ ~SumsMatch(sent.outs, sent.expected)
    /\ verdict' = [verdict EXCEPT ![ch] = "reject"]
    /\ UNCHANGED <<proverVars, lies, sent, replayVars>>

RejectOpening(ch) ==
    /\ sent # NoProof /\ e = NoChallenge /\ verdict[ch] = "none"
    /\ SumsMatch(sent.outs, sent.expected)
    /\ lies < MaxLies /\ lies' = lies + 1
    /\ verdict' = [verdict EXCEPT ![ch] = "reject"]
    /\ UNCHANGED <<proverVars, sent, replayVars>>

StartReplay(ch, opening) ==
    /\ sent # NoProof /\ e = NoChallenge /\ verdict[ch] = "none"
    /\ Says(opening, HonestOpening(ch))
    /\ SumsMatch(sent.outs, sent.expected)
    /\ e' = ch
    /\ opened' = opening
    /\ pair' = [k \in 1 .. NumInputs |->
                   <<InputShare(ch, Expand[opening.seed_e], opening.inputs2, k),
                     InputShare(After(ch), Expand[opening.seed_f], opening.inputs2, k)>>]
    /\ vi' = NumInputs /\ j' = 0 /\ me' = <<>>
    /\ UNCHANGED <<proverVars, sent, verdict>>

ReplayLinear ==
    /\ e # NoChallenge /\ Len(pair) < NumWires
    /\ LET g == GateAfter(pair) IN
       /\ g.op # "mul"
       /\ pair' = Append(pair, PairLinear(g, pair, e))
    /\ UNCHANGED <<proverVars, lies, sent, e, opened, vi, j, me, verdict>>

ReplayMul ==
    /\ e # NoChallenge /\ Len(pair) < NumWires
    /\ LET g == GateAfter(pair)
           z == PairMul(g, pair, Expand[opened.seed_e][vi + 1], Expand[opened.seed_f][vi + 1],
                        opened.mults_f[j + 1]) IN
       /\ g.op = "mul"
       /\ pair' = Append(pair, z)
       /\ me' = Append(me, z[1])
    /\ vi' = vi + 1 /\ j' = j + 1
    /\ UNCHANGED <<proverVars, lies, sent, e, opened, verdict>>

(* A slip: the commitment of the recomputed party is not compared. *)
WithoutRecomputedView ==
    /\ j = NumMuls
    /\ Commit(opened.seed_f, Extra(After(e), opened.inputs2), opened.mults_f)
         = sent.commits[After(e)]
    /\ \A k \in DOMAIN Outputs :
           pair[Outputs[k]] = <<sent.outs[e][k], sent.outs[After(e)][k]>>

(* The checks after the replay. *)
Convincing ==
    /\ j = NumMuls
    /\ Commit(opened.seed_e, Extra(e, opened.inputs2), me) = sent.commits[e]
    /\ Commit(opened.seed_f, Extra(After(e), opened.inputs2), opened.mults_f)
         = sent.commits[After(e)]
    /\ \A k \in DOMAIN Outputs :
           pair[Outputs[k]] = <<sent.outs[e][k], sent.outs[After(e)][k]>>

Judge ==
    /\ e # NoChallenge /\ Len(pair) = NumWires
    /\ verdict' = [verdict EXCEPT ![e] = IF Convincing THEN "accept" ELSE "reject"]
    /\ e' = NoChallenge /\ opened' = NoOpening /\ pair' = <<>> /\ vi' = 0 /\ j' = 0 /\ me' = <<>>
    /\ UNCHANGED <<proverVars, lies, sent>>

Next ==
    \/ ProveLinear
    \/ \E z \in [Parties -> Field] : ProveMul(z)
    \/ \E outs \in [Parties -> [DOMAIN Outputs -> Field]], expected \in [DOMAIN Outputs -> Field] :
           Send(outs, expected)
    \/ \E ch \in Parties :
           \/ RejectSums(ch)
           \/ RejectOpening(ch)
           \/ \E opening \in Openings(ch) : StartReplay(ch, opening)
    \/ ReplayLinear
    \/ ReplayMul
    \/ Judge

Spec == Init /\ [][Next]_vars

-----------------------------------------------------------------------------
(* The type of every variable, and the cursors: masks are taken from behind the inputs,
   one per multiplication so far, by the prover and by the verifier. *)
TypeOK ==
    /\ seeds \in [Parties -> Seeds] /\ inputs2 \in Lists(NumInputs)
    /\ plain \in Seq(Field) /\ wires \in Seq([Parties -> Field])
    /\ mults \in [Parties -> Seq(Field)]
    /\ i = NumInputs + Cardinality(MulsUpTo(Len(wires) - NumInputs))
    /\ verdict \in [Parties -> {"none", "accept", "reject"}]
    /\ e = NoChallenge =>
           opened = NoOpening /\ pair = <<>> /\ vi = 0 /\ j = 0 /\ me = <<>>
    /\ e # NoChallenge =>
           /\ e \in Parties /\ opened \in Openings(e) /\ pair \in Seq(Field \X Field)
           /\ j = Cardinality(MulsUpTo(Len(pair) - NumInputs)) /\ vi = NumInputs + j
           /\ me \in Seq(Field) /\ Len(me) = j

(* The three engines agree: while the prover follows the circuit, the three shares of
   every wire add up to the value of the wire. *)
SharesReconstruct ==
    lies = 0 => \A n \in 1 .. Len(wires) :
                    Add(Add(wires[n][0], wires[n][1]), wires[n][2]) = plain[n]

(* Completeness: a proof made as prove_one_rep makes it, of a statement that is true, is
   rejected under no challenge. *)
HonestProofAccepted ==
    (lies = 0 /\ sent # NoProof /\ sent.expected = PlainOutputs) =>
        \A ch \in Parties : verdict[ch] # "reject"

(* Soundness: first messages that answer all three challenges prove that the circuit has
   the expected outputs on the witness they commit to, whatever the prover committed to,
   sent, and opened.  A false statement passes a repetition for two challenges in three
   at most, which is where "(2/3)^219" comes from. *)
ThreeAcceptancesAreProof ==
    (\A ch \in Parties : verdict[ch] = "accept") => sent.expected = PlainOutputs

=============================================================================
