------------------------------ MODULE Circuit ------------------------------
(***************************************************************************)
(* The circuit of the statement, core.circuit and circuit.rs, run by the   *)
(* engines of both implementations side by side: one round of a            *)
(* permutation per step.  python reduces with % P, rust computes with      *)
(* field.rs.  The context is drawn first, by context_digest.               *)
(***************************************************************************)
EXTENDS Poseidon2

CONSTANTS
    Witnesses,  \* secret, bits and siblings, one element of each list per level
    CtxWords,   \* the words that the hash of a context may yield
    MaxDrawn    \* bound on the words that are drawn

Engines == {"python", "rust"}

ASSUME WitnessAssumption ==
    \A w \in Witnesses : /\ w.secret \in Digests
                         /\ w.bits \in Seq(Field) /\ w.sibs \in Seq(Digests)
                         /\ Len(w.sibs) = Len(w.bits)
ASSUME ContextAssumption == CtxWords \subseteq Words /\ MaxDrawn \in Nat

VARIABLES
    wit,     \* the witness
    pc,      \* which permutation is running, or what follows it
    raw,     \* context_digest: the words in its buffer
    off,     \*   the words it has read
    ctx,     \* the elements of the context so far
    round,   \* the rounds done of this permutation
    x,       \* per engine: its state
    inp,     \* per engine: what the permutation was given, for the feed-forward
    cur,     \* per engine: the digest it climbs with
    level,   \* levels climbed
    checks,  \* per engine: the bit checks so far
    key,     \* per engine: the output temp_key
    muls     \* the multiplications so far: the cursor of tapes and views

vars == <<wit, pc, raw, off, ctx, round, x, inp, cur, level, checks, key, muls>>

Depth == Len(wit.bits)

Running == {"leaf", "node", "key", "mix"}

-----------------------------------------------------------------------------
(* The gates of the engines. *)
Add(g, a, b) == IF g = "rust" THEN RsAdd(a, b) ELSE (a + b) % P
Sub(g, a, b) == IF g = "rust" THEN RsSub(a, b) ELSE (a - b) % P
Mul(g, a, b) == IF g = "rust" THEN RsMul(a, b) ELSE (a * b) % P
Cst(c) == c % P

Twice(g, a) == Add(g, a, a)

M4(g, x0, x1, x2, x3) ==
    LET t0 == Add(g, x0, x1)
        t1 == Add(g, x2, x3)
        t2 == Add(g, Twice(g, x1), t1)
        t3 == Add(g, Twice(g, x3), t0)
        t4 == Add(g, Add(g, Twice(g, t1), Twice(g, t1)), t3)
        t5 == Add(g, Add(g, Twice(g, t0), Twice(g, t0)), t2)
    IN <<Add(g, t3, t5), t5, Add(g, t2, t4), t4>>

Ext(g, v) ==
    LET a == M4(g, v[0], v[1], v[2], v[3])
        b == M4(g, v[4], v[5], v[6], v[7])
        s == [l \in 1 .. 4 |-> Add(g, a[l], b[l])]
    IN [i \in Positions |-> IF i < 4 THEN Add(g, a[i + 1], s[i + 1])
                                     ELSE Add(g, b[i - 3], s[i - 3])]

(* A slip: the same power by one product more. *)
FiveProducts(g, v) ==
    LET v2 == Mul(g, v, v)
        v4 == Mul(g, v2, v2)
        v5 == Mul(g, v4, v)
        v6 == Mul(g, v5, v)
    IN <<v2, v4, v5, v6, Mul(g, v6, v)>>

(* The products of an s-box, in the order of the gates; the last is the seventh power. *)
SboxProducts(g, v) ==
    LET v2 == Mul(g, v, v)
        v4 == Mul(g, v2, v2)
        v6 == Mul(g, v4, v2)
    IN <<v2, v4, v6, Mul(g, v6, v)>>

SboxMuls == Len(SboxProducts("rust", 0))

Sbox(g, v) == SboxProducts(g, v)[SboxMuls]

SumUp(g, v) ==
    Add(g, Add(g, Add(g, Add(g, Add(g, Add(g, Add(g, v[0], v[1]), v[2]), v[3]), v[4]), v[5]),
                  v[6]), v[7])

FullRound(g, v, r) == Ext(g, [i \in Positions |-> Sbox(g, Add(g, v[i], RC8[r][i]))])

PartialRound(g, v, r) ==
    LET w == [v EXCEPT ![0] = Sbox(g, Add(g, v[0], RC8[r][0]))]
        s == SumUp(g, w)
    IN [i \in Positions |-> Add(g, Mul(g, w[i], MAT_DIAG8_M_1[i]), s)]

(* b ? sib : cur, without a branch. *)
Chosen(g, b, c, sib) == Add(g, c, Mul(g, b, Sub(g, sib, c)))

Other(g, b, c, sib) == Sub(g, Add(g, c, sib), Chosen(g, b, c, sib))

(* A slip: the check of a bit that any element passes. *)
NoBitCheck(g, b) == Sub(g, b, b)

BitCheck(g, b) == Sub(g, Mul(g, b, b), b)

-----------------------------------------------------------------------------
(* The two initial digests of context_digest: eight words. *)
Init ==
    /\ wit \in Witnesses
    /\ pc = "context"
    /\ raw = 8 /\ off = 0 /\ ctx = <<>>
    /\ round = 0 /\ level = 0 /\ muls = 0
    /\ LET zero == [g \in Engines |-> [i \in Positions |-> 0]] IN x = zero /\ inp = zero
    /\ LET zero == [g \in Engines |-> [i \in 0 .. 3 |-> 0]] IN cur = zero /\ key = zero
    /\ checks = [g \in Engines |-> <<>>]

(* A slip: the buffer is extended when all of it was read, and one word more. *)
TooLate(read) == IF read > 8 THEN 8 ELSE 0

(* raw grows by 64 bytes whenever off > 56. *)
Extension(read) == IF read > 7 THEN 8 ELSE 0

(* One word of the context, kept when it is an element of the field. *)
Draw(w) ==
    /\ pc = "context" /\ Len(ctx) < 4 /\ off < MaxDrawn
    /\ off' = off + 1
    /\ raw' = raw + Extension(off + 1)
    /\ ctx' = IF w < P THEN Append(ctx, w) ELSE ctx
    /\ UNCHANGED <<wit, pc, round, x, inp, cur, level, checks, key, muls>>

(* A permutation begins with the external matrix. *)
Permute(which, input) ==
    /\ pc' = which /\ round' = 0
    /\ inp' = input
    /\ x' = [g \in Engines |-> Ext(g, input[g])]

(* The circuit gets the context; its first permutation hashes the secret. *)
StartLeaf ==
    /\ pc = "context" /\ Len(ctx) = 4
    /\ Permute("leaf", [g \in Engines |-> Absorbed(wit.secret, Cst(TAG_LEAF))])
    /\ raw' = 0 /\ off' = 0
    /\ UNCHANGED <<wit, ctx, cur, level, checks, key, muls>>

Full ==
    /\ pc \in Running /\ round < Rounds
    /\ ~IsPartial(round + 1)
    /\ x' = [g \in Engines |-> FullRound(g, x[g], round + 1)]
    /\ muls' = muls + 8 * SboxMuls
    /\ round' = round + 1
    /\ UNCHANGED <<wit, pc, raw, off, ctx, inp, cur, level, checks, key>>

Partial ==
    /\ pc \in Running /\ round < Rounds
    /\ IsPartial(round + 1)
    /\ x' = [g \in Engines |-> PartialRound(g, x[g], round + 1)]
    /\ muls' = muls + SboxMuls
    /\ round' = round + 1
    /\ UNCHANGED <<wit, pc, raw, off, ctx, inp, cur, level, checks, key>>

EndLeaf ==
    /\ pc = "leaf" /\ round = Rounds
    /\ cur' = [g \in Engines |-> FirstFour(x[g])]
    /\ pc' = "climb"
    /\ UNCHANGED <<wit, raw, off, ctx, round, x, inp, level, checks, key, muls>>

(* One level: the bit puts the digest left or right of its sibling. *)
StartNode ==
    /\ pc = "climb" /\ level < Depth
    /\ LET b == wit.bits[level + 1]
           sib == wit.sibs[level + 1] IN
       Permute("node", [g \in Engines |->
                           Joined([i \in 0 .. 3 |-> Chosen(g, b, cur[g][i], sib[i])],
                                  [i \in 0 .. 3 |-> Other(g, b, cur[g][i], sib[i])])])
    /\ muls' = muls + 4
    /\ UNCHANGED <<wit, raw, off, ctx, cur, level, checks, key>>

EndNode ==
    /\ pc = "node" /\ round = Rounds
    /\ cur' = [g \in Engines |-> [i \in 0 .. 3 |-> Add(g, x[g][i], inp[g][i])]]
    /\ checks' = [g \in Engines |-> Append(checks[g], BitCheck(g, wit.bits[level + 1]))]
    /\ muls' = muls + 1
    /\ level' = level + 1
    /\ pc' = "climb"
    /\ UNCHANGED <<wit, raw, off, ctx, round, x, inp, key>>

StartKey ==
    /\ pc = "climb" /\ level = Depth
    /\ Permute("key", [g \in Engines |-> Absorbed(wit.secret, Cst(TAG_KEY))])
    /\ UNCHANGED <<wit, raw, off, ctx, cur, level, checks, key, muls>>

StartMix ==
    /\ pc = "key" /\ round = Rounds
    /\ Permute("mix", [g \in Engines |-> [i \in Positions |->
                          IF i < 4 THEN Add(g, x[g][i], ctx[i + 1]) ELSE x[g][i]]])
    /\ UNCHANGED <<wit, raw, off, ctx, cur, level, checks, key, muls>>

Output ==
    /\ pc = "mix" /\ round = Rounds
    /\ key' = [g \in Engines |-> FirstFour(x[g])]
    /\ pc' = "done"
    /\ UNCHANGED <<wit, raw, off, ctx, round, x, inp, cur, level, checks, muls>>

Next ==
    \/ \E w \in CtxWords : Draw(w)
    \/ StartLeaf \/ Full \/ Partial \/ EndLeaf
    \/ StartNode \/ EndNode
    \/ StartKey \/ StartMix \/ Output

Spec == Init /\ [][Next]_vars

-----------------------------------------------------------------------------
num_muls(depth) == 344 * (3 + depth) + 5 * depth

(* The type of every variable; every element is canonical. *)
TypeOK ==
    /\ wit \in Witnesses
    /\ pc \in {"context", "climb", "done"} \cup Running
    /\ raw \in Nat /\ off \in Nat /\ ctx \in Seq(Field) /\ Len(ctx) <= 4
    /\ round \in 0 .. Rounds /\ level \in 0 .. Depth /\ muls \in Nat
    /\ x \in [Engines -> State] /\ inp \in [Engines -> State]
    /\ cur \in [Engines -> Digests] /\ key \in [Engines -> Digests]
    /\ checks \in [Engines -> Seq(Field)]

(* The two implementations compute the same circuit: the folded reductions of field.rs
   with their wrapping words, and the % P of core.py.  The views and commitments of a
   Rust proof are made of these values, and a Python verifier recomputes them. *)
EnginesAgree ==
    /\ x["rust"] = x["python"] /\ inp["rust"] = inp["python"]
    /\ cur["rust"] = cur["python"] /\ key["rust"] = key["python"]
    /\ checks["rust"] = checks["python"]

(* The buffer of context_digest is extended before it is read past: Rust would panic
   there, and Python would take the missing word for zero. *)
BufferIsLongEnough == pc = "context" /\ Len(ctx) < 4 => off < raw

(* What the climb of a path must come to. *)
NativeRoot ==
    LET after[n \in 0 .. Depth] ==
            IF n = 0 THEN LeafHashNative(wit.secret)
            ELSE IF wit.bits[n] = 1 THEN CompressNative(wit.sibs[n], after[n - 1])
                                    ELSE CompressNative(after[n - 1], wit.sibs[n])
    IN after[Depth]

(* What a proof proves: the circuit with its branch-free choice has the outputs of the
   native functions that wallets and trees use, on every path of bits; and the bit checks
   are zero for bits and for nothing else. *)
CircuitIsTheStatement ==
    pc = "done" =>
        /\ \A g \in Engines : key[g] = PrfNative(wit.secret, [i \in 0 .. 3 |-> ctx[i + 1]])
        /\ \A g \in Engines : Len(checks[g]) = Depth
        /\ \A n \in 1 .. Depth : checks["rust"][n] = 0 <=> wit.bits[n] \in {0, 1}
        /\ (\A n \in 1 .. Depth : wit.bits[n] \in {0, 1}) =>
               \A g \in Engines : cur[g] = NativeRoot

(* The circuit makes as many multiplications as num_muls says, for which tapes, views and
   the wire format are sized: no mask is used twice, and no honest view is short. *)
ProductsAreCounted == pc = "done" => muls = num_muls(Depth)

=============================================================================
