----------------------------- MODULE Poseidon2 -----------------------------
(***************************************************************************)
(* The native fast path of code/python/core.py: the permutation, and the   *)
(* three functions of a credential made from it.  Every line reduces with  *)
(* % P.  The constant tables are parameters.                               *)
(***************************************************************************)
EXTENDS RustField, Sequences

CONSTANTS
    RF_HALF, RP,       \* rounds: full ones before and after, partial ones between
    RC8,               \* the round constants
    MAT_DIAG8_M_1,     \* the diagonal of the internal matrix
    TAG_LEAF, TAG_KEY  \* what keeps leaf and key apart

Positions == 0 .. 7
State == [Positions -> Field]
Digests == [0 .. 3 -> Field]
Rounds == 2 * RF_HALF + RP

ASSUME RoundsAssumption == RF_HALF \in Nat \ {0} /\ RP \in Nat
ASSUME TablesAssumption == RC8 \in [1 .. Rounds -> State] /\ MAT_DIAG8_M_1 \in State
ASSUME TagsAssumption == TAG_LEAF \in Nat /\ TAG_KEY \in Nat

-----------------------------------------------------------------------------
(* One block of _matmul_m4. *)
MatmulM4(x0, x1, x2, x3) ==
    LET t0 == (x0 + x1) % P
        t1 == (x2 + x3) % P
        t2 == (2 * x1 + t1) % P
        t3 == (2 * x3 + t0) % P
        t4 == (4 * t1 + t3) % P
        t5 == (4 * t0 + t2) % P
    IN <<(t3 + t5) % P, t5, (t2 + t4) % P, t4>>

MatmulExternal(x) ==
    LET a == MatmulM4(x[0], x[1], x[2], x[3])
        b == MatmulM4(x[4], x[5], x[6], x[7])
        s == [l \in 1 .. 4 |-> (a[l] + b[l]) % P]
    IN [i \in Positions |-> IF i < 4 THEN (a[i + 1] + s[i + 1]) % P
                                     ELSE (b[i - 3] + s[i - 3]) % P]

NativeSbox(v) ==
    LET v2 == (v * v) % P
        v4 == (v2 * v2) % P
    IN ((((v4 * v2) % P) * v) % P)

IsPartial(r) == RF_HALF < r /\ r <= RF_HALF + RP

NativePartial(x, r) ==
    LET first == NativeSbox((x[0] + RC8[r][0]) % P)
        s == (first + x[1] + x[2] + x[3] + x[4] + x[5] + x[6] + x[7]) % P
    IN [i \in Positions |-> ((IF i = 0 THEN first ELSE x[i]) * MAT_DIAG8_M_1[i] + s) % P]

NativeFull(x, r) ==
    MatmulExternal([i \in Positions |-> NativeSbox((x[i] + RC8[r][i]) % P)])

PermNative(state) ==
    LET after[r \in 0 .. Rounds] ==
            IF r = 0 THEN MatmulExternal(state)
            ELSE LET x == after[r - 1] IN IF IsPartial(r) THEN NativePartial(x, r)
                                                          ELSE NativeFull(x, r)
    IN after[Rounds]

FirstFour(x) == [i \in 0 .. 3 |-> x[i]]

Absorbed(s, tag) == [i \in Positions |-> IF i < 4 THEN s[i] ELSE IF i = 4 THEN tag ELSE 0]

Joined(l, r) == [i \in Positions |-> IF i < 4 THEN l[i] ELSE r[i - 4]]

LeafHashNative(s) == FirstFour(PermNative(Absorbed(s, TAG_LEAF)))

CompressNative(l, r) ==
    LET st == PermNative(Joined(l, r)) IN [i \in 0 .. 3 |-> (st[i] + l[i]) % P]

PrfNative(s, ctx) ==
    LET st == PermNative(Absorbed(s, TAG_KEY)) IN
    FirstFour(PermNative([i \in Positions |-> IF i < 4 THEN (st[i] + ctx[i]) % P ELSE st[i]]))

=============================================================================
