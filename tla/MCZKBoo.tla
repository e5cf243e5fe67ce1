------------------------------ MODULE MCZKBoo ------------------------------
(* Arithmetic modulo 3, one witness element x, every kind of gate and two
   multiplications: the output is 2 * (x(x+1) - x) * x(x+1) + 2.  A party has one of two
   tapes, whose masks differ in both gates.  One lie, anywhere. *)
EXTENDS ZKBoo

Gate(op, a, b, c) == [op |-> op, a |-> a, b |-> b, c |-> c]

MCProgram == <<Gate("add_c", 1, 1, 1),
               Gate("mul", 1, 2, 0),
               Gate("sub", 3, 1, 0),
               Gate("mul", 4, 3, 0),
               Gate("mul_c", 5, 5, 2),
               Gate("cst", 1, 1, 2),
               Gate("add", 6, 7, 0)>>
MCOutputs == <<8>>
MCSeeds == {1, 2}
MCExpand == [s \in MCSeeds |-> IF s = 1 THEN <<0, 1, 2>> ELSE <<2, 2, 1>>]

=============================================================================
