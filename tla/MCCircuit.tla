----------------------------- MODULE MCCircuit -----------------------------
(* The prime field of 241 elements in words of 256, with the real rounds, 8 full ones and
   22 partial ones; paths of up to three levels, with bits that are none among them. *)
EXTENDS Circuit

MCRC8 == [r \in 1 .. Rounds |-> [i \in Positions |-> (r * r + 5 * i + 3 * r * i + 7) % P]]
MCDiag == [i \in Positions |-> (2 * i * i + 3 * i + 6) % P]

Digest(n) == [i \in 0 .. 3 |-> (n * (i + 1) + 11 * i) % P]

MCWitnesses ==
    {[secret |-> Digest(s), bits |-> <<b>>, sibs |-> <<Digest(7)>>] :
         s \in {1, 40, 200}, b \in {0, 1, 2, 100, P - 1}}
    \cup {[secret |-> Digest(9), bits |-> <<b, c>>, sibs |-> <<Digest(3), Digest(8)>>] :
             b \in {0, 1, 17}, c \in {0, 1, P - 2}}
    \cup {[secret |-> Digest(s), bits |-> <<b, c, d>>,
           sibs |-> <<Digest(3), Digest(0), Digest(s)>>] :
             s \in {25, 60}, b \in {0, 1}, c \in {0, 1}, d \in {0, 1}}

=============================================================================
