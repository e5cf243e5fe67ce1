-------------------------- MODULE MCProofPipeline --------------------------
(* Up to four repetitions and four threads: with three threads four repetitions leave a
   flag without a chunk.  The fields are one byte long, the inputs2 block two.  A proof of
   up to two repetitions may be exchanged for any blob of a length around those of its
   encodings, with any byte at every place where a flag can be. *)
EXTENDS ProofPipeline

FlagPlaces(n) == {FlagAt(has, k) : has \in [1 .. n -> BOOLEAN], k \in 1 .. n}

BlobsOf(n) ==
    LET lo == n * (RepLen + OpeningLen(FALSE)) IN
    {[header |-> "good", reps |-> n, len |-> len,
      byte |-> [o \in 0 .. len - 1 |-> IF o \in FlagPlaces(n) THEN flags[o] ELSE Payload]] :
         len \in lo - 1 .. lo + n * InputsLen + 1, flags \in [FlagPlaces(n) -> 0 .. 2]}

Empty(h, n) == [header |-> h, reps |-> n, len |-> 0, byte |-> <<>>]

MCAlteredBlobs ==
    UNION {BlobsOf(n) : n \in 1 .. MaxAltered}
        \cup {Empty("bad", 1), Empty("good", 0), Empty("good", MaxDeclared + 1)}

=============================================================================
