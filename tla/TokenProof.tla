---------------------------- MODULE TokenProof ----------------------------
(***************************************************************************)
(* The cryptography of a token, as its users see it: core.prove and        *)
(* core.verify are an ideal proof system, prf_native, context_digest and   *)
(* the Merkle hash are free of collisions.  A secret is named by the       *)
(* wallet that drew it, a root by the assignment of leaves to slots that   *)
(* it commits to.                                                          *)
(***************************************************************************)
EXTENDS ContextEncoding

(* A slip a maintainer could make in the definitions below. *)

VerifyWithoutRoot(proof, ctx, bytes, tempKey, root) ==
    proof.ctx = ctx /\ (proof.bound => proof.bytes = bytes) /\ proof.key = tempKey

(* leaf_hash_native and prf_native. *)
LeafHash(secret) == secret
TempKey(secret, ctx) == <<secret, ctx>>

(* The root that the authentication path of slot idx, read from a tree with these
   leaves, folds to when it starts from leaf. *)
FoldedRoot(leaves, idx, leaf) == [leaves EXCEPT ![idx] = leaf]

(* prove: the circuit computes the temporary key and the folded root from the witness; it
   draws three seeds for every repetition, which is what binds the proof to the context
   bytes. *)
Prove(secret, leaves, idx, ctx, bytes) ==
    [ctx |-> ctx, bytes |-> bytes, bound |-> TRUE, key |-> TempKey(secret, ctx),
     root |-> FoldedRoot(leaves, idx, LeafHash(secret))]

(* verify: the opened views are replayed with the verifier's own context and the outputs it
   expects.  Its context bytes only choose the challenges: they exclude the proof made for
   other bytes if the seeds were drawn as prove() does, and may not if they were not. *)
Verify(proof, ctx, bytes, tempKey, root) ==
    /\ proof.ctx = ctx
    /\ proof.bound => proof.bytes = bytes
    /\ proof.key = tempKey
    /\ proof.root = root

=============================================================================
