----------------------------- MODULE MCWebsite -----------------------------
(* Two sites with the same threshold, one or two holders, three bundles of which two were
   issued in the same second.  Every token an enrolled holder could have made for either
   site, any nonce and any root is in the network, and so is each with its domain label
   exchanged, and one whose proof was made without independent seeds. *)
EXTENDS Website, TLC

CONSTANTS Shop, Forum, Alice, Bob, EmptyLeaf

MCSites == {Shop, Forum}
MCDomain == [s \in MCSites |-> <<s>>]
MCRequired == [s \in MCSites |-> 18]

Root(a, b) == [i \in 0 .. 1 |-> IF i = 0 THEN a ELSE b]
Before == Root(Alice, EmptyLeaf)
After == Root(Alice, Bob)

MCBundles ==
    {[root |-> r, tree_size |-> 2, issued_at |-> t, threshold |-> 18] :
        r \in {Before, After}, t \in {1, 2}}
        \ {[root |-> Before, tree_size |-> 2, issued_at |-> 2, threshold |-> 18]}

HonestToken(secret, slot, domain, epoch, root, nonce) ==
    LET cd == CtxDomain(domain, 18)
        ctx == ContextDigest(cd, epoch)
        key == TempKey(secret, ctx) IN
    [domain |-> domain, threshold |-> 18, epoch |-> epoch, temp_key |-> key,
     proof |-> Prove(secret, root, slot, ctx, ContextBytes(cd, epoch, root, key, nonce))]

AliceTokens == {HonestToken(Alice, 0, <<d>>, 0, r, n) :
                   d \in MCSites, r \in {Before, After}, n \in 1 .. MaxNonces}
BobTokens == {HonestToken(Bob, 1, <<Shop>>, 0, After, n) : n \in 1 .. MaxNonces}
Relabelled == {[t EXCEPT !.domain = <<d>>] : t \in AliceTokens, d \in MCSites}
Unbound == {[HonestToken(Bob, 1, <<Shop>>, 0, After, 1) EXCEPT !.proof.bound = FALSE]}

MCTokens == AliceTokens \cup BobTokens \cup Relabelled \cup Unbound

=============================================================================
