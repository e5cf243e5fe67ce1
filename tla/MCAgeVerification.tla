------------------------- MODULE MCAgeVerification -------------------------
(* A small instance of the whole protocol: an adult and a 17-year-old, an authority with
   a tree for the age of 16 and a single set for the age of 18, and two sites of one
   domain, one for each.  A wallet may be told that the name of the site is "shop#16".
   Another authority has put the 17-year-old in a single set of its own; a wallet that
   has only an index of the 16+ tree tries it in any single set. *)
EXTENDS AgeVerification

CONSTANTS Alice, Bob, Shop, Shop16, ShopAll

MCHolders == {Alice, Bob}
MCAge == [h \in MCHolders |-> IF h = Alice THEN 20 ELSE 17]

MCInstances == {16, NoThreshold}
MCSites == {Shop16, ShopAll}
MCDomain == [s \in MCSites |-> <<Shop>>]
MCRequired == [s \in MCSites |-> IF s = Shop16 THEN 16 ELSE NoThreshold]
MCOtherDomains == {<<Shop, Hash, 1, 6>>}
MCOtherBundles == {[root |-> [i \in 0 .. Capacity - 1 |-> IF i = 0 THEN Bob ELSE EmptyLeaf],
                    tree_size |-> 1, issued_at |-> 0, threshold |-> NoThreshold]}

=============================================================================
