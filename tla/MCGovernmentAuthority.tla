----------------------- MODULE MCGovernmentAuthority -----------------------
(* Two thresholds, two citizens who may present either of two commitments, a tree
   of two slots: full trees, re-enrolment and two publications all happen. *)
EXTENDS GovernmentAuthority, TLC

CONSTANTS Alice, Bob, LeafA, LeafB, Single

MCInstances == {Single, 16}
MCCitizens == {Alice, Bob}
MCLeaves == {LeafA, LeafB}

(* Citizens and leaves are only ever compared for equality. *)
MCSymmetry == Permutations(MCCitizens) \cup Permutations(MCLeaves)

=============================================================================
