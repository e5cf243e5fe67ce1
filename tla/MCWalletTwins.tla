--------------------------- MODULE MCWalletTwins ---------------------------
(* Two domains that ask for two thresholds and for the single set; the twins enrol
   independently in each. *)
EXTENDS WalletTwins, TLC

CONSTANTS Shop, Forum

MCWallets == {One, Other}
MCInstances == {NoThreshold, 16, 18}
MCDomains == {Shop, Forum}
DomainSymmetry == Permutations(MCDomains)

=============================================================================
