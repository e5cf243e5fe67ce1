-------------------------- MODULE MCCitizenWallet --------------------------
(* One wallet, the single-set authority and two thresholds, one domain: with two indices
   to enrol under and three requests a second domain would multiply the states by four.
   MCWalletTwins has two domains.  The wallet only compares thresholds for equality, so
   they are model values; in MCCitizenWallet.cfg the second one stands for a threshold
   outside the range that ctx_domain takes. *)
EXTENDS CitizenWallet

CONSTANTS Alice, Shop, Sixteen, Eighteen

MCWallets == {Alice}
MCInstances == {NoThreshold, Sixteen, Eighteen}
MCDomains == {Shop}
MCMalformed == {<<Shop, Eighteen>>}

=============================================================================
