---------------------------- MODULE WalletTwins ----------------------------
(***************************************************************************)
(* Two wallets that are shown the same requests and take the same answers  *)
(* from their users, and differ only in where they are enrolled: what the  *)
(* warning reveals about the holder is what differs between them.          *)
(***************************************************************************)
EXTENDS CitizenWallet

CONSTANTS One, Other

ASSUME TwinsAssumption == Wallets = {One, Other} /\ One # Other

AskBoth(domain, a, allow) ==
    /\ Len(calls) + 2 <= MaxCalls
    /\ calls' = calls \o <<CallRecord(One, domain, a, allow), CallRecord(Other, domain, a, allow)>>
    /\ wallet' = [w \in Wallets |->
           AfterCall(wallet[w], domain, a, allow,
                     IF w = One THEN Len(calls) + 1 ELSE Len(calls) + 2)]
    /\ UNCHANGED <<file, indexHistory>>

SaveBoth == /\ file' = [w \in Wallets |-> Saved(wallet[w])]
            /\ unsaved' = lost
            /\ UNCHANGED <<wallet, calls, given, lost>>

LoadBoth == /\ \A w \in Wallets : file[w] # NoFile
            /\ wallet' = [w \in Wallets |-> Loaded(file[w])]
            /\ lost' = unsaved
            /\ UNCHANGED <<file, calls, given, unsaved>>

NextTwins ==
    \/ \E w \in Wallets, a \in Instances : \E idx \in NextIndices(w, a) : EnrollWith(w, a, idx)
    \/ \E d \in Domains, a \in Instances, allow \in BOOLEAN : AskBoth(d, a, allow)
    \/ SaveBoth
    \/ LoadBoth

SpecTwins == Init /\ [][NextTwins]_vars

(* "The warning is identical for every wallet whatever the holder's age": the k-th
   request warns one twin exactly when it warns the other, after any history of
   enrolments of either. *)
WarningsRevealNothing ==
    \A k \in 1 .. MaxCalls :
        2 * k <= Len(calls) =>
            (calls[2 * k - 1].outcome = "warning" <=> calls[2 * k].outcome = "warning")

=============================================================================
