--------------------------- MODULE CitizenWallet ---------------------------
(***************************************************************************)
(* The wallet of code/python/protocol.py: class CitizenWallet.  The record *)
(* wallet[w] is the object in memory, file[w] what save() last wrote; a    *)
(* restart is a load().  The secret of a wallet never changes and is named *)
(* by the wallet itself.                                                   *)
(***************************************************************************)
EXTENDS Naturals, Sequences

CONSTANTS
    Wallets,
    Domains,      \* the domains that ask for a token
    Malformed,    \* the <<domain, threshold>> that ctx_domain refuses
    Instances,    \* the thresholds of the bundles a wallet is shown
    NoThreshold,  \* the threshold of the single-set bundle, None in the code
    NoIndex,      \* a leaf index the wallet does not have, None in the code
    NoFile,       \* nothing was saved yet
    MaxIndex,     \* bound on the leaf indices an authority hands out
    MaxCalls      \* bound on the calls of make_token

ASSUME NoIndexAssumption == NoIndex \notin Nat
ASSUME NoThresholdAssumption == NoThreshold \in Instances /\ NoIndex # NoThreshold

VARIABLES
    wallet,   \* per wallet: leaf_index, indices, pins
    file,     \* per wallet: the saved wallet
    calls,    \* history: every make_token call on a valid bundle, with its outcome
    given,    \* history: per wallet and authority, the index it gave last
    unsaved,  \* history: per wallet, the authorities whose last index the file lacks
    lost      \* history: per wallet, those whose last index a restart took from memory

indexHistory == <<given, unsaved, lost>>
vars == <<wallet, file, calls, indexHistory>>

(* past is history: the calls that the object in memory has seen (a load() forgets those
   after the save). *)
NewWallet == [leaf_index |-> NoIndex,
              indices |-> [a \in Instances |-> NoIndex],
              pins |-> [d \in Domains |-> NoThreshold],
              past |-> {}]

Init == /\ wallet = [w \in Wallets |-> NewWallet]
        /\ file = [w \in Wallets |-> NoFile]
        /\ calls = <<>>
        /\ given = [w \in Wallets |-> [a \in Instances |-> NoIndex]]
        /\ unsaved = [w \in Wallets |-> {}]
        /\ lost = [w \in Wallets |-> {}]

-----------------------------------------------------------------------------
(* Slips a maintainer could make in the operations below. *)

FirstIndexOnly(mem, a, idx) == IF mem.leaf_index = NoIndex THEN idx ELSE mem.leaf_index

WarnsTheEnrolledOnly(mem, domain, a, allow) ==
    /\ a # NoThreshold
    /\ mem.indices[a] # NoIndex
    /\ mem.pins[domain] \notin {NoThreshold, a}
    /\ ~allow

TextLeftAsText(key) == IF key.text = "None" THEN NoThreshold ELSE NoIndex

PinOnFirstUseOnly(mem, domain, a) ==
    IF mem.pins[domain] = NoThreshold /\ a # NoThreshold
    THEN [mem.pins EXCEPT ![domain] = a] ELSE mem.pins

PinEveryDomain(mem, domain, a) ==
    IF a = NoThreshold THEN mem.pins ELSE [d \in Domains |-> a]

-----------------------------------------------------------------------------
(* enroll_with: a single-set enrolment always becomes leaf_index, a threshold one only
   when the wallet has none yet. *)
LeafIndexAfter(mem, a, idx) ==
    IF mem.leaf_index = NoIndex \/ a = NoThreshold THEN idx ELSE mem.leaf_index

AfterEnrolment(mem, a, idx) ==
    [mem EXCEPT !.indices[a] = idx,
                !.leaf_index = LeafIndexAfter(mem, a, idx)]

(* make_token, in the order of the code: the pinned threshold, then the leaf index, then
   the domain as a string. *)
Warns(mem, domain, a, allow) ==
    /\ a # NoThreshold
    /\ mem.pins[domain] \notin {NoThreshold, a}
    /\ ~allow

PinsAfter(mem, domain, a) ==
    IF a = NoThreshold THEN mem.pins ELSE [mem.pins EXCEPT ![domain] = a]

LeafIndexFor(mem, a) == IF a = NoThreshold THEN mem.leaf_index ELSE mem.indices[a]

Outcome(mem, domain, a, allow) ==
    IF Warns(mem, domain, a, allow) THEN "warning"
    ELSE IF LeafIndexFor(mem, a) = NoIndex THEN "declined"
    ELSE IF <<domain, a>> \in Malformed THEN "malformed" ELSE "token"

AfterCall(mem, domain, a, allow, call) ==
    [mem EXCEPT !.pins = IF Warns(mem, domain, a, allow) THEN @ ELSE PinsAfter(mem, domain, a),
                !.past = @ \cup {call}]

CallRecord(w, domain, a, allow) ==
    [wallet |-> w, domain |-> domain, threshold |-> a, allow |-> allow,
     outcome |-> Outcome(wallet[w], domain, a, allow)]

(* The JSON object of save() has text for keys; load() reads them back. *)
KeyText(a) == IF a = NoThreshold THEN [text |-> "None"] ELSE [text |-> "digits", value |-> a]
TextKey(key) == IF key.text = "None" THEN NoThreshold ELSE key.value

Saved(mem) ==
    [leaf_index |-> mem.leaf_index,
     indices |-> {[key |-> KeyText(a), index |-> mem.indices[a]] :
                     a \in {b \in Instances : mem.indices[b] # NoIndex}},
     pins |-> mem.pins, past |-> mem.past]

Loaded(saved) ==
    [leaf_index |-> saved.leaf_index,
     indices |-> [a \in Instances |->
                     LET entries == {e \in saved.indices : TextKey(e.key) = a} IN
                     IF entries = {} THEN NoIndex ELSE (CHOOSE e \in entries : TRUE).index],
     pins |-> saved.pins, past |-> saved.past]

-----------------------------------------------------------------------------
EnrollWith(w, a, idx) ==
    /\ wallet' = [wallet EXCEPT ![w] = AfterEnrolment(@, a, idx)]
    /\ given' = [given EXCEPT ![w][a] = idx]
    /\ unsaved' = [unsaved EXCEPT ![w] = @ \cup {a}]
    /\ lost' = [lost EXCEPT ![w] = @ \ {a}]
    /\ UNCHANGED <<file, calls>>

MakeToken(w, domain, a, allow) ==
    /\ Len(calls) < MaxCalls
    /\ calls' = Append(calls, CallRecord(w, domain, a, allow))
    /\ wallet' = [wallet EXCEPT ![w] = AfterCall(@, domain, a, allow, Len(calls) + 1)]
    /\ UNCHANGED <<file, indexHistory>>

(* The file then lacks what the memory has lost; a restart loses what the file lacks. *)
Save(w) == /\ file' = [file EXCEPT ![w] = Saved(wallet[w])]
           /\ unsaved' = [unsaved EXCEPT ![w] = lost[w]]
           /\ UNCHANGED <<wallet, calls, given, lost>>

Load(w) == /\ file[w] # NoFile
           /\ wallet' = [wallet EXCEPT ![w] = Loaded(file[w])]
           /\ lost' = [lost EXCEPT ![w] = unsaved[w]]
           /\ UNCHANGED <<file, calls, given, unsaved>>

(* An authority hands its slots out in order and none of them twice. *)
NextIndices(w, a) == {idx \in 0 .. MaxIndex : given[w][a] # NoIndex => idx > given[w][a]}

Next == \E w \in Wallets :
           \/ \E a \in Instances : \E idx \in NextIndices(w, a) : EnrollWith(w, a, idx)
           \/ \E d \in Domains, a \in Instances, allow \in BOOLEAN : MakeToken(w, d, a, allow)
           \/ Save(w)
           \/ Load(w)

Spec == Init /\ [][Next]_vars

-----------------------------------------------------------------------------
Memories == [leaf_index : Nat \cup {NoIndex},
             indices : [Instances -> Nat \cup {NoIndex}],
             pins : [Domains -> Instances \cup {NoThreshold}],
             past : SUBSET (1 .. Len(calls))]

CallRecords == [wallet : Wallets, domain : Domains, threshold : Instances,
                allow : BOOLEAN, outcome : {"warning", "declined", "malformed", "token"}]

(* The type of every variable; a saved file always loads to a wallet. *)
TypeOK ==
    /\ wallet \in [Wallets -> Memories]
    /\ \A w \in Wallets : file[w] # NoFile => Loaded(file[w]) \in Memories
    /\ calls \in Seq(CallRecords)
    /\ given \in [Wallets -> [Instances -> Nat \cup {NoIndex}]]
    /\ unsaved \in [Wallets -> SUBSET Instances]
    /\ lost \in [Wallets -> SUBSET Instances]

(* The calls of a log that settled a threshold for the domain, as far as this memory
   goes: they had one and raised no warning, whether a token came of it or not. *)
Settling(mem, log, domain) ==
    {k \in mem.past : log[k].domain = domain /\ log[k].threshold # NoThreshold
                        /\ log[k].outcome # "warning"}

(* Two settling calls with different thresholds have a confirmed one in between. *)
Confirmed(mem, log) ==
    \A d \in Domains : \A i, j \in Settling(mem, log, d) :
        (i < j /\ log[i].threshold # log[j].threshold) =>
            \E k \in Settling(mem, log, d) : i < k /\ k <= j /\ log[k].allow

(* A warning was not confirmed in advance, and its threshold is not the one that the
   last settling call before it had. *)
Justified(mem, log) ==
    \A j \in mem.past : log[j].outcome = "warning" =>
        /\ ~log[j].allow
        /\ \E i \in Settling(mem, log, log[j].domain) :
               /\ i < j /\ log[i].threshold # log[j].threshold
               /\ \A k \in Settling(mem, log, log[j].domain) : k < j => k <= i

(* One threshold per domain: among the calls the wallet remembers, two that settled
   different thresholds for the same domain are separated by the user's confirmation,
   in any interleaving of requests, enrolments, saves and restarts. *)
SecondThresholdConfirmed == \A w \in Wallets : Confirmed(wallet[w], calls)

(* Asking again for the same threshold never warns, and a declined request counts: the
   wallet warns only about a threshold that differs from the last one settled, enrolled
   or not.  (That it warns about every such one is SecondThresholdConfirmed.) *)
WarningsAreJustified == \A w \in Wallets : Justified(wallet[w], calls)

(* The index a proof is built from is the one the authority of that threshold gave last,
   through saves, restarts and enrolments in any order; when the single-set authority
   gave one, single-set proofs use it.  The only exception is what the code can lose: an
   index given after the save that the wallet was restarted from, until the next one. *)
IndexFollowsAuthority ==
    \A w \in Wallets : \A a \in Instances \ lost[w] :
        a # NoThreshold \/ given[w][a] # NoIndex =>
            LeafIndexFor(wallet[w], a) = given[w][a]

(* Wallets "maintain a persistent pin store and raise an explicit, age-independent
   warning on any change": SecondThresholdConfirmed for every token the wallet ever
   made, those from before a restart included. *)
SecondThresholdAlwaysConfirmed ==
    \A i, j \in DOMAIN calls :
        LET early == calls[i]
            late == calls[j] IN
        (/\ i < j /\ early.wallet = late.wallet /\ early.domain = late.domain
         /\ early.outcome = "token" /\ late.outcome = "token"
         /\ NoThreshold \notin {early.threshold, late.threshold}
         /\ early.threshold # late.threshold) =>
            \E k \in i + 1 .. j : /\ calls[k].wallet = late.wallet
                                  /\ calls[k].domain = late.domain /\ calls[k].allow

(* NotEnrolledError: "The wallet holds no leaf in the tree it is being asked to prove
   against.  It declines locally instead of emitting a proof that cannot verify": a
   wallet makes tokens only for authorities that gave it an index. *)
ProvesOnlyWhereEnrolled ==
    \A k \in DOMAIN calls :
        calls[k].outcome = "token" => given[calls[k].wallet][calls[k].threshold] # NoIndex

=============================================================================
