------------------------ MODULE CitizenWalletProofs ------------------------
(* What the wallet guarantees for every number of wallets, domains, thresholds, calls,
   saves and restarts; and that two wallets warn alike. *)
EXTENDS WalletTwins, TLAPS

(* The pin of a domain is the threshold of the last settling call. *)
PinIsLast(mem, log) ==
    \A d \in Domains :
        /\ mem.pins[d] = NoThreshold => Settling(mem, log, d) = {}
        /\ mem.pins[d] # NoThreshold =>
               \E k \in Settling(mem, log, d) :
                   log[k].threshold = mem.pins[d] /\ \A j \in Settling(mem, log, d) : j <= k

(* Of the indices an authority gave, a memory knows all but those it misses. *)
KnowsIndices(mem, gave, missing) ==
    \A a \in Instances \ missing :
        a # NoThreshold \/ gave[a] # NoIndex => LeafIndexFor(mem, a) = gave[a]

MemoriesOf(log) == [leaf_index : Nat \cup {NoIndex},
                    indices : [Instances -> Nat \cup {NoIndex}],
                    pins : [Domains -> Instances \cup {NoThreshold}],
                    past : SUBSET (1 .. Len(log))]

(* What holds of every wallet in memory and of every wallet a file would load to. *)
MemoryOK(mem, log) ==
    /\ mem \in MemoriesOf(log)
    /\ PinIsLast(mem, log)
    /\ Confirmed(mem, log)
    /\ Justified(mem, log)

HistoryOK == /\ given \in [Wallets -> [Instances -> Nat \cup {NoIndex}]]
             /\ unsaved \in [Wallets -> SUBSET Instances]
             /\ lost \in [Wallets -> SUBSET Instances]
             /\ \A w \in Wallets : KnowsIndices(wallet[w], given[w], lost[w])
             /\ \A w \in Wallets :
                    file[w] # NoFile => KnowsIndices(Loaded(file[w]), given[w], unsaved[w])

(* The inductive invariant. *)
Inv == /\ calls \in Seq(CallRecords)
       /\ wallet = [w \in Wallets |-> wallet[w]]
       /\ \A w \in Wallets : MemoryOK(wallet[w], calls)
       /\ \A w \in Wallets : file[w] # NoFile => MemoryOK(Loaded(file[w]), calls)
       /\ file = [w \in Wallets |-> file[w]]
       /\ HistoryOK

-----------------------------------------------------------------------------
(* A restart from a save gives back the wallet that was saved: the text keys of the file
   lose nothing. *)
LEMMA RoundTrip ==
    ASSUME NEW log, NEW mem \in MemoriesOf(log)
    PROVE  Loaded(Saved(mem)) = mem
  <1> DEFINE Entries == {[key |-> KeyText(a), index |-> mem.indices[a]] :
                            a \in {b \in Instances : mem.indices[b] # NoIndex}}
             Named(a) == {e \in Entries : TextKey(e.key) = a}
             indices == [a \in Instances |-> IF Named(a) = {} THEN NoIndex
                                             ELSE (CHOOSE e \in Named(a) : TRUE).index]
  <1>1. \A a \in Instances : TextKey(KeyText(a)) = a
    BY DEF TextKey, KeyText
  <1>2. ASSUME NEW a \in Instances
        PROVE  indices[a] = mem.indices[a]
    <2>1. CASE mem.indices[a] = NoIndex
      <3>1. Named(a) = {}
        BY <1>1, <2>1
      <3> QED BY <2>1, <3>1
    <2>2. CASE mem.indices[a] # NoIndex
      <3>1. Named(a) = {[key |-> KeyText(a), index |-> mem.indices[a]]}
        BY <1>1, <2>2
      <3>2. (CHOOSE e \in Named(a) : TRUE) \in Named(a)
        <4> HIDE DEF Named
        <4> QED BY <3>1
      <3>3. (CHOOSE e \in Named(a) : TRUE).index = mem.indices[a]
        <4> HIDE DEF Named
        <4> QED BY <3>1, <3>2
      <3>4. Named(a) # {}
        BY <3>1
      <3> HIDE DEF Named
      <3> QED BY <3>3, <3>4
    <2> QED BY <2>1, <2>2
  <1>3. indices = mem.indices
    BY <1>2 DEF MemoriesOf
  <1>4. Loaded(Saved(mem)) =
          [leaf_index |-> mem.leaf_index, indices |-> indices, pins |-> mem.pins,
           past |-> mem.past]
    BY DEF Loaded, Saved
  <1> QED BY <1>3, <1>4 DEF MemoriesOf

(* A longer log changes nothing for a memory that does not remember the new calls. *)
LEMMA LongerLog ==
    ASSUME NEW log \in Seq(CallRecords), NEW longer \in Seq(CallRecords),
           Len(log) <= Len(longer), \A k \in 1 .. Len(log) : longer[k] = log[k],
           NEW mem, MemoryOK(mem, log)
    PROVE  MemoryOK(mem, longer)
  <1>1. mem.past \subseteq 1 .. Len(log) /\ mem \in MemoriesOf(longer)
    BY SMT DEF MemoryOK, MemoriesOf
  <1>2. \A d : Settling(mem, longer, d) = Settling(mem, log, d)
    BY <1>1 DEF Settling
  <1>3. \A d : \A k \in Settling(mem, log, d) : longer[k] = log[k]
    BY <1>1 DEF Settling
  <1>4. PinIsLast(mem, longer)
    BY <1>2, <1>3 DEF MemoryOK, PinIsLast
  <1>5. Confirmed(mem, longer)
    BY <1>2, <1>3 DEF MemoryOK, Confirmed
  <1>6. Justified(mem, longer)
    BY <1>1, <1>2, <1>3 DEF MemoryOK, Justified
  <1> QED BY <1>1, <1>4, <1>5, <1>6 DEF MemoryOK

(* Enrolment touches only the indices. *)
LEMMA EnrolmentOK ==
    ASSUME NEW log, NEW mem, MemoryOK(mem, log), NEW a \in Instances, NEW idx \in Nat
    PROVE  MemoryOK(AfterEnrolment(mem, a, idx), log)
  <1> DEFINE after == AfterEnrolment(mem, a, idx)
  <1>1. /\ after \in MemoriesOf(log)
        /\ after.pins = mem.pins /\ after.past = mem.past
        /\ after.indices = [mem.indices EXCEPT ![a] = idx]
    BY DEF AfterEnrolment, LeafIndexAfter, MemoryOK, MemoriesOf
  <1>2. \A d : Settling(after, log, d) = Settling(mem, log, d)
    BY <1>1 DEF Settling
  <1>3. PinIsLast(after, log) /\ Confirmed(after, log) /\ Justified(after, log)
    BY <1>1, <1>2 DEF MemoryOK, PinIsLast, Confirmed, Justified
  <1> QED BY <1>1, <1>3 DEF MemoryOK

(* An enrolment makes its index known and leaves those of the other authorities known: a
   threshold one becomes leaf_index only where no single-set authority gave one. *)
LEMMA EnrolmentKnown ==
    ASSUME NEW log, NEW mem \in MemoriesOf(log), NEW a \in Instances, NEW idx \in Nat,
           NEW gave \in [Instances -> Nat \cup {NoIndex}], NEW missing,
           KnowsIndices(mem, gave, missing)
    PROVE  KnowsIndices(AfterEnrolment(mem, a, idx), [gave EXCEPT ![a] = idx], missing \ {a})
  <1> DEFINE after == AfterEnrolment(mem, a, idx)
  <1>1. /\ after.indices = [mem.indices EXCEPT ![a] = idx]
        /\ after.leaf_index = LeafIndexAfter(mem, a, idx)
        /\ mem.indices \in [Instances -> Nat \cup {NoIndex}]
    BY DEF AfterEnrolment, MemoriesOf
  <1> HIDE DEF after
  <1> SUFFICES ASSUME NEW b \in Instances \ (missing \ {a}),
                      b # NoThreshold \/ [gave EXCEPT ![a] = idx][b] # NoIndex
               PROVE  LeafIndexFor(after, b) = [gave EXCEPT ![a] = idx][b]
    BY DEF KnowsIndices, after
  <1>2. CASE b = a
    BY <1>1, <1>2 DEF LeafIndexFor, LeafIndexAfter
  <1>3. CASE b # a
    <2>1. /\ b \in Instances \ missing /\ [gave EXCEPT ![a] = idx][b] = gave[b]
          /\ LeafIndexFor(mem, b) = gave[b]
      BY <1>3 DEF KnowsIndices
    <2> QED BY <1>1, <1>3, <2>1 DEF LeafIndexFor, LeafIndexAfter
  <1> QED BY <1>2, <1>3

(* A call of make_token: the new call is the last one remembered, so a warning is
   justified by the call behind the pin, and a settling call without confirmation has
   the threshold of that call. *)
LEMMA CallOK ==
    ASSUME NEW log \in Seq(CallRecords), NEW longer \in Seq(CallRecords),
           \A k \in 1 .. Len(log) : longer[k] = log[k],
           NEW n \in Len(log) + 1 .. Len(longer), Len(log) \in Nat, Len(longer) \in Nat,
           NEW mem, MemoryOK(mem, log),
           NEW d \in Domains, NEW a \in Instances, NEW allow \in BOOLEAN,
           longer[n].domain = d, longer[n].threshold = a, longer[n].allow = allow,
           longer[n].outcome = Outcome(mem, d, a, allow)
    PROVE  MemoryOK(AfterCall(mem, d, a, allow, n), longer)
  <1> DEFINE after == AfterCall(mem, d, a, allow, n)
             S(m, x) == Settling(m, longer, x)
  <1>1. MemoryOK(mem, longer)
    BY LongerLog, SMT
  <1>2. n \in 1 .. Len(longer) /\ n \in Nat /\ \A k \in mem.past : k \in Nat /\ k < n
    BY SMT DEF MemoryOK, MemoriesOf
  <1>3. /\ after.past = mem.past \cup {n}
        /\ after.pins = IF Warns(mem, d, a, allow) THEN mem.pins ELSE PinsAfter(mem, d, a)
    BY <1>1 DEF AfterCall, MemoryOK, MemoriesOf
  <1>4. after \in MemoriesOf(longer)
    <2>1. PinsAfter(mem, d, a) \in [Domains -> Instances \cup {NoThreshold}]
      BY <1>1 DEF PinsAfter, MemoryOK, MemoriesOf
    <2> QED BY <1>1, <1>2, <2>1 DEF AfterCall, MemoryOK, MemoriesOf
  <1>6. longer[n].outcome = "warning" <=> Warns(mem, d, a, allow)
    BY DEF Outcome
  <1>7. \A x : S(after, x) = IF x = d /\ a # NoThreshold /\ ~Warns(mem, d, a, allow)
                             THEN S(mem, x) \cup {n} ELSE S(mem, x)
    BY <1>3, <1>6 DEF Settling
  <1>8. \A x : \A k \in S(mem, x) : k \in Nat /\ k < n
    BY <1>2 DEF Settling
  <1>9. PinIsLast(mem, longer) /\ Confirmed(mem, longer) /\ Justified(mem, longer)
        /\ mem.pins \in [Domains -> Instances \cup {NoThreshold}]
    BY <1>1 DEF MemoryOK, MemoriesOf
  <1> HIDE DEF after
  <1>10. CASE a # NoThreshold /\ ~Warns(mem, d, a, allow)
    <2>1. \A x \in Domains : x # d => after.pins[x] = mem.pins[x] /\ S(after, x) = S(mem, x)
      BY <1>3, <1>7, <1>9, <1>10 DEF PinsAfter
    <2>2. after.pins[d] = a /\ S(after, d) = S(mem, d) \cup {n}
      BY <1>3, <1>7, <1>9, <1>10 DEF PinsAfter
    <2>3. PinIsLast(after, longer)
      <3>1. \A j \in S(after, d) : j <= n
        BY <1>2, <1>8, <2>2, SMT
      <3>2. ASSUME NEW x \in Domains
            PROVE  /\ after.pins[x] = NoThreshold => S(after, x) = {}
                   /\ after.pins[x] # NoThreshold =>
                        \E k \in S(after, x) :
                            longer[k].threshold = after.pins[x] /\ \A j \in S(after, x) : j <= k
        BY <1>9, <1>10, <2>1, <2>2, <3>1 DEF PinIsLast
      <3> QED BY <3>2 DEF PinIsLast
    <2>4. Confirmed(after, longer)
      <3> SUFFICES ASSUME NEW x \in Domains, NEW i \in S(after, x), NEW j \in S(after, x),
                          i < j, longer[i].threshold # longer[j].threshold
                   PROVE  \E k \in S(after, x) : i < k /\ k <= j /\ longer[k].allow
        BY DEF Confirmed
      <3>1. CASE i \in S(mem, x) /\ j \in S(mem, x)
        <4>1. PICK k \in S(mem, x) : i < k /\ k <= j /\ longer[k].allow
          BY <1>9, <3>1 DEF Confirmed
        <4> QED BY <1>7, <4>1
      <3>2. CASE x = d /\ j = n
        <4>1. i \in S(mem, d) /\ i \in Nat /\ n <= n /\ longer[j].threshold = a
          <5>1. i # n /\ n \in Nat /\ n <= n
            BY <1>2, <3>2, SMT
          <5>2. i \in S(mem, d)
            BY <2>2, <3>2, <5>1
          <5> QED BY <1>8, <3>2, <5>1, <5>2
        <4>2. CASE allow
          BY <2>2, <3>2, <4>1, <4>2
        <4>3. CASE ~allow
          <5>1. mem.pins[d] \in {NoThreshold, a}
            BY <1>10, <4>3 DEF Warns
          <5>2. PICK k \in S(mem, d) : longer[k].threshold = a /\ \A m \in S(mem, d) : m <= k
            BY <1>9, <1>10, <4>1, <5>1 DEF PinIsLast
          <5>3. i < k /\ k <= n
            BY <1>2, <1>8, <3>2, <4>1, <5>2, SMT
          <5>4. PICK m \in S(mem, d) : i < m /\ m <= k /\ longer[m].allow
            BY <1>9, <3>2, <4>1, <5>2, <5>3 DEF Confirmed
          <5>5. m <= n
            BY <1>2, <1>8, <5>4, SMT
          <5> QED BY <1>7, <1>10, <2>2, <3>2, <5>4, <5>5
        <4> QED BY <4>2, <4>3
      <3>3. ~(i = n)
        BY <1>2, <1>8, <2>1, <2>2, SMT
      <3> QED BY <1>7, <3>1, <3>2, <3>3
    <2>5. Justified(after, longer)
      <3> SUFFICES ASSUME NEW j \in after.past, longer[j].outcome = "warning"
                   PROVE  /\ ~longer[j].allow
                          /\ \E i \in S(after, longer[j].domain) :
                                /\ i < j /\ longer[i].threshold # longer[j].threshold
                                /\ \A k \in S(after, longer[j].domain) : k < j => k <= i
        BY DEF Justified
      <3>1. j \in mem.past /\ j \in Nat /\ j < n
        BY <1>2, <1>3, <1>6, <1>10
      <3>2. ~(n < j)
        BY <1>2, <3>1, SMT
      <3> QED BY <1>7, <1>9, <3>1, <3>2 DEF Justified
    <2> QED BY <1>4, <2>3, <2>4, <2>5 DEF MemoryOK, after
  <1>11. CASE ~(a # NoThreshold /\ ~Warns(mem, d, a, allow))
    <2>1. after.pins = mem.pins /\ \A x : S(after, x) = S(mem, x)
      BY <1>3, <1>7, <1>11 DEF PinsAfter
    <2>2. PinIsLast(after, longer) /\ Confirmed(after, longer)
      BY <1>9, <2>1 DEF PinIsLast, Confirmed
    <2>3. Justified(after, longer)
      <3> SUFFICES ASSUME NEW j \in after.past, longer[j].outcome = "warning"
                   PROVE  /\ ~longer[j].allow
                          /\ \E i \in S(mem, longer[j].domain) :
                                /\ i < j /\ longer[i].threshold # longer[j].threshold
                                /\ \A k \in S(mem, longer[j].domain) : k < j => k <= i
        BY <2>1 DEF Justified
      <3>1. CASE j \in mem.past
        BY <1>9, <3>1 DEF Justified
      <3>2. CASE j = n
        <4>1. Warns(mem, d, a, allow)
          BY <1>6, <3>2
        <4>2. mem.pins[d] # NoThreshold /\ mem.pins[d] # a /\ ~allow
          BY <4>1 DEF Warns
        <4>3. PICK i \in S(mem, d) : longer[i].threshold = mem.pins[d] /\ \A k \in S(mem, d) : k <= i
          BY <1>9, <4>2 DEF PinIsLast
        <4> QED BY <1>8, <3>2, <4>2, <4>3
      <3> QED BY <1>3, <3>1, <3>2
    <2> QED BY <1>4, <2>2, <2>3 DEF MemoryOK, after
  <1> QED BY <1>10, <1>11 DEF after

-----------------------------------------------------------------------------
(* A call touches none of the indices. *)
LEMMA CallKnown ==
    ASSUME NEW mem, NEW log, mem \in MemoriesOf(log), NEW d, NEW a, NEW allow, NEW n
    PROVE  \A b : LeafIndexFor(AfterCall(mem, d, a, allow, n), b) = LeafIndexFor(mem, b)
  BY DEF LeafIndexFor, AfterCall, MemoriesOf

LEMMA InvInit == Init => Inv
  <1> SUFFICES ASSUME Init PROVE Inv
    OBVIOUS
  <1>1. calls = <<>> /\ calls \in Seq(CallRecords) /\ Len(calls) = 0
    BY DEF Init
  <1>2. NewWallet \in MemoriesOf(calls) /\ NewWallet.past = {}
    BY <1>1 DEF NewWallet, MemoriesOf
  <1>3. \A d : Settling(NewWallet, calls, d) = {}
    BY <1>2 DEF Settling
  <1>4. PinIsLast(NewWallet, calls) /\ Confirmed(NewWallet, calls) /\ Justified(NewWallet, calls)
    BY <1>2, <1>3 DEF PinIsLast, Confirmed, Justified, NewWallet
  <1>5. HistoryOK
    BY DEF Init, HistoryOK, KnowsIndices, LeafIndexFor, NewWallet
  <1>6. MemoryOK(NewWallet, calls)
    BY <1>2, <1>4 DEF MemoryOK
  <1> QED BY <1>1, <1>5, <1>6 DEF Init, Inv

(* An enrolment of any wallet. *)
LEMMA EnrollKeeps ==
    ASSUME Inv, NEW w \in Wallets, NEW a \in Instances, NEW idx \in 0 .. MaxIndex,
           EnrollWith(w, a, idx)
    PROVE  Inv'
  <1>1. idx \in Nat
    BY SMT
  <1>2. /\ wallet' = [wallet EXCEPT ![w] = AfterEnrolment(wallet[w], a, idx)]
        /\ file' = file /\ calls' = calls
        /\ given' = [given EXCEPT ![w] = [given[w] EXCEPT ![a] = idx]]
        /\ unsaved' = [unsaved EXCEPT ![w] = unsaved[w] \cup {a}]
        /\ lost' = [lost EXCEPT ![w] = lost[w] \ {a}]
    BY DEF EnrollWith, Inv, HistoryOK
  <1>3. MemoryOK(AfterEnrolment(wallet[w], a, idx), calls)
    BY <1>1, EnrolmentOK DEF Inv
  <1>4. \A v \in Wallets : MemoryOK(wallet'[v], calls)
    BY <1>2, <1>3 DEF Inv
  <1>5. wallet' = [v \in Wallets |-> wallet'[v]]
    BY <1>2 DEF Inv
  <1>6. KnowsIndices(AfterEnrolment(wallet[w], a, idx), [given[w] EXCEPT ![a] = idx],
                     lost[w] \ {a})
    BY <1>1, EnrolmentKnown DEF Inv, HistoryOK, MemoryOK
  <1>7. ASSUME NEW v \in Wallets
        PROVE  /\ KnowsIndices(wallet'[v], given'[v], lost'[v])
               /\ file'[v] # NoFile => KnowsIndices(Loaded(file'[v]), given'[v], unsaved'[v])
    <2>1. CASE v = w
      <3>1. /\ wallet'[v] = AfterEnrolment(wallet[w], a, idx)
            /\ given'[v] = [given[w] EXCEPT ![a] = idx]
            /\ unsaved'[v] = unsaved[w] \cup {a} /\ lost'[v] = lost[w] \ {a}
            /\ given[w] \in [Instances -> Nat \cup {NoIndex}]
        BY <1>2, <2>1 DEF Inv, HistoryOK
      <3>2. file[w] # NoFile => KnowsIndices(Loaded(file[w]), given[w], unsaved[w])
        BY DEF Inv, HistoryOK
      <3>3. file[w] # NoFile =>
                KnowsIndices(Loaded(file[w]), [given[w] EXCEPT ![a] = idx], unsaved[w] \cup {a})
        BY <3>1, <3>2 DEF KnowsIndices
      <3> QED BY <1>2, <1>6, <2>1, <3>1, <3>3
    <2>2. CASE v # w
      <3>1. /\ wallet'[v] = wallet[v] /\ given'[v] = given[v]
            /\ unsaved'[v] = unsaved[v] /\ lost'[v] = lost[v]
        BY <1>2, <2>2 DEF Inv, HistoryOK
      <3> QED BY <1>2, <3>1 DEF Inv, HistoryOK
    <2> QED BY <2>1, <2>2
  <1>8. HistoryOK'
    BY <1>1, <1>2, <1>7 DEF Inv, HistoryOK
  <1> QED BY <1>2, <1>4, <1>5, <1>8 DEF Inv

(* A step that writes some of the files. *)
LEMMA SaveKeeps ==
    ASSUME Inv, wallet' = wallet, calls' = calls,
           file' = [w \in Wallets |-> file'[w]],
           given' = given, lost' = lost, unsaved' \in [Wallets -> SUBSET Instances],
           \A w \in Wallets : \/ file'[w] = file[w] /\ unsaved'[w] = unsaved[w]
                              \/ file'[w] = Saved(wallet[w]) /\ unsaved'[w] = lost[w]
    PROVE  Inv'
  <1>1. \A w \in Wallets : Loaded(Saved(wallet[w])) = wallet[w]
    BY RoundTrip DEF Inv, MemoryOK
  <1>2. \A w \in Wallets : file'[w] # NoFile => MemoryOK(Loaded(file'[w]), calls)
    BY <1>1 DEF Inv
  <1>3. HistoryOK'
    BY <1>1 DEF Inv, HistoryOK
  <1> QED BY <1>2, <1>3 DEF Inv

(* A step that restarts some of the wallets. *)
LEMMA LoadKeeps ==
    ASSUME Inv, file' = file, calls' = calls,
           wallet' = [w \in Wallets |-> wallet'[w]],
           given' = given, unsaved' = unsaved, lost' \in [Wallets -> SUBSET Instances],
           \A w \in Wallets : \/ wallet'[w] = wallet[w] /\ lost'[w] = lost[w]
                              \/ /\ file[w] # NoFile /\ wallet'[w] = Loaded(file[w])
                                 /\ lost'[w] = unsaved[w]
    PROVE  Inv'
  <1>1. \A w \in Wallets : MemoryOK(wallet'[w], calls)
    BY DEF Inv
  <1>2. HistoryOK'
    BY DEF Inv, HistoryOK
  <1> QED BY <1>1, <1>2 DEF Inv

(* A step that asks some of the wallets, the request of each recorded in a place of its own. *)
LEMMA CallKeeps ==
    ASSUME Inv, file' = file, UNCHANGED indexHistory, calls' \in Seq(CallRecords), Len(calls) <= Len(calls'),
           \A k \in 1 .. Len(calls) : calls'[k] = calls[k],
           wallet' = [w \in Wallets |-> wallet'[w]],
           NEW d \in Domains, NEW a \in Instances, NEW allow \in BOOLEAN,
           \A w \in Wallets :
               \/ wallet'[w] = wallet[w]
               \/ \E n \in Len(calls) + 1 .. Len(calls') :
                     /\ calls'[n] = CallRecord(w, d, a, allow)
                     /\ wallet'[w] = AfterCall(wallet[w], d, a, allow, n)
    PROVE  Inv'
  <1>1. calls \in Seq(CallRecords) /\ Len(calls) \in Nat /\ Len(calls') \in Nat
    BY DEF Inv
  <1>2. ASSUME NEW w \in Wallets
        PROVE  MemoryOK(wallet'[w], calls')
    <2>1. MemoryOK(wallet[w], calls)
      BY DEF Inv
    <2>2. CASE wallet'[w] = wallet[w]
      BY <1>1, <2>1, <2>2, LongerLog
    <2>3. ASSUME NEW n \in Len(calls) + 1 .. Len(calls'),
                 calls'[n] = CallRecord(w, d, a, allow),
                 wallet'[w] = AfterCall(wallet[w], d, a, allow, n)
          PROVE  MemoryOK(wallet'[w], calls')
      <3>1. /\ calls'[n].domain = d /\ calls'[n].threshold = a /\ calls'[n].allow = allow
            /\ calls'[n].outcome = Outcome(wallet[w], d, a, allow)
        BY <2>3 DEF CallRecord
      <3> QED BY <1>1, <2>1, <2>3, <3>1, CallOK
    <2> QED BY <2>2, <2>3
  <1>3. \A w \in Wallets : file'[w] # NoFile => MemoryOK(Loaded(file'[w]), calls')
    BY <1>1, LongerLog DEF Inv
  <1>4. \A w \in Wallets : \A b : LeafIndexFor(wallet'[w], b) = LeafIndexFor(wallet[w], b)
    BY CallKnown DEF Inv, MemoryOK
  <1>5. HistoryOK'
    BY <1>4 DEF Inv, HistoryOK, KnowsIndices, indexHistory
  <1> QED BY <1>2, <1>3, <1>5 DEF Inv

LEMMA InvNext == Inv /\ [Next]_vars => Inv'
  <1> SUFFICES ASSUME Inv, [Next]_vars PROVE Inv'
    OBVIOUS
  <1>1. ASSUME NEW w \in Wallets, NEW a \in Instances, NEW idx \in NextIndices(w, a),
               EnrollWith(w, a, idx)
        PROVE  Inv'
    BY <1>1, EnrollKeeps DEF NextIndices
  <1>2. ASSUME NEW w \in Wallets, NEW d \in Domains, NEW a \in Instances,
               NEW allow \in BOOLEAN, MakeToken(w, d, a, allow)
        PROVE  Inv'
    <2> DEFINE n == Len(calls) + 1
    <2>1. calls \in Seq(CallRecords) /\ Len(calls) \in Nat
      BY DEF Inv
    <2>2. CallRecord(w, d, a, allow) \in CallRecords
      BY DEF CallRecord, CallRecords, Outcome
    <2>3. /\ calls' = Append(calls, CallRecord(w, d, a, allow)) /\ file' = file
          /\ UNCHANGED indexHistory
          /\ wallet' = [wallet EXCEPT ![w] = AfterCall(wallet[w], d, a, allow, n)]
      BY <1>2 DEF MakeToken
    <2>4. calls' \in Seq(CallRecords) /\ Len(calls') = n /\ n \in n .. n
          /\ calls'[n] = CallRecord(w, d, a, allow)
          /\ \A k \in 1 .. Len(calls) : calls'[k] = calls[k]
      BY <2>1, <2>2, <2>3
    <2>5. wallet' = [v \in Wallets |-> wallet'[v]]
          /\ wallet'[w] = AfterCall(wallet[w], d, a, allow, n)
          /\ \A v \in Wallets \ {w} : wallet'[v] = wallet[v]
      BY <2>3 DEF Inv
    <2>6. Len(calls) <= Len(calls')
      BY <2>1, <2>4, SMT
    <2> HIDE DEF n
    <2> QED BY <2>3, <2>4, <2>5, <2>6, CallKeeps DEF n
  <1>3. ASSUME NEW w \in Wallets, Save(w)
        PROVE  Inv'
    <2>1. /\ file' = [file EXCEPT ![w] = Saved(wallet[w])] /\ wallet' = wallet
          /\ calls' = calls /\ unsaved' = [unsaved EXCEPT ![w] = lost[w]]
          /\ given' = given /\ lost' = lost
      BY <1>3 DEF Save
    <2>2. /\ file' = [v \in Wallets |-> file'[v]]
          /\ unsaved' \in [Wallets -> SUBSET Instances]
          /\ \A v \in Wallets : \/ file'[v] = file[v] /\ unsaved'[v] = unsaved[v]
                                \/ file'[v] = Saved(wallet[v]) /\ unsaved'[v] = lost[v]
      BY <2>1 DEF Inv, HistoryOK
    <2> QED BY <2>1, <2>2, SaveKeeps
  <1>4. ASSUME NEW w \in Wallets, Load(w)
        PROVE  Inv'
    <2>1. /\ wallet' = [wallet EXCEPT ![w] = Loaded(file[w])] /\ file' = file
          /\ calls' = calls /\ lost' = [lost EXCEPT ![w] = unsaved[w]]
          /\ given' = given /\ unsaved' = unsaved /\ file[w] # NoFile
      BY <1>4 DEF Load
    <2>2. /\ wallet' = [v \in Wallets |-> wallet'[v]]
          /\ lost' \in [Wallets -> SUBSET Instances]
          /\ \A v \in Wallets : \/ wallet'[v] = wallet[v] /\ lost'[v] = lost[v]
                                \/ /\ file[v] # NoFile /\ wallet'[v] = Loaded(file[v])
                                   /\ lost'[v] = unsaved[v]
      BY <2>1 DEF Inv, HistoryOK
    <2> QED BY <2>1, <2>2, LoadKeeps
  <1>5. CASE UNCHANGED vars
    BY <1>5 DEF vars, indexHistory, Inv, HistoryOK
  <1> QED BY <1>1, <1>2, <1>3, <1>4, <1>5 DEF Next

THEOREM Invariance == Spec => []Inv
  BY InvInit, InvNext, PTL DEF Spec

(* Wallets keep their shape and every saved file loads to a wallet, for every number of
   wallets, calls and restarts (enroll_with, make_token, save, load). *)
THEOREM TypeCorrect == Spec => []TypeOK
  <1>1. Inv => TypeOK
    BY DEF Inv, TypeOK, HistoryOK, MemoryOK, MemoriesOf, Memories
  <1> QED BY <1>1, Invariance, PTL

(* make_token never proves a second threshold to a domain without the user's
   confirmation, among the calls the wallet remembers. *)
THEOREM OneThreshold == Spec => []SecondThresholdConfirmed
  <1>1. Inv => SecondThresholdConfirmed
    BY DEF Inv, SecondThresholdConfirmed, MemoryOK
  <1> QED BY <1>1, Invariance, PTL

(* make_token warns only about a threshold that differs from the last one settled. *)
THEOREM WarningsAreReal == Spec => []WarningsAreJustified
  <1>1. Inv => WarningsAreJustified
    BY DEF Inv, WarningsAreJustified, MemoryOK
  <1> QED BY <1>1, Invariance, PTL

(* The index make_token builds a proof from is the one enroll_with got last from the
   authority of the bundle, through saves and restarts, unless the wallet was restarted
   from a file of before that enrolment: the index given is recorded where no restart
   reaches it. *)
THEOREM IndexAgreement == Spec => []IndexFollowsAuthority
  <1>1. Inv => IndexFollowsAuthority
    BY DEF Inv, IndexFollowsAuthority, HistoryOK, KnowsIndices
  <1> QED BY <1>1, Invariance, PTL

-----------------------------------------------------------------------------
(* Two wallets shown the same requests have the same pins, in memory and in the files,
   whatever their enrolments. *)
Alike == \A k \in Nat \ {0} :
             2 * k <= Len(calls) =>
                 (calls[2 * k - 1].outcome = "warning" <=> calls[2 * k].outcome = "warning")

TwinInv == /\ Inv
           /\ wallet[One].pins = wallet[Other].pins
           /\ (file[One] # NoFile /\ file[Other] # NoFile) =>
                  Loaded(file[One]).pins = Loaded(file[Other]).pins
           /\ \E m \in Nat : Len(calls) = 2 * m
           /\ Alike

LEMMA TwinInit == Init => TwinInv
  <1> SUFFICES ASSUME Init PROVE TwinInv
    OBVIOUS
  <1>1. Inv
    BY InvInit
  <1>2. Len(calls) = 0
    BY DEF Init
  <1>3. \E m \in Nat : Len(calls) = 2 * m
    BY <1>2
  <1>4. Alike
    BY <1>2 DEF Alike
  <1> QED BY <1>1, <1>3, <1>4, TwinsAssumption DEF TwinInv, Init

LEMMA AskBothKeeps ==
    ASSUME TwinInv, NEW d \in Domains, NEW a \in Instances, NEW allow \in BOOLEAN,
           AskBoth(d, a, allow)
    PROVE  TwinInv'
  <1> DEFINE n == Len(calls)
             first == CallRecord(One, d, a, allow)
             second == CallRecord(Other, d, a, allow)
  <1>1. calls \in Seq(CallRecords) /\ n \in Nat
    BY DEF TwinInv, Inv
  <1>2. first \in CallRecords /\ second \in CallRecords
    BY TwinsAssumption DEF CallRecord, CallRecords, Outcome
  <1>3. calls' = calls \o <<first, second>> /\ file' = file /\ UNCHANGED indexHistory
        /\ wallet' = [w \in Wallets |-> AfterCall(wallet[w], d, a, allow,
                                                  IF w = One THEN n + 1 ELSE n + 2)]
    BY DEF AskBoth
  <1>4. /\ calls' \in Seq(CallRecords) /\ Len(calls') = n + 2
        /\ calls'[n + 1] = first /\ calls'[n + 2] = second
        /\ \A k \in 1 .. n : calls'[k] = calls[k]
    <2> HIDE DEF first, second
    <2> QED BY <1>1, <1>2, <1>3
  <1>5. /\ wallet' = [w \in Wallets |-> wallet'[w]]
        /\ wallet'[One] = AfterCall(wallet[One], d, a, allow, n + 1)
        /\ wallet'[Other] = AfterCall(wallet[Other], d, a, allow, n + 2)
    BY <1>3, TwinsAssumption
  <1>6. n + 1 \in n + 1 .. n + 2 /\ n + 2 \in n + 1 .. n + 2 /\ n <= n + 2
    BY <1>1, SMT
  <1>7. \A w \in Wallets :
            \E k \in Len(calls) + 1 .. Len(calls') :
                /\ calls'[k] = CallRecord(w, d, a, allow)
                /\ wallet'[w] = AfterCall(wallet[w], d, a, allow, k)
    BY <1>4, <1>5, <1>6, TwinsAssumption
  <1>8. Inv'
    <2> n <= Len(calls')
      BY <1>4, <1>6
    <2> QED BY <1>3, <1>4, <1>5, <1>7, CallKeeps DEF TwinInv
  <1>9. Warns(wallet[One], d, a, allow) <=> Warns(wallet[Other], d, a, allow)
    BY DEF TwinInv, Warns
  <1>10. wallet'[One].pins = wallet'[Other].pins
    <2>1. /\ wallet[One] \in MemoriesOf(calls) /\ wallet[Other] \in MemoriesOf(calls)
      BY TwinsAssumption DEF TwinInv, Inv, MemoryOK
    <2>2. \A w \in Wallets : \A k : wallet[w] \in MemoriesOf(calls) =>
              AfterCall(wallet[w], d, a, allow, k).pins =
                  IF Warns(wallet[w], d, a, allow) THEN wallet[w].pins
                  ELSE PinsAfter(wallet[w], d, a)
      BY DEF AfterCall, MemoriesOf
    <2>3. PinsAfter(wallet[One], d, a) = PinsAfter(wallet[Other], d, a)
      BY DEF PinsAfter, TwinInv
    <2> QED BY <1>5, <1>9, <2>1, <2>2, <2>3, TwinsAssumption DEF TwinInv
  <1>11. first.outcome = "warning" <=> second.outcome = "warning"
    BY <1>9 DEF CallRecord, Outcome
  <1>12. PICK m \in Nat : n = 2 * m
    BY DEF TwinInv
  <1>13. Alike'
    <2> SUFFICES ASSUME NEW k \in Nat \ {0}, 2 * k <= Len(calls')
                 PROVE  calls'[2 * k - 1].outcome = "warning" <=> calls'[2 * k].outcome = "warning"
      BY DEF Alike
    <2>1. CASE k = m + 1
      <3>1. 2 * k - 1 = n + 1 /\ 2 * k = n + 2
        BY <1>12, <2>1, SMT
      <3> HIDE DEF n, first, second
      <3> QED BY <1>4, <1>11, <3>1
    <2>2. CASE k # m + 1
      <3>1. 2 * k <= n /\ 2 * k \in 1 .. n /\ 2 * k - 1 \in 1 .. n
        BY <1>4, <1>12, <2>2, SMT
      <3> QED BY <1>4, <3>1 DEF TwinInv, Alike
    <2> QED BY <2>1, <2>2
  <1>14. Len(calls') = 2 * (m + 1) /\ m + 1 \in Nat
    BY <1>4, <1>12, SMT
  <1> QED BY <1>3, <1>8, <1>10, <1>13, <1>14 DEF TwinInv

LEMMA TwinNext == TwinInv /\ [NextTwins]_vars => TwinInv'
  <1> SUFFICES ASSUME TwinInv, [NextTwins]_vars PROVE TwinInv'
    OBVIOUS
  <1>1. ASSUME NEW w \in Wallets, NEW a \in Instances, NEW idx \in NextIndices(w, a),
               EnrollWith(w, a, idx)
        PROVE  TwinInv'
    <2>1. Inv'
      BY <1>1, EnrollKeeps DEF TwinInv, NextIndices
    <2>2. wallet' = [wallet EXCEPT ![w] = AfterEnrolment(wallet[w], a, idx)]
          /\ file' = file /\ calls' = calls
      BY <1>1 DEF EnrollWith
    <2>3. AfterEnrolment(wallet[w], a, idx).pins = wallet[w].pins
      BY DEF AfterEnrolment, TwinInv, Inv, MemoryOK, MemoriesOf
    <2>4. \A v \in Wallets : wallet'[v].pins = wallet[v].pins
      BY <2>2, <2>3 DEF TwinInv, Inv
    <2> QED BY <2>1, <2>2, <2>4, TwinsAssumption DEF TwinInv, Alike
  <1>2. ASSUME NEW d \in Domains, NEW a \in Instances, NEW allow \in BOOLEAN,
               AskBoth(d, a, allow)
        PROVE  TwinInv'
    BY <1>2, AskBothKeeps
  <1>3. CASE SaveBoth
    <2>1. /\ file' = [w \in Wallets |-> Saved(wallet[w])] /\ wallet' = wallet
          /\ calls' = calls /\ unsaved' = lost /\ given' = given /\ lost' = lost
      BY <1>3 DEF SaveBoth
    <2>2. Inv'
      <3>1. file' = [w \in Wallets |-> file'[w]] /\ unsaved' \in [Wallets -> SUBSET Instances]
        BY <2>1 DEF TwinInv, Inv, HistoryOK
      <3> QED BY <2>1, <3>1, SaveKeeps DEF TwinInv
    <2>3. \A w \in Wallets : Loaded(Saved(wallet[w])) = wallet[w]
      BY RoundTrip DEF TwinInv, Inv, MemoryOK
    <2> QED BY <2>1, <2>2, <2>3, TwinsAssumption DEF TwinInv, Alike
  <1>4. CASE LoadBoth
    <2>1. /\ \A w \in Wallets : file[w] # NoFile
          /\ wallet' = [w \in Wallets |-> Loaded(file[w])] /\ file' = file /\ calls' = calls
          /\ lost' = unsaved /\ given' = given /\ unsaved' = unsaved
      BY <1>4 DEF LoadBoth
    <2>2. Inv'
      <3>1. wallet' = [w \in Wallets |-> wallet'[w]] /\ lost' \in [Wallets -> SUBSET Instances]
        BY <2>1 DEF TwinInv, Inv, HistoryOK
      <3> QED BY <2>1, <3>1, LoadKeeps DEF TwinInv
    <2> QED BY <2>1, <2>2, TwinsAssumption DEF TwinInv, Alike
  <1>5. CASE UNCHANGED vars
    BY <1>5 DEF vars, indexHistory, TwinInv, Inv, HistoryOK, Alike
  <1> QED BY <1>1, <1>2, <1>3, <1>4, <1>5 DEF NextTwins

(* The warning of make_token is the same for two wallets that saw the same requests,
   whatever trees either is enrolled in and however often both restart. *)
THEOREM NothingRevealed == SpecTwins => []WarningsRevealNothing
  <1>1. TwinInv => WarningsRevealNothing
    <2> SUFFICES ASSUME TwinInv, NEW k \in 1 .. MaxCalls, 2 * k <= Len(calls)
                 PROVE  calls[2 * k - 1].outcome = "warning" <=> calls[2 * k].outcome = "warning"
      BY DEF WarningsRevealNothing
    <2>1. k \in Nat \ {0}
      BY SMT
    <2> QED BY <2>1 DEF TwinInv, Alike
  <1> QED BY <1>1, TwinInit, TwinNext, PTL DEF SpecTwins

=============================================================================
