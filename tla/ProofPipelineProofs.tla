------------------------ MODULE ProofPipelineProofs ------------------------
(* How prove and verify split their work, for every number of repetitions and threads:
   no repetition is left out or done twice, and the verdict is of all of them.  And how a
   proof travels, for all lengths of its fields: both decoders accept exactly what is an
   encoding, and verify judges what was proved. *)
EXTENDS ProofPipeline, TLAPS, FiniteSetTheorems, SequenceTheorems

(* The chunks cut 1 .. n into pieces: each job is in one and only one. *)
LEMMA Multiples ==
    ASSUME NEW a \in Nat, NEW b \in Nat, NEW c \in Nat, a <= b
    PROVE  a * c <= b * c /\ a * c \in Nat
  <1>1. PICK d \in Nat : b = a + d
    <2>1. b - a \in Nat /\ b = a + (b - a)
      BY SMT
    <2> QED BY <2>1
  <1>2. b * c = a * c + d * c /\ d * c \in Nat /\ a * c \in Nat
    BY <1>1, SMT
  <1> QED BY <1>2, SMT

LEMMA Ceil ==
    ASSUME NEW n \in Nat, NEW t \in Nat, n >= 1, t >= 1
    PROVE  LET c == CeilOfQuotient(n, t) IN
           /\ c \in Nat /\ c >= 1 /\ c <= n
           /\ n <= c * t /\ (c - 1) * t < n
  <1> DEFINE c == (n + t - 1) \div t
             r == (n + t - 1) % t
  <1>1. c \in Int /\ r \in Int /\ n + t - 1 = c * t + r /\ 0 <= r /\ r < t
    BY SMT
  <1> HIDE DEF c, r
  <1>2. (c - 1) * t = c * t - t
    BY <1>1, SMT
  <1>3. n <= c * t /\ (c - 1) * t < n
    BY <1>1, <1>2, SMT
  <1>4. c >= 1
    <2> SUFFICES ASSUME c <= 0 PROVE FALSE
      BY <1>1, SMT
    <2>1. (0 - c) * t >= 0 /\ c * t = 0 - ((0 - c) * t)
      BY <1>1, SMT
    <2> QED BY <1>3, <2>1, <1>1, SMT
  <1>5. c <= n
    <2> SUFFICES ASSUME c - 1 >= n PROVE FALSE
      BY <1>1, SMT
    <2>1. n * 1 <= (c - 1) * 1 /\ c - 1 \in Nat
      BY <1>1, <1>4, SMT
    <2>2. (c - 1) * 1 <= (c - 1) * t
      <3>1. (c - 1) * t = (c - 1) + (c - 1) * (t - 1) /\ (c - 1) * (t - 1) >= 0
        BY <1>1, <2>1, SMT
      <3> QED BY <1>1, <3>1, SMT
    <2> QED BY <1>1, <1>3, <2>1, <2>2, SMT
  <1> QED BY <1>1, <1>3, <1>4, <1>5, SMT DEF CeilOfQuotient, c

LEMMA Cut ==
    ASSUME NEW n \in Nat, n >= 1, NEW t \in Nat
    PROVE  LET size == ChunkSize(n, t)
               m == NumChunks(n, size) IN
           /\ size \in 1 .. n /\ m \in 1 .. n /\ m <= NumFlags(n, t) /\ NumFlags(n, t) \in 1 .. n
           /\ \A w \in 1 .. m : First(w, size) \in 1 .. n /\ First(w, size) <= w * size
           /\ \A v, w \in 1 .. m : v < w => v * size < First(w, size)
           /\ \A w \in 1 .. m : w * size \in Nat
           /\ \A k \in 1 .. n : \E w \in 1 .. m : First(w, size) <= k /\ k <= w * size
  <1> DEFINE size == ChunkSize(n, t)
             m == NumChunks(n, size)
  <1>1. size \in Nat /\ size >= 1 /\ size <= n /\ (t > 1 => n <= size * t) /\ (t <= 1 => size = n)
    <2>1. CASE t <= 1
      BY <2>1, SMT DEF ChunkSize
    <2>2. CASE t > 1
      <3>1. t >= 1 /\ size = CeilOfQuotient(n, t)
        BY <2>2, SMT DEF ChunkSize
      <3> HIDE DEF size
      <3> QED BY <2>2, <3>1, Ceil, SMT
    <2> QED BY <2>1, <2>2, SMT
  <1> HIDE DEF size
  <1>2. m \in Nat /\ m >= 1 /\ m <= n /\ n <= m * size /\ (m - 1) * size < n
    BY <1>1, Ceil DEF NumChunks
  <1> HIDE DEF m
  <1>3. NumFlags(n, t) \in 1 .. n /\ m <= NumFlags(n, t)
    <2>1. CASE t <= 1
      <3>1. ~(2 <= m)
        <4> SUFFICES ASSUME 2 <= m PROVE FALSE
          OBVIOUS
        <4>1. 1 <= m - 1 /\ m - 1 \in Nat /\ 1 * size = size
          BY <1>1, <1>2, SMT
        <4>2. 1 * size <= (m - 1) * size
          BY <1>1, <4>1, Multiples
        <4> QED BY <1>1, <1>2, <2>1, <4>1, <4>2, SMT
      <3> QED BY <1>2, <2>1, <3>1, SMT DEF NumFlags
    <2>2. CASE t > 1
      <3>1. ~(t <= m - 1)
        <4> SUFFICES ASSUME t <= m - 1 PROVE FALSE
          OBVIOUS
        <4>1. m - 1 \in Nat /\ t * size = size * t /\ size * t \in Nat /\ (m - 1) * size \in Nat
          BY <1>1, <1>2, SMT
        <4>2. t * size <= (m - 1) * size
          BY <1>1, <4>1, Multiples
        <4> QED BY <1>1, <1>2, <2>2, <4>1, <4>2, SMT
      <3> QED BY <1>2, <2>2, <3>1, SMT DEF NumFlags
    <2> QED BY <2>1, <2>2, SMT
  <1>4. \A w \in 1 .. m : First(w, size) \in 1 .. n /\ First(w, size) <= w * size /\ w * size \in Nat
    <2> SUFFICES ASSUME NEW w \in 1 .. m
                 PROVE  First(w, size) \in 1 .. n /\ First(w, size) <= w * size /\ w * size \in Nat
      OBVIOUS
    <2>1. w - 1 \in Nat /\ w \in Nat /\ m - 1 \in Nat /\ w - 1 <= m - 1
      BY <1>2, SMT
    <2>2. (w - 1) * size <= (m - 1) * size /\ (w - 1) * size \in Nat
      BY <1>1, <2>1, Multiples
    <2>3. w * size = (w - 1) * size + size /\ w * size \in Nat /\ (m - 1) * size \in Nat
      BY <1>1, <1>2, <2>1, SMT
    <2> QED BY <1>1, <1>2, <2>2, <2>3, SMT DEF First
  <1>5. \A v, w \in 1 .. m : v < w => v * size < First(w, size)
    <2> SUFFICES ASSUME NEW v \in 1 .. m, NEW w \in 1 .. m, v < w
                 PROVE  v * size < First(w, size)
      OBVIOUS
    <2>1. v \in Nat /\ w - 1 \in Nat /\ v <= w - 1
      BY <1>2, SMT
    <2>2. v * size <= (w - 1) * size /\ v * size \in Nat /\ (w - 1) * size \in Nat
      BY <1>1, <2>1, Multiples
    <2> QED BY <2>2, SMT DEF First
  <1>6. \A k \in 1 .. n : \E w \in 1 .. m : First(w, size) <= k /\ k <= w * size
    <2> SUFFICES ASSUME NEW k \in 1 .. n
                 PROVE  \E w \in 1 .. m : First(w, size) <= k /\ k <= w * size
      OBVIOUS
    <2> DEFINE w == CeilOfQuotient(k, size)
    <2>0. k \in Nat /\ k >= 1 /\ k <= n
      BY SMT
    <2>1. w \in Nat /\ w >= 1 /\ k <= w * size /\ (w - 1) * size < k
      BY <1>1, <2>0, Ceil
    <2> HIDE DEF w
    <2>2. ~(m <= w - 1)
      <3> SUFFICES ASSUME m <= w - 1 PROVE FALSE
        OBVIOUS
      <3>1. w - 1 \in Nat
        BY <2>1, SMT
      <3>2. m * size <= (w - 1) * size /\ m * size \in Nat
        BY <1>1, <1>2, <3>1, Multiples
      <3>3. (w - 1) * size \in Nat
        BY <1>1, <3>1, SMT
      <3> QED BY <1>2, <2>0, <2>1, <3>2, <3>3, SMT
    <2>3. w \in 1 .. m
      BY <1>2, <2>1, <2>2, SMT
    <2>4. (w - 1) * size \in Nat
      BY <1>1, <2>1, SMT
    <2> QED BY <2>0, <2>1, <2>3, <2>4, SMT DEF First
  <1> QED BY <1>1, <1>2, <1>3, <1>4, <1>5, <1>6, SMT DEF size, m

(* The same of the call in progress. *)
LEMMA Pieces ==
    ASSUME TypeOK, nreps >= 1
    PROVE  /\ Size >= 1 /\ Size \in Nat
           /\ Provers \subseteq Chunks /\ Verifiers = Provers
           /\ 1 .. NumFlags(nreps, threads) \subseteq Chunks
           /\ Provers \subseteq 1 .. NumFlags(nreps, threads)
           /\ \A w \in Provers : /\ First(w, Size) \in Reps /\ Last(w) \in Reps
                                  /\ First(w, Size) <= Last(w)
           /\ \A v, w \in Provers : v < w => Last(v) < First(w, Size)
           /\ \A k \in Reps : \E w \in Provers : First(w, Size) <= k /\ k <= Last(w)
           /\ Reps \subseteq Chunks
  <1>1. nreps \in Nat /\ threads \in Nat /\ nreps <= MaxReps
    BY RepsAssumption, ThreadsAssumption, SMT DEF TypeOK
  <1> DEFINE m == NumChunks(nreps, Size)
  <1>2. /\ Size \in 1 .. nreps /\ m \in 1 .. nreps
        /\ m <= NumFlags(nreps, threads) /\ NumFlags(nreps, threads) \in 1 .. nreps
        /\ \A w \in 1 .. m : First(w, Size) \in 1 .. nreps /\ First(w, Size) <= w * Size
        /\ \A v, w \in 1 .. m : v < w => v * Size < First(w, Size)
        /\ \A w \in 1 .. m : w * Size \in Nat
        /\ \A k \in 1 .. nreps : \E w \in 1 .. m : First(w, Size) <= k /\ k <= w * Size
    BY <1>1, Cut DEF Size
  <1> HIDE DEF m
  <1>3. Provers = 1 .. m
    BY DEF Provers, m
  <1>4. /\ Provers \subseteq Chunks /\ Reps \subseteq Chunks
        /\ 1 .. NumFlags(nreps, threads) \subseteq Chunks
        /\ Provers \subseteq 1 .. NumFlags(nreps, threads)
        /\ Size \in Nat /\ Size >= 1
    <2> DEFINE l == NumFlags(nreps, threads)
    <2>1. /\ Size \in Nat /\ Size >= 1
          /\ m \in Nat /\ m <= nreps /\ m <= l /\ l \in Nat /\ l <= nreps
      BY <1>1, <1>2, SMT
    <2> HIDE DEF l
    <2>2. /\ 1 .. m \subseteq 1 .. MaxReps /\ 1 .. l \subseteq 1 .. MaxReps
          /\ 1 .. nreps \subseteq 1 .. MaxReps /\ 1 .. m \subseteq 1 .. l
      BY <1>1, <2>1, RepsAssumption, SMT
    <2> QED BY <1>3, <2>1, <2>2 DEF Chunks, Reps, l
  <1>5. Verifiers = Provers
    <2>1. \A w \in 1 .. NumFlags(nreps, threads) : w <= NumFlags(nreps, threads)
      BY <1>1, <1>2, SMT
    <2> QED BY <1>4, <2>1 DEF Verifiers
  <1>6. ASSUME NEW w \in Provers
        PROVE  /\ First(w, Size) \in Nat /\ First(w, Size) >= 1 /\ First(w, Size) <= nreps
               /\ w * Size \in Nat /\ First(w, Size) <= w * Size
    <2>1. First(w, Size) \in 1 .. nreps /\ First(w, Size) <= w * Size /\ w * Size \in Nat
      BY <1>2, <1>3
    <2> HIDE DEF First
    <2> QED BY <1>1, <2>1, SMT
  <1>7. ASSUME NEW w \in Provers
        PROVE  /\ Last(w) \in Nat /\ Last(w) >= 1 /\ Last(w) <= nreps
               /\ First(w, Size) <= Last(w) /\ Last(w) <= w * Size
               /\ \A k \in Nat : k <= nreps /\ k <= w * Size => k <= Last(w)
    <2> DEFINE e == w * Size
               f == First(w, Size)
    <2>1. e \in Nat /\ f \in Nat /\ f >= 1 /\ f <= nreps /\ f <= e
      BY <1>6
    <2>2. Last(w) = IF e < nreps THEN e ELSE nreps
      BY DEF Last
    <2> HIDE DEF e, f
    <2>3. /\ Last(w) \in Nat /\ Last(w) >= 1 /\ Last(w) <= nreps
          /\ f <= Last(w) /\ Last(w) <= e
          /\ \A k \in Nat : k <= nreps /\ k <= e => k <= Last(w)
      BY <1>1, <2>1, <2>2, SMT
    <2> QED BY <2>3 DEF e, f
  <1>8. \A w \in Provers : First(w, Size) \in Reps /\ Last(w) \in Reps
    <2> SUFFICES ASSUME NEW w \in Provers PROVE First(w, Size) \in Reps /\ Last(w) \in Reps
      OBVIOUS
    <2>1. \A k \in Nat : k >= 1 /\ k <= nreps => k \in Reps
      BY <1>1, SMT DEF Reps
    <2> QED BY <1>6, <1>7, <2>1
  <1>9. \A v, w \in Provers : v < w => Last(v) < First(w, Size)
    <2> SUFFICES ASSUME NEW v \in Provers, NEW w \in Provers, v < w
                 PROVE  Last(v) < First(w, Size)
      OBVIOUS
    <2> DEFINE e == v * Size
               f == First(w, Size)
    <2>1. Last(v) <= e /\ e < f
      BY <1>2, <1>3, <1>7
    <2>2. Last(v) \in Nat /\ e \in Nat /\ f \in Nat
      BY <1>6, <1>7
    <2> HIDE DEF e, f
    <2>3. Last(v) < f
      BY <2>1, <2>2, SMT
    <2> QED BY <2>3 DEF f
  <1>10. \A k \in Reps : \E w \in Provers : First(w, Size) <= k /\ k <= Last(w)
    <2> SUFFICES ASSUME NEW k \in Reps
                 PROVE  \E w \in Provers : First(w, Size) <= k /\ k <= Last(w)
      OBVIOUS
    <2>1. PICK w \in Provers : First(w, Size) <= k /\ k <= w * Size
      BY <1>2, <1>3 DEF Reps
    <2>2. k \in Nat /\ k <= nreps
      BY <1>1, SMT DEF Reps
    <2> QED BY <1>7, <2>1, <2>2
  <1> QED BY <1>4, <1>5, <1>7, <1>8, <1>9, <1>10

-----------------------------------------------------------------------------
(* The threads of a call that goes on keep their chunks. *)
LEMMA SameCut ==
    ASSUME UNCHANGED <<nreps, threads>>
    PROVE  /\ Size' = Size /\ Provers' = Provers /\ Verifiers' = Verifiers /\ Reps' = Reps
           /\ \A w : Last(w)' = Last(w)
  BY DEF Size, Provers, Verifiers, Reps, Last

(* Every thread is inside its chunk, or just behind it. *)
Cursors == \A w \in Provers : First(w, Size) <= next[w] /\ next[w] <= Last(w) + 1

Begun(k) == \E w \in Provers : First(w, Size) <= k /\ k < next[w]

Proving ==
    phase = "prove" => /\ nreps >= 1 /\ Len(trits) = 0
                       /\ Cursors
                       /\ \A k \in Chunks : slots[k] = IF Begun(k) THEN 1 ELSE 0

Proved ==
    phase \in {"sample", "sent", "verify", "returned"} =>
        /\ nreps >= 1
        /\ \A k \in Chunks : slots[k] = IF k <= nreps THEN 1 ELSE 0
        /\ IF phase = "sample" THEN Len(trits) < nreps ELSE Len(trits) = nreps

(* A flag is lowered for a job that is refused, and every job before it verified. *)
Verifying ==
    phase = "verify" =>
        /\ Cursors
        /\ \A w \in Verifiers :
               /\ \A k \in Reps : First(w, Size) <= k /\ k < next[w] => k \notin refused
               /\ ~oks[w] => next[w] \in refused
        /\ \A w \in Chunks \ Verifiers : oks[w]

(* The inductive invariant. *)
Inv == /\ TypeOK
       /\ phase # "panicked"
       /\ phase = "idle" => /\ \A k \in Chunks : slots[k] = 0
                            /\ Len(trits) = 0 /\ refused = {}
       /\ Proving
       /\ Proved
       /\ Verifying
       /\ VerdictIsUnanimous

LEMMA InitInv == Init => Inv
  <1> SUFFICES ASSUME Init PROVE Inv
    OBVIOUS
  <1>1. TypeOK
    <2>1. 0 \in 0 .. MaxReps /\ 0 \in 0 .. MaxThreads /\ 0 \in Nat /\ <<>> \in Seq(0 .. 2)
      BY RepsAssumption, ThreadsAssumption, SMT
    <2> QED BY <2>1 DEF Init, TypeOK, Phases
  <1>2. Len(trits) = 0
    BY SMT DEF Init
  <1> QED BY <1>1, <1>2 DEF Init, Inv, Proving, Proved, Verifying, VerdictIsUnanimous

(* A fork puts every thread at the first job of its chunk. *)
LEMMA ForkOK ==
    ASSUME TypeOK', nreps' >= 1, NEW then, Forked(nreps', threads', then)
    PROVE  /\ phase' = then
           /\ \A w \in Provers' : next'[w] = First(w, Size')
           /\ Cursors'
  <1> DEFINE n == nreps'
             t == threads'
             size == ChunkSize(n, t)
             m == NumChunks(n, size)
  <1>1. n \in Nat /\ t \in Nat /\ n <= MaxReps
    BY RepsAssumption, ThreadsAssumption, SMT DEF TypeOK
  <1>2. /\ size \in 1 .. n /\ m \in 1 .. n
        /\ \A w \in 1 .. m : First(w, size) \in 1 .. n /\ First(w, size) <= w * size
        /\ \A w \in 1 .. m : w * size \in Nat
    BY <1>1, Cut
  <1>3. Size' = size /\ Provers' = 1 .. m /\ \A w : Last(w)' = IF w * size < n THEN w * size ELSE n
    BY DEF Size, Provers, Last
  <1>4. phase' = IF size = 0 THEN "panicked" ELSE then
    BY DEF Forked
  <1>5. next' = [w \in Chunks |-> First(w, size)]
    BY DEF Forked
  <1> HIDE DEF n, t, size, m
  <1>6. size # 0 /\ 1 .. m \subseteq Chunks
    BY <1>1, <1>2, RepsAssumption, SMT DEF Chunks
  <1>7. \A w \in 1 .. m : First(w, size) <= First(w, size) /\ First(w, size) <= Last(w)' + 1
    <2> SUFFICES ASSUME NEW w \in 1 .. m
                 PROVE  First(w, size) <= First(w, size) /\ First(w, size) <= Last(w)' + 1
      OBVIOUS
    <2> DEFINE f == First(w, size)
               e == w * size
    <2>1. f \in 1 .. n /\ f <= e /\ e \in Nat /\ Last(w)' = IF e < n THEN e ELSE n
      BY <1>2, <1>3
    <2> HIDE DEF f, e
    <2>2. f <= f /\ f <= Last(w)' + 1
      BY <1>1, <2>1, SMT
    <2> QED BY <2>2 DEF f
  <1> QED BY <1>3, <1>4, <1>5, <1>6, <1>7 DEF Cursors

LEMMA ForkTyped ==
    ASSUME NEW n \in 1 .. MaxReps, NEW t \in Nat, NEW then \in Phases, Forked(n, t, then)
    PROVE  phase' \in Phases /\ next' \in [Chunks -> Nat]
  <1> DEFINE size == ChunkSize(n, t)
  <1>1. n \in Nat /\ n >= 1
    BY RepsAssumption, SMT
  <1>2. size \in 1 .. n
    BY <1>1, Cut
  <1>3. next' = [w \in Chunks |-> First(w, size)]
    BY DEF Forked
  <1>4. phase' \in Phases
    BY DEF Forked, Phases
  <1> HIDE DEF size
  <1>5. \A w \in Chunks : First(w, size) \in Nat
    <2> SUFFICES ASSUME NEW w \in Chunks PROVE First(w, size) \in Nat
      OBVIOUS
    <2>1. w - 1 \in Nat /\ size \in Nat
      BY <1>1, <1>2, RepsAssumption, SMT DEF Chunks
    <2>2. (w - 1) * size \in Nat
      BY <2>1, SMT
    <2> QED BY <2>2, SMT DEF First
  <1> QED BY <1>3, <1>4, <1>5

LEMMA StartProveOK ==
    ASSUME Inv, NEW n \in 1 .. MaxReps, NEW t \in 0 .. MaxThreads, StartProve(n, t)
    PROVE  Inv'
  <1>1. /\ phase = "idle" /\ nreps' = n /\ threads' = t
        /\ Forked(n, t, "prove")
        /\ UNCHANGED <<slots, trits, refused, oks, verdict>>
    BY DEF StartProve
  <1>2. /\ \A k \in Chunks : slots[k] = 0
        /\ Len(trits) = 0 /\ refused = {}
    BY <1>1 DEF Inv
  <1>3. n \in 0 .. MaxReps /\ t \in Nat /\ n >= 1
    BY RepsAssumption, ThreadsAssumption, SMT
  <1>4. phase' \in Phases /\ next' \in [Chunks -> Nat]
    <2>1. "prove" \in Phases
      BY DEF Phases
    <2> QED BY <1>1, <1>3, <2>1, ForkTyped
  <1>5. TypeOK'
    BY <1>1, <1>2, <1>3, <1>4 DEF Inv, TypeOK, Chunks
  <1>6. /\ phase' = "prove"
        /\ \A w \in Provers' : next'[w] = First(w, Size')
        /\ Cursors'
    BY <1>1, <1>3, <1>5, ForkOK
  <1>7. nreps' >= 1
    BY <1>1, <1>3
  <1>8. /\ Provers' \subseteq Chunks
        /\ \A w \in Provers' : First(w, Size') \in Nat
    <2> DEFINE size == ChunkSize(n, t)
               m == NumChunks(n, size)
    <2>1. n \in Nat /\ t \in Nat
      BY <1>3, RepsAssumption, SMT
    <2>2. m \in 1 .. n /\ \A w \in 1 .. m : First(w, size) \in 1 .. n
      BY <1>3, <2>1, Cut
    <2>3. Provers' = 1 .. m /\ Size' = size
      BY <1>1 DEF Provers, Size
    <2> HIDE DEF size, m
    <2>4. 1 .. m \subseteq Chunks
      BY <2>1, <2>2, <1>3, RepsAssumption, SMT DEF Chunks
    <2>5. \A x \in 1 .. n : x \in Nat
      BY <2>1, SMT
    <2> QED BY <2>2, <2>3, <2>4, <2>5
  <1>9. \A k \in Chunks : k \in Nat
    BY RepsAssumption, SMT DEF Chunks
  <1>10. \A k \in Chunks : ~Begun(k)'
    <2> SUFFICES ASSUME NEW k \in Chunks, NEW w \in Provers',
                        First(w, Size') <= k, k < next'[w]
                 PROVE  FALSE
      BY DEF Begun
    <2>1. k < First(w, Size') /\ First(w, Size') \in Nat /\ k \in Nat
      BY <1>6, <1>8, <1>9
    <2> DEFINE f == First(w, Size')
    <2> HIDE DEF f
    <2>2. f <= k /\ k < f /\ f \in Nat /\ k \in Nat
      BY <2>1 DEF f
    <2> QED BY <2>2, SMT
  <1>11. Proving'
    BY <1>1, <1>2, <1>6, <1>7, <1>10 DEF Proving
  <1> QED BY <1>5, <1>6, <1>11 DEF Inv, Proved, Verifying, VerdictIsUnanimous

LEMMA ProveOneOK ==
    ASSUME Inv, NEW w \in Chunks, ProveOne(w)
    PROVE  Inv'
  <1> DEFINE j == next[w]
  <1>1. /\ phase = "prove" /\ w \in Provers /\ j <= Last(w)
        /\ slots' = [slots EXCEPT ![j] = @ + 1]
        /\ next' = [next EXCEPT ![w] = @ + 1]
        /\ UNCHANGED <<phase, nreps, threads, trits, refused, oks, verdict>>
    BY DEF ProveOne
  <1>2. TypeOK /\ nreps >= 1 /\ Len(trits) = 0 /\ Cursors
    BY <1>1 DEF Inv, Proving
  <1>3. \A k \in Chunks : slots[k] = IF Begun(k) THEN 1 ELSE 0
    BY <1>1 DEF Inv, Proving
  <1>4. /\ Size' = Size /\ Provers' = Provers /\ Verifiers' = Verifiers /\ Reps' = Reps
        /\ \A v : Last(v)' = Last(v)
    BY <1>1, SameCut
  <1>5. /\ Provers \subseteq Chunks /\ Reps \subseteq Chunks
        /\ \A v \in Provers : /\ First(v, Size) \in Reps /\ Last(v) \in Reps
                              /\ First(v, Size) <= Last(v)
        /\ \A u, v \in Provers : u < v => Last(u) < First(v, Size)
    BY <1>2, Pieces
  <1>6. /\ \A k \in Reps : k \in Int
        /\ \A k \in Chunks : k \in Int /\ k \in Nat
        /\ \A k \in Nat, a, b \in Reps : a <= k /\ k <= b => k \in Reps
    <2>1. nreps \in Nat
      BY <1>2, RepsAssumption, SMT DEF TypeOK
    <2> QED BY <2>1, RepsAssumption, SMT DEF Reps, Chunks
  <1>7. next \in [Chunks -> Nat] /\ slots \in [Chunks -> Nat] /\ j \in Nat
    BY <1>2 DEF TypeOK
  <1>8. j \in Reps /\ First(w, Size) <= j
    BY <1>1, <1>2, <1>5, <1>6, <1>7 DEF Cursors
  <1>9. /\ \A v \in Provers : next'[v] = IF v = w THEN j + 1 ELSE next[v]
        /\ \A k \in Chunks : slots'[k] = IF k = j THEN slots[j] + 1 ELSE slots[k]
    BY <1>1, <1>5, <1>7, <1>8
  <1>10. next' \in [Chunks -> Nat] /\ slots' \in [Chunks -> Nat]
    <2>1. j + 1 \in Nat /\ slots[j] + 1 \in Nat
      BY <1>5, <1>7, <1>8, SMT
    <2> QED BY <1>1, <1>7, <2>1
  <1>11. TypeOK'
    BY <1>1, <1>2, <1>4, <1>10 DEF TypeOK
  <1>12. ~Begun(j)
    <2> SUFFICES ASSUME NEW v \in Provers, First(v, Size) <= j, j < next[v]
                 PROVE  FALSE
      BY DEF Begun
    <2> DEFINE fv == First(v, Size)
               fw == First(w, Size)
               lv == Last(v)
               lw == Last(w)
               nv == next[v]
    <2>1. /\ fv \in Int /\ fw \in Int /\ lv \in Int /\ lw \in Int /\ nv \in Nat /\ j \in Nat
          /\ v \in Int /\ w \in Int
      BY <1>1, <1>5, <1>6, <1>7
    <2>2. /\ fv <= j /\ j < nv /\ nv <= lv + 1 /\ fw <= j /\ j <= lw
          /\ v < w => lv < fw
          /\ w < v => lw < fv
      BY <1>1, <1>2, <1>5, <1>8 DEF Cursors
    <2>3. v # w
      <3> SUFFICES ASSUME v = w PROVE FALSE
        OBVIOUS
      <3>1. nv = j
        OBVIOUS
      <3> HIDE DEF j, nv
      <3> QED BY <2>1, <2>2, <3>1, SMT
    <2> HIDE DEF fv, fw, lv, lw, nv, j
    <2> QED BY <2>1, <2>2, <2>3, SMT
  <1>13. Cursors'
    <2> SUFFICES ASSUME NEW v \in Provers
                 PROVE  First(v, Size) <= next'[v] /\ next'[v] <= Last(v) + 1
      BY <1>4 DEF Cursors
    <2> DEFINE fv == First(v, Size)
               lv == Last(v)
               nv == next[v]
               n1 == next'[v]
    <2>1. /\ fv \in Int /\ lv \in Int /\ nv \in Nat /\ j \in Nat
          /\ fv <= nv /\ nv <= lv + 1 /\ n1 = IF v = w THEN j + 1 ELSE nv
          /\ v = w => nv = j /\ j <= lv
      BY <1>1, <1>2, <1>5, <1>6, <1>7, <1>9 DEF Cursors
    <2> HIDE DEF fv, lv, nv, n1, j
    <2>2. fv <= n1 /\ n1 <= lv + 1
      BY <2>1, SMT
    <2> QED BY <2>2 DEF fv, lv, n1
  <1>14. \A k \in Chunks : Begun(k)' <=> (Begun(k) \/ k = j)
    <2> SUFFICES ASSUME NEW k \in Chunks PROVE Begun(k)' <=> (Begun(k) \/ k = j)
      OBVIOUS
    <2>1. k \in Nat
      BY <1>6
    <2>2. ASSUME NEW v \in Provers, First(v, Size) <= k
          PROVE  k < next'[v] <=> (k < next[v] \/ (v = w /\ k = j))
      <3> DEFINE nv == next[v]
                 n1 == next'[v]
      <3>1. /\ nv \in Nat /\ j \in Nat /\ n1 = IF v = w THEN j + 1 ELSE nv
            /\ v = w => nv = j
        BY <1>5, <1>7, <1>9
      <3> HIDE DEF nv, n1, j
      <3>2. k < n1 <=> (k < nv \/ (v = w /\ k = j))
        BY <2>1, <3>1, SMT
      <3> QED BY <3>2 DEF nv, n1
    <2>3. ASSUME Begun(k)' PROVE Begun(k) \/ k = j
      BY <1>4, <2>2, <2>3 DEF Begun
    <2>4. ASSUME Begun(k) PROVE Begun(k)'
      BY <1>4, <2>2, <2>4 DEF Begun
    <2>5. ASSUME k = j PROVE Begun(k)'
      <3>1. First(w, Size) <= k
        BY <1>8, <2>5
      <3>2. k < next'[w]
        BY <1>1, <2>2, <2>5, <3>1
      <3> QED BY <1>1, <1>4, <3>1, <3>2 DEF Begun
    <2> QED BY <2>3, <2>4, <2>5
  <1>15. \A k \in Chunks : slots'[k] = IF Begun(k)' THEN 1 ELSE 0
    <2> SUFFICES ASSUME NEW k \in Chunks PROVE slots'[k] = IF Begun(k)' THEN 1 ELSE 0
      OBVIOUS
    <2>1. CASE k = j
      <3>1. slots[j] = 0
        BY <1>3, <1>12, <2>1
      <3>2. slots'[k] = 0 + 1 /\ Begun(k)'
        BY <1>9, <1>14, <2>1, <3>1
      <3>3. 0 + 1 = 1
        BY SMT
      <3> QED BY <3>2, <3>3
    <2>2. CASE k # j
      <3>1. slots'[k] = slots[k] /\ (Begun(k)' <=> Begun(k))
        BY <1>9, <1>14, <2>2
      <3> QED BY <1>3, <3>1
    <2> QED BY <2>1, <2>2
  <1>16. Proving'
    BY <1>1, <1>2, <1>13, <1>15 DEF Proving
  <1> QED BY <1>1, <1>11, <1>16 DEF Inv, Proved, Verifying, VerdictIsUnanimous

LEMMA JoinProveOK ==
    ASSUME Inv, JoinProve
    PROVE  Inv'
  <1>1. /\ phase = "prove"
        /\ \A w \in Provers : next[w] > Last(w)
        /\ phase' = IF \A k \in Reps : slots[k] > 0 THEN "sample" ELSE "panicked"
        /\ threads' = 0 /\ next' = [w \in Chunks |-> 0]
        /\ UNCHANGED <<nreps, slots, trits, refused, oks, verdict>>
    BY DEF JoinProve
  <1>2. /\ TypeOK /\ nreps >= 1 /\ Len(trits) = 0 /\ Cursors
        /\ \A k \in Chunks : slots[k] = IF Begun(k) THEN 1 ELSE 0
    BY <1>1 DEF Inv, Proving
  <1>3. /\ Provers \subseteq Chunks /\ Reps \subseteq Chunks
        /\ \A w \in Provers : First(w, Size) \in Reps /\ Last(w) \in Reps
        /\ \A k \in Reps : \E w \in Provers : First(w, Size) <= k /\ k <= Last(w)
    BY <1>2, Pieces
  <1>4. /\ nreps \in Nat /\ nreps <= MaxReps
        /\ \A k \in Reps : k \in Int /\ k <= nreps
        /\ \A k \in Chunks : k \in Nat /\ (k <= nreps => k \in Reps)
    <2>1. nreps \in Nat /\ nreps <= MaxReps
      BY <1>2, RepsAssumption, SMT DEF TypeOK
    <2> QED BY <2>1, RepsAssumption, SMT DEF Reps, Chunks
  <1>5. \A w \in Provers : next[w] \in Nat
    BY <1>2, <1>3 DEF TypeOK
  <1>6. \A k \in Chunks : Begun(k) <=> k <= nreps
    <2> SUFFICES ASSUME NEW k \in Chunks PROVE Begun(k) <=> k <= nreps
      OBVIOUS
    <2>1. ASSUME Begun(k) PROVE k <= nreps
      <3>1. PICK w \in Provers : First(w, Size) <= k /\ k < next[w]
        BY <2>1 DEF Begun
      <3> DEFINE l == Last(w)
                 c == next[w]
      <3>2. /\ l \in Int /\ l <= nreps /\ c \in Nat /\ c <= l + 1 /\ k < c /\ k \in Nat
            /\ nreps \in Nat
        BY <1>2, <1>3, <1>4, <1>5, <3>1 DEF Cursors
      <3> HIDE DEF l, c
      <3> QED BY <3>2, SMT
    <2>2. ASSUME k <= nreps PROVE Begun(k)
      <3>1. PICK w \in Provers : First(w, Size) <= k /\ k <= Last(w)
        BY <1>3, <1>4, <2>2
      <3> DEFINE l == Last(w)
                 c == next[w]
      <3>2. l \in Int /\ c \in Nat /\ c > l /\ k <= l /\ k \in Nat
        BY <1>1, <1>3, <1>4, <1>5, <3>1
      <3> HIDE DEF l, c
      <3>3. k < c
        BY <3>2, SMT
      <3> QED BY <3>1, <3>3 DEF Begun, c
    <2> QED BY <2>1, <2>2
  <1>7. \A k \in Chunks : slots[k] = IF k <= nreps THEN 1 ELSE 0
    BY <1>2, <1>6
  <1>8. phase' = "sample"
    <2>1. \A k \in Reps : slots[k] = 1
      BY <1>3, <1>4, <1>7
    <2>2. 1 > 0
      BY SMT
    <2> QED BY <1>1, <2>1, <2>2
  <1>9. TypeOK'
    <2>1. 0 \in 0 .. MaxThreads /\ 0 \in Nat
      BY ThreadsAssumption, SMT
    <2>2. Reps' = Reps
      BY <1>1 DEF Reps
    <2> QED BY <1>1, <1>2, <1>8, <2>1, <2>2 DEF TypeOK, Phases
  <1>10. Len(trits) < nreps
    BY <1>2, <1>4, SMT
  <1> QED BY <1>1, <1>2, <1>7, <1>8, <1>9, <1>10
         DEF Inv, Proving, Proved, Verifying, VerdictIsUnanimous

LEMMA SampleOK ==
    ASSUME Inv, NEW byte \in Bytes, Sample(byte)
    PROVE  Inv'
  <1>1. /\ phase = "sample"
        /\ trits' = Append(trits, Trit(byte))
        /\ phase' = IF Len(trits) + 1 = nreps THEN "sent" ELSE phase
        /\ UNCHANGED <<nreps, threads, next, slots, refused, oks, verdict>>
    BY DEF Sample
  <1>2. /\ TypeOK /\ nreps >= 1 /\ Len(trits) < nreps
        /\ \A k \in Chunks : slots[k] = IF k <= nreps THEN 1 ELSE 0
    BY <1>1 DEF Inv, Proved
  <1>3. nreps \in Nat /\ trits \in Seq(0 .. 2)
    BY <1>2, RepsAssumption, SMT DEF TypeOK
  <1>4. Trit(byte) \in 0 .. 2
    BY BytesAssumption, SMT DEF Trit
  <1> HIDE DEF Trit
  <1>5. trits' \in Seq(0 .. 2) /\ Len(trits') = Len(trits) + 1 /\ Len(trits) \in Nat
    BY <1>1, <1>3, <1>4, SMT
  <1>6. phase' \in {"sample", "sent"}
    BY <1>1
  <1>7. TypeOK'
    <2>1. Reps' = Reps
      BY <1>1 DEF Reps
    <2> QED BY <1>1, <1>2, <1>5, <1>6, <2>1 DEF TypeOK, Phases
  <1>8. IF phase' = "sample" THEN Len(trits') < nreps ELSE Len(trits') = nreps
    <2>1. CASE Len(trits) + 1 = nreps
      BY <1>1, <1>5, <2>1
    <2>2. CASE Len(trits) + 1 # nreps
      <3> DEFINE l == Len(trits)
      <3>1. l + 1 < nreps
        <4>1. l \in Nat /\ l < nreps /\ l + 1 # nreps /\ nreps \in Nat
          BY <1>2, <1>3, <1>5, <2>2
        <4> HIDE DEF l
        <4> QED BY <4>1, SMT
      <3> QED BY <1>1, <1>5, <2>2, <3>1
    <2> QED BY <2>1, <2>2
  <1> QED BY <1>1, <1>2, <1>6, <1>7, <1>8
         DEF Inv, Proving, Proved, Verifying, VerdictIsUnanimous

LEMMA StartVerifyOK ==
    ASSUME Inv, NEW t \in 0 .. MaxThreads, NEW bad \in SUBSET Reps, StartVerify(t, bad)
    PROVE  Inv'
  <1>1. /\ phase = "sent" /\ threads' = t /\ refused' = bad
        /\ Forked(nreps, t, "verify")
        /\ oks' = [w \in Chunks |-> TRUE]
        /\ UNCHANGED <<nreps, slots, trits, verdict>>
    BY DEF StartVerify
  <1>2. /\ TypeOK /\ nreps >= 1 /\ Len(trits) = nreps
        /\ \A k \in Chunks : slots[k] = IF k <= nreps THEN 1 ELSE 0
    BY <1>1 DEF Inv, Proved
  <1>3. nreps \in 1 .. MaxReps /\ t \in Nat /\ nreps' >= 1 /\ nreps \in Nat
    <2>1. nreps' = nreps
      BY <1>1
    <2> QED BY <1>2, <2>1, RepsAssumption, ThreadsAssumption, SMT DEF TypeOK
  <1>4. phase' \in Phases /\ next' \in [Chunks -> Nat]
    <2>1. "verify" \in Phases
      BY DEF Phases
    <2> QED BY <1>1, <1>3, <2>1, ForkTyped
  <1>5. TypeOK'
    <2>1. Reps' = Reps
      BY <1>1 DEF Reps
    <2> QED BY <1>1, <1>2, <1>4, <2>1 DEF TypeOK, Chunks
  <1>6. /\ phase' = "verify"
        /\ \A w \in Provers' : next'[w] = First(w, Size')
        /\ Cursors'
    <2>1. Forked(nreps', threads', "verify")
      BY <1>1
    <2> QED BY <1>3, <1>5, <2>1, ForkOK
  <1>7. Provers' \subseteq Chunks /\ Verifiers' \subseteq Provers'
    <2> DEFINE m == NumChunks(nreps, ChunkSize(nreps, t))
    <2>1. m \in 1 .. nreps
      BY <1>2, <1>3, Cut
    <2>2. Provers' = 1 .. m
      BY <1>1 DEF Provers, Size
    <2> HIDE DEF m
    <2>3. 1 .. m \subseteq Chunks
      BY <1>3, <2>1, RepsAssumption, SMT DEF Chunks
    <2> QED BY <2>2, <2>3 DEF Verifiers
  <1>8. \A w \in Provers' : First(w, Size') \in Int
    <2> DEFINE size == ChunkSize(nreps, t)
               m == NumChunks(nreps, size)
    <2>1. \A w \in 1 .. m : First(w, size) \in 1 .. nreps
      BY <1>2, <1>3, Cut
    <2>2. Provers' = 1 .. m /\ Size' = size
      BY <1>1 DEF Provers, Size
    <2> HIDE DEF size, m
    <2>3. \A x \in 1 .. nreps : x \in Int
      BY <1>3, SMT
    <2> QED BY <2>1, <2>2, <2>3
  <1>9. \A w \in Verifiers' : \A k \in Reps' : ~(First(w, Size') <= k /\ k < next'[w])
    <2> SUFFICES ASSUME NEW w \in Verifiers', NEW k \in Reps',
                        First(w, Size') <= k, k < next'[w]
                 PROVE  FALSE
      OBVIOUS
    <2> DEFINE f == First(w, Size')
    <2>1. Reps' = 1 .. nreps
      BY <1>1 DEF Reps
    <2>2. f <= k /\ k < f /\ f \in Int
      BY <1>6, <1>7, <1>8
    <2> HIDE DEF f
    <2> QED BY <1>3, <2>1, <2>2, SMT
  <1>10. Verifying'
    BY <1>1, <1>6, <1>7, <1>9 DEF Verifying
  <1> QED BY <1>1, <1>2, <1>5, <1>6, <1>10
         DEF Inv, Proving, Proved, VerdictIsUnanimous

LEMMA RefuseProofOK ==
    ASSUME Inv, RefuseProof
    PROVE  Inv'
  <1>1. /\ phase = "sent" /\ phase' = "returned" /\ verdict' = FALSE /\ refused' = Reps
        /\ UNCHANGED <<nreps, threads, next, slots, trits, oks>>
    BY DEF RefuseProof
  <1>2. /\ TypeOK /\ nreps >= 1 /\ Len(trits) = nreps
        /\ \A k \in Chunks : slots[k] = IF k <= nreps THEN 1 ELSE 0
    BY <1>1 DEF Inv, Proved
  <1>3. Reps # {}
    BY <1>2, RepsAssumption, SMT DEF Reps, TypeOK
  <1>4. TypeOK'
    <2>1. Reps' = Reps
      BY <1>1 DEF Reps
    <2> QED BY <1>1, <1>2, <2>1 DEF TypeOK, Phases
  <1> QED BY <1>1, <1>2, <1>3, <1>4
         DEF Inv, Proving, Proved, Verifying, VerdictIsUnanimous

LEMMA CheckOneOK ==
    ASSUME Inv, NEW w \in Chunks, CheckOne(w)
    PROVE  Inv'
  <1> DEFINE j == next[w]
  <1>1. /\ phase = "verify" /\ w \in Verifiers /\ ~Finished(w)
        /\ IF j \in refused THEN oks' = [oks EXCEPT ![w] = FALSE] /\ UNCHANGED next
           ELSE next' = [next EXCEPT ![w] = @ + 1] /\ UNCHANGED oks
        /\ UNCHANGED <<phase, nreps, threads, slots, trits, refused, verdict>>
    BY DEF CheckOne
  <1>2. /\ TypeOK /\ nreps >= 1 /\ Cursors
        /\ \A v \in Verifiers :
              /\ \A k \in Reps : First(v, Size) <= k /\ k < next[v] => k \notin refused
              /\ ~oks[v] => next[v] \in refused
        /\ \A v \in Chunks \ Verifiers : oks[v]
    BY <1>1 DEF Inv, Proved, Verifying
  <1>3. /\ Size' = Size /\ Provers' = Provers /\ Verifiers' = Verifiers /\ Reps' = Reps
        /\ \A v : Last(v)' = Last(v)
    BY <1>1, SameCut
  <1>4. /\ Provers \subseteq Chunks /\ Verifiers = Provers
        /\ \A v \in Provers : First(v, Size) \in Reps /\ Last(v) \in Reps
    BY <1>2, Pieces
  <1>5. \A k \in Reps : k \in Int
    BY <1>2, RepsAssumption, SMT DEF Reps, TypeOK
  <1>6. next \in [Chunks -> Nat] /\ oks \in [Chunks -> BOOLEAN] /\ j \in Nat
    BY <1>2 DEF TypeOK
  <1>7. CASE j \in refused
    <2>1. oks' = [oks EXCEPT ![w] = FALSE] /\ next' = next
      BY <1>1, <1>7
    <2>2. oks' \in [Chunks -> BOOLEAN]
      BY <1>6, <2>1
    <2>3. TypeOK'
      BY <1>1, <1>2, <1>3, <2>1, <2>2 DEF TypeOK
    <2>4. Cursors'
      BY <1>2, <1>3, <2>1 DEF Cursors
    <2>5. \A v \in Verifiers : ~oks'[v] => next[v] \in refused
      BY <1>2, <1>4, <1>6, <1>7, <2>1
    <2>6. \A v \in Chunks \ Verifiers : oks'[v]
      BY <1>1, <1>2, <1>6, <2>1
    <2>7. Verifying'
      BY <1>1, <1>2, <1>3, <2>1, <2>4, <2>5, <2>6 DEF Verifying
    <2> QED BY <1>1, <2>3, <2>7 DEF Inv, Proving, Proved, VerdictIsUnanimous
  <1>8. CASE j \notin refused
    <2>1. next' = [next EXCEPT ![w] = @ + 1] /\ oks' = oks
      BY <1>1, <1>8
    <2>2. oks[w] /\ ~(j > Last(w))
      BY <1>1 DEF Finished
    <2>3. j + 1 \in Nat
      BY <1>6, SMT
    <2>4. TypeOK'
      BY <1>1, <1>2, <1>3, <1>6, <2>1, <2>3 DEF TypeOK
    <2>5. \A v \in Provers : next'[v] = IF v = w THEN j + 1 ELSE next[v]
      BY <1>4, <1>6, <2>1
    <2>6. Cursors'
      <3> SUFFICES ASSUME NEW v \in Provers
                   PROVE  First(v, Size) <= next'[v] /\ next'[v] <= Last(v) + 1
        BY <1>3 DEF Cursors
      <3> DEFINE fv == First(v, Size)
                 lv == Last(v)
                 nv == next[v]
                 n1 == next'[v]
      <3>1. /\ fv \in Int /\ lv \in Int /\ nv \in Nat /\ j \in Nat
            /\ fv <= nv /\ nv <= lv + 1 /\ n1 = IF v = w THEN j + 1 ELSE nv
            /\ v = w => nv = j /\ ~(j > lv)
        BY <1>2, <1>4, <1>5, <1>6, <2>2, <2>5 DEF Cursors
      <3> HIDE DEF fv, lv, nv, n1, j
      <3>2. fv <= n1 /\ n1 <= lv + 1
        BY <3>1, SMT
      <3> QED BY <3>2 DEF fv, lv, n1
    <2>7. ASSUME NEW v \in Verifiers, NEW k \in Reps, First(v, Size) <= k, k < next'[v]
          PROVE  k \notin refused
      <3>1. v \in Provers /\ next[v] \in Nat
        BY <1>4, <1>6
      <3>2. k < next[v] \/ k = j
        <4> DEFINE nv == next[v]
                   n1 == next'[v]
        <4>1. nv \in Nat /\ j \in Nat /\ n1 = (IF v = w THEN j + 1 ELSE nv) /\ (v = w => nv = j)
              /\ k < n1 /\ k \in Int
          BY <1>5, <1>6, <2>5, <2>7, <3>1
        <4> HIDE DEF nv, n1, j
        <4>2. k < nv \/ k = j
          BY <4>1, SMT
        <4> QED BY <4>2 DEF nv
      <3> QED BY <1>2, <1>8, <2>7, <3>2
    <2>8. \A v \in Verifiers : ~oks[v] => next'[v] \in refused
      BY <1>2, <1>4, <2>2, <2>5
    <2>9. Verifying'
      BY <1>1, <1>2, <1>3, <2>1, <2>6, <2>7, <2>8 DEF Verifying
    <2> QED BY <1>1, <2>4, <2>9 DEF Inv, Proving, Proved, VerdictIsUnanimous
  <1> QED BY <1>7, <1>8

LEMMA JoinVerifyOK ==
    ASSUME Inv, JoinVerify
    PROVE  Inv'
  <1>1. /\ phase = "verify" /\ \A w \in Verifiers : Finished(w)
        /\ verdict' = \A w \in 1 .. NumFlags(nreps, threads) : oks[w]
        /\ phase' = "returned" /\ threads' = 0 /\ next' = [w \in Chunks |-> 0]
        /\ UNCHANGED <<nreps, slots, trits, refused, oks>>
    BY DEF JoinVerify
  <1>2. /\ TypeOK /\ nreps >= 1 /\ Len(trits) = nreps
        /\ \A k \in Chunks : slots[k] = IF k <= nreps THEN 1 ELSE 0
        /\ Cursors
        /\ \A v \in Verifiers :
              /\ \A k \in Reps : First(v, Size) <= k /\ k < next[v] => k \notin refused
              /\ ~oks[v] => next[v] \in refused
        /\ \A v \in Chunks \ Verifiers : oks[v]
    BY <1>1 DEF Inv, Proved, Verifying
  <1>3. /\ Provers \subseteq Chunks /\ Verifiers = Provers
        /\ 1 .. NumFlags(nreps, threads) \subseteq Chunks
        /\ Provers \subseteq 1 .. NumFlags(nreps, threads)
        /\ \A v \in Provers : First(v, Size) \in Reps /\ Last(v) \in Reps
        /\ \A k \in Reps : \E w \in Provers : First(w, Size) <= k /\ k <= Last(w)
    BY <1>2, Pieces
  <1>4. refused \subseteq Reps /\ \A k \in Reps : k \in Int
    BY <1>2, RepsAssumption, SMT DEF Reps, TypeOK
  <1>5. ASSUME refused = {} PROVE verdict'
    BY <1>1, <1>2, <1>3, <1>5
  <1>6. ASSUME verdict', NEW k \in refused PROVE FALSE
    <2>1. PICK w \in Provers : First(w, Size) <= k /\ k <= Last(w)
      BY <1>3, <1>4, <1>6
    <2>2. oks[w]
      BY <1>1, <1>3, <1>6
    <2>3. next[w] > Last(w)
      BY <1>1, <1>3, <2>2 DEF Finished
    <2>4. k < next[w]
      <3> DEFINE c == next[w]
                 l == Last(w)
      <3>1. c \in Nat /\ l \in Int /\ c > l /\ k <= l /\ k \in Int
        BY <1>2, <1>3, <1>4, <1>6, <2>1, <2>3 DEF TypeOK
      <3> HIDE DEF c, l
      <3>2. k < c
        BY <3>1, SMT
      <3> QED BY <3>2 DEF c
    <2> QED BY <1>2, <1>3, <1>4, <1>6, <2>1, <2>4
  <1>7. verdict' \in BOOLEAN
    BY <1>1
  <1>8. TypeOK'
    <2>1. 0 \in 0 .. MaxThreads /\ 0 \in Nat
      BY ThreadsAssumption, SMT
    <2>2. Reps' = Reps
      BY <1>1 DEF Reps
    <2> QED BY <1>1, <1>2, <1>7, <2>1, <2>2 DEF TypeOK, Phases
  <1>9. VerdictIsUnanimous'
    BY <1>1, <1>5, <1>6, <1>7 DEF VerdictIsUnanimous
  <1> QED BY <1>1, <1>2, <1>8, <1>9 DEF Inv, Proving, Proved, Verifying

LEMMA StutterInv == Inv /\ UNCHANGED repVars => Inv'
  <1> SUFFICES ASSUME Inv, UNCHANGED repVars PROVE Inv'
    OBVIOUS
  <1>1. /\ Size' = Size /\ Provers' = Provers /\ Verifiers' = Verifiers /\ Reps' = Reps
        /\ \A v : Last(v)' = Last(v)
    BY SameCut DEF repVars
  <1> QED BY <1>1 DEF repVars, Inv, TypeOK, Proving, Proved, Verifying, VerdictIsUnanimous,
                      Cursors, Begun

LEMMA NextInv == Inv /\ [Next]_repVars => Inv'
  <1> SUFFICES ASSUME Inv, [Next]_repVars PROVE Inv'
    OBVIOUS
  <1>1. CASE \E n \in 1 .. MaxReps, t \in 0 .. MaxThreads : StartProve(n, t)
    BY <1>1, StartProveOK
  <1>2. CASE \E w \in Chunks : ProveOne(w) \/ CheckOne(w)
    BY <1>2, ProveOneOK, CheckOneOK
  <1>3. CASE JoinProve \/ RefuseProof \/ JoinVerify
    BY <1>3, JoinProveOK, RefuseProofOK, JoinVerifyOK
  <1>4. CASE \E byte \in Bytes : Sample(byte)
    BY <1>4, SampleOK
  <1>5. CASE \E t \in 0 .. MaxThreads, bad \in SUBSET Reps : StartVerify(t, bad)
    BY <1>5, StartVerifyOK
  <1>6. CASE UNCHANGED repVars
    BY <1>6, StutterInv
  <1> QED BY <1>1, <1>2, <1>3, <1>4, <1>5, <1>6 DEF Next

LEMMA InvIsStronger == Inv => EachRepetitionOnce
  <1> SUFFICES ASSUME Inv PROVE EachRepetitionOnce
    OBVIOUS
  <1>1. phase = "prove" => \A k \in Chunks : slots[k] <= 1
    <2> SUFFICES ASSUME phase = "prove", NEW k \in Chunks PROVE slots[k] <= 1
      OBVIOUS
    <2>1. slots[k] \in {0, 1}
      BY DEF Inv, Proving
    <2> QED BY <2>1, SMT
  <1> QED BY <1>1 DEF Inv, Proved, EachRepetitionOnce

-----------------------------------------------------------------------------
(* The forks of prove and verify, for every number of repetitions and of threads: the
   inductive invariant holds throughout. *)
THEOREM RepetitionsSafety == Spec => []Inv
  BY InitInv, NextInv, PTL DEF Spec

(* Every repetition is proved once, by one thread, and prove never panics. *)
THEOREM EveryRepetitionIsProvedOnce == Spec => []EachRepetitionOnce
  BY RepetitionsSafety, InvIsStronger, PTL

(* verify answers for all repetitions together, in however many threads. *)
THEOREM EveryVerdictIsUnanimous == Spec => []VerdictIsUnanimous
  <1>1. Inv => VerdictIsUnanimous
    BY DEF Inv
  <1> QED BY <1>1, RepetitionsSafety, PTL

LEMMA PipelineStep == [PipelineNext]_vars => [Next]_repVars
  <1> SUFFICES ASSUME [PipelineNext]_vars PROVE [Next]_repVars
    OBVIOUS
  <1>1. CASE Prove
    BY <1>1 DEF Prove, Next
  <1>2. CASE \E bad \in SUBSET Reps : Ship(bad)
    BY <1>2 DEF Ship
  <1>3. CASE \E b \in AlteredBlobs : Exchange(b)
    BY <1>3 DEF Exchange
  <1>4. ASSUME NEW d \in Decoders, Read(d) PROVE UNCHANGED repVars
    BY <1>4 DEF Read
  <1>5. ASSUME NEW d \in Decoders, Refuse(d) PROVE Next
    BY <1>5 DEF Refuse, Next
  <1>6. ASSUME NEW d \in Decoders, NEW t \in 0 .. MaxThreads, NEW bad \in SUBSET Reps,
               Verify(d, t, bad)
        PROVE  Next
    BY <1>6 DEF Verify, Next
  <1>7. CASE Check
    BY <1>7 DEF Check, Next
  <1>8. CASE UNCHANGED vars
    BY <1>8 DEF vars
  <1> QED BY <1>1, <1>2, <1>3, <1>4, <1>5, <1>6, <1>7, <1>8 DEF PipelineNext

(* The calls of a pipeline are those of Repetitions: whatever its blobs and decoders do,
   both facts carry over. *)
THEOREM PipelineImplements == PipelineSpec => Spec
  <1>1. PipelineInit => Init
    BY DEF PipelineInit
  <1> QED BY <1>1, PipelineStep, PTL DEF PipelineSpec, Spec

-----------------------------------------------------------------------------
(* Where opening k of n repetitions begins, when the openings before it carry the optional
   block as has says; and where the openings end, for k = n + 1. *)
Offset(n, has, k) ==
    n * RepLen + (k - 1) * OpeningLen(FALSE)
        + Cardinality({i \in 1 .. k - 1 : has[i]}) * InputsLen

FlagIn(n, has, k) == blob.byte[Offset(n, has, k) + 2 * SeedLen] = Flag(has[k])

Candidates == [1 .. blob.reps -> BOOLEAN]

(* The blob is the encoding of openings with these blocks, payload aside. *)
Encodes(has) ==
    /\ blob.header = "good" /\ blob.reps \in 1 .. MaxDeclared
    /\ has \in Candidates
    /\ blob.len = Offset(blob.reps, has, blob.reps + 1)
    /\ \A k \in 1 .. blob.reps : FlagIn(blob.reps, has, k)

(* What the state s of a decoder says of the blob, stage by stage. *)
Passed == blob.header = "good" /\ blob.reps \in 1 .. MaxDeclared /\ SizeFits(blob.reps)

AtReps(s) ==
    /\ Passed
    /\ s.k \in 0 .. blob.reps - 1 /\ s.off = s.k * RepLen
    /\ s.has = <<>> /\ s.whole = TRUE

AtOpenings(s) ==
    /\ Passed
    /\ s.k \in 0 .. blob.reps /\ Len(s.has) = s.k
    /\ s.off = Offset(blob.reps, s.has, s.k + 1) /\ s.off <= blob.len /\ s.whole = TRUE
    /\ \A i \in 1 .. s.k : FlagIn(blob.reps, s.has, i)
    /\ \A h \in Candidates : Encodes(h) => \A i \in 1 .. s.k : h[i] = s.has[i]

Known(s) ==
    /\ s.stage \in {"header", "reps", "openings", "accepted", "rejected"}
    /\ s.stage = "header" => s = Start
    /\ s.stage = "reps" => AtReps(s)
    /\ s.stage = "openings" => AtOpenings(s)
    /\ s.stage = "accepted" =>
           /\ Encodes(s.has) /\ s.has \in Candidates /\ s.whole = TRUE
           /\ \A h \in Candidates : Encodes(h) => h = s.has
    /\ s.stage = "rejected" => \A h \in Candidates : ~Encodes(h)

Stages == {"header", "reps", "openings"} \cup Over

DecoderStates ==
    [stage : Stages, k : Nat, off : Nat, has : Seq(BOOLEAN), whole : BOOLEAN]

(* The inductive invariant of the two decoders. *)
Wire ==
    /\ at \in [Decoders -> DecoderStates]
    /\ blob = NoBlob => \A d \in Decoders : at[d] = Start
    /\ blob # NoBlob => blob.len \in Nat
    /\ \A d \in Decoders : Known(at[d])

(* A blob that nobody exchanged is the prover's, and is judged as it was made. *)
Judging ==
    /\ blob # NoBlob => phase \in {"sent", "verify", "returned"}
    /\ phase \in {"verify", "returned"} => blob # NoBlob
    /\ ~altered /\ blob # NoBlob => blob = Encode(HasInputs)
    /\ ~altered /\ phase \in {"verify", "returned"} => refused = spoiled

-----------------------------------------------------------------------------
(* The arithmetic of offsets. *)
LEMMA Lengths ==
    /\ RepLen \in Nat /\ OpeningLen(FALSE) \in Nat /\ OpeningLen(TRUE) \in Nat
    /\ OpeningLen(TRUE) = OpeningLen(FALSE) + InputsLen
    /\ OpeningLen(FALSE) = 2 * SeedLen + 1 + MultsLen
    /\ RepLen = 3 * CommitLen + 3 * OutsLen
  BY LengthsAssumption, SMT DEF RepLen, OpeningLen

LEMMA Product ==
    ASSUME NEW a \in Nat, NEW b \in Nat
    PROVE  a * b \in Nat /\ (a + 1) * b = a * b + b /\ 0 * b = 0 /\ 1 * b = b
  BY SMT

LEMMA Spread ==
    ASSUME NEW a \in Nat, NEW b \in Nat, NEW c \in Nat
    PROVE  a * (b + c) = a * b + a * c
  BY SMT

(* A sum of three products, each no smaller than its counterpart. *)
LEMMA SumOfThree ==
    ASSUME NEW a \in Nat, NEW b \in Nat, NEW c \in Nat, NEW d \in Nat, NEW e \in Nat,
           b <= d, c <= e
    PROVE  /\ a + b + c \in Nat /\ a + b + c <= a + d + e
           /\ a + b + c >= a + b
  BY SMT

LEMMA Blocks ==
    ASSUME NEW has, NEW k \in Nat
    PROVE  LET c(j) == {i \in 1 .. j : has[i]} IN
           /\ IsFiniteSet(c(k)) /\ Cardinality(c(k)) \in Nat /\ Cardinality(c(k)) <= k
           /\ Cardinality(c(k + 1)) = Cardinality(c(k)) + (IF has[k + 1] THEN 1 ELSE 0)
           /\ Cardinality(c(0)) = 0
  <1> DEFINE c(j) == {i \in 1 .. j : has[i]}
  <1>1. IsFiniteSet(1 .. k) /\ Cardinality(1 .. k) = k
    BY FS_Interval, SMT
  <1>2. c(k) \in SUBSET (1 .. k)
    OBVIOUS
  <1>3. IsFiniteSet(c(k)) /\ Cardinality(c(k)) <= k
    BY <1>1, <1>2, FS_Subset
  <1>4. Cardinality(c(k)) \in Nat
    BY <1>3, FS_CardinalityType
  <1>5. 1 .. k + 1 = (1 .. k) \cup {k + 1} /\ k + 1 \notin 1 .. k
    BY SMT
  <1>6. ASSUME has[k + 1] PROVE Cardinality(c(k + 1)) = Cardinality(c(k)) + 1
    <2>1. c(k + 1) = c(k) \cup {k + 1} /\ k + 1 \notin c(k)
      BY <1>5, <1>6
    <2>2. Cardinality(c(k + 1)) = Cardinality(c(k)) + 1
      BY <1>3, <2>1, FS_AddElement
    <2> QED BY <1>6, <2>2
  <1>7. ASSUME ~has[k + 1] PROVE Cardinality(c(k + 1)) = Cardinality(c(k)) + 0
    <2>1. c(k + 1) = c(k)
      BY <1>5, <1>7
    <2> HIDE DEF c
    <2> QED BY <1>4, <1>7, <2>1, SMT
  <1>8. c(0) = {}
    <2>1. 1 .. 0 = {}
      BY SMT
    <2> QED BY <2>1
  <1>9. Cardinality(c(0)) = 0
    BY <1>8, FS_EmptySet
  <1> QED BY <1>3, <1>4, <1>6, <1>7, <1>9

LEMMA OffsetType ==
    ASSUME NEW n \in Nat, NEW has, NEW k \in Nat \ {0}
    PROVE  /\ Offset(n, has, k) \in Nat
           /\ Offset(n, has, 1) = n * RepLen
  <1> DEFINE c(j) == Cardinality({i \in 1 .. j - 1 : has[i]})
             m == k - 1
             F == OpeningLen(FALSE)
             R == RepLen
  <1>1. m \in Nat /\ 1 - 1 = 0 /\ F \in Nat /\ R \in Nat /\ InputsLen \in Nat
    <2>1. k - 1 \in Nat /\ 1 - 1 = 0
      BY SMT
    <2> QED BY <2>1, Lengths, LengthsAssumption
  <1>2. c(k) \in Nat /\ c(1) = 0
    BY <1>1, Blocks
  <1>3. /\ Offset(n, has, k) = n * R + m * F + c(k) * InputsLen
        /\ Offset(n, has, 1) = n * R + 0 * F + c(1) * InputsLen
    BY <1>1 DEF Offset
  <1> HIDE DEF c, m, F, R
  <1>4. n * R \in Nat /\ m * F \in Nat /\ c(k) * InputsLen \in Nat
        /\ 0 * F = 0 /\ c(1) * InputsLen = 0
    BY <1>1, <1>2, Product
  <1>5. n * R + m * F + c(k) * InputsLen \in Nat /\ n * R + 0 + 0 = n * R
    BY <1>4, SMT
  <1> QED BY <1>3, <1>4, <1>5 DEF R

LEMMA OffsetStep ==
    ASSUME NEW n \in Nat, NEW has, NEW k \in Nat \ {0}, has[k] \in BOOLEAN
    PROVE  Offset(n, has, k + 1) = Offset(n, has, k) + OpeningLen(has[k])
  <1> DEFINE c(j) == Cardinality({i \in 1 .. j : has[i]})
             m == k - 1
             b == IF has[k] THEN 1 ELSE 0
             F == OpeningLen(FALSE)
             R == RepLen
             I == InputsLen
  <1>1. m \in Nat /\ m + 1 = k /\ (k + 1) - 1 = k /\ F \in Nat /\ R \in Nat /\ I \in Nat
    <2>1. k - 1 \in Nat /\ (k - 1) + 1 = k /\ (k + 1) - 1 = k
      BY SMT
    <2> QED BY <2>1, Lengths, LengthsAssumption
  <1>2. c(m) \in Nat /\ c(m + 1) = c(m) + b /\ c(k) = c(m + 1)
    BY <1>1, Blocks
  <1>3. /\ Offset(n, has, k) = n * R + m * F + c(m) * I
        /\ Offset(n, has, k + 1) = n * R + (m + 1) * F + c(k) * I
    BY <1>1 DEF Offset
  <1>4. ASSUME NEW x \in Nat, NEW y \in Nat, NEW z \in Nat
        PROVE  x + (y + F) + (z + I) = x + y + z + (F + I) /\ x + (y + F) + z = x + y + z + F
    <2> HIDE DEF F, I
    <2> QED BY <1>1, SMT
  <1>5. n * R \in Nat /\ m * F \in Nat /\ c(m) * I \in Nat /\ (m + 1) * F = m * F + F
        /\ (c(m) + 1) * I = c(m) * I + I
    BY <1>1, <1>2, Product
  <1>6. CASE has[k] = TRUE
    <2>1. b = 1 /\ OpeningLen(has[k]) = F + I
      BY <1>6, Lengths
    <2>2. c(k) = c(m) + 1
      <3> HIDE DEF c, m, b
      <3> QED BY <1>2, <2>1
    <2> HIDE DEF c, m, b, F, R, I
    <2>3. Offset(n, has, k + 1) = n * R + (m * F + F) + (c(m) * I + I)
      BY <1>3, <1>5, <2>2
    <2> QED BY <1>3, <1>4, <1>5, <2>1, <2>3
  <1>7. CASE has[k] = FALSE
    <2>1. b = 0 /\ OpeningLen(has[k]) = F
      BY <1>7
    <2>2. c(k) = c(m)
      <3> HIDE DEF c, m
      <3> QED BY <1>2, <2>1, SMT
    <2> HIDE DEF c, m, b, F, R, I
    <2> QED BY <1>3, <1>4, <1>5, <2>1, <2>2
  <1> QED BY <1>6, <1>7

LEMMA OffsetGrows ==
    ASSUME NEW n \in Nat, NEW has, NEW k \in Nat \ {0}, NEW j \in Nat, k <= j
    PROVE  Offset(n, has, k) <= Offset(n, has, j)
  <1> DEFINE s(i) == {x \in 1 .. i - 1 : has[x]}
             c == Cardinality(s(k))
             e == Cardinality(s(j))
             l == k - 1
             m == j - 1
             F == OpeningLen(FALSE)
             R == RepLen
  <1>1. l \in Nat /\ m \in Nat /\ l <= m /\ 1 .. l \subseteq 1 .. m
        /\ F \in Nat /\ R \in Nat /\ InputsLen \in Nat
    <2>1. k - 1 \in Nat /\ j - 1 \in Nat /\ k - 1 <= j - 1 /\ 1 .. k - 1 \subseteq 1 .. j - 1
      BY SMT
    <2> QED BY <2>1, Lengths, LengthsAssumption
  <1>2. c \in Nat /\ e \in Nat /\ IsFiniteSet(s(j))
    BY <1>1, Blocks
  <1>3. c <= e
    <2>1. s(k) \in SUBSET s(j)
      BY <1>1
    <2> QED BY <1>2, <2>1, FS_Subset
  <1>4. /\ Offset(n, has, k) = n * R + l * F + c * InputsLen
        /\ Offset(n, has, j) = n * R + m * F + e * InputsLen
    BY DEF Offset
  <1> HIDE DEF s, c, e, l, m, F, R
  <1>5. c * InputsLen <= e * InputsLen /\ l * F <= m * F
    BY <1>1, <1>2, <1>3, Multiples
  <1>6. n * R \in Nat /\ l * F \in Nat /\ m * F \in Nat
        /\ c * InputsLen \in Nat /\ e * InputsLen \in Nat
    BY <1>1, <1>2, Product
  <1> QED BY <1>4, <1>5, <1>6, SumOfThree

LEMMA OffsetFits ==
    ASSUME NEW n \in Nat, NEW has
    PROVE  LET lo == n * (RepLen + OpeningLen(FALSE)) IN
           /\ lo <= Offset(n, has, n + 1)
           /\ Offset(n, has, n + 1) <= lo + n * InputsLen
           /\ n * RepLen + n * OpeningLen(FALSE) = lo
  <1> DEFINE c == Cardinality({i \in 1 .. n : has[i]})
             F == OpeningLen(FALSE)
             R == RepLen
  <1>1. c \in Nat /\ c <= n /\ F \in Nat /\ R \in Nat /\ InputsLen \in Nat
    BY Blocks, Lengths, LengthsAssumption
  <1>2. (n + 1) - 1 = n
    BY SMT
  <1>3. Offset(n, has, n + 1) = n * R + n * F + c * InputsLen
    BY <1>2 DEF Offset
  <1> HIDE DEF c, F, R
  <1>4. n * (R + F) = n * R + n * F
    BY <1>1, Spread
  <1>5. c * InputsLen <= n * InputsLen
    BY <1>1, Multiples
  <1>6. n * R \in Nat /\ n * F \in Nat /\ c * InputsLen \in Nat /\ n * InputsLen \in Nat
    BY <1>1, Product
  <1>7. n * R + n * F <= n * R + n * F + c * InputsLen
        /\ n * R + n * F + c * InputsLen <= n * R + n * F + n * InputsLen
    BY <1>5, <1>6, SMT
  <1> QED BY <1>3, <1>4, <1>7 DEF F, R

LEMMA OffsetPrefix ==
    ASSUME NEW n, NEW g, NEW h, NEW k \in Nat, \A i \in 1 .. k - 1 : g[i] = h[i]
    PROVE  Offset(n, g, k) = Offset(n, h, k)
  <1>1. {i \in 1 .. k - 1 : g[i]} = {i \in 1 .. k - 1 : h[i]}
    OBVIOUS
  <1> QED BY <1>1 DEF Offset

-----------------------------------------------------------------------------
(* What every step of a decoder rests on. *)
LEMMA NotPassed ==
    ASSUME blob.len \in Nat, NEW h \in Candidates, Encodes(h)
    PROVE  Passed
  <1> DEFINE n == blob.reps
  <1>1. n \in Nat /\ n \in 1 .. MaxDeclared /\ blob.header = "good"
    BY DeclaredAssumption DEF Encodes
  <1>2. blob.len = Offset(n, h, n + 1)
    BY DEF Encodes
  <1>3. LET lo == n * (RepLen + OpeningLen(FALSE)) IN
        lo <= blob.len /\ blob.len <= lo + n * InputsLen
    BY <1>1, <1>2, OffsetFits
  <1> QED BY <1>1, <1>3 DEF Passed, SizeFits

LEMMA RepFits ==
    ASSUME blob.len \in Nat, Passed, NEW k \in 0 .. blob.reps - 1
    PROVE  /\ k * RepLen \in Nat /\ (k + 1) * RepLen = k * RepLen + RepLen
           /\ k * RepLen + RepLen <= blob.len
           /\ blob.reps * RepLen <= blob.len
  <1> DEFINE n == blob.reps
             F == OpeningLen(FALSE)
             R == RepLen
             l == blob.len
  <1>1. n \in Nat /\ k \in Nat /\ k + 1 \in Nat /\ k + 1 <= n
    <2>1. n \in 1 .. MaxDeclared
      BY DEF Passed
    <2> HIDE DEF n
    <2>2. k \in 0 .. n - 1
      BY DEF n
    <2> QED BY <2>1, <2>2, SMT
  <1>2. F \in Nat /\ R \in Nat /\ l \in Nat
    BY Lengths
  <1>3. n * (R + F) <= l
    BY DEF Passed, SizeFits
  <1> HIDE DEF n, F, R, l
  <1>4. n * (R + F) = n * R + n * F /\ (k + 1) * R = k * R + R /\ n * R \in Nat /\ n * F \in Nat /\ k * R \in Nat
    BY <1>1, <1>2, Product, Spread
  <1>5. (k + 1) * R <= n * R
    BY <1>1, <1>2, Multiples
  <1>6. k * R + R <= l /\ n * R <= l
    BY <1>2, <1>3, <1>4, <1>5, SMT
  <1> QED BY <1>4, <1>6 DEF R, l, n

(* An encoding of which a prefix was read goes on where the decoder stands. *)
LEMMA Onwards ==
    ASSUME blob.len \in Nat, NEW s \in DecoderStates, AtOpenings(s), s.k < blob.reps,
           NEW h \in Candidates, Encodes(h)
    PROVE  /\ blob.byte[s.off + 2 * SeedLen] = Flag(h[s.k + 1])
           /\ s.off + OpeningLen(h[s.k + 1]) <= blob.len
           /\ h[s.k + 1] \in BOOLEAN
  <1> DEFINE n == blob.reps
             k == s.k
             j == k + 1
  <1>1. /\ n \in Nat /\ k \in Nat /\ j \in Nat \ {0} /\ j \in 1 .. n /\ j + 1 <= n + 1 /\ n + 1 \in Nat
        /\ 1 .. j - 1 = 1 .. k /\ j + 1 \in Nat \ {0}
    <2>1. n \in 1 .. MaxDeclared /\ k \in 0 .. n /\ k < n
      BY DEF Encodes, AtOpenings
    <2> HIDE DEF n, k
    <2> QED BY <2>1, SMT
  <1>2. h[j] \in BOOLEAN
    BY <1>1 DEF Candidates
  <1>3. \A i \in 1 .. j - 1 : s.has[i] = h[i]
    BY <1>1 DEF AtOpenings
  <1>4. s.off = Offset(n, h, j)
    <2>1. Offset(n, s.has, j) = Offset(n, h, j)
      BY <1>1, <1>3, OffsetPrefix
    <2> QED BY <2>1 DEF AtOpenings
  <1>5. Offset(n, h, j + 1) = s.off + OpeningLen(h[j])
    BY <1>1, <1>2, <1>4, OffsetStep
  <1>6. Offset(n, h, j + 1) <= Offset(n, h, n + 1)
    BY <1>1, OffsetGrows
  <1>7. Offset(n, h, n + 1) = blob.len
    BY DEF Encodes
  <1>8. FlagIn(n, h, j)
    BY <1>1 DEF Encodes
  <1> QED BY <1>2, <1>4, <1>5, <1>6, <1>7, <1>8 DEF FlagIn

-----------------------------------------------------------------------------
(* One step of one decoder. *)
LEMMA Stopped ==
    ASSUME NEW d \in Decoders, at \in [Decoders -> DecoderStates], NEW outcome \in Stages,
           Stop(d, outcome)
    PROVE  /\ at' \in [Decoders -> DecoderStates]
           /\ at'[d].stage = outcome /\ at'[d].k = at[d].k /\ at'[d].off = at[d].off
           /\ at'[d].has = at[d].has /\ at'[d].whole = at[d].whole
           /\ \A e \in Decoders : e # d => at'[e] = at[e]
  <1> DEFINE s == at[d]
             t == [s EXCEPT !.stage = outcome]
  <1>1. at' = [at EXCEPT ![d] = t]
    BY DEF Stop
  <1>2. s \in DecoderStates
    OBVIOUS
  <1>3. /\ t \in DecoderStates
        /\ t.stage = outcome /\ t.k = s.k /\ t.off = s.off /\ t.has = s.has /\ t.whole = s.whole
    BY <1>2 DEF DecoderStates
  <1> HIDE DEF t
  <1>4. at'[d] = t /\ at' \in [Decoders -> DecoderStates] /\ \A e \in Decoders : e # d => at'[e] = at[e]
    BY <1>1, <1>3
  <1> QED BY <1>3, <1>4

(* The fields of a record after several updates at once. *)
LEMMA FieldsOfRep ==
    ASSUME NEW s \in DecoderStates, NEW a \in Stages, NEW b \in Nat, NEW c \in Nat 
    PROVE  LET t == [s EXCEPT !.stage = a, !.k = b, !.off = c, !.whole = TRUE] IN
           /\ t \in DecoderStates /\ t.stage = a /\ t.k = b /\ t.off = c /\ t.has = s.has
           /\ t.whole = TRUE
  <1> DEFINE s1 == [s EXCEPT !.stage = a]
             s2 == [s1 EXCEPT !.k = b]
             s3 == [s2 EXCEPT !.off = c]
             s4 == [s3 EXCEPT !.whole = TRUE]
  <1>1. [s EXCEPT !.stage = a, !.k = b, !.off = c, !.whole = TRUE] = s4
    OBVIOUS
  <1>2. s1 = [stage |-> a, k |-> s.k, off |-> s.off, has |-> s.has, whole |-> s.whole]
        /\ s1 \in DecoderStates
    BY DEF DecoderStates
  <1> HIDE DEF s1
  <1>3. s2 = [stage |-> a, k |-> b, off |-> s.off, has |-> s.has, whole |-> s.whole]
        /\ s2 \in DecoderStates
    BY <1>2 DEF DecoderStates
  <1> HIDE DEF s2
  <1>4. s3 = [stage |-> a, k |-> b, off |-> c, has |-> s.has, whole |-> s.whole]
        /\ s3 \in DecoderStates
    BY <1>3 DEF DecoderStates
  <1> HIDE DEF s3
  <1>5. /\ s4 \in DecoderStates /\ s4.stage = a /\ s4.k = b /\ s4.off = c /\ s4.has = s.has
        /\ s4.whole = TRUE
    BY <1>4 DEF DecoderStates
  <1> HIDE DEF s4
  <1> QED BY <1>1, <1>5

LEMMA FieldsOfOpening ==
    ASSUME NEW s \in DecoderStates, NEW b \in Nat, NEW c \in Nat,
           NEW e \in Seq(BOOLEAN) 
    PROVE  LET t == [s EXCEPT !.k = b, !.off = c, !.has = e, !.whole = TRUE] IN
           /\ t \in DecoderStates /\ t.stage = s.stage /\ t.k = b /\ t.off = c /\ t.has = e
           /\ t.whole = TRUE
  <1> DEFINE s1 == [s EXCEPT !.k = b]
             s2 == [s1 EXCEPT !.off = c]
             s3 == [s2 EXCEPT !.has = e]
             s4 == [s3 EXCEPT !.whole = TRUE]
  <1>1. [s EXCEPT !.k = b, !.off = c, !.has = e, !.whole = TRUE] = s4
    OBVIOUS
  <1>2. s1 = [stage |-> s.stage, k |-> b, off |-> s.off, has |-> s.has, whole |-> s.whole]
        /\ s1 \in DecoderStates
    BY DEF DecoderStates
  <1> HIDE DEF s1
  <1>3. s2 = [stage |-> s.stage, k |-> b, off |-> c, has |-> s.has, whole |-> s.whole]
        /\ s2 \in DecoderStates
    BY <1>2 DEF DecoderStates
  <1> HIDE DEF s2
  <1>4. s3 = [stage |-> s.stage, k |-> b, off |-> c, has |-> e, whole |-> s.whole]
        /\ s3 \in DecoderStates
    BY <1>3 DEF DecoderStates
  <1> HIDE DEF s3
  <1>5. /\ s4 \in DecoderStates /\ s4.stage = s.stage /\ s4.k = b /\ s4.off = c /\ s4.has = e
        /\ s4.whole = TRUE
    BY <1>4 DEF DecoderStates
  <1> HIDE DEF s4
  <1> QED BY <1>1, <1>5

LEMMA HeaderOK ==
    ASSUME NEW d \in Decoders, at \in [Decoders -> DecoderStates], blob.len \in Nat,
           Known(at[d]), Header(d)
    PROVE  /\ Known(at'[d]) /\ at' \in [Decoders -> DecoderStates]
           /\ \A e \in Decoders : e # d => at'[e] = at[e]
  <1> DEFINE t == at'[d]
  <1>1. at[d] = Start
    BY DEF Header, Known
  <1>2. CASE Passed
    <2>1. Stop(d, "reps")
      BY <1>2 DEF Header, Passed
    <2>2. /\ t.stage = "reps" /\ t.k = 0 /\ t.off = 0 /\ t.has = <<>> /\ t.whole = TRUE
          /\ at' \in [Decoders -> DecoderStates] /\ \A e \in Decoders : e # d => at'[e] = at[e]
      BY <1>1, <2>1, Stopped DEF Start, Stages
    <2>3. 0 \in 0 .. blob.reps - 1 /\ 0 = 0 * RepLen
      <3>1. blob.reps \in 1 .. MaxDeclared
        BY <1>2 DEF Passed
      <3>2. 0 \in 0 .. blob.reps - 1
        BY <3>1, SMT
      <3> QED BY <3>2, Lengths, Product
    <2> HIDE DEF t
    <2>4. AtReps(t)
      BY <1>2, <2>2, <2>3 DEF AtReps
    <2>5. Known(t)
      BY <2>2, <2>4 DEF Known
    <2> QED BY <2>2, <2>5 DEF t
  <1>3. CASE ~Passed
    <2>1. Stop(d, "rejected")
      BY <1>3 DEF Header, Passed
    <2>2. /\ t.stage = "rejected"
          /\ at' \in [Decoders -> DecoderStates] /\ \A e \in Decoders : e # d => at'[e] = at[e]
      BY <2>1, Stopped DEF Stages, Over
    <2>3. \A h \in Candidates : ~Encodes(h)
      BY <1>3, NotPassed
    <2> HIDE DEF t
    <2>4. Known(t)
      BY <2>2, <2>3 DEF Known
    <2> QED BY <2>2, <2>4 DEF t
  <1> QED BY <1>2, <1>3

LEMMA ReadRepOK ==
    ASSUME NEW d \in Decoders, at \in [Decoders -> DecoderStates], blob.len \in Nat,
           Known(at[d]), ReadRep(d)
    PROVE  /\ Known(at'[d]) /\ at' \in [Decoders -> DecoderStates]
           /\ \A e \in Decoders : e # d => at'[e] = at[e]
  <1> DEFINE s == at[d]
             t == at'[d]
             n == blob.reps
             off == s.off
             last == s.k + 1 = n
             R == RepLen
  <1>1. AtReps(s) /\ s \in DecoderStates /\ s.stage = "reps"
    BY DEF ReadRep, Known
  <1>2. Passed /\ s.k \in 0 .. n - 1 /\ off = s.k * R /\ s.has = <<>> /\ s.whole = TRUE
    BY <1>1 DEF AtReps
  <1>3. /\ off \in Nat /\ (s.k + 1) * R = off + R /\ off + R <= blob.len /\ n * R <= blob.len
    BY <1>2, RepFits
  <1>4. /\ 3 * CommitLen \in Nat /\ R = 3 * CommitLen + 3 * OutsLen
        /\ CommitLen \in Nat /\ OutsLen \in Nat
    BY Lengths, LengthsAssumption, SMT
  <1>5. ~(off + 3 * CommitLen > blob.len) /\ Slice(off, 3 * CommitLen) = 3 * CommitLen
    <2> DEFINE c == 3 * CommitLen
               o == 3 * OutsLen
               l == blob.len
    <2>1. c \in Nat /\ o \in Nat /\ off + c + o <= l /\ off \in Nat /\ l \in Nat
      <3>1. 3 * CommitLen \in Nat /\ 3 * OutsLen \in Nat
        BY <1>4, SMT
      <3>2. ASSUME NEW a \in Nat, NEW b \in Nat, NEW x \in Nat, NEW y \in Nat, x + (a + b) <= y
            PROVE  x + a + b <= y
        BY <3>2, SMT
      <3> QED BY <1>3, <1>4, <3>1, <3>2
    <2> HIDE DEF off, c, o, l
    <2>2. ~(off + c > l)
      BY <2>1, SMT
    <2>3. (IF off >= l THEN 0 ELSE IF off + c > l THEN l - off ELSE c) = c
      BY <2>1, SMT
    <2> QED BY <2>2, <2>3 DEF Slice, off, c, l
  <1>6. ASSUME NEW i \in 0 .. 2 PROVE Reads(d, off + 3 * CommitLen + i * OutsLen, OutsLen)
    <2> DEFINE c == 3 * CommitLen
               x == off + c + i * OutsLen
               l == blob.len
    <2>1. x \in Nat /\ x + OutsLen <= l
      <3> HIDE DEF off
      <3>1. 3 * CommitLen \in Nat /\ off + (c + 3 * OutsLen) <= l /\ l \in Nat
        BY <1>3, <1>4
      <3> HIDE DEF c, l
      <3>2. CASE i = 0
        BY <1>3, <1>4, <3>1, <3>2, SMT DEF c
      <3>3. CASE i = 1
        BY <1>3, <1>4, <3>1, <3>3, SMT DEF c
      <3>4. CASE i = 2
        BY <1>3, <1>4, <3>1, <3>4, SMT DEF c
      <3>5. i = 0 \/ i = 1 \/ i = 2
        BY SMT
      <3> QED BY <3>2, <3>3, <3>4, <3>5
    <2> HIDE DEF x
    <2>2. (IF x >= l THEN 0 ELSE IF x + OutsLen > l THEN l - x ELSE OutsLen) >= OutsLen
      BY <1>4, <2>1, SMT
    <2> QED BY <2>1, <2>2 DEF Reads, PyReads, RsReads, Slice, x
  <1>7. at' = [at EXCEPT ![d].stage = IF last THEN "openings" ELSE @,
                         ![d].k = IF last THEN 0 ELSE @ + 1,
                         ![d].off = @ + R,
                         ![d].whole = @ /\ Slice(off, 3 * CommitLen) = 3 * CommitLen]
    BY <1>5, <1>6 DEF ReadRep
  <1>8. /\ (IF last THEN "openings" ELSE "reps") \in Stages
        /\ (IF last THEN 0 ELSE s.k + 1) \in Nat /\ off + R \in Nat
    <2>1. s.k \in Nat
      BY <1>1 DEF DecoderStates
    <2>2. s.k + 1 \in Nat /\ off + R \in Nat /\ 0 \in Nat
      <3> HIDE DEF s
      <3> QED BY <1>3, <2>1, Lengths, SMT
    <2> QED BY <2>2 DEF Stages
  <1>9. /\ t.stage = (IF last THEN "openings" ELSE "reps")
        /\ t.k = (IF last THEN 0 ELSE s.k + 1)
        /\ t.off = off + R /\ t.has = <<>> /\ t.whole = TRUE
        /\ at' \in [Decoders -> DecoderStates] /\ \A e \in Decoders : e # d => at'[e] = at[e]
    <2> DEFINE a == IF last THEN "openings" ELSE "reps"
               b == IF last THEN 0 ELSE s.k + 1
               x == off + R
               w == s.whole /\ Slice(off, 3 * CommitLen) = 3 * CommitLen
               u == [s EXCEPT !.stage = a, !.k = b, !.off = x, !.whole = TRUE]
    <2>1. w = TRUE
      BY <1>2, <1>5
    <2>2. at' = [at EXCEPT ![d] = [s EXCEPT !.stage = a, !.k = b, !.off = x, !.whole = w]]
      BY <1>1, <1>7
    <2> HIDE DEF w
    <2>3. at' = [at EXCEPT ![d] = u]
      BY <2>1, <2>2
    <2>4. a \in Stages /\ b \in Nat /\ x \in Nat
      BY <1>8
    <2> HIDE DEF s, a, b, x
    <2>5. u \in DecoderStates /\ u.stage = a /\ u.k = b /\ u.off = x /\ u.has = s.has /\ u.whole = TRUE
      BY <1>1, <2>4, FieldsOfRep
    <2> HIDE DEF u
    <2>6. t = u /\ at' \in [Decoders -> DecoderStates] /\ \A e \in Decoders : e # d => at'[e] = at[e]
      BY <2>3, <2>5
    <2> QED BY <1>2, <2>5, <2>6 DEF a, b, x
  <1>11. CASE ~last
    <2>1. AtReps(t)
      <3>1. s.k + 1 \in 0 .. n - 1
        <4> DEFINE k == s.k
        <4>1. k \in 0 .. n - 1 /\ k + 1 # n /\ n \in 1 .. MaxDeclared
          BY <1>2, <1>11 DEF Passed
        <4> HIDE DEF k, n
        <4>2. k + 1 \in 0 .. n - 1
          BY <4>1, SMT
        <4> QED BY <4>2 DEF k
      <3> QED BY <1>2, <1>3, <1>9, <1>11, <3>1 DEF AtReps
    <2>2. Known(t)
      BY <1>9, <1>11, <2>1 DEF Known
    <2> QED BY <1>9, <2>2
  <1>12. CASE last
    <2>1. n \in Nat /\ 0 \in 0 .. n /\ 1 .. 0 = {} /\ 0 + 1 = 1 /\ 1 \in Nat \ {0}
      <3>1. n \in 1 .. MaxDeclared
        BY <1>2 DEF Passed
      <3> HIDE DEF n
      <3> QED BY <3>1, SMT
    <2>2. off + R = n * R /\ n * R <= blob.len
      BY <1>3, <1>12
    <2>3. Offset(n, <<>>, 1) = n * R
      BY <2>1, OffsetType
    <2>4. Len(<<>>) = 0
      OBVIOUS
    <2>5. t.stage = "openings" /\ t.k = 0 /\ t.off = off + R /\ t.has = <<>> /\ t.whole = TRUE
      BY <1>9, <1>12
    <2> HIDE DEF t, s, n, R
    <2>6. AtOpenings(t)
      BY <1>2, <2>1, <2>2, <2>3, <2>4, <2>5 DEF AtOpenings, n
    <2>7. Known(t)
      BY <2>5, <2>6 DEF Known
    <2> QED BY <1>9, <2>7 DEF t
  <1> QED BY <1>11, <1>12

LEMMA SameFlag ==
    ASSUME NEW a \in BOOLEAN, NEW b \in BOOLEAN, Flag(a) = Flag(b)
    PROVE  a = b
  BY DEF Flag

LEMMA FlagValues == Flag(TRUE) = 1 /\ Flag(FALSE) = 0
  BY DEF Flag

(* What is read up to an opening and behind it. *)
LEMMA OneMore ==
    ASSUME NEW s \in DecoderStates, NEW b \in BOOLEAN
    PROVE  LET g == Append(s.has, b)
               k == Len(s.has) IN
           /\ g \in Seq(BOOLEAN) /\ Len(g) = k + 1 /\ k \in Nat /\ g[k + 1] = b
           /\ \A i \in 1 .. k : g[i] = s.has[i]
  <1>1. s.has \in Seq(BOOLEAN)
    BY DEF DecoderStates
  <1> DEFINE h == s.has
  <1> HIDE DEF h
  <1>2. h \in Seq(BOOLEAN)
    BY <1>1 DEF h
  <1>3. LET g == Append(h, b)
            k == Len(h) IN
        /\ g \in Seq(BOOLEAN) /\ Len(g) = k + 1 /\ k \in Nat /\ g[k + 1] = b
        /\ \A i \in 1 .. k : g[i] = h[i]
    BY <1>2
  <1> QED BY <1>3 DEF h

LEMMA OpeningRead ==
    ASSUME blob.len \in Nat, NEW s \in DecoderStates, AtOpenings(s), s.k < blob.reps,
           NEW b \in BOOLEAN, blob.byte[s.off + 2 * SeedLen] = Flag(b),
           s.off + OpeningLen(b) <= blob.len,
           NEW t \in DecoderStates, t.k = s.k + 1, t.off = s.off + OpeningLen(b),
           t.has = Append(s.has, b), t.whole = TRUE
    PROVE  AtOpenings(t)
  <1> DEFINE n == blob.reps
             k == s.k
             g == t.has
  <1>1. /\ n \in Nat /\ k \in Nat /\ k = Len(s.has) /\ k + 1 \in 0 .. n /\ k + 1 \in Nat \ {0}
        /\ 1 .. k + 1 = (1 .. k) \cup {k + 1} /\ (k + 1) - 1 = k
        /\ 1 .. k \subseteq 1 .. n /\ k + 1 \in 1 .. n
        /\ \A i \in 1 .. k : i \in Nat /\ 1 .. i - 1 \subseteq 1 .. k /\ 1 .. k - 1 \subseteq 1 .. k
    <2>1. n \in 1 .. MaxDeclared /\ k \in 0 .. n /\ k < n /\ k = Len(s.has)
      BY DEF Passed, AtOpenings
    <2> HIDE DEF n, k
    <2>2. /\ n \in Nat /\ k \in Nat /\ k + 1 \in 0 .. n /\ k + 1 \in Nat \ {0}
          /\ 1 .. k + 1 = (1 .. k) \cup {k + 1} /\ (k + 1) - 1 = k
          /\ 1 .. k \subseteq 1 .. n /\ k + 1 \in 1 .. n
          /\ \A i \in 1 .. k : i \in Nat /\ 1 .. i - 1 \subseteq 1 .. k /\ 1 .. k - 1 \subseteq 1 .. k
      BY <2>1, SMT
    <2> QED BY <2>1, <2>2
  <1>2. /\ g \in Seq(BOOLEAN) /\ Len(g) = k + 1 /\ g[k + 1] = b
        /\ \A i \in 1 .. k : g[i] = s.has[i]
    BY <1>1, OneMore
  <1>3. \A i \in 1 .. k : Offset(n, g, i) = Offset(n, s.has, i)
    <2> SUFFICES ASSUME NEW i \in 1 .. k PROVE Offset(n, g, i) = Offset(n, s.has, i)
      OBVIOUS
    <2>1. i \in Nat /\ \A j \in 1 .. i - 1 : g[j] = s.has[j]
      BY <1>1, <1>2
    <2> HIDE DEF g, n
    <2> QED BY <2>1, OffsetPrefix
  <1>4. Offset(n, g, k + 1) = s.off
    <2>1. \A j \in 1 .. (k + 1) - 1 : g[j] = s.has[j]
      BY <1>1, <1>2
    <2>2. Offset(n, g, k + 1) = Offset(n, s.has, k + 1)
      <3> HIDE DEF g, n
      <3> QED BY <1>1, <2>1, OffsetPrefix
    <2> QED BY <2>2 DEF AtOpenings
  <1>5. Offset(n, g, (k + 1) + 1) = s.off + OpeningLen(b)
    <2> HIDE DEF g, n
    <2> QED BY <1>1, <1>2, <1>4, OffsetStep
  <1>6. ASSUME NEW i \in 1 .. k + 1 PROVE FlagIn(n, g, i)
    <2>1. CASE i \in 1 .. k
      <3>1. FlagIn(n, s.has, i) /\ g[i] = s.has[i] /\ Offset(n, g, i) = Offset(n, s.has, i)
        BY <1>2, <1>3, <2>1 DEF AtOpenings
      <3> HIDE DEF g, n
      <3> QED BY <3>1 DEF FlagIn
    <2>2. CASE i = k + 1
      <3>1. blob.byte[Offset(n, g, k + 1) + 2 * SeedLen] = Flag(b)
        BY <1>4
      <3> HIDE DEF g, n
      <3> QED BY <1>2, <2>2, <3>1 DEF FlagIn
    <2> QED BY <1>1, <2>1, <2>2
  <1>7. ASSUME NEW h \in Candidates, Encodes(h), NEW i \in 1 .. k + 1 PROVE h[i] = g[i]
    <2>1. CASE i \in 1 .. k
      BY <1>2, <1>7, <2>1 DEF AtOpenings
    <2>2. CASE i = k + 1
      <3>1. blob.byte[s.off + 2 * SeedLen] = Flag(h[k + 1]) /\ h[k + 1] \in BOOLEAN
        BY <1>7, Onwards
      <3>2. h[k + 1] = b
        BY <3>1, SameFlag
      <3> QED BY <1>2, <2>2, <3>2
    <2> QED BY <1>1, <2>1, <2>2
  <1>8. Passed
    BY DEF AtOpenings
  <1>9. /\ t.k \in 0 .. n /\ Len(g) = t.k /\ t.off = Offset(n, g, t.k + 1) /\ t.off <= blob.len
        /\ t.whole = TRUE /\ \A i \in 1 .. t.k : FlagIn(n, g, i)
        /\ \A h \in Candidates : Encodes(h) => \A i \in 1 .. t.k : h[i] = g[i]
    BY <1>1, <1>2, <1>5, <1>6, <1>7
  <1> QED BY <1>8, <1>9 DEF AtOpenings

LEMMA ReadsFit ==
    ASSUME NEW d \in Decoders, blob.len \in Nat, NEW x \in Nat, x <= blob.len, NEW m \in Nat
    PROVE  Reads(d, x, m) <=> x + m <= blob.len
  <1> DEFINE l == blob.len
  <1> HIDE DEF l
  <1>1. ((IF x >= l THEN 0 ELSE IF x + m > l THEN l - x ELSE m) >= m) <=> x + m <= l
    BY SMT DEF l
  <1> QED BY <1>1 DEF Reads, PyReads, RsReads, Slice, l

LEMMA OpeningFits ==
    ASSUME NEW d \in Decoders, blob.len \in Nat, NEW x \in Nat, NEW b \in BOOLEAN,
           x + 2 * SeedLen < blob.len
    PROVE  LET f == x + 2 * SeedLen
               inputs == IF b THEN InputsLen ELSE 0 IN
           Reads(d, f + 1, inputs) /\ Reads(d, f + 1 + inputs, MultsLen)
               <=> x + OpeningLen(b) <= blob.len
  <1> DEFINE l == blob.len
             f == x + 2 * SeedLen
             inputs == IF b THEN InputsLen ELSE 0
             m == MultsLen
  <1>1. f \in Nat /\ f + 1 \in Nat /\ f + 1 <= l /\ inputs \in Nat /\ m \in Nat /\ l \in Nat
    <2>1. f \in Nat
      BY LengthsAssumption, SMT
    <2> HIDE DEF f
    <2>2. f + 1 \in Nat /\ f + 1 <= l
      BY <2>1, SMT DEF f
    <2> QED BY <2>1, <2>2, LengthsAssumption
  <1>2. x + OpeningLen(b) = f + 1 + inputs + m
    <2>1. OpeningLen(b) = 2 * SeedLen + 1 + inputs + m
      BY DEF OpeningLen
    <2>2. 2 * SeedLen \in Nat
      BY LengthsAssumption, SMT
    <2> DEFINE z == 2 * SeedLen
    <2> HIDE DEF inputs, m, z
    <2>3. x + (z + 1 + inputs + m) = x + z + 1 + inputs + m
      BY <1>1, <2>2, SMT DEF z
    <2> QED BY <2>1, <2>3 DEF z
  <1> HIDE DEF l, f, inputs, m
  <1>3. Reads(d, f + 1, inputs) <=> f + 1 + inputs <= l
    BY <1>1, ReadsFit DEF l
  <1>4. f + 1 + inputs <= l => (Reads(d, f + 1 + inputs, m) <=> f + 1 + inputs + m <= l)
    <2>1. f + 1 + inputs \in Nat
      BY <1>1, SMT
    <2> QED BY <1>1, <2>1, ReadsFit DEF l
  <1>5. f + 1 + inputs + m <= l => f + 1 + inputs <= l
    BY <1>1, SMT
  <1> QED BY <1>2, <1>3, <1>4, <1>5 DEF l, f, inputs, m

LEMMA ReadOpeningOK ==
    ASSUME NEW d \in Decoders, at \in [Decoders -> DecoderStates], blob.len \in Nat,
           Known(at[d]), ReadOpening(d)
    PROVE  /\ Known(at'[d]) /\ at' \in [Decoders -> DecoderStates]
           /\ \A e \in Decoders : e # d => at'[e] = at[e]
  <1> DEFINE s == at[d]
             t == at'[d]
             n == blob.reps
             off == s.off
             f == off + 2 * SeedLen
             l == blob.len
             fits(b) == off + OpeningLen(b) <= l
  <1>1. AtOpenings(s) /\ s \in DecoderStates /\ s.stage = "openings" /\ s.k < n
    BY DEF ReadOpening, Known
  <1>2. off \in Nat /\ f \in Nat /\ l \in Nat /\ s.k \in Nat /\ 2 * SeedLen \in Nat
    <2>1. off \in Nat /\ s.k \in Nat
      BY <1>1 DEF DecoderStates
    <2> HIDE DEF s, off
    <2> QED BY <2>1, LengthsAssumption, SMT
  <1>3. Truncated(d, off) <=> ~(f < l)
    <2>1. off + 2 * SeedLen + 1 > l <=> ~(f < l)
      <3> HIDE DEF l, off
      <3> QED BY <1>2, SMT
    <2>2. off + 2 * SeedLen >= l <=> ~(f < l)
      <3> HIDE DEF l, f
      <3>1. f >= l <=> ~(f < l)
        BY <1>2, SMT
      <3> QED BY <3>1 DEF f, l
    <2> QED BY <2>1, <2>2 DEF Truncated, PyTruncated, RsTruncated
  <1>4. ASSUME NEW b \in BOOLEAN, fits(b) PROVE f < l
    <2>1. OpeningLen(b) = 2 * SeedLen + 1 + (IF b THEN InputsLen ELSE 0) + MultsLen
      BY DEF OpeningLen
    <2> DEFINE i == IF b THEN InputsLen ELSE 0
               z == 2 * SeedLen
    <2>2. i \in Nat /\ MultsLen \in Nat /\ z \in Nat
      BY <1>2, LengthsAssumption
    <2> HIDE DEF i, z, l, off
    <2>3. off + (z + 1 + i + MultsLen) <= l
      BY <1>4, <2>1 DEF i, z
    <2>4. off + z < l
      BY <1>2, <2>2, <2>3, SMT
    <2> QED BY <2>4 DEF z
  (* A blob with a flag that is none, or that ends too early, encodes nothing. *)
  <1>5. ASSUME \A b \in BOOLEAN : fits(b) => blob.byte[f] # Flag(b)
        PROVE  \A h \in Candidates : ~Encodes(h)
    <2> SUFFICES ASSUME NEW h \in Candidates, Encodes(h) PROVE FALSE
      OBVIOUS
    <2>1. /\ blob.byte[f] = Flag(h[s.k + 1]) /\ fits(h[s.k + 1]) /\ h[s.k + 1] \in BOOLEAN
      BY <1>1, Onwards
    <2> QED BY <1>5, <2>1
  <1>6. ASSUME Stop(d, "rejected"), \A b \in BOOLEAN : fits(b) => blob.byte[f] # Flag(b)
        PROVE  /\ Known(t) /\ at' \in [Decoders -> DecoderStates]
               /\ \A e \in Decoders : e # d => at'[e] = at[e]
    <2>1. /\ t.stage = "rejected" /\ at' \in [Decoders -> DecoderStates]
          /\ \A e \in Decoders : e # d => at'[e] = at[e]
      BY <1>6, Stopped DEF Stages, Over
    <2>2. \A h \in Candidates : ~Encodes(h)
      BY <1>5, <1>6
    <2> HIDE DEF t
    <2>3. Known(t)
      BY <2>1, <2>2 DEF Known
    <2> QED BY <2>1, <2>3
  <1>7. CASE Truncated(d, off)
    <2>1. Stop(d, "rejected")
      BY <1>3, <1>7 DEF ReadOpening
    <2>2. \A b \in BOOLEAN : ~fits(b)
      BY <1>3, <1>4, <1>7
    <2> HIDE DEF fits
    <2> QED BY <1>6, <2>1, <2>2
  <1>8. CASE ~Truncated(d, off)
    <2> DEFINE flag == blob.byte[f]
               inputs == IF flag = 1 THEN InputsLen ELSE 0
               bad == \/ ~GoodFlag(flag)
                      \/ ~Reads(d, f + 1, inputs) \/ ~Reads(d, f + 1 + inputs, MultsLen)
               b == flag = 1
    <2>1. f < l
      BY <1>3, <1>8
    <2>2. /\ bad => Stop(d, "rejected")
          /\ ~bad => at' = [at EXCEPT ![d].k = @ + 1,
                                      ![d].off = @ + OpeningLen(b),
                                      ![d].has = Append(@, b),
                                      ![d].whole = @ /\ Slice(off, 2 * SeedLen) = 2 * SeedLen]
      <3>1. ~(f >= l)
        <4> HIDE DEF f, l
        <4> QED BY <1>2, <2>1, SMT
      <3> QED BY <1>8, <3>1 DEF ReadOpening
    <2>3. ASSUME NEW c \in BOOLEAN, flag = Flag(c)
          PROVE  b = c /\ GoodFlag(flag)
      <3>1. CASE c = TRUE
        BY <2>3, <3>1 DEF Flag, GoodFlag
      <3>2. CASE c = FALSE
        BY <2>3, <3>2 DEF Flag, GoodFlag
      <3> QED BY <3>1, <3>2
    <2>4. ASSUME NEW c \in BOOLEAN
          PROVE  Reads(d, f + 1, IF c THEN InputsLen ELSE 0)
                 /\ Reads(d, f + 1 + (IF c THEN InputsLen ELSE 0), MultsLen) <=> fits(c)
      <3> HIDE DEF off
      <3> QED BY <1>2, <2>1, OpeningFits
    <2>5. b \in BOOLEAN /\ inputs = (IF b THEN InputsLen ELSE 0)
      OBVIOUS
    <2>6. Reads(d, f + 1, inputs) /\ Reads(d, f + 1 + inputs, MultsLen) <=> fits(b)
      <3> HIDE DEF f, fits, b
      <3>1. Reads(d, f + 1, IF b THEN InputsLen ELSE 0)
            /\ Reads(d, f + 1 + (IF b THEN InputsLen ELSE 0), MultsLen) <=> fits(b)
        BY <2>4, <2>5
      <3> QED BY <2>5, <3>1
    <2>7. CASE bad
      <3>1. ASSUME NEW c \in BOOLEAN, fits(c), flag = Flag(c) PROVE FALSE
        <4>1. b = c /\ GoodFlag(flag)
          BY <2>3, <3>1
        <4> HIDE DEF fits, f, inputs
        <4> QED BY <2>6, <2>7, <3>1, <4>1
      <3> HIDE DEF fits, bad
      <3> QED BY <1>6, <2>2, <2>7, <3>1
    <2>8. CASE ~bad
      <3>1. GoodFlag(flag) /\ fits(b)
        <4> HIDE DEF fits, f, inputs, b
        <4> QED BY <2>6, <2>8
      <3>2. flag = Flag(b)
        BY <3>1 DEF GoodFlag, Flag
      <3> DEFINE w == s.whole /\ Slice(off, 2 * SeedLen) = 2 * SeedLen
                 u == [s EXCEPT !.k = s.k + 1, !.off = off + OpeningLen(b),
                                !.has = Append(s.has, b), !.whole = TRUE]
      <3>3. w = TRUE
        <4>1. Slice(off, 2 * SeedLen) = 2 * SeedLen
          <5> DEFINE z == 2 * SeedLen
          <5>1. off + z < l /\ z \in Nat
            BY <1>2, <2>1
          <5> HIDE DEF z, off, l
          <5>2. (IF off >= l THEN 0 ELSE IF off + z > l THEN l - off ELSE z) = z
            BY <1>2, <5>1, SMT
          <5> QED BY <5>2 DEF Slice, z, l
        <4> QED BY <1>1, <4>1 DEF AtOpenings
      <3>4. at' = [at EXCEPT ![d] = [s EXCEPT !.k = s.k + 1, !.off = off + OpeningLen(b),
                                              !.has = Append(s.has, b), !.whole = w]]
        BY <2>2, <2>8
      <3>5. at' = [at EXCEPT ![d] = u]
        <4> HIDE DEF w, b
        <4> QED BY <3>3, <3>4
      <3>6. /\ s.k + 1 \in Nat /\ off + OpeningLen(b) \in Nat /\ Append(s.has, b) \in Seq(BOOLEAN)
        <4>1. OpeningLen(b) \in Nat
          <5>1. b = TRUE \/ b = FALSE
            OBVIOUS
          <5> HIDE DEF b
          <5> QED BY <5>1, Lengths
        <4> HIDE DEF b, s, off
        <4>2. s.k + 1 \in Nat /\ off + OpeningLen(b) \in Nat
          BY <1>2, <4>1, SMT
        <4> QED BY <1>1, <2>5, <4>2, OneMore
      <3>7. /\ u \in DecoderStates /\ u.stage = s.stage /\ u.k = s.k + 1
            /\ u.off = off + OpeningLen(b) /\ u.has = Append(s.has, b) /\ u.whole = TRUE
        <4> DEFINE x == off + OpeningLen(b)
                   y == s.k + 1
                   z == Append(s.has, b)
        <4>1. x \in Nat /\ y \in Nat /\ z \in Seq(BOOLEAN)
          BY <3>6
        <4> HIDE DEF x, y, z, s
        <4>2. LET v == [s EXCEPT !.k = y, !.off = x, !.has = z, !.whole = TRUE] IN
              /\ v \in DecoderStates /\ v.stage = s.stage /\ v.k = y /\ v.off = x /\ v.has = z
              /\ v.whole = TRUE
          BY <1>1, <4>1, FieldsOfOpening
        <4> QED BY <4>2 DEF x, y, z
      <3> HIDE DEF u
      <3>8. t = u /\ at' \in [Decoders -> DecoderStates] /\ \A e \in Decoders : e # d => at'[e] = at[e]
        BY <3>5, <3>7
      <3>9. AtOpenings(u)
        <4> HIDE DEF s, b
        <4> QED BY <1>1, <1>2, <2>5, <3>1, <3>2, <3>7, OpeningRead
      <3>10. Known(u)
        BY <1>1, <3>7, <3>9 DEF Known
      <3> QED BY <3>8, <3>10
    <2> QED BY <2>7, <2>8
  <1> QED BY <1>7, <1>8

LEMMA SameBlocks ==
    ASSUME NEW S, NEW f \in [S -> BOOLEAN], NEW g \in [S -> BOOLEAN],
           \A i \in S : f[i] = g[i]
    PROVE  f = g
  OBVIOUS

LEMMA FinishOK ==
    ASSUME NEW d \in Decoders, at \in [Decoders -> DecoderStates], blob.len \in Nat,
           Known(at[d]), Finish(d)
    PROVE  /\ Known(at'[d]) /\ at' \in [Decoders -> DecoderStates]
           /\ \A e \in Decoders : e # d => at'[e] = at[e]
  <1> DEFINE s == at[d]
             t == at'[d]
             n == blob.reps
  <1>1. AtOpenings(s) /\ s \in DecoderStates /\ s.k = n
    BY DEF Finish, Known
  <1>2. /\ Passed /\ Len(s.has) = n /\ s.off = Offset(n, s.has, n + 1) /\ s.whole = TRUE
        /\ \A i \in 1 .. n : FlagIn(n, s.has, i)
        /\ \A h \in Candidates : Encodes(h) => \A i \in 1 .. n : h[i] = s.has[i]
    BY <1>1 DEF AtOpenings
  <1>3. n \in Nat /\ n + 1 \in Nat /\ 1 .. (n + 1) - 1 = 1 .. n
    <2>1. n \in 1 .. MaxDeclared
      BY <1>2 DEF Passed
    <2> HIDE DEF n
    <2> QED BY <2>1, SMT
  <1>4. s.has \in Candidates
    <2>1. s.has \in Seq(BOOLEAN)
      BY <1>1 DEF DecoderStates
    <2>2. s.has \in [1 .. Len(s.has) -> BOOLEAN]
      BY <2>1, LenProperties
    <2> QED BY <1>2, <2>2 DEF Candidates
  <1>5. CASE Consumed(s.off)
    <2>1. Stop(d, "accepted")
      BY <1>5 DEF Finish
    <2>2. /\ t.stage = "accepted" /\ t.has = s.has /\ t.whole = TRUE
          /\ at' \in [Decoders -> DecoderStates] /\ \A e \in Decoders : e # d => at'[e] = at[e]
      BY <1>2, <2>1, Stopped DEF Stages, Over
    <2>3. Encodes(s.has)
      BY <1>2, <1>4, <1>5 DEF Encodes, Consumed, Passed
    <2>5. ASSUME NEW h \in Candidates, Encodes(h) PROVE h = s.has
      <3>1. \A i \in 1 .. n : h[i] = s.has[i]
        BY <1>2, <2>5
      <3> DEFINE g == s.has
                 P == 1 .. n
      <3>2. g \in [P -> BOOLEAN] /\ h \in [P -> BOOLEAN] /\ \A i \in P : h[i] = g[i]
        BY <1>4, <3>1 DEF Candidates
      <3> HIDE DEF g, P
      <3>3. h = g
        BY <3>2, SameBlocks
      <3> QED BY <3>3 DEF g
    <2> HIDE DEF s, t
    <2>4. Known(t)
      BY <1>4, <2>2, <2>3, <2>5 DEF Known
    <2> QED BY <2>2, <2>4 DEF t
  <1>6. CASE ~Consumed(s.off)
    <2>1. Stop(d, "rejected")
      BY <1>6 DEF Finish
    <2>2. /\ t.stage = "rejected" /\ at' \in [Decoders -> DecoderStates]
          /\ \A e \in Decoders : e # d => at'[e] = at[e]
      BY <2>1, Stopped DEF Stages, Over
    <2>3. ASSUME NEW h \in Candidates, Encodes(h) PROVE FALSE
      <3>1. \A i \in 1 .. (n + 1) - 1 : h[i] = s.has[i]
        BY <1>2, <1>3, <2>3
      <3>2. Offset(n, h, n + 1) = Offset(n, s.has, n + 1)
        <4> HIDE DEF n, s
        <4> QED BY <1>3, <3>1, OffsetPrefix
      <3>3. blob.len = Offset(n, h, n + 1)
        BY <2>3 DEF Encodes
      <3> QED BY <1>2, <1>6, <3>2, <3>3 DEF Consumed
    <2> HIDE DEF t
    <2>4. Known(t)
      BY <2>2, <2>3 DEF Known
    <2> QED BY <2>2, <2>4 DEF t
  <1> QED BY <1>5, <1>6

-----------------------------------------------------------------------------
(* The invariant of the decoders, for every step of the pipeline. *)
LEMMA StillKnown ==
    ASSUME NEW d \in Decoders, blob' = blob, Known(at'[d])
    PROVE  Known(at[d])'
  BY DEF Known, AtReps, AtOpenings, Encodes, Candidates, FlagIn, Passed, SizeFits

LEMMA EncodeLen ==
    ASSUME NEW n \in Nat \ {0}, NEW has \in [1 .. n -> BOOLEAN]
    PROVE  /\ has \in Seq(BOOLEAN) /\ Len(has) = n
           /\ \A k : OpeningAt(has, k) = Offset(n, has, k)
           /\ Encode(has).header = "good" /\ Encode(has).reps = n
           /\ Encode(has).len = Offset(n, has, n + 1) /\ Encode(has).len \in Nat
  <1>1. has \in Seq(BOOLEAN) /\ Len(has) = n
    <2>1. has \in Seq(BOOLEAN)
      OBVIOUS
    <2>2. DOMAIN has = 1 .. n /\ DOMAIN has = 1 .. Len(has) /\ Len(has) \in Nat
      BY <2>1, LenProperties
    <2>3. Len(has) = n
      <3> DEFINE l == Len(has)
      <3>1. 1 .. n = 1 .. l /\ l \in Nat
        BY <2>2
      <3> HIDE DEF l
      <3>2. n \in 1 .. l /\ l >= 1
        <4>1. n \in 1 .. n
          BY SMT
        <4>2. n \in 1 .. l
          BY <3>1, <4>1
        <4> QED BY <3>1, <4>2, SMT
      <3>3. l \in 1 .. n
        <4>1. l \in 1 .. l
          BY <3>1, <3>2, SMT
        <4> QED BY <3>1, <4>1
      <3>4. l = n
        BY <3>1, <3>2, <3>3, SMT
      <3> QED BY <3>4 DEF l
    <2> QED BY <2>1, <2>3
  <1>2. \A k : OpeningAt(has, k) = Offset(n, has, k)
    BY <1>1 DEF OpeningAt, Offset
  <1>3. /\ Encode(has).header = "good" /\ Encode(has).reps = n
        /\ Encode(has).len = Offset(n, has, n) + OpeningLen(has[n])
    BY <1>1, <1>2 DEF Encode
  <1>4. has[n] \in BOOLEAN /\ n + 1 \in Nat \ {0}
    BY SMT
  <1>5. Offset(n, has, n + 1) = Offset(n, has, n) + OpeningLen(has[n])
    BY <1>4, OffsetStep
  <1>6. Offset(n, has, n + 1) \in Nat
    BY <1>4, OffsetType
  <1> QED BY <1>1, <1>2, <1>3, <1>5, <1>6

LEMMA EncodingIsOne ==
    ASSUME NEW n \in 1 .. MaxDeclared, NEW has \in [1 .. n -> BOOLEAN], blob = Encode(has)
    PROVE  Encodes(has) /\ blob.reps = n
  <1> DEFINE place(k) == Offset(n, has, k) + 2 * SeedLen
             len == Offset(n, has, n + 1)
  <1>1. n \in Nat \ {0} /\ n \in Nat /\ n + 1 \in Nat
    BY SMT
  <1>2. /\ Len(has) = n /\ \A k : FlagAt(has, k) = place(k)
        /\ blob.header = "good" /\ blob.reps = n /\ blob.len = len
    BY <1>1, EncodeLen DEF FlagAt
  <1>3. \A k \in 1 .. n : k \in Nat \ {0} /\ has[k] \in BOOLEAN
    BY SMT
  <1>4. ASSUME NEW k \in 1 .. n, NEW j \in Nat, k + 1 <= j
        PROVE  place(k) + 1 <= Offset(n, has, j) /\ place(k) \in Nat
    <2>1. Offset(n, has, k) \in Nat /\ Offset(n, has, k + 1) = Offset(n, has, k) + OpeningLen(has[k])
      BY <1>1, <1>3, OffsetType, OffsetStep
    <2>2. Offset(n, has, k + 1) <= Offset(n, has, j)
      <3>1. k + 1 \in Nat \ {0}
        BY SMT
      <3> QED BY <1>1, <1>4, <3>1, OffsetGrows
    <2>3. OpeningLen(has[k]) = 2 * SeedLen + 1 + (IF has[k] THEN InputsLen ELSE 0) + MultsLen
      BY DEF OpeningLen
    <2>4. Offset(n, has, j) \in Nat
      <3>1. j \in Nat \ {0}
        BY <1>4, SMT
      <3> QED BY <1>1, <3>1, OffsetType
    <2> DEFINE o == Offset(n, has, k)
               p == Offset(n, has, j)
               i == IF has[k] THEN InputsLen ELSE 0
               z == 2 * SeedLen
    <2>5. z \in Nat /\ i \in Nat /\ MultsLen \in Nat
      <3>1. z \in Nat
        BY LengthsAssumption, SMT
      <3> QED BY <3>1, LengthsAssumption
    <2>6. o + (z + 1 + i + MultsLen) <= p /\ o \in Nat /\ p \in Nat
      BY <2>1, <2>2, <2>3, <2>4
    <2> HIDE DEF o, p, i, z
    <2>7. o + z + 1 <= p /\ o + z \in Nat
      BY <2>5, <2>6, SMT
    <2> QED BY <2>7 DEF o, p, z
  <1>5. ASSUME NEW k \in 1 .. n, NEW j \in 1 .. n, place(k) = place(j) PROVE k = j
    <2>1. ASSUME NEW a \in 1 .. n, NEW b \in 1 .. n, a < b PROVE place(a) # place(b)
      <3>1. b \in Nat /\ a + 1 <= b /\ b \in Nat \ {0} /\ n + 1 \in Nat /\ b + 1 <= n + 1
        BY <2>1, SMT
      <3>2. place(a) + 1 <= Offset(n, has, b) /\ place(a) \in Nat
        BY <1>4, <3>1
      <3> DEFINE o == Offset(n, has, b)
                 p == place(a)
      <3>3. o \in Nat
        BY <1>1, <3>1, OffsetType
      <3> HIDE DEF o, p
      <3>4. o + 2 * SeedLen # p
        BY <3>2, <3>3, LengthsAssumption, SMT DEF o, p
      <3> QED BY <3>4 DEF o, p
    <2>2. k < j \/ j < k \/ k = j
      BY SMT
    <2> QED BY <1>5, <2>1, <2>2
  <1>6. ASSUME NEW k \in 1 .. n PROVE place(k) \in 0 .. len - 1
    <2>1. n + 1 \in Nat /\ k + 1 <= n + 1
      BY SMT
    <2>2. place(k) + 1 <= len /\ place(k) \in Nat
      BY <1>4, <2>1
    <2>3. len \in Nat
      <3>1. n + 1 \in Nat \ {0}
        BY SMT
      <3> QED BY <1>1, <3>1, OffsetType
    <2> DEFINE p == place(k)
    <2> HIDE DEF p, len
    <2>4. p \in 0 .. len - 1
      BY <2>2, <2>3, SMT DEF p
    <2> QED BY <2>4 DEF p
  <1> DEFINE chosen(o) == CHOOSE k \in 1 .. n : o = place(k)
  <1>7. blob.byte = [o \in 0 .. len - 1 |->
                        IF \E k \in 1 .. n : o = place(k) THEN Flag(has[chosen(o)]) ELSE Payload]
    <2>1. OpeningAt(has, n) + OpeningLen(has[n]) = len
      <3>1. Encode(has).len = OpeningAt(has, n) + OpeningLen(has[n])
        BY <1>2 DEF Encode
      <3> QED BY <1>2, <3>1
    <2> HIDE DEF len, place
    <2> QED BY <1>2, <2>1 DEF Encode
  <1>8. ASSUME NEW k \in 1 .. n PROVE FlagIn(n, has, k)
    <2>1. chosen(place(k)) \in 1 .. n /\ place(k) = place(chosen(place(k)))
      <3> HIDE DEF place
      <3>1. \E j \in 1 .. n : place(k) = place(j)
        OBVIOUS
      <3> QED BY <3>1
    <2>2. chosen(place(k)) = k
      BY <1>5, <2>1
    <2>3. blob.byte[place(k)] = Flag(has[k])
      <3>1. place(k) \in 0 .. len - 1
        BY <1>6
      <3> HIDE DEF place, len, chosen
      <3> QED BY <1>7, <2>2, <3>1
    <2> QED BY <2>3 DEF FlagIn
  <1> QED BY <1>2, <1>8 DEF Encodes, Candidates

(* The proof in transit. *)
LEMMA InputsInTransit ==
    ASSUME Inv, phase \in {"sent", "verify", "returned"}
    PROVE  /\ nreps \in 1 .. MaxReps /\ nreps \in Nat \ {0}
           /\ HasInputs \in [1 .. nreps -> BOOLEAN]
  <1>1. nreps \in 0 .. MaxReps /\ nreps >= 1
    BY DEF Inv, TypeOK, Proved
  <1>2. nreps \in 1 .. MaxReps /\ nreps \in Nat \ {0}
    BY <1>1, RepsAssumption, SMT
  <1>3. \A k \in Reps : Given(trits[k]) \in BOOLEAN
    BY DEF Given
  <1> QED BY <1>2, <1>3 DEF HasInputs, Reps

LEMMA InitWire == PipelineInit => Wire
  <1> SUFFICES ASSUME PipelineInit PROVE Wire
    OBVIOUS
  <1>1. at = [d \in Decoders |-> Start] /\ blob = NoBlob
    BY DEF PipelineInit
  <1>2. Start \in DecoderStates /\ Start.stage = "header"
    BY DEF Start, DecoderStates, Stages
  <1>3. Known(Start)
    BY <1>2 DEF Known
  <1> QED BY <1>1, <1>2, <1>3 DEF Wire

LEMMA DecodeWire ==
    ASSUME Wire, blob # NoBlob, NEW d \in Decoders, Decode(d)
    PROVE  Wire'
  <1>1. blob' = blob
    BY DEF Decode, Header, ReadRep, ReadOpening, Finish
  <1>2. at \in [Decoders -> DecoderStates] /\ blob.len \in Nat /\ \A e \in Decoders : Known(at[e])
    BY DEF Wire
  <1>3. /\ Known(at'[d]) /\ at' \in [Decoders -> DecoderStates]
        /\ \A e \in Decoders : e # d => at'[e] = at[e]
    BY <1>2, HeaderOK, ReadRepOK, ReadOpeningOK, FinishOK DEF Decode
  <1>4. ASSUME NEW e \in Decoders PROVE Known(at'[e])
    BY <1>2, <1>3
  <1>5. \A e \in Decoders : Known(at[e])'
    BY <1>1, <1>4, StillKnown
  <1>6. (at \in [Decoders -> DecoderStates])'
    BY <1>3 DEF DecoderStates, Stages, Over
  <1>7. blob' # NoBlob /\ blob'.len \in Nat
    BY <1>1, <1>2
  <1> QED BY <1>5, <1>6, <1>7 DEF Wire

LEMMA ArrivedWire ==
    ASSUME Wire, \A d \in Decoders : at[d] = Start, at' = at, blob'.len \in Nat
    PROVE  Wire'
  <1>1. \A d \in Decoders : at'[d] = Start /\ at'[d].stage = "header"
    BY DEF Start
  <1>2. \A d \in Decoders : Known(at[d])'
    BY <1>1 DEF Known, Start
  <1> QED BY <1>1, <1>2 DEF Wire, DecoderStates, Stages, Over

LEMMA SameWire ==
    ASSUME Wire, UNCHANGED wireVars
    PROVE  Wire'
  <1>1. blob' = blob /\ at' = at
    BY DEF wireVars
  <1>2. \A d \in Decoders : Known(at'[d])
    BY <1>1 DEF Wire
  <1>3. \A d \in Decoders : Known(at[d])'
    BY <1>1, <1>2, StillKnown
  <1> QED BY <1>1, <1>3 DEF Wire, DecoderStates, Stages, Over

LEMMA NextWire == Inv /\ Wire /\ [PipelineNext]_vars => Wire'
  <1> SUFFICES ASSUME Inv, Wire, [PipelineNext]_vars PROVE Wire'
    OBVIOUS
  <1>1. CASE Prove
    BY <1>1, SameWire DEF Prove
  <1>2. ASSUME NEW bad \in SUBSET Reps, Ship(bad) PROVE Wire'
    <2>1. phase = "sent" /\ blob = NoBlob /\ blob' = Encode(HasInputs) /\ at' = at
      BY <1>2 DEF Ship
    <2>2. Encode(HasInputs).len \in Nat
      BY <2>1, InputsInTransit, EncodeLen
    <2> QED BY <2>1, <2>2, ArrivedWire DEF Wire
  <1>3. ASSUME NEW b \in AlteredBlobs, Exchange(b) PROVE Wire'
    <2>1. (\A d \in Decoders : at[d] = Start) /\ blob' = b /\ at' = at
      BY <1>3 DEF Exchange
    <2> QED BY <2>1, AlteredAssumption, ArrivedWire
  <1>4. ASSUME NEW d \in Decoders, Read(d) PROVE Wire'
    BY <1>4, DecodeWire DEF Read
  <1>5. ASSUME NEW d \in Decoders, Refuse(d) PROVE Wire'
    BY <1>5, SameWire DEF Refuse
  <1>6. ASSUME NEW d \in Decoders, NEW t \in 0 .. MaxThreads, NEW bad \in SUBSET Reps,
               Verify(d, t, bad)
        PROVE  Wire'
    BY <1>6, SameWire DEF Verify
  <1>7. CASE Check
    BY <1>7, SameWire DEF Check
  <1>8. CASE UNCHANGED vars
    BY <1>8, SameWire DEF vars
  <1> QED BY <1>1, <1>2, <1>3, <1>4, <1>5, <1>6, <1>7, <1>8 DEF PipelineNext

(* The proof of a prover that nobody exchanged is accepted, and read as it was written. *)
LEMMA ReadAsWritten ==
    ASSUME MaxReps <= MaxDeclared, Inv, Wire, Judging, ~altered,
           phase \in {"sent", "verify", "returned"}, NEW d \in Decoders, at[d].stage \in Over
    PROVE  /\ blob # NoBlob /\ blob.reps = nreps
           /\ at[d].stage = "accepted" /\ at[d].has = HasInputs
  <1>1. blob # NoBlob
    BY DEF Wire, Start, Over
  <1>2. blob = Encode(HasInputs)
    BY <1>1 DEF Judging
  <1>3. nreps \in 1 .. MaxDeclared /\ HasInputs \in [1 .. nreps -> BOOLEAN]
    <2>1. nreps \in 1 .. MaxReps /\ HasInputs \in [1 .. nreps -> BOOLEAN]
      BY InputsInTransit
    <2>2. nreps \in 1 .. MaxDeclared
      BY <2>1, RepsAssumption, DeclaredAssumption, SMT
    <2> QED BY <2>1, <2>2
  <1>4. Encodes(HasInputs) /\ blob.reps = nreps
    BY <1>2, <1>3, EncodingIsOne
  <1>5. HasInputs \in Candidates
    BY <1>4 DEF Encodes
  <1>6. Known(at[d])
    BY DEF Wire
  <1>7. at[d].stage = "accepted"
    BY <1>4, <1>5, <1>6 DEF Known, Over
  <1>8. at[d].has = HasInputs
    BY <1>4, <1>5, <1>6, <1>7 DEF Known
  <1> QED BY <1>1, <1>4, <1>7, <1>8

LEMMA NoneLacking ==
    ASSUME Inv, phase = "sent", NEW d \in Decoders, at[d].has = HasInputs
    PROVE  Lacking(d) = {}
  <1>1. \A k \in Reps : at[d].has[k] = Asked(trits[k])
    BY DEF HasInputs, Given, Asked
  <1> QED BY <1>1 DEF Lacking

LEMMA InitJudging == PipelineInit => Judging
  BY DEF PipelineInit, Init, Judging

LEMMA NextJudging ==
    ASSUME MaxReps <= MaxDeclared
    PROVE  Inv /\ Wire /\ Judging /\ [PipelineNext]_vars => Judging'
  <1> SUFFICES ASSUME Inv, Wire, Judging, [PipelineNext]_vars PROVE Judging'
    OBVIOUS
  <1>1. CASE Prove
    <2>1. /\ phase \in {"idle", "prove", "sample"}
          /\ phase' \in {"idle", "prove", "sample", "sent", "panicked"}
          /\ blob' = blob
      BY <1>1 DEF Prove, StartProve, Forked, ProveOne, JoinProve, Sample, wireVars
    <2>2. blob' = NoBlob
      BY <2>1 DEF Judging
    <2> QED BY <2>1, <2>2 DEF Judging
  <1>2. ASSUME NEW bad \in SUBSET Reps, Ship(bad) PROVE Judging'
    <2>1. /\ phase = "sent" /\ blob' = Encode(HasInputs) /\ UNCHANGED repVars
      BY <1>2 DEF Ship
    <2>2. HasInputs' = HasInputs
      BY <2>1 DEF HasInputs, Reps, repVars
    <2> QED BY <2>1, <2>2 DEF Judging, repVars, Encode
  <1>3. ASSUME NEW b \in AlteredBlobs, Exchange(b) PROVE Judging'
    <2>1. phase = "sent" /\ altered' = TRUE /\ phase' = phase
      BY <1>3 DEF Exchange, repVars
    <2> QED BY <2>1 DEF Judging
  <1>4. ASSUME UNCHANGED <<repVars, blob, spoiled, altered>> PROVE Judging'
    <2>1. /\ phase' = phase /\ nreps' = nreps /\ trits' = trits /\ refused' = refused
          /\ blob' = blob /\ spoiled' = spoiled /\ altered' = altered
      BY <1>4 DEF repVars
    <2>2. HasInputs' = HasInputs
      BY <2>1 DEF HasInputs, Reps
    <2>3. blob' = Encode(HasInputs)' <=> blob = Encode(HasInputs)
      BY <2>1, <2>2 DEF Encode
    <2> QED BY <2>1, <2>3 DEF Judging
  <1>5. ASSUME NEW d \in Decoders, Read(d) PROVE Judging'
    <2>1. UNCHANGED <<repVars, blob, spoiled, altered>>
      BY <1>5 DEF Read, Decode, Header, ReadRep, ReadOpening, Finish
    <2> QED BY <1>4, <2>1
  <1>6. ASSUME phase = "sent", Decoded, blob' = blob, altered' = altered,
               trits' = trits, nreps' = nreps, spoiled' = spoiled,
               ~altered => phase' \in {"verify", "panicked"} /\ refused' = spoiled,
               phase' \in {"verify", "returned", "panicked"}, phase' # "panicked"
        PROVE  Judging'
    <2>1. blob # NoBlob
      <3>1. "python" \in Decoders
        BY DEF Decoders
      <3> QED BY <1>6, <3>1 DEF Decoded, Wire, Start, Over
    <2>2. HasInputs' = HasInputs
      BY <1>6 DEF HasInputs, Reps
    <2>3. blob' = Encode(HasInputs)' <=> blob = Encode(HasInputs)
      BY <1>6, <2>2 DEF Encode
    <2> QED BY <1>6, <2>1, <2>3 DEF Judging
  <1>7. phase' # "panicked"
    <2>1. Inv'
      <3>1. [Next]_repVars
        BY PipelineStep
      <3> QED BY <3>1, NextInv
    <2> QED BY <2>1 DEF Inv
  <1>8. ASSUME NEW d \in Decoders, Refuse(d) PROVE Judging'
    <2>1. /\ phase = "sent" /\ Decoded /\ blob' = blob /\ altered' = altered
          /\ trits' = trits /\ nreps' = nreps /\ spoiled' = spoiled /\ phase' = "returned"
          /\ at[d].stage # "accepted" \/ blob.reps # nreps
      BY <1>8 DEF Refuse, RefuseProof, wireVars
    <2>2. altered
      BY <2>1, ReadAsWritten DEF Decoded
    <2> QED BY <1>6, <2>1, <2>2
  <1>9. ASSUME NEW d \in Decoders, NEW t \in 0 .. MaxThreads, NEW bad \in SUBSET Reps,
               Verify(d, t, bad)
        PROVE  Judging'
    <2>1. /\ phase = "sent" /\ Decoded /\ blob' = blob /\ altered' = altered
          /\ trits' = trits /\ nreps' = nreps /\ spoiled' = spoiled
          /\ phase' \in {"verify", "panicked"} /\ refused' = bad
          /\ ~altered => bad = spoiled \cup Lacking(d)
      BY <1>9 DEF Verify, StartVerify, Forked, wireVars
    <2>2. ~altered => Lacking(d) = {}
      BY <2>1, ReadAsWritten, NoneLacking DEF Decoded
    <2> QED BY <1>6, <1>7, <2>1, <2>2
  <1>10. CASE Check
    <2>1. /\ phase = "verify" /\ phase' \in {"verify", "returned"} /\ refused' = refused
          /\ blob' = blob /\ altered' = altered /\ trits' = trits /\ nreps' = nreps
          /\ spoiled' = spoiled
      BY <1>10 DEF Check, CheckOne, JoinVerify, wireVars
    <2>2. HasInputs' = HasInputs
      BY <2>1 DEF HasInputs, Reps
    <2>3. blob' = Encode(HasInputs)' <=> blob = Encode(HasInputs)
      BY <2>1, <2>2 DEF Encode
    <2> QED BY <2>1, <2>3 DEF Judging
  <1>11. CASE UNCHANGED vars
    BY <1>4, <1>11 DEF vars, wireVars
  <1> QED BY <1>1, <1>2, <1>3, <1>5, <1>8, <1>9, <1>10, <1>11 DEF PipelineNext

LEMMA WireIsStronger == Wire => DecodersAgree /\ DecodingIsExact
  <1> SUFFICES ASSUME Wire PROVE DecodersAgree /\ DecodingIsExact
    OBVIOUS
  <1>1. \A d \in Decoders : Known(at[d])
    BY DEF Wire
  <1>2. "python" \in Decoders /\ "rust" \in Decoders
    BY DEF Decoders
  <1>3. ASSUME NEW d \in Decoders, at[d].stage = "accepted", NEW e \in Decoders, at[e].stage \in Over
        PROVE  at[e].stage = "accepted" /\ at[d].has = at[e].has
    <2>1. Encodes(at[d].has) /\ at[d].has \in Candidates
      BY <1>1, <1>3 DEF Known
    <2> DEFINE h == at[d].has
    <2> HIDE DEF h
    <2>2. at[e].stage \in {"accepted", "rejected"}
      BY <1>1, <1>3 DEF Known, Over
    <2>3. at[e].stage # "rejected"
      BY <1>1, <2>1 DEF Known
    <2> QED BY <1>1, <2>1, <2>2, <2>3 DEF Known
  <1>4. DecodersAgree
    <2>1. \A d \in Decoders : at[d].stage \notin {"raised", "panicked"}
      BY <1>1 DEF Known
    <2>2. ASSUME \A d \in Decoders : at[d].stage \in Over
          PROVE  /\ at["python"].stage = at["rust"].stage
                 /\ at["python"].stage = "accepted" => at["python"].has = at["rust"].has
      <3>1. /\ at["python"].stage \in {"accepted", "rejected"}
            /\ at["rust"].stage \in {"accepted", "rejected"}
        BY <1>1, <1>2, <2>2 DEF Known, Over
      <3>2. at["python"].stage = "accepted" =>
                at["rust"].stage = "accepted" /\ at["python"].has = at["rust"].has
        BY <1>2, <1>3, <2>2
      <3>3. at["rust"].stage = "accepted" => at["python"].stage = "accepted"
        BY <1>2, <1>3, <2>2
      <3> QED BY <3>1, <3>2, <3>3
    <2> QED BY <2>1, <2>2 DEF DecodersAgree
  <1>5. ASSUME NEW d \in Decoders, at[d].stage = "accepted"
        PROVE  LET has == at[d].has IN
               /\ at[d].whole
               /\ Len(has) = blob.reps
               /\ blob.len = Encode(has).len
               /\ \A k \in 1 .. Len(has) : blob.byte[FlagAt(has, k)] = Flag(has[k])
    <2> DEFINE h == at[d].has
               n == blob.reps
    <2>1. Encodes(h) /\ h \in Candidates /\ at[d].whole = TRUE
      BY <1>1, <1>5 DEF Known
    <2> HIDE DEF h
    <2>2. n \in Nat \ {0} /\ h \in [1 .. n -> BOOLEAN]
      <3>1. n \in 1 .. MaxDeclared /\ h \in [1 .. n -> BOOLEAN]
        BY <2>1 DEF Encodes, Candidates
      <3> HIDE DEF n
      <3> QED BY <3>1, SMT
    <2>3. blob.len = Offset(n, h, n + 1) /\ \A k \in 1 .. n : FlagIn(n, h, k)
      BY <2>1 DEF Encodes
    <2> HIDE DEF n
    <2>4. Len(h) = n /\ (\A k : OpeningAt(h, k) = Offset(n, h, k))
          /\ Encode(h).len = Offset(n, h, n + 1)
      BY <2>2, EncodeLen
    <2>5. \A k \in 1 .. n : blob.byte[FlagAt(h, k)] = Flag(h[k])
      BY <2>3, <2>4 DEF FlagIn, FlagAt
    <2> QED BY <2>1, <2>3, <2>4, <2>5 DEF h, n
  <1> QED BY <1>4, <1>5 DEF DecodingIsExact

LEMMA JudgingIsStronger == Inv /\ Judging => ArrivingProofIsJudged
  BY DEF Inv, VerdictIsUnanimous, Judging, ArrivingProofIsJudged

-----------------------------------------------------------------------------
(* The two decoders, whatever blob they are given: each of them accepts it exactly when it
   is the encoding of some openings, and reads those. *)
THEOREM DecodersReadTheEncoding == PipelineSpec => []Wire
  <1>1. PipelineInit /\ Init => Inv /\ Wire
    BY InitInv, InitWire
  <1>2. Inv /\ Wire /\ [Next]_repVars /\ [PipelineNext]_vars => Inv' /\ Wire'
    BY NextInv, NextWire
  <1>3. Spec => []Inv
    BY RepetitionsSafety
  <1>4. PipelineSpec => Spec
    BY PipelineImplements
  <1>5. PipelineInit => Wire
    BY InitWire
  <1>6. Inv /\ Wire /\ [PipelineNext]_vars => Wire'
    BY NextWire
  <1> QED BY <1>3, <1>4, <1>5, <1>6, PTL DEF PipelineSpec

(* Both implementations accept the same blobs and read the same openings, and neither
   reads past the end. *)
THEOREM DecodersAlwaysAgree == PipelineSpec => []DecodersAgree
  BY DecodersReadTheEncoding, WireIsStronger, PTL

(* What a decoder accepts is the encoding of what it read, without a gap. *)
THEOREM DecodingIsAlwaysExact == PipelineSpec => []DecodingIsExact
  BY DecodersReadTheEncoding, WireIsStronger, PTL

(* A proof that arrives as it was made, of no more repetitions than a header may declare,
   is judged by its repetitions: it verifies exactly when none was spoiled. *)
THEOREM EveryArrivingProofIsJudged ==
    ASSUME MaxReps <= MaxDeclared
    PROVE  PipelineSpec => []ArrivingProofIsJudged
  <1>1. PipelineInit => Judging
    BY InitJudging
  <1>2. Inv /\ Wire /\ Judging /\ [PipelineNext]_vars => Judging'
    BY NextJudging
  <1>3. PipelineSpec => []Inv
    BY RepetitionsSafety, PipelineImplements, PTL
  <1> QED BY <1>1, <1>2, <1>3, DecodersReadTheEncoding, JudgingIsStronger, PTL DEF PipelineSpec

=============================================================================
