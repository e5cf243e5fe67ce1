--------------------------- MODULE WebsiteProofs ---------------------------
(* What the verifier guarantees for every number of sites, challenges and tokens, every
   deadline and every clock reading.  First, what a context string says, for every host
   name and threshold: it parses back to the one domain and threshold it was made from,
   and it ends in the challenge. *)
EXTENDS Website, SequenceTheorems, TLAPS

(* The challenge is the last field of the context bytes. *)
LEMMA LastField ==
    ASSUME NEW S, NEW f \in Seq(S), NEW epoch, NEW root, NEW key, NEW nonce
    PROVE  LET w == ContextBytes(f, epoch, root, key, nonce) IN
           /\ Len(w) = Len(f) + 8
           /\ w[Len(w)] = nonce
  <1> DEFINE U == S \cup {Bar, epoch, root, key, nonce}
             tail == <<Bar, epoch, Bar, root, Bar, key, Bar, nonce>>
  <1>1. f \in Seq(U)
    BY SMT
  <1>2. tail \in Seq(U) /\ Len(tail) = 8 /\ tail[8] = nonce
    BY SMT
  <1>3. Len(f) \in Nat
    BY <1>1, SMT
  <1> HIDE DEF tail, U
  <1>4. Len(f \o tail) = Len(f) + 8 /\ (f \o tail)[Len(f) + 8] = tail[8]
    <2>1. /\ Len(f \o tail) = Len(f) + Len(tail)
          /\ \A i \in 1 .. Len(f) + Len(tail) :
                 (f \o tail)[i] = IF i <= Len(f) THEN f[i] ELSE tail[i - Len(f)]
      BY <1>1, <1>2, ConcatProperties
    <2>2. /\ Len(f) + 8 \in 1 .. Len(f) + 8 /\ ~(Len(f) + 8 <= Len(f))
          /\ Len(f) + 8 - Len(f) = 8
      BY <1>3, SMT
    <2> QED BY <1>2, <2>1, <2>2
  <1> QED BY <1>2, <1>4 DEF ContextBytes, tail

(* Numbers of at most five digits and their decimal form. *)
LEMMA ThresholdFacts ==
    /\ \A k \in Thresholds : k \in Nat /\ k < 100000 /\ k # NoThreshold
    /\ \A k \in Nat : Width(k) \in 1 .. 5
  <1>1. \A k \in Thresholds : k \in Nat /\ k <= 65535
    BY SMT DEF Thresholds
  <1>2. \A k \in Nat : k <= 65535 => k < 100000
    BY SMT
  <1>3. \A k \in Nat : Width(k) \in 1 .. 5
    BY SMT DEF Width
  <1> QED BY <1>1, <1>2, <1>3, NoThresholdIsNoNumber

LEMMA FiveDigits ==
    ASSUME NEW n \in Nat, n < 100000
    PROVE  n = 10000 * ((n \div 10000) % 10) + 1000 * ((n \div 1000) % 10)
                + 100 * ((n \div 100) % 10) + 10 * ((n \div 10) % 10) + (n % 10)
  <1> DEFINE p == n \div 10
             q == n \div 100
             r == n \div 1000
             t == n \div 10000
  <1>1. q = p \div 10 /\ r = q \div 10 /\ t = r \div 10
    BY SMT
  <1>2. p \in Nat /\ q \in Nat /\ r \in Nat /\ t \in 0 .. 9
    BY SMT
  <1>3. \A k \in Nat : k = 10 * (k \div 10) + (k % 10)
    BY SMT
  <1>4. n = 10 * p + (n % 10)
    BY <1>3
  <1>5. t % 10 = t
    BY <1>2, SMT
  <1>6. \A k \in Nat : k % 10 \in Nat
    BY SMT
  <1> HIDE DEF p, q, r, t
  <1>7. p = 10 * q + (p % 10) /\ q = 10 * r + (q % 10) /\ r = 10 * t + (r % 10)
    BY <1>1, <1>2, <1>3
  <1>8. n % 10 \in Nat /\ p % 10 \in Nat /\ q % 10 \in Nat /\ r % 10 \in Nat
    BY <1>2, <1>6
  <1>9. n = 10000 * (t % 10) + 1000 * (r % 10) + 100 * (q % 10) + 10 * (p % 10) + (n % 10)
    BY <1>2, <1>4, <1>5, <1>7, <1>8, SMT
  <1> QED BY <1>9 DEF p, q, r, t

LEMMA DecimalIsInjective ==
    ASSUME NEW m \in Thresholds, NEW n \in Thresholds, Decimal(m) = Decimal(n)
    PROVE  m = n
  <1>1. m \in Nat /\ n \in Nat /\ m < 100000 /\ n < 100000
    BY ThresholdFacts
  <1>2. \A k \in Nat : Width(k) \in 1 .. 5
    BY ThresholdFacts
  <1>3. Width(m) = Width(n)
    <2>1. DOMAIN Decimal(m) = 1 .. Width(m) /\ DOMAIN Decimal(n) = 1 .. Width(n)
      BY DEF Decimal
    <2> QED BY <1>1, <1>2, <2>1, SMT
  <1>4. \A i \in 1 .. Width(n) :
           (m \div Weight[Width(n) + 1 - i]) % 10 = (n \div Weight[Width(n) + 1 - i]) % 10
    <2>1. \A i \in 1 .. Width(n) : Decimal(m)[i] = Decimal(n)[i]
      OBVIOUS
    <2> QED BY <1>3, <2>1 DEF Decimal
  <1>5. \A k \in 1 .. Width(n) : (m \div Weight[k]) % 10 = (n \div Weight[k]) % 10
    <2> SUFFICES ASSUME NEW k \in 1 .. Width(n)
                 PROVE  (m \div Weight[k]) % 10 = (n \div Weight[k]) % 10
      OBVIOUS
    <2>1. Width(n) + 1 - k \in 1 .. Width(n) /\ Width(n) + 1 - (Width(n) + 1 - k) = k
      BY <1>1, <1>2, SMT
    <2> QED BY <1>4, <2>1
  <1>6. /\ Weight[1] = 1 /\ Weight[2] = 10 /\ Weight[3] = 100 /\ Weight[4] = 1000
        /\ Weight[5] = 10000
    BY SMT DEF Weight
  <1>7. \A k \in 1 .. 5 : (m \div Weight[k]) % 10 = (n \div Weight[k]) % 10
    <2> SUFFICES ASSUME NEW k \in 1 .. 5, k > Width(n)
                 PROVE  (m \div Weight[k]) % 10 = (n \div Weight[k]) % 10
      BY <1>1, <1>2, <1>5, SMT
    <2>1. m < Weight[k] /\ n < Weight[k] /\ Weight[k] \in Nat
      BY <1>1, <1>3, <1>6, SMT DEF Width
    <2>2. m \div Weight[k] = 0 /\ n \div Weight[k] = 0
      BY <1>1, <2>1, SMT
    <2> QED BY <2>2
  <1>8. /\ (m \div 1) % 10 = (n \div 1) % 10
        /\ (m \div 10) % 10 = (n \div 10) % 10
        /\ (m \div 100) % 10 = (n \div 100) % 10
        /\ (m \div 1000) % 10 = (n \div 1000) % 10
        /\ (m \div 10000) % 10 = (n \div 10000) % 10
    BY <1>6, <1>7, SMT
  <1>9. m \div 1 = m /\ n \div 1 = n
    BY <1>1, SMT
  <1> QED BY <1>1, <1>8, <1>9, FiveDigits, SMT

(* The field of a domain and a threshold: the domain, the separator, the digits. *)
Cut(f, k) == f \o <<Hash>> \o Decimal(k)

LEMMA CutFacts ==
    ASSUME NEW S, NEW f \in Seq(S), NEW k \in Thresholds
    PROVE  /\ DOMAIN Cut(f, k) = 1 .. Len(f) + 1 + Width(k)
           /\ Len(Cut(f, k)) = Len(f) + 1 + Width(k)
           /\ \A i \in 1 .. Len(f) : Cut(f, k)[i] = f[i]
           /\ Cut(f, k)[Len(f) + 1] = Hash
           /\ \A i \in 1 .. Width(k) : Cut(f, k)[Len(f) + 1 + i] = Decimal(k)[i]
  <1> DEFINE W == S \cup {Hash} \cup {Decimal(k)[i] : i \in DOMAIN Decimal(k)}
             h == <<Hash>>
             D == Decimal(k)
  <1>1. f \in Seq(W) /\ Hash \in W
    BY SeqMonotonic
  <1>2. Width(k) \in Nat
    BY DEF Width
  <1>3. D \in Seq(W) /\ Len(D) = Width(k)
    <2>1. D \in [1 .. Width(k) -> W]
      BY DEF Decimal
    <2>2. D \in Seq(W)
      BY <1>2, <2>1, SeqDef
    <2> QED BY <1>2, <2>1, <2>2, SMT
  <1> HIDE DEF W, D
  <1>4. h \in Seq(W) /\ Len(h) = 1 /\ h[1] = Hash
    BY <1>1, SMT
  <1> HIDE DEF h
  <1>5. /\ f \o h \in Seq(W) /\ Len(f \o h) = Len(f) + 1
        /\ \A i \in 1 .. Len(f) + 1 :
              (f \o h)[i] = IF i <= Len(f) THEN f[i] ELSE h[i - Len(f)]
    <2>1. /\ f \o h \in Seq(W) /\ Len(f \o h) = Len(f) + Len(h)
          /\ \A i \in 1 .. Len(f) + Len(h) :
                (f \o h)[i] = IF i <= Len(f) THEN f[i] ELSE h[i - Len(f)]
      BY <1>1, <1>4, ConcatProperties
    <2> QED BY <1>4, <2>1
  <1>6. /\ (f \o h) \o D \in Seq(W)
        /\ Len((f \o h) \o D) = Len(f) + 1 + Width(k)
        /\ \A i \in 1 .. Len(f) + 1 + Width(k) :
              ((f \o h) \o D)[i] = IF i <= Len(f) + 1 THEN (f \o h)[i] ELSE D[i - (Len(f) + 1)]
    <2> DEFINE g == f \o h
    <2>1. g \in Seq(W) /\ Len(g) = Len(f) + 1
      BY <1>5
    <2> HIDE DEF g
    <2>2. /\ g \o D \in Seq(W) /\ Len(g \o D) = Len(g) + Len(D)
          /\ \A i \in 1 .. Len(g) + Len(D) :
                (g \o D)[i] = IF i <= Len(g) THEN g[i] ELSE D[i - Len(g)]
      BY <1>3, <2>1, ConcatProperties
    <2>3. Len(g) + Len(D) = Len(f) + 1 + Width(k)
      BY <1>3, <2>1
    <2> QED BY <2>1, <2>2, <2>3 DEF g
  <1>7. Cut(f, k) = (f \o h) \o D
    BY DEF h, D, Cut
  <1>8. Len(f) \in Nat
    BY SMT
  <1>9. DOMAIN Cut(f, k) = 1 .. Len(f) + 1 + Width(k)
    BY <1>6, <1>7, LenProperties
  <1>10. Len(Cut(f, k)) = Len(f) + 1 + Width(k)
    BY <1>6, <1>7
  <1>11. \A i \in 1 .. Len(f) : Cut(f, k)[i] = f[i]
    BY <1>2, <1>5, <1>6, <1>7, <1>8, SMT
  <1>12. Cut(f, k)[Len(f) + 1] = Hash
    BY <1>2, <1>4, <1>5, <1>6, <1>7, <1>8, SMT
  <1>13. \A i \in 1 .. Width(k) : Cut(f, k)[Len(f) + 1 + i] = D[i]
    BY <1>2, <1>6, <1>7, <1>8, SMT
  <1> QED BY <1>9, <1>10, <1>11, <1>12, <1>13 DEF D

(* A raw host name always encodes: nothing that passes _check_domain makes ctx_domain or
   token_context_bytes raise. *)
LEMMA NamesEncode ==
    ASSUME NEW S, NEW d \in Seq(S), CheckDomain(d), NEW k \in Thresholds \cup {NoThreshold}
    PROVE  Encodable(d, k)
  <1>1. CASE k = NoThreshold
    BY <1>1 DEF Encodable, CheckDomain, CheckCtxField, CtxDomain
  <1>2. CASE k \in Thresholds
    <2> DEFINE f == Cut(d, k)
    <2>1. k # NoThreshold /\ k \in Nat /\ Width(k) \in 1 .. 5
      BY <1>2, ThresholdFacts
    <2>2. /\ DOMAIN f = 1 .. Len(d) + 1 + Width(k) /\ Len(f) = Len(d) + 1 + Width(k)
          /\ \A i \in 1 .. Len(d) : f[i] = d[i]
          /\ f[Len(d) + 1] = Hash
          /\ \A i \in 1 .. Width(k) : f[Len(d) + 1 + i] = Decimal(k)[i]
      BY <1>2, CutFacts
    <2> HIDE DEF f
    <2>3. /\ Len(d) \in Nat \ {0} /\ DOMAIN d = 1 .. Len(d)
          /\ \A i \in 1 .. Len(d) : d[i] # Bar /\ d[i] # Hash
      <3>1. Len(d) \in Nat /\ DOMAIN d = 1 .. Len(d) /\ (Len(d) = 0 => d = <<>>)
        BY LenProperties, EmptySeq
      <3> QED BY <3>1 DEF CheckDomain
    <2>4. \A i \in 1 .. Width(k) : Decimal(k)[i] \in 0 .. 9
      <3>1. \A j \in 1 .. 5 : Weight[j] \in Nat \ {0}
        BY SMT DEF Weight
      <3>2. \A i \in 1 .. Width(k) : Width(k) + 1 - i \in 1 .. 5
        BY <2>1, SMT
      <3>3. \A w \in Nat \ {0} : (k \div w) % 10 \in 0 .. 9
        <4> SUFFICES ASSUME NEW w \in Nat \ {0} PROVE (k \div w) % 10 \in 0 .. 9
          OBVIOUS
        <4>1. k \div w \in Nat
          BY <2>1, SMT
        <4> QED BY <4>1, SMT
      <3> QED BY <3>1, <3>2, <3>3 DEF Decimal
    <2>5. \A i \in DOMAIN f : i > Len(d) + 1 => f[i] \in 0 .. 9
      <3> SUFFICES ASSUME NEW i \in DOMAIN f, i > Len(d) + 1 PROVE f[i] \in 0 .. 9
        OBVIOUS
      <3>1. i - (Len(d) + 1) \in 1 .. Width(k) /\ i = Len(d) + 1 + (i - (Len(d) + 1))
        BY <2>1, <2>2, <2>3, SMT
      <3>2. f[i] = Decimal(k)[i - (Len(d) + 1)]
        BY <2>2, <3>1
      <3> QED BY <2>4, <3>1, <3>2
    <2>6. ASSUME NEW i \in DOMAIN f
          PROVE  /\ f[i] # Bar
                 /\ f[i] = Hash => /\ i \notin {1, Len(f)}
                                   /\ \A j \in i + 1 .. Len(f) : f[j] \in 0 .. 9
      <3>1. i \in 1 .. Len(d) \/ i = Len(d) + 1 \/ i > Len(d) + 1
        BY <2>1, <2>2, <2>3, SMT
      <3>2. CASE i \in 1 .. Len(d)
        BY <2>2, <2>3, <3>2
      <3>3. CASE i = Len(d) + 1
        <4>1. i \notin {1, Len(f)}
          BY <2>1, <2>2, <2>3, <3>3, SMT
        <4>2. \A j \in i + 1 .. Len(f) : j \in DOMAIN f /\ j > Len(d) + 1
          BY <2>1, <2>2, <2>3, <3>3, SMT
        <4> QED BY <2>2, <2>5, <3>3, <4>1, <4>2, SeparatorAssumption
      <3>4. CASE i > Len(d) + 1
        BY <2>5, <3>4, SeparatorAssumption
      <3> QED BY <3>1, <3>2, <3>3, <3>4
    <2>7. f # <<>>
      <3>1. Len(f) # 0
        BY <2>1, <2>2, <2>3, SMT
      <3> QED BY <3>1
    <2>8. CheckCtxField(f)
      BY <2>6, <2>7 DEF CheckCtxField
    <2>9. CtxDomain(d, k) = f
      BY <2>1 DEF CtxDomain, f, Cut
    <2> QED BY <1>2, <2>8, <2>9 DEF Encodable
  <1> QED BY <1>1, <1>2

(* "(domain, threshold) -> domain#threshold is injective": two fields that ctx_domain
   makes are equal only when domain and threshold are, NoThreshold included. *)
THEOREM FieldsAreUnambiguous ==
    ASSUME NEW S, NEW d \in Seq(S), NEW e \in Seq(S),
           CheckDomain(d), CheckDomain(e),
           NEW m \in Thresholds \cup {NoThreshold}, NEW n \in Thresholds \cup {NoThreshold},
           CtxDomain(d, m) = CtxDomain(e, n)
    PROVE  d = e /\ m = n
  <1>1. ASSUME NEW f \in Seq(S), NEW k \in Thresholds
        PROVE  /\ DOMAIN Cut(f, k) = 1 .. Len(f) + 1 + Width(k)
               /\ \A i \in 1 .. Len(f) : Cut(f, k)[i] = f[i]
               /\ Cut(f, k)[Len(f) + 1] = Hash
               /\ \A i \in 1 .. Width(k) : Cut(f, k)[Len(f) + 1 + i] = Decimal(k)[i]
    BY CutFacts
  <1>2. \A f \in Seq(S) : Len(f) \in Nat /\ DOMAIN f = 1 .. Len(f)
    BY LenProperties
  <1>3. \A i \in DOMAIN d : d[i] # Hash
    BY DEF CheckDomain
  <1>4. \A i \in DOMAIN e : e[i] # Hash
    BY DEF CheckDomain
  <1>5. \A k \in Thresholds : Width(k) \in 1 .. 5 /\ k # NoThreshold
    BY ThresholdFacts
  <1>6. CASE m = NoThreshold /\ n = NoThreshold
    BY <1>6 DEF CtxDomain
  <1>7. CASE m = NoThreshold /\ n # NoThreshold
    <2>1. d = Cut(e, n) /\ n \in Thresholds
      BY <1>7 DEF CtxDomain, Cut
    <2>2. Len(e) + 1 \in DOMAIN d
      BY <1>1, <1>2, <1>5, <2>1, SMT
    <2> QED BY <1>1, <1>3, <2>1, <2>2
  <1>8. CASE m # NoThreshold /\ n = NoThreshold
    <2>1. e = Cut(d, m) /\ m \in Thresholds
      BY <1>8 DEF CtxDomain, Cut
    <2>2. Len(d) + 1 \in DOMAIN e
      BY <1>1, <1>2, <1>5, <2>1, SMT
    <2> QED BY <1>1, <1>4, <2>1, <2>2
  <1>9. CASE m # NoThreshold /\ n # NoThreshold
    <2>1. Cut(d, m) = Cut(e, n) /\ m \in Thresholds /\ n \in Thresholds
      BY <1>9 DEF CtxDomain, Cut
    <2>2. ~(Len(d) < Len(e))
      <3> SUFFICES ASSUME Len(d) < Len(e) PROVE FALSE
        OBVIOUS
      <3>1. Len(d) + 1 \in 1 .. Len(e)
        BY <1>2, SMT
      <3> QED BY <1>1, <1>2, <1>4, <2>1, <3>1
    <2>3. ~(Len(e) < Len(d))
      <3> SUFFICES ASSUME Len(e) < Len(d) PROVE FALSE
        OBVIOUS
      <3>1. Len(e) + 1 \in 1 .. Len(d)
        BY <1>2, SMT
      <3> QED BY <1>1, <1>2, <1>3, <2>1, <3>1
    <2>4. Len(d) = Len(e)
      BY <1>2, <2>2, <2>3, SMT
    <2>5. \A i \in 1 .. Len(d) : d[i] = e[i]
      BY <1>1, <2>1, <2>4
    <2>6. d = e
      BY <2>4, <2>5, SeqEqual
    <2>7. Width(m) = Width(n)
      <3>1. 1 .. Len(d) + 1 + Width(m) = 1 .. Len(d) + 1 + Width(n)
        BY <1>1, <2>1, <2>4
      <3> QED BY <1>2, <1>5, <2>1, <3>1, SMT
    <2>8. \A i \in 1 .. Width(m) : Decimal(m)[i] = Decimal(n)[i]
      BY <1>1, <2>1, <2>4, <2>7
    <2>9. Decimal(m) = Decimal(n)
      BY <2>7, <2>8 DEF Decimal
    <2> QED BY <2>1, <2>6, <2>9, DecimalIsInjective
  <1> QED BY <1>6, <1>7, <1>8, <1>9

-----------------------------------------------------------------------------
(* An entry of a table is a challenge of that site, dated by it. *)
EntriesAreChallenges ==
    \A s \in Sites, n \in Nonces :
        nonces[s][n] # Absent => /\ n <= Len(minted)
                                 /\ minted[n].site = s
                                 /\ nonces[s][n].issued = minted[n].at

ChallengesArePast == \A n \in DOMAIN minted : minted[n].at <= now

NearAt(token, t) == token.epoch - t \div EpochSeconds \in -1 .. 1

(* A call between its reads of the clock still finds the entry it looked at. *)
CallsAreInTime ==
    \A s \in Sites : call[s] # Idle =>
        LET c == call[s] IN
        /\ bundle[s] # NoBundle
        /\ c.nonce \in Nonces
        /\ Open(s, c.nonce)
        /\ c.asked - nonces[s][c.nonce].issued \in 0 .. TTL
        /\ c.asked <= now
        /\ c.reads = "first_seen" => \E t \in c.asked .. now : NearAt(c.token, t)

(* The inductive invariant.  ConsumedMeansAccepted carries NonceAcceptedOnce through an
   acceptance, EntriesAreChallenges and CallsAreInTime carry AcceptedInTime. *)
Inv == /\ TypeOK
       /\ EntriesAreChallenges
       /\ ChallengesArePast
       /\ CallsAreInTime
       /\ AcceptedInTime
       /\ ConsumedMeansAccepted
       /\ NonceAcceptedOnce

(* What the histories and the tables are made of. *)
LEMMA Types ==
    ASSUME TypeOK
    PROVE  /\ now \in Nat /\ Len(minted) \in Nat /\ Len(accepted) \in Nat
           /\ DOMAIN minted = 1 .. Len(minted) /\ DOMAIN accepted = 1 .. Len(accepted)
           /\ \A n \in DOMAIN minted : minted[n] \in Challenges
           /\ \A i \in DOMAIN accepted : accepted[i] \in Acceptances /\ accepted[i].nonce \in Nonces
           /\ \A s \in Sites, n \in Nonces : nonces[s][n] \in Entries \cup {Absent}
           /\ \A s \in Sites : call[s] # Idle => call[s] \in Calls
  <1>1. /\ now \in Nat /\ Len(minted) \in Nat /\ Len(accepted) \in Nat
        /\ DOMAIN minted = 1 .. Len(minted) /\ DOMAIN accepted = 1 .. Len(accepted)
        /\ \A n \in DOMAIN minted : minted[n] \in Challenges
    BY SMT DEF TypeOK
  <1>2. \A i \in DOMAIN accepted : accepted[i] \in Acceptances
    BY SMT DEF TypeOK
  <1>3. \A i \in DOMAIN accepted : accepted[i].nonce \in Nonces
    BY <1>2 DEF Acceptances
  <1>4. \A s \in Sites, n \in Nonces : nonces[s][n] \in Entries \cup {Absent}
    BY DEF TypeOK
  <1>5. \A s \in Sites : call[s] # Idle => call[s] \in Calls
    BY DEF TypeOK
  <1> QED BY <1>1, <1>2, <1>3, <1>4, <1>5

LEMMA InitInv == Init => Inv
  <1> SUFFICES ASSUME Init PROVE Inv
    OBVIOUS
  <1> USE DEF Init
  <1>1. TypeOK
    BY BoundAssumption, SMT DEF TypeOK
  <1>2. EntriesAreChallenges /\ ConsumedMeansAccepted /\ CallsAreInTime
    BY DEF EntriesAreChallenges, ConsumedMeansAccepted, CallsAreInTime
  <1>3. ChallengesArePast /\ AcceptedInTime /\ NonceAcceptedOnce
    BY DEF ChallengesArePast, AcceptedInTime, NonceAcceptedOnce
  <1> QED BY <1>1, <1>2, <1>3 DEF Inv

(* What CallsAreInTime says of a call stays true while its entry does and time passes. *)
LEMMA CallsGoOn ==
    ASSUME Inv, now' \in Nat, now <= now',
           \A s \in Sites : bundle[s] # NoBundle => bundle'[s] # NoBundle,
           \A s \in Sites : call'[s] # Idle =>
               /\ call'[s] = call[s]
               /\ \A n \in Nonces : nonces'[s][n] = nonces[s][n]
    PROVE  CallsAreInTime'
  <1> SUFFICES ASSUME NEW s \in Sites, call'[s] # Idle
               PROVE  LET c == call'[s] IN
                      /\ bundle'[s] # NoBundle
                      /\ c.nonce \in Nonces
                      /\ nonces'[s][c.nonce] # Absent /\ ~nonces'[s][c.nonce].consumed
                      /\ c.asked - nonces'[s][c.nonce].issued \in 0 .. TTL
                      /\ c.asked <= now'
                      /\ c.reads = "first_seen" => \E t \in c.asked .. now' : NearAt(c.token, t)
    BY DEF CallsAreInTime, Open, NearAt
  <1>1. /\ call'[s] = call[s] /\ call[s] # Idle /\ call[s] \in Calls /\ now \in Nat
        /\ \A n \in Nonces : nonces'[s][n] = nonces[s][n]
    BY Types DEF Inv
  <1>2. /\ bundle[s] # NoBundle
        /\ call[s].nonce \in Nonces /\ Open(s, call[s].nonce)
        /\ call[s].asked - nonces[s][call[s].nonce].issued \in 0 .. TTL
        /\ call[s].asked <= now
        /\ call[s].reads = "first_seen" => \E t \in call[s].asked .. now : NearAt(call[s].token, t)
    BY <1>1 DEF Inv, CallsAreInTime
  <1>3. call[s].asked \in Nat
    BY <1>1 DEF Calls
  <1>4. call[s].asked <= now' /\ \A t \in call[s].asked .. now : t \in call[s].asked .. now'
    BY <1>1, <1>2, <1>3, SMT
  <1> QED BY <1>1, <1>2, <1>4 DEF Open

(* A new bundle touches neither the tables nor the histories. *)
LEMMA BundleInv ==
    ASSUME Inv, NEW s \in Sites, NEW b \in Bundles, Create(s, b) \/ UpdateRoot(s, b)
    PROVE  Inv'
  <1>1. /\ bundle' = [bundle EXCEPT ![s] = b]
        /\ UNCHANGED <<nonces, accounts, call, now, minted, accepted>>
    BY DEF Create, UpdateRoot
  <1>2. TypeOK'
    BY <1>1 DEF Inv, TypeOK
  <1>3. CallsAreInTime'
    <2>1. \A r \in Sites : bundle[r] # NoBundle => bundle'[r] # NoBundle
      BY <1>1, BundleAssumption DEF Inv, TypeOK
    <2>2. now \in Nat /\ now <= now
      BY SMT DEF Inv, TypeOK
    <2> QED BY <1>1, <2>1, <2>2, CallsGoOn
  <1> QED BY <1>1, <1>2, <1>3 DEF Inv, EntriesAreChallenges, ChallengesArePast, AcceptedInTime,
                            ConsumedMeansAccepted, NonceAcceptedOnce

(* The new nonce was never accepted; the entries that survive the sweep are unchanged. *)
LEMMA ChallengeInv ==
    ASSUME Inv, NEW s \in Sites, Challenge(s)
    PROVE  Inv'
  <1> DEFINE fresh == Len(minted) + 1
             entry == [issued |-> now, consumed |-> FALSE]
             challenge == [site |-> s, at |-> now]
  <1> USE Types DEF Inv
  <1>1. /\ minted' = Append(minted, challenge)
        /\ Len(minted) < MaxNonces
        /\ call[s] = Idle
        /\ UNCHANGED <<bundle, accounts, call, now, accepted>>
    BY DEF Challenge
  <1>2. /\ fresh \in Nonces /\ challenge \in Challenges /\ entry \in Entries
    BY <1>1, BoundAssumption, SMT DEF Nonces, Challenges, Entries
  <1>3. /\ minted' \in Seq(Challenges) /\ Len(minted') = fresh /\ DOMAIN minted' = 1 .. fresh
        /\ minted'[fresh] = challenge
        /\ \A n \in 1 .. Len(minted) : minted'[n] = minted[n]
    BY <1>1, <1>2, SMT DEF TypeOK
  <1>4. \A r \in Sites, n \in Nonces :
           \/ r = s /\ n = fresh /\ nonces'[r][n] = entry
           \/ ~(r = s /\ n = fresh) /\ nonces'[r][n] \in {nonces[r][n], Absent}
    BY <1>2, SMT DEF Challenge, TypeOK
  <1>5. TypeOK'
    <2>1. nonces' \in [Sites -> [Nonces -> Entries \cup {Absent}]]
      <3>1. [n \in Nonces |-> IF n = fresh THEN entry ELSE IF Kept(s, n) THEN nonces[s][n] ELSE Absent]
              \in [Nonces -> Entries \cup {Absent}]
        BY <1>2 DEF TypeOK
      <3> QED BY <3>1 DEF Challenge, TypeOK
    <2>2. Len(minted') <= MaxNonces
      BY <1>1, <1>3, BoundAssumption, SMT
    <2>3. \A i \in DOMAIN accepted : accepted[i].nonce <= Len(minted') /\ accepted[i].at <= now
      <3>1. \A i \in DOMAIN accepted : accepted[i].nonce <= Len(minted) /\ accepted[i].nonce \in Nat
        BY SMT DEF TypeOK, Nonces
      <3> QED BY <1>3, <3>1, SMT DEF TypeOK
    <2> QED BY <1>1, <1>3, <2>1, <2>2, <2>3 DEF TypeOK
  <1>6. EntriesAreChallenges'
    <2> SUFFICES ASSUME NEW r \in Sites, NEW n \in Nonces, nonces'[r][n] # Absent
                 PROVE  /\ n <= Len(minted') /\ minted'[n].site = r
                        /\ nonces'[r][n].issued = minted'[n].at
      BY DEF EntriesAreChallenges
    <2>1. CASE r = s /\ n = fresh
      BY <1>3, <1>4, <2>1, SMT
    <2>2. CASE ~(r = s /\ n = fresh)
      <3>1. /\ nonces'[r][n] = nonces[r][n] /\ n <= Len(minted)
            /\ minted[n].site = r /\ nonces[r][n].issued = minted[n].at
        BY <1>4, <2>2 DEF EntriesAreChallenges
      <3>2. n \in 1 .. Len(minted)
        BY <3>1, SMT DEF Nonces
      <3> QED BY <1>3, <3>1, <3>2, SMT
    <2> QED BY <2>1, <2>2
  <1>7. ChallengesArePast'
    BY <1>1, <1>3, SMT DEF ChallengesArePast
  <1>8. \A i \in DOMAIN accepted : accepted[i].nonce \in 1 .. Len(minted) /\ accepted[i].nonce # fresh
    BY SMT DEF TypeOK, Nonces
  <1>9. AcceptedInTime'
    BY <1>1, <1>3, <1>8 DEF AcceptedInTime
  <1>10. ConsumedMeansAccepted'
    <2> SUFFICES ASSUME NEW r \in Sites, NEW n \in Nonces, nonces'[r][n] # Absent
                 PROVE  nonces'[r][n].consumed <=>
                          \E i \in DOMAIN accepted : accepted[i].nonce = n
      BY <1>1 DEF ConsumedMeansAccepted
    <2>1. CASE r = s /\ n = fresh
      BY <1>4, <1>8, <2>1
    <2>2. CASE ~(r = s /\ n = fresh)
      BY <1>4, <2>2 DEF ConsumedMeansAccepted
    <2> QED BY <2>1, <2>2
  <1>11. CallsAreInTime'
    <2>1. \A r \in Sites : r # s => nonces'[r] = nonces[r]
      BY DEF Challenge, TypeOK
    <2>2. now <= now
      BY SMT
    <2> QED BY <1>1, <2>1, <2>2, CallsGoOn
  <1> QED BY <1>1, <1>5, <1>6, <1>7, <1>9, <1>10, <1>11 DEF NonceAcceptedOnce

(* A deleted entry can only lose claims about it. *)
LEMMA ExpiredInv ==
    ASSUME Inv, NEW s \in Sites, NEW n \in Nonces, VerifyExpired(s, n)
    PROVE  Inv'
  <1>1. /\ nonces' = [nonces EXCEPT ![s][n] = Absent]
        /\ call[s] = Idle
        /\ UNCHANGED <<bundle, accounts, call, now, minted, accepted>>
    BY DEF VerifyExpired
  <1>2. \A r \in Sites, k \in Nonces : nonces'[r][k] # Absent => nonces'[r][k] = nonces[r][k]
    BY <1>1 DEF Inv, TypeOK
  <1>3. TypeOK'
    BY <1>1 DEF Inv, TypeOK
  <1>4. EntriesAreChallenges'
    BY <1>1, <1>2 DEF Inv, EntriesAreChallenges
  <1>5. ConsumedMeansAccepted'
    BY <1>1, <1>2 DEF Inv, ConsumedMeansAccepted
  <1>6. CallsAreInTime'
    <2>1. \A r \in Sites : r # s => nonces'[r] = nonces[r]
      BY <1>1 DEF Inv, TypeOK
    <2>2. now \in Nat /\ now <= now
      BY SMT DEF Inv, TypeOK
    <2> QED BY <1>1, <2>1, <2>2, CallsGoOn
  <1> QED BY <1>1, <1>3, <1>4, <1>5, <1>6
          DEF Inv, ChallengesArePast, AcceptedInTime, NonceAcceptedOnce

(* A call begins: the entry it looked at is open and in time. *)
LEMMA InTimeInv ==
    ASSUME Inv, NEW s \in Sites, NEW token \in Tokens, NEW n \in Nonces, VerifyInTime(s, token, n)
    PROVE  Inv'
  <1> DEFINE c == [reads |-> "epoch", token |-> token, nonce |-> n, asked |-> now]
  <1> USE Types DEF Inv
  <1>1. /\ call' = [call EXCEPT ![s] = c]
        /\ bundle[s] # NoBundle
        /\ Open(s, n) /\ ~Expired(nonces[s][n])
        /\ UNCHANGED <<bundle, nonces, accounts, now, minted, accepted>>
    BY DEF VerifyInTime
  <1>2. c \in Calls
    BY SMT DEF Calls, Nonces
  <1>3. TypeOK'
    BY <1>1, <1>2 DEF TypeOK
  <1>4. now - nonces[s][n].issued \in 0 .. TTL /\ now <= now
    <2>1. nonces[s][n] \in Entries /\ n <= Len(minted) /\ nonces[s][n].issued = minted[n].at
      BY <1>1 DEF Open, EntriesAreChallenges
    <2>2. n \in 1 .. Len(minted)
      BY <2>1, SMT DEF Nonces
    <2>3. minted[n].at \in Nat /\ minted[n].at <= now
      BY <2>2 DEF Challenges, ChallengesArePast
    <2> QED BY <1>1, <2>1, <2>3, TTLAssumption, SMT DEF Expired
  <1>5. CallsAreInTime'
    <2> SUFFICES ASSUME NEW r \in Sites, call'[r] # Idle
                 PROVE  LET d == call'[r] IN
                        /\ bundle[r] # NoBundle
                        /\ d.nonce \in Nonces
                        /\ Open(r, d.nonce)
                        /\ d.asked - nonces[r][d.nonce].issued \in 0 .. TTL
                        /\ d.asked <= now
                        /\ d.reads = "first_seen" => \E t \in d.asked .. now : NearAt(d.token, t)
      BY <1>1 DEF CallsAreInTime, Open, NearAt
    <2>1. CASE r = s
      <3>1. call'[r] = c
        BY <1>1, <2>1 DEF TypeOK
      <3> QED BY <1>1, <1>4, <2>1, <3>1
    <2>2. CASE r # s
      <3>1. call'[r] = call[r]
        BY <1>1, <2>2 DEF TypeOK
      <3> QED BY <3>1 DEF CallsAreInTime
    <2> QED BY <2>1, <2>2
  <1> QED BY <1>1, <1>3, <1>5 DEF EntriesAreChallenges, ChallengesArePast, AcceptedInTime,
                                  ConsumedMeansAccepted, NonceAcceptedOnce

(* The epoch is near at the moment it is looked at, or the call ends. *)
LEMMA EpochInv ==
    ASSUME Inv, NEW s \in Sites, VerifyEpoch(s)
    PROVE  Inv'
  <1> DEFINE c == call[s]
             d == [c EXCEPT !.reads = "first_seen"]
  <1> USE Types DEF Inv
  <1>1. /\ c # Idle /\ c \in Calls
        /\ call' = [call EXCEPT ![s] = IF EpochMatches(c.token) THEN d ELSE Idle]
        /\ UNCHANGED <<bundle, nonces, accounts, now, minted, accepted>>
    BY DEF VerifyEpoch
  <1>2. /\ d \in Calls /\ d.token = c.token /\ d.nonce = c.nonce /\ d.asked = c.asked
        /\ c.asked \in Nat
    BY <1>1 DEF Calls
  <1>3. TypeOK'
    <2>1. CASE EpochMatches(c.token)
      BY <1>1, <1>2, <2>1 DEF TypeOK
    <2>2. CASE ~EpochMatches(c.token)
      BY <1>1, <2>2 DEF TypeOK
    <2> QED BY <2>1, <2>2
  <1>4. CallsAreInTime'
    <2> SUFFICES ASSUME NEW r \in Sites, call'[r] # Idle
                 PROVE  LET x == call'[r] IN
                        /\ bundle[r] # NoBundle
                        /\ x.nonce \in Nonces
                        /\ Open(r, x.nonce)
                        /\ x.asked - nonces[r][x.nonce].issued \in 0 .. TTL
                        /\ x.asked <= now
                        /\ x.reads = "first_seen" => \E t \in x.asked .. now : NearAt(x.token, t)
      BY <1>1 DEF CallsAreInTime, Open, NearAt
    <2>1. CASE r = s
      <3>1. call'[r] = d /\ EpochMatches(c.token)
        <4>1. call'[s] = IF EpochMatches(c.token) THEN d ELSE Idle
          BY <1>1 DEF TypeOK
        <4> QED BY <2>1, <4>1
      <3>2. NearAt(c.token, now)
        BY <3>1 DEF EpochMatches, current_epoch, NearAt
      <3>3. /\ bundle[s] # NoBundle
            /\ c.nonce \in Nonces /\ Open(s, c.nonce)
            /\ c.asked - nonces[s][c.nonce].issued \in 0 .. TTL
            /\ c.asked <= now
        BY <1>1 DEF CallsAreInTime
      <3>4. now \in c.asked .. now
        BY <1>2, <3>3, SMT
      <3> QED BY <1>2, <2>1, <3>1, <3>2, <3>3, <3>4
    <2>2. CASE r # s
      <3>1. call'[r] = call[r]
        BY <1>1, <2>2 DEF TypeOK
      <3> QED BY <3>1 DEF CallsAreInTime
    <2> QED BY <2>1, <2>2
  <1> QED BY <1>1, <1>3, <1>4 DEF EntriesAreChallenges, ChallengesArePast, AcceptedInTime,
                                  ConsumedMeansAccepted, NonceAcceptedOnce

LEMMA RejectInv ==
    ASSUME Inv, NEW s \in Sites, VerifyReject(s)
    PROVE  Inv'
  <1>1. /\ call' = [call EXCEPT ![s] = Idle]
        /\ UNCHANGED <<bundle, nonces, accounts, now, minted, accepted>>
    BY DEF VerifyReject
  <1>2. TypeOK'
    BY <1>1 DEF Inv, TypeOK
  <1>3. CallsAreInTime'
    <2>1. \A r \in Sites : call'[r] # Idle => call'[r] = call[r]
      BY <1>1 DEF Inv, TypeOK
    <2>2. now \in Nat /\ now <= now
      BY SMT DEF Inv, TypeOK
    <2> QED BY <1>1, <2>1, <2>2, CallsGoOn
  <1> QED BY <1>1, <1>2, <1>3 DEF Inv, EntriesAreChallenges, ChallengesArePast, AcceptedInTime,
                            ConsumedMeansAccepted, NonceAcceptedOnce

(* An open nonce was not accepted before (ConsumedMeansAccepted), so this acceptance is
   its first, and it is now consumed. *)
LEMMA AcceptInv ==
    ASSUME Inv, NEW s \in Sites, VerifyAccept(s)
    PROVE  Inv'
  <1> DEFINE token == call[s].token
             n == call[s].nonce
             asked == call[s].asked
             e == [site |-> s, nonce |-> n, token |-> token, asked |-> asked, at |-> now,
                   bundle |-> bundle[s]]
             last == Len(accepted) + 1
  <1> USE Types DEF Inv
  <1>0. /\ call[s] # Idle /\ call[s] \in Calls /\ call[s].reads = "first_seen"
        /\ token \in Tokens /\ asked \in Nat /\ n \in Nonces
    <2>1. call[s] # Idle /\ call[s].reads = "first_seen"
      BY DEF VerifyAccept
    <2>2. call[s] \in Calls /\ n \in Nonces
      BY <2>1 DEF CallsAreInTime
    <2> QED BY <2>1, <2>2 DEF Calls
  <1>1. /\ nonces' = [nonces EXCEPT ![s][n] = Consumed(@)]
        /\ accounts' = [accounts EXCEPT ![s] = Remember(s, token.temp_key)]
        /\ accepted' = Append(accepted, e)
        /\ call' = [call EXCEPT ![s] = Idle]
        /\ UNCHANGED <<bundle, now, minted>>
        /\ nonces[s][n] # Absent /\ ~nonces[s][n].consumed
        /\ asked - nonces[s][n].issued \in 0 .. TTL
        /\ \E t \in asked .. now : NearAt(token, t)
        /\ bundle[s] \in Bundles
    <2>1. /\ nonces' = [nonces EXCEPT ![s][n] = Consumed(@)]
          /\ accounts' = [accounts EXCEPT ![s] = Remember(s, token.temp_key)]
          /\ accepted' = Append(accepted, e)
          /\ call' = [call EXCEPT ![s] = Idle]
          /\ UNCHANGED <<bundle, now, minted>>
      BY DEF VerifyAccept
    <2>2. /\ bundle[s] # NoBundle
          /\ Open(s, n)
          /\ asked - nonces[s][n].issued \in 0 .. TTL
          /\ \E t \in asked .. now : NearAt(token, t)
      BY <1>0 DEF CallsAreInTime
    <2> QED BY <2>1, <2>2 DEF Open, TypeOK
  <1>2. /\ nonces[s][n] \in Entries
        /\ n \in 1 .. Len(minted) /\ minted[n].site = s
        /\ nonces[s][n].issued = minted[n].at
        /\ minted[n].at \in Nat /\ minted[n].at <= now
    <2>1. nonces[s][n] \in Entries /\ n <= Len(minted)
      BY <1>0, <1>1 DEF EntriesAreChallenges
    <2>2. n \in 1 .. Len(minted)
      BY <1>0, <2>1, SMT DEF Nonces
    <2>3. minted[n].at \in Nat
      BY <2>2 DEF Challenges
    <2> QED BY <1>0, <1>1, <2>1, <2>2, <2>3 DEF EntriesAreChallenges, ChallengesArePast
  <1>3. Consumed(nonces[s][n]) \in Entries /\ Consumed(nonces[s][n]).consumed = TRUE
        /\ Consumed(nonces[s][n]).issued = nonces[s][n].issued
    BY <1>2 DEF Consumed, Entries
  <1>4. e \in Acceptances
    BY <1>0, <1>1 DEF Acceptances
  <1>5. /\ accepted' \in Seq(Acceptances)
        /\ DOMAIN accepted' = 1 .. last /\ accepted'[last] = e
        /\ \A i \in 1 .. Len(accepted) : accepted'[i] = accepted[i]
    BY <1>1, <1>4, SMT DEF TypeOK
  <1>6. \A i \in DOMAIN accepted : accepted[i].nonce # n
    BY <1>0, <1>1 DEF ConsumedMeansAccepted
  <1>7. \A i \in 1 .. last : i = last \/ i \in 1 .. Len(accepted)
    BY SMT
  <1>8. /\ \A r \in Sites, k \in Nonces : (r = s /\ k = n) \/ nonces'[r][k] = nonces[r][k]
        /\ nonces'[s][n] = Consumed(nonces[s][n])
    BY <1>0, <1>1 DEF TypeOK
  <1>9. TypeOK'
    <2>1. nonces' \in [Sites -> [Nonces -> Entries \cup {Absent}]]
      BY <1>0, <1>1, <1>3 DEF TypeOK
    <2>2. /\ accounts' \in [Sites -> SUBSET Accounts]
          /\ \A r \in Sites : \A x \in accounts'[r] : x.first_seen <= now
      <3>1. /\ [key |-> token.temp_key, first_seen |-> now] \in Accounts
            /\ now <= now
        BY <1>0, SMT DEF Accounts, TypeOK
      <3>2. /\ Remember(s, token.temp_key) \in SUBSET Accounts
            /\ \A x \in Remember(s, token.temp_key) : x.first_seen <= now
        BY <3>1 DEF Remember, TypeOK
      <3> QED BY <1>1, <3>2 DEF TypeOK
    <2>3. \A i \in DOMAIN accepted' : accepted'[i].nonce <= Len(minted) /\ accepted'[i].at <= now
      <3>1. \A i \in 1 .. Len(accepted) : accepted[i].nonce <= Len(minted) /\ accepted[i].at <= now
        BY DEF TypeOK
      <3>2. n <= Len(minted) /\ now <= now
        BY <1>2, SMT
      <3> QED BY <1>5, <1>7, <3>1, <3>2
    <2>4. call' \in [Sites -> Calls \cup {Idle}]
      BY <1>1 DEF TypeOK
    <2> QED BY <1>1, <1>5, <2>1, <2>2, <2>3, <2>4 DEF TypeOK
  <1>10. EntriesAreChallenges'
    BY <1>0, <1>1, <1>2, <1>3, <1>8 DEF EntriesAreChallenges
  <1>11. AcceptedInTime'
    <2>1. /\ asked - minted[n].at \in 0 .. TTL
          /\ \E t \in asked .. now : token.epoch - t \div EpochSeconds \in -1 .. 1
      BY <1>1, <1>2 DEF NearAt
    <2>2. /\ e.site = s /\ e.nonce = n /\ e.asked = asked /\ e.at = now /\ e.token = token
          /\ UNCHANGED minted
      BY <1>1
    <2> HIDE DEF e
    <2> QED BY <1>2, <1>5, <1>7, <2>1, <2>2 DEF AcceptedInTime
  <1>12. ConsumedMeansAccepted'
    <2> SUFFICES ASSUME NEW r \in Sites, NEW k \in Nonces, nonces'[r][k] # Absent
                 PROVE  nonces'[r][k].consumed <=>
                          \E i \in DOMAIN accepted' : accepted'[i].nonce = k
      BY DEF ConsumedMeansAccepted
    <2>1. last \in 1 .. last
      BY SMT
    <2>2. CASE k = n
      <3>1. r = s
        <4>1. nonces[r][k] # Absent => minted[k].site = r
          BY DEF EntriesAreChallenges
        <4> QED BY <1>0, <1>2, <1>8, <2>2, <4>1
      <3> QED BY <1>3, <1>5, <1>8, <2>1, <2>2, <3>1
    <2>3. CASE k # n
      <3>1. nonces'[r][k] = nonces[r][k]
        BY <1>8, <2>3
      <3>2. (\E i \in DOMAIN accepted' : accepted'[i].nonce = k)
              <=> (\E i \in DOMAIN accepted : accepted[i].nonce = k)
        <4>1. \A i \in 1 .. Len(accepted) : i \in 1 .. last
          BY SMT
        <4> QED BY <1>5, <1>7, <2>3, <4>1
      <3> QED BY <3>1, <3>2 DEF ConsumedMeansAccepted
    <2> QED BY <2>2, <2>3
  <1>13. NonceAcceptedOnce'
    BY <1>5, <1>6, <1>7 DEF NonceAcceptedOnce
  <1>14. CallsAreInTime'
    <2>1. \A r \in Sites : call'[r] # Idle => r # s /\ call'[r] = call[r]
      BY <1>1 DEF TypeOK
    <2>2. \A r \in Sites : r # s => nonces'[r] = nonces[r]
      BY <1>1 DEF TypeOK
    <2>3. now <= now
      BY SMT
    <2> QED BY <1>1, <2>1, <2>2, <2>3, CallsGoOn
  <1> QED BY <1>1, <1>9, <1>10, <1>11, <1>12, <1>13, <1>14 DEF ChallengesArePast

LEMMA TickInv == Inv /\ Tick => Inv'
  <1> SUFFICES ASSUME Inv, Tick PROVE Inv'
    OBVIOUS
  <1>1. now \in Nat /\ now' = now + 1 /\ UNCHANGED <<bundle, nonces, accounts, call, minted, accepted>>
    BY DEF Tick, Inv, TypeOK
  <1>2. TypeOK'
    <2>1. \A s \in Sites : \A r \in accounts[s] : r.first_seen <= now'
      <3>1. \A s \in Sites : \A r \in accounts[s] : r \in Accounts
        BY DEF Inv, TypeOK
      <3>2. \A s \in Sites : \A r \in accounts[s] : r.first_seen \in Nat
        BY <3>1 DEF Accounts
      <3> QED BY <1>1, <3>2, SMT DEF Inv, TypeOK
    <2>2. \A i \in DOMAIN accepted : accepted[i].nonce <= Len(minted) /\ accepted[i].at <= now'
      <3>1. \A i \in DOMAIN accepted : accepted[i].at \in Nat
        BY Types DEF Inv, Acceptances
      <3> QED BY <1>1, <3>1, SMT DEF Inv, TypeOK
    <2> QED BY <1>1, <2>1, <2>2 DEF Inv, TypeOK
  <1>3. ChallengesArePast'
    <2>1. \A n \in DOMAIN minted : minted[n].at \in Nat
      BY Types DEF Inv, Challenges
    <2> QED BY <1>1, <2>1, SMT DEF Inv, ChallengesArePast
  <1>4. CallsAreInTime'
    <2>1. now' \in Nat /\ now <= now'
      BY <1>1, SMT
    <2> QED BY <1>1, <2>1, CallsGoOn
  <1> QED BY <1>1, <1>2, <1>3, <1>4 DEF Inv, EntriesAreChallenges, AcceptedInTime,
                                  ConsumedMeansAccepted, NonceAcceptedOnce

LEMMA NextInv == Inv /\ [Next]_vars => Inv'
  <1> SUFFICES ASSUME Inv, [Next]_vars PROVE Inv'
    OBVIOUS
  <1>1. CASE UNCHANGED vars
    BY <1>1 DEF vars, Inv, TypeOK, EntriesAreChallenges, ChallengesArePast, AcceptedInTime,
                CallsAreInTime, Open, ConsumedMeansAccepted, NonceAcceptedOnce
  <1>2. ASSUME NEW s \in Sites, NEW b \in Bundles, Create(s, b) \/ UpdateRoot(s, b)
        PROVE  Inv'
    BY <1>2, BundleInv
  <1>3. ASSUME NEW s \in Sites, Challenge(s) PROVE Inv'
    BY <1>3, ChallengeInv
  <1>4. ASSUME NEW s \in Sites, NEW n \in Nonces, VerifyExpired(s, n) PROVE Inv'
    BY <1>4, ExpiredInv
  <1>5. ASSUME NEW s \in Sites, NEW token \in Tokens, NEW n \in Nonces, VerifyInTime(s, token, n)
        PROVE  Inv'
    BY <1>5, InTimeInv
  <1>6. ASSUME NEW s \in Sites, VerifyEpoch(s) PROVE Inv'
    BY <1>6, EpochInv
  <1>7. ASSUME NEW s \in Sites, VerifyAccept(s) PROVE Inv'
    BY <1>7, AcceptInv
  <1>8. ASSUME NEW s \in Sites, VerifyReject(s) PROVE Inv'
    BY <1>8, RejectInv
  <1>9. CASE Tick
    BY <1>9, TickInv
  <1> QED BY <1>1, <1>2, <1>3, <1>4, <1>5, <1>6, <1>7, <1>8, <1>9 DEF Next

LEMMA Invariance == Spec => []Inv
  BY InitInv, NextInv, PTL DEF Spec

-----------------------------------------------------------------------------
(* The results. *)

(* Every variable keeps its type. *)
THEOREM TypeCorrect == Spec => []TypeOK
  <1>1. Inv => TypeOK
    BY DEF Inv
  <1> QED BY <1>1, Invariance, PTL

(* No nonce is ever accepted twice, whatever the sweeps forget. *)
THEOREM OnceOnly == Spec => []NonceAcceptedOnce
  <1>1. Inv => NonceAcceptedOnce
    BY DEF Inv
  <1> QED BY <1>1, Invariance, PTL

(* Every acceptance is at the challenging site and within the deadline. *)
THEOREM Timely == Spec => []AcceptedInTime
  <1>1. Inv => AcceptedInTime
    BY DEF Inv
  <1> QED BY <1>1, Invariance, PTL

(* A nonce is marked consumed by a successful verification and by nothing else. *)
THEOREM ConsumptionIsAcceptance == Spec => []ConsumedMeansAccepted
  <1>1. Inv => ConsumedMeansAccepted
    BY DEF Inv
  <1> QED BY <1>1, Invariance, PTL

(* What an accepted proof is bound to: the challenge it answered is its last field. *)
Field(s) == CtxDomain(Domain[s], Required[s])

ProofsAreBound ==
    \A i \in DOMAIN accepted :
        LET a == accepted[i] IN
        /\ a.site \in Sites
        /\ a.token.proof.bound =>
               a.token.proof.bytes =
               ContextBytes(Field(a.site), a.token.epoch, a.bundle.root, a.token.temp_key, a.nonce)

LEMMA FieldIsString ==
    ASSUME NEW s \in Sites
    PROVE  \E S : Field(s) \in Seq(S)
  <1> DEFINE S == {Domain[s][i] : i \in DOMAIN Domain[s]}
             D == Decimal(Required[s])
             R == {D[i] : i \in DOMAIN D}
             U == S \cup {Hash} \cup R
  <1>1. Domain[s] \in Seq(S)
    BY DomainAssumption
  <1>2. Width(Required[s]) \in Nat
    BY DEF Width
  <1>3. D \in Seq(R)
    <2>1. D \in [1 .. Width(Required[s]) -> R]
      BY DEF Decimal
    <2> QED BY <1>2, <2>1, SeqDef
  <1>4. Domain[s] \in Seq(U) /\ D \in Seq(U)
    <2> HIDE DEF S, D, R, U
    <2>1. S \subseteq U /\ R \subseteq U
      BY DEF U
    <2>2. ASSUME NEW A, NEW B, NEW q \in Seq(A), A \subseteq B PROVE q \in Seq(B)
      BY <2>2, SeqMonotonic
    <2> QED BY <1>1, <1>3, <2>1, <2>2
  <1>5. <<Hash>> \in Seq(U)
    <2>1. Hash \in U
      OBVIOUS
    <2> HIDE DEF U
    <2> QED BY <2>1, SMT
  <1> HIDE DEF S, D, R, U
  <1>6. Domain[s] \o <<Hash>> \o D \in Seq(U)
    BY <1>4, <1>5, ConcatProperties
  <1>7. Field(s) \in {Domain[s], Domain[s] \o <<Hash>> \o D}
    BY DEF Field, CtxDomain, D
  <1> QED BY <1>4, <1>6, <1>7

(* A proof of independent seeds is bound to the challenge it answered, and no challenge is
   answered twice. *)
THEOREM OneVisitor == Spec => []TokenAcceptedOnce
  <1>1. Init => ProofsAreBound
    BY DEF Init, ProofsAreBound
  <1>2. TypeOK /\ CallsAreInTime /\ ProofsAreBound /\ [Next]_vars => ProofsAreBound'
    <2> SUFFICES ASSUME TypeOK, CallsAreInTime, ProofsAreBound, [Next]_vars PROVE ProofsAreBound'
      OBVIOUS
    <2>1. CASE UNCHANGED accepted
      BY <2>1 DEF ProofsAreBound
    <2>2. ASSUME NEW s \in Sites, VerifyAccept(s) PROVE ProofsAreBound'
      <3> DEFINE token == call[s].token
                 n == call[s].nonce
                 e == [site |-> s, nonce |-> n, token |-> token, asked |-> call[s].asked,
                       at |-> now, bundle |-> bundle[s]]
                 last == Len(accepted) + 1
      <3>1. /\ call[s] # Idle /\ call[s] \in Calls /\ n \in Nonces /\ bundle[s] \in Bundles
            /\ accepted' = Append(accepted, e)
            /\ ProofVerifies(s, token, n)
        BY <2>2, Types DEF VerifyAccept, CallsAreInTime, TypeOK
      <3>2. e \in Acceptances
        BY <3>1, Types DEF Acceptances, Calls
      <3>3. /\ DOMAIN accepted' = 1 .. last /\ accepted'[last] = e
            /\ \A i \in 1 .. Len(accepted) : accepted'[i] = accepted[i]
        BY <3>1, <3>2, SMT DEF TypeOK
      <3>4. \A i \in 1 .. last : i = last \/ i \in 1 .. Len(accepted)
        BY Types, SMT
      <3>5. token.proof.bound =>
               token.proof.bytes =
               ContextBytes(Field(s), token.epoch, bundle[s].root, token.temp_key, n)
        BY <3>1 DEF ProofVerifies, Verify, Field
      <3> QED BY <3>3, <3>4, <3>5, Types DEF ProofsAreBound
    <2> QED BY <2>1, <2>2 DEF Next, vars, Create, UpdateRoot, Challenge, VerifyExpired,
                              VerifyInTime, VerifyEpoch, VerifyReject, Tick
  <1>3. ProofsAreBound /\ NonceAcceptedOnce => TokenAcceptedOnce
    <2> SUFFICES ASSUME ProofsAreBound, NonceAcceptedOnce,
                        NEW i \in DOMAIN accepted, NEW j \in DOMAIN accepted,
                        accepted[i].token.proof.bound,
                        accepted[i].token.proof = accepted[j].token.proof
                 PROVE  i = j
      BY DEF TokenAcceptedOnce
    <2>1. \A k \in {i, j} :
             LET v == accepted[k].token.proof.bytes IN v[Len(v)] = accepted[k].nonce
      <3> SUFFICES ASSUME NEW k \in {i, j}
                   PROVE  LET v == accepted[k].token.proof.bytes IN v[Len(v)] = accepted[k].nonce
        OBVIOUS
      <3>1. PICK S : Field(accepted[k].site) \in Seq(S)
        BY FieldIsString DEF ProofsAreBound
      <3>2. accepted[k].token.proof.bytes =
               ContextBytes(Field(accepted[k].site), accepted[k].token.epoch,
                            accepted[k].bundle.root, accepted[k].token.temp_key, accepted[k].nonce)
        BY DEF ProofsAreBound
      <3> QED BY <3>1, <3>2, LastField
    <2>2. accepted[i].nonce = accepted[j].nonce
      BY <2>1
    <2> QED BY <2>2 DEF NonceAcceptedOnce
  <1>4. Inv => TypeOK /\ CallsAreInTime /\ NonceAcceptedOnce
    BY DEF Inv
  <1> QED BY <1>1, <1>2, <1>3, <1>4, Invariance, PTL DEF Spec

(* Until its deadline a challenge is open, or was accepted: the sweep and the deletion of
   verify_token take only what is past it, and a failed attempt takes nothing. *)
THEOREM Answerable == Spec => []ChallengesStayAnswerable
  <1> DEFINE InTable(n) == nonces[minted[n].site][n] # Absent
             Young == \A n \in DOMAIN minted : now - minted[n].at <= TTL => InTable(n)
  <1>1. Init => Young
    BY SMT DEF Init
  <1>2. Inv /\ Young /\ [Next]_vars => Young'
    <2> SUFFICES ASSUME Inv, Young, [Next]_vars, NEW n \in DOMAIN minted',
                        now' - minted'[n].at <= TTL
                 PROVE  nonces'[minted'[n].site][n] # Absent
      OBVIOUS
    <2> USE Types DEF Inv
    <2>1. \A k \in DOMAIN minted : k \in Nonces /\ minted[k].site \in Sites /\ minted[k].at \in Nat
      <3>1. \A k \in DOMAIN minted : k \in Nonces
        BY BoundAssumption, SMT DEF TypeOK, Nonces
      <3>2. \A k \in DOMAIN minted : minted[k] \in Challenges
        OBVIOUS
      <3> QED BY <3>1, <3>2 DEF Challenges
    <2>2. ASSUME NEW s \in Sites, Challenge(s)
          PROVE  nonces'[minted'[n].site][n] # Absent
      <3> DEFINE fresh == Len(minted) + 1
      <3>1. /\ minted' = Append(minted, [site |-> s, at |-> now])
            /\ Len(minted) < MaxNonces /\ now' = now
            /\ \A r \in Sites, k \in Nonces :
                  nonces'[r][k] = IF r # s THEN nonces[r][k]
                                  ELSE IF k = fresh THEN [issued |-> now, consumed |-> FALSE]
                                  ELSE IF Kept(s, k) THEN nonces[s][k] ELSE Absent
        BY <2>2 DEF Challenge, TypeOK
      <3>2. /\ DOMAIN minted' = 1 .. fresh /\ minted'[fresh] = [site |-> s, at |-> now]
            /\ \A k \in 1 .. Len(minted) : minted'[k] = minted[k]
            /\ n = fresh \/ n \in 1 .. Len(minted)
            /\ fresh \in Nonces
        BY <3>1, BoundAssumption, SMT DEF TypeOK, Nonces
      <3>3. CASE n = fresh
        <4> HIDE DEF fresh
        <4>1. nonces'[s][fresh] = [issued |-> now, consumed |-> FALSE]
          BY <3>1, <3>2
        <4>2. minted'[n].site = s
          BY <3>2, <3>3
        <4>3. [issued |-> now, consumed |-> FALSE] \in Entries
          BY DEF TypeOK, Entries
        <4>4. [issued |-> now, consumed |-> FALSE] # Absent
          BY <4>3, AbsentAssumption DEF Entries
        <4> QED BY <3>3, <4>1, <4>2, <4>4
      <3>4. CASE n \in 1 .. Len(minted)
        <4> DEFINE r == minted[n].site
        <4>1. /\ minted'[n] = minted[n] /\ n \in Nonces /\ r \in Sites
              /\ nonces[r][n] # Absent /\ n # fresh
          BY <2>1, <3>1, <3>2, <3>4, SMT
        <4>2. nonces[r][n] \in Entries /\ nonces[r][n].issued = minted[n].at
          BY <4>1 DEF EntriesAreChallenges
        <4>3. ~Expired(nonces[r][n])
          <5>1. now - minted[n].at <= TTL /\ minted[n].at \in Nat
            BY <2>1, <3>1, <3>4, <4>1
          <5> QED BY <4>2, <5>1, TTLAssumption, SMT DEF Expired
        <4>4. r = s => Kept(s, n)
          BY <4>1, <4>3 DEF Kept
        <4> QED BY <3>1, <4>1, <4>4
      <3> QED BY <3>2, <3>3, <3>4
    <2>3. ASSUME NEW s \in Sites, NEW k \in Nonces, VerifyExpired(s, k)
          PROVE  nonces'[minted'[n].site][n] # Absent
      <3>1. /\ nonces' = [nonces EXCEPT ![s][k] = Absent] /\ UNCHANGED <<minted, now>>
            /\ nonces[s][k] # Absent /\ Expired(nonces[s][k])
        BY <2>3 DEF VerifyExpired, Open
      <3>2. nonces[minted[n].site][n] # Absent /\ minted[n].at = nonces[minted[n].site][n].issued
        BY <2>1, <3>1 DEF EntriesAreChallenges
      <3>3. ~Expired(nonces[minted[n].site][n])
        <4>1. now - minted[n].at <= TTL /\ minted[n].at \in Nat
          BY <2>1, <3>1
        <4> QED BY <3>2, <4>1, TTLAssumption, SMT DEF Expired
      <3>4. nonces'[minted[n].site][n] = nonces[minted[n].site][n]
        BY <2>1, <3>1, <3>3 DEF TypeOK
      <3> QED BY <3>1, <3>2, <3>4
    <2>4. ASSUME NEW s \in Sites, VerifyAccept(s)
          PROVE  nonces'[minted'[n].site][n] # Absent
      <3> DEFINE k == call[s].nonce
      <3>1. /\ nonces' = [nonces EXCEPT ![s][k] = Consumed(@)] /\ UNCHANGED <<minted, now>>
            /\ k \in Nonces /\ nonces[s][k] # Absent
        BY <2>4 DEF VerifyAccept, CallsAreInTime, Open
      <3>2. Consumed(nonces[s][k]) \in Entries
        BY <3>1 DEF Consumed, Entries
      <3>3. Consumed(nonces[s][k]) # Absent
        BY <3>2, AbsentAssumption DEF Entries
      <3>4. nonces'[s][k] = Consumed(nonces[s][k])
            /\ \A r \in Sites, m \in Nonces : ~(r = s /\ m = k) => nonces'[r][m] = nonces[r][m]
        BY <3>1 DEF TypeOK
      <3> QED BY <2>1, <3>1, <3>3, <3>4
    <2>5. CASE Tick
      <3>1. now' = now + 1 /\ UNCHANGED <<nonces, minted>>
        BY <2>5 DEF Tick
      <3>2. now - minted[n].at <= TTL
        BY <2>1, <3>1, TTLAssumption, SMT
      <3> QED BY <3>1, <3>2
    <2>6. CASE UNCHANGED <<nonces, minted, now>>
      BY <2>6
    <2> QED BY <2>2, <2>3, <2>4, <2>5, <2>6 DEF Next, vars, Create, UpdateRoot, VerifyInTime,
                                               VerifyEpoch, VerifyReject
  <1>3. Inv /\ Young => ChallengesStayAnswerable
    <2> SUFFICES ASSUME Inv, Young, NEW n \in DOMAIN minted, now - minted[n].at <= TTL
                 PROVE  Open(minted[n].site, n) <=> \A i \in DOMAIN accepted : accepted[i].nonce # n
      BY DEF ChallengesStayAnswerable
    <2>1. n \in Nonces /\ minted[n].site \in Sites
      <3>1. n \in Nonces
        BY Types, BoundAssumption, SMT DEF Inv, TypeOK, Nonces
      <3>2. minted[n] \in Challenges
        BY Types DEF Inv
      <3> QED BY <3>1, <3>2 DEF Challenges
    <2>2. nonces[minted[n].site][n] # Absent
      OBVIOUS
    <2> QED BY <2>1, <2>2 DEF Inv, ConsumedMeansAccepted, Open
  <1> QED BY <1>1, <1>2, <1>3, Invariance, PTL DEF Spec

(* A challenge leaves no entry in the site's table that is past the deadline. *)
THEOREM NoLeak == Spec => SweepIsComplete
  <1> DEFINE Swept(s) == minted' # minted /\ nonces'[s] # nonces[s] =>
                 \A n \in Nonces : nonces'[s][n] # Absent => now - nonces'[s][n].issued <= TTL
  <1>1. TypeOK /\ [Next]_vars => [\A s \in Sites : Swept(s)]_vars
    <2> SUFFICES ASSUME TypeOK, Next, NEW s \in Sites PROVE Swept(s)
      OBVIOUS
    <2>1. ASSUME NEW r \in Sites, Challenge(r) PROVE Swept(s)
      <3> SUFFICES ASSUME nonces'[s] # nonces[s], NEW n \in Nonces, nonces'[s][n] # Absent
                   PROVE  now - nonces'[s][n].issued <= TTL
        OBVIOUS
      <3>1. s = r
        BY <2>1 DEF Challenge, TypeOK
      <3>2. nonces'[s][n] = IF n = Len(minted) + 1 THEN [issued |-> now, consumed |-> FALSE]
                            ELSE IF Kept(s, n) THEN nonces[s][n] ELSE Absent
        BY <2>1, <3>1 DEF Challenge, TypeOK
      <3>3. CASE n = Len(minted) + 1
        BY <3>2, <3>3, Types, TTLAssumption, SMT
      <3>4. CASE n # Len(minted) + 1
        <4>1. Kept(s, n) /\ nonces'[s][n] = nonces[s][n]
          BY <3>2, <3>4
        <4>2. nonces[s][n] \in Entries
          BY <4>1, Types DEF Kept
        <4>3. nonces[s][n].issued \in Nat
          BY <4>2 DEF Entries
        <4> QED BY <4>1, <4>3, Types, TTLAssumption, SMT DEF Kept, Expired
      <3> QED BY <3>3, <3>4
    <2>2. CASE UNCHANGED minted
      BY <2>2
    <2> QED BY <2>1, <2>2 DEF Next, Create, UpdateRoot, VerifyExpired, VerifyInTime,
                                 VerifyEpoch, VerifyAccept, VerifyReject, Tick
  <1> QED BY <1>1, TypeCorrect, PTL DEF Spec, SweepIsComplete

(* accounts.setdefault keeps the first date of every accepted key and loses none. *)
THEOREM FirstSeen == Spec => []AccountsAreFirstAcceptances
  <1>1. Init => AccountsAreFirstAcceptances
    BY DEF Init, AccountsAreFirstAcceptances, Here
  <1>2. TypeOK /\ CallsAreInTime /\ AccountsAreFirstAcceptances /\ [Next]_vars
            => AccountsAreFirstAcceptances'
    <2> SUFFICES ASSUME TypeOK, CallsAreInTime, AccountsAreFirstAcceptances, [Next]_vars
                 PROVE  AccountsAreFirstAcceptances'
      OBVIOUS
    <2>1. CASE UNCHANGED <<accounts, accepted>>
      BY <2>1 DEF AccountsAreFirstAcceptances, Here
    <2>2. ASSUME NEW s \in Sites, VerifyAccept(s)
          PROVE  AccountsAreFirstAcceptances'
      <3> DEFINE token == call[s].token
                 e == [site |-> s, nonce |-> call[s].nonce, token |-> token,
                       asked |-> call[s].asked, at |-> now, bundle |-> bundle[s]]
                 last == Len(accepted) + 1
                 new == [key |-> token.temp_key, first_seen |-> now]
      <3>1. /\ bundle[s] \in Bundles
            /\ accounts' = [accounts EXCEPT ![s] = Remember(s, token.temp_key)]
            /\ accepted' = Append(accepted, e)
        BY <2>2 DEF VerifyAccept, TypeOK, CallsAreInTime
      <3>2. e \in Acceptances
        <4>1. call[s] # Idle /\ call[s] \in Calls /\ call[s].nonce \in Nonces
          BY <2>2, Types DEF VerifyAccept, CallsAreInTime
        <4> QED BY <3>1, <4>1, Types DEF Acceptances, Calls
      <3>3. /\ DOMAIN accepted' = 1 .. last
            /\ accepted'[last].site = s /\ accepted'[last].token = token /\ accepted'[last].at = now
            /\ \A i \in 1 .. Len(accepted) : accepted'[i] = accepted[i]
        BY <3>1, <3>2, SMT DEF TypeOK
      <3>4. /\ DOMAIN accepted = 1 .. Len(accepted) /\ Len(accepted) \in Nat
            /\ \A i \in 1 .. last : i = last \/ (i \in 1 .. Len(accepted) /\ i <= last)
            /\ \A i \in 1 .. Len(accepted) : i \in 1 .. last
            /\ last \in 1 .. last /\ last <= last
        BY Types, SMT
      <3>5. CASE \E r \in accounts[s] : r.key = token.temp_key
        <4>1. accounts' = accounts
          BY <3>1, <3>5 DEF Remember, TypeOK
        <4>2. \A r \in Sites : Here(r)' = IF r = s THEN Here(r) \cup {last} ELSE Here(r)
          BY <3>3, <3>4 DEF Here
        <4> SUFFICES ASSUME NEW r \in Sites
                     PROVE  /\ \A i \in Here(r)' : \E x \in accounts[r] : x.key = accepted'[i].token.temp_key
                            /\ \A x \in accounts[r] : \E i \in Here(r)' :
                                  /\ x = [key |-> accepted'[i].token.temp_key, first_seen |-> accepted'[i].at]
                                  /\ \A j \in Here(r)' : accepted'[j].token.temp_key = x.key => i <= j
          BY <4>1 DEF AccountsAreFirstAcceptances
        <4>3. \A i \in Here(r)' : i \in Here(r) \/ (i = last /\ r = s)
          BY <4>2
        <4>4. Here(r) \subseteq 1 .. Len(accepted) /\ Here(r) \subseteq Here(r)'
          BY <3>4, <4>2 DEF Here
        <4>5. \A i \in Here(r)' : \E x \in accounts[r] : x.key = accepted'[i].token.temp_key
          BY <3>3, <3>5, <4>3, <4>4 DEF AccountsAreFirstAcceptances
        <4>6. ASSUME NEW x \in accounts[r]
              PROVE  \E i \in Here(r)' :
                        /\ x = [key |-> accepted'[i].token.temp_key, first_seen |-> accepted'[i].at]
                        /\ \A j \in Here(r)' : accepted'[j].token.temp_key = x.key => i <= j
          <5>1. PICK i \in Here(r) :
                   /\ x = [key |-> accepted[i].token.temp_key, first_seen |-> accepted[i].at]
                   /\ \A j \in Here(r) : accepted[j].token.temp_key = x.key => i <= j
            BY <4>6 DEF AccountsAreFirstAcceptances
          <5> QED BY <3>3, <3>4, <4>3, <4>4, <5>1
        <4> QED BY <4>5, <4>6
      <3>6. CASE ~\E r \in accounts[s] : r.key = token.temp_key
        <4>1. accounts' = [accounts EXCEPT ![s] = @ \cup {new}]
          BY <3>1, <3>6 DEF Remember
        <4>2. \A r \in Sites : accounts'[r] = IF r = s THEN accounts[r] \cup {new} ELSE accounts[r]
          BY <4>1 DEF TypeOK
        <4>3. \A r \in Sites : Here(r)' = IF r = s THEN Here(r) \cup {last} ELSE Here(r)
          BY <3>3, <3>4 DEF Here
        <4>4. \A i \in Here(s) : accepted[i].token.temp_key # token.temp_key
          BY <3>6 DEF AccountsAreFirstAcceptances
        <4> SUFFICES ASSUME NEW r \in Sites
                     PROVE  /\ \A i \in Here(r)' : \E x \in accounts'[r] : x.key = accepted'[i].token.temp_key
                            /\ \A x \in accounts'[r] : \E i \in Here(r)' :
                                  /\ x = [key |-> accepted'[i].token.temp_key, first_seen |-> accepted'[i].at]
                                  /\ \A j \in Here(r)' : accepted'[j].token.temp_key = x.key => i <= j
          BY DEF AccountsAreFirstAcceptances
        <4>5. /\ \A i \in Here(r)' : i \in Here(r) \/ (i = last /\ r = s)
              /\ Here(r) \subseteq 1 .. Len(accepted) /\ Here(r) \subseteq Here(r)'
              /\ accounts[r] \subseteq accounts'[r]
          BY <3>4, <4>2, <4>3 DEF Here
        <4>6. \A i \in Here(r)' : \E x \in accounts'[r] : x.key = accepted'[i].token.temp_key
          <5> SUFFICES ASSUME NEW i \in Here(r)'
                       PROVE  \E x \in accounts'[r] : x.key = accepted'[i].token.temp_key
            OBVIOUS
          <5>1. CASE i \in Here(r)
            BY <3>3, <4>5, <5>1 DEF AccountsAreFirstAcceptances
          <5>2. CASE i = last /\ r = s
            <6>1. new \in accounts'[r] /\ new.key = token.temp_key
              BY <4>2, <5>2
            <6>2. accepted'[i].token = token
              BY <3>3, <5>2
            <6> QED BY <6>1, <6>2
          <5> QED BY <4>5, <5>1, <5>2
        <4>7. ASSUME NEW x \in accounts'[r]
              PROVE  \E i \in Here(r)' :
                        /\ x = [key |-> accepted'[i].token.temp_key, first_seen |-> accepted'[i].at]
                        /\ \A j \in Here(r)' : accepted'[j].token.temp_key = x.key => i <= j
          <5>1. CASE x \in accounts[r]
            <6>1. PICK i \in Here(r) :
                     /\ x = [key |-> accepted[i].token.temp_key, first_seen |-> accepted[i].at]
                     /\ \A j \in Here(r) : accepted[j].token.temp_key = x.key => i <= j
              BY <5>1 DEF AccountsAreFirstAcceptances
            <6> QED BY <3>3, <3>4, <4>5, <6>1
          <5>2. CASE x = new /\ r = s
            <6>1. last \in Here(r)'
              BY <3>3, <3>4, <5>2 DEF Here
            <6>2. \A j \in Here(r)' : accepted'[j].token.temp_key = token.temp_key => j = last
              BY <3>3, <4>4, <4>5, <5>2
            <6> QED BY <3>3, <3>4, <5>2, <6>1, <6>2
          <5> QED BY <4>2, <5>1, <5>2
        <4> QED BY <4>6, <4>7
      <3> QED BY <3>5, <3>6
    <2> QED BY <2>1, <2>2 DEF Next, vars, Create, UpdateRoot, Challenge, VerifyExpired,
                              VerifyInTime, VerifyEpoch, VerifyReject, Tick
  <1>3. Inv => TypeOK /\ CallsAreInTime
    BY DEF Inv
  <1> QED BY <1>1, <1>2, <1>3, Invariance, PTL DEF Spec

=============================================================================
