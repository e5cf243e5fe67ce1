--------------------------- MODULE CircuitProofs ---------------------------
(* field.rs computes modulo P, for a word of any even width, and so the two
   implementations compute the same circuit, whatever its rounds and tables are; and the
   circuit has the outputs of the native functions of wallets and trees. *)
EXTENDS Circuit, TLAPS, WellFoundedInduction, NaturalsInduction

(* Arithmetic that the solver needs in small pieces. *)
LEMMA Monotone ==
    ASSUME NEW a \in Nat, NEW b \in Nat, NEW c \in Nat, a <= b
    PROVE  a * c <= b * c /\ a * c \in Nat /\ b * c \in Nat
  <1>1. PICK d \in Nat : b = a + d
    <2>1. b - a \in Nat /\ b = a + (b - a)
      BY SMT
    <2> QED BY <2>1
  <1>2. b * c = a * c + d * c /\ d * c \in Nat /\ a * c \in Nat
    BY <1>1, SMT
  <1> QED BY <1>2, SMT

LEMMA Division ==
    ASSUME NEW n \in Nat, NEW m \in Nat, m >= 1
    PROVE  /\ n \div m \in Nat /\ n % m \in Nat /\ n % m < m
           /\ n = (n \div m) * m + (n % m)
  <1> DEFINE q == n \div m
             r == n % m
  <1>1. q \in Int /\ r \in Int /\ n = q * m + r /\ 0 <= r /\ r < m
    BY SMT
  <1> HIDE DEF q, r
  <1>2. q >= 0
    <2> SUFFICES ASSUME q <= 0 - 1 PROVE FALSE
      BY <1>1, SMT
    <2>1. 0 - q - 1 \in Nat
      BY <1>1, SMT
    <2>2. (0 - q - 1) * m >= 0 /\ q * m = 0 - ((0 - q - 1) * m) - m
      BY <1>1, <2>1, SMT
    <2> QED BY <1>1, <2>2, SMT
  <1> QED BY <1>1, <1>2, SMT DEF q, r

(* A remainder is known by its range. *)
LEMMA ModUnique ==
    ASSUME NEW m \in Nat, m >= 1, NEW q \in Int, NEW r \in Int, 0 <= r, r < m,
           NEW n \in Int, n = q * m + r
    PROVE  n % m = r
  <1> DEFINE c == n \div m
             d == n % m
  <1>1. c \in Int /\ d \in Int /\ n = c * m + d /\ 0 <= d /\ d < m
    BY SMT
  <1> HIDE DEF c, d
  <1>2. (c - q) * m = r - d
    <2>1. (c - q) * m = c * m - q * m
      BY <1>1, SMT
    <2>2. c * m \in Int /\ q * m \in Int
      BY <1>1, SMT
    <2> QED BY <1>1, <2>1, <2>2, SMT
  <1>3. ~(c - q >= 1)
    <2> SUFFICES ASSUME c - q >= 1 PROVE FALSE
      OBVIOUS
    <2>1. (c - q - 1) * m >= 0 /\ (c - q) * m = (c - q - 1) * m + m
      BY <1>1, SMT
    <2> QED BY <1>1, <1>2, <2>1, SMT
  <1>4. ~(c - q <= 0 - 1)
    <2> SUFFICES ASSUME c - q <= 0 - 1 PROVE FALSE
      OBVIOUS
    <2>1. (q - c - 1) * m >= 0 /\ (c - q) * m = 0 - ((q - c - 1) * m) - m
      BY <1>1, SMT
    <2> QED BY <1>1, <1>2, <2>1, SMT
  <1>5. c = q
    BY <1>1, <1>3, <1>4, SMT
  <1> QED BY <1>1, <1>5, SMT DEF d

LEMMA Small ==
    ASSUME NEW m \in Nat, m >= 1, NEW r \in Int, 0 <= r, r < m
    PROVE  r % m = r
  <1>1. 0 \in Int /\ r = 0 * m + r
    BY SMT
  <1> QED BY <1>1, ModUnique

(* The shape of the modulus. *)
LEMMA Shape ==
    /\ Word \in Nat /\ P \in Nat /\ P >= 3 /\ P < Word /\ Word = P + B - 1
    /\ B \in Nat /\ B >= 2 /\ B <= P
    /\ Epsilon \in Nat /\ Epsilon = B - 1
    /\ Epsilon * Epsilon = P - B
  <1>1. B \in Nat /\ B >= 2
    BY BaseAssumption
  <1>2. B * B \in Nat /\ 2 * B <= B * B
    BY <1>1, Monotone, SMT
  <1>3. (B - 1) * (B - 1) = B * B - 2 * B + 1
    BY <1>1, SMT
  <1> DEFINE w == B * B
  <1> HIDE DEF w
  <1>4. w \in Nat /\ 2 * B <= w
    BY <1>2 DEF w
  <1>5. (B - 1) * (B - 1) = w - 2 * B + 1
    BY <1>3 DEF w
  <1>6. Word = w /\ P = w - B + 1 /\ Epsilon = B - 1
    BY DEF Word, P, Epsilon, w
  <1>7. Epsilon * Epsilon = w - 2 * B + 1
    BY <1>5, <1>6
  <1> QED BY <1>1, <1>4, <1>6, <1>7, SMT

(* The quarters of a double word. *)
LEMMA Quarters ==
    ASSUME NEW n \in Nat, n < Word * Word
    PROVE  /\ Lo(n) \in Nat /\ Lo(n) < Word
           /\ HiLo(n) \in Nat /\ HiLo(n) < B
           /\ HiHi(n) \in Nat /\ HiHi(n) < B
           /\ n = (HiHi(n) * B + HiLo(n)) * Word + Lo(n)
  <1> DEFINE hi == n \div Word
  <1>1. /\ hi \in Nat /\ Lo(n) \in Nat /\ Lo(n) < Word
        /\ n = hi * Word + Lo(n)
    <2>1. Word \in Nat /\ Word >= 1
      BY Shape, SMT
    <2> QED BY <2>1, Division DEF Lo
  <1>2. /\ HiHi(n) \in Nat /\ HiLo(n) \in Nat /\ HiLo(n) < B
        /\ hi = HiHi(n) * B + HiLo(n)
    <2>1. B \in Nat /\ B >= 1
      BY Shape, SMT
    <2> HIDE DEF hi
    <2>2. /\ hi \div B \in Nat /\ hi % B \in Nat /\ hi % B < B
          /\ hi = (hi \div B) * B + (hi % B)
      BY <1>1, <2>1, Division
    <2> QED BY <2>2 DEF HiHi, HiLo, hi
  <1> DEFINE lo == Lo(n)
             hh == HiHi(n)
             hl == HiLo(n)
  <1> HIDE DEF hi, lo, hh, hl
  <1>3. hi < Word
    <2> SUFFICES ASSUME Word <= hi PROVE FALSE
      BY <1>1, Shape, SMT
    <2>1. Word * Word <= hi * Word /\ hi * Word \in Nat /\ Word * Word \in Nat
      BY <1>1, Shape, Monotone
    <2> QED BY <1>1, <2>1, SMT DEF lo
  <1>4. hh < B
    <2> SUFFICES ASSUME B <= hh PROVE FALSE
      BY <1>2, Shape, SMT DEF hh
    <2>1. B * B <= hh * B /\ hh * B \in Nat /\ B * B \in Nat
      BY <1>2, Shape, Monotone DEF hh
    <2>2. Word = B * B
      BY DEF Word
    <2>3. hi = hh * B + hl /\ hl \in Nat
      BY <1>2 DEF hh, hl
    <2>4. Word <= hh * B /\ Word \in Nat /\ hi \in Nat
      BY <1>1, <2>1, <2>2, Shape
    <2> QED BY <1>3, <2>1, <2>3, <2>4, SMT
  <1> QED BY <1>1, <1>2, <1>4 DEF hh, hi

(* x = lo + 2^64 * hi, 2^64 = eps (mod p), 2^96 = -1 (mod p): the comment in field.rs. *)
LEMMA Folding ==
    ASSUME NEW b \in Nat, NEW p \in Nat, NEW w \in Nat, w = b * b, p = w - b + 1,
           NEW lo \in Nat, NEW hl \in Nat, NEW hh \in Nat
    PROVE  (hh * b + hl) * w + lo =
               (hl + hh * (b + 1) - 1) * p + (lo + hl * (b - 1) + (p - hh))
  <1>1. (hh * b + hl) * w = hh * (b * w) + hl * w
    BY SMT
  <1>2. (hl + hh * (b + 1) - 1) * p = hl * p + hh * ((b + 1) * p) - p
    BY SMT
  <1>3. hl * p = hl * w - hl * (b - 1)
    BY SMT
  <1>4. (b + 1) * p = b * w + 1
    <2>1. (b + 1) * p = b * p + p
      BY SMT
    <2>2. b * p = b * w - b * b + b
      BY SMT
    <2> QED BY <2>1, <2>2, SMT
  <1>5. hh * ((b + 1) * p) = hh * (b * w) + hh
    BY <1>4, SMT
  <1>6. hl * p \in Int /\ hl * w \in Int /\ hl * (b - 1) \in Int /\ hh * (b * w) \in Int
        /\ hh * ((b + 1) * p) \in Int
    BY SMT
  <1> QED BY <1>1, <1>2, <1>3, <1>5, <1>6, SMT

LEMMA TwoRounds ==
    ASSUME NEW acc \in Nat, acc < 3 * P
    PROVE  \E k \in Nat : acc = k * P + Round(Round(acc)) /\ Round(Round(acc)) \in Nat
                          /\ Round(Round(acc)) < P
  <1>1. P \in Nat /\ P >= 3
    BY Shape
  <1>2. CASE acc < P
    <2>1. Round(Round(acc)) = acc /\ acc = 0 * P + acc
      BY <1>1, <1>2, SMT DEF Round
    <2> QED BY <1>2, <2>1
  <1>3. CASE acc >= P /\ acc < 2 * P
    <2>1. /\ Round(Round(acc)) = acc - P /\ acc = 1 * P + (acc - P)
          /\ acc - P \in Nat /\ acc - P < P
      BY <1>1, <1>3, SMT DEF Round
    <2> QED BY <2>1
  <1>4. CASE acc >= 2 * P
    <2>1. /\ Round(Round(acc)) = acc - P - P /\ acc = 2 * P + (acc - P - P)
          /\ acc - P - P \in Nat /\ acc - P - P < P
      BY <1>1, <1>4, SMT DEF Round
    <2> QED BY <2>1
  <1> QED BY <1>1, <1>2, <1>3, <1>4, SMT

(* field.rs is exact: reduce128 of any double word is the remainder modulo P, so two
   subtractions end its loop, and no intermediate value leaves its word. *)
THEOREM ReduceIsModulo ==
    \A n \in Nat : n < Word * Word =>
        /\ Reduce128(n) = n % P
        /\ P - HiHi(n) \in Nat
        /\ Accumulated(n) \in Nat /\ Accumulated(n) < 3 * P
  <1> SUFFICES ASSUME NEW n \in Nat, n < Word * Word
               PROVE  /\ Reduce128(n) = n % P
                      /\ P - HiHi(n) \in Nat
                      /\ Accumulated(n) \in Nat /\ Accumulated(n) < 3 * P
    OBVIOUS
  <1> DEFINE lo == Lo(n)
             hl == HiLo(n)
             hh == HiHi(n)
             acc == Accumulated(n)
             q == hl + hh * (B + 1) - 1
  <1>1. /\ lo \in Nat /\ lo < Word /\ hl \in Nat /\ hl < B /\ hh \in Nat /\ hh < B
        /\ n = (hh * B + hl) * Word + lo
    BY Quarters
  <1>2. acc = lo + hl * Epsilon + (P - hh)
    BY DEF Accumulated
  <1> HIDE DEF lo, hl, hh, acc
  <1>3. hl * Epsilon \in Nat /\ hl * Epsilon <= Epsilon * Epsilon
    <2>1. hl <= Epsilon /\ Epsilon \in Nat
      BY <1>1, Shape, SMT
    <2> QED BY <1>1, <2>1, Monotone
  <1>4. P - hh \in Nat /\ acc \in Nat /\ acc < 3 * P
    <2> DEFINE e == hl * Epsilon
               ee == Epsilon * Epsilon
    <2>1. /\ e \in Nat /\ e <= ee /\ ee = P - B /\ acc = lo + e + (P - hh)
          /\ Word = P + B - 1 /\ P \in Nat /\ B \in Nat /\ B <= P
      BY <1>2, <1>3, Shape
    <2> HIDE DEF e, ee
    <2> QED BY <1>1, <2>1, SMT
  <1>5. n = q * P + acc
    <2>1. Word = B * B /\ P = Word - B + 1
      BY DEF Word, P
    <2>2. (hh * B + hl) * Word + lo = q * P + (lo + hl * (B - 1) + (P - hh))
      BY <1>1, <2>1, Shape, Folding
    <2> QED BY <1>1, <1>2, <2>2, Shape
  <1>6. q \in Int
    BY <1>1, Shape, SMT
  <1>7. PICK k \in Nat : acc = k * P + Round(Round(acc)) /\ Round(Round(acc)) \in Nat
                         /\ Round(Round(acc)) < P
    BY <1>4, TwoRounds
  <1> DEFINE r == Round(Round(acc))
  <1> HIDE DEF q, r
  <1>8. n = (q + k) * P + r
    <2>1. (q + k) * P = q * P + k * P /\ q * P \in Int /\ k * P \in Int
      BY <1>6, Shape, SMT
    <2>2. acc = k * P + r /\ r \in Nat
      BY <1>7 DEF r
    <2> QED BY <1>5, <2>1, <2>2, SMT
  <1>9. n % P = r
    <2>1. q + k \in Int /\ r \in Int /\ 0 <= r /\ r < P /\ n \in Int
      BY <1>6, <1>7, Shape, SMT DEF r
    <2>2. P \in Nat /\ P >= 1
      BY Shape, SMT
    <2> DEFINE s == q + k
    <2>3. s \in Int /\ n = s * P + r
      BY <1>8, <2>1
    <2> HIDE DEF s
    <2> QED BY <2>1, <2>2, <2>3, ModUnique
  <1> QED BY <1>4, <1>9 DEF Reduce128, r, acc, hh

-----------------------------------------------------------------------------
(* Elements of the field. *)
LEMMA FieldIs == \A n : n \in Field <=> n \in Nat /\ n < P
  <1>1. P \in Nat /\ P >= 3
    BY Shape
  <1> QED BY <1>1, SMT DEF Field

LEMMA Remainders ==
    ASSUME NEW n \in Int
    PROVE  n % P \in Field
  <1>1. P \in Nat /\ P >= 3
    BY Shape
  <1>2. n % P \in Nat /\ n % P < P
    BY <1>1, SMT
  <1> QED BY <1>2, FieldIs

LEMMA AddAgrees ==
    ASSUME NEW a \in Field, NEW b \in Field
    PROVE  RsAdd(a, b) = (a + b) % P
  <1>1. a \in Nat /\ a < P /\ b \in Nat /\ b < P /\ P \in Nat /\ P >= 1
    <2>1. P \in Nat /\ P >= 3
      BY Shape
    <2> QED BY <2>1, FieldIs, SMT
  <1>2. CASE a + b >= P
    <2>1. a + b = 1 * P + (a + b - P) /\ 0 <= a + b - P /\ a + b - P < P
          /\ a + b - P \in Int /\ a + b \in Int
      BY <1>1, <1>2, SMT
    <2>2. (a + b) % P = a + b - P
      BY <1>1, <2>1, ModUnique, SMT
    <2> QED BY <1>2, <2>2 DEF RsAdd
  <1>3. CASE ~(a + b >= P)
    <2> DEFINE r == a + b
    <2>1. r \in Int /\ 0 <= r /\ r < P
      BY <1>1, <1>3, SMT
    <2> HIDE DEF r
    <2>2. r % P = r
      BY <1>1, <2>1, Small
    <2> QED BY <1>3, <2>2 DEF RsAdd, r
  <1> QED BY <1>2, <1>3

LEMMA SubAgrees ==
    ASSUME NEW a \in Field, NEW b \in Field
    PROVE  RsSub(a, b) = (a - b) % P
  <1>1. a \in Nat /\ a < P /\ b \in Nat /\ b < P /\ P \in Nat /\ P >= 1
    <2>1. P \in Nat /\ P >= 3
      BY Shape
    <2> QED BY <2>1, FieldIs, SMT
  <1>2. Word \in Nat /\ Word >= 1 /\ P < Word
    BY Shape, SMT
  <1>3. CASE a >= b
    <2>1. a - b = 0 * P + (a - b) /\ 0 <= a - b /\ a - b < P /\ a - b \in Int
      BY <1>1, <1>3, SMT
    <2>2. (a - b) % P = a - b
      BY <1>1, <2>1, ModUnique, SMT
    <2> QED BY <1>3, <2>2 DEF RsSub
  <1>4. CASE ~(a >= b)
    <2> DEFINE r == a + P - b
    <2>1. a - b = (0 - 1) * P + r /\ 0 <= r /\ r < P /\ r \in Int /\ a - b \in Int /\ r < Word
      BY <1>1, <1>2, <1>4, SMT
    <2>2. (a - b) % P = r
      <3> HIDE DEF r
      <3>1. 0 - 1 \in Int
        BY SMT
      <3> QED BY <1>1, <2>1, <3>1, ModUnique, SMT
    <2>3. (((a + P) % Word) - b) % Word = r
      <3> DEFINE c == (a + P) % Word
      <3>1. CASE a + P < Word
        <4>1. a + P = 0 * Word + (a + P) /\ 0 <= a + P /\ a + P \in Int
          BY <1>1, <1>2, SMT
        <4>2. c = a + P
          BY <1>2, <3>1, <4>1, ModUnique, SMT
        <4> HIDE DEF c
        <4>3. c - b = r /\ c - b = 0 * Word + r
          BY <1>1, <1>2, <4>2, SMT
        <4> HIDE DEF r
        <4>4. r % Word = r
          BY <1>2, <2>1, <4>3, ModUnique, SMT
        <4> QED BY <4>3, <4>4 DEF c
      <3>2. CASE ~(a + P < Word)
        <4>1. a + P = 1 * Word + (a + P - Word) /\ 0 <= a + P - Word /\ a + P - Word < Word
              /\ a + P - Word \in Int /\ a + P \in Int
          BY <1>1, <1>2, <3>2, SMT
        <4>2. c = a + P - Word
          BY <1>2, <4>1, ModUnique, SMT
        <4> HIDE DEF c
        <4>3. c - b = (0 - 1) * Word + r /\ c - b \in Int
          BY <1>1, <1>2, <4>2, SMT
        <4> HIDE DEF r
        <4>4. (c - b) % Word = r
          <5>1. 0 - 1 \in Int
            BY SMT
          <5> QED BY <1>2, <2>1, <4>3, <5>1, ModUnique, SMT
        <4> QED BY <4>4 DEF c
      <3> QED BY <3>1, <3>2
    <2> QED BY <1>4, <2>2, <2>3 DEF RsSub
  <1> QED BY <1>3, <1>4

LEMMA MulAgrees ==
    ASSUME NEW a \in Field, NEW b \in Field
    PROVE  RsMul(a, b) = (a * b) % P
  <1>1. a \in Nat /\ a < P /\ b \in Nat /\ b < P
    BY FieldIs
  <1>2. /\ P \in Nat /\ Word \in Nat /\ P < Word /\ P >= 3
    BY Shape
  <1>3. a * b \in Nat /\ a * b < Word * Word
    <2>1. a * b <= P * b /\ b * P <= P * P /\ P * P <= Word * P /\ P * Word <= Word * Word
          /\ a * b \in Nat /\ P * b \in Nat /\ P * P \in Nat /\ Word * P \in Nat
          /\ Word * Word \in Nat
      <3>1. a <= P /\ b <= P /\ P <= Word
        BY <1>1, <1>2, SMT
      <3> QED BY <1>1, <1>2, <3>1, Monotone
    <2>2. P * b = b * P /\ Word * P = P * Word
      BY <1>1, <1>2, SMT
    <2>3. a * b < Word * Word
      <3>1. Word * Word = Word * P + Word * (Word - P) /\ Word * (Word - P) >= 1
        <4>1. PICK d \in Nat : Word = P + 1 + d
          <5>1. Word - P - 1 \in Nat /\ Word = P + 1 + (Word - P - 1)
            BY <1>2, SMT
          <5> QED BY <5>1
        <4>2. Word - P = 1 + d
          BY <1>2, <4>1, SMT
        <4>3. Word * (1 + d) = Word + Word * d /\ Word * d >= 0
              /\ Word * Word = Word * P + Word * (Word - P)
          BY <1>2, <4>1, SMT
        <4>4. Word * (Word - P) = Word * (1 + d)
          BY <4>2
        <4> QED BY <1>2, <4>3, <4>4, SMT
      <3>2. Word * (Word - P) \in Int
        BY <1>2, SMT
      <3> DEFINE ab == a * b
                 ww == Word * Word
                 wp == Word * P
                 pp == P * P
                 pb == P * b
                 gap == Word * (Word - P)
      <3>3. /\ ab <= pb /\ pb <= pp /\ pp <= wp /\ ww = wp + gap /\ gap >= 1
            /\ ab \in Nat /\ pb \in Nat /\ pp \in Nat /\ wp \in Nat /\ gap \in Int
        BY <2>1, <2>2, <3>1, <3>2
      <3> HIDE DEF ab, ww, wp, pp, pb, gap
      <3>4. ab < ww
        BY <3>3, SMT
      <3> QED BY <3>4 DEF ab, ww
    <2> QED BY <2>1, <2>3
  <1> QED BY <1>3, ReduceIsModulo DEF RsMul

(* Every gate gives the two engines the same element. *)
LEMMA Gates ==
    ASSUME NEW g \in Engines, NEW a \in Field, NEW b \in Field
    PROVE  /\ Add(g, a, b) \in Field /\ Add(g, a, b) = Add("python", a, b)
           /\ Sub(g, a, b) \in Field /\ Sub(g, a, b) = Sub("python", a, b)
           /\ Mul(g, a, b) \in Field /\ Mul(g, a, b) = Mul("python", a, b)
  <1>1. a + b \in Int /\ a - b \in Int /\ a * b \in Int
    <2>1. a \in Nat /\ b \in Nat
      BY FieldIs
    <2> QED BY <2>1, SMT
  <1>2. (a + b) % P \in Field /\ (a - b) % P \in Field /\ (a * b) % P \in Field
    BY <1>1, Remainders
  <1>3. /\ Add("python", a, b) = (a + b) % P
        /\ Sub("python", a, b) = (a - b) % P
        /\ Mul("python", a, b) = (a * b) % P
    BY DEF Add, Sub, Mul
  <1>4. CASE g = "python"
    BY <1>2, <1>3, <1>4
  <1>5. CASE g = "rust"
    BY <1>2, <1>3, <1>5, AddAgrees, SubAgrees, MulAgrees DEF Add, Sub, Mul
  <1> QED BY <1>4, <1>5 DEF Engines

LEMMA M4OK ==
    ASSUME NEW g \in Engines,
           NEW x0 \in Field, NEW x1 \in Field, NEW x2 \in Field, NEW x3 \in Field
    PROVE  /\ M4(g, x0, x1, x2, x3) = M4("python", x0, x1, x2, x3)
           /\ \A l \in 1 .. 4 : M4(g, x0, x1, x2, x3)[l] \in Field
  <1> DEFINE t0(h) == Add(h, x0, x1)
             t1(h) == Add(h, x2, x3)
             t2(h) == Add(h, Twice(h, x1), t1(h))
             t3(h) == Add(h, Twice(h, x3), t0(h))
             t4(h) == Add(h, Add(h, Twice(h, t1(h)), Twice(h, t1(h))), t3(h))
             t5(h) == Add(h, Add(h, Twice(h, t0(h)), Twice(h, t0(h))), t2(h))
  <1>1. \A h \in Engines : M4(h, x0, x1, x2, x3) =
                               <<Add(h, t3(h), t5(h)), t5(h), Add(h, t2(h), t4(h)), t4(h)>>
    BY DEF M4
  <1>2. "python" \in Engines
    BY DEF Engines
  <1>3. \A a \in Field : Twice(g, a) \in Field /\ Twice(g, a) = Twice("python", a)
    BY Gates DEF Twice
  <1>4. t0(g) \in Field /\ t0(g) = t0("python")
    BY Gates
  <1>5. t1(g) \in Field /\ t1(g) = t1("python")
    BY Gates
  <1> HIDE DEF t0, t1
  <1>6. t2(g) \in Field /\ t2(g) = t2("python")
    BY <1>3, <1>5, Gates
  <1>7. t3(g) \in Field /\ t3(g) = t3("python")
    BY <1>3, <1>4, Gates
  <1> HIDE DEF t2, t3
  <1>8. t4(g) \in Field /\ t4(g) = t4("python")
    <2> DEFINE u(h) == Add(h, Twice(h, t1(h)), Twice(h, t1(h)))
    <2>1. u(g) \in Field /\ u(g) = u("python")
      BY <1>3, <1>5, Gates
    <2>2. \A h : t4(h) = Add(h, u(h), t3(h))
      OBVIOUS
    <2> HIDE DEF u, t4
    <2> QED BY <1>7, <2>1, <2>2, Gates
  <1>9. t5(g) \in Field /\ t5(g) = t5("python")
    <2> DEFINE u(h) == Add(h, Twice(h, t0(h)), Twice(h, t0(h)))
    <2>1. u(g) \in Field /\ u(g) = u("python")
      BY <1>3, <1>4, Gates
    <2>2. \A h : t5(h) = Add(h, u(h), t2(h))
      OBVIOUS
    <2> HIDE DEF u, t5
    <2> QED BY <1>6, <2>1, <2>2, Gates
  <1> HIDE DEF t4, t5
  <1>10. /\ Add(g, t3(g), t5(g)) \in Field /\ Add(g, t3(g), t5(g)) = Add("python", t3("python"), t5("python"))
         /\ Add(g, t2(g), t4(g)) \in Field /\ Add(g, t2(g), t4(g)) = Add("python", t2("python"), t4("python"))
    BY <1>6, <1>7, <1>8, <1>9, Gates
  <1>11. M4(g, x0, x1, x2, x3) = M4("python", x0, x1, x2, x3)
    BY <1>1, <1>2, <1>8, <1>9, <1>10
  <1>12. \A l \in 1 .. 4 : M4(g, x0, x1, x2, x3)[l] \in Field
    <2> DEFINE m == M4(g, x0, x1, x2, x3)
    <2>1. m[1] \in Field /\ m[2] \in Field /\ m[3] \in Field /\ m[4] \in Field
      BY <1>1, <1>8, <1>9, <1>10
    <2> HIDE DEF m
    <2>2. \A l \in 1 .. 4 : l = 1 \/ l = 2 \/ l = 3 \/ l = 4
      BY SMT
    <2>3. \A l \in 1 .. 4 : m[l] \in Field
      BY <2>1, <2>2
    <2> QED BY <2>3 DEF m
  <1> QED BY <1>11, <1>12

LEMMA Places ==
    /\ \A i \in Positions : i \in Int
    /\ \A i \in Positions : i < 4 => i \in 0 .. 3 /\ i + 1 \in 1 .. 4
    /\ \A i \in Positions : ~(i < 4) => i - 3 \in 1 .. 4 /\ i - 4 \in 0 .. 3
    /\ \A i \in 0 .. 3 : i \in Positions /\ i + 1 \in 1 .. 4
    /\ 0 \in Positions /\ 1 \in Positions /\ 2 \in Positions /\ 3 \in Positions
    /\ 4 \in Positions /\ 5 \in Positions /\ 6 \in Positions /\ 7 \in Positions
  BY SMT DEF Positions

LEMMA ExtOK ==
    ASSUME NEW g \in Engines, NEW v \in State
    PROVE  Ext(g, v) \in State /\ Ext(g, v) = Ext("python", v)
  <1> DEFINE a(h) == M4(h, v[0], v[1], v[2], v[3])
             b(h) == M4(h, v[4], v[5], v[6], v[7])
             s(h) == [l \in 1 .. 4 |-> Add(h, a(h)[l], b(h)[l])]
             e(h) == [i \in Positions |-> IF i < 4 THEN Add(h, a(h)[i + 1], s(h)[i + 1])
                                          ELSE Add(h, b(h)[i - 3], s(h)[i - 3])]
  <1>1. \A h : Ext(h, v) = e(h)
    BY DEF Ext
  <1>2. \A i \in Positions : v[i] \in Field
    BY DEF State
  <1>3. /\ v[0] \in Field /\ v[1] \in Field /\ v[2] \in Field /\ v[3] \in Field
        /\ v[4] \in Field /\ v[5] \in Field /\ v[6] \in Field /\ v[7] \in Field
    BY <1>2, Places
  <1>4. /\ a(g) = a("python") /\ \A l \in 1 .. 4 : a(g)[l] \in Field
        /\ b(g) = b("python") /\ \A l \in 1 .. 4 : b(g)[l] \in Field
    BY <1>3, M4OK
  <1> HIDE DEF a, b
  <1>5. \A l \in 1 .. 4 : s(g)[l] \in Field /\ s(g)[l] = s("python")[l]
    BY <1>4, Gates
  <1> HIDE DEF s
  <1>6. \A i \in Positions : e(g)[i] \in Field /\ e(g)[i] = e("python")[i]
    <2> SUFFICES ASSUME NEW i \in Positions
                 PROVE  e(g)[i] \in Field /\ e(g)[i] = e("python")[i]
      OBVIOUS
    <2>1. CASE i < 4
      <3>1. i + 1 \in 1 .. 4
        BY <2>1, Places
      <3> QED BY <1>4, <1>5, <2>1, <3>1, Gates
    <2>2. CASE ~(i < 4)
      <3>1. i - 3 \in 1 .. 4
        BY <2>2, Places
      <3> QED BY <1>4, <1>5, <2>2, <3>1, Gates
    <2> QED BY <2>1, <2>2
  <1>7. e(g) \in State /\ e(g) = e("python")
    BY <1>6 DEF State
  <1> QED BY <1>1, <1>7

LEMMA SboxOK ==
    ASSUME NEW g \in Engines, NEW v \in Field
    PROVE  Sbox(g, v) \in Field /\ Sbox(g, v) = Sbox("python", v)
  <1> DEFINE v2(h) == Mul(h, v, v)
             v4(h) == Mul(h, v2(h), v2(h))
             v6(h) == Mul(h, v4(h), v2(h))
  <1>1. SboxMuls = 4
    BY DEF SboxMuls, SboxProducts
  <1>2. \A h : Sbox(h, v) = Mul(h, v6(h), v)
    BY <1>1 DEF Sbox, SboxProducts
  <1>3. v2(g) \in Field /\ v2(g) = v2("python")
    BY Gates
  <1> HIDE DEF v2
  <1>4. v4(g) \in Field /\ v4(g) = v4("python")
    BY <1>3, Gates
  <1> HIDE DEF v4
  <1>5. v6(g) \in Field /\ v6(g) = v6("python")
    BY <1>3, <1>4, Gates
  <1> HIDE DEF v6
  <1> QED BY <1>2, <1>5, Gates

LEMMA SumUpOK ==
    ASSUME NEW g \in Engines, NEW v \in State
    PROVE  SumUp(g, v) \in Field /\ SumUp(g, v) = SumUp("python", v)
  <1>1. \A i \in Positions : v[i] \in Field
    BY DEF State
  <1> DEFINE s1(h) == Add(h, v[0], v[1])
             s2(h) == Add(h, s1(h), v[2])
             s3(h) == Add(h, s2(h), v[3])
             s4(h) == Add(h, s3(h), v[4])
             s5(h) == Add(h, s4(h), v[5])
             s6(h) == Add(h, s5(h), v[6])
             s7(h) == Add(h, s6(h), v[7])
  <1>2. \A h : SumUp(h, v) = s7(h)
    BY DEF SumUp
  <1>3. s1(g) \in Field /\ s1(g) = s1("python")
    BY <1>1, Places, Gates
  <1> HIDE DEF s1
  <1>4. s2(g) \in Field /\ s2(g) = s2("python")
    BY <1>1, <1>3, Places, Gates
  <1> HIDE DEF s2
  <1>5. s3(g) \in Field /\ s3(g) = s3("python")
    BY <1>1, <1>4, Places, Gates
  <1> HIDE DEF s3
  <1>6. s4(g) \in Field /\ s4(g) = s4("python")
    BY <1>1, <1>5, Places, Gates
  <1> HIDE DEF s4
  <1>7. s5(g) \in Field /\ s5(g) = s5("python")
    BY <1>1, <1>6, Places, Gates
  <1> HIDE DEF s5
  <1>8. s6(g) \in Field /\ s6(g) = s6("python")
    BY <1>1, <1>7, Places, Gates
  <1> HIDE DEF s6
  <1>9. s7(g) \in Field /\ s7(g) = s7("python")
    BY <1>1, <1>8, Places, Gates
  <1> HIDE DEF s7
  <1> QED BY <1>2, <1>9

LEMMA FullRoundOK ==
    ASSUME NEW g \in Engines, NEW v \in State, NEW r \in 1 .. Rounds
    PROVE  FullRound(g, v, r) \in State /\ FullRound(g, v, r) = FullRound("python", v, r)
  <1> DEFINE w(h) == [i \in Positions |-> Sbox(h, Add(h, v[i], RC8[r][i]))]
  <1>1. \A i \in Positions : v[i] \in Field /\ RC8[r][i] \in Field
    BY TablesAssumption DEF State
  <1>2. \A i \in Positions : w(g)[i] \in Field /\ w(g)[i] = w("python")[i]
    <2> SUFFICES ASSUME NEW i \in Positions
                 PROVE  w(g)[i] \in Field /\ w(g)[i] = w("python")[i]
      OBVIOUS
    <2> DEFINE a(h) == Add(h, v[i], RC8[r][i])
    <2>1. a(g) \in Field /\ a(g) = a("python")
      BY <1>1, Gates
    <2>2. \A h : w(h)[i] = Sbox(h, a(h))
      OBVIOUS
    <2> HIDE DEF a, w
    <2> QED BY <2>1, <2>2, SboxOK
  <1>3. w(g) \in State /\ w(g) = w("python")
    BY <1>2 DEF State
  <1>4. \A h : FullRound(h, v, r) = Ext(h, w(h))
    BY DEF FullRound
  <1> HIDE DEF w
  <1> QED BY <1>3, <1>4, ExtOK

LEMMA PartialRoundOK ==
    ASSUME NEW g \in Engines, NEW v \in State, NEW r \in 1 .. Rounds
    PROVE  PartialRound(g, v, r) \in State
           /\ PartialRound(g, v, r) = PartialRound("python", v, r)
  <1> DEFINE a(h) == Add(h, v[0], RC8[r][0])
             w(h) == [v EXCEPT ![0] = Sbox(h, a(h))]
             s(h) == SumUp(h, w(h))
             o(h) == [i \in Positions |-> Add(h, Mul(h, w(h)[i], MAT_DIAG8_M_1[i]), s(h))]
  <1>1. /\ \A i \in Positions : v[i] \in Field
        /\ \A i \in Positions : MAT_DIAG8_M_1[i] \in Field
        /\ \A i \in Positions : RC8[r][i] \in Field
    BY TablesAssumption DEF State
  <1>2. \A h : PartialRound(h, v, r) = o(h)
    BY DEF PartialRound
  <1>3. a(g) \in Field /\ a(g) = a("python")
    BY <1>1, Places, Gates
  <1> HIDE DEF a
  <1>4. w(g) \in State /\ w(g) = w("python")
    <2>1. Sbox(g, a(g)) \in Field /\ Sbox(g, a(g)) = Sbox("python", a("python"))
      BY <1>3, SboxOK
    <2> QED BY <2>1 DEF State
  <1> HIDE DEF w
  <1>5. s(g) \in Field /\ s(g) = s("python")
    BY <1>4, SumUpOK
  <1> HIDE DEF s
  <1>6. \A i \in Positions : o(g)[i] \in Field /\ o(g)[i] = o("python")[i]
    <2> SUFFICES ASSUME NEW i \in Positions
                 PROVE  o(g)[i] \in Field /\ o(g)[i] = o("python")[i]
      OBVIOUS
    <2> DEFINE m(h) == Mul(h, w(h)[i], MAT_DIAG8_M_1[i])
    <2>1. w(g)[i] \in Field
      BY <1>4 DEF State
    <2>2. m(g) \in Field /\ m(g) = m("python")
      BY <1>1, <1>4, <2>1, Gates
    <2>3. \A h : o(h)[i] = Add(h, m(h), s(h))
      OBVIOUS
    <2> HIDE DEF m, o
    <2> QED BY <1>5, <2>2, <2>3, Gates
  <1>7. o(g) \in State /\ o(g) = o("python")
    BY <1>6 DEF State
  <1> QED BY <1>2, <1>7

LEMMA ChoiceOK ==
    ASSUME NEW g \in Engines, NEW b \in Field, NEW c \in Field, NEW sib \in Field
    PROVE  /\ Chosen(g, b, c, sib) \in Field /\ Chosen(g, b, c, sib) = Chosen("python", b, c, sib)
           /\ Other(g, b, c, sib) \in Field /\ Other(g, b, c, sib) = Other("python", b, c, sib)
           /\ BitCheck(g, b) \in Field /\ BitCheck(g, b) = BitCheck("python", b)
  <1> DEFINE d(h) == Sub(h, sib, c)
             m(h) == Mul(h, b, d(h))
             l(h) == Chosen(h, b, c, sib)
             t(h) == Add(h, c, sib)
             q(h) == Mul(h, b, b)
  <1>1. d(g) \in Field /\ d(g) = d("python")
    BY Gates
  <1>2. t(g) \in Field /\ t(g) = t("python")
    BY Gates
  <1>3. q(g) \in Field /\ q(g) = q("python")
    BY Gates
  <1>4. \A h : BitCheck(h, b) = Sub(h, q(h), b)
    BY DEF BitCheck
  <1>5. \A h : l(h) = Add(h, c, m(h))
    BY DEF Chosen
  <1>6. \A h : Other(h, b, c, sib) = Sub(h, t(h), l(h))
    BY DEF Other
  <1> HIDE DEF d, t, q
  <1>7. m(g) \in Field /\ m(g) = m("python")
    BY <1>1, Gates
  <1> HIDE DEF m
  <1> DEFINE k(h) == Chosen(h, b, c, sib)
  <1>8. k(g) \in Field /\ k(g) = k("python")
    BY <1>5, <1>7, Gates
  <1>9. \A h : Other(h, b, c, sib) = Sub(h, t(h), k(h))
    BY <1>6
  <1> HIDE DEF l, k
  <1>10. /\ Other(g, b, c, sib) \in Field /\ Other(g, b, c, sib) = Other("python", b, c, sib)
         /\ BitCheck(g, b) \in Field /\ BitCheck(g, b) = BitCheck("python", b)
    BY <1>2, <1>3, <1>4, <1>8, <1>9, Gates
  <1> QED BY <1>8, <1>10 DEF k

LEMMA Inputs ==
    /\ \A s \in Digests, n \in Nat : Absorbed(s, Cst(n)) \in State
    /\ \A l, r \in Digests : Joined(l, r) \in State
    /\ \A v \in State : FirstFour(v) \in Digests
  <1>1. 0 \in Field
    BY FieldIs, Shape, SMT
  <1>2. \A n \in Nat : Cst(n) \in Field
    BY Remainders DEF Cst
  <1>3. ASSUME NEW s \in Digests, NEW n \in Nat PROVE Absorbed(s, Cst(n)) \in State
    <2>1. \A i \in Positions : i < 4 => s[i] \in Field
      BY Places DEF Digests
    <2> HIDE DEF Cst
    <2> QED BY <1>1, <1>2, <2>1 DEF Absorbed, State
  <1>4. ASSUME NEW l \in Digests, NEW r \in Digests PROVE Joined(l, r) \in State
    <2>1. \A i \in Positions : (i < 4 => l[i] \in Field) /\ (~(i < 4) => r[i - 4] \in Field)
      BY Places DEF Digests
    <2> QED BY <2>1 DEF Joined, State
  <1>5. ASSUME NEW v \in State PROVE FirstFour(v) \in Digests
    <2>1. \A i \in 0 .. 3 : v[i] \in Field
      BY Places DEF State
    <2> QED BY <2>1 DEF FirstFour, Digests
  <1> QED BY <1>3, <1>4, <1>5

-----------------------------------------------------------------------------
(* The inductive invariant: what context_digest has not read yet is in its buffer. *)
Inv == /\ TypeOK
       /\ EnginesAgree
       /\ IF pc = "context" THEN raw >= 8 /\ off < raw ELSE Len(ctx) = 4
       /\ pc = "node" => level < Depth

LEMMA WitnessOK ==
    ASSUME TypeOK
    PROVE  /\ wit.secret \in Digests /\ Depth \in Nat
           /\ \A n \in 0 .. Depth : n # Depth => /\ n + 1 \in 0 .. Depth
                                                  /\ wit.bits[n + 1] \in Field
                                                  /\ wit.sibs[n + 1] \in Digests
  <1>1. /\ wit.secret \in Digests
        /\ wit.bits \in Seq(Field) /\ wit.sibs \in Seq(Digests) /\ Len(wit.sibs) = Depth
    BY WitnessAssumption DEF TypeOK, Depth
  <1> DEFINE bits == wit.bits
             sibs == wit.sibs
  <1>2. bits \in Seq(Field) /\ sibs \in Seq(Digests) /\ Depth = Len(bits) /\ Len(sibs) = Depth
    BY <1>1 DEF Depth
  <1> HIDE DEF bits, sibs
  <1>3. Depth \in Nat /\ \A n \in 1 .. Depth : bits[n] \in Field /\ sibs[n] \in Digests
    <2>1. Depth \in Nat
      BY <1>2
    <2>2. \A n \in 1 .. Len(bits) : bits[n] \in Field
      BY <1>2
    <2>3. \A n \in 1 .. Len(sibs) : sibs[n] \in Digests
      BY <1>2
    <2> QED BY <1>2, <2>1, <2>2, <2>3
  <1>4. \A n \in 0 .. Depth : n # Depth => n + 1 \in 0 .. Depth /\ n + 1 \in 1 .. Depth
    BY <1>3, SMT
  <1> QED BY <1>1, <1>3, <1>4 DEF bits, sibs

LEMMA EnginesAre ==
    /\ Engines = {"python", "rust"} /\ "python" \in Engines /\ "rust" \in Engines
    /\ \A f, S : f \in [Engines -> S] /\ f["rust"] = f["python"] =>
           \A g \in Engines : f[g] = f["python"] /\ f[g] \in S
  BY DEF Engines

LEMMA PermuteOK ==
    ASSUME NEW which, NEW input \in [Engines -> State], input["rust"] = input["python"],
           Permute(which, input)
    PROVE  /\ pc' = which /\ round' = 0
           /\ x' \in [Engines -> State] /\ x'["rust"] = x'["python"]
           /\ inp' \in [Engines -> State] /\ inp'["rust"] = inp'["python"]
  <1>1. pc' = which /\ round' = 0 /\ inp' = input /\ x' = [g \in Engines |-> Ext(g, input[g])]
    BY DEF Permute
  <1>2. \A g \in Engines : Ext(g, input[g]) \in State /\ Ext(g, input[g]) = Ext("python", input["python"])
    BY EnginesAre, ExtOK
  <1> QED BY <1>1, <1>2, EnginesAre

LEMMA InitInv == Init => Inv
  <1> SUFFICES ASSUME Init PROVE Inv
    OBVIOUS
  <1>1. /\ 0 \in Field /\ 0 \in Nat /\ 0 \in 0 .. Rounds /\ 8 \in Nat /\ 8 >= 8 /\ 0 < 8
    <2>1. Rounds \in Nat
      BY RoundsAssumption, SMT DEF Rounds
    <2> QED BY <2>1, FieldIs, Shape, SMT
  <1>2. /\ [i \in Positions |-> 0] \in State /\ [i \in 0 .. 3 |-> 0] \in Digests
    BY <1>1 DEF State, Digests
  <1>3. /\ x = [g \in Engines |-> [i \in Positions |-> 0]] /\ inp = x
        /\ cur = [g \in Engines |-> [i \in 0 .. 3 |-> 0]] /\ key = cur
        /\ checks = [g \in Engines |-> <<>>]
    BY DEF Init
  <1>4. /\ wit \in Witnesses /\ pc = "context" /\ raw = 8 /\ off = 0 /\ ctx = <<>>
        /\ round = 0 /\ level = 0 /\ muls = 0
    BY DEF Init
  <1>5. ctx \in Seq(Field) /\ Len(ctx) <= 4 /\ <<>> \in Seq(Field)
    BY <1>4, SMT
  <1>6. 0 \in 0 .. Depth
    <2>1. wit.bits \in Seq(Field)
      BY <1>4, WitnessAssumption
    <2>2. Depth \in Nat
      BY <2>1 DEF Depth
    <2> QED BY <2>2, SMT
  <1>7. TypeOK
    BY <1>1, <1>2, <1>3, <1>4, <1>5, <1>6 DEF TypeOK, Running
  <1>8. EnginesAgree
    BY <1>3, EnginesAre DEF EnginesAgree
  <1> QED BY <1>1, <1>4, <1>7, <1>8 DEF Inv

LEMMA DrawOK ==
    ASSUME Inv, NEW w \in CtxWords, Draw(w)
    PROVE  Inv'
  <1>1. /\ pc = "context" /\ Len(ctx) < 4
        /\ off' = off + 1 /\ raw' = raw + Extension(off + 1)
        /\ ctx' = IF w < P THEN Append(ctx, w) ELSE ctx
        /\ UNCHANGED <<wit, pc, round, x, inp, cur, level, checks, key, muls>>
    BY DEF Draw
  <1>2. /\ TypeOK /\ EnginesAgree /\ raw >= 8 /\ off < raw
        /\ raw \in Nat /\ off \in Nat /\ ctx \in Seq(Field)
    BY <1>1 DEF Inv, TypeOK
  <1>3. off' \in Nat /\ raw' \in Nat /\ raw' >= 8 /\ off' < raw'
    BY <1>1, <1>2, SMT DEF Extension
  <1>4. ctx' \in Seq(Field) /\ Len(ctx') <= 4
    <2>1. w \in Nat
      <3>1. w \in 0 .. Word - 1 /\ Word \in Nat
        BY ContextAssumption, Shape DEF Words
      <3> QED BY <3>1, SMT
    <2>2. CASE w < P
      <3>1. w \in Field
        BY <2>1, <2>2, FieldIs
      <3>2. Append(ctx, w) \in Seq(Field) /\ Len(Append(ctx, w)) = Len(ctx) + 1 /\ Len(ctx) \in Nat
        BY <1>2, <3>1
      <3> DEFINE l == Len(ctx)
      <3>3. l + 1 <= 4
        <4>1. l \in Nat /\ l < 4
          BY <1>1, <3>2
        <4> HIDE DEF l
        <4> QED BY <4>1, SMT
      <3> QED BY <1>1, <2>2, <3>2, <3>3
    <2>3. CASE ~(w < P)
      BY <1>1, <1>2, <2>3 DEF TypeOK
    <2> QED BY <2>2, <2>3
  <1>5. TypeOK'
    BY <1>1, <1>2, <1>3, <1>4 DEF TypeOK, Depth
  <1>6. EnginesAgree'
    BY <1>1, <1>2 DEF EnginesAgree
  <1> QED BY <1>1, <1>3, <1>5, <1>6 DEF Inv

(* What a new permutation leaves of the invariant to show. *)
LEMMA PermutingOK ==
    ASSUME Inv, NEW which \in Running, NEW input \in [Engines -> State],
           input["rust"] = input["python"], Permute(which, input),
           UNCHANGED <<wit, ctx, cur, level, checks, key>>, Len(ctx) = 4,
           raw' \in Nat, off' \in Nat, muls' \in Nat, which = "node" => level < Depth
    PROVE  Inv'
  <1>1. /\ pc' = which /\ round' = 0
        /\ x' \in [Engines -> State] /\ x'["rust"] = x'["python"]
        /\ inp' \in [Engines -> State] /\ inp'["rust"] = inp'["python"]
    BY PermuteOK
  <1>2. 0 \in 0 .. Rounds
    <2>1. Rounds \in Nat
      BY RoundsAssumption, SMT DEF Rounds
    <2> QED BY <2>1, SMT
  <1>3. TypeOK'
    BY <1>1, <1>2 DEF Inv, TypeOK, Depth
  <1>4. EnginesAgree'
    BY <1>1 DEF Inv, EnginesAgree
  <1>5. pc' # "context"
    BY <1>1 DEF Running
  <1>6. pc' = "node" => level' < Depth'
    BY <1>1 DEF Depth
  <1> QED BY <1>3, <1>4, <1>5, <1>6 DEF Inv

LEMMA StartLeafOK == ASSUME Inv, StartLeaf PROVE Inv'
  <1> DEFINE input == [g \in Engines |-> Absorbed(wit.secret, Cst(TAG_LEAF))]
  <1>1. /\ Permute("leaf", input)
        /\ Len(ctx) = 4 /\ raw' = 0 /\ off' = 0
        /\ UNCHANGED <<wit, ctx, cur, level, checks, key, muls>>
    BY DEF StartLeaf
  <1>2. Absorbed(wit.secret, Cst(TAG_LEAF)) \in State
    <2>1. wit.secret \in Digests
      BY WitnessOK DEF Inv
    <2> QED BY <2>1, Inputs, TagsAssumption
  <1>3. input \in [Engines -> State] /\ input["rust"] = input["python"]
    BY <1>2, EnginesAre
  <1>4. raw' \in Nat /\ off' \in Nat /\ muls' \in Nat
    <2>1. 0 \in Nat
      BY SMT
    <2> QED BY <1>1, <2>1 DEF Inv, TypeOK
  <1>5. "leaf" \in Running
    BY DEF Running
  <1> HIDE DEF input
  <1> QED BY <1>1, <1>3, <1>4, <1>5, PermutingOK

LEMMA StartKeyOK == ASSUME Inv, StartKey PROVE Inv'
  <1> DEFINE input == [g \in Engines |-> Absorbed(wit.secret, Cst(TAG_KEY))]
  <1>1. /\ pc = "climb" /\ Permute("key", input)
        /\ UNCHANGED <<wit, raw, off, ctx, cur, level, checks, key, muls>>
    BY DEF StartKey
  <1>6. Len(ctx) = 4
    BY <1>1 DEF Inv
  <1>2. Absorbed(wit.secret, Cst(TAG_KEY)) \in State
    <2>1. wit.secret \in Digests
      BY WitnessOK DEF Inv
    <2> QED BY <2>1, Inputs, TagsAssumption
  <1>3. input \in [Engines -> State] /\ input["rust"] = input["python"]
    BY <1>2, EnginesAre
  <1>4. raw' \in Nat /\ off' \in Nat /\ muls' \in Nat
    BY <1>1 DEF Inv, TypeOK
  <1>5. "key" \in Running
    BY DEF Running
  <1> HIDE DEF input
  <1> QED BY <1>1, <1>3, <1>4, <1>5, <1>6, PermutingOK

LEMMA StartNodeOK == ASSUME Inv, StartNode PROVE Inv'
  <1> DEFINE b == wit.bits[level + 1]
             sib == wit.sibs[level + 1]
             left(g) == [i \in 0 .. 3 |-> Chosen(g, b, cur[g][i], sib[i])]
             right(g) == [i \in 0 .. 3 |-> Other(g, b, cur[g][i], sib[i])]
             input == [g \in Engines |-> Joined(left(g), right(g))]
  <1>1. /\ pc = "climb" /\ level < Depth /\ Permute("node", input) /\ muls' = muls + 4
        /\ UNCHANGED <<wit, raw, off, ctx, cur, level, checks, key>>
    BY DEF StartNode
  <1>2. b \in Field /\ sib \in Digests
    <2>1. level \in 0 .. Depth /\ Depth \in Nat
      BY WitnessOK DEF Inv, TypeOK
    <2>2. level # Depth
      BY <1>1, <2>1, SMT
    <2> QED BY <2>1, <2>2, WitnessOK DEF Inv
  <1> HIDE DEF b, sib
  <1>3. \A g \in Engines : cur[g] = cur["python"] /\ cur[g] \in Digests
    BY EnginesAre DEF Inv, TypeOK, EnginesAgree
  <1>4. ASSUME NEW g \in Engines
        PROVE  /\ left(g) = left("python") /\ left(g) \in Digests
               /\ right(g) = right("python") /\ right(g) \in Digests
    <2>1. cur[g] = cur["python"] /\ \A i \in 0 .. 3 : cur[g][i] \in Field /\ sib[i] \in Field
      BY <1>2, <1>3 DEF Digests
    <2>2. \A i \in 0 .. 3 :
              /\ Chosen(g, b, cur[g][i], sib[i]) \in Field
              /\ Chosen(g, b, cur[g][i], sib[i]) = Chosen("python", b, cur["python"][i], sib[i])
              /\ Other(g, b, cur[g][i], sib[i]) \in Field
              /\ Other(g, b, cur[g][i], sib[i]) = Other("python", b, cur["python"][i], sib[i])
      BY <1>2, <2>1, ChoiceOK
    <2> QED BY <2>2 DEF Digests
  <1>5. input \in [Engines -> State] /\ input["rust"] = input["python"]
    <2> HIDE DEF left, right
    <2>1. \A g \in Engines : Joined(left(g), right(g)) \in State
      BY <1>4, Inputs
    <2>2. Joined(left("rust"), right("rust")) = Joined(left("python"), right("python"))
      BY <1>4, EnginesAre
    <2> QED BY <2>1, <2>2, EnginesAre
  <1>6. raw' \in Nat /\ off' \in Nat /\ muls' \in Nat
    <2>1. muls + 4 \in Nat
      BY SMT DEF Inv, TypeOK
    <2> QED BY <1>1, <2>1 DEF Inv, TypeOK
  <1>7. "node" \in Running /\ Len(ctx) = 4
    BY <1>1 DEF Running, Inv
  <1> HIDE DEF input
  <1> QED BY <1>1, <1>5, <1>6, <1>7, PermutingOK

LEMMA StartMixOK == ASSUME Inv, StartMix PROVE Inv'
  <1> DEFINE mixed(g) == [i \in Positions |-> IF i < 4 THEN Add(g, x[g][i], ctx[i + 1])
                                                       ELSE x[g][i]]
             input == [g \in Engines |-> mixed(g)]
  <1>1. /\ pc = "key" /\ Permute("mix", input)
        /\ UNCHANGED <<wit, raw, off, ctx, cur, level, checks, key, muls>>
    BY DEF StartMix
  <1>2. Len(ctx) = 4 /\ \A i \in 1 .. 4 : ctx[i] \in Field
    <2>1. Len(ctx) = 4 /\ ctx \in Seq(Field)
      BY <1>1 DEF Inv, TypeOK
    <2>2. \A i \in 1 .. Len(ctx) : ctx[i] \in Field
      BY <2>1
    <2> QED BY <2>1, <2>2
  <1>3. ASSUME NEW g \in Engines
        PROVE  mixed(g) \in State /\ mixed(g) = mixed("python")
    <2>1. x[g] = x["python"] /\ x[g] \in State
      BY EnginesAre DEF Inv, TypeOK, EnginesAgree
    <2>2. \A i \in Positions : x[g][i] \in Field
      BY <2>1 DEF State
    <2>3. \A i \in Positions : i < 4 =>
              /\ Add(g, x[g][i], ctx[i + 1]) \in Field
              /\ Add(g, x[g][i], ctx[i + 1]) = Add("python", x["python"][i], ctx[i + 1])
      BY <1>2, <2>1, <2>2, Places, Gates
    <2> QED BY <2>1, <2>2, <2>3 DEF State
  <1>4. input \in [Engines -> State] /\ input["rust"] = input["python"]
    <2> HIDE DEF mixed
    <2> QED BY <1>3, EnginesAre
  <1>5. raw' \in Nat /\ off' \in Nat /\ muls' \in Nat
    BY <1>1 DEF Inv, TypeOK
  <1>6. "mix" \in Running
    BY DEF Running
  <1> HIDE DEF input
  <1> QED BY <1>1, <1>2, <1>4, <1>5, <1>6, PermutingOK

(* One round, full or partial. *)
LEMMA RoundOK ==
    ASSUME Inv, Full \/ Partial
    PROVE  Inv'
  <1>1. /\ pc \in Running /\ round < Rounds /\ round' = round + 1
        /\ UNCHANGED <<wit, pc, raw, off, ctx, inp, cur, level, checks, key>>
    BY DEF Full, Partial
  <1>2. TypeOK /\ EnginesAgree /\ pc # "context" /\ Len(ctx) = 4
    BY <1>1 DEF Inv, Running
  <1>3. round + 1 \in 1 .. Rounds /\ round' \in 0 .. Rounds
    <2>1. Rounds \in Nat
      BY RoundsAssumption, SMT DEF Rounds
    <2> QED BY <1>1, <1>2, <2>1, SMT DEF TypeOK
  <1>4. \A g \in Engines : x[g] = x["python"] /\ x[g] \in State
    BY <1>2, EnginesAre DEF TypeOK, EnginesAgree
  <1>5. x' \in [Engines -> State] /\ x'["rust"] = x'["python"]
    <2>1. CASE Full
      <3>1. x' = [g \in Engines |-> FullRound(g, x[g], round + 1)]
        BY <2>1 DEF Full
      <3>2. \A g \in Engines : /\ FullRound(g, x[g], round + 1) \in State
                               /\ FullRound(g, x[g], round + 1) = FullRound("python", x["python"], round + 1)
        BY <1>3, <1>4, FullRoundOK
      <3> QED BY <3>1, <3>2, EnginesAre
    <2>2. CASE Partial
      <3>1. x' = [g \in Engines |-> PartialRound(g, x[g], round + 1)]
        BY <2>2 DEF Partial
      <3>2. \A g \in Engines : /\ PartialRound(g, x[g], round + 1) \in State
                               /\ PartialRound(g, x[g], round + 1) = PartialRound("python", x["python"], round + 1)
        BY <1>3, <1>4, PartialRoundOK
      <3> QED BY <3>1, <3>2, EnginesAre
    <2> QED BY <2>1, <2>2
  <1>6. muls' \in Nat
    <2>1. SboxMuls = 4
      BY DEF SboxMuls, SboxProducts
    <2>2. muls' = muls + 8 * 4 \/ muls' = muls + 4
      BY <2>1 DEF Full, Partial
    <2> QED BY <1>2, <2>2, SMT DEF TypeOK
  <1>7. TypeOK'
    BY <1>1, <1>2, <1>3, <1>5, <1>6 DEF TypeOK, Depth
  <1>8. EnginesAgree'
    BY <1>1, <1>2, <1>5 DEF EnginesAgree
  <1> QED BY <1>1, <1>2, <1>7, <1>8 DEF Inv, Depth

LEMMA EndLeafOK == ASSUME Inv, EndLeaf PROVE Inv'
  <1>1. /\ pc = "leaf" /\ cur' = [g \in Engines |-> FirstFour(x[g])] /\ pc' = "climb"
        /\ UNCHANGED <<wit, raw, off, ctx, round, x, inp, level, checks, key, muls>>
    BY DEF EndLeaf
  <1>2. TypeOK /\ EnginesAgree /\ Len(ctx) = 4
    BY <1>1 DEF Inv
  <1>3. \A g \in Engines : x[g] = x["python"] /\ x[g] \in State
    BY <1>2, EnginesAre DEF TypeOK, EnginesAgree
  <1>4. cur' \in [Engines -> Digests] /\ cur'["rust"] = cur'["python"]
    BY <1>1, <1>3, EnginesAre, Inputs
  <1>5. TypeOK' /\ EnginesAgree'
    BY <1>1, <1>2, <1>4 DEF TypeOK, EnginesAgree, Depth
  <1> QED BY <1>1, <1>2, <1>5 DEF Inv

LEMMA OutputOK == ASSUME Inv, Output PROVE Inv'
  <1>1. /\ pc = "mix" /\ key' = [g \in Engines |-> FirstFour(x[g])] /\ pc' = "done"
        /\ UNCHANGED <<wit, raw, off, ctx, round, x, inp, cur, level, checks, muls>>
    BY DEF Output
  <1>2. TypeOK /\ EnginesAgree /\ Len(ctx) = 4
    BY <1>1 DEF Inv
  <1>3. \A g \in Engines : x[g] = x["python"] /\ x[g] \in State
    BY <1>2, EnginesAre DEF TypeOK, EnginesAgree
  <1>4. key' \in [Engines -> Digests] /\ key'["rust"] = key'["python"]
    BY <1>1, <1>3, EnginesAre, Inputs
  <1>5. TypeOK' /\ EnginesAgree'
    BY <1>1, <1>2, <1>4 DEF TypeOK, EnginesAgree, Depth
  <1> QED BY <1>1, <1>2, <1>5 DEF Inv

LEMMA EndNodeOK == ASSUME Inv, EndNode PROVE Inv'
  <1> DEFINE b == wit.bits[level + 1]
             fed(g) == [i \in 0 .. 3 |-> Add(g, x[g][i], inp[g][i])]
  <1>1. /\ pc = "node" /\ cur' = [g \in Engines |-> fed(g)]
        /\ checks' = [g \in Engines |-> Append(checks[g], BitCheck(g, b))]
        /\ muls' = muls + 1 /\ level' = level + 1 /\ pc' = "climb"
        /\ UNCHANGED <<wit, raw, off, ctx, round, x, inp, key>>
    BY DEF EndNode
  <1>2. TypeOK /\ EnginesAgree /\ Len(ctx) = 4 /\ level < Depth
    BY <1>1 DEF Inv
  <1>3. b \in Field /\ level' \in 0 .. Depth
    <2>1. level \in 0 .. Depth /\ Depth \in Nat
      BY <1>2, WitnessOK DEF TypeOK
    <2>2. level # Depth
      BY <1>2, <2>1, SMT
    <2> QED BY <1>1, <1>2, <2>1, <2>2, WitnessOK
  <1> HIDE DEF b
  <1>4. \A g \in Engines : /\ x[g] = x["python"] /\ x[g] \in State
                           /\ inp[g] = inp["python"] /\ inp[g] \in State
                           /\ checks[g] = checks["python"] /\ checks[g] \in Seq(Field)
    BY <1>2, EnginesAre DEF TypeOK, EnginesAgree
  <1>5. ASSUME NEW g \in Engines
        PROVE  fed(g) \in Digests /\ fed(g) = fed("python")
    <2>1. \A i \in 0 .. 3 : x[g][i] \in Field /\ inp[g][i] \in Field
      BY <1>4, Places DEF State
    <2>2. \A i \in 0 .. 3 : /\ Add(g, x[g][i], inp[g][i]) \in Field
                            /\ Add(g, x[g][i], inp[g][i]) = Add("python", x["python"][i], inp["python"][i])
      BY <1>4, <2>1, Gates
    <2> QED BY <2>2 DEF Digests
  <1>6. cur' \in [Engines -> Digests] /\ cur'["rust"] = cur'["python"]
    <2> HIDE DEF fed
    <2> QED BY <1>1, <1>5, EnginesAre
  <1>7. checks' \in [Engines -> Seq(Field)] /\ checks'["rust"] = checks'["python"]
    <2>1. ASSUME NEW g \in Engines
          PROVE  /\ Append(checks[g], BitCheck(g, b)) \in Seq(Field)
                 /\ Append(checks[g], BitCheck(g, b)) = Append(checks["python"], BitCheck("python", b))
      <3>1. BitCheck(g, b) \in Field /\ BitCheck(g, b) = BitCheck("python", b)
        BY <1>3, ChoiceOK
      <3> QED BY <1>4, <3>1
    <2> QED BY <1>1, <2>1, EnginesAre
  <1>8. muls' \in Nat
    BY <1>1, <1>2, SMT DEF TypeOK
  <1>9. TypeOK' /\ EnginesAgree'
    BY <1>1, <1>2, <1>3, <1>6, <1>7, <1>8 DEF TypeOK, EnginesAgree, Depth
  <1> QED BY <1>1, <1>2, <1>9 DEF Inv

LEMMA NextInv == Inv /\ [Next]_vars => Inv'
  <1> SUFFICES ASSUME Inv, [Next]_vars PROVE Inv'
    OBVIOUS
  <1>1. CASE \E w \in CtxWords : Draw(w)
    BY <1>1, DrawOK
  <1>2. CASE StartLeaf
    BY <1>2, StartLeafOK
  <1>3. CASE Full \/ Partial
    BY <1>3, RoundOK
  <1>4. CASE EndLeaf
    BY <1>4, EndLeafOK
  <1>5. CASE StartNode
    BY <1>5, StartNodeOK
  <1>6. CASE EndNode
    BY <1>6, EndNodeOK
  <1>7. CASE StartKey
    BY <1>7, StartKeyOK
  <1>8. CASE StartMix
    BY <1>8, StartMixOK
  <1>9. CASE Output
    BY <1>9, OutputOK
  <1>10. CASE UNCHANGED vars
    BY <1>10 DEF vars, Inv, TypeOK, EnginesAgree, Depth
  <1> QED BY <1>1, <1>2, <1>3, <1>4, <1>5, <1>6, <1>7, <1>8, <1>9, <1>10 DEF Next

(* The inductive invariant, for every word size, every number of rounds and all tables. *)
THEOREM CircuitInvariant == Spec => []Inv
  BY InitInv, NextInv, PTL DEF Spec

(* Every element either implementation computes is canonical. *)
THEOREM CircuitTypes == Spec => []TypeOK
  <1>1. Inv => TypeOK
    BY DEF Inv
  <1> QED BY <1>1, CircuitInvariant, PTL

(* The engine of circuit.rs over field.rs and the engine of core.py hold the same
   elements after every step. *)
THEOREM EnginesAlwaysAgree == Spec => []EnginesAgree
  <1>1. Inv => EnginesAgree
    BY DEF Inv
  <1> QED BY <1>1, CircuitInvariant, PTL

(* context_digest never reads past its buffer, however many words it has to reject. *)
THEOREM BufferAlwaysLongEnough == Spec => []BufferIsLongEnough
  <1>1. Inv => BufferIsLongEnough
    BY DEF Inv, BufferIsLongEnough
  <1> QED BY <1>1, CircuitInvariant, PTL

-----------------------------------------------------------------------------
(* The products of the rounds done of one permutation, with the rounds of the code. *)
DoneIn(r) == IF r <= 4 THEN 32 * r ELSE IF r <= 26 THEN 112 + 4 * r ELSE 32 * r - 616

(* 344 products per permutation, and 5 more per level. *)
Counted ==
    /\ pc = "context" => muls = 0
    /\ pc = "leaf" => muls = DoneIn(round)
    /\ pc = "climb" => muls = 344 + 349 * level
    /\ pc = "node" => muls = 348 + 349 * level + DoneIn(round)
    /\ pc = "key" => muls = 344 + 349 * level + DoneIn(round)
    /\ pc = "mix" => muls = 688 + 349 * level + DoneIn(round)
    /\ pc = "done" => muls = 1032 + 349 * level
    /\ level = 0 \/ pc \notin {"context", "leaf"}
    /\ pc \in {"key", "mix", "done"} => level = Depth

LEMMA CountedInit == Init => Counted
  BY SMT DEF Init, Counted

LEMMA CountedNext ==
    ASSUME RF_HALF = 4, RP = 22, Inv, Counted, [Next]_vars
    PROVE  Counted'
  <1>1. /\ Rounds = 30 /\ SboxMuls = 4
        /\ \A r \in Int : IsPartial(r) <=> (4 < r /\ r <= 26)
    <2>1. SboxMuls = 4
      BY DEF SboxMuls, SboxProducts
    <2> QED BY <2>1, SMT DEF Rounds, IsPartial
  <1>2. round \in Nat /\ level \in Nat /\ Depth \in Nat /\ muls \in Nat
    <2>1. Depth \in Nat /\ TypeOK
      BY WitnessOK DEF Inv
    <2> QED BY <1>1, <2>1, SMT DEF TypeOK
  <1>3. CASE \E w \in CtxWords : Draw(w)
    BY <1>3, SMT DEF Draw, Counted, DoneIn, Depth
  <1>4. CASE StartLeaf
    BY <1>2, <1>4, SMT DEF StartLeaf, Permute, Counted, Running, DoneIn
  <1>5. CASE Full
    BY <1>1, <1>2, <1>5, SMT DEF Full, Counted, Running, DoneIn, Depth
  <1>6. CASE Partial
    BY <1>1, <1>2, <1>6, SMT DEF Partial, Counted, Running, DoneIn, Depth
  <1>7. CASE EndLeaf
    BY <1>1, <1>2, <1>7, SMT DEF EndLeaf, Counted, Running, DoneIn, Depth
  <1>8. CASE StartNode
    BY <1>1, <1>2, <1>8, SMT DEF StartNode, Permute, Counted, Running, DoneIn, Depth
  <1>9. CASE EndNode
    BY <1>1, <1>2, <1>9, SMT DEF EndNode, Counted, Running, DoneIn, Depth
  <1>10. CASE StartKey
    BY <1>1, <1>2, <1>10, SMT DEF StartKey, Permute, Counted, Running, DoneIn, Depth
  <1>11. CASE StartMix
    BY <1>1, <1>2, <1>11, SMT DEF StartMix, Permute, Counted, Running, DoneIn, Depth
  <1>12. CASE Output
    BY <1>1, <1>2, <1>12, SMT DEF Output, Counted, Running, DoneIn, Depth
  <1>13. CASE UNCHANGED vars
    BY <1>13 DEF vars, Counted, Running, DoneIn, Depth
  <1> QED BY <1>3, <1>4, <1>5, <1>6, <1>7, <1>8, <1>9, <1>10, <1>11, <1>12, <1>13 DEF Next

(* With the rounds of the code, num_muls is the number of multiplications of the circuit,
   at every depth: tapes and views have one element for each. *)
THEOREM EveryProductIsCounted ==
    (RF_HALF = 4 /\ RP = 22) => (Spec => []ProductsAreCounted)
  <1> SUFFICES ASSUME RF_HALF = 4, RP = 22
               PROVE  Spec => []ProductsAreCounted
    OBVIOUS
  <1>1. Inv /\ Counted /\ [Next]_vars => Counted'
    BY CountedNext
  <1>2. Inv /\ Counted => ProductsAreCounted
    <2> SUFFICES ASSUME Inv, Counted, pc = "done" PROVE muls = num_muls(Depth)
      BY DEF ProductsAreCounted
    <2>1. Depth \in Nat
      BY WitnessOK DEF Inv
    <2>2. muls = 1032 + 349 * Depth
      BY DEF Counted
    <2> QED BY <2>1, <2>2, SMT DEF num_muls
  <1> QED BY <1>1, <1>2, CountedInit, CircuitInvariant, PTL DEF Spec

-----------------------------------------------------------------------------
(* The circuit computes what the native functions compute.  A recursive function is known
   by the steps that lead to its value: the invariant says that there is a sequence of
   states so far, and when it is complete there is only one function it can be. *)

(* Sums and products may be reduced early or late. *)
LEMMA Divides ==
    ASSUME NEW n \in Int
    PROVE  n \div P \in Int /\ n % P \in Int /\ n = (n \div P) * P + (n % P) /\ 0 <= n % P /\ n % P < P
  <1>1. P \in Nat /\ P >= 3
    BY Shape
  <1> DEFINE p == P
  <1>2. p \in Nat /\ p >= 3
    BY <1>1
  <1> HIDE DEF p
  <1>3. n \div p \in Int /\ n % p \in Int /\ n = (n \div p) * p + (n % p) /\ 0 <= n % p /\ n % p < p
    BY <1>2, SMT
  <1> QED BY <1>3 DEF p

LEMMA Residue ==
    ASSUME NEW q \in Int, NEW r \in Int, 0 <= r, r < P, NEW n \in Int, n = q * P + r
    PROVE  n % P = r
  <1>1. P \in Nat /\ P >= 1
    BY Shape
  <1> QED BY <1>1, ModUnique

LEMMA LateSum ==
    ASSUME NEW a \in Int, NEW b \in Int
    PROVE  ((a % P) + b) % P = (a + b) % P
  <1> DEFINE q == a \div P
             r == a % P
             c == r + b
             k == c \div P
             s == c % P
  <1>1. q \in Int /\ r \in Int /\ a = q * P + r
    BY Divides
  <1> HIDE DEF q, r
  <1>2. c \in Int
    BY <1>1
  <1>3. k \in Int /\ s \in Int /\ c = k * P + s /\ 0 <= s /\ s < P
    <2> HIDE DEF c
    <2> QED BY <1>2, Divides
  <1> HIDE DEF k, s
  <1>4. a + b = (q + k) * P + s /\ a + b \in Int /\ q + k \in Int
    <2> DEFINE p == P
    <2>1. p \in Int
      BY Shape
    <2>2. a = q * p + r /\ r + b = k * p + s
      BY <1>1, <1>3
    <2> HIDE DEF p
    <2>3. a + b = (q + k) * p + s
      <3>1. (q + k) * p = q * p + k * p /\ q * p \in Int /\ k * p \in Int
        BY <1>1, <1>3, <2>1, SMT
      <3> QED BY <1>1, <1>3, <2>2, <3>1, SMT
    <2> QED BY <1>1, <1>3, <2>3 DEF p
  <1>5. (a + b) % P = s
    <2> DEFINE n == a + b
               m == q + k
    <2>1. n \in Int /\ m \in Int /\ n = m * P + s
      BY <1>4
    <2> HIDE DEF n, m
    <2>2. n % P = s
      BY <1>3, <2>1, Residue
    <2> QED BY <2>2 DEF n
  <1> QED BY <1>5 DEF s, c, r

LEMMA LateProduct ==
    ASSUME NEW a \in Int, NEW b \in Int
    PROVE  ((a % P) * b) % P = (a * b) % P
  <1> DEFINE q == a \div P
             r == a % P
             c == r * b
             k == c \div P
             s == c % P
  <1>1. q \in Int /\ r \in Int /\ a = q * P + r
    BY Divides
  <1> HIDE DEF q, r
  <1>2. c \in Int
    BY <1>1
  <1>3. k \in Int /\ s \in Int /\ c = k * P + s /\ 0 <= s /\ s < P
    <2> HIDE DEF c
    <2> QED BY <1>2, Divides
  <1> HIDE DEF k, s
  <1>4. a * b = (q * b + k) * P + s /\ a * b \in Int /\ q * b + k \in Int
    <2> DEFINE p == P
    <2>1. p \in Int
      BY Shape
    <2>2. a = q * p + r /\ r * b = k * p + s
      BY <1>1, <1>3
    <2> HIDE DEF p
    <2>3. a * b = (q * b + k) * p + s
      <3>1. (q * b + k) * p = (q * b) * p + k * p /\ (q * b) * p = (q * p) * b
            /\ q * p \in Int /\ k * p \in Int /\ (q * p) * b \in Int /\ r * b \in Int
        BY <1>1, <1>3, <2>1, SMT
      <3>2. a * b = (q * p) * b + r * b
        BY <1>1, <2>1, <2>2, SMT
      <3> QED BY <1>1, <1>3, <2>2, <3>1, <3>2, SMT
    <2> QED BY <1>1, <1>3, <2>3 DEF p
  <1>5. (a * b) % P = s
    <2> DEFINE n == a * b
               m == q * b + k
    <2>1. n \in Int /\ m \in Int /\ n = m * P + s
      BY <1>4
    <2> HIDE DEF n, m
    <2>2. n % P = s
      BY <1>3, <2>1, Residue
    <2> QED BY <2>2 DEF n
  <1> QED BY <1>5 DEF s, c, r

LEMMA Canonical ==
    ASSUME NEW a \in Field
    PROVE  a % P = a /\ a \in Int /\ a \in Nat /\ a < P
  <1>1. P \in Nat /\ P >= 1
    BY Shape
  <1>2. a \in Nat /\ a < P
    BY FieldIs
  <1> QED BY <1>1, <1>2, Small

LEMMA Residues ==
    ASSUME NEW a \in Int, NEW b \in Int
    PROVE  ((a % P) + (b % P)) % P = (a + b) % P
  <1>1. a % P \in Int /\ b % P \in Int
    BY Divides
  <1>2. ((a % P) + (b % P)) % P = (a + (b % P)) % P
    BY <1>1, LateSum
  <1>3. ((b % P) + a) % P = (b + a) % P
    BY LateSum
  <1>4. (b % P) + a = a + (b % P) /\ b + a = a + b
    <2> DEFINE r == b % P
    <2> HIDE DEF r
    <2>1. r \in Int
      BY <1>1 DEF r
    <2>2. r + a = a + r /\ b + a = a + b
      BY <2>1, SMT
    <2> QED BY <2>2 DEF r
  <1> QED BY <1>2, <1>3, <1>4

(* The gates, on elements given before they are reduced. *)
LEMMA EarlyGates ==
    ASSUME NEW a \in Int, NEW b \in Int
    PROVE  /\ Add("python", a % P, b % P) = (a + b) % P
           /\ Add("python", a % P, b) = (a + b) % P
           /\ Twice("python", a % P) = (2 * a) % P
           /\ Add("python", Twice("python", a % P), Twice("python", a % P)) = (4 * a) % P
  <1>1. \A c, d : Add("python", c, d) = (c + d) % P
    BY DEF Add
  <1>2. \A c : Twice("python", c) = Add("python", c, c)
    BY DEF Twice
  <1>3. a + a = 2 * a /\ 2 * a \in Int /\ 2 * a + 2 * a = 4 * a
    BY SMT
  <1>4. Twice("python", a % P) = (2 * a) % P
    BY <1>1, <1>2, <1>3, Residues
  <1>5. Add("python", (2 * a) % P, (2 * a) % P) = (4 * a) % P
    <2> DEFINE c == 2 * a
    <2>1. c \in Int /\ c + c = 4 * a
      BY <1>3
    <2> HIDE DEF c
    <2>2. ((c % P) + (c % P)) % P = (c + c) % P
      BY <2>1, Residues
    <2>3. Add("python", c % P, c % P) = (4 * a) % P
      BY <1>1, <2>1, <2>2
    <2> QED BY <2>3 DEF c
  <1>6. Add("python", a % P, b % P) = (a + b) % P
    BY <1>1, Residues
  <1>7. Add("python", a % P, b) = (a + b) % P
    BY <1>1, LateSum
  <1> QED BY <1>4, <1>5, <1>6, <1>7

LEMMA M4IsNative ==
    ASSUME NEW x0 \in Int, NEW x1 \in Int, NEW x2 \in Int, NEW x3 \in Int
    PROVE  M4("python", x0 % P, x1 % P, x2 % P, x3 % P) = MatmulM4(x0, x1, x2, x3)
  <1> DEFINE t0 == (x0 + x1) % P
             t1 == (x2 + x3) % P
             t2 == (2 * x1 + t1) % P
             t3 == (2 * x3 + t0) % P
             t4 == (4 * t1 + t3) % P
             t5 == (4 * t0 + t2) % P
  <1>1. MatmulM4(x0, x1, x2, x3) = <<(t3 + t5) % P, t5, (t2 + t4) % P, t4>>
    BY DEF MatmulM4
  <1> DEFINE T(c) == Twice("python", c)
             A(c, d) == Add("python", c, d)
             u0 == A(x0 % P, x1 % P)
             u1 == A(x2 % P, x3 % P)
             u2 == A(T(x1 % P), u1)
             u3 == A(T(x3 % P), u0)
             u4 == A(A(T(u1), T(u1)), u3)
             u5 == A(A(T(u0), T(u0)), u2)
  <1>2. M4("python", x0 % P, x1 % P, x2 % P, x3 % P) = <<A(u3, u5), u5, A(u2, u4), u4>>
    BY DEF M4
  <1>3. u0 = t0 /\ u1 = t1
    BY EarlyGates
  <1>4. t0 \in Field /\ t1 \in Field
    <2>1. x0 + x1 \in Int /\ x2 + x3 \in Int
      BY SMT
    <2> QED BY <2>1, Remainders
  <1> HIDE DEF u0, u1, t0, t1
  <1>5. t0 \in Int /\ t1 \in Int /\ t0 % P = t0 /\ t1 % P = t1
    BY <1>4, Canonical
  <1>6. /\ 2 * x1 \in Int /\ 2 * x3 \in Int /\ 4 * t0 \in Int /\ 4 * t1 \in Int
        /\ 2 * x1 + t1 \in Int /\ 2 * x3 + t0 \in Int
    BY <1>5, SMT
  <1>7. u2 = t2 /\ u3 = t3
    <2>1. T(x1 % P) = (2 * x1) % P /\ T(x3 % P) = (2 * x3) % P
      BY EarlyGates
    <2> QED BY <1>3, <1>5, <1>6, <2>1, EarlyGates
  <1>8. t2 \in Int /\ t3 \in Int
    BY <1>6, Divides
  <1> HIDE DEF u2, u3, t2, t3
  <1>9. A(T(u1), T(u1)) = (4 * t1) % P /\ A(T(u0), T(u0)) = (4 * t0) % P
    BY <1>3, <1>5, EarlyGates
  <1>10. u4 = t4 /\ u5 = t5
    <2>1. u4 = A((4 * t1) % P, t3) /\ u5 = A((4 * t0) % P, t2)
      BY <1>7, <1>9
    <2>2. \A c, d \in Int : A(c % P, d) = (c + d) % P
      BY EarlyGates
    <2>3. A((4 * t1) % P, t3) = (4 * t1 + t3) % P /\ A((4 * t0) % P, t2) = (4 * t0 + t2) % P
      BY <1>6, <1>8, <2>2
    <2> QED BY <2>1, <2>3
  <1> HIDE DEF u4, u5, t4, t5
  <1>11. A(u3, u5) = (t3 + t5) % P /\ A(u2, u4) = (t2 + t4) % P
    BY <1>7, <1>10 DEF Add
  <1> QED BY <1>1, <1>2, <1>10, <1>11

LEMMA ExtIsNative ==
    ASSUME NEW v \in [Positions -> Int]
    PROVE  Ext("python", [i \in Positions |-> v[i] % P]) = MatmulExternal(v)
  <1> DEFINE w == [i \in Positions |-> v[i] % P]
             a == M4("python", w[0], w[1], w[2], w[3])
             b == M4("python", w[4], w[5], w[6], w[7])
  <1>1. a = MatmulM4(v[0], v[1], v[2], v[3]) /\ b = MatmulM4(v[4], v[5], v[6], v[7])
    <2>1. \A i \in Positions : v[i] \in Int /\ w[i] = v[i] % P
      OBVIOUS
    <2> HIDE DEF w
    <2> QED BY <2>1, Places, M4IsNative
  <1> HIDE DEF a, b
  <1> DEFINE s == [l \in 1 .. 4 |-> (a[l] + b[l]) % P]
  <1>2. Ext("python", w) = [i \in Positions |-> IF i < 4 THEN (a[i + 1] + s[i + 1]) % P
                                               ELSE (b[i - 3] + s[i - 3]) % P]
    BY DEF Ext, Add, a, b
  <1>3. MatmulExternal(v) = [i \in Positions |-> IF i < 4 THEN (a[i + 1] + s[i + 1]) % P
                                                 ELSE (b[i - 3] + s[i - 3]) % P]
    BY <1>1 DEF MatmulExternal
  <1> QED BY <1>2, <1>3

LEMMA ExtOfState ==
    ASSUME NEW v \in State
    PROVE  Ext("python", v) = MatmulExternal(v)
  <1>1. \A i \in Positions : v[i] \in Int /\ v[i] % P = v[i]
    BY Canonical DEF State
  <1>2. v \in [Positions -> Int] /\ v = [i \in Positions |-> v[i] % P]
    BY <1>1 DEF State
  <1> DEFINE w == [i \in Positions |-> v[i] % P]
  <1>3. Ext("python", w) = MatmulExternal(v)
    BY <1>2, ExtIsNative
  <1>4. w = v
    BY <1>2
  <1> QED BY <1>3, <1>4

LEMMA SboxIsNative == \A v : Sbox("python", v) = NativeSbox(v)
  <1>1. SboxMuls = 4
    BY DEF SboxMuls, SboxProducts
  <1> QED BY <1>1 DEF Sbox, SboxProducts, NativeSbox, Mul

(* One round of _perm_native. *)
NativeRound(v, r) == IF IsPartial(r) THEN NativePartial(v, r) ELSE NativeFull(v, r)

LEMMA FullIsNative ==
    ASSUME NEW v \in State, NEW r \in 1 .. Rounds
    PROVE  FullRound("python", v, r) = NativeFull(v, r)
  <1> DEFINE w == [i \in Positions |-> Sbox("python", Add("python", v[i], RC8[r][i]))]
  <1>1. w = [i \in Positions |-> NativeSbox((v[i] + RC8[r][i]) % P)]
    BY SboxIsNative DEF Add
  <1>2. w \in State
    <2>1. \A i \in Positions : v[i] \in Field /\ RC8[r][i] \in Field
      BY TablesAssumption DEF State
    <2>2. \A i \in Positions : Sbox("python", Add("python", v[i], RC8[r][i])) \in Field
      BY <2>1, EnginesAre, Gates, SboxOK
    <2> QED BY <2>2 DEF State
  <1>3. FullRound("python", v, r) = Ext("python", w) /\ NativeFull(v, r) = MatmulExternal(w)
    BY <1>1 DEF FullRound, NativeFull
  <1> HIDE DEF w
  <1> QED BY <1>2, <1>3, ExtOfState

(* The sum of a state, reduced after every addition or once. *)
LEMMA SumIsNative ==
    ASSUME NEW v \in State
    PROVE  /\ SumUp("python", v) = (v[0] + v[1] + v[2] + v[3] + v[4] + v[5] + v[6] + v[7]) % P
           /\ v[0] + v[1] + v[2] + v[3] + v[4] + v[5] + v[6] + v[7] \in Int
  <1>1. /\ v[0] \in Int /\ v[1] \in Int /\ v[2] \in Int /\ v[3] \in Int
        /\ v[4] \in Int /\ v[5] \in Int /\ v[6] \in Int /\ v[7] \in Int
    BY Places, Canonical DEF State
  <1> DEFINE s2 == v[0] + v[1]
             s3 == s2 + v[2]
             s4 == s3 + v[3]
             s5 == s4 + v[4]
             s6 == s5 + v[5]
             s7 == s6 + v[6]
             s8 == s7 + v[7]
             A(c, d) == Add("python", c, d)
  <1>2. SumUp("python", v) = A(A(A(A(A(A(A(v[0], v[1]), v[2]), v[3]), v[4]), v[5]), v[6]), v[7])
    BY DEF SumUp
  <1>3. A(v[0], v[1]) = s2 % P
    BY DEF Add
  <1>4. s2 \in Int
    BY <1>1
  <1> HIDE DEF s2
  <1>5. A(s2 % P, v[2]) = s3 % P /\ s3 \in Int
    <2>1. s3 \in Int
      BY <1>1, <1>4
    <2>2. \A a, b \in Int : A(a % P, b) = (a + b) % P
      BY EarlyGates
    <2>3. A(s2 % P, v[2]) = (s2 + v[2]) % P
      BY <1>1, <1>4, <2>2
    <2> QED BY <2>1, <2>3
  <1> HIDE DEF s3
  <1>6. A(s3 % P, v[3]) = s4 % P /\ s4 \in Int
    <2>1. s4 \in Int
      BY <1>1, <1>5
    <2>2. \A a, b \in Int : A(a % P, b) = (a + b) % P
      BY EarlyGates
    <2>3. A(s3 % P, v[3]) = (s3 + v[3]) % P
      BY <1>1, <1>5, <2>2
    <2> QED BY <2>1, <2>3
  <1> HIDE DEF s4
  <1>7. A(s4 % P, v[4]) = s5 % P /\ s5 \in Int
    <2>1. s5 \in Int
      BY <1>1, <1>6
    <2>2. \A a, b \in Int : A(a % P, b) = (a + b) % P
      BY EarlyGates
    <2>3. A(s4 % P, v[4]) = (s4 + v[4]) % P
      BY <1>1, <1>6, <2>2
    <2> QED BY <2>1, <2>3
  <1> HIDE DEF s5
  <1>8. A(s5 % P, v[5]) = s6 % P /\ s6 \in Int
    <2>1. s6 \in Int
      BY <1>1, <1>7
    <2>2. \A a, b \in Int : A(a % P, b) = (a + b) % P
      BY EarlyGates
    <2>3. A(s5 % P, v[5]) = (s5 + v[5]) % P
      BY <1>1, <1>7, <2>2
    <2> QED BY <2>1, <2>3
  <1> HIDE DEF s6
  <1>9. A(s6 % P, v[6]) = s7 % P /\ s7 \in Int
    <2>1. s7 \in Int
      BY <1>1, <1>8
    <2>2. \A a, b \in Int : A(a % P, b) = (a + b) % P
      BY EarlyGates
    <2>3. A(s6 % P, v[6]) = (s6 + v[6]) % P
      BY <1>1, <1>8, <2>2
    <2> QED BY <2>1, <2>3
  <1> HIDE DEF s7
  <1>10. A(s7 % P, v[7]) = s8 % P /\ s8 \in Int
    <2>1. s8 \in Int
      BY <1>1, <1>9
    <2>2. \A a, b \in Int : A(a % P, b) = (a + b) % P
      BY EarlyGates
    <2>3. A(s7 % P, v[7]) = (s7 + v[7]) % P
      BY <1>1, <1>9, <2>2
    <2> QED BY <2>1, <2>3
  <1> HIDE DEF s8
  <1>11. SumUp("python", v) = s8 % P
    BY <1>2, <1>3, <1>5, <1>6, <1>7, <1>8, <1>9, <1>10
  <1> QED BY <1>10, <1>11 DEF s8, s7, s6, s5, s4, s3, s2

LEMMA PartialIsNative ==
    ASSUME NEW v \in State, NEW r \in 1 .. Rounds
    PROVE  PartialRound("python", v, r) = NativePartial(v, r)
  <1> DEFINE first == NativeSbox((v[0] + RC8[r][0]) % P)
             w == [v EXCEPT ![0] = first]
             n == w[0] + w[1] + w[2] + w[3] + w[4] + w[5] + w[6] + w[7]
             s == n % P
  <1>1. /\ \A i \in Positions : v[i] \in Field
        /\ \A i \in Positions : MAT_DIAG8_M_1[i] \in Field
        /\ \A i \in Positions : RC8[r][i] \in Field
    BY TablesAssumption DEF State
  <1>2. first = Sbox("python", Add("python", v[0], RC8[r][0])) /\ first \in Field
    <2>1. first = Sbox("python", Add("python", v[0], RC8[r][0]))
      BY SboxIsNative DEF Add
    <2>2. Add("python", v[0], RC8[r][0]) \in Field
      BY <1>1, Places, EnginesAre, Gates
    <2>3. Sbox("python", Add("python", v[0], RC8[r][0])) \in Field
      BY <2>2, EnginesAre, SboxOK
    <2> QED BY <2>1, <2>3
  <1>3. PartialRound("python", v, r) =
            [i \in Positions |-> Add("python", Mul("python", w[i], MAT_DIAG8_M_1[i]),
                                     SumUp("python", w))]
    <2>1. w = [v EXCEPT ![0] = Sbox("python", Add("python", v[0], RC8[r][0]))]
      BY <1>2
    <2> HIDE DEF w
    <2> QED BY <2>1 DEF PartialRound
  <1> HIDE DEF first
  <1>4. /\ w \in State /\ \A i \in Positions : w[i] = IF i = 0 THEN first ELSE v[i]
        /\ \A i \in Positions : w[i] \in Field
    BY <1>1, <1>2 DEF State
  <1>5. /\ w[0] = first /\ w[1] = v[1] /\ w[2] = v[2] /\ w[3] = v[3]
        /\ w[4] = v[4] /\ w[5] = v[5] /\ w[6] = v[6] /\ w[7] = v[7]
    BY <1>4, Places
  <1>6. NativePartial(v, r) =
            [i \in Positions |-> ((IF i = 0 THEN first ELSE v[i]) * MAT_DIAG8_M_1[i] + s) % P]
    BY <1>5 DEF NativePartial, first
  <1>7. s \in Int /\ SumUp("python", w) = s
    <2> HIDE DEF w
    <2>1. SumUp("python", w) = n % P /\ n \in Int
      BY <1>4, SumIsNative
    <2> HIDE DEF n
    <2> QED BY <2>1, Divides
  <1> HIDE DEF w, s
  <1>8. ASSUME NEW i \in Positions
        PROVE  Add("python", Mul("python", w[i], MAT_DIAG8_M_1[i]), s) =
                   ((IF i = 0 THEN first ELSE v[i]) * MAT_DIAG8_M_1[i] + s) % P
    <2> DEFINE m == w[i] * MAT_DIAG8_M_1[i]
    <2>1. w[i] \in Int /\ MAT_DIAG8_M_1[i] \in Int
      BY <1>1, <1>4, Canonical
    <2>2. m \in Int /\ Mul("python", w[i], MAT_DIAG8_M_1[i]) = m % P
      BY <2>1 DEF Mul
    <2>3. Add("python", m % P, s) = (m + s) % P
      <3> HIDE DEF m
      <3> QED BY <1>7, <2>2, EarlyGates
    <2>4. m = (IF i = 0 THEN first ELSE v[i]) * MAT_DIAG8_M_1[i]
      BY <1>4
    <2> QED BY <2>2, <2>3, <2>4
  <1> QED BY <1>3, <1>6, <1>7, <1>8

-----------------------------------------------------------------------------
(* A set of naturals has a least element. *)
LEMMA Least ==
    ASSUME NEW T, T \subseteq Nat, T # {}
    PROVE  \E n \in T : \A m \in T : ~(m < n)
  <1> DEFINE R == OpToRel(<, Nat)
  <1>1. IsWellFoundedOn(R, Nat)
    BY NatLessThanWellFounded
  <1>2. PICK n \in T : \A m \in T : <<m, n>> \notin R
    <2> HIDE DEF R
    <2> QED BY <1>1, WFMin
  <1>3. \A a \in Nat, b \in Nat : a < b => <<a, b>> \in R
    BY DEF OpToRel
  <1> QED BY <1>2, <1>3

(* Two functions that start and go on alike are alike: what a recursive function
   computes is what a sequence of steps computes. *)
LEMMA Alike ==
    ASSUME NEW d \in Nat, NEW f, NEW g, f[0] = g[0],
           \A n \in 0 .. d - 1 : f[n] = g[n] => f[n + 1] = g[n + 1]
    PROVE  \A n \in 0 .. d : f[n] = g[n]
  <1> DEFINE T == {n \in 0 .. d : f[n] # g[n]}
  <1> SUFFICES ASSUME T # {} PROVE FALSE
    OBVIOUS
  <1>1. T \subseteq Nat
    <2>1. 0 .. d \subseteq Nat
      BY SMT
    <2> QED BY <2>1
  <1>2. PICK n \in T : \A m \in T : ~(m < n)
    <2> HIDE DEF T
    <2> QED BY <1>1, Least
  <1>3. n # 0 /\ n \in 0 .. d
    BY <1>2
  <1>4. n - 1 \in 0 .. d - 1 /\ n - 1 < n /\ (n - 1) + 1 = n /\ n - 1 \in 0 .. d
    BY <1>3, SMT
  <1>5. f[n - 1] = g[n - 1]
    BY <1>2, <1>4
  <1> QED BY <1>2, <1>4, <1>5

(* The states of a permutation so far. *)
Rounded(f, start, n, v) ==
    /\ f[0] = MatmulExternal(start)
    /\ \A k \in 0 .. n - 1 : f[k + 1] = NativeRound(f[k], k + 1)
    /\ v = f[n]

LEMMA PermIs ==
    ASSUME NEW f, NEW start, NEW v, Rounded(f, start, Rounds, v)
    PROVE  PermNative(start) = v
  <1> DEFINE Body(g, r) == IF r = 0 THEN MatmulExternal(start)
                           ELSE IF IsPartial(r) THEN NativePartial(g[r - 1], r)
                                                ELSE NativeFull(g[r - 1], r)
             Runs(g) == g = [r \in 0 .. Rounds |-> Body(g, r)]
             mine == [r \in 0 .. Rounds |-> f[r]]
             after == CHOOSE g : Runs(g)
  <1>1. Rounds \in Nat
    BY RoundsAssumption, SMT DEF Rounds
  <1>2. \A r \in 0 .. Rounds : r # 0 => /\ r - 1 \in 0 .. Rounds /\ r - 1 \in 0 .. Rounds - 1
                                         /\ (r - 1) + 1 = r
    <2> DEFINE d == Rounds
    <2>1. d \in Nat
      BY <1>1
    <2> HIDE DEF d
    <2>2. \A r \in 0 .. d : r # 0 => r - 1 \in 0 .. d /\ r - 1 \in 0 .. d - 1 /\ (r - 1) + 1 = r
      BY <2>1, SMT
    <2> QED BY <2>2 DEF d
  <1>3. Runs(mine)
    <2>1. ASSUME NEW r \in 0 .. Rounds PROVE f[r] = Body(mine, r)
      <3>1. CASE r = 0
        BY <3>1 DEF Rounded
      <3>2. CASE r # 0
        <4>1. mine[r - 1] = f[r - 1]
          BY <1>2, <3>2
        <4>2. f[r] = NativeRound(f[r - 1], r)
          <5>1. r - 1 \in 0 .. Rounds - 1 /\ (r - 1) + 1 = r
            BY <1>2, <3>2
          <5>2. f[(r - 1) + 1] = NativeRound(f[r - 1], (r - 1) + 1)
            BY <5>1 DEF Rounded
          <5> QED BY <5>1, <5>2
        <4> HIDE DEF mine
        <4> QED BY <3>2, <4>1, <4>2 DEF NativeRound
      <3> QED BY <3>1, <3>2
    <2> HIDE DEF Body
    <2> QED BY <2>1
  <1>4. Runs(after)
    <2> HIDE DEF Runs, mine
    <2> QED BY <1>3
  <1>5. PermNative(start) = after[Rounds]
    BY DEF PermNative
  <1> HIDE DEF after
  <1>6. \A r \in 0 .. Rounds : after[r] = Body(after, r)
    <2> HIDE DEF Body
    <2> QED BY <1>4
  <1>7. after[0] = f[0]
    <2>1. 0 \in 0 .. Rounds
      BY <1>1, SMT
    <2> QED BY <1>6, <2>1 DEF Rounded
  <1>8. ASSUME NEW n \in 0 .. Rounds - 1, after[n] = f[n]
        PROVE  after[n + 1] = f[n + 1]
    <2>1. n + 1 \in 0 .. Rounds /\ n + 1 # 0 /\ (n + 1) - 1 = n
      <3> DEFINE d == Rounds
      <3>1. d \in Nat /\ n \in 0 .. d - 1
        BY <1>1
      <3> HIDE DEF d
      <3>2. n + 1 \in 0 .. d /\ n + 1 # 0 /\ (n + 1) - 1 = n
        BY <3>1, SMT
      <3> QED BY <3>2 DEF d
    <2>2. after[n + 1] = NativeRound(after[n], n + 1)
      <3> HIDE DEF Body
      <3>1. after[n + 1] = Body(after, n + 1)
        BY <1>6, <2>1
      <3> QED BY <2>1, <3>1 DEF Body, NativeRound
    <2> QED BY <1>8, <2>2 DEF Rounded
  <1>9. after[Rounds] = f[Rounds]
    <2>1. \A n \in 0 .. Rounds : after[n] = f[n]
      BY <1>1, <1>7, <1>8, Alike
    <2>2. Rounds \in 0 .. Rounds
      BY <1>1, SMT
    <2> QED BY <2>1, <2>2
  <1> QED BY <1>5, <1>9 DEF Rounded

(* One level of the climb, as the tree hashes it. *)
Above(b, c, sib) == IF b = 1 THEN CompressNative(sib, c) ELSE CompressNative(c, sib)

(* The digests of a climb so far. *)
Climbed(f, n, c) ==
    /\ f[0] = LeafHashNative(wit.secret)
    /\ \A k \in 0 .. n - 1 : f[k + 1] = Above(wit.bits[k + 1], f[k], wit.sibs[k + 1])
    /\ c = f[n]

LEMMA RootIs ==
    ASSUME NEW f, NEW c, Climbed(f, Depth, c), Depth \in Nat
    PROVE  NativeRoot = c
  <1> DEFINE Body(g, n) == IF n = 0 THEN LeafHashNative(wit.secret)
                           ELSE IF wit.bits[n] = 1 THEN CompressNative(wit.sibs[n], g[n - 1])
                                                   ELSE CompressNative(g[n - 1], wit.sibs[n])
             Runs(g) == g = [n \in 0 .. Depth |-> Body(g, n)]
             mine == [n \in 0 .. Depth |-> f[n]]
             after == CHOOSE g : Runs(g)
  <1>2. \A n \in 0 .. Depth : n # 0 => /\ n - 1 \in 0 .. Depth /\ n - 1 \in 0 .. Depth - 1
                                        /\ (n - 1) + 1 = n
    <2> DEFINE d == Depth
    <2>1. d \in Nat
      OBVIOUS
    <2> HIDE DEF d
    <2>2. \A n \in 0 .. d : n # 0 => n - 1 \in 0 .. d /\ n - 1 \in 0 .. d - 1 /\ (n - 1) + 1 = n
      BY <2>1, SMT
    <2> QED BY <2>2 DEF d
  <1>3. Runs(mine)
    <2>1. ASSUME NEW n \in 0 .. Depth PROVE f[n] = Body(mine, n)
      <3>1. CASE n = 0
        BY <3>1 DEF Climbed
      <3>2. CASE n # 0
        <4>1. mine[n - 1] = f[n - 1]
          BY <1>2, <3>2
        <4>2. f[n] = Above(wit.bits[n], f[n - 1], wit.sibs[n])
          <5>1. n - 1 \in 0 .. Depth - 1 /\ (n - 1) + 1 = n
            BY <1>2, <3>2
          <5>2. f[(n - 1) + 1] = Above(wit.bits[(n - 1) + 1], f[n - 1], wit.sibs[(n - 1) + 1])
            BY <5>1 DEF Climbed
          <5> QED BY <5>1, <5>2
        <4> HIDE DEF mine
        <4> QED BY <3>2, <4>1, <4>2 DEF Above
      <3> QED BY <3>1, <3>2
    <2> HIDE DEF Body
    <2> QED BY <2>1
  <1>4. Runs(after)
    <2> HIDE DEF Runs, mine
    <2> QED BY <1>3
  <1>5. NativeRoot = after[Depth]
    BY DEF NativeRoot
  <1> HIDE DEF after
  <1>6. \A n \in 0 .. Depth : after[n] = Body(after, n)
    <2> HIDE DEF Body
    <2> QED BY <1>4
  <1>7. after[0] = f[0]
    <2>1. 0 \in 0 .. Depth
      BY SMT
    <2> QED BY <1>6, <2>1 DEF Climbed
  <1>8. ASSUME NEW n \in 0 .. Depth - 1, after[n] = f[n]
        PROVE  after[n + 1] = f[n + 1]
    <2>1. n + 1 \in 0 .. Depth /\ n + 1 # 0 /\ (n + 1) - 1 = n
      <3> DEFINE d == Depth
      <3>1. d \in Nat /\ n \in 0 .. d - 1
        OBVIOUS
      <3> HIDE DEF d
      <3>2. n + 1 \in 0 .. d /\ n + 1 # 0 /\ (n + 1) - 1 = n
        BY <3>1, SMT
      <3> QED BY <3>2 DEF d
    <2>2. after[n + 1] = Above(wit.bits[n + 1], after[n], wit.sibs[n + 1])
      <3> HIDE DEF Body
      <3>1. after[n + 1] = Body(after, n + 1)
        BY <1>6, <2>1
      <3> QED BY <2>1, <3>1 DEF Body, Above
    <2> QED BY <1>8, <2>2 DEF Climbed
  <1>9. after[Depth] = f[Depth]
    <2>1. \A n \in 0 .. Depth : after[n] = f[n]
      BY <1>7, <1>8, Alike
    <2>2. Depth \in 0 .. Depth
      BY SMT
    <2> QED BY <2>1, <2>2
  <1> QED BY <1>5, <1>9 DEF Climbed

-----------------------------------------------------------------------------
LEMMA ZeroOne == 0 \in Field /\ 1 \in Field
  BY FieldIs, Shape, SMT

(* Taking away what was added. *)
LEMMA Restored ==
    ASSUME NEW c \in Field, NEW s \in Field
    PROVE  /\ (c + ((s - c) % P)) % P = s
           /\ (((c + s) % P) - s) % P = c
           /\ (((c + s) % P) - c) % P = s
  <1>1. c \in Int /\ s \in Int /\ c % P = c /\ s % P = s
    BY Canonical
  <1>2. \A a, b \in Int : ((a % P) + b) % P = (a + b) % P
    BY LateSum
  <1>3. s - c \in Int /\ c + s \in Int /\ -c \in Int /\ -s \in Int
    BY <1>1, SMT
  <1>4. (c + ((s - c) % P)) % P = s
    <2> DEFINE d == s - c
               r == d % P
    <2>1. r \in Int /\ (r + c) % P = (d + c) % P
      BY <1>1, <1>2, <1>3, Divides
    <2>2. d + c = s
      BY <1>1, SMT
    <2> HIDE DEF d, r
    <2>3. r + c = c + r
      BY <1>1, <2>1, SMT
    <2> QED BY <1>1, <2>1, <2>2, <2>3 DEF d, r
  <1>5. ASSUME NEW a \in Int, NEW b \in Int
        PROVE  ((a % P) - b) % P = (a - b) % P
    <2> DEFINE r == a % P
    <2>1. -b \in Int /\ r \in Int
      BY Divides
    <2>2. (r + (-b)) % P = (a + (-b)) % P
      BY <1>2, <2>1
    <2> HIDE DEF r
    <2>3. r + (-b) = r - b /\ a + (-b) = a - b
      BY <2>1, SMT
    <2> QED BY <2>2, <2>3 DEF r
  <1>6. (c + s) - s = c /\ (c + s) - c = s
    BY <1>1, SMT
  <1>7. (((c + s) % P) - s) % P = ((c + s) - s) % P
    BY <1>1, <1>3, <1>5
  <1>8. (((c + s) % P) - c) % P = ((c + s) - c) % P
    BY <1>1, <1>3, <1>5
  <1> QED BY <1>1, <1>4, <1>6, <1>7, <1>8

(* On a bit, the choice without a branch is a choice. *)
LEMMA BitChooses ==
    ASSUME NEW b \in {0, 1}, NEW c \in Field, NEW s \in Field
    PROVE  /\ Chosen("python", b, c, s) = IF b = 1 THEN s ELSE c
           /\ Other("python", b, c, s) = IF b = 1 THEN c ELSE s
  <1>1. /\ Chosen("python", b, c, s) = (c + ((b * ((s - c) % P)) % P)) % P
        /\ Other("python", b, c, s) = (((c + s) % P) - Chosen("python", b, c, s)) % P
    BY DEF Chosen, Other, Add, Sub, Mul
  <1>2. c \in Int /\ s \in Int /\ c % P = c /\ s % P = s
    BY Canonical
  <1> DEFINE d == (s - c) % P
  <1>3. d \in Field
    <2>1. s - c \in Int
      BY <1>2
    <2> QED BY <2>1, Remainders
  <1>4. d \in Int /\ d % P = d
    <2> HIDE DEF d
    <2> QED BY <1>3, Canonical
  <1>5. CASE b = 0
    <2>1. 0 * d = 0 /\ 0 % P = 0 /\ c + 0 = c
      BY <1>2, <1>4, ZeroOne, Canonical
    <2>2. Chosen("python", b, c, s) = c
      BY <1>1, <1>2, <1>5, <2>1
    <2> QED BY <1>1, <1>5, <2>2, Restored
  <1>6. CASE b = 1
    <2>1. 1 * d = d
      BY <1>4
    <2>2. Chosen("python", b, c, s) = s
      BY <1>1, <1>4, <1>6, <2>1, Restored
    <2> QED BY <1>1, <1>6, <2>2, Restored
  <1> QED BY <1>5, <1>6

(* The modulus of Goldilocks is a prime. *)
Prime == \A d \in 2 .. P - 1 : P % d # 0

LEMMA Multiples ==
    ASSUME NEW n \in Int
    PROVE  n % P = 0 <=> \E q \in Int : n = q * P
  <1>1. ASSUME n % P = 0 PROVE \E q \in Int : n = q * P
    <2>1. n \div P \in Int /\ n = (n \div P) * P + 0
      BY <1>1, Divides
    <2> DEFINE q == n \div P
    <2>2. q \in Int /\ q * P \in Int
      BY <2>1, Shape
    <2>3. n = q * P
      BY <2>1, <2>2
    <2> QED BY <2>2, <2>3
  <1>2. ASSUME NEW q \in Int, n = q * P PROVE n % P = 0
    <2> DEFINE m == q * P
    <2>1. m \in Int /\ P \in Nat /\ P >= 3 /\ n = m
      BY <1>2, Shape
    <2> HIDE DEF m
    <2>2. n = m + 0 /\ 0 \in Int /\ 0 <= 0 /\ 0 < P
      BY <2>1
    <2> QED BY <2>2, Residue DEF m
  <1> QED BY <1>1, <1>2

(* Euclid: a prime divides a product only with a factor. *)
LEMMA NoZeroDivisors ==
    ASSUME Prime, NEW a \in Field, NEW b \in Field, (a * b) % P = 0
    PROVE  a = 0 \/ b = 0
  <1> SUFFICES ASSUME a # 0, b # 0 PROVE FALSE
    OBVIOUS
  <1>1. a \in Nat /\ b \in Nat /\ a < P /\ b < P /\ b % P = b /\ P \in Nat /\ P >= 3
    BY Canonical, Shape
  <1> DEFINE T == {t \in Nat \ {0} : (t * b) % P = 0}
  <1>2. a \in T
    BY <1>1
  <1>3. PICK d \in T : \A t \in T : ~(t < d)
    <2>1. T \subseteq Nat /\ T # {}
      BY <1>2
    <2> HIDE DEF T
    <2> QED BY <2>1, Least
  <1>4. d \in Nat /\ d >= 1 /\ d <= a /\ (d * b) % P = 0
    <2>1. ~(a < d) /\ d \in Nat \ {0} /\ (d * b) % P = 0
      BY <1>2, <1>3
    <2> QED BY <1>1, <2>1
  <1> DEFINE q == P \div d
             r == P % d
  <1>5. q \in Nat /\ r \in Nat /\ r < d /\ P = q * d + r
    <2> DEFINE p == P
    <2>1. p \in Nat
      BY <1>1
    <2> HIDE DEF p
    <2>2. p \div d \in Nat /\ p % d \in Nat /\ p % d < d /\ p = (p \div d) * d + (p % d)
      BY <1>4, <2>1, Division
    <2> QED BY <2>2 DEF p
  <1> HIDE DEF q, r
  <1>6. (r * b) % P = 0
    <2>1. d * b \in Int /\ r * b \in Int
      BY <1>1, <1>4, <1>5
    <2>2. PICK k \in Int : d * b = k * P
      BY <1>4, <2>1, Multiples
    <2>3. r * b = (b - q * k) * P /\ b - q * k \in Int
      <3> DEFINE p == P
      <3>1. p \in Int /\ p = q * d + r /\ d * b = k * p
        BY <1>1, <1>5, <2>2
      <3> HIDE DEF p
      <3>2. p * b = (q * d) * b + r * b
        BY <1>1, <1>4, <1>5, <3>1, SMT
      <3>3. (q * d) * b = q * (d * b) /\ q * (k * p) = (q * k) * p
            /\ q * k \in Int /\ (q * k) * p \in Int /\ p * b \in Int
        BY <1>1, <1>4, <1>5, <2>2, <3>1, SMT
      <3>4. (b - q * k) * p = b * p - (q * k) * p /\ b * p = p * b
        BY <1>1, <3>1, <3>3, SMT
      <3>5. r * b = (b - q * k) * p
        <4> DEFINE x1 == p * b
                   x2 == (q * d) * b
                   x3 == r * b
                   x4 == (q * k) * p
                   x5 == (b - q * k) * p
        <4>1. x1 = x2 + x3 /\ x2 = x4 /\ x5 = x1 - x4 /\ x1 \in Int /\ x4 \in Int /\ x3 \in Int
          BY <2>1, <3>1, <3>2, <3>3, <3>4
        <4> HIDE DEF x1, x2, x3, x4, x5
        <4>2. x3 = x5
          BY <4>1, SMT
        <4> QED BY <4>2 DEF x3, x5
      <3> QED BY <1>1, <3>3, <3>5 DEF p
    <2> QED BY <2>1, <2>3, Multiples
  <1>7. r = 0
    <2> SUFFICES ASSUME r # 0 PROVE FALSE
      OBVIOUS
    <2>1. r \in T
      BY <1>5, <1>6
    <2> QED BY <1>3, <1>4, <1>5, <2>1
  <1>8. d # 1
    <2> SUFFICES ASSUME d = 1 PROVE FALSE
      OBVIOUS
    <2>1. 1 * b = b
      BY <1>1
    <2> QED BY <1>1, <1>4, <2>1
  <1>9. d \in 2 .. P - 1
    <2> DEFINE p == P
    <2>1. p \in Nat /\ a < p
      BY <1>1
    <2> HIDE DEF p
    <2>2. d \in 2 .. p - 1
      BY <1>1, <1>4, <1>8, <2>1, SMT
    <2> QED BY <2>2 DEF p
  <1> QED BY <1>7, <1>9 DEF Prime, r

(* The check of a bit is zero for bits and for nothing else. *)
LEMMA CheckDecides ==
    ASSUME Prime, NEW b \in Field
    PROVE  BitCheck("python", b) = 0 <=> b \in {0, 1}
  <1>1. b \in Nat /\ b < P /\ P \in Nat /\ P >= 3 /\ b % P = b
    BY Canonical, Shape
  <1>2. BitCheck("python", b) = (((b * b) % P) - b) % P
    BY DEF BitCheck, Sub, Mul
  <1> DEFINE n == b * b
             s == n % P
  <1>3. n \in Int /\ s \in Int
    <2>1. n \in Int
      BY <1>1
    <2> HIDE DEF n
    <2> QED BY <2>1, Divides
  <1>4. (s - b) % P = (n - b) % P
    <2>1. -b \in Int
      BY <1>1
    <2>2. (s + (-b)) % P = (n + (-b)) % P
      <3> HIDE DEF n
      <3> QED BY <1>3, <2>1, LateSum
    <2> HIDE DEF n, s
    <2>3. s + (-b) = s - b /\ n + (-b) = n - b
      BY <1>1, <1>3, SMT
    <2> QED BY <2>2, <2>3
  <1>5. n - b = b * (b - 1)
    BY <1>1, SMT
  <1>6. ASSUME b \in {0, 1} PROVE (n - b) % P = 0
    <2>1. n - b = 0
      BY <1>6
    <2>2. 0 % P = 0
      BY ZeroOne, Canonical
    <2> QED BY <2>1, <2>2
  <1>7. ASSUME (n - b) % P = 0 PROVE b \in {0, 1}
    <2>1. CASE b = 0
      BY <2>1
    <2>2. CASE b # 0
      <3>1. b - 1 \in Field
        BY <1>1, <2>2, FieldIs, SMT
      <3>2. b = 0 \/ b - 1 = 0
        BY <1>5, <1>7, <3>1, NoZeroDivisors
      <3> QED BY <1>1, <3>2
    <2> QED BY <2>1, <2>2
  <1> QED BY <1>2, <1>4, <1>6, <1>7

-----------------------------------------------------------------------------
(* What the running permutation was given, before the tags are reduced. *)
Start == IF pc = "leaf" THEN Absorbed(wit.secret, TAG_LEAF)
         ELSE IF pc = "key" THEN Absorbed(wit.secret, TAG_KEY)
         ELSE inp["python"]

(* A digest and its sibling, in the order the bit says. *)
Ordered(b, c, sib) == IF b = 1 THEN Joined(sib, c) ELSE Joined(c, sib)

(* The input of the second permutation of prf_native. *)
Mixed ==
    LET st == PermNative(Absorbed(wit.secret, TAG_KEY)) IN
    [i \in Positions |-> IF i < 4 THEN (st[i] + ctx[i + 1]) % P ELSE st[i]]

BitsUpTo(n) == \A k \in 1 .. n : wit.bits[k] \in {0, 1}

(* The state of python is the running permutation after its rounds so far. *)
PermOK == pc \in Running => \E f : Rounded(f, Start, round, x["python"])

(* Its digest is the root over the levels climbed so far, and a node is hashed in order. *)
ClimbOK ==
    /\ pc \in {"context", "leaf"} => level = 0
    /\ pc \in {"climb", "node", "key", "mix", "done"} =>
           (BitsUpTo(level) => \E f : Climbed(f, level, cur["python"]))
    /\ pc = "node" =>
           (wit.bits[level + 1] \in {0, 1} =>
                inp["python"] = Ordered(wit.bits[level + 1], cur["python"], wit.sibs[level + 1]))
    /\ pc \in {"key", "mix", "done"} => level = Depth

(* It has checked the bits of the levels climbed. *)
ChecksOK ==
    /\ Len(checks["python"]) = level
    /\ \A n \in 1 .. level : checks["python"][n] = BitCheck("python", wit.bits[n])

(* It computes prf_native. *)
KeyOK ==
    /\ pc = "mix" => inp["python"] = Mixed
    /\ pc = "done" => key["python"] = PrfNative(wit.secret, [i \in 0 .. 3 |-> ctx[i + 1]])

Stated == PermOK /\ ClimbOK /\ ChecksOK /\ KeyOK

(* A sequence and its next value. *)
Grown(f, n, v) == [k \in 0 .. n + 1 |-> IF k = n + 1 THEN v ELSE f[k]]

LEMMA Longer ==
    ASSUME NEW n \in Nat, NEW f, NEW v
    PROVE  /\ \A k \in 0 .. n : Grown(f, n, v)[k] = f[k]
           /\ Grown(f, n, v)[n + 1] = v
  <1>1. \A k \in 0 .. n : k \in 0 .. n + 1 /\ k # n + 1
    BY SMT
  <1>2. n + 1 \in 0 .. n + 1
    BY SMT
  <1> QED BY <1>1, <1>2 DEF Grown

LEMMA LongerRounded ==
    ASSUME NEW n \in Nat, NEW f, NEW start, NEW v, Rounded(f, start, n, v)
    PROVE  \E g : Rounded(g, start, n + 1, NativeRound(v, n + 1))
  <1> DEFINE u == NativeRound(v, n + 1)
             g == Grown(f, n, u)
  <1>1. (\A k \in 0 .. n : g[k] = f[k]) /\ g[n + 1] = u
    BY Longer
  <1> HIDE DEF g
  <1>2. 0 \in 0 .. n /\ n \in 0 .. n /\ (n + 1) - 1 = n
        /\ \A k \in 0 .. n : k # n => k \in 0 .. n - 1 /\ k + 1 \in 0 .. n
    BY SMT
  <1>3. g[0] = MatmulExternal(start)
    BY <1>1, <1>2 DEF Rounded
  <1>4. ASSUME NEW k \in 0 .. n PROVE g[k + 1] = NativeRound(g[k], k + 1)
    <2>1. CASE k = n
      BY <1>1, <1>2, <2>1 DEF Rounded
    <2>2. CASE k # n
      <3>1. k \in 0 .. n - 1 /\ g[k + 1] = f[k + 1] /\ g[k] = f[k]
        BY <1>1, <1>2, <2>2
      <3> QED BY <3>1 DEF Rounded
    <2> QED BY <2>1, <2>2
  <1> HIDE DEF u
  <1>5. Rounded(g, start, n + 1, u)
    BY <1>1, <1>2, <1>3, <1>4 DEF Rounded
  <1> QED BY <1>5 DEF u

LEMMA LongerClimbed ==
    ASSUME NEW n \in Nat, NEW f, NEW c, Climbed(f, n, c)
    PROVE  \E g : Climbed(g, n + 1, Above(wit.bits[n + 1], c, wit.sibs[n + 1]))
  <1> DEFINE u == Above(wit.bits[n + 1], c, wit.sibs[n + 1])
             g == Grown(f, n, u)
  <1>1. (\A k \in 0 .. n : g[k] = f[k]) /\ g[n + 1] = u
    BY Longer
  <1> HIDE DEF g
  <1>2. 0 \in 0 .. n /\ n \in 0 .. n /\ (n + 1) - 1 = n
        /\ \A k \in 0 .. n : k # n => k \in 0 .. n - 1 /\ k + 1 \in 0 .. n
    BY SMT
  <1>3. g[0] = LeafHashNative(wit.secret)
    BY <1>1, <1>2 DEF Climbed
  <1>4. ASSUME NEW k \in 0 .. n PROVE g[k + 1] = Above(wit.bits[k + 1], g[k], wit.sibs[k + 1])
    <2>1. CASE k = n
      BY <1>1, <1>2, <2>1 DEF Climbed
    <2>2. CASE k # n
      <3>1. k \in 0 .. n - 1 /\ g[k + 1] = f[k + 1] /\ g[k] = f[k]
        BY <1>1, <1>2, <2>2
      <3> QED BY <3>1 DEF Climbed
    <2> QED BY <2>1, <2>2
  <1> HIDE DEF u
  <1>5. Climbed(g, n + 1, u)
    BY <1>1, <1>2, <1>3, <1>4 DEF Climbed
  <1> QED BY <1>5 DEF u

(* A permutation that starts has run no round. *)
LEMMA Fresh ==
    ASSUME NEW start, NEW v, v = MatmulExternal(start)
    PROVE  \E f : Rounded(f, start, 0, v)
  <1> DEFINE f == [k \in {0} |-> v]
  <1>1. f[0] = v /\ 0 .. 0 - 1 = {}
    BY SMT
  <1> HIDE DEF f
  <1>2. Rounded(f, start, 0, v)
    BY <1>1 DEF Rounded
  <1> QED BY <1>2

(* Tags are reduced by the circuit and not by the native functions: no difference. *)
LEMMA Tagged ==
    ASSUME NEW s \in Digests, NEW tag \in Nat
    PROVE  Ext("python", Absorbed(s, Cst(tag))) = MatmulExternal(Absorbed(s, tag))
  <1> DEFINE v == Absorbed(s, tag)
  <1>1. \A i \in Positions : i < 4 => s[i] \in Int /\ s[i] % P = s[i]
    BY Places, Canonical DEF Digests
  <1>2. tag \in Int /\ 0 \in Int /\ 0 % P = 0
    BY ZeroOne, Canonical
  <1>3. v = [i \in Positions |-> IF i < 4 THEN s[i] ELSE IF i = 4 THEN tag ELSE 0]
    BY DEF Absorbed
  <1> HIDE DEF v
  <1>4. v \in [Positions -> Int]
    BY <1>1, <1>2, <1>3
  <1>5. [i \in Positions |-> v[i] % P] = Absorbed(s, Cst(tag))
    <2> DEFINE w == [i \in Positions |-> IF i < 4 THEN s[i] ELSE IF i = 4 THEN tag % P ELSE 0]
    <2>1. Absorbed(s, Cst(tag)) = w
      BY DEF Absorbed, Cst
    <2>2. \A i \in Positions : v[i] % P = w[i]
      BY <1>1, <1>2, <1>3
    <2>3. [i \in Positions |-> v[i] % P] = [i \in Positions |-> w[i]]
      BY <2>2
    <2>4. w = [i \in Positions |-> w[i]]
      OBVIOUS
    <2> QED BY <2>1, <2>3, <2>4
  <1>6. Ext("python", [i \in Positions |-> v[i] % P]) = MatmulExternal(v)
    BY <1>4, ExtIsNative
  <1> QED BY <1>5, <1>6 DEF v

LEMMA RoundIsNative ==
    ASSUME NEW v \in State, NEW r \in 1 .. Rounds
    PROVE  /\ IsPartial(r) => PartialRound("python", v, r) = NativeRound(v, r)
           /\ ~IsPartial(r) => FullRound("python", v, r) = NativeRound(v, r)
  BY FullIsNative, PartialIsNative DEF NativeRound

LEMMA StatedInit == Init => Stated
  <1> SUFFICES ASSUME Init PROVE Stated
    OBVIOUS
  <1>1. pc = "context" /\ level = 0 /\ checks["python"] = <<>>
    BY EnginesAre DEF Init
  <1>2. ChecksOK
    <2>1. Len(<<>>) = 0 /\ 1 .. 0 = {}
      BY SMT
    <2> QED BY <1>1, <2>1 DEF ChecksOK
  <1> QED BY <1>1, <1>2 DEF Stated, PermOK, ClimbOK, KeyOK, Running

LEMMA DrawStated ==
    ASSUME Stated, NEW w \in CtxWords, Draw(w)
    PROVE  Stated'
  <1>1. pc = "context" /\ UNCHANGED <<wit, pc, round, x, inp, cur, level, checks, key>>
    BY DEF Draw
  <1> QED BY <1>1 DEF Stated, PermOK, ClimbOK, ChecksOK, KeyOK, Running

(* The external matrix of a new permutation. *)
LEMMA Begins ==
    ASSUME NEW which, NEW input, Permute(which, input)
    PROVE  /\ pc' = which /\ round' = 0 /\ inp' = input
           /\ x'["python"] = Ext("python", input["python"])
  BY EnginesAre DEF Permute

LEMMA StartLeafStated == ASSUME Inv, Stated, StartLeaf PROVE Stated'
  <1> DEFINE input == [g \in Engines |-> Absorbed(wit.secret, Cst(TAG_LEAF))]
  <1>1. /\ pc = "context" /\ Permute("leaf", input)
        /\ UNCHANGED <<wit, ctx, cur, level, checks, key, muls>>
    BY DEF StartLeaf
  <1>2. pc' = "leaf" /\ round' = 0 /\ x'["python"] = Ext("python", input["python"])
    <2> HIDE DEF input
    <2> QED BY <1>1, Begins
  <1>3. x'["python"] = MatmulExternal(Absorbed(wit.secret, TAG_LEAF))
    <2>1. wit.secret \in Digests
      BY WitnessOK DEF Inv
    <2>2. input["python"] = Absorbed(wit.secret, Cst(TAG_LEAF))
      BY EnginesAre
    <2> QED BY <1>2, <2>1, <2>2, Tagged, TagsAssumption
  <1>4. Start' = Absorbed(wit.secret, TAG_LEAF)
    BY <1>1, <1>2 DEF Start
  <1>5. PermOK'
    BY <1>2, <1>3, <1>4, Fresh DEF PermOK
  <1> QED BY <1>1, <1>2, <1>5 DEF Stated, ClimbOK, ChecksOK, KeyOK

LEMMA RoundStated == ASSUME Inv, Stated, Full \/ Partial PROVE Stated'
  <1>1. /\ pc \in Running /\ round < Rounds /\ round' = round + 1
        /\ UNCHANGED <<wit, pc, ctx, inp, cur, level, checks, key>>
    BY DEF Full, Partial
  <1>2. round + 1 \in 1 .. Rounds /\ round \in Nat
    <2>1. Rounds \in Nat
      BY RoundsAssumption, SMT DEF Rounds
    <2> QED BY <1>1, <2>1, SMT DEF Inv, TypeOK
  <1>3. x["python"] \in State
    BY EnginesAre DEF Inv, TypeOK
  <1>4. x'["python"] = NativeRound(x["python"], round + 1)
    <2>1. CASE Full
      <3>1. ~IsPartial(round + 1) /\ x'["python"] = FullRound("python", x["python"], round + 1)
        BY <2>1, EnginesAre DEF Full
      <3> QED BY <1>2, <1>3, <3>1, RoundIsNative
    <2>2. CASE Partial
      <3>1. IsPartial(round + 1) /\ x'["python"] = PartialRound("python", x["python"], round + 1)
        BY <2>2, EnginesAre DEF Partial
      <3> QED BY <1>2, <1>3, <3>1, RoundIsNative
    <2> QED BY <2>1, <2>2
  <1>5. Start' = Start
    BY <1>1 DEF Start
  <1>6. PermOK'
    <2>1. PICK f : Rounded(f, Start, round, x["python"])
      BY <1>1 DEF Stated, PermOK
    <2>2. \E g : Rounded(g, Start, round + 1, NativeRound(x["python"], round + 1))
      BY <1>2, <2>1, LongerRounded
    <2> QED BY <1>1, <1>4, <1>5, <2>2 DEF PermOK
  <1>7. ClimbOK'
    BY <1>1 DEF Stated, ClimbOK, BitsUpTo, Climbed, Depth
  <1>8. KeyOK'
    BY <1>1 DEF Stated, KeyOK, Mixed, Running
  <1> QED BY <1>1, <1>6, <1>7, <1>8 DEF Stated, ChecksOK

LEMMA EndLeafStated == ASSUME Inv, Stated, EndLeaf PROVE Stated'
  <1>1. /\ pc = "leaf" /\ round = Rounds /\ pc' = "climb"
        /\ cur'["python"] = FirstFour(x["python"])
        /\ UNCHANGED <<wit, ctx, x, inp, level, checks, key>>
    BY EnginesAre DEF EndLeaf
  <1>2. PICK f : Rounded(f, Absorbed(wit.secret, TAG_LEAF), Rounds, x["python"])
    BY <1>1 DEF Stated, PermOK, Start, Running
  <1>3. PermNative(Absorbed(wit.secret, TAG_LEAF)) = x["python"]
    BY <1>2, PermIs
  <1>4. cur'["python"] = LeafHashNative(wit.secret)
    BY <1>1, <1>3 DEF LeafHashNative
  <1>5. level = 0
    BY <1>1 DEF Stated, ClimbOK
  <1>6. \E g : Climbed(g, level, cur["python"])'
    <2>a. PICK g : g = [k \in {0} |-> cur'["python"]]
      OBVIOUS
    <2>1. g[0] = cur'["python"] /\ 0 .. 0 - 1 = {}
      BY <2>a, SMT
    <2>2. Climbed(g, level, cur["python"])'
      BY <1>1, <1>4, <1>5, <2>1 DEF Climbed
    <2> QED BY <2>2
  <1>7. ClimbOK'
    BY <1>1, <1>6 DEF ClimbOK
  <1> QED BY <1>1, <1>7 DEF Stated, PermOK, ChecksOK, KeyOK, Running

LEMMA StartNodeStated == ASSUME Inv, Stated, StartNode PROVE Stated'
  <1> DEFINE b == wit.bits[level + 1]
             sib == wit.sibs[level + 1]
             c == cur["python"]
             left(g) == [i \in 0 .. 3 |-> Chosen(g, b, cur[g][i], sib[i])]
             right(g) == [i \in 0 .. 3 |-> Other(g, b, cur[g][i], sib[i])]
             input == [g \in Engines |-> Joined(left(g), right(g))]
  <1>1. /\ pc = "climb" /\ level < Depth /\ Permute("node", input)
        /\ UNCHANGED <<wit, ctx, cur, level, checks, key>>
    BY DEF StartNode
  <1>2. /\ pc' = "node" /\ round' = 0 /\ inp' = input
        /\ x'["python"] = Ext("python", input["python"])
    <2> HIDE DEF input
    <2> QED BY <1>1, Begins
  <1>3. inp'["python"] = Joined(left("python"), right("python"))
    BY <1>2, EnginesAre
  <1>4. inp'["python"] \in State
    <2>1. Inv'
      BY StartNodeOK
    <2> QED BY <2>1, EnginesAre DEF Inv, TypeOK
  <1>5. x'["python"] = MatmulExternal(inp'["python"])
    BY <1>2, <1>4, ExtOfState
  <1>6. PermOK'
    <2>1. Start' = inp'["python"]
      BY <1>2 DEF Start
    <2> QED BY <1>2, <1>5, <2>1, Fresh DEF PermOK
  <1>7. sib \in Digests /\ c \in Digests
    <2>1. level \in 0 .. Depth /\ Depth \in Nat
      BY WitnessOK DEF Inv, TypeOK
    <2>2. level # Depth
      BY <1>1, <2>1, SMT
    <2>3. sib \in Digests
      BY <2>1, <2>2, WitnessOK DEF Inv
    <2> QED BY <2>3, EnginesAre DEF Inv, TypeOK
  <1>8. ASSUME b \in {0, 1} PROVE inp'["python"] = Ordered(b, c, sib)
    <2> HIDE DEF b, c, sib
    <2>1. \A i \in 0 .. 3 : c[i] \in Field /\ sib[i] \in Field
      BY <1>7 DEF Digests
    <2>2. \A i \in 0 .. 3 : /\ Chosen("python", b, c[i], sib[i]) = IF b = 1 THEN sib[i] ELSE c[i]
                            /\ Other("python", b, c[i], sib[i]) = IF b = 1 THEN c[i] ELSE sib[i]
      BY <1>8, <2>1, BitChooses
    <2>3. c = [i \in 0 .. 3 |-> c[i]] /\ sib = [i \in 0 .. 3 |-> sib[i]]
      BY <1>7 DEF Digests
    <2>4. left("python") = [i \in 0 .. 3 |-> Chosen("python", b, c[i], sib[i])]
          /\ right("python") = [i \in 0 .. 3 |-> Other("python", b, c[i], sib[i])]
      BY DEF c
    <2>5. CASE b = 1
      <3>1. left("python") = sib /\ right("python") = c
        BY <2>2, <2>3, <2>4, <2>5
      <3> QED BY <1>3, <2>5, <3>1 DEF Ordered
    <2>6. CASE b # 1
      <3>1. left("python") = c /\ right("python") = sib
        BY <2>2, <2>3, <2>4, <2>6
      <3> QED BY <1>3, <2>6, <3>1 DEF Ordered
    <2> QED BY <2>5, <2>6
  <1> HIDE DEF input, left, right
  <1>9. ClimbOK'
    <2>1. BitsUpTo(level)' => \E f : Climbed(f, level, cur["python"])'
      BY <1>1 DEF Stated, ClimbOK, BitsUpTo, Climbed
    <2>2. wit'.bits[level' + 1] \in {0, 1} =>
              inp'["python"] = Ordered(wit'.bits[level' + 1], cur'["python"], wit'.sibs[level' + 1])
      BY <1>1, <1>8
    <2>3. (Ordered(wit.bits[level + 1], cur["python"], wit.sibs[level + 1]))'
              = Ordered(wit'.bits[level' + 1], cur'["python"], wit'.sibs[level' + 1])
      BY DEF Ordered, Joined
    <2> QED BY <1>2, <2>1, <2>2, <2>3 DEF ClimbOK
  <1> QED BY <1>1, <1>2, <1>6, <1>9 DEF Stated, ChecksOK, KeyOK

LEMMA EndNodeStated == ASSUME Inv, Stated, EndNode PROVE Stated'
  <1> DEFINE b == wit.bits[level + 1]
             sib == wit.sibs[level + 1]
             c == cur["python"]
             up == Above(b, c, sib)
  <1>1. /\ pc = "node" /\ round = Rounds /\ pc' = "climb" /\ level' = level + 1
        /\ cur'["python"] = [i \in 0 .. 3 |-> Add("python", x["python"][i], inp["python"][i])]
        /\ checks'["python"] = Append(checks["python"], BitCheck("python", b))
        /\ UNCHANGED <<wit, ctx, x, inp, key>>
    BY EnginesAre DEF EndNode
  <1>2. level \in Nat /\ level < Depth /\ c \in Digests /\ sib \in Digests
    <2>1. level < Depth
      BY <1>1 DEF Inv
    <2>2. level \in 0 .. Depth /\ Depth \in Nat
      BY WitnessOK DEF Inv, TypeOK
    <2>3. level # Depth
      BY <2>1, <2>2, SMT
    <2>4. sib \in Digests
      BY <2>2, <2>3, WitnessOK DEF Inv
    <2> QED BY <2>1, <2>2, <2>4, EnginesAre DEF Inv, TypeOK
  <1>3. PermNative(inp["python"]) = x["python"]
    <2>1. PICK f : Rounded(f, inp["python"], Rounds, x["python"])
      BY <1>1 DEF Stated, PermOK, Start, Running
    <2> QED BY <2>1, PermIs
  <1>4. ASSUME b \in {0, 1} PROVE cur'["python"] = up
    <2>1. inp["python"] = Ordered(b, c, sib)
      BY <1>1, <1>4 DEF Stated, ClimbOK
    <2> HIDE DEF b, c, sib
    <2>2. \A l, r : \A i \in 0 .. 3 : Joined(l, r)[i] = l[i]
      BY Places, SMT DEF Joined
    <2>3. ASSUME NEW l, NEW r, inp["python"] = Joined(l, r)
          PROVE  cur'["python"] = CompressNative(l, r)
      <3>1. CompressNative(l, r) = [i \in 0 .. 3 |-> (x["python"][i] + l[i]) % P]
        BY <1>3, <2>3 DEF CompressNative
      <3>2. \A i \in 0 .. 3 : inp["python"][i] = l[i]
        BY <2>2, <2>3
      <3> QED BY <1>1, <3>1, <3>2 DEF Add
    <2>4. CASE b = 1
      BY <2>1, <2>3, <2>4 DEF Ordered, Above
    <2>5. CASE b # 1
      BY <2>1, <2>3, <2>5 DEF Ordered, Above
    <2> QED BY <2>4, <2>5
  <1>5. level + 1 \in 1 .. level + 1 /\ \A k \in 1 .. level : k \in 1 .. level + 1
    BY <1>2, SMT
  <1>6. ASSUME BitsUpTo(level)'
        PROVE  \E f : Climbed(f, level, cur["python"])'
    <2>1. BitsUpTo(level) /\ b \in {0, 1}
      BY <1>1, <1>5, <1>6 DEF BitsUpTo
    <2>2. PICK f : Climbed(f, level, c)
      BY <1>1, <2>1 DEF Stated, ClimbOK
    <2>3. PICK g : Climbed(g, level + 1, up)
      BY <1>2, <2>2, LongerClimbed
    <2> HIDE DEF up
    <2>4. cur'["python"] = up
      BY <1>4, <2>1
    <2>5. Climbed(g, level, cur["python"])'
      BY <1>1, <2>3, <2>4 DEF Climbed
    <2> QED BY <2>5
  <1>7. ClimbOK'
    BY <1>1, <1>6 DEF ClimbOK
  <1>8. ChecksOK'
    <2> DEFINE s == checks["python"]
               e == BitCheck("python", b)
    <2>1. s \in Seq(Field) /\ Len(s) = level /\ \A n \in 1 .. level : s[n] = BitCheck("python", wit.bits[n])
      BY EnginesAre DEF Stated, ChecksOK, Inv, TypeOK
    <2>2. s \in Seq(Field \cup {e})
      BY <2>1
    <2> HIDE DEF e, s
    <2>3. Len(Append(s, e)) = level + 1 /\ Append(s, e)[level + 1] = e
          /\ \A n \in 1 .. level : Append(s, e)[n] = s[n]
      BY <1>2, <2>1, <2>2
    <2>4. \A n \in 1 .. level + 1 : n \in 1 .. level \/ n = level + 1
      BY <1>2, SMT
    <2>5. ASSUME NEW n \in 1 .. level + 1 PROVE Append(s, e)[n] = BitCheck("python", wit.bits[n])
      <3>1. CASE n = level + 1
        BY <2>3, <3>1 DEF e
      <3>2. CASE n \in 1 .. level
        BY <2>1, <2>3, <3>2
      <3> QED BY <2>4, <3>1, <3>2
    <2>6. \A n \in 1 .. level' : (BitCheck("python", wit.bits[n]))' = BitCheck("python", wit.bits[n])
      BY <1>1 DEF BitCheck, Sub, Mul
    <2> QED BY <1>1, <2>3, <2>5, <2>6 DEF ChecksOK, s, e
  <1> QED BY <1>1, <1>7, <1>8 DEF Stated, PermOK, KeyOK, Running

LEMMA StartKeyStated == ASSUME Inv, Stated, StartKey PROVE Stated'
  <1> DEFINE input == [g \in Engines |-> Absorbed(wit.secret, Cst(TAG_KEY))]
  <1>1. /\ pc = "climb" /\ level = Depth /\ Permute("key", input)
        /\ UNCHANGED <<wit, ctx, cur, level, checks, key, muls>>
    BY DEF StartKey
  <1>2. pc' = "key" /\ round' = 0 /\ x'["python"] = Ext("python", input["python"])
    <2> HIDE DEF input
    <2> QED BY <1>1, Begins
  <1>3. x'["python"] = MatmulExternal(Absorbed(wit.secret, TAG_KEY))
    <2>1. wit.secret \in Digests
      BY WitnessOK DEF Inv
    <2>2. input["python"] = Absorbed(wit.secret, Cst(TAG_KEY))
      BY EnginesAre
    <2> QED BY <1>2, <2>1, <2>2, Tagged, TagsAssumption
  <1>4. Start' = Absorbed(wit.secret, TAG_KEY)
    BY <1>1, <1>2 DEF Start
  <1>5. PermOK'
    BY <1>2, <1>3, <1>4, Fresh DEF PermOK
  <1>6. ClimbOK'
    BY <1>1, <1>2 DEF Stated, ClimbOK, BitsUpTo, Climbed, Depth
  <1> QED BY <1>1, <1>2, <1>5, <1>6 DEF Stated, ChecksOK, KeyOK

LEMMA StartMixStated == ASSUME Inv, Stated, StartMix PROVE Stated'
  <1> DEFINE mixed(g) == [i \in Positions |-> IF i < 4 THEN Add(g, x[g][i], ctx[i + 1])
                                                       ELSE x[g][i]]
             input == [g \in Engines |-> mixed(g)]
  <1>1. /\ pc = "key" /\ round = Rounds /\ Permute("mix", input)
        /\ UNCHANGED <<wit, ctx, cur, level, checks, key>>
    BY DEF StartMix
  <1>2. /\ pc' = "mix" /\ round' = 0 /\ inp' = input
        /\ x'["python"] = Ext("python", input["python"])
    <2> HIDE DEF input
    <2> QED BY <1>1, Begins
  <1>3. inp'["python"] = mixed("python")
    BY <1>2, EnginesAre
  <1>4. inp'["python"] \in State
    <2>1. Inv'
      BY StartMixOK
    <2> QED BY <2>1, EnginesAre DEF Inv, TypeOK
  <1>5. x'["python"] = MatmulExternal(inp'["python"])
    BY <1>2, <1>4, ExtOfState
  <1>6. PermOK'
    <2>1. Start' = inp'["python"]
      BY <1>2 DEF Start
    <2> QED BY <1>2, <1>5, <2>1, Fresh DEF PermOK
  <1>7. PermNative(Absorbed(wit.secret, TAG_KEY)) = x["python"]
    <2>1. PICK f : Rounded(f, Absorbed(wit.secret, TAG_KEY), Rounds, x["python"])
      BY <1>1 DEF Stated, PermOK, Start, Running
    <2> QED BY <2>1, PermIs
  <1>8. mixed("python") = Mixed
    BY <1>7 DEF Mixed, Add
  <1> HIDE DEF input, mixed
  <1>9. Mixed' = Mixed
    BY <1>1 DEF Mixed, PermNative
  <1>10. KeyOK'
    BY <1>2, <1>3, <1>8, <1>9 DEF KeyOK
  <1>11. ClimbOK'
    BY <1>1, <1>2 DEF Stated, ClimbOK, BitsUpTo, Climbed, Depth
  <1> QED BY <1>1, <1>6, <1>10, <1>11 DEF Stated, ChecksOK

LEMMA OutputStated == ASSUME Inv, Stated, Output PROVE Stated'
  <1> DEFINE words == [i \in 0 .. 3 |-> ctx[i + 1]]
  <1>1. /\ pc = "mix" /\ round = Rounds /\ pc' = "done"
        /\ key'["python"] = FirstFour(x["python"])
        /\ UNCHANGED <<wit, ctx, x, inp, cur, level, checks>>
    BY EnginesAre DEF Output
  <1>2. PermNative(Mixed) = x["python"]
    <2>1. PICK f : Rounded(f, Mixed, Rounds, x["python"])
      BY <1>1 DEF Stated, PermOK, KeyOK, Start, Running
    <2> QED BY <2>1, PermIs
  <1>3. PrfNative(wit.secret, words) = FirstFour(PermNative(Mixed))
    <2> DEFINE st == PermNative(Absorbed(wit.secret, TAG_KEY))
               u == [i \in Positions |-> IF i < 4 THEN (st[i] + words[i]) % P ELSE st[i]]
    <2>1. PrfNative(wit.secret, words) = FirstFour(PermNative(u))
      BY DEF PrfNative
    <2>2. u = Mixed
      BY Places DEF Mixed
    <2> QED BY <2>1, <2>2
  <1>4. (PrfNative(wit.secret, words))' = PrfNative(wit.secret, words)
    BY <1>1
  <1>5. KeyOK'
    BY <1>1, <1>2, <1>3, <1>4 DEF KeyOK
  <1>6. ClimbOK'
    BY <1>1 DEF Stated, ClimbOK, BitsUpTo, Climbed, Depth
  <1> QED BY <1>1, <1>5, <1>6 DEF Stated, PermOK, ChecksOK, Running

LEMMA StatedNext == Inv /\ Stated /\ [Next]_vars => Stated'
  <1> SUFFICES ASSUME Inv, Stated, [Next]_vars PROVE Stated'
    OBVIOUS
  <1>1. CASE \E w \in CtxWords : Draw(w)
    BY <1>1, DrawStated
  <1>2. CASE StartLeaf
    BY <1>2, StartLeafStated
  <1>3. CASE Full \/ Partial
    BY <1>3, RoundStated
  <1>4. CASE EndLeaf
    BY <1>4, EndLeafStated
  <1>5. CASE StartNode
    BY <1>5, StartNodeStated
  <1>6. CASE EndNode
    BY <1>6, EndNodeStated
  <1>7. CASE StartKey
    BY <1>7, StartKeyStated
  <1>8. CASE StartMix
    BY <1>8, StartMixStated
  <1>9. CASE Output
    BY <1>9, OutputStated
  <1>10. CASE UNCHANGED vars
    BY <1>10 DEF vars, Stated, PermOK, ClimbOK, ChecksOK, KeyOK, Start, Mixed, BitsUpTo, Climbed,
                 Rounded, Depth
  <1> QED BY <1>1, <1>2, <1>3, <1>4, <1>5, <1>6, <1>7, <1>8, <1>9, <1>10 DEF Next

LEMMA StatementHolds == ASSUME Prime, Inv, Stated PROVE CircuitIsTheStatement
  <1> SUFFICES ASSUME pc = "done"
               PROVE  /\ \A g \in Engines : key[g] = PrfNative(wit.secret, [i \in 0 .. 3 |-> ctx[i + 1]])
                      /\ \A g \in Engines : Len(checks[g]) = Depth
                      /\ \A n \in 1 .. Depth : checks["rust"][n] = 0 <=> wit.bits[n] \in {0, 1}
                      /\ (\A n \in 1 .. Depth : wit.bits[n] \in {0, 1}) =>
                             \A g \in Engines : cur[g] = NativeRoot
    BY DEF CircuitIsTheStatement
  <1>1. level = Depth /\ Depth \in Nat
    BY WitnessOK DEF Stated, ClimbOK, Inv
  <1>2. \A g \in Engines : key[g] = key["python"] /\ checks[g] = checks["python"] /\ cur[g] = cur["python"]
    BY EnginesAre DEF Inv, EnginesAgree
  <1>3. \A g \in Engines : key[g] = PrfNative(wit.secret, [i \in 0 .. 3 |-> ctx[i + 1]])
    BY <1>2 DEF Stated, KeyOK
  <1>4. \A g \in Engines : Len(checks[g]) = Depth
    BY <1>1, <1>2 DEF Stated, ChecksOK
  <1>5. ASSUME NEW n \in 1 .. Depth
        PROVE  checks["rust"][n] = 0 <=> wit.bits[n] \in {0, 1}
    <2>1. wit.bits[n] \in Field
      <3>1. n - 1 \in 0 .. Depth /\ n - 1 # Depth /\ (n - 1) + 1 = n
        BY <1>1, SMT
      <3> QED BY <3>1, WitnessOK DEF Inv
    <2>2. checks["rust"][n] = BitCheck("python", wit.bits[n])
      BY <1>1, <1>2, EnginesAre DEF Stated, ChecksOK
    <2> QED BY <2>1, <2>2, CheckDecides
  <1>6. ASSUME \A n \in 1 .. Depth : wit.bits[n] \in {0, 1}
        PROVE  \A g \in Engines : cur[g] = NativeRoot
    <2>1. PICK f : Climbed(f, Depth, cur["python"])
      BY <1>1, <1>6 DEF Stated, ClimbOK, BitsUpTo
    <2>2. NativeRoot = cur["python"]
      BY <1>1, <2>1, RootIs
    <2> QED BY <1>2, <2>2
  <1> QED BY <1>3, <1>4, <1>5, <1>6

(* With a prime modulus, a proof proves what it is meant to: both engines compute the key
   of the secret for the context and, on a path of bits, the root over the leaf of the
   secret, as the native functions do; and the bit checks are zero for bits and for
   nothing else.  For every number of rounds, all tables, every depth and every witness. *)
THEOREM CircuitAlwaysTheStatement ==
    ASSUME Prime
    PROVE  Spec => []CircuitIsTheStatement
  <1>1. Inv /\ Stated => CircuitIsTheStatement
    BY StatementHolds
  <1> QED BY <1>1, StatedInit, StatedNext, CircuitInvariant, PTL DEF Spec

=============================================================================
