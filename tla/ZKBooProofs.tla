---------------------------- MODULE ZKBooProofs ----------------------------
(***************************************************************************)
(* Type correctness, completeness and soundness of a repetition, for every *)
(* modulus, circuit, tape and prover.                                      *)
(***************************************************************************)
EXTENDS ZKBoo, FiniteSetTheorems, TLAPS

-----------------------------------------------------------------------------
(* Arithmetic.  Two integers are congruent when they differ by a multiple of P. *)
Cong(x, y) == \E k \in Int : x = y + P * k

(* The operations of field.rs stay in the field and are congruent to those of Int. *)
LEMMA FieldOps ==
    ASSUME NEW x \in Field, NEW y \in Field
    PROVE  /\ Add(x, y) \in Field /\ Cong(Add(x, y), x + y)
           /\ Sub(x, y) \in Field /\ Cong(Sub(x, y), x - y)
           /\ Mul(x, y) \in Field /\ Cong(Mul(x, y), x * y)
  <1> x \in Int /\ y \in Int /\ P \in Int /\ P > 0
    BY FieldAssumption DEF Field
  <1>1. Add(x, y) \in Field /\ Cong(Add(x, y), x + y)
    <2>1. Add(x, y) = x + y + P * 0 \/ Add(x, y) = x + y + P * (-1)
      BY DEF Add
    <2>2. Add(x, y) \in Field
      BY DEF Add, Field
    <2> QED BY <2>1, <2>2 DEF Cong
  <1>2. Sub(x, y) \in Field /\ Cong(Sub(x, y), x - y)
    <2>1. Sub(x, y) = (x - y) + P * 0 \/ Sub(x, y) = (x - y) + P * 1
      BY DEF Sub
    <2>2. Sub(x, y) \in Field
      BY DEF Sub, Field
    <2>3. Cong(Sub(x, y), x - y)
      <3> DEFINE k == IF x >= y THEN 0 ELSE 1
      <3>1. k \in Int /\ Sub(x, y) = (x - y) + P * k
        BY <2>1 DEF Sub
      <3> QED BY <3>1 DEF Cong
    <2> QED BY <2>2, <2>3
  <1>3. Mul(x, y) \in Field /\ Cong(Mul(x, y), x * y)
    <2> DEFINE n == x * y
    <2>1. n \in Int OBVIOUS
    <2> HIDE DEF n
    <2>2. n % P \in 0 .. P - 1 /\ n = P * (n \div P) + (n % P) /\ n \div P \in Int
      BY <2>1
    <2>3. n % P = n + P * (-(n \div P)) /\ -(n \div P) \in Int
      BY <2>1, <2>2
    <2> QED BY <2>2, <2>3 DEF Mul, Cong, Field, n
  <1> QED BY <1>1, <1>2, <1>3

(* Congruence is respected by sums and products, and is equality inside the field. *)
LEMMA CongRules ==
    /\ \A x \in Int : Cong(x, x)
    /\ \A x, y \in Int : Cong(x, y) => Cong(y, x)
    /\ \A x, y, z \in Int : Cong(x, y) /\ Cong(y, z) => Cong(x, z)
    /\ \A x, y, u, v \in Int : Cong(x, y) /\ Cong(u, v) =>
           Cong(x + u, y + v) /\ Cong(x - u, y - v) /\ Cong(x * u, y * v)
    /\ \A x, y \in Field : Cong(x, y) => x = y
  <1> P \in Int /\ P > 0
    BY FieldAssumption
  <1>1. ASSUME NEW x \in Int PROVE Cong(x, x)
    <2> x = x + P * 0 OBVIOUS
    <2> QED BY DEF Cong
  <1>2. ASSUME NEW x \in Int, NEW y \in Int, Cong(x, y) PROVE Cong(y, x)
    <2> PICK k \in Int : x = y + P * k
      BY <1>2 DEF Cong
    <2> y = x + P * (-k) /\ -k \in Int OBVIOUS
    <2> QED BY DEF Cong
  <1>3. ASSUME NEW x \in Int, NEW y \in Int, NEW z \in Int, Cong(x, y), Cong(y, z)
        PROVE  Cong(x, z)
    <2> PICK k \in Int : x = y + P * k
      BY <1>3 DEF Cong
    <2> PICK l \in Int : y = z + P * l
      BY <1>3 DEF Cong
    <2> x = z + P * (k + l) /\ k + l \in Int OBVIOUS
    <2> QED BY DEF Cong
  <1>4. ASSUME NEW x \in Int, NEW y \in Int, NEW u \in Int, NEW v \in Int,
               Cong(x, y), Cong(u, v)
        PROVE  Cong(x + u, y + v) /\ Cong(x - u, y - v) /\ Cong(x * u, y * v)
    <2> PICK k \in Int : x = y + P * k
      BY <1>4 DEF Cong
    <2> PICK l \in Int : u = v + P * l
      BY <1>4 DEF Cong
    <2>1. x + u = y + v + P * (k + l) /\ k + l \in Int OBVIOUS
    <2>2. x - u = y - v + P * (k - l) /\ k - l \in Int OBVIOUS
    <2>3. x * u = y * v + P * (k * v + y * l + P * k * l) /\ k * v + y * l + P * k * l \in Int
      OBVIOUS
    <2> QED BY <2>1, <2>2, <2>3 DEF Cong
  <1>5. ASSUME NEW x \in Field, NEW y \in Field, Cong(x, y) PROVE x = y
    <2> PICK k \in Int : x = y + P * k
      BY <1>5 DEF Cong
    <2> x \in 0 .. P - 1 /\ y \in 0 .. P - 1
      BY DEF Field
    <2>1. ~(k >= 1)
      <3> SUFFICES ASSUME k >= 1 PROVE FALSE OBVIOUS
      <3> P * k >= P OBVIOUS
      <3> QED OBVIOUS
    <2>2. ~(k <= -1)
      <3> SUFFICES ASSUME k <= -1 PROVE FALSE OBVIOUS
      <3> P * k <= -P OBVIOUS
      <3> QED OBVIOUS
    <2> k = 0 BY <2>1, <2>2
    <2> QED OBVIOUS
  <1> QED BY <1>1, <1>2, <1>3, <1>4, <1>5

(* A party's share of a product is congruent to the cross terms it stands for. *)
LEMMA MulShareIs ==
    ASSUME NEW a \in Field, NEW a1 \in Field, NEW b \in Field, NEW b1 \in Field,
           NEW r \in Field, NEW r1 \in Field
    PROVE  /\ MulShare(a, a1, b, b1, r, r1) \in Field
           /\ Cong(MulShare(a, a1, b, b1, r, r1), a * b + a1 * b + a * b1 + r - r1)
  <1> DEFINE m0 == Mul(a, b)
             m1 == Mul(a1, b)
             m2 == Mul(a, b1)
             s1 == Add(m0, m1)
             s2 == Add(m2, r)
             s3 == Add(s1, s2)
             s4 == Sub(s3, r1)
  <1>0. Field \subseteq Int
    BY FieldAssumption DEF Field
  <1>1. m0 \in Field /\ m1 \in Field /\ m2 \in Field
        /\ Cong(m0, a * b) /\ Cong(m1, a1 * b) /\ Cong(m2, a * b1)
    BY FieldOps
  <1> HIDE DEF m0, m1, m2
  <1>2. s1 \in Field /\ s2 \in Field /\ Cong(s1, m0 + m1) /\ Cong(s2, m2 + r)
    BY <1>1, FieldOps
  <1>3. Cong(m0 + m1, a * b + a1 * b)
    BY <1>0, <1>1, CongRules
  <1>4. Cong(m2 + r, a * b1 + r)
    BY <1>0, <1>1, CongRules
  <1> HIDE DEF s1, s2
  <1>5. Cong(s1, a * b + a1 * b)
    <2> m0 + m1 \in Int /\ a * b + a1 * b \in Int /\ s1 \in Int
      BY <1>0, <1>1, <1>2
    <2> QED BY <1>2, <1>3, CongRules
  <1>6. Cong(s2, a * b1 + r)
    <2> m2 + r \in Int /\ a * b1 + r \in Int /\ s2 \in Int
      BY <1>0, <1>1, <1>2
    <2> QED BY <1>2, <1>4, CongRules
  <1>7. s3 \in Field /\ Cong(s3, s1 + s2)
    BY <1>2, FieldOps
  <1> HIDE DEF s3
  <1>8. s4 \in Field /\ Cong(s4, s3 - r1)
    BY <1>7, FieldOps
  <1> HIDE DEF s4
  <1> DEFINE big == (a * b + a1 * b) + (a * b1 + r)
  <1>9. big \in Int /\ s1 + s2 \in Int /\ s1 \in Int /\ s2 \in Int /\ s3 \in Int /\ s4 \in Int
        /\ r1 \in Int /\ a * b + a1 * b \in Int /\ a * b1 + r \in Int
    BY <1>0, <1>2, <1>7, <1>8
  <1>10. Cong(s1 + s2, big)
    BY <1>5, <1>6, <1>9, CongRules
  <1>11. big = a * b + a1 * b + a * b1 + r
    BY <1>0
  <1> HIDE DEF big
  <1>12. Cong(s3, big)
    BY <1>7, <1>9, <1>10, CongRules
  <1>13. Cong(s3 - r1, big - r1)
    BY <1>9, <1>12, CongRules
  <1>14. Cong(s4, big - r1)
    <2> s3 - r1 \in Int /\ big - r1 \in Int
      BY <1>9
    <2> QED BY <1>8, <1>9, <1>13, CongRules
  <1>15. s4 = MulShare(a, a1, b, b1, r, r1)
    BY DEF s4, s3, s2, s1, m0, m1, m2, MulShare
  <1>16. big - r1 = a * b + a1 * b + a * b1 + r - r1
    <2> DEFINE u == a * b
               v == a1 * b
               w == a * b1
    <2>1. u \in Int /\ v \in Int /\ w \in Int /\ r \in Int /\ r1 \in Int
      BY <1>0
    <2>2. big = (u + v) + (w + r)
      BY DEF big
    <2> HIDE DEF u, v, w
    <2>3. big - r1 = u + v + w + r - r1
      BY <2>1, <2>2
    <2> QED BY <2>3 DEF u, v, w
  <1> QED BY <1>8, <1>14, <1>15, <1>16

(* Adding up three shares. *)
LEMMA SumOfThree ==
    ASSUME NEW x \in Field, NEW y \in Field, NEW z \in Field
    PROVE  Add(Add(x, y), z) \in Field /\ Cong(Add(Add(x, y), z), x + y + z)
  <1>0. x \in Int /\ y \in Int /\ z \in Int
    BY FieldAssumption DEF Field
  <1> DEFINE s == Add(x, y)
             t == Add(s, z)
  <1>1. s \in Field /\ Cong(s, x + y)
    BY FieldOps
  <1> HIDE DEF s
  <1>2. t \in Field /\ Cong(t, s + z)
    BY <1>1, FieldOps
  <1> HIDE DEF t
  <1>3. s \in Int /\ t \in Int
    BY <1>1, <1>2, FieldAssumption DEF Field
  <1>4. x + y \in Int /\ s + z \in Int /\ x + y + z \in Int
    BY <1>0, <1>3
  <1>5. Cong(s + z, (x + y) + z)
    BY <1>0, <1>1, <1>3, <1>4, CongRules
  <1>6. Cong(t, x + y + z)
    BY <1>2, <1>3, <1>4, <1>5, CongRules
  <1> QED BY <1>2, <1>6 DEF s, t

(* The masks cancel: the shares of a product add up to the product. *)
LEMMA MasksCancel ==
    ASSUME NEW a \in [Parties -> Field], NEW b \in [Parties -> Field],
           NEW r \in [Parties -> Field]
    PROVE  Add(Add(MulShare(a[0], a[1], b[0], b[1], r[0], r[1]),
                   MulShare(a[1], a[2], b[1], b[2], r[1], r[2])),
               MulShare(a[2], a[0], b[2], b[0], r[2], r[0]))
             = Mul(Add(Add(a[0], a[1]), a[2]), Add(Add(b[0], b[1]), b[2]))
  <1> DEFINE a0 == a[0]
             a1 == a[1]
             a2 == a[2]
             b0 == b[0]
             b1 == b[1]
             b2 == b[2]
             r0 == r[0]
             r1 == r[1]
             r2 == r[2]
  <1>f. /\ a0 \in Field /\ a1 \in Field /\ a2 \in Field
        /\ b0 \in Field /\ b1 \in Field /\ b2 \in Field
        /\ r0 \in Field /\ r1 \in Field /\ r2 \in Field
    BY DEF Parties
  <1> SUFFICES Add(Add(MulShare(a0, a1, b0, b1, r0, r1), MulShare(a1, a2, b1, b2, r1, r2)),
                   MulShare(a2, a0, b2, b0, r2, r0))
                 = Mul(Add(Add(a0, a1), a2), Add(Add(b0, b1), b2))
    OBVIOUS
  <1> HIDE DEF a0, a1, a2, b0, b1, b2, r0, r1, r2
  <1>0. /\ a0 \in Int /\ a1 \in Int /\ a2 \in Int /\ b0 \in Int /\ b1 \in Int /\ b2 \in Int
        /\ r0 \in Int /\ r1 \in Int /\ r2 \in Int
    BY <1>f, FieldAssumption DEF Field
  <1> DEFINE z0 == MulShare(a0, a1, b0, b1, r0, r1)
             z1 == MulShare(a1, a2, b1, b2, r1, r2)
             z2 == MulShare(a2, a0, b2, b0, r2, r0)
             c0 == a0 * b0 + a1 * b0 + a0 * b1 + r0 - r1
             c1 == a1 * b1 + a2 * b1 + a1 * b2 + r1 - r2
             c2 == a2 * b2 + a0 * b2 + a2 * b0 + r2 - r0
             SA == Add(Add(a0, a1), a2)
             SB == Add(Add(b0, b1), b2)
             A == a0 + a1 + a2
             B == b0 + b1 + b2
             whole == A * B
             SASB == SA * SB
             lhs == Add(Add(z0, z1), z2)
             rhs == Mul(SA, SB)
  <1>1. z0 \in Field /\ z1 \in Field /\ z2 \in Field
        /\ Cong(z0, c0) /\ Cong(z1, c1) /\ Cong(z2, c2)
    BY <1>f, MulShareIs
  <1>2. c0 \in Int /\ c1 \in Int /\ c2 \in Int /\ A \in Int /\ B \in Int
    BY <1>0
  <1>3. c0 + c1 + c2 = whole
    BY <1>0
  <1>4. SA \in Field /\ SB \in Field /\ Cong(SA, A) /\ Cong(SB, B)
    BY <1>f, SumOfThree
  <1> HIDE DEF z0, z1, z2, c0, c1, c2, SA, SB, A, B
  <1>5. lhs \in Field /\ Cong(lhs, z0 + z1 + z2)
    BY <1>1, SumOfThree
  <1>6. rhs \in Field /\ Cong(rhs, SASB)
    BY <1>4, FieldOps
  <1> HIDE DEF lhs, rhs
  <1>7. z0 \in Int /\ z1 \in Int /\ z2 \in Int /\ SA \in Int /\ SB \in Int /\ lhs \in Int /\ rhs \in Int
    BY <1>1, <1>4, <1>5, <1>6, FieldAssumption DEF Field
  <1>8. /\ z0 + z1 \in Int /\ z0 + z1 + z2 \in Int /\ c0 + c1 \in Int /\ c0 + c1 + c2 \in Int
        /\ SASB \in Int /\ whole \in Int
    BY <1>2, <1>7
  <1>9. Cong(SASB, whole)
    BY <1>2, <1>4, <1>7, CongRules
  <1> HIDE DEF whole, SASB
  <1>10. Cong(z0 + z1, c0 + c1)
    BY <1>1, <1>2, <1>7, CongRules
  <1>11. Cong(z0 + z1 + z2, c0 + c1 + c2)
    BY <1>1, <1>2, <1>7, <1>8, <1>10, CongRules
  <1>12. Cong(lhs, whole)
    BY <1>3, <1>5, <1>7, <1>8, <1>11, CongRules
  <1>13. Cong(rhs, whole)
    BY <1>6, <1>7, <1>8, <1>9, CongRules
  <1>14. Cong(lhs, rhs)
    BY <1>7, <1>8, <1>12, <1>13, CongRules
  <1>15. lhs = rhs
    BY <1>5, <1>6, <1>14, CongRules
  <1> QED BY <1>15 DEF lhs, rhs, z0, z1, z2, SA, SB

(* A sum of three shares is congruent to the sum of what each is congruent to; two
   members of the field congruent to the same integer are equal. *)
LEMMA SumOfThreeIs ==
    ASSUME NEW z0 \in Field, NEW z1 \in Field, NEW z2 \in Field,
           NEW c0 \in Int, NEW c1 \in Int, NEW c2 \in Int,
           Cong(z0, c0), Cong(z1, c1), Cong(z2, c2)
    PROVE  Cong(Add(Add(z0, z1), z2), c0 + c1 + c2)
  <1> DEFINE z == Add(Add(z0, z1), z2)
  <1>1. z \in Field /\ Cong(z, z0 + z1 + z2)
    BY SumOfThree
  <1> HIDE DEF z
  <1>2. z0 \in Int /\ z1 \in Int /\ z2 \in Int /\ z \in Int
    BY <1>1, FieldAssumption DEF Field
  <1>3. z0 + z1 \in Int /\ c0 + c1 \in Int /\ z0 + z1 + z2 \in Int /\ c0 + c1 + c2 \in Int
    BY <1>2
  <1>4. Cong(z0 + z1, c0 + c1)
    BY <1>2, CongRules
  <1>5. Cong(z0 + z1 + z2, c0 + c1 + c2)
    BY <1>2, <1>3, <1>4, CongRules
  <1>6. Cong(z, c0 + c1 + c2)
    BY <1>1, <1>2, <1>3, <1>5, CongRules
  <1> QED BY <1>6 DEF z

LEMMA SameResidue ==
    ASSUME NEW x \in Field, NEW y \in Field, NEW n \in Int, Cong(x, n), Cong(y, n)
    PROVE  x = y
  <1> x \in Int /\ y \in Int
    BY FieldAssumption DEF Field
  <1> Cong(x, y)
    BY CongRules
  <1> QED BY CongRules

(* What three shares stand for. *)
Three(t) == Add(Add(t[0], t[1]), t[2])

(* Each linear gate on the shares adds up to the gate on the sums. *)
LEMMA LinearGates ==
    ASSUME NEW x \in [Parties -> Field], NEW y \in [Parties -> Field], NEW c \in Field
    PROVE  /\ Add(Add(c, 0), 0) = c
           /\ Add(Add(Add(x[0], y[0]), Add(x[1], y[1])), Add(x[2], y[2]))
                = Add(Three(x), Three(y))
           /\ Add(Add(Sub(x[0], y[0]), Sub(x[1], y[1])), Sub(x[2], y[2]))
                = Sub(Three(x), Three(y))
           /\ Add(Add(Add(x[0], c), x[1]), x[2]) = Add(Three(x), c)
           /\ Add(Add(Mul(x[0], c), Mul(x[1], c)), Mul(x[2], c)) = Mul(Three(x), c)
  <1> DEFINE x0 == x[0]
             x1 == x[1]
             x2 == x[2]
             y0 == y[0]
             y1 == y[1]
             y2 == y[2]
  <1>f. /\ x0 \in Field /\ x1 \in Field /\ x2 \in Field
        /\ y0 \in Field /\ y1 \in Field /\ y2 \in Field
    BY DEF Parties
  <1> HIDE DEF x0, x1, x2, y0, y1, y2
  <1>0. /\ x0 \in Int /\ x1 \in Int /\ x2 \in Int /\ y0 \in Int /\ y1 \in Int /\ y2 \in Int
        /\ c \in Int /\ 0 \in Field
    BY <1>f, FieldAssumption DEF Field
  <1> DEFINE X == Add(Add(x0, x1), x2)
             Y == Add(Add(y0, y1), y2)
             sx == x0 + x1 + x2
             sy == y0 + y1 + y2
  <1>1. X \in Field /\ Cong(X, sx) /\ Y \in Field /\ Cong(Y, sy)
    BY <1>f, SumOfThree
  <1>2. sx \in Int /\ sy \in Int
    BY <1>0
  <1> HIDE DEF X, Y
  <1>3. X \in Int /\ Y \in Int
    BY <1>1, FieldAssumption DEF Field
  <1>4. Add(Add(c, 0), 0) = c
    BY <1>0, FieldAssumption DEF Add, Field
  <1>5. Add(Add(Add(x0, y0), Add(x1, y1)), Add(x2, y2)) = Add(X, Y)
    <2> DEFINE z0 == Add(x0, y0)
               z1 == Add(x1, y1)
               z2 == Add(x2, y2)
    <2>1. /\ z0 \in Field /\ z1 \in Field /\ z2 \in Field
          /\ Cong(z0, x0 + y0) /\ Cong(z1, x1 + y1) /\ Cong(z2, x2 + y2)
      BY <1>f, FieldOps
    <2> HIDE DEF z0, z1, z2
    <2>2. Cong(Add(Add(z0, z1), z2), (x0 + y0) + (x1 + y1) + (x2 + y2))
      <3> x0 + y0 \in Int /\ x1 + y1 \in Int /\ x2 + y2 \in Int
        BY <1>0
      <3> QED BY <2>1, SumOfThreeIs
    <2>3. (x0 + y0) + (x1 + y1) + (x2 + y2) = sx + sy
      BY <1>0
    <2>4. Add(X, Y) \in Field /\ Cong(Add(X, Y), X + Y)
      BY <1>1, FieldOps
    <2>5. Cong(X + Y, sx + sy)
      BY <1>1, <1>2, <1>3, CongRules
    <2> HIDE DEF sx, sy
    <2>6. Cong(Add(X, Y), sx + sy)
      <3> Add(X, Y) \in Int /\ X + Y \in Int /\ sx + sy \in Int
        BY <1>2, <1>3, <2>4, FieldAssumption DEF Field
      <3> QED BY <2>4, <2>5, CongRules
    <2>7. Add(Add(z0, z1), z2) \in Field
      BY <1>f, <2>1, SumOfThree
    <2>8. Add(Add(z0, z1), z2) = Add(X, Y)
      <3> sx + sy \in Int
        BY <1>2
      <3> QED BY <2>2, <2>3, <2>4, <2>6, <2>7, SameResidue
    <2> QED BY <2>8 DEF z0, z1, z2
  <1>6. Add(Add(Sub(x0, y0), Sub(x1, y1)), Sub(x2, y2)) = Sub(X, Y)
    <2> DEFINE z0 == Sub(x0, y0)
               z1 == Sub(x1, y1)
               z2 == Sub(x2, y2)
    <2>1. /\ z0 \in Field /\ z1 \in Field /\ z2 \in Field
          /\ Cong(z0, x0 - y0) /\ Cong(z1, x1 - y1) /\ Cong(z2, x2 - y2)
      BY <1>f, FieldOps
    <2> HIDE DEF z0, z1, z2
    <2>2. Cong(Add(Add(z0, z1), z2), (x0 - y0) + (x1 - y1) + (x2 - y2))
      <3> x0 - y0 \in Int /\ x1 - y1 \in Int /\ x2 - y2 \in Int
        BY <1>0
      <3> QED BY <2>1, SumOfThreeIs
    <2>3. (x0 - y0) + (x1 - y1) + (x2 - y2) = sx - sy
      BY <1>0
    <2>4. Sub(X, Y) \in Field /\ Cong(Sub(X, Y), X - Y)
      BY <1>1, FieldOps
    <2>5. Cong(X - Y, sx - sy)
      BY <1>1, <1>2, <1>3, CongRules
    <2> HIDE DEF sx, sy
    <2>6. Cong(Sub(X, Y), sx - sy)
      <3> Sub(X, Y) \in Int /\ X - Y \in Int /\ sx - sy \in Int
        BY <1>2, <1>3, <2>4, FieldAssumption DEF Field
      <3> QED BY <2>4, <2>5, CongRules
    <2>7. Add(Add(z0, z1), z2) \in Field
      BY <1>f, <2>1, SumOfThree
    <2>8. Add(Add(z0, z1), z2) = Sub(X, Y)
      <3> sx - sy \in Int
        BY <1>2
      <3> QED BY <2>2, <2>3, <2>4, <2>6, <2>7, SameResidue
    <2> QED BY <2>8 DEF z0, z1, z2
  <1>7. Add(Add(Add(x0, c), x1), x2) = Add(X, c)
    <2> DEFINE z0 == Add(x0, c)
    <2>1. z0 \in Field /\ Cong(z0, x0 + c)
      BY <1>f, FieldOps
    <2> HIDE DEF z0
    <2>2. Cong(x1, x1) /\ Cong(x2, x2) /\ Cong(c, c)
      BY <1>0, CongRules
    <2>3. Cong(Add(Add(z0, x1), x2), (x0 + c) + x1 + x2)
      <3> x0 + c \in Int
        BY <1>0
      <3> QED BY <1>0, <1>f, <2>1, <2>2, SumOfThreeIs
    <2>4. (x0 + c) + x1 + x2 = sx + c
      BY <1>0
    <2>5. Add(X, c) \in Field /\ Cong(Add(X, c), X + c)
      BY <1>1, FieldOps
    <2>6. Cong(X + c, sx + c)
      BY <1>0, <1>1, <1>2, <1>3, <2>2, CongRules
    <2> HIDE DEF sx
    <2>7. Cong(Add(X, c), sx + c)
      <3> Add(X, c) \in Int /\ X + c \in Int /\ sx + c \in Int
        BY <1>0, <1>2, <1>3, <2>5, FieldAssumption DEF Field
      <3> QED BY <2>5, <2>6, CongRules
    <2>8. Add(Add(z0, x1), x2) \in Field
      BY <1>f, <2>1, SumOfThree
    <2>9. Add(Add(z0, x1), x2) = Add(X, c)
      <3> sx + c \in Int
        BY <1>0, <1>2
      <3> QED BY <2>3, <2>4, <2>5, <2>7, <2>8, SameResidue
    <2> QED BY <2>9 DEF z0
  <1>8. Add(Add(Mul(x0, c), Mul(x1, c)), Mul(x2, c)) = Mul(X, c)
    <2> DEFINE z0 == Mul(x0, c)
               z1 == Mul(x1, c)
               z2 == Mul(x2, c)
               whole == sx * c
    <2>1. /\ z0 \in Field /\ z1 \in Field /\ z2 \in Field
          /\ Cong(z0, x0 * c) /\ Cong(z1, x1 * c) /\ Cong(z2, x2 * c)
      BY <1>f, FieldOps
    <2> HIDE DEF z0, z1, z2
    <2>2. Cong(Add(Add(z0, z1), z2), x0 * c + x1 * c + x2 * c)
      <3> x0 * c \in Int /\ x1 * c \in Int /\ x2 * c \in Int
        BY <1>0
      <3> QED BY <2>1, SumOfThreeIs
    <2>3. x0 * c + x1 * c + x2 * c = whole
      BY <1>0
    <2>4. Mul(X, c) \in Field /\ Cong(Mul(X, c), X * c)
      BY <1>1, FieldOps
    <2>5. Cong(X * c, whole) /\ X * c \in Int /\ whole \in Int
      <3> Cong(c, c)
        BY <1>0, CongRules
      <3> QED BY <1>0, <1>1, <1>2, <1>3, CongRules
    <2> HIDE DEF whole
    <2>6. Cong(Mul(X, c), whole)
      <3> Mul(X, c) \in Int
        BY <2>4, FieldAssumption DEF Field
      <3> QED BY <2>4, <2>5, CongRules
    <2>7. Add(Add(z0, z1), z2) \in Field
      BY <1>f, <2>1, SumOfThree
    <2>8. Add(Add(z0, z1), z2) = Mul(X, c)
      BY <2>2, <2>3, <2>4, <2>5, <2>6, <2>7, SameResidue
    <2> QED BY <2>8 DEF z0, z1, z2
  <1> QED BY <1>4, <1>5, <1>6, <1>7, <1>8 DEF X, Y, Three, x0, x1, x2, y0, y1, y2

-----------------------------------------------------------------------------
(* The gates, and the multiplications among the first n of them. *)
M(n) == Cardinality(MulsUpTo(n))

LEMMA GateFacts ==
    /\ Len(Program) \in Nat /\ NumInputs \in Nat /\ NumWires \in Nat
    /\ \A k \in 1 .. Len(Program) :
           /\ Program[k] \in Gates
           /\ Program[k].a \in 1 .. NumInputs + k - 1
           /\ Program[k].b \in 1 .. NumInputs + k - 1
           /\ Program[k].c \in Field
    /\ \A k \in DOMAIN Outputs : Outputs[k] \in 1 .. NumWires
  <1>1. Len(Program) \in Nat /\ NumInputs \in Nat /\ DOMAIN Program = 1 .. Len(Program)
        /\ \A k \in 1 .. Len(Program) : Program[k] \in Gates
    BY ProgramAssumption
  <1>2. \A k \in 1 .. Len(Program) :
           Program[k].a \in 1 .. NumInputs + k - 1 /\ Program[k].b \in 1 .. NumInputs + k - 1
    BY <1>1, ProgramAssumption
  <1>3. \A k \in 1 .. Len(Program) : Program[k].c \in Field
    BY <1>1 DEF Gates
  <1>4. \A k \in DOMAIN Outputs : Outputs[k] \in 1 .. NumWires
    <2> DEFINE S == 1 .. NumWires
    <2>1. Outputs \in Seq(S)
      BY ProgramAssumption
    <2> HIDE DEF S
    <2>2. \A k \in DOMAIN Outputs : Outputs[k] \in S
      BY <2>1
    <2> QED BY <2>2 DEF S
  <1> QED BY <1>1, <1>2, <1>3, <1>4 DEF NumWires

LEMMA CountMuls ==
    /\ M(0) = 0
    /\ \A n \in 0 .. Len(Program) : M(n) \in Nat /\ M(n) <= NumMuls
    /\ \A n \in 0 .. Len(Program) - 1 :
           /\ Program[n + 1].op = "mul" => M(n + 1) = M(n) + 1
           /\ Program[n + 1].op # "mul" => M(n + 1) = M(n)
    /\ NumMuls \in Nat /\ NumMuls = M(Len(Program))
  <1> Len(Program) \in Nat
    BY GateFacts
  <1>1. \A n \in 0 .. Len(Program) : IsFiniteSet(MulsUpTo(n)) /\ M(n) \in Nat
    <2> TAKE n \in 0 .. Len(Program)
    <2> IsFiniteSet(1 .. n)
      BY FS_Interval
    <2> MulsUpTo(n) \subseteq 1 .. n
      BY DEF MulsUpTo
    <2> QED BY FS_Subset, FS_CardinalityType DEF M
  <1>2. M(0) = 0
    <2> MulsUpTo(0) = {}
      BY DEF MulsUpTo
    <2> QED BY FS_EmptySet DEF M
  <1>3. NumMuls = M(Len(Program))
    BY DEF NumMuls, M
  <1>4. \A n \in 0 .. Len(Program) : M(n) <= NumMuls
    <2> TAKE n \in 0 .. Len(Program)
    <2> MulsUpTo(n) \subseteq MulsUpTo(Len(Program))
      BY DEF MulsUpTo
    <2> QED BY <1>1, <1>3, FS_Subset DEF M
  <1>5. ASSUME NEW n \in 0 .. Len(Program) - 1
        PROVE  /\ Program[n + 1].op = "mul" => M(n + 1) = M(n) + 1
               /\ Program[n + 1].op # "mul" => M(n + 1) = M(n)
    <2>1. CASE Program[n + 1].op = "mul"
      <3> MulsUpTo(n + 1) = MulsUpTo(n) \cup {n + 1} /\ n + 1 \notin MulsUpTo(n)
        BY <2>1 DEF MulsUpTo
      <3> QED BY <1>1, <2>1, FS_AddElement DEF M
    <2>2. CASE Program[n + 1].op # "mul"
      <3> MulsUpTo(n + 1) = MulsUpTo(n)
        BY <2>2 DEF MulsUpTo
      <3> QED BY <2>2 DEF M
    <2> QED BY <2>1, <2>2
  <1> QED BY <1>1, <1>2, <1>3, <1>4, <1>5

(* A product among the first n gates has its place among the first M(n) products. *)
LEMMA MulsBelow ==
    ASSUME NEW n \in 0 .. Len(Program), NEW l \in 1 .. n, Program[l].op = "mul"
    PROVE  M(l) \in 1 .. M(n)
  <1> Len(Program) \in Nat
    BY GateFacts
  <1> l \in 0 .. Len(Program) /\ l - 1 \in 0 .. Len(Program) - 1 /\ l - 1 \in 0 .. Len(Program)
      /\ l = (l - 1) + 1
    OBVIOUS
  <1>1. M(l) = M(l - 1) + 1 /\ M(l - 1) \in Nat /\ M(n) \in Nat
    BY CountMuls
  <1>2. M(l) <= M(n)
    <2>1. MulsUpTo(l) \subseteq MulsUpTo(n)
      BY DEF MulsUpTo
    <2>2. IsFiniteSet(MulsUpTo(n))
      <3> IsFiniteSet(1 .. n)
        BY FS_Interval
      <3> MulsUpTo(n) \subseteq 1 .. n
        BY DEF MulsUpTo
      <3> QED BY FS_Subset
    <2> QED BY <2>1, <2>2, FS_Subset DEF M
  <1> QED BY <1>1, <1>2

LEMMA Appended ==
    ASSUME NEW S, NEW s \in Seq(S), NEW x \in S
    PROVE  /\ Append(s, x) \in Seq(S) /\ Len(Append(s, x)) = Len(s) + 1
           /\ \A n \in 1 .. Len(s) : Append(s, x)[n] = s[n] /\ s[n] \in S
           /\ Append(s, x)[Len(s) + 1] = x /\ Len(s) \in Nat
  OBVIOUS

LEMMA Ranges ==
    ASSUME NEW m \in Nat, NEW l \in Nat, NEW k \in 1 .. l
    PROVE  /\ \A n \in 1 .. m + k : n = m + k \/ n \in 1 .. m + k - 1
           /\ m + k \in m .. m + l /\ (m + k) - m = k
  OBVIOUS

(* Party p follows gate k: a product share is the one the engine computes. *)
MulOf(w, sd, g, p, n) ==
    MulShare(w[g.a][p], w[g.a][After(p)], w[g.b][p], w[g.b][After(p)],
             Expand[sd[p]][n], Expand[sd[After(p)]][n])

Follows(w, sd, p, k) ==
    Program[k].op = "mul" =>
        w[NumInputs + k][p] = MulOf(w, sd, Program[k], p, NumInputs + M(k))

(* A gate reads and writes earlier wires only, so later ones do not matter. *)
LEMMA EarlierGates ==
    ASSUME NEW S, NEW w \in Seq(S), NEW z \in S, NEW k \in 1 .. Len(Program),
           NumInputs + k <= Len(w)
    PROVE  /\ \A sd, p : Follows(Append(w, z), sd, p, k) <=> Follows(w, sd, p, k)
           /\ ProverLinear(Program[k], Append(w, z)) = ProverLinear(Program[k], w)
           /\ Append(w, z)[NumInputs + k] = w[NumInputs + k]
  <1> DEFINE v == Append(w, z)
             a == Program[k].a
             b == Program[k].b
  <1>1. /\ a \in 1 .. Len(w) /\ b \in 1 .. Len(w) /\ NumInputs + k \in 1 .. Len(w)
    BY GateFacts
  <1>2. v[a] = w[a] /\ v[b] = w[b] /\ v[NumInputs + k] = w[NumInputs + k]
    BY <1>1, Appended
  <1> HIDE DEF v
  <1>3. \A sd, p : Follows(v, sd, p, k) <=> Follows(w, sd, p, k)
    BY <1>2 DEF Follows, MulOf
  <1>4. ProverLinear(Program[k], v) = ProverLinear(Program[k], w)
    BY <1>2 DEF ProverLinear
  <1> QED BY <1>2, <1>3, <1>4 DEF v

LEMMA PartyFacts ==
    /\ 0 \in Parties /\ 1 \in Parties /\ 2 \in Parties
    /\ After(0) = 1 /\ After(1) = 2 /\ After(2) = 0
    /\ \A p \in Parties : After(p) \in Parties /\ p \in {0, 1, 2}
  BY DEF Parties, After

(* The mask of a multiplication is on the tape, behind the inputs. *)
LEMMA Masks ==
    ASSUME NEW sd \in [Parties -> Seeds], NEW p \in Parties, NEW k \in 1 .. Len(Program),
           Program[k].op = "mul"
    PROVE  /\ M(k) \in 1 .. NumMuls /\ M(k) = M(k - 1) + 1
           /\ Expand[sd[p]][NumInputs + M(k)] \in Field
  <1>1. k - 1 \in 0 .. Len(Program) - 1 /\ k = (k - 1) + 1 /\ k \in 0 .. Len(Program)
        /\ k - 1 \in 0 .. Len(Program)
    BY GateFacts
  <1>2. M(k) = M(k - 1) + 1 /\ M(k - 1) \in Nat /\ M(k) <= NumMuls /\ NumMuls \in Nat
    BY <1>1, CountMuls
  <1>3. NumInputs + M(k) \in 1 .. NumInputs + NumMuls
    BY <1>2, GateFacts
  <1>4. Expand[sd[p]] \in [1 .. NumInputs + NumMuls -> Field]
    BY TapeAssumption DEF Lists
  <1>5. M(k) \in 1 .. NumMuls
    BY <1>2
  <1>6. Expand[sd[p]][NumInputs + M(k)] \in Field
    BY <1>3, <1>4
  <1> QED BY <1>2, <1>5, <1>6

LEMMA SharesInField ==
    ASSUME NEW w \in Seq([Parties -> Field]), NEW sd \in [Parties -> Seeds],
           NEW k \in 1 .. Len(Program), NumInputs + k - 1 <= Len(w)
    PROVE  /\ Program[k].op # "mul" => ProverLinear(Program[k], w) \in [Parties -> Field]
           /\ Program[k].op = "mul" => \A p \in Parties :
                  MulOf(w, sd, Program[k], p, NumInputs + M(k)) \in Field
  <1> DEFINE g == Program[k]
  <1>1. g \in Gates /\ g.a \in 1 .. Len(w) /\ g.b \in 1 .. Len(w) /\ g.c \in Field
    BY GateFacts
  <1>2. w[g.a] \in [Parties -> Field] /\ w[g.b] \in [Parties -> Field]
    <2> DEFINE S == [Parties -> Field]
    <2> w \in Seq(S) OBVIOUS
    <2> HIDE DEF S
    <2>1. w[g.a] \in S /\ w[g.b] \in S
      BY <1>1
    <2> QED BY <2>1 DEF S
  <1>3. \A x, y \in Field : Add(x, y) \in Field /\ Sub(x, y) \in Field /\ Mul(x, y) \in Field
    BY FieldOps
  <1>4. 0 \in Field
    BY FieldAssumption DEF Field
  <1>5. ASSUME g.op # "mul" PROVE ProverLinear(g, w) \in [Parties -> Field]
    <2>1. g.op \in {"cst", "add", "sub", "add_c", "mul_c"}
      BY <1>1, <1>5 DEF Gates
    <2>2. \A p \in Parties : LinearShare(g, p = 0, w[g.a][p], w[g.b][p]) \in Field
      <3> TAKE p \in Parties
      <3> w[g.a][p] \in Field /\ w[g.b][p] \in Field
        BY <1>2
      <3> HIDE DEF g
      <3> QED BY <1>1, <1>3, <1>4, <2>1 DEF LinearShare
    <2> QED BY <2>2 DEF ProverLinear
  <1>6. ASSUME g.op = "mul", NEW p \in Parties
        PROVE  MulOf(w, sd, g, p, NumInputs + M(k)) \in Field
    <2>1. After(p) \in Parties
      BY PartyFacts
    <2>2. /\ w[g.a][p] \in Field /\ w[g.b][p] \in Field
          /\ w[g.a][After(p)] \in Field /\ w[g.b][After(p)] \in Field
      BY <1>2, <2>1
    <2>3. Expand[sd[p]][NumInputs + M(k)] \in Field /\ Expand[sd[After(p)]][NumInputs + M(k)] \in Field
      BY <1>6, <2>1, Masks
    <2> QED BY <2>2, <2>3, MulShareIs DEF MulOf
  <1> QED BY <1>5, <1>6

(* A gate on shares that add up gives shares that add up. *)
LEMMA GateAddsUp ==
    ASSUME NEW w \in Seq([Parties -> Field]), NEW pl \in Seq(Field), Len(pl) = Len(w),
           NEW sd \in [Parties -> Seeds], NEW k \in 1 .. Len(Program),
           NumInputs + k - 1 <= Len(w),
           \A n \in 1 .. Len(w) : Three(w[n]) = pl[n]
    PROVE  /\ Program[k].op # "mul" =>
                  Three(ProverLinear(Program[k], w)) = NativeGate(Program[k], pl)
           /\ Program[k].op = "mul" => \A z :
                  (\A p \in Parties : z[p] = MulOf(w, sd, Program[k], p, NumInputs + M(k))) =>
                      Three(z) = NativeGate(Program[k], pl)
  <1> DEFINE g == Program[k]
             x == w[g.a]
             y == w[g.b]
  <1>1. g \in Gates /\ g.a \in 1 .. Len(w) /\ g.b \in 1 .. Len(w) /\ g.c \in Field
    BY GateFacts
  <1>2. x \in [Parties -> Field] /\ y \in [Parties -> Field]
    <2> DEFINE S == [Parties -> Field]
    <2> w \in Seq(S) OBVIOUS
    <2> HIDE DEF S
    <2>1. w[g.a] \in S /\ w[g.b] \in S
      BY <1>1
    <2> QED BY <2>1 DEF S
  <1>3. /\ x[0] \in Field /\ x[1] \in Field /\ x[2] \in Field
        /\ y[0] \in Field /\ y[1] \in Field /\ y[2] \in Field
    BY <1>2, PartyFacts
  <1>4. Three(x) = pl[g.a] /\ Three(y) = pl[g.b]
    BY <1>1
  <1> HIDE DEF x, y
  <1>5. ASSUME g.op # "mul" PROVE Three(ProverLinear(g, w)) = NativeGate(g, pl)
    <2>1. g.op \in {"cst", "add", "sub", "add_c", "mul_c"}
      BY <1>1, <1>5 DEF Gates
    <2> DEFINE z == ProverLinear(g, w)
    <2> SUFFICES Three(z) = NativeGate(g, pl)
      OBVIOUS
    <2>2. z = [p \in Parties |-> LinearShare(g, p = 0, x[p], y[p])]
      BY DEF ProverLinear, x, y
    <2> HIDE DEF g, z
    <2>4. CASE g.op = "cst"
      <3>1. z[0] = g.c /\ z[1] = 0 /\ z[2] = 0
        BY <2>2, <2>4, PartyFacts DEF LinearShare
      <3>2. NativeGate(g, pl) = g.c
        BY <2>4 DEF NativeGate
      <3> QED BY <1>1, <1>2, <1>4, <3>1, <3>2, LinearGates DEF Three
    <2>5. CASE g.op = "add"
      <3>1. z[0] = Add(x[0], y[0]) /\ z[1] = Add(x[1], y[1]) /\ z[2] = Add(x[2], y[2])
        BY <2>2, <2>5, PartyFacts DEF LinearShare
      <3>2. NativeGate(g, pl) = Add(pl[g.a], pl[g.b])
        BY <2>5 DEF NativeGate
      <3> QED BY <1>1, <1>2, <1>4, <3>1, <3>2, LinearGates DEF Three
    <2>6. CASE g.op = "sub"
      <3>1. z[0] = Sub(x[0], y[0]) /\ z[1] = Sub(x[1], y[1]) /\ z[2] = Sub(x[2], y[2])
        BY <2>2, <2>6, PartyFacts DEF LinearShare
      <3>2. NativeGate(g, pl) = Sub(pl[g.a], pl[g.b])
        BY <2>6 DEF NativeGate
      <3> QED BY <1>1, <1>2, <1>4, <3>1, <3>2, LinearGates DEF Three
    <2>7. CASE g.op = "add_c"
      <3>1. z[0] = Add(x[0], g.c) /\ z[1] = x[1] /\ z[2] = x[2]
        BY <2>2, <2>7, PartyFacts DEF LinearShare
      <3>2. NativeGate(g, pl) = Add(pl[g.a], g.c)
        BY <2>7 DEF NativeGate
      <3> QED BY <1>1, <1>2, <1>4, <3>1, <3>2, LinearGates DEF Three
    <2>8. CASE g.op = "mul_c"
      <3>1. z[0] = Mul(x[0], g.c) /\ z[1] = Mul(x[1], g.c) /\ z[2] = Mul(x[2], g.c)
        BY <2>2, <2>8, PartyFacts DEF LinearShare
      <3>2. NativeGate(g, pl) = Mul(pl[g.a], g.c)
        BY <2>8 DEF NativeGate
      <3>3. Add(Add(Mul(x[0], g.c), Mul(x[1], g.c)), Mul(x[2], g.c)) = Mul(Three(x), g.c)
        BY <1>1, <1>2, LinearGates
      <3> QED BY <1>4, <3>1, <3>2, <3>3 DEF Three
    <2> QED BY <2>1, <2>4, <2>5, <2>6, <2>7, <2>8
  <1>6. ASSUME g.op = "mul", NEW z,
               \A p \in Parties : z[p] = MulOf(w, sd, g, p, NumInputs + M(k))
        PROVE  Three(z) = NativeGate(g, pl)
    <2> DEFINE r == [p \in Parties |-> Expand[sd[p]][NumInputs + M(k)]]
    <2>1. \A p \in Parties : r[p] = Expand[sd[p]][NumInputs + M(k)] /\ r[p] \in Field
      BY <1>6, Masks
    <2>2. \A p \in Parties : z[p] = MulShare(x[p], x[After(p)], y[p], y[After(p)], r[p], r[After(p)])
      BY <1>6, <2>1, PartyFacts DEF MulOf, x, y
    <2> HIDE DEF r
    <2>3. /\ z[0] = MulShare(x[0], x[1], y[0], y[1], r[0], r[1])
          /\ z[1] = MulShare(x[1], x[2], y[1], y[2], r[1], r[2])
          /\ z[2] = MulShare(x[2], x[0], y[2], y[0], r[2], r[0])
      BY <2>2, PartyFacts
    <2>4. NativeGate(g, pl) = Mul(pl[g.a], pl[g.b])
      BY <1>6 DEF NativeGate
    <2>5. r \in [Parties -> Field]
      BY <2>1 DEF r
    <2>6. Add(Add(z[0], z[1]), z[2])
            = Mul(Add(Add(x[0], x[1]), x[2]), Add(Add(y[0], y[1]), y[2]))
      BY <1>2, <2>3, <2>5, MasksCancel
    <2> QED BY <1>4, <2>4, <2>6 DEF Three
  <1> QED BY <1>5, <1>6

-----------------------------------------------------------------------------
(* The inductive invariant.  First the prover: its wires are what the gates make of the
   wires before, products apart, and those are on the lists it commits to.  Products that
   follow the gates on every side reconstruct the value of every wire. *)
ProverShape ==
    /\ seeds \in [Parties -> Seeds] /\ inputs2 \in Lists(NumInputs)
    /\ wires \in Seq([Parties -> Field]) /\ plain \in Seq(Field)
    /\ Len(wires) \in NumInputs .. NumWires /\ Len(plain) = Len(wires)
    /\ i = NumInputs + M(Len(wires) - NumInputs)
    /\ mults \in [Parties -> Seq(Field)]
    /\ \A p \in Parties : Len(mults[p]) = M(Len(wires) - NumInputs)
    /\ lies \in Nat

WiresMade ==
    /\ \A n \in 1 .. NumInputs :
           wires[n] = [p \in Parties |-> InputShare(p, Expand[seeds[p]], inputs2, n)]
    /\ \A k \in 1 .. Len(wires) - NumInputs :
           /\ Program[k].op # "mul" => wires[NumInputs + k] = ProverLinear(Program[k], wires)
           /\ Program[k].op = "mul" =>
                  \A p \in Parties : mults[p][M(k)] = wires[NumInputs + k][p]
           /\ lies = 0 => \A p \in Parties : Follows(wires, seeds, p, k)

AddUp ==
    (\A k \in 1 .. Len(wires) - NumInputs, p \in Parties : Follows(wires, seeds, p, k)) =>
        \A n \in 1 .. Len(wires) : Three(wires[n]) = plain[n]

ProverInv == ProverShape /\ WiresMade /\ AddUp

(* What was sent commits to the prover's lists. *)
SentInv ==
    /\ sent # NoProof =>
           /\ Len(wires) = NumWires
           /\ sent.commits = [p \in Parties |-> Commit(seeds[p], Extra(p, inputs2), mults[p])]
           /\ sent.expected \in [DOMAIN Outputs -> Field]
           /\ lies = 0 => sent.outs = OutputShares
    /\ sent = NoProof => e = NoChallenge /\ \A p \in Parties : verdict[p] = "none"

(* The replay: a party whose recomputed products are the committed ones, replayed on what
   was committed, has followed every gate, and the replayed wires are the prover's. *)
ReplayShape ==
    /\ verdict \in [Parties -> {"none", "accept", "reject"}]
    /\ e = NoChallenge =>
           opened = NoOpening /\ pair = <<>> /\ vi = 0 /\ j = 0 /\ me = <<>>
    /\ e # NoChallenge =>
           /\ e \in Parties /\ opened \in Openings(e) /\ pair \in Seq(Field \X Field)
           /\ Len(pair) \in NumInputs .. NumWires
           /\ j = M(Len(pair) - NumInputs) /\ vi = NumInputs + j
           /\ me \in Seq(Field) /\ Len(me) = j

OpensCommitted ==
    /\ opened.seed_e = seeds[e] /\ opened.seed_f = seeds[After(e)]
    /\ Extra(e, opened.inputs2) = Extra(e, inputs2)
    /\ Extra(After(e), opened.inputs2) = Extra(After(e), inputs2)
    /\ opened.mults_f = mults[After(e)]

RecomputesCommitted == \A n \in 1 .. j : me[n] = mults[e][n]

SameWires ==
    /\ \A n \in 1 .. Len(pair) : pair[n] = <<wires[n][e], wires[n][After(e)]>>
    /\ \A k \in 1 .. Len(pair) - NumInputs : Follows(wires, seeds, e, k)

ReplayInv ==
    e # NoChallenge =>
        /\ SumsMatch(sent.outs, sent.expected)
        /\ lies = 0 => opened = HonestOpening(e)
        /\ lies = 0 => RecomputesCommitted
        /\ OpensCommitted /\ RecomputesCommitted => SameWires

(* The verdicts. *)
Accepted(ch) ==
    /\ SumsMatch(sent.outs, sent.expected)
    /\ \A k \in 1 .. Len(Program) : Follows(wires, seeds, ch, k)
    /\ \A k \in DOMAIN Outputs : sent.outs[ch][k] = wires[Outputs[k]][ch]

VerdictInv ==
    \A ch \in Parties :
        /\ verdict[ch] = "accept" => Accepted(ch)
        /\ verdict[ch] = "reject" /\ lies = 0 => sent.expected # PlainOutputs

IInv == ProverInv /\ SentInv /\ ReplayShape /\ ReplayInv /\ VerdictInv

(* Elements of sequences of triples, without the function set in sight. *)
LEMMA WireType ==
    ASSUME NEW w \in Seq([Parties -> Field])
    PROVE  /\ Len(w) \in Nat
           /\ \A n \in 1 .. Len(w) : w[n] \in [Parties -> Field]
           /\ \A n \in 1 .. Len(w), p \in Parties : w[n][p] \in Field
  <1> DEFINE S == [Parties -> Field]
  <1> w \in Seq(S) OBVIOUS
  <1> HIDE DEF S
  <1>1. Len(w) \in Nat /\ \A n \in 1 .. Len(w) : w[n] \in S
    OBVIOUS
  <1> QED BY <1>1 DEF S

(* The shares of the inputs add up to the witness. *)
LEMMA InputsAddUp ==
    ASSUME NEW x \in Field, NEW t0 \in Field, NEW t1 \in Field
    PROVE  /\ Sub(Sub(x, t0), t1) \in Field
           /\ Add(Add(t0, t1), Sub(Sub(x, t0), t1)) = x
  <1>1. x \in Int /\ t0 \in Int /\ t1 \in Int /\ P \in Int
        /\ 0 <= x /\ x < P /\ 0 <= t0 /\ t0 < P /\ 0 <= t1 /\ t1 < P
    BY FieldAssumption DEF Field
  <1>2. Sub(Sub(x, t0), t1) \in 0 .. P - 1
    BY <1>1 DEF Sub
  <1>3. Add(Add(t0, t1), Sub(Sub(x, t0), t1)) = x
    BY <1>1 DEF Sub, Add
  <1> QED BY <1>2, <1>3 DEF Field

LEMMA InitInv == Init => IInv
  <1> SUFFICES ASSUME Init PROVE IInv
    OBVIOUS
  <1> USE DEF Init
  <1> DEFINE tape(p) == Expand[seeds[p]]
  <1>1. NumInputs \in Nat /\ NumMuls \in Nat /\ Len(Program) \in Nat /\ NumWires = NumInputs + Len(Program)
    BY GateFacts, CountMuls DEF NumWires
  <1>2. \A p \in Parties, n \in 1 .. NumInputs : tape(p)[n] \in Field
    <2> TAKE p \in Parties, n \in 1 .. NumInputs
    <2>1. tape(p) \in [1 .. NumInputs + NumMuls -> Field]
      BY TapeAssumption DEF Lists
    <2>2. n \in 1 .. NumInputs + NumMuls
      BY <1>1
    <2> QED BY <2>1, <2>2
  <1>3. \A n \in 1 .. NumInputs : plain[n] \in Field
    BY DEF Lists
  <1>4. \A n \in 1 .. NumInputs :
           /\ inputs2[n] = Sub(Sub(plain[n], tape(0)[n]), tape(1)[n])
           /\ inputs2[n] \in Field
           /\ Add(Add(tape(0)[n], tape(1)[n]), inputs2[n]) = plain[n]
    <2> TAKE n \in 1 .. NumInputs
    <2>1. inputs2[n] = Sub(Sub(plain[n], tape(0)[n]), tape(1)[n])
      BY DEF InputsOfTwo
    <2> DEFINE t0 == tape(0)[n]
               t1 == tape(1)[n]
    <2>2. t0 \in Field /\ t1 \in Field /\ plain[n] \in Field
      BY <1>2, <1>3, PartyFacts
    <2>3. inputs2[n] = Sub(Sub(plain[n], t0), t1)
      BY <2>1
    <2> HIDE DEF t0, t1
    <2>4. inputs2[n] \in Field /\ Add(Add(t0, t1), inputs2[n]) = plain[n]
      BY <2>2, <2>3, InputsAddUp
    <2> QED BY <2>1, <2>4 DEF t0, t1
  <1>5. inputs2 \in Lists(NumInputs)
    <2>1. inputs2 = [n \in 1 .. NumInputs |-> inputs2[n]]
      BY DEF InputsOfTwo
    <2> QED BY <1>4, <2>1 DEF Lists
  <1> DEFINE row(n) == [p \in Parties |-> InputShare(p, tape(p), inputs2, n)]
  <1>6. \A n \in 1 .. NumInputs : row(n) \in [Parties -> Field]
    BY <1>2, <1>4 DEF InputShare
  <1>7. wires = [n \in 1 .. NumInputs |-> row(n)]
    OBVIOUS
  <1>8. \A n \in 1 .. NumInputs : Three(row(n)) = plain[n]
    <2> TAKE n \in 1 .. NumInputs
    <2>1. row(n)[0] = tape(0)[n] /\ row(n)[1] = tape(1)[n] /\ row(n)[2] = inputs2[n]
      BY PartyFacts DEF InputShare
    <2> QED BY <1>4, <2>1 DEF Three
  <1> HIDE DEF row
  <1>9. wires \in Seq([Parties -> Field]) /\ Len(wires) = NumInputs
    BY <1>1, <1>6, <1>7
  <1>10. plain \in Seq(Field) /\ Len(plain) = NumInputs
    BY <1>1 DEF Lists
  <1>11. ProverShape
    BY <1>1, <1>5, <1>9, <1>10, CountMuls DEF ProverShape
  <1>12. WiresMade
    <2>1. \A n \in 1 .. NumInputs :
             wires[n] = [p \in Parties |-> InputShare(p, Expand[seeds[p]], inputs2, n)]
      BY <1>7 DEF row
    <2> QED BY <1>1, <1>9, <2>1 DEF WiresMade
  <1>13. AddUp
    BY <1>7, <1>8, <1>9 DEF AddUp
  <1>14. SentInv /\ ReplayShape /\ ReplayInv /\ VerdictInv
    BY DEF SentInv, ReplayShape, ReplayInv, VerdictInv
  <1> QED BY <1>11, <1>12, <1>13, <1>14 DEF IInv, ProverInv

(* One more gate keeps the prover's invariant, whether a product follows it or not. *)
LEMMA WireAdded ==
    ASSUME ProverInv, Len(wires) < NumWires,
           NEW k, k = Len(wires) - NumInputs + 1,
           NEW z \in [Parties -> Field],
           wires' = Append(wires, z), plain' = Append(plain, NativeGate(Program[k], plain)),
           seeds' = seeds, inputs2' = inputs2, lies' \in Nat, lies' = 0 => lies = 0,
           Program[k].op # "mul" =>
               z = ProverLinear(Program[k], wires) /\ i' = i /\ mults' = mults,
           Program[k].op = "mul" =>
               /\ i' = i + 1 /\ mults' = [p \in Parties |-> Append(mults[p], z[p])]
               /\ lies' = 0 => \A p \in Parties :
                                   z[p] = MulOf(wires, seeds, Program[k], p, NumInputs + M(k))
    PROVE  ProverInv'
  <1>1. /\ wires \in Seq([Parties -> Field]) /\ plain \in Seq(Field) /\ Len(plain) = Len(wires)
        /\ Len(wires) \in NumInputs .. NumWires /\ seeds \in [Parties -> Seeds]
        /\ inputs2 \in Lists(NumInputs) /\ i = NumInputs + M(k - 1)
        /\ mults \in [Parties -> Seq(Field)] /\ \A p \in Parties : Len(mults[p]) = M(k - 1)
    <2> k - 1 = Len(wires) - NumInputs
      BY GateFacts DEF ProverInv, ProverShape
    <2> QED BY DEF ProverInv, ProverShape
  <1>2. /\ k \in 1 .. Len(Program) /\ Len(wires) = NumInputs + k - 1 /\ NumInputs \in Nat
        /\ Len(Program) \in Nat /\ NumWires = NumInputs + Len(Program)
        /\ k - 1 \in 0 .. Len(Program) - 1 /\ k = (k - 1) + 1
    BY <1>1, GateFacts DEF NumWires
  <1>3. /\ wires' \in Seq([Parties -> Field]) /\ Len(wires') = NumInputs + k
        /\ \A n \in 1 .. NumInputs + k - 1 : wires'[n] = wires[n]
        /\ wires'[NumInputs + k] = z
    <2> DEFINE S == [Parties -> Field]
    <2>1. wires \in Seq(S) /\ z \in S
      BY <1>1
    <2> HIDE DEF S
    <2>2. /\ wires' \in Seq(S) /\ Len(wires') = Len(wires) + 1
          /\ \A n \in 1 .. Len(wires) : wires'[n] = wires[n]
          /\ wires'[Len(wires) + 1] = z
      BY <2>1, Appended
    <2>3. Len(wires) + 1 = NumInputs + k
      BY <1>2
    <2>4. wires' \in Seq([Parties -> Field])
      BY <2>2 DEF S
    <2> QED BY <1>2, <2>2, <2>3, <2>4
  <1>4. NativeGate(Program[k], plain) \in Field
    <2>1. /\ Program[k] \in Gates /\ Program[k].a \in 1 .. Len(plain)
          /\ Program[k].b \in 1 .. Len(plain) /\ Program[k].c \in Field
      BY <1>1, <1>2, GateFacts
    <2>2. plain[Program[k].a] \in Field /\ plain[Program[k].b] \in Field
      BY <1>1, <2>1
    <2>3. Program[k].op \in {"cst", "add", "sub", "add_c", "mul_c", "mul"}
      BY <2>1 DEF Gates
    <2>4. \A x, y \in Field : Add(x, y) \in Field /\ Sub(x, y) \in Field /\ Mul(x, y) \in Field
      BY FieldOps
    <2> QED BY <2>1, <2>2, <2>3, <2>4 DEF NativeGate
  <1>5. /\ plain' \in Seq(Field) /\ Len(plain') = NumInputs + k
        /\ \A n \in 1 .. NumInputs + k - 1 : plain'[n] = plain[n]
        /\ plain'[NumInputs + k] = NativeGate(Program[k], plain)
    BY <1>1, <1>2, <1>4, Appended
  <1>6. /\ Program[k].op = "mul" => M(k) = M(k - 1) + 1
        /\ Program[k].op # "mul" => M(k) = M(k - 1)
        /\ M(k - 1) \in Nat /\ M(k) \in Nat
    BY <1>2, CountMuls
  <1>7. /\ mults' \in [Parties -> Seq(Field)]
        /\ \A p \in Parties : Len(mults'[p]) = M(k)
        /\ \A p \in Parties, n \in 1 .. M(k - 1) : mults'[p][n] = mults[p][n]
        /\ Program[k].op = "mul" => \A p \in Parties : mults'[p][M(k)] = z[p]
    <2>1. CASE Program[k].op # "mul"
      BY <1>1, <1>6, <2>1
    <2>2. CASE Program[k].op = "mul"
      <3>1. \A p \in Parties : mults'[p] = Append(mults[p], z[p]) /\ z[p] \in Field /\ mults[p] \in Seq(Field)
        BY <1>1, <2>2
      <3>2. \A p \in Parties : /\ mults'[p] \in Seq(Field) /\ Len(mults'[p]) = Len(mults[p]) + 1
                               /\ \A n \in 1 .. Len(mults[p]) : mults'[p][n] = mults[p][n]
                               /\ mults'[p][Len(mults[p]) + 1] = z[p]
        <4> TAKE p \in Parties
        <4> DEFINE s == mults[p]
                   x == z[p]
        <4>1. s \in Seq(Field) /\ x \in Field /\ mults'[p] = Append(s, x)
          BY <3>1
        <4> HIDE DEF s, x
        <4> QED BY <4>1, Appended DEF s, x
      <3> QED BY <1>1, <1>6, <2>2, <3>2
    <2> QED BY <2>1, <2>2
  <1>8. ProverShape'
    <2>1. Len(wires') - NumInputs = k /\ Len(wires') \in NumInputs .. NumWires
      <3>1. Len(wires') = NumInputs + k
        BY <1>3
      <3>2. NumInputs + k \in NumInputs .. NumWires /\ (NumInputs + k) - NumInputs = k
        BY <1>2, Ranges
      <3> QED BY <3>1, <3>2
    <2>2. i' = NumInputs + M(k)
      BY <1>1, <1>2, <1>6
    <2> QED BY <1>1, <1>3, <1>5, <1>7, <2>1, <2>2 DEF ProverShape
  <1>9. \A l \in 1 .. k - 1 :
           /\ \A sd, p : Follows(wires', sd, p, l) <=> Follows(wires, sd, p, l)
           /\ ProverLinear(Program[l], wires') = ProverLinear(Program[l], wires)
           /\ wires'[NumInputs + l] = wires[NumInputs + l]
    <2> TAKE l \in 1 .. k - 1
    <2> DEFINE S == [Parties -> Field]
    <2>1. wires \in Seq(S) /\ z \in S
      BY <1>1
    <2>2. l \in 1 .. Len(Program) /\ NumInputs + l <= Len(wires)
      BY <1>2
    <2> HIDE DEF S
    <2> QED BY <2>1, <2>2, EarlierGates
  <1>10. /\ ProverLinear(Program[k], wires') = ProverLinear(Program[k], wires)
         /\ \A p \in Parties : Follows(wires', seeds, p, k) <=>
                (Program[k].op = "mul" =>
                    z[p] = MulOf(wires, seeds, Program[k], p, NumInputs + M(k)))
    <2>1. /\ Program[k].a \in 1 .. NumInputs + k - 1 /\ Program[k].b \in 1 .. NumInputs + k - 1
      BY <1>2, GateFacts
    <2>2. wires'[Program[k].a] = wires[Program[k].a] /\ wires'[Program[k].b] = wires[Program[k].b]
      BY <1>3, <2>1
    <2>3. ProverLinear(Program[k], wires') = ProverLinear(Program[k], wires)
      BY <2>2 DEF ProverLinear
    <2>4. \A p : MulOf(wires', seeds, Program[k], p, NumInputs + M(k))
                   = MulOf(wires, seeds, Program[k], p, NumInputs + M(k))
      BY <2>2 DEF MulOf
    <2> QED BY <1>3, <2>3, <2>4 DEF Follows
  <1>11. Len(wires') - NumInputs = k /\ Len(wires) - NumInputs = k - 1
    BY <1>2, <1>3
  <1>12. WiresMade'
    <2>1. \A n \in 1 .. NumInputs :
             wires'[n] = [p \in Parties |-> InputShare(p, Expand[seeds[p]], inputs2, n)]
      BY <1>2, <1>3 DEF ProverInv, WiresMade
    <2>2. ASSUME NEW l \in 1 .. k - 1
          PROVE  /\ Program[l].op # "mul" => wires'[NumInputs + l] = ProverLinear(Program[l], wires')
                 /\ Program[l].op = "mul" =>
                        \A p \in Parties : mults'[p][M(l)] = wires'[NumInputs + l][p]
                 /\ lies' = 0 => \A p \in Parties : Follows(wires', seeds, p, l)
      <3>1. /\ Program[l].op # "mul" => wires[NumInputs + l] = ProverLinear(Program[l], wires)
            /\ Program[l].op = "mul" =>
                   \A p \in Parties : mults[p][M(l)] = wires[NumInputs + l][p]
            /\ lies = 0 => \A p \in Parties : Follows(wires, seeds, p, l)
        BY <1>11 DEF ProverInv, WiresMade
      <3>2. Program[l].op = "mul" => M(l) \in 1 .. M(k - 1)
        <4>1. k - 1 \in 0 .. Len(Program)
          BY <1>2
        <4> QED BY <4>1, MulsBelow
      <3> QED BY <1>7, <1>9, <3>1, <3>2
    <2>3. /\ Program[k].op # "mul" => wires'[NumInputs + k] = ProverLinear(Program[k], wires')
          /\ Program[k].op = "mul" =>
                 \A p \in Parties : mults'[p][M(k)] = wires'[NumInputs + k][p]
          /\ lies' = 0 => \A p \in Parties : Follows(wires', seeds, p, k)
      BY <1>3, <1>7, <1>10
    <2>4. \A l \in 1 .. k : l = k \/ l \in 1 .. k - 1
      BY <1>2
    <2> QED BY <1>11, <2>1, <2>2, <2>3, <2>4 DEF WiresMade
  <1>13. AddUp'
    <2> SUFFICES ASSUME \A l \in 1 .. k, p \in Parties : Follows(wires', seeds, p, l)
                 PROVE  \A n \in 1 .. NumInputs + k : Three(wires'[n]) = plain'[n]
      BY <1>3, <1>11 DEF AddUp
    <2>1. \A l \in 1 .. k - 1, p \in Parties : Follows(wires, seeds, p, l)
      <3> TAKE l \in 1 .. k - 1, p \in Parties
      <3> l \in 1 .. k
        BY <1>2
      <3> QED BY <1>9
    <2>2. \A n \in 1 .. Len(wires) : Three(wires[n]) = plain[n]
      BY <1>11, <2>1 DEF ProverInv, AddUp
    <2>3. Three(z) = NativeGate(Program[k], plain)
      <3>1. k \in 1 .. k
        BY <1>2
      <3>2. \A p \in Parties : Follows(wires', seeds, p, k)
        BY <3>1
      <3>3. Program[k].op = "mul" => \A p \in Parties :
                z[p] = MulOf(wires, seeds, Program[k], p, NumInputs + M(k))
        BY <1>10, <3>2
      <3>4. NumInputs + k - 1 <= Len(wires)
        BY <1>2
      <3>5. /\ Program[k].op # "mul" =>
                  Three(ProverLinear(Program[k], wires)) = NativeGate(Program[k], plain)
            /\ Program[k].op = "mul" => \A y :
                  (\A p \in Parties : y[p] = MulOf(wires, seeds, Program[k], p, NumInputs + M(k))) =>
                      Three(y) = NativeGate(Program[k], plain)
        BY <1>1, <1>2, <2>2, <3>4, GateAddsUp
      <3> QED BY <3>3, <3>5
    <2>4. \A n \in 1 .. NumInputs + k : n = NumInputs + k \/ n \in 1 .. NumInputs + k - 1
      BY <1>2, Ranges
    <2> QED BY <1>2, <1>3, <1>5, <2>2, <2>3, <2>4
  <1> QED BY <1>8, <1>12, <1>13 DEF ProverInv

(* The prover's invariant does not mention the verifier. *)
LEMMA ProverKept ==
    ASSUME ProverInv, UNCHANGED proverVars, lies' \in Nat, lies' = 0 => lies = 0
    PROVE  ProverInv'
  <1> USE DEF proverVars
  <1>1. ProverShape'
    BY DEF ProverInv, ProverShape
  <1>2. WiresMade'
    BY DEF ProverInv, WiresMade
  <1>3. AddUp'
    BY DEF ProverInv, AddUp
  <1> QED BY <1>1, <1>2, <1>3 DEF ProverInv

(* While nothing is sent, the rest of the invariant is about nothing. *)
LEMMA BeforeSending ==
    ASSUME IInv, sent = NoProof, UNCHANGED <<replayVars, verdict>>, ProverInv', SentInv'
    PROVE  IInv'
  <1>1. e = NoChallenge /\ \A p \in Parties : verdict[p] = "none"
    BY DEF IInv, SentInv
  <1>2. ReplayShape'
    BY <1>1 DEF IInv, ReplayShape, replayVars
  <1>3. ReplayInv'
    BY <1>1 DEF ReplayInv, replayVars
  <1>4. VerdictInv'
    BY <1>1 DEF VerdictInv
  <1> QED BY <1>2, <1>3, <1>4 DEF IInv

LEMMA NextGate ==
    ASSUME ProverInv, Len(wires) < NumWires
    PROVE  /\ Len(wires) - NumInputs + 1 \in 1 .. Len(Program)
           /\ NumInputs + (Len(wires) - NumInputs + 1) - 1 <= Len(wires)
           /\ GateAfter(wires) = Program[Len(wires) - NumInputs + 1]
           /\ wires \in Seq([Parties -> Field]) /\ seeds \in [Parties -> Seeds] /\ lies \in Nat
  <1>1. Len(wires) \in NumInputs .. NumWires
    BY DEF ProverInv, ProverShape
  <1>2. Len(wires) - NumInputs + 1 \in 1 .. Len(Program)
    BY <1>1, GateFacts DEF NumWires
  <1>3. NumInputs + (Len(wires) - NumInputs + 1) - 1 <= Len(wires)
    BY <1>1, GateFacts
  <1> QED BY <1>2, <1>3 DEF GateAfter, ProverInv, ProverShape

LEMMA ProveLinearInv == IInv /\ ProveLinear => IInv'
  <1> SUFFICES ASSUME IInv, ProveLinear PROVE IInv'
    OBVIOUS
  <1>1. ProverInv /\ sent = NoProof /\ Len(wires) < NumWires
    BY DEF IInv, ProveLinear
  <1> PICK k : k = Len(wires) - NumInputs + 1
    OBVIOUS
  <1>2. /\ k \in 1 .. Len(Program) /\ NumInputs + k - 1 <= Len(wires)
        /\ GateAfter(wires) = Program[k] /\ wires \in Seq([Parties -> Field])
        /\ seeds \in [Parties -> Seeds] /\ lies \in Nat
    BY <1>1, NextGate
  <1>3. /\ Program[k].op # "mul" /\ plain' = Append(plain, NativeGate(Program[k], plain))
        /\ wires' = Append(wires, ProverLinear(Program[k], wires))
        /\ UNCHANGED <<seeds, inputs2, i, mults, lies, sent, replayVars, verdict>>
    BY <1>2 DEF ProveLinear
  <1>4. ProverLinear(Program[k], wires) \in [Parties -> Field]
    BY <1>2, <1>3, SharesInField
  <1> PICK z \in [Parties -> Field] : z = ProverLinear(Program[k], wires)
    BY <1>4
  <1>5. ProverInv'
    BY <1>1, <1>2, <1>3, WireAdded
  <1>6. SentInv'
    BY <1>1, <1>3 DEF IInv, SentInv, replayVars
  <1> QED BY <1>1, <1>3, <1>5, <1>6, BeforeSending

LEMMA ProveMulInv == ASSUME NEW z \in [Parties -> Field] PROVE IInv /\ ProveMul(z) => IInv'
  <1> SUFFICES ASSUME IInv, ProveMul(z) PROVE IInv'
    OBVIOUS
  <1>1. ProverInv /\ sent = NoProof /\ Len(wires) < NumWires
    BY DEF IInv, ProveMul
  <1> PICK k : k = Len(wires) - NumInputs + 1
    OBVIOUS
  <1>2. /\ k \in 1 .. Len(Program) /\ NumInputs + k - 1 <= Len(wires)
        /\ GateAfter(wires) = Program[k] /\ wires \in Seq([Parties -> Field])
        /\ seeds \in [Parties -> Seeds] /\ lies \in Nat
    BY <1>1, NextGate
  <1>3. /\ Program[k].op = "mul" /\ plain' = Append(plain, NativeGate(Program[k], plain))
        /\ wires' = Append(wires, z) /\ i' = i + 1
        /\ mults' = [p \in Parties |-> Append(mults[p], z[p])]
        /\ UNCHANGED <<seeds, inputs2, sent, replayVars, verdict>>
        /\ lies' = IF z = ProverMul(Program[k], wires, i + 1) THEN lies ELSE lies + 1
    BY <1>2 DEF ProveMul, Says
  <1>4. lies' \in Nat /\ (lies' = 0 => lies = 0 /\ z = ProverMul(Program[k], wires, i + 1))
    BY <1>2, <1>3
  <1>5. i + 1 = NumInputs + M(k)
    <2>1. k - 1 \in 0 .. Len(Program) - 1 /\ k = (k - 1) + 1 /\ k - 1 \in 0 .. Len(Program)
          /\ NumInputs \in Nat
      BY <1>2, GateFacts
    <2>2. i = NumInputs + M(k - 1)
      <3> Len(wires) - NumInputs = k - 1
        BY GateFacts DEF ProverInv, ProverShape
      <3> QED BY <1>1 DEF ProverInv, ProverShape
    <2>3. M(k) = M(k - 1) + 1 /\ M(k - 1) \in Nat
      BY <1>3, <2>1, CountMuls
    <2> QED BY <2>1, <2>2, <2>3
  <1>6. lies' = 0 => \A p \in Parties :
                         z[p] = MulOf(wires, seeds, Program[k], p, NumInputs + M(k))
    BY <1>4, <1>5 DEF ProverMul, MulOf
  <1>7. ProverInv'
    BY <1>1, <1>3, <1>4, <1>6, WireAdded
  <1>8. SentInv'
    BY <1>1, <1>3 DEF IInv, SentInv, replayVars
  <1> QED BY <1>1, <1>3, <1>7, <1>8, BeforeSending

LEMMA SendInv ==
    ASSUME NEW outs, NEW expected \in [DOMAIN Outputs -> Field]
    PROVE  IInv /\ Send(outs, expected) => IInv'
  <1> SUFFICES ASSUME IInv, Send(outs, expected) PROVE IInv'
    OBVIOUS
  <1>1. ProverInv /\ lies \in Nat
    BY DEF IInv, ProverInv, ProverShape
  <1>2. /\ sent = NoProof /\ Len(wires) = NumWires /\ UNCHANGED <<proverVars, replayVars, verdict>>
        /\ lies' = IF outs = OutputShares THEN lies ELSE lies + 1
        /\ sent'.commits = [p \in Parties |-> Commit(seeds[p], Extra(p, inputs2), mults[p])]
        /\ sent'.outs = outs /\ sent'.expected = expected
    BY DEF Send, Says
  <1>3. lies' \in Nat /\ (lies' = 0 => lies = 0 /\ outs = OutputShares)
    BY <1>1, <1>2
  <1>4. ProverInv'
    BY <1>1, <1>2, <1>3, ProverKept
  <1>5. SentInv'
    <2>1. e = NoChallenge /\ \A p \in Parties : verdict[p] = "none"
      BY <1>2 DEF IInv, SentInv
    <2>2. OutputShares' = OutputShares
      BY <1>2 DEF OutputShares, proverVars
    <2> QED BY <1>2, <1>3, <2>1, <2>2 DEF SentInv, proverVars, replayVars
  <1> QED BY <1>2, <1>4, <1>5, BeforeSending

(* While the prover keeps to the circuit, the shares of every wire add up. *)
LEMMA HonestWires ==
    ASSUME ProverInv, lies = 0
    PROVE  \A n \in 1 .. Len(wires) : Three(wires[n]) = plain[n]
  BY DEF ProverInv, WiresMade, AddUp

LEMMA SentKept ==
    ASSUME IInv, sent # NoProof, UNCHANGED <<proverVars, sent>>, lies' \in Nat,
           lies' = 0 => lies = 0
    PROVE  ProverInv' /\ SentInv' /\ OutputShares' = OutputShares /\ PlainOutputs' = PlainOutputs
  <1>1. ProverInv'
    BY ProverKept DEF IInv
  <1>2. OutputShares' = OutputShares /\ PlainOutputs' = PlainOutputs
    BY DEF OutputShares, PlainOutputs, proverVars
  <1>3. SentInv'
    BY <1>2 DEF IInv, SentInv, proverVars
  <1> QED BY <1>1, <1>2, <1>3

LEMMA RejectOpeningInv == ASSUME NEW ch \in Parties PROVE IInv /\ RejectOpening(ch) => IInv'
  <1> SUFFICES ASSUME IInv, RejectOpening(ch) PROVE IInv'
    OBVIOUS
  <1>1. /\ sent # NoProof /\ e = NoChallenge /\ lies' = lies + 1
        /\ verdict' = [verdict EXCEPT ![ch] = "reject"]
        /\ UNCHANGED <<proverVars, sent, replayVars>>
    BY DEF RejectOpening
  <1>2. ProverInv /\ lies \in Nat
    BY DEF IInv, ProverInv, ProverShape
  <1>3. lies' \in Nat /\ lies' # 0
    BY <1>1, <1>2
  <1>4. ProverInv' /\ SentInv'
    BY <1>1, <1>3, SentKept
  <1>5. ReplayShape'
    BY <1>1 DEF IInv, ReplayShape, replayVars
  <1>6. ReplayInv'
    BY <1>1 DEF ReplayInv, replayVars
  <1>7. VerdictInv'
    <2> SUFFICES ASSUME NEW c \in Parties, verdict'[c] = "accept" PROVE Accepted(c)'
      BY <1>3 DEF VerdictInv
    <2>1. Accepted(c)' <=> Accepted(c)
      BY <1>1 DEF Accepted, proverVars
    <2>2. verdict[c] = "accept"
      BY <1>1 DEF IInv, ReplayShape
    <2> QED BY <2>1, <2>2 DEF IInv, VerdictInv
  <1> QED BY <1>4, <1>5, <1>6, <1>7 DEF IInv

LEMMA RejectSumsInv == ASSUME NEW ch \in Parties PROVE IInv /\ RejectSums(ch) => IInv'
  <1> SUFFICES ASSUME IInv, RejectSums(ch) PROVE IInv'
    OBVIOUS
  <1>1. /\ sent # NoProof /\ e = NoChallenge /\ ~SumsMatch(sent.outs, sent.expected)
        /\ verdict' = [verdict EXCEPT ![ch] = "reject"]
        /\ UNCHANGED <<proverVars, lies, sent, replayVars>>
    BY DEF RejectSums
  <1>2. ProverInv /\ lies \in Nat /\ lies' = lies
    BY <1>1 DEF IInv, ProverInv, ProverShape
  <1>3. ProverInv' /\ SentInv' /\ PlainOutputs' = PlainOutputs
    BY <1>1, <1>2, SentKept
  <1>4. lies = 0 => sent.expected # PlainOutputs
    <2> SUFFICES ASSUME lies = 0, sent.expected = PlainOutputs PROVE FALSE
      OBVIOUS
    <2>1. sent.outs = OutputShares /\ Len(wires) = NumWires
      BY <1>1 DEF IInv, SentInv
    <2>2. ASSUME NEW k \in DOMAIN Outputs
          PROVE  Add(Add(sent.outs[0][k], sent.outs[1][k]), sent.outs[2][k]) = sent.expected[k]
      <3>1. Outputs[k] \in 1 .. Len(wires)
        BY <2>1, GateFacts
      <3>2. Three(wires[Outputs[k]]) = plain[Outputs[k]]
        BY <1>2, <3>1, HonestWires
      <3>3. \A p \in Parties : sent.outs[p][k] = wires[Outputs[k]][p]
        BY <2>1 DEF OutputShares
      <3> QED BY <3>2, <3>3, PartyFacts DEF Three, PlainOutputs
    <2> QED BY <1>1, <2>2 DEF SumsMatch
  <1>5. ReplayShape'
    BY <1>1 DEF IInv, ReplayShape, replayVars
  <1>6. ReplayInv'
    BY <1>1 DEF ReplayInv, replayVars
  <1>7. VerdictInv'
    <2> SUFFICES ASSUME NEW c \in Parties
                 PROVE  /\ verdict'[c] = "accept" => Accepted(c)'
                        /\ verdict'[c] = "reject" /\ lies' = 0 => sent'.expected # PlainOutputs'
      BY DEF VerdictInv
    <2>1. Accepted(c)' <=> Accepted(c)
      BY <1>1 DEF Accepted, proverVars
    <2>2. verdict'[c] = verdict[c] \/ (c = ch /\ verdict'[c] = "reject")
      BY <1>1 DEF IInv, ReplayShape
    <2>3. verdict[c] = "accept" => Accepted(c)
      BY DEF IInv, VerdictInv
    <2>4. verdict[c] = "reject" /\ lies = 0 => sent.expected # PlainOutputs
      BY DEF IInv, VerdictInv
    <2> QED BY <1>1, <1>2, <1>3, <1>4, <2>1, <2>2, <2>3, <2>4
  <1> QED BY <1>3, <1>5, <1>6, <1>7 DEF IInv

(* The replay.  What an honest opening opens is what was committed to. *)
LEMMA HonestOpens ==
    ASSUME e \in Parties, opened = HonestOpening(e) PROVE OpensCommitted
  <1>1. After(e) \in Parties /\ e \in {0, 1, 2}
    BY PartyFacts
  <1> QED BY <1>1 DEF HonestOpening, OpensCommitted, Extra, Asked

LEMMA StartReplayInv ==
    ASSUME NEW ch \in Parties, NEW opening \in Openings(ch)
    PROVE  IInv /\ StartReplay(ch, opening) => IInv'
  <1> SUFFICES ASSUME IInv, StartReplay(ch, opening) PROVE IInv'
    OBVIOUS
  <1> DEFINE share(p, sd, n) == InputShare(p, Expand[sd], opening.inputs2, n)
             row(n) == <<share(ch, opening.seed_e, n), share(After(ch), opening.seed_f, n)>>
  <1>1. /\ sent # NoProof /\ SumsMatch(sent.outs, sent.expected)
        /\ e' = ch /\ opened' = opening /\ pair' = [n \in 1 .. NumInputs |-> row(n)]
        /\ vi' = NumInputs /\ j' = 0 /\ me' = <<>>
        /\ UNCHANGED <<proverVars, sent, verdict>>
        /\ lies' = IF opening = HonestOpening(ch) THEN lies ELSE lies + 1
    BY DEF StartReplay, Says
  <1>2. ProverInv /\ lies \in Nat
    BY DEF IInv, ProverInv, ProverShape
  <1>3. lies' \in Nat /\ (lies' = 0 => lies = 0 /\ opening = HonestOpening(ch))
    BY <1>1, <1>2
  <1>4. ProverInv' /\ SentInv' /\ PlainOutputs' = PlainOutputs
    BY <1>1, <1>3, SentKept
  <1>5. After(ch) \in Parties /\ ch \in {0, 1, 2} /\ NumInputs \in Nat /\ NumMuls \in Nat
        /\ NumWires \in Nat /\ NumInputs <= NumWires
    BY PartyFacts, GateFacts, CountMuls DEF NumWires
  <1>6. /\ opening.seed_e \in Seeds /\ opening.seed_f \in Seeds
        /\ Asked(ch) => opening.inputs2 \in Lists(NumInputs)
    BY DEF Openings
  <1>7. ASSUME NEW p \in {ch, After(ch)}, NEW sd \in Seeds, NEW n \in 1 .. NumInputs
        PROVE  share(p, sd, n) \in Field
    <2>1. CASE p < 2
      <3>1. Expand[sd] \in [1 .. NumInputs + NumMuls -> Field] /\ n \in 1 .. NumInputs + NumMuls
        BY <1>5, TapeAssumption DEF Lists
      <3> QED BY <2>1, <3>1 DEF InputShare
    <2>2. CASE ~(p < 2)
      <3>1. p = 2
        BY <1>5, <2>2, PartyFacts
      <3>2. opening.inputs2 \in Lists(NumInputs)
        BY <1>6, <3>1 DEF Asked
      <3> QED BY <2>2, <3>2 DEF InputShare, Lists
    <2> QED BY <2>1, <2>2
  <1>8. \A n \in 1 .. NumInputs : row(n) \in Field \X Field
    BY <1>6, <1>7
  <1>9. pair' \in Seq(Field \X Field) /\ Len(pair') = NumInputs
        /\ \A n \in 1 .. NumInputs : pair'[n] = row(n)
    <2> DEFINE T == Field \X Field
    <2>1. \A n \in 1 .. NumInputs : row(n) \in T
      BY <1>8
    <2> HIDE DEF T, row
    <2>2. pair' \in Seq(T) /\ Len(pair') = NumInputs
      BY <1>1, <1>5, <2>1
    <2> QED BY <1>1, <2>2 DEF T
  <1>10. ReplayShape'
    <2>1. e' \in Parties /\ e' # NoChallenge
      BY <1>1, SentinelAssumption
    <2>2. Len(pair') - NumInputs = 0 /\ Len(pair') \in NumInputs .. NumWires
      BY <1>5, <1>9
    <2>3. j' = M(Len(pair') - NumInputs) /\ vi' = NumInputs + j'
      BY <1>1, <1>5, <2>2, CountMuls
    <2>4. me' \in Seq(Field) /\ Len(me') = j'
      BY <1>1
    <2>5. opened' \in Openings(e')
      BY <1>1
    <2>6. verdict' \in [Parties -> {"none", "accept", "reject"}]
      BY <1>1 DEF IInv, ReplayShape
    <2> QED BY <1>9, <2>1, <2>2, <2>3, <2>4, <2>5, <2>6 DEF ReplayShape, Openings, Asked
  <1>11. ReplayInv'
    <2>1. SumsMatch(sent.outs, sent.expected)'
      BY <1>1 DEF SumsMatch
    <2>2. lies' = 0 => opened' = HonestOpening(e)'
      BY <1>1, <1>3 DEF HonestOpening, proverVars
    <2>3. RecomputesCommitted'
      BY <1>1 DEF RecomputesCommitted
    <2>4. ASSUME OpensCommitted' PROVE SameWires'
      <3>1. /\ opening.seed_e = seeds[ch] /\ opening.seed_f = seeds[After(ch)]
            /\ Extra(ch, opening.inputs2) = Extra(ch, inputs2)
            /\ Extra(After(ch), opening.inputs2) = Extra(After(ch), inputs2)
        BY <1>1, <2>4 DEF OpensCommitted, proverVars
      <3>2. Asked(ch) => opening.inputs2 = inputs2
        BY <3>1 DEF Asked, Extra
      <3>3. ASSUME NEW n \in 1 .. NumInputs, NEW p \in {ch, After(ch)}
            PROVE  share(p, seeds[p], n) = wires[n][p]
        <4>1. wires[n] = [q \in Parties |-> InputShare(q, Expand[seeds[q]], inputs2, n)]
          BY <1>2 DEF ProverInv, WiresMade
        <4>2. p \in Parties
          BY <1>5
        <4>3. p < 2 \/ opening.inputs2 = inputs2
          BY <1>5, <3>2, PartyFacts DEF Asked
        <4> QED BY <4>1, <4>2, <4>3 DEF InputShare
      <3>4. \A n \in 1 .. NumInputs : pair'[n] = <<wires[n][ch], wires[n][After(ch)]>>
        BY <1>9, <3>1, <3>3
      <3>5. Len(pair') - NumInputs = 0
        BY <1>5, <1>9
      <3>6. wires' = wires
        BY <1>1 DEF proverVars
      <3>7. \A n \in 1 .. Len(pair') : pair'[n] = <<wires'[n][e'], wires'[n][After(e')]>>
        BY <1>1, <1>9, <3>4, <3>6
      <3>8. ~\E k : k \in 1 .. Len(pair') - NumInputs
        BY <3>5
      <3> QED BY <3>7, <3>8 DEF SameWires
    <2> QED BY <2>1, <2>2, <2>3, <2>4 DEF ReplayInv
  <1>12. VerdictInv'
    <2> SUFFICES ASSUME NEW c \in Parties
                 PROVE  /\ verdict'[c] = "accept" => Accepted(c)'
                        /\ verdict'[c] = "reject" /\ lies' = 0 => sent'.expected # PlainOutputs'
      BY DEF VerdictInv
    <2>1. Accepted(c)' <=> Accepted(c)
      BY <1>1 DEF Accepted, proverVars
    <2> QED BY <1>1, <1>3, <1>4, <2>1 DEF IInv, VerdictInv
  <1> QED BY <1>4, <1>10, <1>11, <1>12 DEF IInv

(* The verifier's next gate, and the two shares it has of the wires the gate reads. *)
LEMMA NextReplayed ==
    ASSUME IInv, e \in Parties, e # NoChallenge, Len(pair) < NumWires,
           NEW k, k = Len(pair) - NumInputs + 1
    PROVE  /\ k \in 1 .. Len(Program) /\ GateAfter(pair) = Program[k]
           /\ Len(pair) = NumInputs + k - 1 /\ Len(pair) - NumInputs = k - 1
           /\ sent # NoProof /\ Len(wires) = NumWires /\ k \in 1 .. Len(wires) - NumInputs
           /\ j = M(k - 1) /\ j \in Nat /\ vi + 1 = NumInputs + j + 1
           /\ Program[k].op = "mul" => M(k) = j + 1
           /\ Program[k].op # "mul" => M(k) = j
           /\ pair[Program[k].a] \in Field \X Field /\ pair[Program[k].b] \in Field \X Field
           /\ SameWires =>
                  /\ pair[Program[k].a] = <<wires[Program[k].a][e], wires[Program[k].a][After(e)]>>
                  /\ pair[Program[k].b] = <<wires[Program[k].b][e], wires[Program[k].b][After(e)]>>
  <1>1. /\ pair \in Seq(Field \X Field) /\ Len(pair) \in NumInputs .. NumWires
        /\ j = M(Len(pair) - NumInputs) /\ vi = NumInputs + j
    BY DEF IInv, ReplayShape
  <1>2. /\ k \in 1 .. Len(Program) /\ GateAfter(pair) = Program[k]
        /\ Len(pair) = NumInputs + k - 1 /\ Len(pair) - NumInputs = k - 1
    BY <1>1, GateFacts DEF NumWires, GateAfter
  <1>3. sent # NoProof /\ Len(wires) = NumWires
    BY DEF IInv, SentInv
  <1>4. k \in 1 .. Len(wires) - NumInputs
    BY <1>2, <1>3, GateFacts DEF NumWires
  <1>5. k - 1 \in 0 .. Len(Program) - 1 /\ k - 1 \in 0 .. Len(Program) /\ k = (k - 1) + 1
    BY <1>2, GateFacts
  <1>6. j = M(k - 1) /\ j \in Nat
    BY <1>1, <1>2, <1>5, CountMuls
  <1>7. vi + 1 = NumInputs + j + 1
    BY <1>1, <1>6, GateFacts
  <1>8. (Program[k].op = "mul" => M(k) = j + 1) /\ (Program[k].op # "mul" => M(k) = j)
    BY <1>5, <1>6, CountMuls
  <1>9. Program[k].a \in 1 .. Len(pair) /\ Program[k].b \in 1 .. Len(pair)
    BY <1>2, GateFacts
  <1>10. pair[Program[k].a] \in Field \X Field /\ pair[Program[k].b] \in Field \X Field
    <2> DEFINE T == Field \X Field
    <2>1. pair \in Seq(T)
      BY <1>1
    <2> HIDE DEF T
    <2>2. pair[Program[k].a] \in T /\ pair[Program[k].b] \in T
      BY <1>9, <2>1
    <2> QED BY <2>2 DEF T
  <1>11. SameWires =>
            /\ pair[Program[k].a] = <<wires[Program[k].a][e], wires[Program[k].a][After(e)]>>
            /\ pair[Program[k].b] = <<wires[Program[k].b][e], wires[Program[k].b][After(e)]>>
    BY <1>9 DEF SameWires
  <1> QED BY <1>2, <1>3, <1>4, <1>6, <1>7, <1>8, <1>10, <1>11

(* A replayed gate that is the prover's keeps the replayed wires the prover's. *)
LEMMA PairAdded ==
    ASSUME SameWires, NEW k \in 1 .. Len(Program), Len(pair) = NumInputs + k - 1,
           NEW z \in Field \X Field, pair \in Seq(Field \X Field), pair' = Append(pair, z),
           UNCHANGED <<proverVars, e>>,
           z = <<wires[NumInputs + k][e], wires[NumInputs + k][After(e)]>>,
           Follows(wires, seeds, e, k)
    PROVE  SameWires'
  <1> DEFINE T == Field \X Field
  <1>1. pair \in Seq(T) /\ z \in T
    OBVIOUS
  <1> HIDE DEF T
  <1>2. /\ Len(pair') = Len(pair) + 1 /\ \A n \in 1 .. Len(pair) : pair'[n] = pair[n]
        /\ pair'[Len(pair) + 1] = z
    BY <1>1, Appended
  <1>3. /\ Len(pair) \in Nat /\ Len(pair') = NumInputs + k /\ Len(pair) + 1 = NumInputs + k
        /\ Len(pair') - NumInputs = k /\ Len(pair) - NumInputs = k - 1
        /\ \A n \in 1 .. NumInputs + k : n = NumInputs + k \/ n \in 1 .. Len(pair)
        /\ \A l \in 1 .. k : l = k \/ l \in 1 .. k - 1
    BY <1>1, <1>2, GateFacts
  <1>4. wires' = wires /\ seeds' = seeds /\ e' = e
    BY DEF proverVars
  <1>5. \A n \in 1 .. Len(pair') : pair'[n] = <<wires'[n][e'], wires'[n][After(e')]>>
    <2>1. \A n \in 1 .. Len(pair) : pair'[n] = <<wires[n][e], wires[n][After(e)]>>
      BY <1>2 DEF SameWires
    <2> QED BY <1>2, <1>3, <1>4, <2>1
  <1>6. \A l \in 1 .. Len(pair') - NumInputs : Follows(wires, seeds, e, l)
    BY <1>3 DEF SameWires
  <1> QED BY <1>4, <1>5, <1>6 DEF SameWires

(* A replayed gate changes nothing else. *)
LEMMA Replayed ==
    ASSUME IInv, sent # NoProof, UNCHANGED <<proverVars, lies, sent, verdict>>
    PROVE  ProverInv' /\ SentInv' /\ VerdictInv'
  <1>1. lies \in Nat /\ lies' = lies
    BY DEF IInv, ProverInv, ProverShape
  <1>2. ProverInv' /\ SentInv' /\ PlainOutputs' = PlainOutputs
    BY <1>1, SentKept
  <1>3. VerdictInv'
    <2> SUFFICES ASSUME NEW c \in Parties
                 PROVE  /\ verdict'[c] = "accept" => Accepted(c)'
                        /\ verdict'[c] = "reject" /\ lies' = 0 => sent'.expected # PlainOutputs'
      BY DEF VerdictInv
    <2>1. Accepted(c)' <=> Accepted(c)
      BY DEF Accepted, proverVars
    <2> QED BY <1>1, <1>2, <2>1 DEF IInv, VerdictInv
  <1> QED BY <1>2, <1>3

LEMMA ReplayLinearInv == IInv /\ ReplayLinear => IInv'
  <1> SUFFICES ASSUME IInv, ReplayLinear PROVE IInv'
    OBVIOUS
  <1>1. e # NoChallenge /\ Len(pair) < NumWires
        /\ UNCHANGED <<proverVars, lies, sent, e, opened, vi, j, me, verdict>>
    BY DEF ReplayLinear
  <1>2. e \in Parties /\ After(e) \in Parties /\ pair \in Seq(Field \X Field)
        /\ opened \in Openings(e) /\ me \in Seq(Field) /\ Len(me) = j /\ vi = NumInputs + j
    BY <1>1, PartyFacts DEF IInv, ReplayShape
  <1> PICK k : k = Len(pair) - NumInputs + 1
    OBVIOUS
  <1>3. /\ k \in 1 .. Len(Program) /\ GateAfter(pair) = Program[k]
        /\ Len(pair) = NumInputs + k - 1 /\ sent # NoProof /\ Len(wires) = NumWires
        /\ k \in 1 .. Len(wires) - NumInputs
        /\ Program[k].op # "mul" => M(k) = j
        /\ pair[Program[k].a] \in Field \X Field /\ pair[Program[k].b] \in Field \X Field
        /\ SameWires =>
               /\ pair[Program[k].a] = <<wires[Program[k].a][e], wires[Program[k].a][After(e)]>>
               /\ pair[Program[k].b] = <<wires[Program[k].b][e], wires[Program[k].b][After(e)]>>
    BY <1>1, <1>2, NextReplayed
  <1> PICK z : z = PairLinear(Program[k], pair, e)
    OBVIOUS
  <1>4. Program[k].op # "mul" /\ pair' = Append(pair, z)
    BY <1>3 DEF ReplayLinear
  <1> DEFINE g == Program[k]
             x == pair[g.a]
             y == pair[g.b]
  <1>5. z \in Field \X Field
    <2>1. g.op \in {"cst", "add", "sub", "add_c", "mul_c"} /\ g.c \in Field /\ 0 \in Field
      BY <1>3, <1>4, GateFacts, FieldAssumption DEF Gates, Field
    <2>2. \A u, v \in Field : Add(u, v) \in Field /\ Sub(u, v) \in Field /\ Mul(u, v) \in Field
      BY FieldOps
    <2>3. x[1] \in Field /\ x[2] \in Field /\ y[1] \in Field /\ y[2] \in Field
      BY <1>3
    <2>4. z = <<LinearShare(g, e = 0, x[1], y[1]), LinearShare(g, After(e) = 0, x[2], y[2])>>
      BY DEF PairLinear
    <2> HIDE DEF g, x, y
    <2>5. LinearShare(g, e = 0, x[1], y[1]) \in Field
      BY <2>1, <2>2, <2>3 DEF LinearShare
    <2>6. LinearShare(g, After(e) = 0, x[2], y[2]) \in Field
      BY <2>1, <2>2, <2>3 DEF LinearShare
    <2> QED BY <2>4, <2>5, <2>6
  <1>6. ProverInv' /\ SentInv' /\ VerdictInv'
    BY <1>1, <1>3, Replayed
  <1>7. pair' \in Seq(Field \X Field) /\ Len(pair') = NumInputs + k
    <2> DEFINE T == Field \X Field
    <2>1. pair \in Seq(T) /\ z \in T
      BY <1>2, <1>5
    <2> HIDE DEF T
    <2>2. pair' \in Seq(T) /\ Len(pair') = Len(pair) + 1
      BY <1>4, <2>1, Appended
    <2>3. Len(pair) + 1 = NumInputs + k
      BY <1>3, GateFacts
    <2> QED BY <2>2, <2>3 DEF T
  <1>8. ReplayShape'
    <2>1. Len(pair') - NumInputs = k /\ Len(pair') \in NumInputs .. NumWires
      <3> Len(pair') = NumInputs + k
        BY <1>7
      <3> QED BY <1>3, GateFacts DEF NumWires
    <2>2. j' = M(Len(pair') - NumInputs) /\ vi' = NumInputs + j'
      BY <1>1, <1>2, <1>3, <1>4, <2>1
    <2>3. e' = e /\ opened' = opened /\ me' = me /\ j' = j /\ verdict' = verdict
      BY <1>1
    <2>4. verdict \in [Parties -> {"none", "accept", "reject"}]
      BY DEF IInv, ReplayShape
    <2>5. opened' \in Openings(e')
      BY <1>2, <2>3
    <2>6. Openings(e)' = Openings(e')
      BY DEF Openings, Asked
    <2> QED BY <1>1, <1>2, <1>7, <2>1, <2>2, <2>3, <2>4, <2>5, <2>6 DEF ReplayShape
  <1>9. ReplayInv'
    <2>1. SumsMatch(sent.outs, sent.expected) /\ (lies = 0 => opened = HonestOpening(e))
          /\ (lies = 0 => RecomputesCommitted)
          /\ (OpensCommitted /\ RecomputesCommitted => SameWires)
      BY <1>1 DEF IInv, ReplayInv
    <2>2. /\ OpensCommitted' <=> OpensCommitted
          /\ RecomputesCommitted' <=> RecomputesCommitted
          /\ HonestOpening(e)' = HonestOpening(e)
          /\ SumsMatch(sent.outs, sent.expected)' <=> SumsMatch(sent.outs, sent.expected)
      BY <1>1 DEF OpensCommitted, RecomputesCommitted, HonestOpening, SumsMatch, proverVars
    <2>3. SameWires => SameWires'
      <3> SUFFICES ASSUME SameWires PROVE SameWires'
        OBVIOUS
      <3>1. x = <<wires[g.a][e], wires[g.a][After(e)]>> /\ y = <<wires[g.b][e], wires[g.b][After(e)]>>
        BY <1>3
      <3>2. wires[NumInputs + k] = ProverLinear(g, wires)
        BY <1>3, <1>4 DEF IInv, ProverInv, WiresMade
      <3>3. \A p \in Parties : wires[NumInputs + k][p] = LinearShare(g, p = 0, wires[g.a][p], wires[g.b][p])
        BY <3>2 DEF ProverLinear
      <3>4. z = <<LinearShare(g, e = 0, x[1], y[1]), LinearShare(g, After(e) = 0, x[2], y[2])>>
        BY DEF PairLinear
      <3>5. z = <<wires[NumInputs + k][e], wires[NumInputs + k][After(e)]>>
        BY <1>2, <3>1, <3>3, <3>4
      <3>6. Follows(wires, seeds, e, k)
        BY <1>4 DEF Follows
      <3>7. UNCHANGED <<proverVars, e>>
        BY <1>1
      <3> QED BY <1>2, <1>3, <1>4, <1>5, <3>5, <3>6, <3>7, PairAdded
    <2>4. lies' = lies /\ e' = e /\ opened' = opened
      BY <1>1
    <2> QED BY <2>1, <2>2, <2>3, <2>4 DEF ReplayInv
  <1> QED BY <1>6, <1>8, <1>9 DEF IInv

LEMMA ReplayMulInv == IInv /\ ReplayMul => IInv'
  <1> SUFFICES ASSUME IInv, ReplayMul PROVE IInv'
    OBVIOUS
  <1>1. e # NoChallenge /\ Len(pair) < NumWires /\ vi' = vi + 1 /\ j' = j + 1
        /\ UNCHANGED <<proverVars, lies, sent, e, opened, verdict>>
    BY DEF ReplayMul
  <1>2. e \in Parties /\ After(e) \in Parties /\ pair \in Seq(Field \X Field)
        /\ opened \in Openings(e) /\ me \in Seq(Field) /\ Len(me) = j /\ vi = NumInputs + j
    BY <1>1, PartyFacts DEF IInv, ReplayShape
  <1> PICK k : k = Len(pair) - NumInputs + 1
    OBVIOUS
  <1> DEFINE g == Program[k]
             x == pair[g.a]
             y == pair[g.b]
  <1>3. /\ k \in 1 .. Len(Program) /\ GateAfter(pair) = g
        /\ Len(pair) = NumInputs + k - 1 /\ sent # NoProof /\ Len(wires) = NumWires
        /\ k \in 1 .. Len(wires) - NumInputs /\ j \in Nat /\ vi + 1 = NumInputs + j + 1
        /\ g.op = "mul" => M(k) = j + 1
        /\ x \in Field \X Field /\ y \in Field \X Field
        /\ SameWires => x = <<wires[g.a][e], wires[g.a][After(e)]>>
                        /\ y = <<wires[g.b][e], wires[g.b][After(e)]>>
    BY <1>1, <1>2, NextReplayed
  <1> PICK z : z = PairMul(g, pair, Expand[opened.seed_e][vi + 1],
                           Expand[opened.seed_f][vi + 1], opened.mults_f[j + 1])
    OBVIOUS
  <1>4. g.op = "mul" /\ pair' = Append(pair, z) /\ me' = Append(me, z[1])
    BY <1>3 DEF ReplayMul
  <1>5. M(k) = j + 1 /\ vi + 1 = NumInputs + M(k) /\ NumInputs \in Nat
    <2>1. M(k) = j + 1
      BY <1>3, <1>4
    <2>2. NumInputs \in Nat
      BY GateFacts
    <2> QED BY <1>3, <2>1, <2>2
  <1>6. z[1] = MulShare(x[1], x[2], y[1], y[2], Expand[opened.seed_e][NumInputs + M(k)],
                        Expand[opened.seed_f][NumInputs + M(k)])
        /\ z[2] = opened.mults_f[M(k)] /\ z = <<z[1], z[2]>>
    BY <1>5 DEF PairMul
  <1>7. z[1] \in Field /\ z[2] \in Field /\ z \in Field \X Field
    <2>1. opened.seed_e \in Seeds /\ opened.seed_f \in Seeds /\ opened.mults_f \in Lists(NumMuls)
      BY <1>2 DEF Openings
    <2>2. M(k) \in 1 .. NumMuls /\ NumMuls \in Nat
      <3> k \in 0 .. Len(Program)
        BY <1>3, GateFacts
      <3> QED BY <1>3, <1>5, CountMuls
    <2>3. NumInputs + M(k) \in 1 .. NumInputs + NumMuls
      BY <1>5, <2>2
    <2>4. \A sd \in Seeds : Expand[sd][NumInputs + M(k)] \in Field
      BY <2>3, TapeAssumption DEF Lists
    <2>5. z[2] \in Field
      BY <1>6, <2>1, <2>2 DEF Lists
    <2>6. x[1] \in Field /\ x[2] \in Field /\ y[1] \in Field /\ y[2] \in Field
      BY <1>3
    <2>7. z[1] \in Field
      <3> DEFINE r == Expand[opened.seed_e][NumInputs + M(k)]
                 r1 == Expand[opened.seed_f][NumInputs + M(k)]
                 a == x[1]
                 a1 == x[2]
                 b == y[1]
                 b1 == y[2]
      <3>1. /\ r \in Field /\ r1 \in Field
            /\ a \in Field /\ a1 \in Field /\ b \in Field /\ b1 \in Field
        BY <2>1, <2>4, <2>6
      <3>2. z[1] = MulShare(a, a1, b, b1, r, r1)
        BY <1>6
      <3> HIDE DEF r, r1, a, a1, b, b1
      <3>3. MulShare(a, a1, b, b1, r, r1) \in Field
        BY <3>1, MulShareIs
      <3> QED BY <3>2, <3>3
    <2> QED BY <1>6, <2>5, <2>7
  <1>8. ProverInv' /\ SentInv' /\ VerdictInv'
    BY <1>1, <1>3, Replayed
  <1>9. pair' \in Seq(Field \X Field) /\ Len(pair') = NumInputs + k
    <2> DEFINE T == Field \X Field
    <2>1. pair \in Seq(T) /\ z \in T
      BY <1>2, <1>7
    <2> HIDE DEF T
    <2>2. pair' \in Seq(T) /\ Len(pair') = Len(pair) + 1
      BY <1>4, <2>1, Appended
    <2>3. Len(pair) + 1 = NumInputs + k
      BY <1>3, GateFacts
    <2> QED BY <2>2, <2>3 DEF T
  <1>10. me' \in Seq(Field) /\ Len(me') = j + 1 /\ me'[M(k)] = z[1]
         /\ \A n \in 1 .. j : me'[n] = me[n]
    BY <1>2, <1>4, <1>5, <1>7, Appended
  <1>11. ReplayShape'
    <2>1. Len(pair') - NumInputs = k /\ Len(pair') \in NumInputs .. NumWires
      <3> Len(pair') = NumInputs + k
        BY <1>9
      <3> QED BY <1>3, GateFacts DEF NumWires
    <2>2. j' = M(Len(pair') - NumInputs) /\ vi' = NumInputs + j'
      BY <1>1, <1>3, <1>5, <2>1
    <2>3. e' = e /\ opened' = opened /\ verdict' = verdict
      BY <1>1
    <2>4. verdict \in [Parties -> {"none", "accept", "reject"}]
      BY DEF IInv, ReplayShape
    <2>5. Openings(e)' = Openings(e')
      BY DEF Openings, Asked
    <2> QED BY <1>1, <1>2, <1>9, <1>10, <2>1, <2>2, <2>3, <2>4, <2>5 DEF ReplayShape
  <1>12. \A p \in Parties : mults[p][M(k)] = wires[NumInputs + k][p]
    BY <1>3, <1>4 DEF IInv, ProverInv, WiresMade
  <1>13. OpensCommitted /\ SameWires => z[1] = MulOf(wires, seeds, g, e, NumInputs + M(k))
                                       /\ z[2] = wires[NumInputs + k][After(e)]
    <2> SUFFICES ASSUME OpensCommitted, SameWires
                 PROVE  /\ z[1] = MulOf(wires, seeds, g, e, NumInputs + M(k))
                        /\ z[2] = wires[NumInputs + k][After(e)]
      OBVIOUS
    <2>1. opened.seed_e = seeds[e] /\ opened.seed_f = seeds[After(e)]
          /\ opened.mults_f = mults[After(e)]
      BY DEF OpensCommitted
    <2>2. /\ x[1] = wires[g.a][e] /\ x[2] = wires[g.a][After(e)]
          /\ y[1] = wires[g.b][e] /\ y[2] = wires[g.b][After(e)]
      BY <1>3
    <2> HIDE DEF x, y
    <2>3. z[1] = MulOf(wires, seeds, g, e, NumInputs + M(k))
      BY <1>6, <2>1, <2>2 DEF MulOf
    <2> QED BY <1>2, <1>6, <1>12, <2>1, <2>3
  <1>14. ReplayInv'
    <2>1. SumsMatch(sent.outs, sent.expected) /\ (lies = 0 => opened = HonestOpening(e))
          /\ (lies = 0 => RecomputesCommitted)
          /\ (OpensCommitted /\ RecomputesCommitted => SameWires)
      BY <1>1 DEF IInv, ReplayInv
    <2>2. /\ OpensCommitted' <=> OpensCommitted
          /\ HonestOpening(e)' = HonestOpening(e)
          /\ SumsMatch(sent.outs, sent.expected)' <=> SumsMatch(sent.outs, sent.expected)
      BY <1>1 DEF OpensCommitted, HonestOpening, SumsMatch, proverVars
    <2>3. RecomputesCommitted' <=> RecomputesCommitted /\ z[1] = mults[e][M(k)]
      <3>1. RecomputesCommitted' <=> \A n \in 1 .. j + 1 : me'[n] = mults[e][n]
        BY <1>1 DEF RecomputesCommitted, proverVars
      <3>2. \A n \in 1 .. j + 1 : n = M(k) \/ n \in 1 .. j
        BY <1>3, <1>5
      <3>3. M(k) \in 1 .. j + 1 /\ \A n \in 1 .. j : n \in 1 .. j + 1
        BY <1>3, <1>5
      <3> QED BY <1>10, <3>1, <3>2, <3>3 DEF RecomputesCommitted
    <2>4. OpensCommitted /\ RecomputesCommitted' => SameWires'
      <3> SUFFICES ASSUME OpensCommitted, RecomputesCommitted' PROVE SameWires'
        OBVIOUS
      <3>1. SameWires /\ z[1] = mults[e][M(k)]
        BY <2>1, <2>3
      <3>2. z[1] = wires[NumInputs + k][e]
        BY <1>2, <1>12, <3>1
      <3>3. Follows(wires, seeds, e, k)
        BY <1>13, <3>1, <3>2 DEF Follows
      <3>4. z = <<wires[NumInputs + k][e], wires[NumInputs + k][After(e)]>>
        BY <1>6, <1>13, <3>1, <3>2
      <3>5. UNCHANGED <<proverVars, e>>
        BY <1>1
      <3> QED BY <1>2, <1>3, <1>4, <1>7, <3>1, <3>3, <3>4, <3>5, PairAdded
    <2>5. lies = 0 => RecomputesCommitted'
      <3> SUFFICES ASSUME lies = 0 PROVE RecomputesCommitted'
        OBVIOUS
      <3>1. OpensCommitted
        BY <1>2, <2>1, HonestOpens
      <3>2. z[1] = MulOf(wires, seeds, g, e, NumInputs + M(k))
        BY <1>13, <2>1, <3>1
      <3>3. Follows(wires, seeds, e, k)
        BY <1>2, <1>3 DEF IInv, ProverInv, WiresMade
      <3>4. wires[NumInputs + k][e] = MulOf(wires, seeds, g, e, NumInputs + M(k))
        BY <1>4, <3>3 DEF Follows
      <3>5. z[1] = mults[e][M(k)]
        BY <1>2, <1>12, <3>2, <3>4
      <3> QED BY <2>1, <2>3, <3>5
    <2>6. lies' = lies /\ e' = e /\ opened' = opened
      BY <1>1
    <2> QED BY <2>1, <2>2, <2>4, <2>5, <2>6 DEF ReplayInv
  <1> QED BY <1>8, <1>11, <1>14 DEF IInv

LEMMA JudgeInv == IInv /\ Judge => IInv'
  <1> SUFFICES ASSUME IInv, Judge PROVE IInv'
    OBVIOUS
  <1>1. /\ e # NoChallenge /\ Len(pair) = NumWires
        /\ verdict' = [verdict EXCEPT ![e] = IF Convincing THEN "accept" ELSE "reject"]
        /\ e' = NoChallenge /\ opened' = NoOpening /\ pair' = <<>> /\ vi' = 0 /\ j' = 0 /\ me' = <<>>
        /\ UNCHANGED <<proverVars, lies, sent>>
    BY DEF Judge
  <1>2. e \in Parties /\ After(e) \in Parties /\ me \in Seq(Field) /\ Len(me) = j
        /\ j = M(Len(pair) - NumInputs)
    BY <1>1, PartyFacts DEF IInv, ReplayShape
  <1>3. /\ sent # NoProof /\ Len(wires) = NumWires /\ lies \in Nat /\ lies' = lies
        /\ sent.commits = [p \in Parties |-> Commit(seeds[p], Extra(p, inputs2), mults[p])]
        /\ lies = 0 => sent.outs = OutputShares
    <2>1. e # NoChallenge /\ UNCHANGED lies
      BY <1>1
    <2>2. sent # NoProof
      BY <2>1 DEF IInv, SentInv
    <2>3. lies \in Nat /\ lies' = lies
      BY <2>1 DEF IInv, ProverInv, ProverShape
    <2> QED BY <2>2, <2>3 DEF IInv, SentInv
  <1>4. ProverInv' /\ SentInv' /\ PlainOutputs' = PlainOutputs
    BY <1>1, <1>3, SentKept
  <1>5. SumsMatch(sent.outs, sent.expected) /\ (lies = 0 => opened = HonestOpening(e))
        /\ (lies = 0 => RecomputesCommitted)
        /\ (OpensCommitted /\ RecomputesCommitted => SameWires)
    BY <1>1 DEF IInv, ReplayInv
  <1>6. Len(pair) - NumInputs = Len(Program) /\ j = NumMuls
        /\ \A k \in DOMAIN Outputs : Outputs[k] \in 1 .. Len(pair)
    <2>1. Len(pair) - NumInputs = Len(Program)
      BY <1>1, GateFacts DEF NumWires
    <2>2. j = NumMuls
      BY <1>2, <2>1, CountMuls
    <2> QED BY <1>1, <2>1, <2>2, GateFacts
  <1>7. /\ sent.commits[e] = Commit(seeds[e], Extra(e, inputs2), mults[e])
        /\ sent.commits[After(e)]
             = Commit(seeds[After(e)], Extra(After(e), inputs2), mults[After(e)])
    <2>1. \A p \in Parties : sent.commits[p] = Commit(seeds[p], Extra(p, inputs2), mults[p])
      BY <1>3
    <2>2. e \in Parties /\ After(e) \in Parties
      BY <1>2
    <2> QED BY <2>1, <2>2
  <1>8. Convincing => Accepted(e)
    <2> SUFFICES ASSUME Convincing PROVE Accepted(e)
      OBVIOUS
    <2>1. /\ Commit(opened.seed_e, Extra(e, opened.inputs2), me)
               = Commit(seeds[e], Extra(e, inputs2), mults[e])
          /\ Commit(opened.seed_f, Extra(After(e), opened.inputs2), opened.mults_f)
               = Commit(seeds[After(e)], Extra(After(e), inputs2), mults[After(e)])
      BY <1>7 DEF Convincing
    <2>2. \A s1, x1, m1, s2, x2, m2 :
             Commit(s1, x1, m1) = Commit(s2, x2, m2) => s1 = s2 /\ x1 = x2 /\ m1 = m2
      BY DEF Commit
    <2>3. OpensCommitted /\ me = mults[e]
      BY <2>1, <2>2 DEF OpensCommitted
    <2>4. SameWires
      BY <1>5, <2>3 DEF RecomputesCommitted
    <2>5. \A k \in 1 .. Len(Program) : Follows(wires, seeds, e, k)
      BY <1>6, <2>4 DEF SameWires
    <2>6. ASSUME NEW k \in DOMAIN Outputs PROVE sent.outs[e][k] = wires[Outputs[k]][e]
      <3>1. pair[Outputs[k]] = <<sent.outs[e][k], sent.outs[After(e)][k]>>
        BY DEF Convincing
      <3>2. pair[Outputs[k]] = <<wires[Outputs[k]][e], wires[Outputs[k]][After(e)]>>
        BY <1>6, <2>4 DEF SameWires
      <3> QED BY <3>1, <3>2
    <2> QED BY <1>5, <2>5, <2>6 DEF Accepted
  <1>9. lies = 0 => Convincing
    <2> SUFFICES ASSUME lies = 0 PROVE Convincing
      OBVIOUS
    <2>1. OpensCommitted /\ SameWires /\ RecomputesCommitted
      BY <1>2, <1>5, HonestOpens
    <2>2. me = mults[e]
      <3>1. mults[e] \in Seq(Field) /\ Len(mults[e]) = NumMuls
        <4>1. mults[e] \in Seq(Field) /\ Len(mults[e]) = M(Len(wires) - NumInputs)
          BY <1>2 DEF IInv, ProverInv, ProverShape
        <4>2. Len(wires) - NumInputs = Len(Program)
          <5> Len(wires) = Len(pair)
            BY <1>1, <1>3
          <5> QED BY <1>6
        <4> QED BY <4>1, <4>2, CountMuls
      <3> QED BY <1>2, <1>6, <2>1, <3>1 DEF RecomputesCommitted
    <2>3. /\ Commit(opened.seed_e, Extra(e, opened.inputs2), me) = sent.commits[e]
          /\ Commit(opened.seed_f, Extra(After(e), opened.inputs2), opened.mults_f)
               = sent.commits[After(e)]
      BY <1>7, <2>1, <2>2 DEF OpensCommitted
    <2>4. ASSUME NEW k \in DOMAIN Outputs
          PROVE  pair[Outputs[k]] = <<sent.outs[e][k], sent.outs[After(e)][k]>>
      <3>1. pair[Outputs[k]] = <<wires[Outputs[k]][e], wires[Outputs[k]][After(e)]>>
        BY <1>6, <2>1 DEF SameWires
      <3>2. \A p \in Parties : sent.outs[p][k] = wires[Outputs[k]][p]
        <4>1. sent.outs = OutputShares
          BY <1>3
        <4> QED BY <4>1 DEF OutputShares
      <3> QED BY <1>2, <3>1, <3>2
    <2> QED BY <1>6, <2>3, <2>4 DEF Convincing
  <1>10. ReplayShape' /\ ReplayInv'
    BY <1>1 DEF IInv, ReplayShape, ReplayInv
  <1>11. VerdictInv'
    <2> SUFFICES ASSUME NEW c \in Parties
                 PROVE  /\ verdict'[c] = "accept" => Accepted(c)'
                        /\ verdict'[c] = "reject" /\ lies' = 0 => sent'.expected # PlainOutputs'
      BY DEF VerdictInv
    <2>1. Accepted(c)' <=> Accepted(c)
      BY <1>1 DEF Accepted, proverVars
    <2>2. \/ verdict'[c] = verdict[c]
          \/ c = e /\ verdict'[c] = "accept" /\ Convincing
          \/ c = e /\ verdict'[c] = "reject" /\ ~Convincing
      BY <1>1 DEF IInv, ReplayShape
    <2>3. /\ verdict[c] = "accept" => Accepted(c)
          /\ verdict[c] = "reject" /\ lies = 0 => sent.expected # PlainOutputs
      BY DEF IInv, VerdictInv
    <2> QED BY <1>1, <1>3, <1>4, <1>8, <1>9, <2>1, <2>2, <2>3
  <1> QED BY <1>4, <1>10, <1>11 DEF IInv

-----------------------------------------------------------------------------
LEMMA Inductive == Spec => []IInv
  <1>1. IInv /\ [Next]_vars => IInv'
    <2> SUFFICES ASSUME IInv, [Next]_vars PROVE IInv'
      OBVIOUS
    <2>1. CASE ProveLinear
      BY <2>1, ProveLinearInv
    <2>2. ASSUME NEW z \in [Parties -> Field], ProveMul(z) PROVE IInv'
      BY <2>2, ProveMulInv
    <2>3. ASSUME NEW outs, NEW expected \in [DOMAIN Outputs -> Field], Send(outs, expected)
          PROVE  IInv'
      BY <2>3, SendInv
    <2>4. ASSUME NEW ch \in Parties, RejectSums(ch) PROVE IInv'
      BY <2>4, RejectSumsInv
    <2>10. ASSUME NEW ch \in Parties, RejectOpening(ch) PROVE IInv'
      BY <2>10, RejectOpeningInv
    <2>5. ASSUME NEW ch \in Parties, NEW opening \in Openings(ch), StartReplay(ch, opening)
          PROVE  IInv'
      BY <2>5, StartReplayInv
    <2>6. CASE ReplayLinear
      BY <2>6, ReplayLinearInv
    <2>7. CASE ReplayMul
      BY <2>7, ReplayMulInv
    <2>8. CASE Judge
      BY <2>8, JudgeInv
    <2>9. CASE UNCHANGED vars
      <3>1. ProverInv' /\ lies \in Nat
        BY <2>9, ProverKept DEF IInv, ProverInv, ProverShape, vars
      <3>2. SentInv'
        BY <2>9 DEF IInv, SentInv, OutputShares, vars, proverVars, replayVars
      <3>3. ReplayShape'
        BY <2>9 DEF IInv, ReplayShape, Openings, vars, replayVars
      <3>4. ReplayInv'
        BY <2>9 DEF IInv, ReplayInv, SumsMatch, HonestOpening, RecomputesCommitted,
                    OpensCommitted, SameWires, vars, proverVars, replayVars
      <3>5. VerdictInv'
        BY <2>9 DEF IInv, VerdictInv, Accepted, PlainOutputs, vars, proverVars
      <3> QED BY <3>1, <3>2, <3>3, <3>4, <3>5 DEF IInv
    <2> QED BY <2>1, <2>2, <2>3, <2>4, <2>5, <2>6, <2>7, <2>8, <2>9, <2>10
           DEF Next
  <1> QED BY <1>1, InitInv, PTL DEF Spec

(* Every variable keeps its type, and the cursors on masks and products stand where the
   gates done so far have put them, in prover and verifier. *)
THEOREM TypeCorrect == Spec => []TypeOK
  <1>1. IInv => TypeOK
    BY DEF IInv, ProverInv, ProverShape, ReplayShape, TypeOK, M
  <1> QED BY <1>1, Inductive, PTL

(* The proving engine computes the circuit: the shares of every wire of an honest prover
   reconstruct the value the native engine gives the wire. *)
THEOREM Reconstruct == Spec => []SharesReconstruct
  <1>1. IInv => SharesReconstruct
    BY HonestWires DEF IInv, SharesReconstruct, Three
  <1> QED BY <1>1, Inductive, PTL

(* Completeness: an honest proof of a true statement is rejected under no challenge. *)
THEOREM Complete == Spec => []HonestProofAccepted
  <1>1. IInv => HonestProofAccepted
    BY DEF IInv, VerdictInv, HonestProofAccepted
  <1> QED BY <1>1, Inductive, PTL

(* Soundness: first messages accepted under all three challenges belong to a witness on
   which the circuit has the expected outputs. *)
THEOREM Sound == Spec => []ThreeAcceptancesAreProof
  <1>1. IInv => ThreeAcceptancesAreProof
    <2> SUFFICES ASSUME IInv, \A ch \in Parties : verdict[ch] = "accept"
                 PROVE  sent.expected = PlainOutputs
      BY DEF ThreeAcceptancesAreProof
    <2>1. \A ch \in Parties : Accepted(ch)
      BY DEF IInv, VerdictInv
    <2>2. sent # NoProof
      BY PartyFacts DEF IInv, SentInv
    <2>3. Len(wires) = NumWires /\ sent.expected \in [DOMAIN Outputs -> Field]
      BY <2>2 DEF IInv, SentInv
    <2>4. Len(wires) - NumInputs = Len(Program)
      BY <2>3, GateFacts DEF NumWires
    <2>5. \A n \in 1 .. Len(wires) : Three(wires[n]) = plain[n]
      BY <2>1, <2>4 DEF IInv, ProverInv, AddUp, Accepted
    <2>6. ASSUME NEW k \in DOMAIN Outputs PROVE sent.expected[k] = plain[Outputs[k]]
      <3>1. Three(wires[Outputs[k]]) = plain[Outputs[k]]
        BY <2>3, <2>5, GateFacts
      <3>2. Add(Add(sent.outs[0][k], sent.outs[1][k]), sent.outs[2][k]) = sent.expected[k]
        BY <2>1, PartyFacts DEF Accepted, SumsMatch
      <3>3. \A ch \in Parties : sent.outs[ch][k] = wires[Outputs[k]][ch]
        BY <2>1 DEF Accepted
      <3> QED BY <3>1, <3>2, <3>3, PartyFacts DEF Three
    <2> QED BY <2>3, <2>6 DEF PlainOutputs
  <1> QED BY <1>1, Inductive, PTL

=============================================================================
