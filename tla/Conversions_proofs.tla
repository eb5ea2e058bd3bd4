-------------------------- MODULE Conversions_proofs --------------------------
(***************************************************************************)
(* The conversions of amounts, of the lines of bills and forms, and of PIX *)
(* payloads, for floats of any number of bits from 3 on, any number of     *)
(* digits in a group, lists of any length, and keys and names of any       *)
(* length.                                                                 *)
(*                                                                         *)
(* None of it needs induction: where one would be natural, the proof takes *)
(* the least number at which the claim fails (LeastNumber).                *)
(***************************************************************************)
EXTENDS Conversions, FiniteSetTheorems, SequenceTheorems, WellFoundedInduction, TLAPS

-----------------------------------------------------------------------------
(* Numbers.                                                                 *)

\* A set of natural numbers that has an element has a smallest one.
LEMMA LeastNumber ==
  ASSUME NEW S, S \subseteq Nat, S # {}
  PROVE  \E n \in S : \A m \in S : n <= m
<1>1. PICK n \in S : \A m \in S : ~ (<<m, n>> \in OpToRel(<, Nat))
  BY NatLessThanWellFounded, WFMin
<1>2. \A m \in S : ~ (m < n)
  BY <1>1 DEF OpToRel
<1>3. \A m \in S : n <= m
  BY <1>2
<1>4. QED
  BY <1>3

-----------------------------------------------------------------------------
(* Powers of two.                                                           *)

\* The powers of two up to the n-th.
Doubling(g, n) ==
    /\ g \in [0..n -> Nat] /\ g[0] = 1
    /\ \A k \in 1..n : g[k] = 2 * g[k - 1]

LEMMA DoublingsAgree ==
  ASSUME NEW n \in Nat, NEW m \in Nat, NEW g, NEW h, Doubling(g, n), Doubling(h, m),
         NEW i \in 0..n, i \in 0..m
  PROVE  g[i] = h[i]
<1> DEFINE D == {k \in 0..n : k \in 0..m /\ g[k] # h[k]}
<1>1. SUFFICES ASSUME D # {} PROVE FALSE
  OBVIOUS
<1>2. PICK k \in D : \A j \in D : k <= j
  <2> HIDE DEF D
  <2>1. D \subseteq Nat
    BY DEF D
  <2>2. QED
    BY <1>1, <2>1, LeastNumber
<1>3. k # 0
  BY DEF Doubling
<1>4. k - 1 \in 0..n /\ k - 1 \in 0..m /\ g[k - 1] = h[k - 1]
  BY <1>2, <1>3
<1>5. g[k] = h[k]
  BY <1>3, <1>4 DEF Doubling
<1>6. QED
  BY <1>5

LEMMA DoublingsExist ==
  ASSUME NEW n \in Nat
  PROVE  \E g : Doubling(g, n)
<1> DEFINE D == {k \in Nat : ~ \E g : Doubling(g, k)}
<1>1. SUFFICES ASSUME D # {} PROVE FALSE
  OBVIOUS
<1>2. PICK k \in D : \A j \in D : k <= j
  <2> HIDE DEF D
  <2>1. D \subseteq Nat
    BY DEF D
  <2>2. QED
    BY <1>1, <2>1, LeastNumber
<1>3. CASE k = 0
  <2>1. Doubling([j \in 0..0 |-> 1], 0)
    BY DEF Doubling
  <2>2. QED
    BY <1>3, <2>1
<1>4. CASE k # 0
  <2>1. PICK g : Doubling(g, k - 1)
    BY <1>2, <1>4
  <2> DEFINE h == [j \in 0..k |-> IF j = k THEN 2 * g[k - 1] ELSE g[j]]
  <2>2. h \in [0..k -> Nat] /\ h[0] = 1
    BY <1>4, <2>1 DEF Doubling
  <2>3. ASSUME NEW j \in 1..k PROVE h[j] = 2 * h[j - 1]
    BY <1>4, <2>1, <2>3 DEF Doubling
  <2>4. Doubling(h, k)
    BY <2>2, <2>3 DEF Doubling
  <2>5. QED
    BY <2>4
<1>5. QED
  BY <1>3, <1>4

LEMMA PowerIsFunction == Power = [k \in Nat |-> IF k = 0 THEN 1 ELSE 2 * Power[k - 1]]
<1> DEFINE g == [n \in Nat |-> CHOOSE h : Doubling(h, n)]
           f == [n \in Nat |-> g[n][n]]
<1>1. ASSUME NEW n \in Nat PROVE Doubling(g[n], n)
  BY DoublingsExist
<1> HIDE DEF g
<1>2. ASSUME NEW n \in Nat PROVE f[n] = IF n = 0 THEN 1 ELSE 2 * f[n - 1]
  <2>1. CASE n = 0
    BY <1>1, <2>1 DEF Doubling
  <2>2. CASE n # 0
    <3>1. g[n][n] = 2 * g[n][n - 1]
      BY <1>1, <2>2 DEF Doubling
    <3>2. Doubling(g[n], n) /\ Doubling(g[n - 1], n - 1)
      BY <1>1, <2>2
    <3>3. g[n][n - 1] = g[n - 1][n - 1]
      BY <2>2, <3>2, DoublingsAgree
    <3>4. f[n] = g[n][n] /\ f[n - 1] = g[n - 1][n - 1]
      BY <2>2
    <3>5. QED
      BY <2>2, <3>1, <3>3, <3>4
  <2>3. QED
    BY <2>1, <2>2
<1>3. f = [k \in Nat |-> IF k = 0 THEN 1 ELSE 2 * f[k - 1]]
  <2>1. \A n \in Nat : f[n] = [k \in Nat |-> IF k = 0 THEN 1 ELSE 2 * f[k - 1]][n]
    BY <1>2
  <2>2. QED
    BY <2>1
<1> HIDE DEF f
<1>4. \E p : p = [k \in Nat |-> IF k = 0 THEN 1 ELSE 2 * p[k - 1]]
  BY <1>3
<1>5. QED
  BY <1>4 DEF Power

\* Power[n] is 2^n.
LEMMA PowerType ==
  /\ Power[0] = 1
  /\ \A n \in Nat : Power[n] \in Nat \ {0} /\ Power[n + 1] = 2 * Power[n]
<1>1. Power[0] = 1
  BY PowerIsFunction
<1>2. ASSUME NEW n \in Nat PROVE Power[n + 1] = 2 * Power[n]
  BY PowerIsFunction
<1> DEFINE D == {n \in Nat : Power[n] \notin Nat \ {0}}
<1>3. D = {}
  <2>1. SUFFICES ASSUME D # {} PROVE FALSE
    OBVIOUS
  <2>2. PICK k \in D : \A j \in D : k <= j
    <3> HIDE DEF D
    <3>1. D \subseteq Nat
      BY DEF D
    <3>2. QED
      BY <2>1, <3>1, LeastNumber
  <2>3. k # 0 /\ Power[k - 1] \in Nat \ {0}
    BY <1>1, <2>2
  <2>4. Power[k] = 2 * Power[k - 1]
    BY <1>2, <2>3
  <2>5. QED
    BY <2>3, <2>4
<1>4. QED
  BY <1>1, <1>2, <1>3

LEMMA PowerGrows ==
  ASSUME NEW m \in Nat, NEW n \in Nat, m <= n
  PROVE  Power[m] <= Power[n]
<1> DEFINE D == {k \in Nat : m <= k /\ Power[m] > Power[k]}
<1>1. SUFFICES ASSUME D # {} PROVE FALSE
  BY PowerType
<1>2. PICK k \in D : \A j \in D : k <= j
  <2> HIDE DEF D
  <2>1. D \subseteq Nat
    BY DEF D
  <2>2. QED
    BY <1>1, <2>1, LeastNumber
<1>3. k # m
  BY PowerType
<1>4. k - 1 \in Nat /\ m <= k - 1 /\ Power[m] <= Power[k - 1]
  BY <1>2, <1>3, PowerType
<1>5. Power[k] = 2 * Power[k - 1] /\ Power[k - 1] \in Nat /\ Power[m] \in Nat
  BY <1>4, PowerType
<1>6. QED
  BY <1>4, <1>5

LEMMA Power7 ==
  /\ Power[7] = 128
  /\ \A n \in Nat : Power[n + 7] = 128 * Power[n]
<1>1. ASSUME NEW n \in Nat PROVE Power[n + 7] = 128 * Power[n]
  <2>1. Power[n] \in Nat /\ Power[n + 1] = 2 * Power[n] /\ Power[n + 2] = 2 * Power[n + 1]
    BY PowerType
  <2>2. Power[n + 3] = 2 * Power[n + 2] /\ Power[n + 4] = 2 * Power[n + 3]
    BY PowerType
  <2>3. Power[n + 5] = 2 * Power[n + 4] /\ Power[n + 6] = 2 * Power[n + 5]
        /\ Power[n + 7] = 2 * Power[n + 6]
    BY PowerType
  <2>4. QED
    BY <2>1, <2>2, <2>3
<1>2. Power[0 + 7] = 128 * Power[0]
  BY <1>1
<1>3. QED
  BY <1>1, <1>2, PowerType

-----------------------------------------------------------------------------
(* Rounding.                                                                *)

\* The rounded quotient is at most a half away from the quotient.
LEMMA RoundedIsNear ==
  ASSUME NEW num \in Nat, NEW den \in Nat \ {0}
  PROVE  /\ RoundHalfEven(num, den) \in Nat
         /\ 2 * (den * RoundHalfEven(num, den) - num) <= den
         /\ 2 * (num - den * RoundHalfEven(num, den)) <= den
<1> DEFINE q == num \div den
           r == num % den
<1>1. q \in Nat /\ r \in Nat /\ r < den /\ num = den * q + r
  OBVIOUS
<1> HIDE DEF q, r
<1>2. RoundHalfEven(num, den) = IF 2 * r > den \/ (2 * r = den /\ q % 2 = 1) THEN q + 1 ELSE q
  BY DEF RoundHalfEven, q, r
<1>3. CASE RoundHalfEven(num, den) = q + 1 /\ 2 * r >= den
  <2>1. den * (q + 1) = den * q + den
    BY <1>1
  <2>2. QED
    BY <1>1, <1>3, <2>1
<1>4. CASE RoundHalfEven(num, den) = q /\ 2 * r <= den
  BY <1>1, <1>4
<1>5. QED
  BY <1>1, <1>2, <1>3, <1>4

\* What is less than a half away is the rounded quotient.
LEMMA NearIsRounded ==
  ASSUME NEW num \in Nat, NEW den \in Nat \ {0}, NEW c \in Nat,
         2 * (den * c - num) < den, 2 * (num - den * c) < den
  PROVE  RoundHalfEven(num, den) = c
<1> DEFINE q == RoundHalfEven(num, den)
<1> HIDE DEF q
<1>1. q \in Nat /\ 2 * (den * q - num) <= den /\ 2 * (num - den * q) <= den
  BY RoundedIsNear DEF q
<1>2. den * q \in Nat /\ den * c \in Nat
  BY <1>1
<1>3. den * q - den * c < den /\ den * c - den * q < den
  BY <1>1, <1>2
<1>4. CASE q > c
  <2>1. den * q >= den * (c + 1) /\ den * (c + 1) = den * c + den
    BY <1>1, <1>4
  <2>2. QED
    BY <1>2, <1>3, <2>1
<1>5. CASE q < c
  <2>1. den * c >= den * (q + 1) /\ den * (q + 1) = den * q + den
    BY <1>1, <1>5
  <2>2. QED
    BY <1>2, <1>3, <2>1
<1>6. QED
  BY <1>1, <1>4, <1>5 DEF q

-----------------------------------------------------------------------------
(* Floats.                                                                  *)

\* The float of a quotient that has Bits bits at some number K of places has
\* the least such number.
LEMMA FloatIs ==
  ASSUME NEW num \in Nat \ {0}, NEW den \in Nat \ {0}, NEW K \in 0..3 * Bits,
         num * Power[K] >= den * Power[Bits - 1]
  PROVE  LET f == Float(num, den)
         IN  /\ f.k \in 0..K
             /\ f.m = RoundHalfEven(num * Power[f.k], den)
             /\ num * Power[f.k] >= den * Power[Bits - 1]
<1> DEFINE fits(k) == num * Power[k] >= den * Power[Bits - 1]
           least(k) == fits(k) /\ \A j \in 0..k - 1 : ~ fits(j)
           D == {k \in 0..3 * Bits : fits(k)}
<1>1. K \in D /\ D \subseteq Nat
  BY AmountsAssumption
<1>2. PICK n \in D : \A j \in D : n <= j
  <2> HIDE DEF D
  <2>1. QED
    BY <1>1, LeastNumber
<1>3. n \in 0..3 * Bits /\ least(n)
  <2>1. ASSUME NEW j \in 0..n - 1, fits(j) PROVE FALSE
    <3>1. j \in D
      BY <1>2, <2>1, AmountsAssumption
    <3>2. QED
      BY <1>2, <3>1, AmountsAssumption
  <2>2. QED
    BY <1>2, <2>1
<1> DEFINE k == CHOOSE i \in 0..3 * Bits : least(i)
<1>4. k \in 0..3 * Bits /\ least(k)
  <2> HIDE DEF least
  <2>1. QED
    BY <1>3
<1>5. Float(num, den) = [m |-> RoundHalfEven(num * Power[k], den), k |-> k]
  BY DEF Float
<1> HIDE DEF k
<1>6. k <= K
  <2>1. ASSUME K < k PROVE FALSE
    BY <1>4, <2>1, AmountsAssumption
  <2>2. QED
    BY <1>4, <2>1, AmountsAssumption
<1>7. QED
  BY <1>4, <1>5, <1>6, AmountsAssumption

-----------------------------------------------------------------------------
(* Amounts.                                                                 *)

\* A text, and the text of two places of an amount.
Written(a, b, g, m) == [reais |-> a, cents |-> b, group |-> g, mark |-> m]

Plain(c) == Written(c \div 100, c % 100, "", ".")

\* The float of a positive amount has at least eight places after the point,
\* and is less than half a centavo, in these places, from the amount.
LEMMA FloatOfAmount ==
  ASSUME NEW c \in Countable, c # 0
  PROVE  LET f == Float(c, 100)
         IN  /\ f.m \in Nat /\ f.k \in 8..3 * Bits /\ Power[f.k] >= 256
             /\ 2 * (100 * f.m - Power[f.k] * c) <= 100
             /\ 2 * (Power[f.k] * c - 100 * f.m) <= 100
             /\ c * Power[f.k] >= 100 * Power[Bits - 1]
<1> DEFINE f == Float(c, 100)
           P == Power[f.k]
           B == Power[Bits - 2]
<1>1. c \in Nat \ {0} /\ B \in Nat \ {0} /\ c <= B
  BY PowerType, AmountsAssumption DEF Countable
<1>2. Bits - 1 \in Nat /\ Power[Bits - 1] = 2 * B
  <2>1. Bits - 2 \in Nat /\ Bits - 1 = (Bits - 2) + 1
    BY AmountsAssumption
  <2>2. QED
    BY <2>1, PowerType
<1>3. Bits + 6 \in 0..3 * Bits /\ Power[Bits + 6] = 128 * Power[Bits - 1]
  <2>1. Bits + 6 = (Bits - 1) + 7
    BY AmountsAssumption
  <2>2. Power[(Bits - 1) + 7] = 128 * Power[Bits - 1]
    BY <1>2, Power7
  <2>3. QED
    BY <2>1, <2>2, AmountsAssumption
<1>4. c * Power[Bits + 6] >= 100 * Power[Bits - 1]
  <2> DEFINE Q == Power[Bits + 6]
  <2>1. Q \in Nat /\ Q >= 100 * Power[Bits - 1] /\ 100 * Power[Bits - 1] \in Nat
    BY <1>1, <1>2, <1>3
  <2> HIDE DEF Q
  <2>2. c * Q >= Q
    BY <1>1, <2>1
  <2>3. QED
    BY <2>1, <2>2, <1>1 DEF Q
<1>5. /\ f.k \in 0..Bits + 6 /\ f.m = RoundHalfEven(c * P, 100)
      /\ c * P >= 100 * Power[Bits - 1]
  BY <1>1, <1>3, <1>4, FloatIs
<1> HIDE DEF f
<1>6. f.k \in Nat /\ f.k <= 3 * Bits
  BY <1>5, AmountsAssumption
<1>7. P \in Nat \ {0}
  BY <1>6, PowerType
<1> HIDE DEF B, P
<1>8. P >= 200
  <2>1. SUFFICES ASSUME P < 200 PROVE FALSE
    BY <1>7
  <2>2. c * P <= c * 199
    BY <2>1, <1>1, <1>7
  <2> DEFINE X == c * P
  <2>3. X >= 200 * c
    <3>1. X \in Nat /\ X >= 100 * Power[Bits - 1]
      BY <1>1, <1>5, <1>7
    <3> HIDE DEF X
    <3>2. 100 * Power[Bits - 1] = 200 * B /\ 200 * B >= 200 * c
      BY <1>1, <1>2
    <3>3. QED
      BY <1>1, <3>1, <3>2
  <2> HIDE DEF X
  <2>4. X <= 199 * c
    BY <1>1, <2>2 DEF X
  <2>5. X \in Nat
    BY <1>1, <1>7 DEF X
  <2>6. QED
    BY <1>1, <2>3, <2>4, <2>5
<1>9. f.k >= 8 /\ P >= 256
  <2>1. ASSUME f.k <= 7 PROVE FALSE
    <3>1. Power[f.k] <= Power[7]
      BY <1>6, <2>1, PowerGrows
    <3>2. P <= 128
      BY <3>1, Power7 DEF P
    <3>3. QED
      BY <1>7, <1>8, <3>2
  <2>2. Power[8] = 256
    <3>1. Power[7 + 1] = 2 * Power[7]
      BY PowerType
    <3>2. QED
      BY <3>1, Power7
  <2>3. Power[8] <= P
    BY <1>6, <2>1, PowerGrows DEF P
  <2>4. QED
    BY <1>6, <2>1, <2>2, <2>3
<1>10. c * P \in Nat /\ c * P = P * c
  BY <1>1, <1>7
<1>11. /\ f.m \in Nat /\ 2 * (100 * f.m - P * c) <= 100
       /\ 2 * (P * c - 100 * f.m) <= 100
  BY <1>5, <1>10, RoundedIsNear
<1>12. QED
  BY <1>5, <1>6, <1>9, <1>11 DEF f, P

\* Two places say the amount exactly.
LEMMA TwoPlacesOfAmount ==
  ASSUME NEW c \in Countable
  PROVE  TwoPlaces(Float(c, 100)) = Plain(c)
<1>1. c \in Nat
  BY PowerType, AmountsAssumption DEF Countable
<1>2. RoundHalfEven(100 * Float(c, 100).m, Power[Float(c, 100).k]) = c
  <2>1. CASE c = 0
    <3>1. Float(c, 100) = [m |-> 0, k |-> 0]
      BY <2>1 DEF Float
    <3>2. RoundHalfEven(0, 1) = 0
      BY DEF RoundHalfEven
    <3>3. QED
      BY <2>1, <3>1, <3>2, PowerType
  <2>2. CASE c # 0
    <3> DEFINE f == Float(c, 100)
               P == Power[f.k]
    <3>1. /\ f.m \in Nat /\ P >= 256 /\ f.k \in Nat
          /\ 2 * (100 * f.m - P * c) <= 100
          /\ 2 * (P * c - 100 * f.m) <= 100
      BY <2>2, FloatOfAmount, AmountsAssumption
    <3>2. P \in Nat \ {0}
      BY <3>1, PowerType
    <3> HIDE DEF f, P
    <3>3. 100 * f.m \in Nat /\ P * c \in Nat
      BY <1>1, <3>1, <3>2
    <3>4. 2 * (P * c - 100 * f.m) < P /\ 2 * (100 * f.m - P * c) < P
      BY <3>1, <3>2, <3>3
    <3>5. RoundHalfEven(100 * f.m, P) = c
      BY <1>1, <3>2, <3>3, <3>4, NearIsRounded
    <3>6. QED
      BY <3>5 DEF f, P
  <2>3. QED
    BY <2>1, <2>2
<1>3. QED
  BY <1>2 DEF TwoPlaces, Plain, Written

\* A hundred times the float of an amount, rounded to a float and then to a
\* number, is the amount.
LEMMA HundredTimes ==
  ASSUME NEW c \in Countable
  PROVE  LET f == Float(c, 100)
         IN  Rounded(Float(100 * f.m, Power[f.k])) = c
<1> DEFINE f == Float(c, 100)
           N == 100 * f.m
           D == Power[f.k]
           g == Float(N, D)
           P == Power[g.k]
<1>1. c \in Nat
  BY PowerType, AmountsAssumption DEF Countable
<1>2. CASE c = 0
  <2>1. f = [m |-> 0, k |-> 0] /\ RoundHalfEven(0, 1) = 0
    BY <1>2 DEF Float, RoundHalfEven
  <2>2. g = [m |-> 0, k |-> 0]
    <3>1. N = 0
      BY <2>1
    <3> HIDE DEF N, D
    <3>2. QED
      BY <3>1 DEF Float
  <2>3. QED
    BY <1>2, <2>1, <2>2, PowerType DEF Rounded
<1>3. CASE c # 0
  <2>1. /\ f.m \in Nat /\ f.k \in 8..3 * Bits /\ D >= 256
        /\ 2 * (N - D * c) <= 100 /\ 2 * (D * c - N) <= 100
        /\ c * D >= 100 * Power[Bits - 1]
    BY <1>3, FloatOfAmount
  <2>2. D \in Nat \ {0} /\ f.k \in Nat /\ f.k <= 3 * Bits
    BY <2>1, PowerType, AmountsAssumption
  <2> DEFINE B == Power[Bits - 2]
             k == f.k
  <2>3. B \in Nat \ {0} /\ c <= B /\ Power[Bits - 1] = 2 * B
    <3>1. Bits - 2 \in Nat /\ Bits - 1 = (Bits - 2) + 1
      BY AmountsAssumption
    <3>2. QED
      BY <1>1, <3>1, PowerType DEF Countable
  <2>4. N \in Nat /\ N = 100 * f.m
    BY <2>1
  <2>5. D = Power[k] /\ k \in 0..3 * Bits
    BY <2>2, AmountsAssumption
  <2> HIDE DEF f, N, D, B, k
  <2>6. D * c \in Nat /\ D * c = c * D
    BY <1>1, <2>2
  <2>7. N >= 2 * B /\ N # 0
    BY <2>1, <2>3, <2>4, <2>6
  <2>8. N * Power[k] >= D * Power[Bits - 1]
    <3>1. N * D >= (2 * B) * D
      BY <2>2, <2>3, <2>4, <2>7
    <3>2. (2 * B) * D = D * (2 * B)
      BY <2>2, <2>3
    <3>3. QED
      BY <2>3, <2>5, <3>1, <3>2
  <2>9. /\ g.k \in 0..k /\ g.m = RoundHalfEven(N * P, D)
        /\ N * P >= D * Power[Bits - 1]
    BY <2>2, <2>4, <2>5, <2>7, <2>8, FloatIs
  <2> HIDE DEF g
  <2>10. g.k \in Nat /\ P \in Nat \ {0}
    BY <2>5, <2>9, PowerType
  <2>11. g.k # 0
    <3>1. SUFFICES ASSUME g.k = 0 PROVE FALSE
      OBVIOUS
    <3>2. N >= D * (2 * B)
      BY <2>3, <2>4, <2>9, <3>1, PowerType
    <3>3. D * c <= D * B /\ D * (2 * B) = D * B + D * B /\ D * B >= D /\ D * B \in Nat
      BY <1>1, <2>2, <2>3
    <3>4. QED
      BY <2>1, <2>2, <2>4, <2>6, <3>2, <3>3
  <2>12. P >= 2
    <3>1. Power[0 + 1] = 2 * Power[0]
      BY PowerType
    <3>2. Power[1] <= P
      BY <2>10, <2>11, PowerGrows
    <3>3. QED
      BY <2>10, <3>1, <3>2, PowerType
  <2> HIDE DEF P
  <2> DEFINE m == g.m
  <2>13. /\ m \in Nat /\ 2 * (D * m - N * P) <= D /\ 2 * (N * P - D * m) <= D
    <3>1. N * P \in Nat
      BY <2>4, <2>10
    <3>2. QED
      BY <2>2, <2>9, <3>1, RoundedIsNear
  <2> HIDE DEF m
  <2>14. 2 * (P * c - m) < P /\ 2 * (m - P * c) < P
    <3> DEFINE e == N - D * c
               d == m - P * c
    <3>1. e \in Int /\ d \in Int /\ 2 * e <= 100 /\ -100 <= 2 * e
      BY <1>1, <2>1, <2>2, <2>4, <2>6, <2>10, <2>13
    <3>2. N = D * c + e /\ m = P * c + d
      BY <1>1, <2>2, <2>4, <2>6, <2>10, <2>13
    <3> HIDE DEF e, d
    <3>3. N * P = D * (P * c) + e * P
      BY <1>1, <2>2, <2>10, <3>1, <3>2
    <3>4. D * m = D * (P * c) + D * d
      BY <1>1, <2>2, <2>10, <3>1, <3>2
    <3>5. e * P <= 50 * P /\ e * P >= -50 * P
      BY <2>10, <3>1
    <3>6. 2 * (D * d) <= D + 100 * P /\ -(2 * (D * d)) <= D + 100 * P
      <4> DEFINE X == D * (P * c)
                 Y == e * P
                 Z == D * d
      <4>1. X \in Int /\ Y \in Int /\ Z \in Int
        BY <1>1, <2>2, <2>10, <3>1
      <4>2. 2 * (Z - Y) <= D /\ 2 * (Y - Z) <= D
        <5>1. N * P = X + Y /\ D * m = X + Z
          BY <3>3, <3>4
        <5> HIDE DEF X, Y, Z
        <5>2. QED
          BY <2>2, <2>13, <4>1, <5>1
      <4> HIDE DEF X
      <4>3. Y <= 50 * P /\ Y >= -50 * P
        BY <3>5
      <4> HIDE DEF Y, Z
      <4>4. 2 * Z <= D + 100 * P /\ -(2 * Z) <= D + 100 * P
        BY <2>2, <2>10, <4>1, <4>2, <4>3
      <4>5. QED
        BY <4>4 DEF Z
    <3>7. D + 100 * P < D * P
      <4>1. D * (P - 1) >= 256 * (P - 1) /\ D * (P - 1) = D * P - D
        BY <2>1, <2>2, <2>10, <2>12
      <4>2. D * P \in Nat
        BY <2>2, <2>10
      <4>3. QED
        BY <2>2, <2>10, <2>12, <4>1, <4>2
    <3>8. 2 * d < P
      <4>1. SUFFICES ASSUME 2 * d >= P PROVE FALSE
        BY <2>10, <3>1
      <4>2. D * (2 * d) >= D * P /\ D * (2 * d) = 2 * (D * d) /\ D * d \in Int /\ D * P \in Int
        BY <2>2, <2>10, <3>1, <4>1
      <4>3. QED
        BY <2>2, <2>10, <3>6, <3>7, <4>2
    <3>9. 2 * (-d) < P
      <4>1. SUFFICES ASSUME 2 * (-d) >= P PROVE FALSE
        BY <2>10, <3>1
      <4>2. /\ D * (2 * (-d)) >= D * P /\ D * (2 * (-d)) = -(2 * (D * d))
            /\ D * d \in Int /\ D * P \in Int
        BY <2>2, <2>10, <3>1, <4>1
      <4>3. QED
        BY <2>2, <2>10, <3>6, <3>7, <4>2
    <3>10. P * c \in Nat
      BY <1>1, <2>10
    <3>11. QED
      BY <2>10, <2>13, <3>1, <3>2, <3>8, <3>9, <3>10
  <2>15. RoundHalfEven(m, P) = c
    BY <1>1, <2>10, <2>13, <2>14, NearIsRounded
  <2>16. QED
    BY <2>15 DEF Rounded, f, N, D, g, P, m
<1>4. QED
  BY <1>2, <1>3

\* The text of two places is read as the amount, whatever stands for an invalid
\* text.
LEMMA PlainIsRead ==
  ASSUME NEW c \in Countable, NEW invalid
  PROVE  parse_brl(Plain(c), invalid) = c
<1>1. c \in Nat
  BY PowerType, AmountsAssumption DEF Countable
<1>2. 100 * (c \div 100) + (c % 100) = c
  BY <1>1
<1>3. Unmarked(Plain(c)) = Plain(c) /\ ~ Unreadable(Plain(c))
  BY DEF Unmarked, Unreadable, Plain, Written
<1>4. ToFloat(Plain(c)) = Float(c, 100)
  <2>1. ToFloat(Plain(c)) = Float(100 * (c \div 100) + (c % 100), 100)
    BY DEF ToFloat, Plain, Written
  <2>2. QED
    BY <1>2, <2>1
<1>5. Rounded(Times100(Plain(c))) = c
  BY <1>4, HundredTimes DEF Times100
<1>6. QED
  BY <1>3, <1>5 DEF parse_brl

LEMMA TextIsWritten ==
  ASSUME NEW a, NEW b, NEW g, NEW m,
         NEW text \in [reais: {a}, cents: {b}, group: {g}, mark: {m}]
  PROVE  text = Written(a, b, g, m)
BY DEF Written

\* So is the text of a form, once its marks are those of a float.
LEMMA ShownIsRead ==
  ASSUME NEW c \in Countable, NEW invalid
  PROVE  /\ format_brl_input(c) \in Texts /\ _format_amount_input(c) \in Texts
         /\ parse_brl(format_brl_input(c), invalid) = c
         /\ parse_brl(_format_amount_input(c), invalid) = c
<1> DEFINE marked(g, m) == Written(c \div 100, c % 100, g, m)
<1>1. c \in Nat
  BY PowerType, AmountsAssumption DEF Countable
<1>2. TwoPlaces(Float(c, 100)) = Plain(c)
  BY TwoPlacesOfAmount
<1>3. c \div 100 \in Nat /\ c % 100 \in 0..99
  BY <1>1
<1>4. PICK g \in {"", "."} : format_brl_input(c) = marked(g, ",")
  <2> DEFINE g == IF c \div 100 >= Group THEN "," ELSE ""
             swap == [x \in {"", ",", "."} |->
                         CASE x = "," -> "." [] x = "." -> "," [] OTHER -> ""]
  <2>1. g \in {"", ","}
    OBVIOUS
  <2>2. Grouped(Plain(c)) = [Plain(c) EXCEPT !.group = g]
    BY DEF Grouped, Plain, Written
  <2>3. Grouped(Plain(c)) = marked(g, ".")
    <3>1. Grouped(Plain(c)) \in [reais: {c \div 100}, cents: {c % 100}, group: {g}, mark: {"."}]
      BY <2>2 DEF Plain, Written
    <3>2. QED
      BY <3>1, TextIsWritten
  <2>4. swap[","] = "." /\ swap["."] = "," /\ swap[""] = ""
    OBVIOUS
  <2>5. Swapped(marked(g, ".")) = [marked(g, ".") EXCEPT !.group = swap[g], !.mark = swap["."]]
    BY DEF Swapped, Written
  <2> HIDE DEF g, swap
  <2>6. Swapped(marked(g, ".")) = marked(swap[g], ",")
    <3>1. Swapped(marked(g, ".")) \in
             [reais: {c \div 100}, cents: {c % 100}, group: {swap[g]}, mark: {","}]
      BY <2>4, <2>5 DEF Written
    <3>2. QED
      BY <3>1, TextIsWritten
  <2>7. format_brl_input(c) = marked(swap[g], ",")
    BY <1>2, <2>3, <2>6 DEF format_brl_input
  <2>8. swap[g] \in {"", "."}
    BY <2>1, <2>4
  <2> HIDE DEF marked
  <2>9. QED
    BY <2>7, <2>8
<1>5. Unmarked(format_brl_input(c)) = Plain(c)
  <2>1. Unmarked(marked(g, ",")) = [marked(g, ",") EXCEPT !.group = "", !.mark = "."]
    BY DEF Unmarked, Written
  <2>2. QED
    <3>1. Unmarked(marked(g, ",")) \in
             [reais: {c \div 100}, cents: {c % 100}, group: {""}, mark: {"."}]
      BY <2>1 DEF Written
    <3>2. QED
      BY <1>4, <3>1, TextIsWritten DEF Plain
<1>6. Unmarked(Plain(c)) = Plain(c)
  BY DEF Unmarked, Plain, Written
<1>7. parse_brl(format_brl_input(c), invalid) = parse_brl(Plain(c), invalid)
  BY <1>5, <1>6 DEF parse_brl
<1>8. _format_amount_input(c) = Plain(c) /\ Plain(c) \in Texts
  BY <1>2, <1>3 DEF _format_amount_input, Plain, Written, Texts
<1>9. format_brl_input(c) \in Texts
  <2>1. g \in {"", ",", "."}
    BY <1>4
  <2>2. marked(g, ",") \in Texts
    <3> HIDE <1>4
    <3>1. QED
      BY <1>3, <2>1 DEF Texts, Written
  <2>3. QED
    BY <1>4, <2>2
<1>10. QED
  BY <1>7, <1>8, <1>9, PlainIsRead

-----------------------------------------------------------------------------
(* The input of a conversion is there in the initial state only.            *)

InputIsGiven == input = None \/ input \in Inputs

LEMMA StepForgetsInput ==
  ASSUME Next
  PROVE  input' = None
<1>1. ASSUME NEW a \in Editors,
             Reread(a) \/ RetrieveFails(a) \/ safe_log(a) \/ Fail(a)
      PROVE  input' = None
  BY <1>1 DEF Reread, RetrieveFails, safe_log, Fail, Quietly
<1>2. ASSUME NEW a \in Editors,
             \/ billing_edit(a) \/ billing_edit_update(a) \/ list_billings_menu(a)
             \/ generate_bill_menu(a) \/ _edit_item_cancelled(a)
             \/ excluir_cobranca(a) \/ voltar(a)
      PROVE  input' = None
  BY <1>2 DEF billing_edit, billing_edit_update, list_billings_menu, generate_bill_menu,
              _edit_item_cancelled, excluir_cobranca, voltar, Quietly
<1>3. ASSUME NEW a \in Editors,
             _edit_pix_key(a) \/ _edit_item(a) \/ _add_item(a) \/ _remove_item(a)
      PROVE  input' = None
  BY <1>3 DEF _edit_pix_key, _edit_item, _add_item, _remove_item, Change, Quietly
<1>4. ASSUME \/ billing_delete \/ bill_generate_form \/ bill_generate
             \/ bill_generate_resumes \/ CloseTab
      PROVE  input' = None
  BY <1>4 DEF billing_delete, bill_generate_form, bill_generate, bill_generate_resumes,
              CloseTab, Quietly
<1>5. QED
  BY <1>1, <1>2, <1>3, <1>4 DEF Next

LEMMA InputStaysGiven == Spec => []InputIsGiven
<1>1. Init => InputIsGiven
  BY DEF Init, InputIsGiven
<1>2. InputIsGiven /\ [Next]_vars => InputIsGiven'
  BY StepForgetsInput DEF InputIsGiven, vars
<1>3. QED
  BY <1>1, <1>2, PTL DEF Spec

-----------------------------------------------------------------------------
(* The theorems about amounts.                                              *)

\* Whatever the number of bits of a float and the number of digits in a group,
\* every amount up to a quarter of what the float can count comes back from the
\* fields of forms and from the prompts that show it.
THEOREM AmountsComeBack == \A c \in Countable : Survives(c)
BY ShownIsRead DEF Survives

\* So the amounts that are tried come back, in every behaviour.
THEOREM AmountsAlwaysSurvive == Spec => []AmountsSurvive
<1>1. InputIsGiven => AmountsSurvive
  BY InputsAssumption, AmountsComeBack DEF InputIsGiven, AmountsSurvive, Is
<1>2. QED
  BY <1>1, InputStaysGiven, PTL

-----------------------------------------------------------------------------
(* The numbers of a set in their order.                                     *)

\* p lists some of the numbers of S from the smallest on.
Rising(p, n, S) ==
    p \in [1..n -> S] /\ \A i, j \in 1..n : i < j => p[i] < p[j]

\* p leaves none of them out.
Onto(p, n, S) == \A s \in S : \E i \in 1..n : p[i] = s

LEMMA RisingIsInjective ==
  ASSUME NEW n \in Nat, NEW S \in SUBSET Int, NEW p, Rising(p, n, S)
  PROVE  p \in Injection(1..n, S)
<1>1. ASSUME NEW i \in 1..n, NEW j \in 1..n, p[i] = p[j] PROVE i = j
  <2>1. p[i] \in Int /\ p[j] \in Int
    BY DEF Rising
  <2>2. ~ (i < j) /\ ~ (j < i)
    BY <1>1, <2>1 DEF Rising
  <2>3. QED
    BY <2>2
<1>2. QED
  BY <1>1 DEF Rising, Injection, IsInjective

LEMMA RisingIsOnto ==
  ASSUME NEW S \in SUBSET Int, IsFiniteSet(S), NEW p, Rising(p, Cardinality(S), S)
  PROVE  Onto(p, Cardinality(S), S)
<1> DEFINE n == Cardinality(S)
<1>1. n \in Nat
  BY FS_CardinalityType
<1>2. p \in Injection(1..n, S)
  BY <1>1, RisingIsInjective
<1>3. Cardinality(1..n) = n
  BY <1>1, FS_Interval
<1>4. p \in Surjection(1..n, S)
  BY <1>2, <1>3, FS_Injection
<1>5. QED
  BY <1>4 DEF Surjection, Onto

LEMMA RisingIsUnique ==
  ASSUME NEW n \in Nat, NEW S \in SUBSET Int, NEW p, NEW q,
         Rising(p, n, S), Rising(q, n, S), Onto(p, n, S), Onto(q, n, S)
  PROVE  p = q
<1> DEFINE D == {k \in 1..n : p[k] # q[k]}
<1>1. ASSUME D # {} PROVE FALSE
  <2>1. PICK k \in D : \A j \in D : k <= j
    <3> HIDE DEF D
    <3>1. D \subseteq Nat
      BY DEF D
    <3>2. QED
      BY <1>1, <3>1, LeastNumber
  <2>2. k \in 1..n /\ p[k] # q[k] /\ \A j \in 1..n : j < k => p[j] = q[j]
    BY <2>1
  <2>3. p[k] \in Int /\ q[k] \in Int
    BY <2>2 DEF Rising
  <2>4. CASE p[k] < q[k]
    <3>1. PICK j \in 1..n : q[j] = p[k]
      BY <2>2 DEF Rising, Onto
    <3>2. CASE j < k
      BY <2>2, <2>3, <3>1, <3>2 DEF Rising
    <3>3. CASE j >= k
      BY <2>2, <2>3, <2>4, <3>1, <3>3 DEF Rising
    <3>4. QED
      BY <2>2, <3>2, <3>3
  <2>5. CASE q[k] < p[k]
    <3>1. PICK j \in 1..n : p[j] = q[k]
      BY <2>2 DEF Rising, Onto
    <3>2. CASE j < k
      BY <2>2, <2>3, <3>1, <3>2 DEF Rising
    <3>3. CASE j >= k
      BY <2>2, <2>3, <2>5, <3>1, <3>3 DEF Rising
    <3>4. QED
      BY <2>2, <3>2, <3>3
  <2>6. QED
    BY <2>2, <2>3, <2>4, <2>5
<1>2. p \in [1..n -> S] /\ q \in [1..n -> S]
  BY DEF Rising
<1>3. QED
  BY <1>1, <1>2

LEMMA RisingExists ==
  ASSUME NEW S \in SUBSET Nat, IsFiniteSet(S)
  PROVE  \E p : Rising(p, Cardinality(S), S)
<1> DEFINE Fails(T) == IsFiniteSet(T) /\ ~ \E p : Rising(p, Cardinality(T), T)
           D == {n \in Nat : \E T \in SUBSET Nat : Cardinality(T) = n /\ Fails(T)}
<1>1. SUFFICES ASSUME D # {} PROVE FALSE
  BY FS_CardinalityType
<1>2. PICK n \in D : \A j \in D : n <= j
  <2> HIDE DEF D
  <2>1. D \subseteq Nat
    BY DEF D
  <2>2. QED
    BY <1>1, <2>1, LeastNumber
<1>3. PICK T \in SUBSET Nat : Cardinality(T) = n /\ Fails(T)
  BY <1>2
<1>4. T # {}
  <2>1. ASSUME T = {} PROVE FALSE
    <3>1. n = 0
      BY <1>3, <2>1, FS_EmptySet
    <3>2. Rising([i \in 1..0 |-> 0], 0, T)
      BY DEF Rising
    <3>3. QED
      BY <1>3, <3>1, <3>2
  <2>2. QED
    BY <2>1
<1>5. PICK m \in T : \A k \in T : m <= k
  BY <1>4, LeastNumber
<1> DEFINE U == T \ {m}
<1>6. IsFiniteSet(U) /\ Cardinality(U) = n - 1 /\ n \in Nat
  BY <1>2, <1>3, FS_RemoveElement
<1>7. n - 1 \in Nat /\ n - 1 \notin D
  BY <1>2, <1>6, FS_CardinalityType
<1>8. PICK q : Rising(q, n - 1, U)
  BY <1>6, <1>7
<1> DEFINE p == [i \in 1..n |-> IF i = 1 THEN m ELSE q[i - 1]]
<1>9. p \in [1..n -> T]
  BY <1>6, <1>8 DEF Rising
<1>10. ASSUME NEW i \in 1..n, NEW j \in 1..n, i < j PROVE p[i] < p[j]
  <2>1. j - 1 \in 1..n - 1 /\ p[j] = q[j - 1] /\ q[j - 1] \in U
    BY <1>6, <1>8, <1>10 DEF Rising
  <2>2. CASE i = 1
    <3>1. p[i] = m /\ m \in Nat
      BY <1>5, <2>2
    <3>2. q[j - 1] \in T /\ q[j - 1] # m /\ m <= q[j - 1] /\ q[j - 1] \in Nat
      BY <1>5, <2>1
    <3>3. QED
      BY <2>1, <3>1, <3>2
  <2>3. CASE i # 1
    <3>1. i - 1 \in 1..n - 1 /\ p[i] = q[i - 1] /\ i - 1 < j - 1
      BY <1>6, <1>10, <2>3
    <3>2. QED
      BY <1>8, <2>1, <3>1 DEF Rising
  <2>4. QED
    BY <2>2, <2>3
<1>11. Rising(p, n, T)
  BY <1>9, <1>10 DEF Rising
<1>12. QED
  BY <1>3, <1>11

\* InOrder lists all the numbers of a finite set, each once.
LEMMA InOrderLists ==
  ASSUME NEW S \in SUBSET Nat, IsFiniteSet(S)
  PROVE  /\ Cardinality(S) \in Nat
         /\ Rising(InOrder(S), Cardinality(S), S)
         /\ Onto(InOrder(S), Cardinality(S), S)
         /\ DOMAIN InOrder(S) = 1..Cardinality(S)
<1> DEFINE n == Cardinality(S)
           rising(p) == \A i, j \in DOMAIN p : i < j => p[i] < p[j]
<1>1. n \in Nat
  BY FS_CardinalityType
<1>2. \E p \in [1..n -> S] : rising(p)
  <2>1. PICK p : Rising(p, n, S)
    BY RisingExists
  <2>2. p \in [1..n -> S] /\ DOMAIN p = 1..n
    BY <2>1 DEF Rising
  <2>3. QED
    BY <2>1, <2>2 DEF Rising
<1>3. InOrder(S) \in [1..n -> S] /\ rising(InOrder(S))
  <2>1. InOrder(S) = CHOOSE p \in [1..n -> S] : rising(p)
    BY DEF InOrder
  <2> HIDE DEF n, rising
  <2>2. QED
    BY <1>2, <2>1
<1>4. Rising(InOrder(S), n, S)
  BY <1>3 DEF Rising
<1>5. QED
  BY <1>1, <1>3, <1>4, RisingIsOnto

\* It is the only such list.
LEMMA InOrderIs ==
  ASSUME NEW S \in SUBSET Nat, NEW n \in Nat, NEW p, Rising(p, n, S), Onto(p, n, S)
  PROVE  InOrder(S) = p /\ IsFiniteSet(S) /\ Cardinality(S) = n
<1>1. p \in Injection(1..n, S)
  BY RisingIsInjective
<1>2. p \in Surjection(1..n, S)
  BY DEF Rising, Onto, Surjection
<1>3. p \in Bijection(1..n, S)
  BY <1>1, <1>2 DEF Bijection
<1>4. IsFiniteSet(S) /\ Cardinality(S) = n
  BY <1>3, FS_CountingElements, FS_NatBijection DEF ExistsBijection
<1>5. InOrder(S) = p
  BY <1>4, InOrderLists, RisingIsUnique
<1>6. QED
  BY <1>4, <1>5

LEMMA InOrderInterval ==
  ASSUME NEW a \in Nat, NEW n \in Nat
  PROVE  /\ InOrder(a..a + n - 1) = [i \in 1..n |-> a + i - 1]
         /\ IsFiniteSet(a..a + n - 1) /\ Cardinality(a..a + n - 1) = n
<1> DEFINE p == [i \in 1..n |-> a + i - 1]
           S == a..a + n - 1
<1>1. Rising(p, n, S)
  BY DEF Rising
<1>2. Onto(p, n, S)
  <2>1. ASSUME NEW s \in S PROVE \E i \in 1..n : p[i] = s
    <3>1. s - a + 1 \in 1..n /\ p[s - a + 1] = s
      OBVIOUS
    <3>2. QED
      BY <3>1
  <2>2. QED
    BY <2>1 DEF Onto
<1>3. S \in SUBSET Nat
  OBVIOUS
<1> HIDE DEF p, S
<1>4. InOrder(S) = p /\ IsFiniteSet(S) /\ Cardinality(S) = n
  BY <1>1, <1>2, <1>3, InOrderIs
<1>5. QED
  BY <1>4 DEF p, S

\* The identity lists 1..n.
LEMMA InOrderFromOne ==
  ASSUME NEW n \in Nat
  PROVE  InOrder(1..n) = [i \in 1..n |-> i] /\ IsFiniteSet(1..n) /\ Cardinality(1..n) = n
<1>1. 1..n = 1..1 + n - 1 /\ [i \in 1..n |-> i] = [i \in 1..n |-> 1 + i - 1]
  OBVIOUS
<1>2. QED
  BY <1>1, InOrderInterval

\* The numbers of a part T of S are listed by their places in the list of S.
LEMMA InOrderOfPart ==
  ASSUME NEW S \in SUBSET Nat, IsFiniteSet(S), NEW T \in SUBSET S
  PROVE  LET p == InOrder(S)
             K == {i \in 1..Cardinality(S) : p[i] \in T}
             q == InOrder(K)
         IN  /\ InOrder(T) = [k \in 1..Cardinality(T) |-> p[q[k]]]
             /\ Cardinality(K) = Cardinality(T) /\ IsFiniteSet(K) /\ K \in SUBSET Nat
             /\ q \in [1..Cardinality(T) -> K] /\ DOMAIN q = 1..Cardinality(T)
             /\ Cardinality(T) \in Nat
<1> DEFINE p == InOrder(S)
           n == Cardinality(S)
           K == {i \in 1..n : p[i] \in T}
           q == InOrder(K)
           c == Cardinality(K)
           r == [k \in 1..c |-> p[q[k]]]
<1>1. n \in Nat /\ Rising(p, n, S) /\ Onto(p, n, S)
  BY InOrderLists
<1>2. K \in SUBSET (1..n) /\ K \in SUBSET Nat /\ IsFiniteSet(K)
  <2>1. K \in SUBSET (1..n) /\ K \in SUBSET Nat
    BY <1>1
  <2>2. IsFiniteSet(1..n)
    BY <1>1, FS_Interval
  <2> HIDE DEF K
  <2>3. QED
    BY <2>1, <2>2, FS_Subset
<1> HIDE DEF p, n
<1>3. \A i \in 1..n : i \in K <=> p[i] \in T
  OBVIOUS
<1> HIDE DEF K
<1>4. c \in Nat /\ Rising(q, c, K) /\ Onto(q, c, K) /\ DOMAIN q = 1..c
  BY <1>2, InOrderLists
<1> HIDE DEF q, c
<1>5. Rising(r, c, T)
  <2>1. r \in [1..c -> T]
    BY <1>2, <1>3, <1>4 DEF Rising
  <2>2. ASSUME NEW i \in 1..c, NEW j \in 1..c, i < j PROVE r[i] < r[j]
    <3>1. q[i] \in 1..n /\ q[j] \in 1..n /\ q[i] < q[j]
      BY <1>2, <1>4, <2>2 DEF Rising
    <3>2. QED
      BY <1>1, <3>1 DEF Rising
  <2>3. QED
    BY <2>1, <2>2 DEF Rising
<1>6. Onto(r, c, T)
  <2>1. ASSUME NEW t \in T PROVE \E k \in 1..c : r[k] = t
    <3>1. PICK i \in 1..n : p[i] = t
      BY <1>1 DEF Onto
    <3>2. i \in K
      BY <1>3, <3>1
    <3>3. PICK k \in 1..c : q[k] = i
      BY <1>4, <3>2 DEF Onto
    <3>4. QED
      BY <3>1, <3>3
  <2>2. QED
    BY <2>1 DEF Onto
<1>7. InOrder(T) = r /\ Cardinality(T) = c
  BY <1>4, <1>5, <1>6, InOrderIs
<1>8. q \in [1..c -> K]
  BY <1>4 DEF Rising
<1>9. QED
  BY <1>2, <1>4, <1>7, <1>8 DEF p, n, K, q, c

-----------------------------------------------------------------------------
(* The table.                                                               *)

\* Lines as they are handed to the repository.
Numbered(D, T, A) == [desc: D, type: T, amount: A, sort: Int]

\* The lines of a bill come back in the order in which they were inserted,
\* whatever numbers they came with, and in no other.
LEMMA LoadedAsStored ==
  ASSUME NEW D, NEW T, NEW A, NEW n \in Nat, NEW list \in [1..n -> Numbered(D, T, A)]
  PROVE  Loaded(Stored(list)) =
           {[i \in 1..n |-> BillLine(list[i].desc, list[i].type, list[i].amount)]}
<1> DEFINE rows == Stored(list)
           orders == {p \in [1..n -> 1..n] :
                         /\ IsInjective(p)
                         /\ \A i, j \in 1..n : i < j => rows[p[i]].sort <= rows[p[j]].sort}
           id == [i \in 1..n |-> i]
           line(r) == BillLine(r.desc, r.type, r.amount)
<1>1. DOMAIN rows = 1..n
  BY DEF Stored
<1>2. ASSUME NEW i \in 1..n
      PROVE  /\ rows[i].sort = i - 1 /\ rows[i].desc = list[i].desc
             /\ rows[i].type = list[i].type /\ rows[i].amount = list[i].amount
  BY DEF Stored, Numbered
<1>3. Loaded(rows) = {[i \in 1..n |-> line(rows[p[i]])] : p \in orders}
  BY <1>1 DEF Loaded
<1> HIDE DEF rows
<1>4. 1..n \in SUBSET Int /\ IsFiniteSet(1..n) /\ Cardinality(1..n) = n
  <2>1. 1..n \in SUBSET Int
    OBVIOUS
  <2>2. QED
    BY <2>1, InOrderFromOne
<1>5. Rising(id, n, 1..n) /\ Onto(id, n, 1..n)
  BY DEF Rising, Onto
<1>6. ASSUME NEW p \in orders PROVE p = id
  <2>1. ASSUME NEW i \in 1..n, NEW j \in 1..n, i < j PROVE p[i] < p[j]
    <3>1. p[i] \in 1..n /\ p[j] \in 1..n /\ p[i] # p[j]
      BY <2>1 DEF IsInjective
    <3>2. p[i] - 1 <= p[j] - 1
      BY <1>2, <2>1, <3>1
    <3>3. QED
      BY <3>1, <3>2
  <2>2. Rising(p, n, 1..n)
    BY <2>1 DEF Rising
  <2>3. Onto(p, n, 1..n)
    BY <1>4, <2>2, RisingIsOnto
  <2>4. QED
    BY <1>4, <1>5, <2>2, <2>3, RisingIsUnique
<1>7. id \in orders
  BY <1>2 DEF IsInjective
<1>8. orders = {id}
  BY <1>6, <1>7
<1>9. [i \in 1..n |-> line(rows[id[i]])] =
        [i \in 1..n |-> BillLine(list[i].desc, list[i].type, list[i].amount)]
  BY <1>2
<1> HIDE DEF orders, id
<1>10. Loaded(rows) = {[i \in 1..n |-> line(rows[id[i]])]}
  BY <1>3, <1>8
<1>11. QED
  BY <1>9, <1>10 DEF rows

-----------------------------------------------------------------------------
(* The fields and the rows of a form.                                       *)

LEMMA FieldIsRead ==
  ASSUME NEW c \in Countable
  PROVE  /\ c \in Nat
         /\ format_brl_input(c) # Blank /\ OrZero(format_brl_input(c)) = c
         /\ Centavos(format_brl_input(c)) = c
         /\ Centavos(_format_amount_input(c)) = c
<1>1. c \in Nat
  BY PowerType, AmountsAssumption DEF Countable
<1>2. /\ format_brl_input(c) \in Texts /\ _format_amount_input(c) \in Texts
      /\ parse_brl(format_brl_input(c), Blank) = c
      /\ parse_brl(_format_amount_input(c), Blank) = c
  BY ShownIsRead
<1>3. format_brl_input(c) # Blank /\ _format_amount_input(c) # Blank /\ c # Blank
  BY <1>1, <1>2, BillLinesAssumption
<1>4. QED
  BY <1>1, <1>2, <1>3 DEF Centavos, OrZero

\* A field of the form as it was shown, or left empty.
ShownFields == {Blank} \cup {format_brl_input(c) : c \in Countable}

LEMMA FieldIsAmount ==
  ASSUME NEW text \in ShownFields
  PROVE  /\ OrZero(text) \in Nat
         /\ text = Blank <=> Centavos(text) = Blank
         /\ text \in AmountFields /\ text # Blank => OrZero(text) > 0
<1>1. CASE text = Blank
  <2>1. Centavos(text) = Blank
    BY <1>1 DEF Centavos
  <2>2. OrZero(text) = 0
    BY <2>1 DEF OrZero
  <2>3. QED
    BY <1>1, <2>1, <2>2
<1>2. CASE text # Blank
  <2>1. PICK c \in Countable : text = format_brl_input(c)
    BY <1>2 DEF ShownFields
  <2>2. c \in Nat /\ OrZero(text) = c /\ Centavos(text) = c /\ c # Blank
    BY <2>1, FieldIsRead, BillLinesAssumption
  <2>3. ASSUME text \in AmountFields PROVE c # 0
    <3>1. PICK d \in Countable \ {0} : text = format_brl_input(d)
      BY <1>2, <2>3 DEF AmountFields
    <3>2. OrZero(text) = d
      BY <3>1, FieldIsRead
    <3>3. QED
      BY <2>2, <3>2
  <2>4. QED
    BY <1>2, <2>2, <2>3
<1>3. QED
  BY <1>1, <1>2

\* The places, among the rows that parse_formset finds, of those in T.
PlacesOf(form, T) ==
    {i \in DOMAIN parse_formset(form) : InOrder(DOMAIN form.rows)[i] \in T}

\* The rows that parse_formset finds and those of them that are in T.
LEMMA RowsOfForm ==
  ASSUME NEW fields, NEW form, IsForm(form, fields), NEW T \in SUBSET DOMAIN form.rows
  PROVE  LET rows == parse_formset(form)
             place == InOrder(DOMAIN form.rows)
             K == PlacesOf(form, T)
             kept == InOrder(K)
             n == Cardinality(T)
         IN  /\ \A i \in DOMAIN rows :
                   rows[i] = form.rows[place[i]] /\ place[i] \in DOMAIN form.rows
             /\ DOMAIN rows \in SUBSET Nat
             /\ n \in Nat /\ DOMAIN kept = 1..n /\ DOMAIN InOrder(T) = 1..n
             /\ \A k \in 1..n : /\ kept[k] \in K /\ InOrder(T)[k] \in T
                                /\ InOrder(T)[k] = place[kept[k]]
<1> DEFINE R == DOMAIN form.rows
           rows == parse_formset(form)
           place == InOrder(R)
           K == PlacesOf(form, T)
           kept == InOrder(K)
           n == Cardinality(T)
           m == Cardinality(R)
<1>1. R \in SUBSET Nat /\ R \in SUBSET (0..form.total - 1)
  BY DEF IsForm
<1>2. IsFiniteSet(R)
  <2>1. IsFiniteSet(0..form.total - 1)
    BY FS_Interval DEF IsForm
  <2> HIDE DEF R
  <2>2. QED
    BY <1>1, <2>1, FS_Subset
<1>3. m \in Nat /\ DOMAIN place = 1..m /\ place \in [1..m -> R]
  <2> HIDE DEF R
  <2>1. QED
    BY <1>1, <1>2, InOrderLists DEF Rising
<1>4. {i \in R : i < form.total} = R
  BY <1>1 DEF IsForm
<1>5. rows = [k \in 1..m |-> form.rows[place[k]]]
  BY <1>3, <1>4 DEF parse_formset
<1>6. K = {i \in 1..m : place[i] \in T}
  BY <1>5 DEF PlacesOf
<1>7. T \in SUBSET R
  OBVIOUS
<1> HIDE DEF R, place, m, K, n, rows, kept
<1>8. /\ InOrder(T) = [k \in 1..n |-> place[kept[k]]]
      /\ kept \in [1..n -> K] /\ DOMAIN kept = 1..n /\ n \in Nat
  BY <1>1, <1>2, <1>6, <1>7, InOrderOfPart DEF m, place, n, kept
<1>9. \A k \in 1..n : kept[k] \in K /\ InOrder(T)[k] = place[kept[k]] /\ place[kept[k]] \in T
  BY <1>6, <1>8
<1>10. DOMAIN InOrder(T) = 1..n
  BY <1>8
<1>11. /\ \A i \in DOMAIN rows : rows[i] = form.rows[place[i]] /\ place[i] \in R
       /\ DOMAIN rows \in SUBSET Nat
  BY <1>3, <1>5
<1>12. QED
  BY <1>8, <1>9, <1>10, <1>11 DEF R, place, K, n, rows, kept

LEMMA Concatenated ==
  ASSUME NEW S, NEW m \in Nat, NEW n \in Nat, NEW f \in [1..m -> S], NEW g \in [1..n -> S]
  PROVE  /\ f \o g \in [1..m + n -> S]
         /\ \A i \in 1..m + n : (f \o g)[i] = IF i <= m THEN f[i] ELSE g[i - m]
<1>1. f \in Seq(S) /\ Len(f) = m /\ g \in Seq(S) /\ Len(g) = n
  OBVIOUS
<1> DEFINE c == f \o g
<1>2. c \in Seq(S) /\ Len(c) = m + n
  BY <1>1
<1>3. \A i \in 1..m + n : c[i] = IF i <= m THEN f[i] ELSE g[i - m]
  BY <1>1
<1> HIDE DEF c
<1>4. c \in [1..m + n -> S]
  BY <1>2
<1>5. QED
  BY <1>3, <1>4 DEF c

Named == Descriptions \cup {Blank}

\* The described rows of the form and the new extras that have an amount become
\* the lines, in this order.
LEMMA EditFollows ==
  ASSUME NEW form, NEW extras, IsForm(form, ShownFields), IsForm(extras, AmountFields)
  PROVE  FollowsTheForm(form, extras)
<1> DEFINE D == Named
           rows == parse_formset(form)
           place == InOrder(DOMAIN form.rows)
           T == {i \in DOMAIN form.rows : form.rows[i].desc # Blank}
           K == PlacesOf(form, T)
           t == InOrder(T)
           m == Cardinality(T)
           more == parse_formset(extras)
           spot == InOrder(DOMAIN extras.rows)
           U == {i \in DOMAIN extras.rows :
                    extras.rows[i].desc # Blank /\ extras.rows[i].amount # Blank}
           V == PlacesOf(extras, U)
           u == InOrder(U)
           n == Cardinality(U)
           kept == InOrder(K)
           valid == InOrder(V)
           row(k) == form.rows[t[k]]
           extra(k) == extras.rows[u[k]]
           F == [k \in 1..m |-> [desc |-> row(k).desc, type |-> row(k).type,
                                 amount |-> OrZero(row(k).amount), sort |-> kept[k] - 1]]
           G == [k \in 1..n |-> [desc |-> extra(k).desc, type |-> "extra",
                                 amount |-> OrZero(extra(k).amount), sort |-> m + k - 1]]
           A == [k \in 1..m |-> BillLine(row(k).desc, row(k).type, OrZero(row(k).amount))]
           B == [k \in 1..n |-> BillLine(extra(k).desc, "extra", OrZero(extra(k).amount))]
<1>1. T \in SUBSET DOMAIN form.rows /\ U \in SUBSET DOMAIN extras.rows
  OBVIOUS
<1>2. /\ \A i \in DOMAIN rows : rows[i] = form.rows[place[i]] /\ place[i] \in DOMAIN form.rows
      /\ DOMAIN rows \in SUBSET Nat
      /\ m \in Nat /\ DOMAIN kept = 1..m /\ DOMAIN t = 1..m
      /\ \A k \in 1..m : kept[k] \in K /\ t[k] \in T /\ t[k] = place[kept[k]]
  <2> HIDE DEF T
  <2>1. QED
    BY <1>1, RowsOfForm
<1>3. /\ \A i \in DOMAIN more : more[i] = extras.rows[spot[i]] /\ spot[i] \in DOMAIN extras.rows
      /\ DOMAIN more \in SUBSET Nat
      /\ n \in Nat /\ DOMAIN valid = 1..n /\ DOMAIN u = 1..n
      /\ \A k \in 1..n : valid[k] \in V /\ u[k] \in U /\ u[k] = spot[valid[k]]
  <2> HIDE DEF U
  <2>1. QED
    BY <1>1, RowsOfForm
<1>4. /\ \A i \in DOMAIN form.rows : form.rows[i] \in FormRow(LineTypes, ShownFields)
      /\ \A i \in DOMAIN extras.rows : extras.rows[i] \in FormRow(LineTypes, AmountFields)
  BY DEF IsForm
<1>5. AmountFields \subseteq ShownFields
  BY DEF AmountFields, ShownFields
<1> HIDE DEF K, V
<1>6. K = {i \in DOMAIN rows : place[i] \in T}
  BY DEF PlacesOf, K
<1>7. V = {i \in DOMAIN more : spot[i] \in U}
  BY DEF PlacesOf, V
<1> DEFINE KK == {i \in DOMAIN rows : rows[i].desc # Blank}
           VV == {i \in DOMAIN more : /\ more[i].desc # Blank
                                      /\ Centavos(more[i].amount) # Blank
                                      /\ OrZero(more[i].amount) > 0}
<1>8. bill_edit(form, extras) =
         [k \in DOMAIN InOrder(KK) |->
            [i \in DOMAIN rows |->
               [desc |-> rows[i].desc, type |-> rows[i].type,
                amount |-> OrZero(rows[i].amount), sort |-> i - 1]][InOrder(KK)[k]]]
         \o [k \in DOMAIN InOrder(VV) |->
               [desc |-> more[InOrder(VV)[k]].desc, type |-> "extra",
                amount |-> OrZero(more[InOrder(VV)[k]].amount),
                sort |-> Len(InOrder(KK)) + k - 1]]
  BY DEF bill_edit
<1> HIDE DEF rows, place, t, m, more, spot, u, n, kept, valid
<1>9. ASSUME NEW k \in 1..m
      PROVE  row(k).desc \in D /\ row(k).type \in LineTypes /\ OrZero(row(k).amount) \in Nat
  <2>1. row(k) \in FormRow(LineTypes, ShownFields)
    BY <1>2, <1>4
  <2>2. row(k).desc \in D /\ row(k).type \in LineTypes /\ row(k).amount \in ShownFields
    BY <2>1 DEF FormRow, Named
  <2>3. QED
    BY <2>2, FieldIsAmount
<1>10. ASSUME NEW k \in 1..n
      PROVE  extra(k).desc \in D /\ "extra" \in LineTypes /\ OrZero(extra(k).amount) \in Nat
  <2>1. extra(k) \in FormRow(LineTypes, AmountFields)
    BY <1>3, <1>4
  <2>2. extra(k).desc \in D /\ "extra" \in LineTypes /\ extra(k).amount \in ShownFields
    BY <1>5, <2>1 DEF FormRow, Named, LineTypes
  <2>3. QED
    BY <2>2, FieldIsAmount
<1>11. K = KK
  BY <1>2, <1>6
<1>12. V = VV
  <2>1. ASSUME NEW i \in DOMAIN more
        PROVE  more[i].amount # Blank
                 <=> Centavos(more[i].amount) # Blank /\ OrZero(more[i].amount) > 0
    <3>1. more[i] \in FormRow(LineTypes, AmountFields)
      BY <1>3, <1>4
    <3>2. more[i].amount \in AmountFields /\ more[i].amount \in ShownFields
      BY <1>5, <3>1 DEF FormRow
    <3>3. QED
      BY <3>2, FieldIsAmount
  <2>2. QED
    BY <1>3, <1>7, <2>1
<1> HIDE DEF T, U, D, KK, VV
<1>13. bill_edit(form, extras) = F \o G
  <2> DEFINE numbered == [i \in DOMAIN rows |->
                            [desc |-> rows[i].desc, type |-> rows[i].type,
                             amount |-> OrZero(rows[i].amount), sort |-> i - 1]]
             X == [k \in DOMAIN kept |-> numbered[kept[k]]]
             Y == [k \in DOMAIN valid |->
                     [desc |-> more[valid[k]].desc, type |-> "extra",
                      amount |-> OrZero(more[valid[k]].amount), sort |-> Len(kept) + k - 1]]
  <2>1. bill_edit(form, extras) = X \o Y
    BY <1>11, <1>12, <1>8 DEF kept, valid
  <2>2. Len(kept) = m
    BY <1>2
  <2>3. X = F
    <3>1. ASSUME NEW k \in 1..m
          PROVE  numbered[kept[k]] = [desc |-> row(k).desc, type |-> row(k).type,
                                      amount |-> OrZero(row(k).amount), sort |-> kept[k] - 1]
      BY <1>2, <1>6
    <3> HIDE DEF numbered
    <3>2. QED
      BY <1>2, <3>1
  <2>4. Y = G
    <3>1. ASSUME NEW k \in 1..n PROVE more[valid[k]] = extra(k)
      BY <1>3, <1>7
    <3>2. QED
      BY <1>3, <2>2, <3>1
  <2> HIDE DEF X, Y, F, G
  <2>5. QED
    BY <2>1, <2>3, <2>4
<1>14. F \in [1..m -> Numbered(D, LineTypes, Nat)]
  <2>1. ASSUME NEW k \in 1..m PROVE F[k] \in Numbered(D, LineTypes, Nat)
    <3>1. kept[k] \in Nat
      BY <1>2, <1>6
    <3>2. QED
      BY <1>9, <3>1 DEF Numbered
  <2> HIDE DEF row
  <2>2. QED
    BY <2>1
<1>15. G \in [1..n -> Numbered(D, LineTypes, Nat)]
  <2>1. ASSUME NEW k \in 1..n PROVE G[k] \in Numbered(D, LineTypes, Nat)
    BY <1>2, <1>3, <1>10 DEF Numbered
  <2> HIDE DEF extra
  <2>2. QED
    BY <2>1
<1> DEFINE L == F \o G
           R == [i \in 1..m + n |-> BillLine(L[i].desc, L[i].type, L[i].amount)]
           Lines == [desc: D, type: LineTypes, amount: Nat]
<1>16. /\ L \in [1..m + n -> Numbered(D, LineTypes, Nat)]
       /\ \A i \in 1..m + n : L[i] = IF i <= m THEN F[i] ELSE G[i - m]
  <2>1. m \in Nat /\ n \in Nat
    BY <1>2, <1>3
  <2> DEFINE S == Numbered(D, LineTypes, Nat)
  <2>2. F \in [1..m -> S] /\ G \in [1..n -> S]
    BY <1>14, <1>15
  <2> HIDE DEF F, G, S
  <2>3. F \o G \in [1..m + n -> S]
    BY <2>1, <2>2, Concatenated
  <2>4. \A i \in 1..m + n : (F \o G)[i] = IF i <= m THEN F[i] ELSE G[i - m]
    BY <2>1, <2>2, Concatenated
  <2>5. QED
    BY <2>3, <2>4 DEF S
<1>17. A \in [1..m -> Lines] /\ B \in [1..n -> Lines]
  <2>1. A \in [1..m -> Lines]
    BY <1>9 DEF BillLine
  <2>2. B \in [1..n -> Lines]
    BY <1>10 DEF BillLine
  <2>3. QED
    BY <2>1, <2>2
<1>18. /\ A \o B \in [1..m + n -> Lines]
       /\ \A i \in 1..m + n : (A \o B)[i] = IF i <= m THEN A[i] ELSE B[i - m]
  <2>1. m \in Nat /\ n \in Nat
    BY <1>2, <1>3
  <2> HIDE DEF A, B, Lines
  <2>2. A \o B \in [1..m + n -> Lines]
    BY <1>17, <2>1, Concatenated
  <2>3. \A i \in 1..m + n : (A \o B)[i] = IF i <= m THEN A[i] ELSE B[i - m]
    BY <1>17, <2>1, Concatenated
  <2>4. QED
    BY <2>2, <2>3
<1>19. R = A \o B
  <2>1. ASSUME NEW i \in 1..m + n PROVE R[i] = (A \o B)[i]
    <3>1. CASE i <= m
      <4>1. i \in 1..m /\ L[i] = F[i] /\ (A \o B)[i] = A[i]
        BY <1>2, <1>3, <1>16, <1>18, <3>1
      <4>2. BillLine(F[i].desc, F[i].type, F[i].amount) = A[i]
        BY <4>1
      <4>3. QED
        BY <4>1, <4>2
    <3>2. CASE i > m
      <4>1. i - m \in 1..n /\ L[i] = G[i - m] /\ (A \o B)[i] = B[i - m]
        BY <1>2, <1>3, <1>16, <1>18, <3>2
      <4>2. BillLine(G[i - m].desc, G[i - m].type, G[i - m].amount) = B[i - m]
        BY <4>1
      <4>3. QED
        BY <4>1, <4>2
    <3>3. QED
      BY <1>2, <1>3, <3>1, <3>2
  <2> HIDE DEF L, A, B
  <2>2. QED
    BY <1>18, <2>1
<1>20. Loaded(Stored(L)) = {R}
  <2>1. m + n \in Nat
    BY <1>2, <1>3
  <2> HIDE DEF L
  <2>2. QED
    BY <1>16, <2>1, LoadedAsStored
<1>21. FollowsTheForm(form, extras) <=> Loaded(Stored(bill_edit(form, extras))) = {A \o B}
  <2>1. U = {i \in {j \in DOMAIN extras.rows : extras.rows[j].desc # Blank} :
                extras.rows[i].amount # Blank}
    BY DEF U
  <2>2. QED
    BY <1>2, <1>3, <2>1 DEF FollowsTheForm, T, t, u
<1>22. QED
  BY <1>13, <1>19, <1>20, <1>21

-----------------------------------------------------------------------------
(* A bill opened in an editor and sent back.                                *)

\* What is stored comes back as the list, if the lines are those of the list.
LEMMA SameLines ==
  ASSUME NEW n \in Nat, NEW list \in [1..n -> Lined(Countable)]
  PROVE  [k \in 1..n |-> BillLine(list[k].desc, list[k].type, list[k].amount)] = list
<1>1. ASSUME NEW k \in 1..n
      PROVE  BillLine(list[k].desc, list[k].type, list[k].amount) = list[k]
  <2>1. list[k] \in [desc: Descriptions, type: LineTypes, amount: Countable]
    BY DEF Lined
  <2>2. QED
    BY <2>1 DEF BillLine
<1>2. QED
  BY <1>1

LEMMA FormIsForm ==
  ASSUME NEW n \in Nat, NEW list \in [1..n -> Lined(Countable)], Len(list) = n
  PROVE  IsForm(FormOf(list), ShownFields) /\ IsForm(NoExtras, AmountFields)
<1> DEFINE form == FormOf(list)
           row(i) == [list[i + 1] EXCEPT !.amount = format_brl_input(list[i + 1].amount)]
<1>1. form.total = n /\ form.rows = [i \in 0..n - 1 |-> row(i)]
  BY DEF FormOf
<1>2. ASSUME NEW i \in 0..n - 1 PROVE row(i) \in FormRow(LineTypes, ShownFields)
  <2>1. list[i + 1] \in [desc: Descriptions, type: LineTypes, amount: Countable]
    BY DEF Lined
  <2>2. format_brl_input(list[i + 1].amount) \in ShownFields
    BY <2>1 DEF ShownFields
  <2>3. QED
    BY <2>1, <2>2 DEF FormRow
<1> HIDE DEF row, form
<1>3. IsForm(form, ShownFields)
  BY <1>1, <1>2 DEF IsForm
<1>4. IsForm(NoExtras, AmountFields)
  BY DEF IsForm, NoExtras
<1>5. QED
  BY <1>3, <1>4 DEF form

LEMMA UntouchedForm ==
  ASSUME NEW n \in Nat, NEW list \in [1..n -> Lined(Countable)], Len(list) = n
  PROVE  Loaded(Stored(bill_edit(FormOf(list), NoExtras))) = {list}
<1> DEFINE form == FormOf(list)
           row(i) == [list[i + 1] EXCEPT !.amount = format_brl_input(list[i + 1].amount)]
           T == {i \in DOMAIN form.rows : form.rows[i].desc # Blank}
           U == {i \in {j \in DOMAIN NoExtras.rows : NoExtras.rows[j].desc # Blank} :
                    NoExtras.rows[i].amount # Blank}
           here == InOrder(T)
           new == InOrder(U)
           A == [k \in DOMAIN here |-> BillLine(form.rows[here[k]].desc, form.rows[here[k]].type,
                                                OrZero(form.rows[here[k]].amount))]
           B == [k \in DOMAIN new |-> BillLine(NoExtras.rows[new[k]].desc, "extra",
                                               OrZero(NoExtras.rows[new[k]].amount))]
<1>1. Loaded(Stored(bill_edit(form, NoExtras))) = {A \o B}
  BY FormIsForm, EditFollows DEF FollowsTheForm
<1>2. U = {}
  BY DEF NoExtras
<1>3. DOMAIN form.rows = 0..n - 1 /\ \A i \in 0..n - 1 : form.rows[i] = row(i)
  BY DEF FormOf
<1>4. ASSUME NEW k \in 1..n
      PROVE  /\ row(k - 1).desc = list[k].desc /\ row(k - 1).type = list[k].type
             /\ OrZero(row(k - 1).amount) = list[k].amount
             /\ list[k].desc # Blank
  <2>1. list[k] \in [desc: Descriptions, type: LineTypes, amount: Countable]
    BY DEF Lined
  <2>2. OrZero(format_brl_input(list[k].amount)) = list[k].amount
    BY <2>1, FieldIsRead
  <2>3. QED
    BY <2>1, <2>2, BillLinesAssumption
<1> HIDE DEF row, form
<1>5. T = 0..n - 1
  <2>1. ASSUME NEW i \in 0..n - 1 PROVE form.rows[i].desc # Blank
    <3>1. i + 1 \in 1..n /\ (i + 1) - 1 = i
      OBVIOUS
    <3>2. row((i + 1) - 1).desc # Blank
      BY <1>4, <3>1
    <3>3. QED
      BY <1>3, <3>1, <3>2
  <2>2. QED
    BY <1>3, <2>1
<1> HIDE DEF U, T
<1>6. here = [k \in 1..n |-> k - 1]
  <2>1. InOrder(0..0 + n - 1) = [k \in 1..n |-> 0 + k - 1]
    BY InOrderInterval
  <2>2. 0..0 + n - 1 = 0..n - 1 /\ [k \in 1..n |-> 0 + k - 1] = [k \in 1..n |-> k - 1]
    OBVIOUS
  <2>3. QED
    BY <1>5, <2>1, <2>2
<1>7. DOMAIN new = 1..0
  <2>1. {} \in SUBSET Nat /\ IsFiniteSet({}) /\ Cardinality({}) = 0
    BY FS_EmptySet
  <2>2. DOMAIN InOrder({}) = 1..0
    BY <2>1, InOrderLists
  <2>3. QED
    BY <1>2, <2>2
<1> HIDE DEF here, new
<1>8. A = list
  <2>1. A = [k \in 1..n |-> BillLine(list[k].desc, list[k].type, list[k].amount)]
    BY <1>3, <1>4, <1>6
  <2> HIDE DEF A
  <2>2. QED
    BY <2>1, SameLines
<1>9. B \in [1..0 -> Lined(Countable)]
  BY <1>7
<1> HIDE DEF A, B
<1>10. A \o B = A
  <2>1. /\ A \o B \in [1..n + 0 -> Lined(Countable)]
        /\ \A i \in 1..n + 0 : (A \o B)[i] = IF i <= n THEN A[i] ELSE B[i - n]
    BY <1>8, <1>9, Concatenated
  <2>2. QED
    BY <1>8, <2>1
<1>11. QED
  BY <1>1, <1>8, <1>10 DEF form

\* The extras are the lines after the e-th.
LEMMA ExtrasAreLast ==
  ASSUME NEW n \in Nat, NEW list \in [1..n -> Lined(Countable)], ExtrasLast(list)
  PROVE  \E e \in 0..n : \A i \in 1..n : list[i].type = "extra" <=> e < i
<1> DEFINE D == {i \in 1..n + 1 : i = n + 1 \/ list[i].type = "extra"}
<1>1. D \subseteq Nat /\ n + 1 \in D
  OBVIOUS
<1>2. PICK d \in D : \A j \in D : d <= j
  <2> HIDE DEF D
  <2>1. QED
    BY <1>1, LeastNumber
<1>3. d - 1 \in 0..n
  BY <1>2
<1>4. ASSUME NEW i \in 1..n PROVE list[i].type = "extra" <=> d - 1 < i
  <2>1. ASSUME list[i].type = "extra" PROVE d <= i
    BY <1>2, <2>1
  <2>2. ASSUME d <= i PROVE list[i].type = "extra"
    <3>1. d \in 1..n /\ list[d].type = "extra"
      BY <1>2, <2>2
    <3>2. CASE d = i
      BY <3>1, <3>2
    <3>3. CASE d < i
      BY <3>1, <3>3 DEF ExtrasLast
    <3>4. QED
      BY <2>2, <3>1, <3>2, <3>3
  <2>3. QED
    BY <1>3, <2>1, <2>2
<1>5. QED
  BY <1>3, <1>4

LEMMA UntouchedMenu ==
  ASSUME NEW n \in Nat, NEW list \in [1..n -> Lined(Countable)], ExtrasLast(list),
         NEW answers \in Defaults(list)
  PROVE  Loaded(Stored(edit_bill_menu(list, answers, <<>>))) = {list}
<1> DEFINE extra(i) == list[i].type = "extra"
           amount(i) == IF extra(i) /\ answers[i].action = "Manter" THEN list[i].amount
                        ELSE Centavos(answers[i].text)
           P == {i \in DOMAIN list : ~ extra(i)}
           E == {i \in DOMAIN list : extra(i) /\ answers[i].action # "Remover"}
           places == InOrder(P) \o InOrder(E)
           line(i) == BillLine(list[i].desc, list[i].type, amount(i))
           ours == [k \in DOMAIN places |-> line(places[k])]
           lines == ours \o <<>>
           L == [k \in DOMAIN lines |->
                   [desc |-> lines[k].desc, type |-> lines[k].type, amount |-> lines[k].amount,
                    sort |-> k - 1]]
<1>1. edit_bill_menu(list, answers, <<>>) = L
  BY DEF edit_bill_menu
<1>2. ASSUME NEW i \in 1..n
      PROVE  /\ answers[i].action # "Remover"
             /\ answers[i].text = _format_amount_input(list[i].amount)
  <2>1. PICK chosen \in [DOMAIN list -> {"Manter", "Editar valor"}] :
           answers = [j \in DOMAIN list |-> [action |-> chosen[j],
                                             text |-> _format_amount_input(list[j].amount)]]
    BY DEF Defaults
  <2>2. answers[i] = [action |-> chosen[i], text |-> _format_amount_input(list[i].amount)]
    BY <2>1
  <2>3. chosen[i] # "Remover"
    BY <2>1
  <2> DEFINE text == _format_amount_input(list[i].amount)
             given == answers[i]
  <2>4. given = [action |-> chosen[i], text |-> text]
    BY <2>2
  <2> HIDE DEF text, given
  <2>5. given.action = chosen[i] /\ given.text = text
    BY <2>4
  <2>6. answers[i].action = chosen[i] /\ answers[i].text = _format_amount_input(list[i].amount)
    BY <2>5 DEF given, text
  <2>7. QED
    BY <2>3, <2>6
<1>3. ASSUME NEW i \in 1..n PROVE amount(i) = list[i].amount /\ list[i].amount \in Countable
  <2>1. list[i].amount \in Countable
    BY DEF Lined
  <2>2. Centavos(_format_amount_input(list[i].amount)) = list[i].amount
    BY <2>1, FieldIsRead
  <2>3. QED
    BY <1>2, <2>1, <2>2
<1>4. PICK e \in 0..n : \A i \in 1..n : list[i].type = "extra" <=> e < i
  BY ExtrasAreLast
<1>5. P = 1..e /\ E = (e + 1)..(e + 1) + (n - e) - 1
  BY <1>2, <1>4
<1> HIDE DEF P, E, amount
<1>6. InOrder(P) = [k \in 1..e |-> k]
  BY <1>5, InOrderFromOne
<1>7. InOrder(E) = [k \in 1..n - e |-> (e + 1) + k - 1]
  <2>1. e + 1 \in Nat /\ n - e \in Nat
    OBVIOUS
  <2>2. QED
    BY <1>5, <2>1, InOrderInterval
<1>8. places = [k \in 1..n |-> k]
  <2> DEFINE f == InOrder(P)
             g == InOrder(E)
             x == n - e
             S == Nat
  <2>1. f \in [1..e -> S] /\ g \in [1..x -> S]
    BY <1>6, <1>7
  <2>2. (\A k \in 1..e : f[k] = k) /\ (\A k \in 1..x : g[k] = (e + 1) + k - 1)
    BY <1>6, <1>7
  <2>3. e \in Nat /\ x \in Nat /\ e + x = n
    OBVIOUS
  <2> HIDE DEF f, g, x, S
  <2>4. /\ f \o g \in [1..n -> S]
        /\ \A i \in 1..n : (f \o g)[i] = IF i <= e THEN f[i] ELSE g[i - e]
    <3>1. f \o g \in [1..e + x -> S]
      BY <2>1, <2>3, Concatenated
    <3>2. \A i \in 1..e + x : (f \o g)[i] = IF i <= e THEN f[i] ELSE g[i - e]
      BY <2>1, <2>3, Concatenated
    <3>3. QED
      BY <2>3, <3>1, <3>2
  <2>5. ASSUME NEW i \in 1..n PROVE (f \o g)[i] = i
    <3>1. CASE i <= e
      <4>1. i \in 1..e /\ (f \o g)[i] = f[i]
        BY <2>3, <2>4, <3>1
      <4>2. QED
        BY <2>2, <4>1
    <3>2. CASE e < i
      <4>1. i - e \in 1..n - e /\ (f \o g)[i] = g[i - e]
        BY <2>3, <2>4, <3>2
      <4>2. g[i - e] = (e + 1) + (i - e) - 1
        BY <2>2, <4>1 DEF x
      <4>3. QED
        BY <4>1, <4>2
    <3>3. i <= e \/ e < i
      BY <2>3
    <3>4. QED
      BY <3>1, <3>2, <3>3, Zenon
  <2>6. f \o g = [k \in 1..n |-> k]
    BY <2>3, <2>4, <2>5
  <2>7. QED
    BY <2>6 DEF f, g
<1> HIDE DEF places
<1>9. ours = list
  <2>1. ours = [k \in 1..n |-> BillLine(list[k].desc, list[k].type, list[k].amount)]
    BY <1>3, <1>8
  <2> HIDE DEF ours
  <2>2. QED
    BY <2>1, SameLines
<1> HIDE DEF ours
<1>10. lines = list
  <2>1. list \in Seq(Lined(Countable))
    OBVIOUS
  <2>2. list \o <<>> = list
    BY <2>1
  <2>3. QED
    BY <1>9, <2>2
<1> HIDE DEF lines
<1>11. L \in [1..n -> Numbered(Descriptions, LineTypes, Countable)]
  BY <1>10 DEF Lined, Numbered
<1>12. \A k \in 1..n : /\ L[k].desc = list[k].desc /\ L[k].type = list[k].type
                        /\ L[k].amount = list[k].amount
  BY <1>10
<1> HIDE DEF L
<1>13. Loaded(Stored(L)) = {[k \in 1..n |-> BillLine(L[k].desc, L[k].type, L[k].amount)]}
  BY <1>11, LoadedAsStored
<1>14. [k \in 1..n |-> BillLine(L[k].desc, L[k].type, L[k].amount)] = list
  <2>1. [k \in 1..n |-> BillLine(L[k].desc, L[k].type, L[k].amount)]
          = [k \in 1..n |-> BillLine(list[k].desc, list[k].type, list[k].amount)]
    BY <1>12
  <2>2. QED
    BY <2>1, SameLines
<1>15. QED
  BY <1>1, <1>13, <1>14

-----------------------------------------------------------------------------
(* The theorems about bills and forms.                                      *)

\* Any bill, of any number of lines, that is opened in either editor and sent
\* back as it is comes back from the table as it was.
THEOREM UntouchedBillsStay ==
  \A list \in Seq(Lined(Countable)) : ExtrasLast(list) => Untouched(list)
<1>1. SUFFICES ASSUME NEW list \in Seq(Lined(Countable)), ExtrasLast(list)
               PROVE  Untouched(list)
  OBVIOUS
<1>2. Len(list) \in Nat /\ list \in [1..Len(list) -> Lined(Countable)]
  OBVIOUS
<1>3. Loaded(Stored(bill_edit(FormOf(list), NoExtras))) = {list}
  BY <1>2, UntouchedForm
<1>4. \A answers \in Defaults(list) :
         Loaded(Stored(edit_bill_menu(list, answers, <<>>))) = {list}
  BY <1>1, <1>2, UntouchedMenu
<1>5. QED
  BY <1>3, <1>4 DEF Untouched

\* So it is for the bills that are opened in every behaviour.
THEOREM UntouchedEditNeverChanges == Spec => []UntouchedEditChangesNothing
<1>1. InputIsGiven => UntouchedEditChangesNothing
  BY InputsAssumption, UntouchedBillsStay
     DEF InputIsGiven, UntouchedEditChangesNothing, Is
<1>2. QED
  BY <1>1, InputStaysGiven, PTL

\* Whatever rows were removed from a form of any length or left empty in it, the
\* lines stored are its described rows in their order and the new extras.
THEOREM EditedLinesAlwaysFollowTheForm == Spec => []EditedLinesFollowTheForm
<1>1. ASSUME NEW form, IsForm(form, AmountFields) PROVE IsForm(form, ShownFields)
  <2>1. FormRow(LineTypes, AmountFields) \subseteq FormRow(LineTypes, ShownFields)
    BY DEF FormRow, AmountFields, ShownFields
  <2>2. QED
    BY <1>1, <2>1 DEF IsForm
<1>2. InputIsGiven => EditedLinesFollowTheForm
  BY <1>1, InputsAssumption, EditFollows DEF InputIsGiven, EditedLinesFollowTheForm, Is
<1>3. QED
  BY <1>2, InputStaysGiven, PTL

-----------------------------------------------------------------------------
(* PIX payloads.                                                            *)

\* A text of digits and letters.
PixTexts == Seq(0..Letter)

\* The highest number of two digits, in a definition of its own to keep the
\* number out of the provers' way.
Highest == 99

LEMMA HighestType == Highest \in Nat
BY DEF Highest

LEMMA InTwoDigits ==
  ASSUME NEW n \in Nat
  PROVE  n \in 0..Highest <=> n <= Highest
BY DEF Highest

\* What a reader knows of a place where there is a field.
LEMMA HeaderIs ==
  ASSUME NEW s \in PixTexts, NEW i \in Nat \ {0}, HasField(s, i)
  PROVE  /\ s[i] \in 0..9 /\ s[i + 1] \in 0..9 /\ s[i + 2] \in 0..9 /\ s[i + 3] \in 0..9
         /\ Length(s, i) \in 0..Highest /\ Length(s, i) \in Nat
         /\ i + 3 + Length(s, i) <= Len(s)
<1>1. /\ i + 3 <= Len(s) /\ Len(s) \in Nat
      /\ \A j \in i..i + 3 : s[j] # Letter
      /\ i + 3 + Length(s, i) <= Len(s)
  BY DEF HasField, PixTexts
<1>2. \A j \in i..i + 3 : s[j] \in 0..Letter /\ s[j] # Letter
  <2>1. s \in [1..Len(s) -> 0..Letter]
    BY LenProperties DEF PixTexts
  <2>2. \A j \in i..i + 3 : j \in 1..Len(s)
    BY <1>1
  <2>3. QED
    BY <1>1, <2>1, <2>2
<1>3. i \in i..i + 3 /\ i + 1 \in i..i + 3 /\ i + 2 \in i..i + 3 /\ i + 3 \in i..i + 3
  OBVIOUS
<1>4. s[i] \in 0..9 /\ s[i + 1] \in 0..9 /\ s[i + 2] \in 0..9 /\ s[i + 3] \in 0..9
  BY <1>2, <1>3 DEF Letter
<1>5. Length(s, i) \in 0..Highest /\ Length(s, i) \in Nat
  <2>1. ASSUME NEW a \in 0..9, NEW b \in 0..9
        PROVE  10 * a + b \in 0..Highest /\ 10 * a + b \in Nat
    BY DEF Highest
  <2>2. QED
    BY <1>4, <2>1 DEF Length
<1>6. QED
  BY <1>1, <1>4, <1>5

\* Reading from place n on, as a function.
NextRead(s, read, i) ==
    IF i = Len(s) + 1 THEN <<>>
    ELSE IF ~ HasField(s, i) THEN <<NoField>>
    ELSE <<FieldAt(s, i)>> \o read[i + 4 + Length(s, i)]

\* Reading from every place on is a function, found by taking the last place first.
LEMMA ReadingExists ==
  ASSUME NEW s \in PixTexts
  PROVE  \A m \in Nat : m <= Len(s) =>
           \E g : g = [i \in Len(s) + 1 - m..Len(s) + 1 |-> NextRead(s, g, i)]
<1> DEFINE D == {m \in 0..Len(s) :
                  ~ \E g : g = [i \in Len(s) + 1 - m..Len(s) + 1 |-> NextRead(s, g, i)]}
<1>1. Len(s) \in Nat
  BY DEF PixTexts
<1>2. SUFFICES ASSUME D # {} PROVE FALSE
  BY <1>1
<1>3. PICK m \in D : \A j \in D : m <= j
  <2> HIDE DEF D
  <2>1. D \subseteq Nat
    BY DEF D
  <2>2. QED
    BY <1>2, <2>1, LeastNumber
<1>4. CASE m = 0
  <2> DEFINE g == [i \in Len(s) + 1..Len(s) + 1 |-> <<>>]
  <2>1. \A i \in Len(s) + 1..Len(s) + 1 : i = Len(s) + 1
    BY <1>1
  <2>2. g = [i \in Len(s) + 1 - m..Len(s) + 1 |-> NextRead(s, g, i)]
    BY <1>1, <1>4, <2>1 DEF NextRead
  <2>3. QED
    BY <2>2
<1>5. CASE m # 0
  <2> DEFINE n == Len(s) + 1 - m
  <2>1. PICK g : g = [i \in n + 1..Len(s) + 1 |-> NextRead(s, g, i)]
    <3>1. m - 1 \in 0..Len(s) /\ m - 1 \notin D
      <4>1. m \in 0..Len(s)
        OBVIOUS
      <4> HIDE DEF D
      <4>2. m - 1 \in 0..Len(s) /\ ~ m <= m - 1
        BY <1>1, <1>5, <4>1
      <4>3. QED
        BY <1>3, <4>2
    <3>2. Len(s) + 1 - (m - 1) = n + 1
      BY <1>1
    <3>3. \E g : g = [i \in Len(s) + 1 - (m - 1)..Len(s) + 1 |-> NextRead(s, g, i)]
      BY <3>1
    <3>4. QED
      BY <3>2, <3>3
  <2> DEFINE h == [i \in n..Len(s) + 1 |-> IF i = n THEN NextRead(s, g, n) ELSE g[i]]
  <2>2. n \in 1..Len(s)
    BY <1>1, <1>5
  <2>3. ASSUME NEW k \in n + 1..Len(s) + 1 PROVE h[k] = g[k]
    <3>1. k \in n..Len(s) + 1 /\ k # n
      BY <1>1, <2>2
    <3>2. QED
      BY <3>1
  <2>4. ASSUME NEW i \in n..Len(s) + 1 PROVE NextRead(s, h, i) = NextRead(s, g, i)
    <3>1. CASE i = Len(s) + 1 \/ ~ HasField(s, i)
      BY <3>1 DEF NextRead
    <3>2. CASE i # Len(s) + 1 /\ HasField(s, i)
      <4>1. i \in Nat \ {0} /\ Length(s, i) \in 0..Highest /\ i + 3 + Length(s, i) <= Len(s)
        <5>1. i \in Nat \ {0}
          BY <1>1, <2>2
        <5>2. QED
          BY <3>2, <5>1, HeaderIs
      <4>2. i + 4 + Length(s, i) \in n + 1..Len(s) + 1
        <5>1. ASSUME NEW l \in 0..Highest, i + 3 + l <= Len(s)
              PROVE  i + 4 + l \in n + 1..Len(s) + 1
          BY <1>1, <2>2, <5>1
        <5>2. QED
          BY <4>1, <5>1
      <4>3. h[i + 4 + Length(s, i)] = g[i + 4 + Length(s, i)]
        BY <2>3, <4>2
      <4>4. ASSUME NEW f
            PROVE  NextRead(s, f, i) = <<FieldAt(s, i)>> \o f[i + 4 + Length(s, i)]
        BY <3>2 DEF NextRead
      <4>5. QED
        BY <4>3, <4>4
    <3>3. QED
      BY <3>1, <3>2
  <2>5. ASSUME NEW i \in n..Len(s) + 1 PROVE h[i] = NextRead(s, h, i)
    <3>1. CASE i = n
      BY <2>4, <3>1
    <3>2. CASE i # n
      <4>1. i \in n + 1..Len(s) + 1
        BY <1>1, <2>2, <3>2
      <4>2. g[i] = NextRead(s, g, i)
        BY <2>1, <4>1
      <4>3. QED
        BY <2>4, <3>2, <4>2
    <3>3. QED
      BY <3>1, <3>2
  <2>6. h = [i \in n..Len(s) + 1 |-> NextRead(s, h, i)]
    BY <2>5
  <2> HIDE DEF h
  <2>7. QED
    BY <2>6
<1>6. QED
  BY <1>4, <1>5

LEMMA ReadingIs ==
  ASSUME NEW s \in PixTexts
  PROVE  Reading(s) = [i \in 1..Len(s) + 1 |-> NextRead(s, Reading(s), i)]
<1>1. Len(s) \in Nat /\ Len(s) + 1 - Len(s) = 1
  BY DEF PixTexts
<1>2. \E g : g = [i \in 1..Len(s) + 1 |-> NextRead(s, g, i)]
  BY <1>1, ReadingExists
<1>3. QED
  BY <1>2 DEF Reading, NextRead

\* One text behind another.
LEMMA JoinedAt ==
  ASSUME NEW s \in PixTexts, NEW q \in PixTexts
  PROVE  /\ s \o q \in PixTexts
         /\ Len(s) \in Nat /\ Len(q) \in Nat
         /\ Len(s \o q) = Len(s) + Len(q)
         /\ \A j \in 1..Len(q) : (s \o q)[Len(s) + j] = q[j]
         /\ \A j \in 1..Len(s) : (s \o q)[j] = s[j]
<1>1. s \in Seq(0..Letter) /\ q \in Seq(0..Letter)
  BY DEF PixTexts
<1>2. s \o q \in PixTexts
  BY <1>1 DEF PixTexts
<1>3. Len(s) \in Nat /\ Len(q) \in Nat /\ Len(s \o q) = Len(s) + Len(q)
  BY <1>1
<1>4. \A j \in 1..Len(q) : (s \o q)[Len(s) + j] = q[j]
  BY <1>1
<1>5. \A j \in 1..Len(s) : (s \o q)[j] = s[j]
  BY <1>1
<1>6. QED
  BY <1>2, <1>3, <1>4, <1>5

LEMMA JoinedLength ==
  ASSUME NEW s \in PixTexts, NEW q \in PixTexts
  PROVE  s \o q \in PixTexts /\ Len(s \o q) = Len(s) + Len(q)
BY JoinedAt

\* A part of a text.
LEMMA PartOf ==
  ASSUME NEW t \in PixTexts, NEW k \in Nat \ {0}, NEW l \in Nat, k + 3 + l <= Len(t)
  PROVE  /\ SubSeq(t, k + 4, k + 3 + l) \in PixTexts
         /\ Len(SubSeq(t, k + 4, k + 3 + l)) = l
         /\ \A j \in 1..l : SubSeq(t, k + 4, k + 3 + l)[j] = t[k + 4 + j - 1]
<1> DEFINE a == k + 4
           b == k + 3 + l
<1>1. Len(t) \in Nat /\ t \in [1..Len(t) -> 0..Letter]
  BY LenProperties DEF PixTexts
<1>2. \A j \in a..b : j \in 1..Len(t)
  BY <1>1
<1>3. a \in Int /\ b \in Int /\ b - a + 1 = l /\ (a <= b <=> l # 0)
  OBVIOUS
<1> HIDE DEF a, b
<1>4. \A j \in a..b : t[j] \in 0..Letter
  BY <1>1, <1>2
<1>5. /\ SubSeq(t, a, b) \in Seq(0..Letter)
      /\ Len(SubSeq(t, a, b)) = IF a <= b THEN b - a + 1 ELSE 0
      /\ \A j \in 1..b - a + 1 : SubSeq(t, a, b)[j] = t[a + j - 1]
  BY <1>3, <1>4, SubSeqProperties
<1>6. Len(SubSeq(t, a, b)) = l /\ \A j \in 1..l : SubSeq(t, a, b)[j] = t[a + j - 1]
  BY <1>3, <1>5
<1>7. QED
  BY <1>5, <1>6 DEF a, b, PixTexts

\* A field is read from its place on, whatever is before it.
LEMMA FieldIsMoved ==
  ASSUME NEW s \in PixTexts, NEW q \in PixTexts, NEW i \in 1..Len(q)
  PROVE  /\ HasField(s \o q, Len(s) + i) <=> HasField(q, i)
         /\ HasField(q, i) => /\ Length(s \o q, Len(s) + i) = Length(q, i)
                              /\ FieldAt(s \o q, Len(s) + i) = FieldAt(q, i)
<1> DEFINE t == s \o q
           k == Len(s) + i
<1>1. /\ t \in PixTexts /\ Len(s) \in Nat /\ Len(q) \in Nat /\ Len(t) = Len(s) + Len(q)
      /\ \A j \in 1..Len(q) : t[Len(s) + j] = q[j]
  BY JoinedAt
<1>2. k \in Nat \ {0} /\ i \in Nat \ {0} /\ k = Len(s) + i
  BY <1>1
<1> HIDE DEF t, k
<1>3. ASSUME i + 3 <= Len(q)
      PROVE  t[k] = q[i] /\ t[k + 1] = q[i + 1] /\ t[k + 2] = q[i + 2] /\ t[k + 3] = q[i + 3]
  <2>1. ASSUME NEW j \in 0..3 PROVE t[k + j] = q[i + j]
    <3>1. i + j \in 1..Len(q) /\ k + j = Len(s) + (i + j)
      BY <1>1, <1>2, <1>3
    <3>2. QED
      BY <1>1, <3>1
  <2>2. t[k + 0] = q[i + 0] /\ k + 0 = k /\ i + 0 = i
    BY <1>2, <2>1
  <2>3. QED
    BY <2>1, <2>2
<1>4. i + 3 <= Len(q) <=> k + 3 <= Len(t)
  BY <1>1, <1>2
<1>5. ASSUME i + 3 <= Len(q)
      PROVE  Letter \notin {t[j] : j \in k..k + 3} <=> Letter \notin {q[j] : j \in i..i + 3}
  <2>1. k..k + 3 = {k, k + 1, k + 2, k + 3} /\ i..i + 3 = {i, i + 1, i + 2, i + 3}
    BY <1>2
  <2>2. {t[j] : j \in k..k + 3} = {t[k], t[k + 1], t[k + 2], t[k + 3]}
    BY <2>1
  <2>3. {q[j] : j \in i..i + 3} = {q[i], q[i + 1], q[i + 2], q[i + 3]}
    BY <2>1
  <2>4. QED
    BY <1>3, <1>5, <2>2, <2>3
<1>6. ASSUME i + 3 <= Len(q) PROVE Length(t, k) = Length(q, i)
  BY <1>3, <1>6 DEF Length
<1>7. ASSUME NEW l \in Nat
      PROVE  i + 3 + l <= Len(q) <=> k + 3 + l <= Len(t)
  BY <1>1, <1>2
<1>8. HasField(t, k) <=> HasField(q, i)
  <2>1. CASE ~ i + 3 <= Len(q)
    BY <1>4, <2>1 DEF HasField
  <2>2. CASE i + 3 <= Len(q)
    <3>1. ASSUME HasField(q, i) PROVE HasField(t, k)
      <4>1. Length(q, i) \in 0..Highest /\ i + 3 + Length(q, i) <= Len(q)
        BY <1>2, <3>1, HeaderIs
      <4>2. k + 3 + Length(q, i) <= Len(t)
        <5>1. Length(q, i) \in Nat
          BY <1>2, <3>1, HeaderIs
        <5>2. QED
          BY <1>7, <4>1, <5>1
      <4>3. QED
        BY <1>4, <1>5, <1>6, <2>2, <3>1, <4>2 DEF HasField
    <3>2. ASSUME HasField(t, k) PROVE HasField(q, i)
      <4>1. Length(t, k) \in 0..Highest /\ k + 3 + Length(t, k) <= Len(t)
        BY <1>1, <1>2, <3>2, HeaderIs
      <4>2. i + 3 + Length(t, k) <= Len(q)
        <5>1. Length(t, k) \in Nat
          BY <1>1, <1>2, <3>2, HeaderIs
        <5>2. QED
          BY <1>7, <4>1, <5>1
      <4>3. QED
        BY <1>4, <1>5, <1>6, <2>2, <3>2, <4>2 DEF HasField
    <3>3. QED
      BY <3>1, <3>2
  <2>3. QED
    BY <2>1, <2>2
<1>9. ASSUME HasField(q, i) PROVE FieldAt(t, k) = FieldAt(q, i)
  <2>1. Length(q, i) \in 0..Highest /\ i + 3 + Length(q, i) <= Len(q) /\ i + 3 <= Len(q)
    <3>1. i + 3 <= Len(q)
      BY <1>9 DEF HasField
    <3>2. QED
      BY <1>2, <1>9, <3>1, HeaderIs
  <2>2. Length(t, k) = Length(q, i)
    BY <1>6, <2>1
  <2>3. ASSUME NEW l \in Nat, i + 3 + l <= Len(q)
        PROVE  SubSeq(t, k + 4, k + 3 + l) = SubSeq(q, i + 4, i + 3 + l)
    <3>1. ASSUME NEW j \in 1..l PROVE t[k + 4 + j - 1] = q[i + 4 + j - 1]
      <4>1. i + 4 + j - 1 \in 1..Len(q) /\ k + 4 + j - 1 = Len(s) + (i + 4 + j - 1)
        BY <1>1, <1>2, <2>3
      <4>2. QED
        BY <1>1, <4>1
    <3>2. k + 3 + l <= Len(t)
      BY <1>7, <2>3
    <3> DEFINE u == SubSeq(t, k + 4, k + 3 + l)
               v == SubSeq(q, i + 4, i + 3 + l)
    <3>3. u \in PixTexts /\ Len(u) = l /\ \A j \in 1..l : u[j] = t[k + 4 + j - 1]
      <4>1. t \in PixTexts /\ k \in Nat \ {0}
        BY <1>1, <1>2
      <4>2. QED
        BY <3>2, <4>1, PartOf
    <3>4. v \in PixTexts /\ Len(v) = l /\ \A j \in 1..l : v[j] = q[i + 4 + j - 1]
      BY <1>2, <2>3, PartOf
    <3> HIDE DEF u, v
    <3>5. \A j \in 1..Len(u) : u[j] = v[j]
      BY <3>1, <3>3, <3>4
    <3>6. u = v
      BY <3>3, <3>4, <3>5, SeqEqual DEF PixTexts
    <3>7. QED
      BY <3>6 DEF u, v
  <2>4. SubSeq(t, k + 4, k + 3 + Length(q, i)) = SubSeq(q, i + 4, i + 3 + Length(q, i))
    <3>1. Length(q, i) \in Nat
      BY <1>2, <1>9, HeaderIs
    <3>2. QED
      BY <2>1, <2>3, <3>1
  <2>5. t[k] = q[i] /\ t[k + 1] = q[i + 1]
    BY <1>3, <2>1
  <2>6. QED
    BY <2>2, <2>4, <2>5 DEF FieldAt
<1>10. QED
  <2>1. i + 3 <= Len(q) \/ ~ HasField(q, i)
    BY DEF HasField
  <2>2. QED
    BY <1>6, <1>8, <1>9, <2>1 DEF t, k

\* What is read from a place on does not depend on what is before it.
LEMMA ReadingIsMoved ==
  ASSUME NEW s \in PixTexts, NEW q \in PixTexts, NEW i \in 1..Len(q) + 1
  PROVE  Reading(s \o q)[Len(s) + i] = Reading(q)[i]
<1> DEFINE t == s \o q
           D == {m \in Nat : \E j \in 1..Len(q) + 1 :
                    /\ m = Len(q) + 1 - j
                    /\ Reading(t)[Len(s) + j] # Reading(q)[j]}
<1>1. t \in PixTexts /\ Len(s) \in Nat /\ Len(q) \in Nat /\ Len(t) = Len(s) + Len(q)
  BY JoinedAt
<1>2. /\ Reading(t) = [j \in 1..Len(t) + 1 |-> NextRead(t, Reading(t), j)]
      /\ Reading(q) = [j \in 1..Len(q) + 1 |-> NextRead(q, Reading(q), j)]
  BY <1>1, ReadingIs
<1>3. SUFFICES ASSUME D # {} PROVE FALSE
  <2>1. D = {} => Reading(t)[Len(s) + i] = Reading(q)[i]
    <3>1. Len(q) + 1 - i \in Nat
      BY <1>1
    <3>2. QED
      BY <3>1
  <2> HIDE DEF D
  <2>2. QED
    BY <2>1
<1>4. PICK m \in D : \A n \in D : m <= n
  <2>1. D \subseteq Nat
    OBVIOUS
  <2> HIDE DEF D
  <2>2. QED
    BY <1>3, <2>1, LeastNumber
<1>5. PICK j \in 1..Len(q) + 1 : m = Len(q) + 1 - j /\ Reading(t)[Len(s) + j] # Reading(q)[j]
  OBVIOUS
<1>6. ASSUME NEW n \in j + 1..Len(q) + 1
      PROVE  Reading(t)[Len(s) + n] = Reading(q)[n]
  <2>1. /\ Len(q) + 1 - n \in Nat /\ n \in 1..Len(q) + 1
        /\ ~ m <= Len(q) + 1 - n
    BY <1>1, <1>5
  <2>2. Len(q) + 1 - n \notin D
    <3> HIDE DEF D
    <3>1. QED
      BY <1>4, <2>1
  <2>3. QED
    BY <2>1, <2>2
<1> HIDE DEF t, D
<1> DEFINE k == Len(s) + j
<1>7. k \in 1..Len(t) + 1 /\ (k = Len(t) + 1 <=> j = Len(q) + 1)
  BY <1>1
<1>8. Reading(t)[k] = NextRead(t, Reading(t), k) /\ Reading(q)[j] = NextRead(q, Reading(q), j)
  BY <1>2, <1>7
<1>9. CASE j = Len(q) + 1
  BY <1>5, <1>7, <1>8, <1>9 DEF NextRead
<1>10. CASE j # Len(q) + 1
  <2>1. j \in 1..Len(q)
    BY <1>1, <1>10
  <2>2. /\ HasField(t, k) <=> HasField(q, j)
        /\ HasField(q, j) => Length(t, k) = Length(q, j) /\ FieldAt(t, k) = FieldAt(q, j)
    BY <2>1, FieldIsMoved DEF t
  <2>3. CASE ~ HasField(q, j)
    BY <1>5, <1>7, <1>8, <1>10, <2>2, <2>3 DEF NextRead
  <2>4. CASE HasField(q, j)
    <3>1. Length(q, j) \in Nat /\ j + 3 + Length(q, j) <= Len(q)
      BY <2>1, <2>4, HeaderIs
    <3>2. ASSUME NEW l \in Nat, j + 3 + l <= Len(q)
          PROVE  Reading(t)[k + 4 + l] = Reading(q)[j + 4 + l]
      <4>1. j + 4 + l \in j + 1..Len(q) + 1 /\ k + 4 + l = Len(s) + (j + 4 + l)
        BY <1>1, <3>2
      <4>2. QED
        BY <1>6, <4>1
    <3>3. Reading(t)[k + 4 + Length(q, j)] = Reading(q)[j + 4 + Length(q, j)]
      BY <3>1, <3>2
    <3>4. /\ NextRead(t, Reading(t), k) = <<FieldAt(t, k)>> \o Reading(t)[k + 4 + Length(t, k)]
          /\ NextRead(q, Reading(q), j) = <<FieldAt(q, j)>> \o Reading(q)[j + 4 + Length(q, j)]
      BY <1>7, <1>10, <2>2, <2>4 DEF NextRead
    <3>5. QED
      BY <1>5, <1>8, <2>2, <2>4, <3>3, <3>4
  <2>5. QED
    BY <2>3, <2>4
<1>11. QED
  BY <1>9, <1>10

\* What can be read: no value has more than 99 characters.
Readings == {f \in [tag : Nat, value : PixTexts] : Len(f.value) <= Highest}

\* What is read has a text of at most 99 characters.
LEMMA FieldAtType ==
  ASSUME NEW s \in PixTexts, NEW i \in Nat \ {0}, HasField(s, i)
  PROVE  FieldAt(s, i) \in Readings
<1>1. /\ s[i] \in 0..9 /\ s[i + 1] \in 0..9
      /\ Length(s, i) \in 0..Highest /\ Length(s, i) \in Nat /\ i + 3 + Length(s, i) <= Len(s)
  BY HeaderIs
<1> DEFINE v == SubSeq(s, i + 4, i + 3 + Length(s, i))
           n == 10 * s[i] + s[i + 1]
<1>2. v \in PixTexts /\ Len(v) = Length(s, i)
  BY <1>1, PartOf
<1>3. n \in Nat
  <2>1. ASSUME NEW a \in 0..9, NEW b \in 0..9 PROVE 10 * a + b \in Nat
    OBVIOUS
  <2>2. QED
    BY <1>1, <2>1
<1>4. Len(v) <= Highest
  <2>1. Length(s, i) <= Highest
    BY <1>1, InTwoDigits
  <2>2. QED
    BY <1>2, <2>1
<1>5. FieldAt(s, i) = [tag |-> n, value |-> v]
  BY DEF FieldAt
<1> HIDE DEF v, n
<1>6. QED
  BY <1>2, <1>3, <1>4, <1>5 DEF Readings

LEMMA ReadingType ==
  ASSUME NEW s \in PixTexts, NEW i \in 1..Len(s) + 1
  PROVE  Reading(s)[i] \in Seq(Readings)
<1> DEFINE D == {m \in Nat : \E j \in 1..Len(s) + 1 :
                    m = Len(s) + 1 - j /\ Reading(s)[j] \notin Seq(Readings)}
<1>1. Len(s) \in Nat
  BY DEF PixTexts
<1>2. Reading(s) = [j \in 1..Len(s) + 1 |-> NextRead(s, Reading(s), j)]
  BY ReadingIs
<1>3. SUFFICES ASSUME D # {} PROVE FALSE
  <2>1. D = {} => Reading(s)[i] \in Seq(Readings)
    <3>1. Len(s) + 1 - i \in Nat
      BY <1>1
    <3>2. QED
      BY <3>1
  <2> HIDE DEF D
  <2>2. QED
    BY <2>1
<1>4. PICK m \in D : \A n \in D : m <= n
  <2>1. D \subseteq Nat
    OBVIOUS
  <2> HIDE DEF D
  <2>2. QED
    BY <1>3, <2>1, LeastNumber
<1>5. PICK j \in 1..Len(s) + 1 : m = Len(s) + 1 - j /\ Reading(s)[j] \notin Seq(Readings)
  OBVIOUS
<1>6. ASSUME NEW n \in j + 1..Len(s) + 1
      PROVE  Reading(s)[n] \in Seq(Readings)
  <2>1. /\ Len(s) + 1 - n \in Nat /\ n \in 1..Len(s) + 1
        /\ ~ m <= Len(s) + 1 - n
    BY <1>1, <1>5
  <2>2. Len(s) + 1 - n \notin D
    <3> HIDE DEF D
    <3>1. QED
      BY <1>4, <2>1
  <2>3. QED
    BY <2>1, <2>2
<1> HIDE DEF D
<1>7. Reading(s)[j] = NextRead(s, Reading(s), j)
  BY <1>2
<1>8. CASE j = Len(s) + 1
  <2>1. NextRead(s, Reading(s), j) = <<>>
    BY <1>8 DEF NextRead
  <2>2. QED
    BY <1>5, <1>7, <2>1
<1>9. CASE j # Len(s) + 1 /\ ~ HasField(s, j)
  <2>1. NextRead(s, Reading(s), j) = <<NoField>>
    BY <1>9 DEF NextRead
  <2>2. <<>> \in PixTexts /\ Len(<<>>) = 0
    BY DEF PixTexts
  <2>3. NoField \in Readings
    BY <2>2, HighestType DEF NoField, Readings
  <2>4. QED
    BY <1>5, <1>7, <2>1, <2>3
<1>10. CASE j # Len(s) + 1 /\ HasField(s, j)
  <2>1. j \in Nat \ {0}
    BY <1>1
  <2>2. Length(s, j) \in Nat /\ j + 3 + Length(s, j) <= Len(s)
    BY <1>10, <2>1, HeaderIs
  <2>3. ASSUME NEW l \in Nat, j + 3 + l <= Len(s)
        PROVE  j + 4 + l \in j + 1..Len(s) + 1
    BY <1>1, <2>1, <2>3
  <2>4. Reading(s)[j + 4 + Length(s, j)] \in Seq(Readings)
    BY <1>6, <2>2, <2>3
  <2>5. FieldAt(s, j) \in Readings
    BY <1>10, <2>1, FieldAtType
  <2>6. NextRead(s, Reading(s), j) = <<FieldAt(s, j)>> \o Reading(s)[j + 4 + Length(s, j)]
    BY <1>10 DEF NextRead
  <2>7. QED
    BY <1>5, <1>7, <2>4, <2>5, <2>6, ConcatProperties
<1>11. QED
  BY <1>8, <1>9, <1>10

LEMMA FieldsType ==
  ASSUME NEW s \in PixTexts
  PROVE  Fields(s) \in Seq(Readings)
<1>1. 1 \in 1..Len(s) + 1
  BY DEF PixTexts
<1>2. QED
  BY <1>1, ReadingType DEF Fields

-----------------------------------------------------------------------------
(* The fields that _tlv writes.                                             *)

LEMMA TextType ==
  ASSUME NEW n \in Nat
  PROVE  Text(n) \in PixTexts /\ Len(Text(n)) = n
BY DEF Text, PixTexts, Letter

\* Two digits for a number below 100, three for one below 1000.
LEMMA TwoDigitsType ==
  ASSUME NEW n \in Nat
  PROVE  /\ TwoDigits(n) \in Seq(0..9)
         /\ n < 100 => TwoDigits(n) = <<n \div 10, n % 10>>
         /\ n >= 100 /\ n < 1000 => TwoDigits(n) = <<n \div 100, (n \div 10) % 10, n % 10>>
<1> DEFINE ten == <<1, 10, 100, 1000, 10000>>
           width == IF n < 100 THEN 2 ELSE IF n < 1000 THEN 3 ELSE IF n < 10000 THEN 4 ELSE 5
           digit(j) == (n \div ten[width + 1 - j]) % 10
<1>1. TwoDigits(n) = [j \in 1..width |-> digit(j)]
  BY DEF TwoDigits
<1>2. width \in 2..5
  OBVIOUS
<1>3. ASSUME NEW j \in 1..width PROVE digit(j) \in 0..9
  <2>1. width + 1 - j \in 1..5
    BY <1>2
  <2>2. ten[width + 1 - j] \in Nat \ {0}
    BY <2>1
  <2> HIDE DEF ten, width
  <2>3. n \div ten[width + 1 - j] \in Int
    BY <2>2
  <2>4. QED
    BY <2>3
<1>4. TwoDigits(n) \in Seq(0..9)
  <2> HIDE DEF digit, width
  <2>1. QED
    BY <1>1, <1>2, <1>3
<1>5. ASSUME n < 100 PROVE TwoDigits(n) = <<n \div 10, n % 10>>
  <2>1. width = 2
    BY <1>5
  <2>2. digit(1) = n \div 10 /\ digit(2) = n % 10
    BY <1>5
  <2> HIDE DEF digit, width
  <2>3. QED
    BY <1>1, <2>1, <2>2
<1>6. ASSUME n >= 100 /\ n < 1000
      PROVE  TwoDigits(n) = <<n \div 100, (n \div 10) % 10, n % 10>>
  <2>1. width = 3
    BY <1>6
  <2>2. digit(1) = n \div 100 /\ digit(2) = (n \div 10) % 10 /\ digit(3) = n % 10
    BY <1>6
  <2> HIDE DEF digit, width
  <2>3. QED
    BY <1>1, <2>1, <2>2
<1>7. QED
  BY <1>4, <1>5, <1>6

\* The two digits of a number below 100.
LEMMA DigitsOf ==
  ASSUME NEW n \in 0..Highest
  PROVE  n \div 10 \in 0..9 /\ n % 10 \in 0..9 /\ 10 * (n \div 10) + (n % 10) = n
BY DEF Highest

\* A field as it is written.
LEMMA TlvType ==
  ASSUME NEW t \in 0..Highest, NEW v \in PixTexts
  PROVE  _tlv(t, v) \in PixTexts
<1>1. <<t \div 10, t % 10>> \in PixTexts
  BY DigitsOf DEF PixTexts, Letter
<1>2. TwoDigits(Len(v)) \in PixTexts
  <2>1. Len(v) \in Nat
    BY DEF PixTexts
  <2>2. TwoDigits(Len(v)) \in Seq(0..9) /\ 0..9 \subseteq 0..Letter
    BY <2>1, TwoDigitsType DEF Letter
  <2>3. QED
    BY <2>2, SeqMonotonic DEF PixTexts
<1>3. QED
  BY <1>1, <1>2, JoinedAt DEF _tlv

\* s begins with the header of a field of tag t with l characters.
Headed(s, t, l) ==
    /\ s \in PixTexts
    /\ HasField(s, 1) /\ Length(s, 1) = l /\ FieldAt(s, 1).tag = t
    /\ Fields(s) = <<FieldAt(s, 1)>> \o Reading(s)[5 + l]

\* A field of at most 99 characters is read as it was written.
LEMMA HeaderIsRead ==
  ASSUME NEW a \in 0..9, NEW b \in 0..9, NEW c \in 0..9, NEW d \in 0..9,
         NEW v \in PixTexts, 10 * c + d <= Len(v)
  PROVE  Headed(<<a, b, c, d>> \o v, 10 * a + b, 10 * c + d)
<1> DEFINE h == <<a, b, c, d>>
           s == h \o v
<1>1. h \in PixTexts /\ Len(h) = 4 /\ h[1] = a /\ h[2] = b /\ h[3] = c /\ h[4] = d
  BY DEF PixTexts, Letter
<1>2. s = h \o v
  OBVIOUS
<1> HIDE DEF h, s
<1>3. /\ s \in PixTexts /\ Len(v) \in Nat /\ Len(s) = 4 + Len(v)
      /\ \A j \in 1..4 : s[j] = h[j]
  <2>1. /\ h \o v \in PixTexts /\ Len(v) \in Nat /\ Len(h \o v) = Len(h) + Len(v)
        /\ \A j \in 1..Len(h) : (h \o v)[j] = h[j]
    BY <1>1, JoinedAt
  <2>2. QED
    BY <1>1, <1>2, <2>1
<1>4. s[1] = a /\ s[1 + 1] = b /\ s[1 + 2] = c /\ s[1 + 3] = d
  BY <1>1, <1>3
<1>5. Length(s, 1) = 10 * c + d
  BY <1>4 DEF Length
<1>6. HasField(s, 1)
  <2>1. 1 + 3 <= Len(s) /\ 1 + 3 + (10 * c + d) <= Len(s)
    BY <1>3
  <2>2. ASSUME NEW j \in 1..1 + 3 PROVE s[j] # Letter
    <3>1. s[j] = h[j] /\ h[j] \in {a, b, c, d}
      BY <1>1, <1>3
    <3>2. QED
      BY <3>1 DEF Letter
  <2>3. QED
    BY <1>5, <2>1, <2>2 DEF HasField
<1>7. FieldAt(s, 1).tag = 10 * a + b
  BY <1>4 DEF FieldAt
<1>8. Fields(s) = <<FieldAt(s, 1)>> \o Reading(s)[5 + (10 * c + d)]
  <2>1. 1 \in 1..Len(s) + 1 /\ 1 # Len(s) + 1
    BY <1>3
  <2>2. Reading(s)[1] = NextRead(s, Reading(s), 1)
    BY <1>3, <2>1, ReadingIs
  <2>3. NextRead(s, Reading(s), 1) = <<FieldAt(s, 1)>> \o Reading(s)[1 + 4 + Length(s, 1)]
    BY <1>6, <2>1 DEF NextRead
  <2>4. 1 + 4 + Length(s, 1) = 5 + (10 * c + d)
    BY <1>5
  <2>5. QED
    BY <2>2, <2>3, <2>4 DEF Fields
<1>9. QED
  BY <1>3, <1>5, <1>6, <1>7, <1>8 DEF h, s, Headed

\* A field of _tlv whose value has at most 99 characters is read as it is, and
\* what is behind it after it.
LEMMA TlvIsRead ==
  ASSUME NEW t \in 0..Highest, NEW v \in PixTexts, Len(v) <= Highest, NEW q \in PixTexts
  PROVE  Fields(_tlv(t, v) \o q) = <<[tag |-> t, value |-> v]>> \o Fields(q)
<1> DEFINE s == _tlv(t, v) \o q
           l == Len(v)
<1>1. l \in 0..Highest
  <2>1. Len(v) \in Nat
    BY DEF PixTexts
  <2>2. QED
    BY <2>1
<1>2. v \o q \in PixTexts /\ Len(q) \in Nat /\ Len(v \o q) = l + Len(q)
      /\ \A j \in 1..l : (v \o q)[j] = v[j]
  BY JoinedAt
<1> HIDE DEF l
<1>3. PICK a \in 0..9, b \in 0..9, c \in 0..9, d \in 0..9 :
         /\ a = t \div 10 /\ b = t % 10 /\ 10 * a + b = t
         /\ c = l \div 10 /\ d = l % 10 /\ 10 * c + d = l
  BY <1>1, DigitsOf
<1> DEFINE h == <<a, b, c, d>>
<1>4. h \in PixTexts /\ Len(h) = 4
  BY DEF PixTexts, Letter
<1>5. _tlv(t, v) = h \o v
  <2>1. TwoDigits(l) = <<c, d>>
    BY <1>1, <1>3, TwoDigitsType
  <2>2. _tlv(t, v) = <<a, b>> \o <<c, d>> \o v
    BY <1>3, <2>1 DEF _tlv, l
  <2>3. QED
    BY <2>2
<1>6. s = h \o (v \o q)
  <2> HIDE DEF h
  <2>1. (h \o v) \o q = h \o (v \o q)
    BY <1>4, ConcatAssociative DEF PixTexts
  <2>2. QED
    BY <1>5, <2>1
<1> HIDE DEF s
<1>7. Headed(s, t, l)
  <2> DEFINE w == v \o q
  <2>1. 10 * c + d <= Len(w) /\ w \in PixTexts /\ s = <<a, b, c, d>> \o w
    BY <1>1, <1>2, <1>3, <1>6
  <2> HIDE DEF w
  <2>2. Headed(<<a, b, c, d>> \o w, 10 * a + b, 10 * c + d)
    BY <2>1, HeaderIsRead
  <2>3. QED
    BY <1>3, <2>1, <2>2
<1> USE DEF Headed
<1> HIDE DEF h
<1>8. Reading(s)[5 + l] = Fields(q)
  <2>1. _tlv(t, v) \in PixTexts /\ Len(_tlv(t, v)) = 4 + l
    <3>1. h \o v \in PixTexts /\ Len(h \o v) = Len(h) + Len(v)
      BY <1>4, JoinedAt
    <3>2. QED
      BY <1>4, <1>5, <3>1 DEF l
  <2>2. 5 + l = Len(_tlv(t, v)) + 1
    BY <1>1, <2>1
  <2>3. Reading(s)[Len(_tlv(t, v)) + 1] = Reading(q)[1]
    <3>1. 1 \in 1..Len(q) + 1
      BY <1>2
    <3>2. QED
      BY <2>1, <3>1, ReadingIsMoved DEF s
  <2>4. QED
    BY <2>2, <2>3 DEF Fields
<1>9. FieldAt(s, 1) = [tag |-> t, value |-> v]
  <2> DEFINE u == SubSeq(s, 1 + 4, 1 + 3 + l)
  <2>1. u \in PixTexts /\ Len(u) = l /\ \A j \in 1..l : u[j] = s[1 + 4 + j - 1]
    <3>1. 1 + 3 + l <= Len(s) /\ l \in Nat /\ s \in PixTexts /\ 1 \in Nat \ {0}
      <4>1. 1 + 3 + Length(s, 1) <= Len(s)
        BY <1>7 DEF HasField
      <4>2. QED
        BY <1>1, <1>7, <4>1
    <3>2. QED
      BY <3>1, PartOf, Zenon
  <2>2. ASSUME NEW j \in 1..l PROVE s[1 + 4 + j - 1] = v[j]
    <3>1. j \in 1..Len(v \o q) /\ 1 + 4 + j - 1 = Len(h) + j
      BY <1>1, <1>2, <1>4
    <3>2. s[Len(h) + j] = (v \o q)[j]
      BY <1>2, <1>4, <1>6, <3>1, JoinedAt
    <3>3. QED
      BY <1>2, <3>1, <3>2
  <2>3. FieldAt(s, 1) = [tag |-> FieldAt(s, 1).tag, value |-> u]
    BY <1>7 DEF FieldAt
  <2> HIDE DEF u
  <2>4. u = v
    <3>1. Len(u) = Len(v) /\ \A j \in 1..Len(u) : u[j] = v[j]
      BY <2>1, <2>2 DEF l
    <3>2. QED
      BY <2>1, <3>1, SeqEqual DEF PixTexts
  <2>5. QED
    BY <1>7, <2>3, <2>4
<1>10. QED
  BY <1>7, <1>8, <1>9 DEF s

LEMMA NothingToRead == Fields(<<>>) = <<>>
<1>1. <<>> \in PixTexts /\ Len(<<>>) = 0
  BY DEF PixTexts
<1>2. Reading(<<>>)[1] = NextRead(<<>>, Reading(<<>>), 1)
  BY <1>1, ReadingIs
<1>3. QED
  BY <1>1, <1>2 DEF NextRead, Fields

LEMMA OneTlvIsRead ==
  ASSUME NEW t \in 0..Highest, NEW v \in PixTexts, Len(v) <= Highest
  PROVE  Fields(_tlv(t, v)) = <<[tag |-> t, value |-> v]>>
<1>1. _tlv(t, v) \o <<>> = _tlv(t, v) /\ <<>> \in PixTexts
  BY TlvType, ConcatEmptySeq DEF PixTexts
<1>2. Fields(_tlv(t, v) \o <<>>) = <<[tag |-> t, value |-> v]>> \o Fields(<<>>)
  BY <1>1, TlvIsRead
<1>3. QED
  BY <1>1, <1>2, NothingToRead

-----------------------------------------------------------------------------
(* The fields of a payload.                                                 *)

LEMMA RangeOfMore ==
  ASSUME NEW S, NEW x \in S, NEW q \in Seq(S)
  PROVE  Range(<<x>> \o q) = {x} \cup Range(q)
<1> DEFINE p == <<x>> \o q
<1>1. Len(q) \in Nat /\ DOMAIN q = 1..Len(q) /\ DOMAIN p = 1..Len(q) + 1
  BY LenProperties
<1>2. p[1] = x /\ \A j \in 1..Len(q) : p[j + 1] = q[j]
  OBVIOUS
<1> HIDE DEF p
<1>3. ASSUME NEW y \in Range(p) PROVE y \in {x} \cup Range(q)
  <2>1. PICK j \in 1..Len(q) + 1 : y = p[j]
    BY <1>1 DEF Range
  <2>2. j = 1 \/ (j - 1 \in 1..Len(q) /\ (j - 1) + 1 = j)
    BY <1>1
  <2>3. QED
    BY <1>1, <1>2, <2>1, <2>2 DEF Range
<1>4. ASSUME NEW y \in {x} \cup Range(q) PROVE y \in Range(p)
  <2>1. 1 \in DOMAIN p /\ \A j \in 1..Len(q) : j + 1 \in DOMAIN p
    BY <1>1
  <2>2. QED
    BY <1>1, <1>2, <2>1 DEF Range
<1>5. QED
  BY <1>3, <1>4 DEF p

\* What a field in front of q adds to what is read.
Adds(t, v, q) ==
    /\ _tlv(t, v) \o q \in PixTexts
    /\ Range(Fields(_tlv(t, v) \o q)) = {[tag |-> t, value |-> v]} \cup Range(Fields(q))

LEMMA TlvAdds ==
  ASSUME NEW t \in 0..Highest, NEW v \in PixTexts, Len(v) <= Highest, NEW q \in PixTexts
  PROVE  Adds(t, v, q)
<1>1. t \in Nat
  BY HighestType
<1>2. [tag |-> t, value |-> v] \in Readings
  BY <1>1 DEF Readings
<1>3. Fields(q) \in Seq(Readings)
  BY FieldsType
<1>4. Range(Fields(_tlv(t, v) \o q)) = {[tag |-> t, value |-> v]} \cup Range(Fields(q))
  <2> DEFINE f == [tag |-> t, value |-> v]
  <2>1. Fields(_tlv(t, v) \o q) = <<f>> \o Fields(q)
    BY TlvIsRead
  <2>2. f \in Readings
    BY <1>2
  <2> HIDE DEF f
  <2>3. QED
    BY <1>3, <2>1, <2>2, RangeOfMore DEF f
<1>5. QED
  BY <1>4, TlvType, JoinedLength DEF Adds

LEMMA OneTlv ==
  ASSUME NEW t \in 0..Highest, NEW v \in PixTexts, Len(v) <= Highest
  PROVE  Range(Fields(_tlv(t, v))) = {[tag |-> t, value |-> v]}
<1> DEFINE f == [tag |-> t, value |-> v]
<1> HIDE DEF f
<1>1. Range(<<f>>) = {f}
  BY DEF Range
<1>2. QED
  BY <1>1, OneTlvIsRead DEF f

\* What a text is, cut off behind its first part.
LEMMA CutBehind ==
  ASSUME NEW s \in PixTexts, NEW q \in PixTexts
  PROVE  SubSeq(s \o q, 1, Len(s \o q) - Len(q)) = s
<1> DEFINE t == s \o q
           n == Len(t) - Len(q)
           u == SubSeq(t, 1, n)
<1>1. /\ t \in PixTexts /\ Len(s) \in Nat /\ Len(q) \in Nat /\ Len(t) = Len(s) + Len(q)
      /\ \A j \in 1..Len(s) : t[j] = s[j]
  BY JoinedAt
<1> HIDE DEF t
<1>2. n = Len(s)
  BY <1>1
<1> HIDE DEF n
<1>3. s \in [1..Len(s) -> 0..Letter]
  BY LenProperties DEF PixTexts
<1>4. 1 \in Int /\ n \in Int /\ \A j \in 1..n : t[j] \in 0..Letter
  BY <1>1, <1>2, <1>3
<1>5. /\ u \in Seq(0..Letter)
      /\ Len(u) = IF 1 <= n THEN n - 1 + 1 ELSE 0
      /\ \A j \in 1..n - 1 + 1 : u[j] = t[1 + j - 1]
  BY <1>4, SubSeqProperties
<1> HIDE DEF u
<1>6. Len(u) = Len(s) /\ \A j \in 1..Len(u) : u[j] = s[j]
  <2>1. Len(u) = Len(s) /\ n - 1 + 1 = Len(s)
    BY <1>1, <1>2, <1>5
  <2>2. ASSUME NEW j \in 1..Len(s) PROVE u[j] = s[j]
    <3>1. 1 + j - 1 = j
      BY <1>1
    <3>2. QED
      BY <1>1, <1>5, <2>1, <3>1
  <2>3. QED
    BY <2>1, <2>2
<1>7. u = s
  BY <1>5, <1>6, SeqEqual DEF PixTexts
<1>8. QED
  BY <1>7 DEF u, n, t

\* The template of the account.
Account(k) == _tlv(0, Text(14)) \o _tlv(1, Text(k))

AmountField(a) == IF Text(a) = <<>> THEN <<>> ELSE _tlv(54, Text(a))

\* The payload from behind the category code on, and from behind the amount on.
AfterAmount(n) ==
    _tlv(58, Text(2)) \o (_tlv(59, Cut(Text(n), 25))
        \o (_tlv(60, Cut(Text(n), 15)) \o _tlv(62, _tlv(5, Text(3)))))

AfterAccount(n, a) ==
    _tlv(52, <<0, 0, 0, 0>>) \o (_tlv(53, <<9, 8, 6>>) \o (AmountField(a) \o AfterAmount(n)))

Body(k, n, a) == _tlv(0, <<0, 1>>) \o (_tlv(26, Account(k)) \o AfterAccount(n, a))

LEMMA SmallTags ==
  /\ 0 \in 0..Highest /\ 1 \in 0..Highest /\ 5 \in 0..Highest /\ 26 \in 0..Highest
  /\ 52 \in 0..Highest /\ 53 \in 0..Highest /\ 54 \in 0..Highest /\ 58 \in 0..Highest
  /\ 59 \in 0..Highest /\ 60 \in 0..Highest /\ 62 \in 0..Highest
BY DEF Highest

LEMMA ShortEnough ==
  ASSUME NEW l \in Nat, l <= 25
  PROVE  l <= Highest
BY DEF Highest

\* A text short enough for two digits.
LEMMA ShortText ==
  ASSUME NEW l \in Nat, l <= 25
  PROVE  Text(l) \in PixTexts /\ Len(Text(l)) = l /\ Len(Text(l)) <= Highest
<1>1. Text(l) \in PixTexts /\ Len(Text(l)) = l
  BY TextType
<1>2. l <= Highest
  BY ShortEnough
<1>3. QED
  BY <1>1, <1>2

\* A name is cut to its limit.
LEMMA CutType ==
  ASSUME NEW n \in Nat, NEW m \in Nat
  PROVE  Cut(Text(n), m) = Text(IF n > m THEN m ELSE n)
<1>1. Text(n) \in PixTexts /\ Len(Text(n)) = n
  BY TextType
<1> DEFINE l == IF n > m THEN m ELSE n
<1>2. l \in Nat /\ l <= n /\ l = IF n < m THEN n ELSE m
  OBVIOUS
<1>3. Cut(Text(n), m) = SubSeq(Text(n), 1, l)
  BY <1>1, <1>2 DEF Cut
<1> HIDE DEF l
<1>4. SubSeq(Text(n), 1, l) = Text(l)
  BY <1>2 DEF Text, Letter
<1>5. QED
  BY <1>3, <1>4 DEF l

LEMMA TlvLength ==
  ASSUME NEW t \in 0..Highest, NEW v \in PixTexts, Len(v) <= Highest
  PROVE  Len(_tlv(t, v)) = 4 + Len(v)
<1> DEFINE l == Len(v)
           h == <<t \div 10, t % 10>>
           d == TwoDigits(l)
<1>1. l \in Nat
  BY DEF PixTexts
<1>2. d = <<l \div 10, l % 10>>
  <2>1. l < 100
    <3> HIDE DEF l
    <3>1. QED
      BY <1>1 DEF Highest, l
  <2>2. QED
    BY <1>1, <2>1, TwoDigitsType
<1>3. h \in PixTexts /\ Len(h) = 2
  BY DigitsOf DEF PixTexts, Letter
<1>4. d \in PixTexts /\ Len(d) = 2
  <2>1. l \in 0..Highest
    BY <1>1, InTwoDigits
  <2> HIDE DEF l
  <2>2. l \div 10 \in 0..9 /\ l % 10 \in 0..9
    BY <2>1, DigitsOf
  <2>3. QED
    BY <1>2, <2>2 DEF PixTexts, Letter
<1> HIDE DEF h, d
<1>5. _tlv(t, v) = (h \o d) \o v
  BY DEF _tlv, h, d, l
<1>6. h \o d \in PixTexts /\ Len(h \o d) = 4
  <2>1. h \o d \in PixTexts /\ Len(h \o d) = Len(h) + Len(d)
    BY <1>3, <1>4, JoinedLength
  <2>2. QED
    BY <1>3, <1>4, <2>1
<1>7. QED
  BY <1>5, <1>6, JoinedLength

\* The account takes 22 characters more than its key.
LEMMA AccountType ==
  ASSUME NEW k \in Nat
  PROVE  /\ Account(k) \in PixTexts
         /\ k <= Highest => /\ Len(Account(k)) = 22 + k
                            /\ Range(Fields(Account(k))) =
                                  {[tag |-> 0, value |-> Text(14)], [tag |-> 1, value |-> Text(k)]}
<1>1. Text(14) \in PixTexts /\ Len(Text(14)) = 14 /\ Len(Text(14)) <= Highest
  <2>1. 14 \in Nat /\ 14 <= 25
    OBVIOUS
  <2>2. QED
    BY <2>1, ShortText, Zenon
<1>2. Text(k) \in PixTexts /\ Len(Text(k)) = k
  BY TextType
<1> DEFINE x == _tlv(0, Text(14))
           y == _tlv(1, Text(k))
<1>3. x \in PixTexts /\ y \in PixTexts
  BY <1>2, <1>1, SmallTags, TlvType
<1>4. x \o y \in PixTexts /\ Len(x \o y) = Len(x) + Len(y)
  BY <1>3, JoinedLength
<1>5. Account(k) = x \o y
  BY DEF Account
<1>6. ASSUME k <= Highest PROVE Len(Account(k)) = 22 + k
  <2>1. Len(x) = 4 + Len(Text(14)) /\ Len(y) = 4 + Len(Text(k))
    BY <1>2, <1>1, <1>6, SmallTags, TlvLength, Zenon
  <2> DEFINE z == Len(x)
             w == Len(y)
  <2>2. z = 4 + 14 /\ w = 4 + k /\ Len(Account(k)) = z + w
    BY <1>2, <1>1, <1>4, <1>5, <2>1, Zenon
  <2> HIDE DEF z, w
  <2>3. z + w = 22 + k
    BY <2>2
  <2>4. QED
    BY <2>2, <2>3, Zenon
<1>7. ASSUME k <= Highest
      PROVE  Range(Fields(Account(k))) =
                {[tag |-> 0, value |-> Text(14)], [tag |-> 1, value |-> Text(k)]}
  <2>1. Range(Fields(y)) = {[tag |-> 1, value |-> Text(k)]}
    BY <1>2, <1>7, SmallTags, OneTlv, Zenon
  <2>2. Range(Fields(x \o y)) = {[tag |-> 0, value |-> Text(14)]} \cup Range(Fields(y))
    <3> DEFINE v == Text(14)
    <3>1. v \in PixTexts /\ Len(v) <= Highest
      BY <1>1
    <3> HIDE DEF v, y
    <3>2. Adds(0, v, y)
      BY <1>3, <3>1, SmallTags, TlvAdds, Zenon
    <3>3. QED
      BY <3>2 DEF v, Adds
  <2>3. QED
    BY <1>5, <2>1, <2>2
<1>8. QED
  BY <1>4, <1>5, <1>6, <1>7

\* The fields behind the amount, and those behind the account.
LEMMA AfterAmountRead ==
  ASSUME NEW n \in Nat
  PROVE  /\ AfterAmount(n) \in PixTexts
         /\ Range(Fields(AfterAmount(n))) =
               {[tag |-> 58, value |-> Text(2)],
                [tag |-> 59, value |-> Text(IF n > 25 THEN 25 ELSE n)],
                [tag |-> 60, value |-> Text(IF n > 15 THEN 15 ELSE n)],
                [tag |-> 62, value |-> _tlv(5, Text(3))]}
<1> DEFINE v58 == Text(2)
           v59 == Text(IF n > 25 THEN 25 ELSE n)
           v60 == Text(IF n > 15 THEN 15 ELSE n)
           v62 == _tlv(5, Text(3))
           q62 == _tlv(62, v62)
           q60 == _tlv(60, v60) \o q62
           q59 == _tlv(59, v59) \o q60
           q58 == _tlv(58, v58) \o q59
<1>1. AfterAmount(n) = q58
  BY CutType DEF AfterAmount
<1>2. v58 \in PixTexts /\ Len(v58) <= Highest
  <2>1. 2 \in Nat /\ 2 <= 25
    OBVIOUS
  <2>2. QED
    BY <2>1, ShortText, Zenon
<1>3. v59 \in PixTexts /\ Len(v59) <= Highest
  <2> DEFINE m == IF n > 25 THEN 25 ELSE n
  <2>1. m \in Nat /\ m <= 25
    OBVIOUS
  <2> HIDE DEF m
  <2>2. Text(m) \in PixTexts /\ Len(Text(m)) <= Highest
    BY <2>1, ShortText, Zenon
  <2>3. QED
    BY <2>2 DEF m
<1>4. v60 \in PixTexts /\ Len(v60) <= Highest
  <2> DEFINE m == IF n > 15 THEN 15 ELSE n
  <2>1. m \in Nat /\ m <= 25
    OBVIOUS
  <2> HIDE DEF m
  <2>2. Text(m) \in PixTexts /\ Len(Text(m)) <= Highest
    BY <2>1, ShortText, Zenon
  <2>3. QED
    BY <2>2 DEF m
<1>5. v62 \in PixTexts /\ Len(v62) <= Highest
  <2>1. 3 \in Nat /\ 3 <= 25 /\ 4 + 3 \in Nat /\ 4 + 3 <= 25
    OBVIOUS
  <2>2. Text(3) \in PixTexts /\ Len(Text(3)) = 3 /\ Len(Text(3)) <= Highest
    BY <2>1, ShortText, Zenon
  <2>3. v62 \in PixTexts /\ Len(v62) = 4 + 3
    <3>1. v62 \in PixTexts
      BY <2>2, SmallTags, TlvType, Zenon
    <3>2. Len(v62) = 4 + Len(Text(3))
      BY <2>2, SmallTags, TlvLength, Zenon
    <3>3. QED
      BY <2>2, <3>1, <3>2, Zenon
  <2>4. 4 + 3 <= Highest
    BY <2>1, ShortEnough, Zenon
  <2>5. QED
    BY <2>3, <2>4, Zenon
<1> HIDE DEF v58, v59, v60, v62
<1>6. q62 \in PixTexts /\ Range(Fields(q62)) = {[tag |-> 62, value |-> v62]}
  BY <1>5, SmallTags, OneTlv, TlvType, Zenon
<1> HIDE DEF q62
<1>7. q60 \in PixTexts /\ Range(Fields(q60)) = {[tag |-> 60, value |-> v60]} \cup Range(Fields(q62))
  <2>1. Adds(60, v60, q62)
    BY <1>4, <1>6, SmallTags, TlvAdds, Zenon
  <2>2. QED
    BY <2>1 DEF Adds
<1> HIDE DEF q60
<1>8. q59 \in PixTexts /\ Range(Fields(q59)) = {[tag |-> 59, value |-> v59]} \cup Range(Fields(q60))
  <2>1. Adds(59, v59, q60)
    BY <1>3, <1>7, SmallTags, TlvAdds, Zenon
  <2>2. QED
    BY <2>1 DEF Adds
<1> HIDE DEF q59
<1>9. q58 \in PixTexts /\ Range(Fields(q58)) = {[tag |-> 58, value |-> v58]} \cup Range(Fields(q59))
  <2>1. Adds(58, v58, q59)
    BY <1>2, <1>8, SmallTags, TlvAdds, Zenon
  <2>2. QED
    BY <2>1 DEF Adds
<1> HIDE DEF q58
<1>10. Range(Fields(q58)) =
          {[tag |-> 58, value |-> v58], [tag |-> 59, value |-> v59],
           [tag |-> 60, value |-> v60], [tag |-> 62, value |-> v62]}
  BY <1>6, <1>7, <1>8, <1>9
<1>11. QED
  BY <1>1, <1>9, <1>10 DEF v58, v59, v60, v62

\* The fields behind the account, from the last one to the first.
LEMMA AmountFieldRead ==
  ASSUME NEW a \in 0..Highest, NEW q \in PixTexts
  PROVE  /\ AmountField(a) \in PixTexts
         /\ AmountField(a) \o q \in PixTexts
         /\ Range(Fields(AmountField(a) \o q)) =
               (IF a = 0 THEN {} ELSE {[tag |-> 54, value |-> Text(a)]}) \cup Range(Fields(q))
<1>1. a \in Nat /\ a <= Highest
  BY HighestType
<1>2. Text(a) \in PixTexts /\ Len(Text(a)) = a /\ Len(Text(a)) <= Highest
  BY <1>1, TextType
<1>3. CASE a = 0
  <2>1. Text(a) = <<>>
    BY <1>3 DEF Text
  <2>2. AmountField(a) = <<>>
    BY <2>1 DEF AmountField
  <2>3. <<>> \in PixTexts /\ <<>> \o q = q
    BY ConcatEmptySeq DEF PixTexts
  <2>4. QED
    BY <1>3, <2>2, <2>3
<1>4. CASE a # 0
  <2>1. Text(a) # <<>>
    BY <1>2, <1>4
  <2>2. AmountField(a) = _tlv(54, Text(a))
    BY <2>1 DEF AmountField
  <2>3. Adds(54, Text(a), q)
    BY <1>2, SmallTags, TlvAdds, Zenon
  <2>4. _tlv(54, Text(a)) \in PixTexts
    BY <1>2, SmallTags, TlvType, Zenon
  <2>5. QED
    BY <1>4, <2>2, <2>3, <2>4 DEF Adds
<1>5. QED
  BY <1>3, <1>4

\* The fields a payload has besides the account.
Others(n, a) ==
    {[tag |-> 52, value |-> <<0, 0, 0, 0>>], [tag |-> 53, value |-> <<9, 8, 6>>],
     [tag |-> 58, value |-> Text(2)],
     [tag |-> 59, value |-> Text(IF n > 25 THEN 25 ELSE n)],
     [tag |-> 60, value |-> Text(IF n > 15 THEN 15 ELSE n)],
     [tag |-> 62, value |-> _tlv(5, Text(3))]}
    \cup IF a = 0 THEN {} ELSE {[tag |-> 54, value |-> Text(a)]}

LEMMA ShortValues ==
  /\ <<0, 0, 0, 0>> \in PixTexts /\ Len(<<0, 0, 0, 0>>) <= Highest
  /\ <<9, 8, 6>> \in PixTexts /\ Len(<<9, 8, 6>>) <= Highest
  /\ <<0, 1>> \in PixTexts /\ Len(<<0, 1>>) <= Highest
<1>1. 4 <= Highest /\ 3 <= Highest /\ 2 <= Highest
  BY DEF Highest
<1>2. Len(<<0, 0, 0, 0>>) = 4 /\ Len(<<9, 8, 6>>) = 3 /\ Len(<<0, 1>>) = 2
  OBVIOUS
<1>3. <<0, 0, 0, 0>> \in PixTexts /\ <<9, 8, 6>> \in PixTexts /\ <<0, 1>> \in PixTexts
  BY DEF PixTexts, Letter
<1>4. QED
  BY <1>1, <1>2, <1>3

LEMMA AfterAccountRead ==
  ASSUME NEW n \in Nat, NEW a \in 0..Highest
  PROVE  /\ AfterAccount(n, a) \in PixTexts
         /\ Range(Fields(AfterAccount(n, a))) = Others(n, a)
<1> DEFINE q58 == AfterAmount(n)
           q54 == AmountField(a) \o q58
           v53 == <<9, 8, 6>>
           q53 == _tlv(53, v53) \o q54
           v52 == <<0, 0, 0, 0>>
           q52 == _tlv(52, v52) \o q53
           fields == {[tag |-> 58, value |-> Text(2)],
                      [tag |-> 59, value |-> Text(IF n > 25 THEN 25 ELSE n)],
                      [tag |-> 60, value |-> Text(IF n > 15 THEN 15 ELSE n)],
                      [tag |-> 62, value |-> _tlv(5, Text(3))]}
           paid == IF a = 0 THEN {} ELSE {[tag |-> 54, value |-> Text(a)]}
<1>1. AfterAccount(n, a) = q52
  BY DEF AfterAccount
<1>2. q58 \in PixTexts /\ Range(Fields(q58)) = fields
  BY AfterAmountRead
<1>3. v53 \in PixTexts /\ Len(v53) <= Highest /\ v52 \in PixTexts /\ Len(v52) <= Highest
  BY ShortValues
<1>4. Others(n, a) =
        {[tag |-> 52, value |-> v52]} \cup ({[tag |-> 53, value |-> v53]} \cup (paid \cup fields))
  <2> DEFINE r58 == [tag |-> 58, value |-> Text(2)]
             r59 == [tag |-> 59, value |-> Text(IF n > 25 THEN 25 ELSE n)]
             r60 == [tag |-> 60, value |-> Text(IF n > 15 THEN 15 ELSE n)]
             r62 == [tag |-> 62, value |-> _tlv(5, Text(3))]
             r52 == [tag |-> 52, value |-> v52]
             r53 == [tag |-> 53, value |-> v53]
  <2>1. Others(n, a) = {r52, r53, r58, r59, r60, r62} \cup paid
    BY DEF Others
  <2>2. fields = {r58, r59, r60, r62}
    OBVIOUS
  <2> HIDE DEF r52, r53, r58, r59, r60, r62, paid, fields
  <2>3. Others(n, a) = {r52} \cup ({r53} \cup (paid \cup fields))
    BY <2>1, <2>2
  <2>4. QED
    BY <2>3 DEF r52, r53
<1> HIDE DEF q58, fields
<1>5. q54 \in PixTexts /\ Range(Fields(q54)) = paid \cup fields
  BY <1>2, AmountFieldRead
<1> HIDE DEF q54, v52, v53, paid
<1>6. Adds(53, v53, q54)
  BY <1>3, <1>5, SmallTags, TlvAdds, Zenon
<1>7. q53 \in PixTexts /\ Range(Fields(q53)) = {[tag |-> 53, value |-> v53]} \cup (paid \cup fields)
  BY <1>5, <1>6 DEF Adds
<1> HIDE DEF q53
<1>8. Adds(52, v52, q53)
  BY <1>3, <1>7, SmallTags, TlvAdds, Zenon
<1>9. /\ q52 \in PixTexts
      /\ Range(Fields(q52)) =
            {[tag |-> 52, value |-> v52]} \cup ({[tag |-> 53, value |-> v53]} \cup (paid \cup fields))
  BY <1>7, <1>8 DEF Adds
<1> HIDE DEF q52
<1>10. QED
  BY <1>1, <1>4, <1>9, Zenon

\* An account of at most 99 characters is read with the rest.
LEMMA BodyRead ==
  ASSUME NEW k \in Nat, NEW n \in Nat, NEW a \in 0..Highest
  PROVE  /\ Body(k, n, a) \in PixTexts
         /\ Len(Account(k)) <= Highest =>
               Range(Fields(Body(k, n, a))) =
                  {[tag |-> 0, value |-> <<0, 1>>], [tag |-> 26, value |-> Account(k)]}
                  \cup Others(n, a)
<1> DEFINE q == AfterAccount(n, a)
           v == <<0, 1>>
           t == _tlv(26, Account(k)) \o q
<1>1. q \in PixTexts /\ Range(Fields(q)) = Others(n, a)
  BY AfterAccountRead
<1>2. v \in PixTexts /\ Len(v) <= Highest
  BY ShortValues
<1>3. Account(k) \in PixTexts
  BY AccountType
<1>4. Body(k, n, a) = _tlv(0, v) \o t
  BY DEF Body
<1> HIDE DEF q, v
<1>5. t \in PixTexts
  <2>1. _tlv(26, Account(k)) \in PixTexts
    BY <1>3, SmallTags, TlvType, Zenon
  <2>2. QED
    BY <1>1, <2>1, JoinedLength
<1>6. ASSUME Len(Account(k)) <= Highest
      PROVE  Range(Fields(t)) = {[tag |-> 26, value |-> Account(k)]} \cup Others(n, a)
  <2>1. Adds(26, Account(k), q)
    BY <1>1, <1>3, <1>6, SmallTags, TlvAdds, Zenon
  <2>2. QED
    BY <1>1, <2>1 DEF Adds
<1> HIDE DEF t
<1>7. Adds(0, v, t)
  BY <1>2, <1>5, SmallTags, TlvAdds, Zenon
<1>8. /\ Body(k, n, a) \in PixTexts
      /\ Range(Fields(Body(k, n, a))) = {[tag |-> 0, value |-> v]} \cup Range(Fields(t))
  BY <1>4, <1>7 DEF Adds
<1>9. ASSUME Len(Account(k)) <= Highest
      PROVE  Range(Fields(Body(k, n, a))) =
                {[tag |-> 0, value |-> v], [tag |-> 26, value |-> Account(k)]} \cup Others(n, a)
  BY <1>6, <1>8, <1>9
<1>10. QED
  BY <1>8, <1>9 DEF v

Associate(x, y, z) == (x \o y) \o z = x \o (y \o z)

\* Fields one after the other may be taken together from either end.
LEMMA Regrouped3 ==
  ASSUME NEW x \in PixTexts, NEW y \in PixTexts, NEW z \in PixTexts
  PROVE  x \o y \in PixTexts /\ Associate(x, y, z)
<1>1. x \in Seq(0..Letter) /\ y \in Seq(0..Letter) /\ z \in Seq(0..Letter)
  BY DEF PixTexts
<1>2. Associate(x, y, z)
  BY <1>1, ConcatAssociative DEF Associate
<1>3. x \o y \in PixTexts
  BY JoinedLength
<1>4. QED
  BY <1>2, <1>3, Zenon

Regroup(a, b, c, d, e, f, g, h, i) ==
    a \o b \o c \o d \o e \o f \o g \o h \o i =
       a \o (b \o (c \o (d \o (e \o (f \o (g \o (h \o i)))))))

LEMMA Regrouped ==
  ASSUME NEW a \in PixTexts, NEW b \in PixTexts, NEW c \in PixTexts, NEW d \in PixTexts,
         NEW e \in PixTexts, NEW f \in PixTexts, NEW g \in PixTexts, NEW h \in PixTexts,
         NEW i \in PixTexts
  PROVE  Regroup(a, b, c, d, e, f, g, h, i)
<1>1. \A x, y, z \in PixTexts : x \o y \in PixTexts /\ Associate(x, y, z)
  BY Regrouped3, Zenon
<1> DEFINE h1 == h \o i
           g1 == g \o h1
           f1 == f \o g1
           e1 == e \o f1
           d1 == d \o e1
           c1 == c \o d1
           ab == a \o b
           ac == ab \o c
           ad == ac \o d
           ae == ad \o e
           af == ae \o f
           ag == af \o g
<1> HIDE DEF h1, g1, f1, e1, d1, c1, ab, ac, ad, ae, af, ag
<1>2. h1 \in PixTexts /\ ab \in PixTexts
  BY <1>1, Zenon DEF h1, ab
<1>3. ac \in PixTexts /\ g1 \in PixTexts
  BY <1>1, <1>2, Zenon DEF ac, g1
<1>4. ad \in PixTexts /\ f1 \in PixTexts
  BY <1>1, <1>3, Zenon DEF ad, f1
<1>5. ae \in PixTexts /\ e1 \in PixTexts
  BY <1>1, <1>4, Zenon DEF ae, e1
<1>6. af \in PixTexts /\ d1 \in PixTexts
  BY <1>1, <1>5, Zenon DEF af, d1
<1>7. ag \in PixTexts /\ c1 \in PixTexts
  BY <1>1, <1>6, Zenon DEF ag, c1
<1>8. (ag \o h) \o i = ag \o h1
  <2>1. Associate(ag, h, i)
    BY <1>1, <1>7, Zenon
  <2>2. QED
    BY <2>1, Zenon DEF Associate, h1
<1>9. ag \o h1 = af \o g1
  <2>1. Associate(af, g, h1)
    BY <1>1, <1>2, <1>6, Zenon
  <2>2. QED
    BY <2>1, Zenon DEF Associate, ag, g1
<1>10. af \o g1 = ae \o f1
  <2>1. Associate(ae, f, g1)
    BY <1>1, <1>3, <1>5, Zenon
  <2>2. QED
    BY <2>1, Zenon DEF Associate, af, f1
<1>11. ae \o f1 = ad \o e1
  <2>1. Associate(ad, e, f1)
    BY <1>1, <1>4, Zenon
  <2>2. QED
    BY <2>1, Zenon DEF Associate, ae, e1
<1>12. ad \o e1 = ac \o d1
  <2>1. Associate(ac, d, e1)
    BY <1>1, <1>3, <1>5, Zenon
  <2>2. QED
    BY <2>1, Zenon DEF Associate, ad, d1
<1>13. ac \o d1 = ab \o c1
  <2>1. Associate(ab, c, d1)
    BY <1>1, <1>2, <1>6, Zenon
  <2>2. QED
    BY <2>1, Zenon DEF Associate, ac, c1
<1>14. ab \o c1 = a \o (b \o c1)
  <2>1. Associate(a, b, c1)
    BY <1>1, <1>7, Zenon
  <2>2. QED
    BY <2>1, Zenon DEF Associate, ab
<1>15. (ag \o h) \o i = a \o (b \o c1)
  BY <1>8, <1>9, <1>10, <1>11, <1>12, <1>13, <1>14, Zenon
<1>16. QED
  BY <1>15, Zenon DEF Regroup, h1, g1, f1, e1, d1, c1, ab, ac, ad, ae, af, ag

Payload(k, n, a) == generate_pix_payload(Text(k), Text(n), Text(n), Text(a), Text(3))

\* What is in front of the checksum.
LEMMA BodyOfPayload ==
  ASSUME NEW k \in Nat, NEW n \in Nat, NEW a \in 0..Highest
  PROVE  SubSeq(Payload(k, n, a), 1, Len(Payload(k, n, a)) - 4) = Body(k, n, a)
<1> DEFINE s0 == _tlv(0, <<0, 1>>)
           s26 == _tlv(26, Account(k))
           s52 == _tlv(52, <<0, 0, 0, 0>>)
           s53 == _tlv(53, <<9, 8, 6>>)
           s54 == AmountField(a)
           s58 == _tlv(58, Text(2))
           s59 == _tlv(59, Cut(Text(n), 25))
           s60 == _tlv(60, Cut(Text(n), 15))
           s62 == _tlv(62, _tlv(5, Text(3)))
           end == <<6, 3, 0, 4>>
           left == s0 \o s26 \o s52 \o s53 \o s54 \o s58 \o s59 \o s60 \o s62
<1>1. Payload(k, n, a) = left \o end
  BY DEF Payload, generate_pix_payload, Account, AmountField
<1>2. Body(k, n, a) = s0 \o (s26 \o (s52 \o (s53 \o (s54 \o (s58 \o (s59 \o (s60 \o s62)))))))
  BY DEF Body, AfterAccount, AfterAmount
<1>3. end \in PixTexts /\ Len(end) = 4
  BY DEF PixTexts, Letter
<1>4. s0 \in PixTexts /\ s52 \in PixTexts /\ s53 \in PixTexts
  BY ShortValues, SmallTags, TlvType, Zenon
<1>5. s26 \in PixTexts
  BY AccountType, SmallTags, TlvType, Zenon
<1>6. s54 \in PixTexts
  <2>1. <<0, 1>> \in PixTexts
    BY ShortValues
  <2>2. QED
    BY <2>1, AmountFieldRead, Zenon
<1>7. \A m \in Nat : Text(m) \in PixTexts
  BY TextType
<1>8. Cut(Text(n), 25) \in PixTexts /\ Cut(Text(n), 15) \in PixTexts
  <2>1. 25 \in Nat /\ 15 \in Nat
        /\ (IF n > 25 THEN 25 ELSE n) \in Nat /\ (IF n > 15 THEN 15 ELSE n) \in Nat
    OBVIOUS
  <2>2. QED
    BY <1>7, <2>1, CutType, Zenon
<1>9. s58 \in PixTexts /\ s59 \in PixTexts /\ s60 \in PixTexts /\ s62 \in PixTexts
  <2>1. 2 \in Nat /\ 3 \in Nat
    OBVIOUS
  <2>2. Text(2) \in PixTexts /\ Text(3) \in PixTexts
    BY <1>7, <2>1, Zenon
  <2>3. s58 \in PixTexts /\ _tlv(5, Text(3)) \in PixTexts
    BY <2>2, SmallTags, TlvType, Zenon
  <2>4. s59 \in PixTexts /\ s60 \in PixTexts /\ s62 \in PixTexts
    BY <1>8, <2>3, SmallTags, TlvType, Zenon
  <2>5. QED
    BY <2>3, <2>4
<1> HIDE DEF s0, s26, s52, s53, s54, s58, s59, s60, s62, end
<1>10. left = Body(k, n, a)
  <2>1. left = s0 \o (s26 \o (s52 \o (s53 \o (s54 \o (s58 \o (s59 \o (s60 \o s62)))))))
    <3>1. Regroup(s0, s26, s52, s53, s54, s58, s59, s60, s62)
      BY <1>4, <1>5, <1>6, <1>9, Regrouped, Zenon
    <3>2. QED
      BY <3>1, Zenon DEF Regroup
  <2>2. QED
    BY <1>2, <2>1, Zenon
<1> HIDE DEF left
<1>11. left \in PixTexts
  BY <1>10, BodyRead
<1>12. SubSeq(left \o end, 1, Len(left \o end) - 4) = left
  BY <1>3, <1>11, CutBehind
<1>13. QED
  BY <1>1, <1>10, <1>12

\* A key of at most 77 characters, and nothing is lost.
LEMMA ShortKeysAreRead ==
  ASSUME NEW k \in Nat, k <= 77, NEW n \in Nat, NEW a \in 0..Highest
  PROVE  Readable(k, n, a)
<1> DEFINE fields == Fields(SubSeq(Payload(k, n, a), 1, Len(Payload(k, n, a)) - 4))
           value(tag) == {f.value : f \in {g \in Range(fields) : g.tag = tag}}
           inner(tag) == UNION {Range(Fields(v)) : v \in value(tag)}
           v59 == Text(IF n > 25 THEN 25 ELSE n)
           v60 == Text(IF n > 15 THEN 15 ELSE n)
           v62 == _tlv(5, Text(3))
           mai == Account(k)
           paid == IF a = 0 THEN {} ELSE {[tag |-> 54, value |-> Text(a)]}
<1>1. k <= Highest /\ 22 + k <= Highest
  BY DEF Highest
<1>2. Len(mai) <= Highest
  BY <1>1, AccountType
<1>3. Range(fields) =
         {[tag |-> 0, value |-> <<0, 1>>], [tag |-> 26, value |-> mai]} \cup Others(n, a)
  <2>1. fields = Fields(Body(k, n, a))
    BY BodyOfPayload
  <2> HIDE DEF fields
  <2>2. QED
    BY <1>2, <2>1, BodyRead
<1>4. Range(Fields(mai)) = {[tag |-> 0, value |-> Text(14)], [tag |-> 1, value |-> Text(k)]}
  BY <1>1, AccountType
<1>5. Range(Fields(v62)) = {[tag |-> 5, value |-> Text(3)]}
  <2>1. 3 \in Nat /\ 3 <= 25
    OBVIOUS
  <2>2. Text(3) \in PixTexts /\ Len(Text(3)) <= Highest
    BY <2>1, ShortText, Zenon
  <2>3. QED
    BY <2>2, SmallTags, OneTlv, Zenon
<1> DEFINE v0 == <<0, 1>>
           v52 == <<0, 0, 0, 0>>
           v53 == <<9, 8, 6>>
           v58 == Text(2)
           v54 == Text(a)
<1>6. \A f : f \in Range(fields) <=>
              \/ f \in {[tag |-> 0, value |-> v0], [tag |-> 26, value |-> mai],
                       [tag |-> 52, value |-> v52], [tag |-> 53, value |-> v53],
                       [tag |-> 58, value |-> v58], [tag |-> 59, value |-> v59],
                       [tag |-> 60, value |-> v60], [tag |-> 62, value |-> v62]}
              \/ a # 0 /\ f = [tag |-> 54, value |-> v54]
  BY <1>3, Zenon DEF Others
<1> HIDE DEF fields, v0, mai, v52, v53, v54, v58, v59, v60, v62
<1>7. ASSUME NEW t, NEW v, [tag |-> t, value |-> v] \in Range(fields),
             \A f \in Range(fields) : f.tag = t => f.value = v
      PROVE  value(t) = {v}
  BY <1>7
<1>8. /\ value(26) = {mai} /\ value(59) = {v59} /\ value(60) = {v60} /\ value(62) = {v62}
      /\ value(54) = IF a = 0 THEN {} ELSE {v54}
  <2> HIDE DEF value
  <2>1. value(26) = {mai}
    <3>1. [tag |-> 26, value |-> mai] \in Range(fields)
      BY <1>6
    <3>2. \A f \in Range(fields) : f.tag = 26 => f.value = mai
      BY <1>6
    <3>3. QED
      BY <1>7, <3>1, <3>2
  <2>2. value(59) = {v59}
    <3>1. [tag |-> 59, value |-> v59] \in Range(fields)
      BY <1>6
    <3>2. \A f \in Range(fields) : f.tag = 59 => f.value = v59
      BY <1>6
    <3>3. QED
      BY <1>7, <3>1, <3>2
  <2>3. value(60) = {v60}
    <3>1. [tag |-> 60, value |-> v60] \in Range(fields)
      BY <1>6
    <3>2. \A f \in Range(fields) : f.tag = 60 => f.value = v60
      BY <1>6
    <3>3. QED
      BY <1>7, <3>1, <3>2
  <2>4. value(62) = {v62}
    <3>1. [tag |-> 62, value |-> v62] \in Range(fields)
      BY <1>6
    <3>2. \A f \in Range(fields) : f.tag = 62 => f.value = v62
      BY <1>6
    <3>3. QED
      BY <1>7, <3>1, <3>2
  <2>5. CASE a = 0
    <3>1. \A f \in Range(fields) : f.tag # 54
      BY <1>6, <2>5
    <3>2. value(54) = {}
      BY <3>1 DEF value
    <3>3. QED
      BY <2>1, <2>2, <2>3, <2>4, <2>5, <3>2
  <2>6. CASE a # 0
    <3>1. [tag |-> 54, value |-> v54] \in Range(fields)
      BY <1>6, <2>6
    <3>2. \A f \in Range(fields) : f.tag = 54 => f.value = v54
      BY <1>6
    <3>3. value(54) = {v54}
      BY <1>7, <3>1, <3>2
    <3>4. QED
      BY <2>1, <2>2, <2>3, <2>4, <2>6, <3>3
  <2>7. QED
    BY <2>5, <2>6
<1>9. NoField \notin Range(fields)
  BY <1>6 DEF NoField
<1>10. [tag |-> 1, value |-> Text(k)] \in inner(26) /\ [tag |-> 5, value |-> Text(3)] \in inner(62)
  BY <1>4, <1>5, <1>8
<1>11. QED
  BY <1>8, <1>9, <1>10 DEF Readable, Payload, fields, v54, v59, v60

\* A pair and two more, or three more.
LEMMA PairAndTwo ==
  ASSUME NEW p \in PixTexts, NEW q \in PixTexts, NEW r \in PixTexts,
         Len(p) = 2, Len(q) = 2, Len(r) = 4,
         p[1] = r[1], p[2] = r[2], q[1] = r[3], q[2] = r[4]
  PROVE  p \o q = r
<1>1. p \o q \in PixTexts /\ Len(p \o q) = 4
  <2>1. p \o q \in PixTexts /\ Len(p \o q) = Len(p) + Len(q)
    BY JoinedLength, Zenon
  <2>2. 2 + 2 = 4
    OBVIOUS
  <2>3. QED
    BY <2>1, <2>2, Zenon
<1>2. /\ \A j \in 1..2 : (p \o q)[j] = p[j]
      /\ \A j \in 1..2 : (p \o q)[2 + j] = q[j]
  <2>1. /\ \A j \in 1..Len(p) : (p \o q)[j] = p[j]
        /\ \A j \in 1..Len(q) : (p \o q)[Len(p) + j] = q[j]
    BY JoinedAt, Zenon
  <2>2. QED
    BY <2>1, Zenon
<1>3. \A j \in 1..4 : (p \o q)[j] = r[j]
  <2>1. 1 \in 1..2 /\ 2 \in 1..2 /\ 2 + 1 = 3 /\ 2 + 2 = 4
    OBVIOUS
  <2>2. (p \o q)[1] = r[1] /\ (p \o q)[2] = r[2] /\ (p \o q)[3] = r[3] /\ (p \o q)[4] = r[4]
    BY <1>2, <2>1
  <2>3. \A j \in 1..4 : j = 1 \/ j = 2 \/ j = 3 \/ j = 4
    OBVIOUS
  <2>4. QED
    BY <2>2, <2>3, Zenon
<1>4. QED
  <2> HIDE DEF PixTexts
  <2>1. p \o q \in Seq(0..Letter) /\ r \in Seq(0..Letter)
    BY <1>1 DEF PixTexts
  <2>2. Len(p \o q) = Len(r) /\ \A j \in 1..Len(p \o q) : (p \o q)[j] = r[j]
    BY <1>1, <1>3, Zenon
  <2>3. QED
    BY <2>1, <2>2, SeqEqual, Zenon

LEMMA PairAndThree ==
  ASSUME NEW p \in PixTexts, NEW q \in PixTexts, NEW r \in PixTexts,
         Len(p) = 2, Len(q) = 3, Len(r) = 5,
         p[1] = r[1], p[2] = r[2], q[1] = r[3], q[2] = r[4], q[3] = r[5]
  PROVE  p \o q = r
<1>1. p \o q \in PixTexts /\ Len(p \o q) = 5
  <2>1. p \o q \in PixTexts /\ Len(p \o q) = Len(p) + Len(q)
    BY JoinedLength, Zenon
  <2>2. 2 + 3 = 5
    OBVIOUS
  <2>3. QED
    BY <2>1, <2>2, Zenon
<1>2. /\ \A j \in 1..2 : (p \o q)[j] = p[j]
      /\ \A j \in 1..3 : (p \o q)[2 + j] = q[j]
  <2>1. /\ \A j \in 1..Len(p) : (p \o q)[j] = p[j]
        /\ \A j \in 1..Len(q) : (p \o q)[Len(p) + j] = q[j]
    BY JoinedAt, Zenon
  <2>2. QED
    BY <2>1, Zenon
<1>3. \A j \in 1..5 : (p \o q)[j] = r[j]
  <2>1. /\ 1 \in 1..2 /\ 2 \in 1..2 /\ 2 + 1 = 3 /\ 2 + 2 = 4
       /\ 1 \in 1..3 /\ 2 \in 1..3 /\ 3 \in 1..3 /\ 2 + 3 = 5
    OBVIOUS
  <2>2. /\ (p \o q)[1] = r[1] /\ (p \o q)[2] = r[2] /\ (p \o q)[3] = r[3] /\ (p \o q)[4] = r[4]
       /\ (p \o q)[5] = r[5]
    BY <1>2, <2>1
  <2>3. \A j \in 1..5 : j = 1 \/ j = 2 \/ j = 3 \/ j = 4 \/ j = 5
    OBVIOUS
  <2>4. QED
    BY <2>2, <2>3, Zenon
<1>4. QED
  <2> HIDE DEF PixTexts
  <2>1. p \o q \in Seq(0..Letter) /\ r \in Seq(0..Letter)
    BY <1>1 DEF PixTexts
  <2>2. Len(p \o q) = Len(r) /\ \A j \in 1..Len(p \o q) : (p \o q)[j] = r[j]
    BY <1>1, <1>3, Zenon
  <2>3. QED
    BY <2>1, <2>2, SeqEqual, Zenon

LEMMA Joined ==
  ASSUME NEW a \in 0..9, NEW b \in 0..9, NEW c \in 0..9, NEW d \in 0..9
  PROVE  <<a, b>> \o <<c, d>> = <<a, b, c, d>>
<1> DEFINE p == <<a, b>>
           q == <<c, d>>
           r == <<a, b, c, d>>
<1>1. p \in PixTexts /\ q \in PixTexts /\ r \in PixTexts
  BY DEF PixTexts, Letter
<1>2. Len(p) = 2 /\ Len(q) = 2 /\ Len(r) = 4
  OBVIOUS
<1>3. p[1] = r[1] /\ p[2] = r[2]
  OBVIOUS
<1>4. q[1] = r[3] /\ q[2] = r[4]
  OBVIOUS
<1> HIDE DEF p, q, r
<1>5. QED
  BY <1>1, <1>2, <1>3, <1>4, PairAndTwo DEF p, q, r

LEMMA JoinedThree ==
  ASSUME NEW a \in 0..9, NEW b \in 0..9, NEW c \in 0..9, NEW d \in 0..9, NEW e \in 0..9
  PROVE  <<a, b>> \o <<c, d, e>> = <<a, b, c, d, e>>
<1> DEFINE p == <<a, b>>
           q == <<c, d, e>>
           r == <<a, b, c, d, e>>
<1>1. p \in PixTexts /\ q \in PixTexts /\ r \in PixTexts
  BY DEF PixTexts, Letter
<1>2. Len(p) = 2 /\ Len(q) = 3 /\ Len(r) = 5
  OBVIOUS
<1>3. p[1] = r[1] /\ p[2] = r[2]
  OBVIOUS
<1>4. q[1] = r[3] /\ q[2] = r[4] /\ q[3] = r[5]
  OBVIOUS
<1> HIDE DEF p, q, r
<1>5. QED
  BY <1>1, <1>2, <1>3, <1>4, PairAndThree DEF p, q, r

\* A key of a hundred characters or more does not fit a field.
LEMMA LongKeysAreNotRead ==
  ASSUME NEW k \in Nat, k > Highest, NEW n \in Nat, NEW a \in 0..Highest
  PROVE  ~ Readable(k, n, a)
<1> DEFINE fields == Fields(SubSeq(Payload(k, n, a), 1, Len(Payload(k, n, a)) - 4))
           value(tag) == {f.value : f \in {g \in Range(fields) : g.tag = tag}}
           inner(tag) == UNION {Range(Fields(v)) : v \in value(tag)}
           key == [tag |-> 1, value |-> Text(k)]
<1>1. \A q \in PixTexts : Range(Fields(q)) \subseteq Readings
  <2>1. ASSUME NEW q \in PixTexts PROVE Range(Fields(q)) \subseteq Readings
    <3>1. Fields(q) \in Seq(Readings)
      BY FieldsType
    <3>2. Fields(q) \in [1..Len(Fields(q)) -> Readings]
      BY <3>1, LenProperties
    <3>3. QED
      BY <3>2 DEF Range
  <2>2. QED
    BY <2>1
<1>2. Range(fields) \subseteq Readings
  <2>1. fields = Fields(Body(k, n, a)) /\ Body(k, n, a) \in PixTexts
    BY BodyOfPayload, BodyRead
  <2> HIDE DEF fields
  <2>2. QED
    BY <1>1, <2>1
<1>3. key \notin Readings
  <2>1. Len(Text(k)) = k /\ ~ k <= Highest
    BY TextType, HighestType
  <2>2. QED
    BY <2>1 DEF Readings
<1> HIDE DEF fields
<1>4. \A f \in Readings : f.value \in PixTexts
  BY DEF Readings
<1>5. value(26) \subseteq PixTexts
  BY <1>2, <1>4
<1> HIDE DEF value, key
<1>6. inner(26) \subseteq Readings
  BY <1>1, <1>5
<1>7. key \notin inner(26)
  BY <1>3, <1>6
<1>8. Readable(k, n, a) => key \in inner(26)
  BY DEF Readable, Payload, fields, value, key
<1>9. QED
  BY <1>7, <1>8

\* The length of an account of 78 to 99 characters has three digits, of which a
\* reader takes the first two, and goes on in the middle of br.gov.bcb.pix.
LEMMA LongAccountsAreNotRead ==
  ASSUME NEW k \in Nat, k > 77, k <= Highest, NEW n \in Nat, NEW a \in 0..Highest
  PROVE  ~ Readable(k, n, a)
<1> DEFINE body == Body(k, n, a)
           mai == Account(k)
           l == 22 + k
           q == AfterAccount(n, a)
           t == _tlv(26, mai) \o q
           d1 == (l \div 10) % 10
           d2 == l % 10
<1>1. l \in 100..121 /\ d1 \in 0..2 /\ d2 \in 0..9 /\ l \in Nat
  BY DEF Highest
<1>2. mai \in PixTexts /\ Len(mai) = l
  BY AccountType
<1>3. TwoDigits(l) = <<1, d1, d2>>
  <2>1. l \div 100 = 1 /\ l >= 100 /\ l < 1000
    BY <1>1
  <2> HIDE DEF l
  <2>2. QED
    BY <1>1, <2>1, TwoDigitsType
<1> DEFINE letters == Text(14)
           rest == _tlv(1, Text(k)) \o q
           h4 == <<2, 6, 1, d1>>
           h9 == <<2, 6, 1, d1, d2, 0, 0, 1, 4>>
           w == <<d2>> \o (mai \o q)
<1> HIDE DEF l, d1, d2
<1>4. letters \in PixTexts /\ Len(letters) = 14 /\ \A j \in 1..14 : letters[j] = Letter
  <2>1. 14 \in Nat /\ 14 <= 25
    OBVIOUS
  <2>2. letters \in PixTexts /\ Len(letters) = 14
    BY <2>1, ShortText, Zenon
  <2>3. QED
    BY <2>2 DEF Text
<1>5. q \in PixTexts
  BY AfterAccountRead
<1>6. rest \in PixTexts
  <2>1. Text(k) \in PixTexts
    BY TextType
  <2>2. _tlv(1, Text(k)) \in PixTexts
    BY <2>1, SmallTags, TlvType, Zenon
  <2>3. QED
    BY <1>5, <2>2, JoinedLength
<1>7. w \in PixTexts
  <2>1. <<d2>> \in PixTexts
    BY <1>1 DEF PixTexts, Letter
  <2>2. mai \o q \in PixTexts
    BY <1>2, <1>5, JoinedLength
  <2> HIDE DEF mai, q
  <2>3. QED
    BY <2>1, <2>2, JoinedLength
<1> DEFINE h5 == <<2, 6, 1, d1, d2>>
           h == <<0, 0, 1, 4>>
           account == _tlv(1, Text(k))
           last == <<d2>>
           tail == mai \o q
<1>8. /\ h4 \in PixTexts /\ h5 \in PixTexts /\ h \in PixTexts /\ last \in PixTexts
      /\ h9 \in PixTexts /\ Len(h9) = 9
      /\ h5 = h4 \o last /\ h9 = h5 \o h
  BY <1>1 DEF PixTexts, Letter
<1>9. _tlv(26, mai) = h5 \o mai
  <2>1. _tlv(26, mai) = <<2, 6>> \o <<1, d1, d2>> \o mai
    <3>1. 26 \div 10 = 2 /\ 26 % 10 = 6
      OBVIOUS
    <3>2. TwoDigits(Len(mai)) = <<1, d1, d2>>
      BY <1>2, <1>3, Zenon
    <3> HIDE DEF mai
    <3>3. QED
      BY <3>1, <3>2, Zenon DEF _tlv
  <2>2. <<2, 6>> \o <<1, d1, d2>> = h5
    <3>1. 2 \in 0..9 /\ 6 \in 0..9 /\ 1 \in 0..9 /\ d1 \in 0..9 /\ d2 \in 0..9
      BY <1>1
    <3>2. \A x, y \in 0..9 : <<2, 6>> \o <<1, x, y>> = <<2, 6, 1, x, y>>
      BY <3>1, JoinedThree, Zenon
    <3>3. QED
      BY <3>1, <3>2, Zenon
  <2>3. QED
    BY <2>1, <2>2, Zenon
<1>10. _tlv(0, letters) = h \o letters
  <2>1. _tlv(0, letters) = <<0, 0>> \o <<1, 4>> \o letters
    <3>1. 0 \div 10 = 0 /\ 0 % 10 = 0 /\ 14 \div 10 = 1 /\ 14 % 10 = 4 /\ 14 \in Nat /\ 14 < 100
      OBVIOUS
    <3>2. TwoDigits(14) = <<1, 4>>
      BY <3>1, TwoDigitsType
    <3>3. TwoDigits(Len(letters)) = <<1, 4>>
      BY <1>4, <3>2, Zenon
    <3> HIDE DEF letters
    <3>4. QED
      BY <3>1, <3>3, Zenon DEF _tlv
  <2>2. <<0, 0>> \o <<1, 4>> = h
    <3>1. 0 \in 0..9 /\ 1 \in 0..9 /\ 4 \in 0..9
      OBVIOUS
    <3>2. QED
      BY <3>1, Joined, Zenon
  <2>3. QED
    BY <2>1, <2>2, Zenon
<1>11. account \in PixTexts
  <2>1. Text(k) \in PixTexts
    BY TextType
  <2>2. QED
    BY <2>1, SmallTags, TlvType, Zenon
<1>12. mai = (h \o letters) \o account
  BY <1>10, Zenon DEF Account
<1>13. \A x, y, z \in PixTexts : x \o y \in PixTexts /\ Associate(x, y, z)
  BY Regrouped3, Zenon
<1> DEFINE both == letters \o rest
<1>14. tail \in PixTexts /\ both \in PixTexts
  BY <1>2, <1>4, <1>5, <1>6, <1>13, Zenon
<1> HIDE DEF mai, letters, account, h, h4, h5, h9, last, q, rest
<1>15. t = h5 \o tail
  <2>1. Associate(h5, mai, q)
    BY <1>2, <1>5, <1>8, <1>13, Zenon
  <2>2. QED
    BY <1>9, <2>1, Zenon DEF Associate
<1>16. t = h4 \o w
  <2>1. Associate(h4, last, tail)
    BY <1>8, <1>13, <1>14, Zenon
  <2> HIDE DEF tail
  <2>2. h5 \o tail = h4 \o (last \o tail)
    BY <1>8, <2>1, Zenon DEF Associate
  <2>3. QED
    BY <1>15, <2>2, Zenon DEF tail, last
<1>17. tail = h \o both
  <2>1. h \o letters \in PixTexts /\ Associate(h \o letters, account, q)
    BY <1>4, <1>5, <1>8, <1>11, <1>13, Zenon
  <2>2. tail = (h \o letters) \o rest
    BY <1>12, <2>1, Zenon DEF Associate, rest, account
  <2>3. Associate(h, letters, rest)
    BY <1>4, <1>6, <1>8, <1>13, Zenon
  <2>4. QED
    BY <2>2, <2>3, Zenon DEF Associate
<1>18. t = h9 \o both
  <2>1. Associate(h5, h, both)
    BY <1>8, <1>13, <1>14, Zenon
  <2> HIDE DEF tail, both
  <2>2. QED
    BY <1>8, <1>15, <1>17, <2>1, Zenon DEF Associate
<1>19. Len(w) = 1 + Len(tail) /\ Len(tail) = l + Len(q) /\ Len(q) \in Nat
  <2>1. Len(last) = 1 /\ Len(w) = Len(last) + Len(tail)
    BY <1>8, <1>14, JoinedLength DEF last
  <2>2. Len(tail) = Len(mai) + Len(q) /\ Len(q) \in Nat
    BY <1>2, <1>5, JoinedAt
  <2>3. QED
    BY <1>2, <2>1, <2>2, Zenon
<1>20. 10 * 1 + d1 <= Len(w)
  <2> DEFINE x == Len(w)
             y == Len(tail)
             z == Len(q)
  <2>1. x = 1 + y /\ y = l + z /\ z \in Nat
    BY <1>19, Zenon
  <2> HIDE DEF x, y, z
  <2>2. 10 * 1 + d1 <= x
    BY <1>1, <2>1
  <2>3. QED
    BY <2>2 DEF x
<1>21. Headed(t, 26, 10 * 1 + d1)
  <2>1. 2 \in 0..9 /\ 6 \in 0..9 /\ 1 \in 0..9 /\ d1 \in 0..9 /\ 10 * 2 + 6 = 26
    BY <1>1
  <2>2. Headed(<<2, 6, 1, d1>> \o w, 10 * 2 + 6, 10 * 1 + d1)
    <3> HIDE DEF w
    <3>1. QED
      BY <1>7, <1>20, <2>1, HeaderIsRead, Zenon
  <2>3. QED
    BY <1>16, <2>1, <2>2, Zenon DEF h4
<1> HIDE DEF t, w, tail, both
<1> DEFINE p == 5 + (10 * 1 + d1)
           j == 6 + d1
<1>22. p = 9 + j /\ j \in 1..14 /\ p \in Nat \ {0} /\ p \in p..p + 3 /\ p <= 9 + 14
  BY <1>1
<1> HIDE DEF p, j
<1>23. /\ t \in PixTexts /\ Len(t) = 9 + Len(both)
       /\ \A i \in 1..Len(both) : t[9 + i] = both[i]
  <2>1. /\ Len(h9 \o both) = Len(h9) + Len(both) /\ h9 \o both \in PixTexts
        /\ \A i \in 1..Len(both) : (h9 \o both)[Len(h9) + i] = both[i]
    BY <1>8, <1>14, JoinedAt
  <2>2. QED
    BY <1>8, <1>18, <2>1, Zenon
<1>24. /\ Len(both) = 14 + Len(rest) /\ Len(rest) \in Nat
       /\ \A i \in 1..14 : both[i] = Letter
  <2>1. /\ Len(letters \o rest) = Len(letters) + Len(rest) /\ Len(rest) \in Nat
        /\ \A i \in 1..Len(letters) : (letters \o rest)[i] = letters[i]
    BY <1>4, <1>6, JoinedAt
  <2>2. QED
    BY <1>4, <2>1, Zenon DEF both
<1>25. p \in 1..Len(t) /\ p # Len(t) + 1 /\ j \in 1..Len(both)
  <2> DEFINE x == Len(t)
             y == Len(both)
             z == Len(rest)
  <2>1. x = 9 + y /\ y = 14 + z /\ z \in Nat
    BY <1>23, <1>24, Zenon
  <2> HIDE DEF x, y, z
  <2>2. p \in 1..x /\ p # x + 1 /\ j \in 1..y
    BY <1>22, <2>1
  <2>3. QED
    BY <2>2 DEF x, y
<1>26. ~ HasField(t, p)
  <2>1. t[p] = Letter
    BY <1>22, <1>23, <1>24, <1>25, Zenon
  <2>2. QED
    BY <1>22, <2>1 DEF HasField
<1>27. Reading(t)[p] = <<NoField>>
  <2>1. p \in 1..Len(t) + 1
    <3>1. Len(t) \in Nat
      BY <1>23 DEF PixTexts
    <3>2. QED
      BY <1>25, <3>1
  <2>2. Reading(t)[p] = NextRead(t, Reading(t), p)
    BY <1>23, <2>1, ReadingIs
  <2>3. QED
    BY <1>25, <1>26, <2>2 DEF NextRead
<1>28. NoField \in Range(Fields(t))
  <2>1. Fields(t) = <<FieldAt(t, 1)>> \o <<NoField>>
    BY <1>21, <1>27, Zenon DEF Headed, p
  <2> DEFINE f == FieldAt(t, 1)
             end == <<NoField>>
             S == {f, NoField}
  <2>2. f \in S /\ end \in Seq(S)
    OBVIOUS
  <2> HIDE DEF f, S
  <2>3. Range(<<f>> \o end) = {f} \cup Range(end)
    BY <2>2, RangeOfMore, Zenon
  <2>4. NoField \in Range(end)
    BY DEF Range
  <2>5. QED
    BY <2>1, <2>3, <2>4, Zenon DEF f
<1>29. NoField \in Range(Fields(body))
  <2> DEFINE v == <<0, 1>>
  <2>1. v \in PixTexts /\ Len(v) <= Highest
    BY ShortValues
  <2>2. body = _tlv(0, v) \o t
    BY DEF Body, t, mai, q
  <2> HIDE DEF v
  <2>3. Adds(0, v, t)
    BY <1>23, <2>1, SmallTags, TlvAdds, Zenon
  <2>4. QED
    BY <1>28, <2>2, <2>3 DEF Adds
<1>30. QED
  <2>1. NoField \in Range(Fields(SubSeq(Payload(k, n, a), 1, Len(Payload(k, n, a)) - 4)))
    BY <1>29, BodyOfPayload
  <2>2. QED
    BY <2>1 DEF Readable, Payload

-----------------------------------------------------------------------------
(* The theorems about payloads.                                             *)

\* Whatever the lengths of the names and the amount, a bank's reader finds in the
\* payload what was put in exactly when the key has no more than 77 characters.
THEOREM KeysUpTo77AreRead ==
  ASSUME NEW k \in Nat, NEW n \in Nat, NEW a \in 0..99
  PROVE  Readable(k, n, a) <=> k <= 77
<1>1. a \in 0..Highest
  BY DEF Highest
<1>2. CASE k <= 77
  BY <1>1, <1>2, ShortKeysAreRead
<1>3. CASE k > 77 /\ k <= Highest
  BY <1>1, <1>3, LongAccountsAreNotRead
<1>4. CASE k > 77 /\ k > Highest
  BY <1>1, <1>4, LongKeysAreNotRead
<1>5. k <= 77 \/ (k > 77 /\ k <= Highest) \/ (k > 77 /\ k > Highest)
  BY HighestType
<1>6. QED
  BY <1>2, <1>3, <1>4, <1>5

\* So it is for the keys, of any length a column holds, that are tried in every
\* behaviour.
THEOREM PayloadsAlwaysReadable == Spec => []PayloadsAreReadable
<1>1. InputIsGiven => PayloadsAreReadable
  <2>1. LongestKey \in Nat
    BY DEF LongestKey
  <2>2. \A k \in 0..LongestKey : k \in Nat
    BY <2>1
  <2>3. QED
    BY <2>2, InputsAssumption, KeysUpTo77AreRead DEF InputIsGiven, PayloadsAreReadable, Is
<1>2. QED
  BY <1>1, InputStaysGiven, PTL
=============================================================================
