--------------------------- MODULE PureCallsProofs ---------------------------
(***************************************************************************)
(* Proofs about the money package, the pricing function and the retry      *)
(* policy, for an integer of any width: the overflow tests of Add and Mul  *)
(* decide exactly, EstimateCost reports the first thing wrong with its     *)
(* inputs, and Backoff stays within its cap and never shrinks.             *)
(***************************************************************************)
EXTENDS PureCalls, FiniteSetTheorems, WellFoundedInduction, TLAPS

(* Go's integer operators.                                                 *)

\* What wrapping does to an integer at most one width away from int64.
LEMMA WrapNear ==
    ASSUME NEW x \in Int, -3 * Half <= x, x < 3 * Half
    PROVE  Wrap(x) = IF x \in Int64 THEN x
                     ELSE IF x < 0 THEN x + 2 * Half ELSE x - 2 * Half
<1> DEFINE b == 2 * Half
           a == x + Half
<1>1. a \in Int /\ b \in Nat \ {0}
  BY HalfAssumption
<1>2. CASE x \in Int64
  <2>1. 0 <= a /\ a < b
    BY <1>2, HalfAssumption DEF Int64
  <2>2. a % b = a
    BY <2>1, <1>1
  <2> QED
    BY <2>2, <1>2, HalfAssumption DEF Wrap
<1>3. CASE x \notin Int64 /\ x < 0
  <2>1. -b <= a /\ a < 0
    BY <1>3, HalfAssumption DEF Int64
  <2>2. a % b = a + b
    BY <2>1, <1>1
  <2> QED
    BY <2>2, <1>3, HalfAssumption DEF Wrap
<1>4. CASE x \notin Int64 /\ ~(x < 0)
  <2>1. b <= a /\ a < 2 * b
    BY <1>4, HalfAssumption DEF Int64
  <2>2. a % b = a - b
    BY <2>1, <1>1
  <2> QED
    BY <2>2, <1>4, HalfAssumption DEF Wrap
<1> QED
  BY <1>2, <1>3, <1>4

\* However far an integer is from int64, wrapping brings it there.
LEMMA WrapType ==
    ASSUME NEW x \in Int
    PROVE  Wrap(x) \in Int64
<1>1. x + Half \in Int /\ 2 * Half \in Nat \ {0}
  BY HalfAssumption
<1>2. (x + Half) % (2 * Half) \in 0..(2 * Half - 1)
  BY <1>1
<1> QED
  BY <1>2, HalfAssumption DEF Wrap, Int64

LEMMA DivNat ==
    ASSUME NEW a \in Nat, NEW b \in Nat \ {0}
    PROVE  /\ a \div b \in Nat
           /\ b * (a \div b) <= a
           /\ a < b * (a \div b) + b
OBVIOUS

LEMMA DivExact ==
    ASSUME NEW a \in Nat, NEW b \in Nat \ {0}
    PROVE  (a * b) \div b = a
OBVIOUS

\* The magnitude of a product is the product of the magnitudes.
LEMMA MagnitudeMul ==
    ASSUME NEW x \in Int, NEW y \in Int
    PROVE  /\ Magnitude(x) \in Nat
           /\ Magnitude(x * y) = Magnitude(x) * Magnitude(y)
           /\ y # 0 => Magnitude(y) \in Nat \ {0}
<1>1. CASE x < 0 /\ y < 0
  <2>1. x * y = (-x) * (-y) /\ x * y > 0
    BY <1>1
  <2> QED BY <2>1, <1>1 DEF Magnitude
<1>2. CASE x < 0 /\ ~(y < 0)
  <2>1. x * y = -((-x) * y) /\ (-x) * y >= 0
    BY <1>2
  <2> QED BY <2>1, <1>2 DEF Magnitude
<1>3. CASE ~(x < 0) /\ y < 0
  <2>1. x * y = -(x * (-y)) /\ x * (-y) >= 0
    BY <1>3
  <2> QED BY <2>1, <1>3 DEF Magnitude
<1>4. CASE ~(x < 0) /\ ~(y < 0)
  <2>1. x * y >= 0
    BY <1>4
  <2> QED BY <2>1, <1>4 DEF Magnitude
<1> QED
  BY <1>1, <1>2, <1>3, <1>4
-----------------------------------------------------------------------------
(* Money.Add and Money.Mul.                                                *)

\* The overflow test of Add, which sees only the wrapped sum, is exact.
LEMMA AddIsExact ==
    ASSUME NEW m \in Amounts, NEW other \in Amounts
    PROVE  Add(m, other) =
              IF m.currency # other.currency THEN Failed("ErrCurrencyMismatch")
              ELSE Exactly(m.minor + other.minor, m.currency)
<1> DEFINE x == m.minor
           y == other.minor
           sum == Wrap(x + y)
           overflow == (y > 0 /\ sum < x) \/ (y < 0 /\ sum > x)
<1>1. x \in Int64 /\ y \in Int64
  BY DEF Amounts
<1>2. x \in Int /\ y \in Int /\ -Half <= x /\ x < Half /\ -Half <= y /\ y < Half
  BY <1>1, HalfAssumption DEF Int64
<1>3. sum = IF x + y \in Int64 THEN x + y
            ELSE IF x + y < 0 THEN x + y + 2 * Half ELSE x + y - 2 * Half
  BY <1>2, WrapNear, HalfAssumption
<1>4. overflow <=> x + y \notin Int64
  <2> HIDE DEF x, y, sum
  <2> QED BY <1>2, <1>3, HalfAssumption DEF Int64
<1>5. x + y \in Int64 => sum = x + y
  BY <1>3
<1> QED
  BY <1>4, <1>5 DEF Add, Exactly

\* The overflow test of Mul, dividing the wrapped product back, is exact but for
\* the least integer times -1, whose wrapped quotient is that integer again.
LEMMA BackDivision ==
    ASSUME NEW a \in Int64, NEW f \in Int64, a # 0, f # 0,
           ~(a = -Half /\ f = -1)
    PROVE  (Quotient(Wrap(a * f), f) = a) <=> (a * f \in Int64)
<1> DEFINE p == a * f
           w == Wrap(p)
           q == Magnitude(w) \div Magnitude(f)
           s == IF (w < 0) = (f < 0) THEN q ELSE -q
<1>1. a \in Int /\ f \in Int /\ p \in Int
  BY HalfAssumption DEF Int64
<1>2. -Half <= a /\ a < Half /\ -Half <= f /\ f < Half
  BY HalfAssumption DEF Int64
<1>3. w \in Int /\ -Half <= w /\ w < Half
  BY <1>1, WrapType, HalfAssumption DEF Int64
<1>4. Magnitude(f) \in Nat \ {0} /\ Magnitude(a) \in Nat \ {0} /\ Magnitude(w) \in Nat
  BY <1>1, <1>3 DEF Magnitude
<1>5. Magnitude(p) = Magnitude(a) * Magnitude(f)
  BY <1>1, MagnitudeMul
<1>6. Quotient(w, f) = Wrap(s)
  BY DEF Quotient
<1>7. p # 0 /\ (p < 0 <=> ((a < 0) # (f < 0)))
  BY <1>1
<1>8. CASE p \in Int64
  <2>1. w = p
    BY <1>8, <1>1, WrapNear, HalfAssumption DEF Int64
  <2>2. q = Magnitude(a)
    BY <2>1, <1>4, <1>5, DivExact
  <2>3. s = a
    BY <2>1, <2>2, <1>1, <1>7 DEF Magnitude
  <2>4. Wrap(a) = a
    BY <1>1, <1>2, WrapNear, HalfAssumption
  <2> QED
    BY <2>3, <2>4, <1>6, <1>8
<1>9. CASE p \notin Int64
  <2> SUFFICES ASSUME Quotient(w, f) = a PROVE FALSE
    BY <1>9
  <2>1. q \in Nat /\ Magnitude(f) * q <= Magnitude(w)
    BY <1>4, DivNat
  <2>2. q <= Magnitude(w)
    <3>1. Magnitude(f) >= 1 => q <= Magnitude(f) * q
      BY <2>1, <1>4
    <3> QED BY <3>1, <2>1, <1>4
  <2>3. Magnitude(w) <= Half
    BY <1>3, HalfAssumption DEF Magnitude
  <2>4. s \in Int /\ -Half <= s /\ s <= Half
    BY <2>1, <2>2, <2>3, <1>4, HalfAssumption
  <2>5. s = a
    <3>1. CASE s \in Int64
      BY <3>1, <2>4, <1>6, WrapNear, HalfAssumption
    <3>2. CASE s \notin Int64
      <4>1. s = Half
        BY <3>2, <2>4, HalfAssumption DEF Int64
      <4>2. Wrap(s) = -Half
        BY <4>1, <3>2, <2>4, WrapNear, HalfAssumption
      <4>3. a = -Half
        BY <4>2, <1>6
      <4>4. q = Half /\ ((w < 0) = (f < 0))
        BY <4>1, <2>1, HalfAssumption
      <4>5. Magnitude(w) = Half
        BY <4>4, <2>2, <2>3, <1>4, HalfAssumption
      <4>6. w < 0
        BY <4>5, <1>3, HalfAssumption DEF Magnitude
      <4>7. f < 0
        BY <4>4, <4>6
      <4>8. Magnitude(f) * Half <= Half
        BY <2>1, <4>4, <4>5
      <4>9. Magnitude(f) = 1
        BY <4>8, <1>4, HalfAssumption
      <4>10. f = -1
        BY <4>9, <4>7, <1>1 DEF Magnitude
      <4> QED BY <4>3, <4>10
    <3> QED BY <3>1, <3>2
  <2>6. q = Magnitude(a)
    BY <2>5, <2>1, <1>1 DEF Magnitude
  <2>7. Magnitude(p) <= Half
    BY <2>6, <2>1, <2>3, <1>4, <1>5, HalfAssumption
  <2>8. p = Half
    BY <2>7, <1>1, <1>9, HalfAssumption DEF Magnitude, Int64
  <2>9. w = -Half
    BY <2>8, <1>1, <1>9, WrapNear, HalfAssumption
  <2>10. w < 0
    BY <2>9, HalfAssumption
  <2>11. (a < 0) <=> (f < 0)
    BY <2>8, <1>7, HalfAssumption
  <2>12. CASE f < 0
    BY <2>12, <2>10, <2>11, <2>5, <2>1, <1>1
  <2>13. CASE ~(f < 0)
    BY <2>13, <2>10, <2>11, <2>5, <2>1, <1>1
  <2> QED BY <2>12, <2>13
<1> QED
  BY <1>8, <1>9

LEMMA MulIsExact ==
    ASSUME NEW m \in Amounts, NEW f \in Int64, ~(m.minor = -Half /\ f = -1)
    PROVE  Mul(m, f) = Exactly(m.minor * f, m.currency)
<1> DEFINE a == m.minor
<1>1. a \in Int64
  BY DEF Amounts
<1>2. a \in Int /\ f \in Int
  BY <1>1, HalfAssumption DEF Int64
<1>3. CASE a = 0 \/ f = 0
  <2>1. a * f = 0
    BY <1>2, <1>3
  <2>2. 0 \in Int64
    BY HalfAssumption DEF Int64
  <2> QED
    BY <2>1, <2>2, <1>3 DEF Mul, Exactly
<1>4. CASE ~(a = 0 \/ f = 0)
  <2>1. (Quotient(Wrap(a * f), f) = a) <=> (a * f \in Int64)
    BY <1>1, <1>4, BackDivision
  <2>2. a * f \in Int
    BY <1>2
  <2>3. a * f \in Int64 => Wrap(a * f) = a * f
    BY <2>2, WrapNear, HalfAssumption DEF Int64
  <2> QED
    BY <2>1, <2>3, <1>4 DEF Mul, Exactly
<1> QED
  BY <1>3, <1>4
-----------------------------------------------------------------------------
(* EstimateCost and Backoff.                                               *)

LEMMA UsdAmount ==
    ASSUME NEW x \in Int64
    PROVE  FromUSD(x) \in Amounts
BY PricingAssumption DEF FromUSD, Amounts

\* A distance has the narrower width, and is no overflowing factor.
LEMMA DistanceFits ==
    Int32 \subseteq Int64
BY HalfAssumption, PricingAssumption DEF Int32, Int64

LEMMA EstimateIsExact ==
    ASSUME NEW d \in Int32, NEW f \in Int64, NEW r \in Int64
    PROVE  EstimateCost(d, FromUSD(f), FromUSD(r)) =
              IF d < 0 THEN Failed("ErrNegativeDistance")
              ELSE IF r <= 0 THEN Failed("ErrNonPositiveRate")
              ELSE IF r * d \notin Int64 THEN Failed("ErrOverflow")
              ELSE Exactly(r * d + f, USD)
<1> DEFINE base == Mul(FromUSD(r), d)
<1>1. FromUSD(r).minor = r /\ FromUSD(r).currency = USD
  BY DEF FromUSD
<1>2. FromUSD(r) \in Amounts /\ FromUSD(f) \in Amounts /\ d \in Int64
  BY UsdAmount, DistanceFits
<1>3. CASE d < 0
  BY <1>3 DEF EstimateCost
<1>4. CASE ~(d < 0) /\ r <= 0
  BY <1>1, <1>4 DEF EstimateCost
<1>5. CASE ~(d < 0) /\ ~(r <= 0)
  <2>1. d # -1
    BY <1>5
  <2>2. base = Exactly(r * d, USD)
    BY <1>1, <1>2, <2>1, MulIsExact
  <2>3. EstimateCost(d, FromUSD(f), FromUSD(r)) =
           IF base.err # "nil" THEN base ELSE Add(base.money, FromUSD(f))
    BY <1>1, <1>5 DEF EstimateCost
  <2>4. CASE r * d \notin Int64
    <3>1. base = Failed("ErrOverflow")
      BY <2>2, <2>4 DEF Exactly
    <3>2. base.err # "nil"
      BY <3>1 DEF Failed
    <3> QED
      BY <3>1, <3>2, <2>3, <2>4, <1>5
  <2>5. CASE r * d \in Int64
    <3>1. base = Ok(FromUSD(r * d))
      BY <2>2, <2>5 DEF Exactly, FromUSD
    <3>2. base.err = "nil" /\ base.money = FromUSD(r * d)
      BY <3>1 DEF Ok
    <3>3. FromUSD(r * d) \in Amounts
      BY <2>5, UsdAmount
    <3>4. Add(FromUSD(r * d), FromUSD(f)) = Exactly(r * d + f, USD)
      BY <3>3, <1>2, AddIsExact DEF FromUSD
    <3> QED
      BY <3>2, <3>4, <2>3, <2>5, <1>5
  <2> QED
    BY <2>4, <2>5
<1> QED
  BY <1>3, <1>4, <1>5

\* Doubling never shrinks: a set of n elements has 2^n subsets, and every subset
\* of 1..n is one of 1..(n + 1).
LEMMA PowersGrow ==
    ASSUME NEW n \in Nat
    PROVE  2 ^ n \in Nat \ {0} /\ 2 ^ (n + 1) \in Nat \ {0} /\ 2 ^ n <= 2 ^ (n + 1)
<1>1. \A k \in Nat : IsFiniteSet(1..k) /\ Cardinality(1..k) = k
  BY FS_Interval
<1>2. \A k \in Nat : IsFiniteSet(SUBSET (1..k)) /\ Cardinality(SUBSET (1..k)) = 2 ^ k
  BY <1>1, FS_SUBSET
<1>3. \A k \in Nat : 2 ^ k \in Nat \ {0}
  <2> TAKE k \in Nat
  <2>1. IsFiniteSet(SUBSET (1..k)) /\ SUBSET (1..k) # {}
    BY <1>2
  <2>2. Cardinality(SUBSET (1..k)) \in Nat /\ Cardinality(SUBSET (1..k)) # 0
    BY <2>1, FS_CardinalityType, FS_EmptySet
  <2> QED BY <2>2, <1>2
<1>4. SUBSET (1..n) \subseteq SUBSET (1..(n + 1))
  OBVIOUS
<1>5. n + 1 \in Nat
  OBVIOUS
<1>6. Cardinality(SUBSET (1..n)) <= Cardinality(SUBSET (1..(n + 1)))
  BY <1>2, <1>4, <1>5, FS_Subset
<1> QED
  BY <1>2, <1>3, <1>5, <1>6

\* A set of natural numbers that is not empty has a least element.
LEMMA LeastOfNaturals ==
    ASSUME NEW S \in SUBSET Nat, S # {}
    PROVE  Min(S) \in S /\ \A y \in S : Min(S) <= y
<1> DEFINE R == OpToRel(<, Nat)
<1>1. \E x \in S : \A y \in S : ~(<<y, x>> \in R)
  BY NatLessThanWellFounded, WFMin
<1>2. PICK x \in S : \A y \in S : ~(y < x)
  BY <1>1 DEF OpToRel
<1>3. \A y \in S : x <= y
  BY <1>2
<1> QED
  BY <1>3 DEF Min

\* The coarsest spacing that an integer of the modelled width meets.
LEMMA CoarsestSpacing ==
    \E k \in 0..Half : 2 ^ k \in Nat \ {0} /\ Half = Exact * 2 ^ k
                       /\ Slack = 2 ^ k \div 2
<1>1. PICK k \in 0..Half : Half = Exact * 2 ^ k
  BY ExactAssumption
<1> DEFINE R == 2 ^ k
<1>2. R \in Nat /\ Half = Exact * R
  BY <1>1, PowersGrow, HalfAssumption
<1> HIDE DEF R
<1>3. R # 0
  BY <1>2, HalfAssumption, ExactAssumption
<1>4. Half \div Exact = R
  <2> DEFINE q == Half \div Exact
  <2>1. q \in Nat /\ Exact * q <= Half /\ Half < Exact * q + Exact
    BY DivNat, HalfAssumption, ExactAssumption
  <2> HIDE DEF q
  <2>2. q <= R
    BY <2>1, <1>2, ExactAssumption
  <2>3. R < q + 1
    BY <2>1, <1>2, ExactAssumption
  <2>4. q = R
    BY <2>1, <2>2, <2>3, <1>2
  <2> QED BY <2>4 DEF q
<1> QED
  BY <1>1, <1>2, <1>3, <1>4 DEF Slack, R

\* The spacing is positive, no more than the coarsest, and 1 up to Exact.
LEMMA SpacingBounded ==
    ASSUME NEW x \in 0..Half
    PROVE  /\ Spacing(x) \in Nat \ {0}
           /\ Spacing(x) \div 2 <= Slack
           /\ x <= Exact => Spacing(x) = 1
<1> DEFINE S == {u \in {2 ^ k : k \in 0..Half} : x <= Exact * u}
<1>1. PICK k \in 0..Half : 2 ^ k \in Nat \ {0} /\ Half = Exact * 2 ^ k
                           /\ Slack = 2 ^ k \div 2
  BY CoarsestSpacing
<1>2. 2 ^ k \in S
  BY <1>1, HalfAssumption
<1>3. \A n \in 0..Half : 2 ^ n \in Nat \ {0}
  BY PowersGrow, HalfAssumption
<1>4. S \in SUBSET (Nat \ {0}) /\ S # {}
  BY <1>2, <1>3
<1>5. Spacing(x) = Min(S)
  BY DEF Spacing
<1>6. 2 ^ 0 = 1 /\ 0 \in 0..Half
  <2>1. 1..0 = {} /\ SUBSET {} = {{}}
    OBVIOUS
  <2>2. Cardinality(SUBSET {}) = 2 ^ 0
    BY FS_EmptySet, FS_SUBSET
  <2>3. Cardinality({{}}) = 1
    BY FS_Singleton
  <2> QED BY <2>1, <2>2, <2>3, HalfAssumption
<1>7. x <= Exact => 1 \in S
  <2>1. 1 \in {2 ^ n : n \in 0..Half}
    BY <1>6
  <2>2. Exact * 1 = Exact
    BY ExactAssumption
  <2> QED BY <2>1, <2>2
<1> HIDE DEF S
<1>8. Spacing(x) \in S /\ \A y \in S : Spacing(x) <= y
  BY <1>4, <1>5, LeastOfNaturals
<1>9. Spacing(x) \in Nat \ {0} /\ Spacing(x) <= 2 ^ k /\ (x <= Exact => Spacing(x) <= 1)
  BY <1>2, <1>4, <1>7, <1>8
<1> DEFINE c == 2 ^ k
<1>10. c \in Nat /\ Slack = c \div 2 /\ Spacing(x) <= c
  BY <1>1, <1>9
<1> HIDE DEF c
<1> QED
  BY <1>9, <1>10

\* What float64(x) makes of a natural number: itself up to Exact, and at most half
\* the coarsest spacing more beyond.
LEMMA RoundedNear ==
    ASSUME NEW x \in 0..Half
    PROVE  /\ Rounded(x) \in Nat
           /\ Rounded(x) <= x + Slack
           /\ x <= Exact => Rounded(x) = x
<1> DEFINE u == Spacing(x)
           q == x \div u
           r == x % u
<1>1. u \in Nat \ {0} /\ u \div 2 <= Slack /\ (x <= Exact => u = 1)
  BY SpacingBounded
<1>2. x \in Nat /\ Slack \in Nat
  <2>1. Half \div Exact \in Nat
    BY DivNat, HalfAssumption, ExactAssumption
  <2> QED BY <2>1, HalfAssumption DEF Slack
<1>3. Rounded(x) =
         IF 2 * r < u \/ (2 * r = u /\ q % 2 = 0) THEN q * u ELSE (q + 1) * u
  BY DEF Rounded
<1> HIDE DEF u
<1>4. q \in Nat /\ r \in 0..(u - 1) /\ x = q * u + r
  BY <1>1, <1>2
<1> HIDE DEF q, r
<1>5. q * u \in Nat /\ (q + 1) * u = q * u + u
  BY <1>1, <1>4
<1> DEFINE m == q * u
<1>6. /\ Rounded(x) = m \/ (Rounded(x) = m + u /\ 2 * r >= u)
      /\ m \in Nat /\ x = m + r
  BY <1>1, <1>3, <1>4, <1>5
<1> HIDE DEF m
<1>7. u = 1 => r = 0
  BY <1>1, <1>4
<1> QED
  BY <1>1, <1>2, <1>4, <1>6, <1>7

\* The same of an integer of either sign.
LEMMA FloatNear ==
    ASSUME NEW x \in Int64
    PROVE  /\ Float(x) \in Int
           /\ x >= 0 => Float(x) >= 0 /\ Float(x) <= x + Slack
           /\ x < 0 => Float(x) <= 0
           /\ x >= 0 /\ x <= Exact => Float(x) = x
<1>1. CASE x < 0
  <2>1. -x \in 0..Half
    BY <1>1, HalfAssumption DEF Int64
  <2>2. Rounded(-x) \in Nat /\ Float(x) = -Rounded(-x)
    BY <1>1, <2>1, RoundedNear DEF Float
  <2> QED BY <1>1, <2>2 DEF Int64
<1>2. CASE ~(x < 0)
  <2>1. x \in 0..Half
    BY <1>2, HalfAssumption DEF Int64
  <2> QED BY <1>2, <2>1, RoundedNear DEF Float, Int64
<1> QED
  BY <1>1, <1>2

\* The ceiling of the floats, which the cap bounds and another attempt never lowers.
LEMMA CeilingGrows ==
    ASSUME NEW base \in Int64, NEW cap \in Int64, NEW attempt \in Nat
    PROVE  /\ Ceiling(base, cap, attempt) \in Int
           /\ Ceiling(base, cap, attempt + 1) \in Int
           /\ Ceiling(base, cap, attempt) <= Float(cap)
           /\ Ceiling(base, cap, attempt + 1) <= Float(cap)
           /\ base >= 0 => Ceiling(base, cap, attempt) <= Ceiling(base, cap, attempt + 1)
<1> DEFINE b == Float(base)
           c == Float(cap)
<1>0. b \in Int /\ c \in Int /\ (base >= 0 => b >= 0)
  BY FloatNear
<1>1. CASE attempt = 0
  <2>1. 2 ^ 0 \in Nat
    BY PowersGrow
  <2>2. Ceiling(base, cap, attempt) = IF b * 2 ^ 0 < c THEN b * 2 ^ 0 ELSE c
    BY <1>1 DEF Ceiling
  <2>3. Ceiling(base, cap, attempt + 1) = Ceiling(base, cap, attempt)
    BY <1>1 DEF Ceiling
  <2> HIDE DEF b, c
  <2>4. b * 2 ^ 0 \in Int
    BY <2>1, <1>0
  <2>5. /\ Ceiling(base, cap, attempt) \in Int
        /\ Ceiling(base, cap, attempt) <= c
    BY <1>0, <2>2, <2>4
  <2> QED
    BY <2>3, <2>5 DEF c
<1>2. CASE attempt # 0
  <2>1. PICK n \in Nat : attempt = n + 1
    <3>1. attempt - 1 \in Nat /\ attempt = (attempt - 1) + 1
      BY <1>2
    <3> QED BY <3>1
  <2> DEFINE e == 2 ^ n
             g == 2 ^ (n + 1)
             x == b * e
             y == b * g
  <2>2. e \in Nat /\ g \in Nat /\ e <= g
    BY PowersGrow
  <2>3. ~(attempt < 1) /\ attempt - 1 = n /\ ~(attempt + 1 < 1) /\ attempt + 1 - 1 = n + 1
    BY <2>1
  <2>4. Ceiling(base, cap, attempt) = IF x < c THEN x ELSE c
    BY <2>3 DEF Ceiling
  <2>5. Ceiling(base, cap, attempt + 1) = IF y < c THEN y ELSE c
    BY <2>3 DEF Ceiling
  <2>6. x \in Int /\ y \in Int /\ (base >= 0 => x <= y)
    <3> HIDE DEF e, g, b
    <3> QED BY <2>2, <1>0
  <2> HIDE DEF x, y, b
  <2>7. /\ Ceiling(base, cap, attempt) \in Int
        /\ Ceiling(base, cap, attempt + 1) \in Int
        /\ Ceiling(base, cap, attempt) <= c
        /\ Ceiling(base, cap, attempt + 1) <= c
        /\ base >= 0 => Ceiling(base, cap, attempt) <= Ceiling(base, cap, attempt + 1)
    <3> HIDE DEF c
    <3> QED BY <2>4, <2>5, <2>6, <1>0
  <2> QED
    BY <2>7
<1> QED
  BY <1>1, <1>2

LEMMA BackoffBounded ==
    ASSUME NEW base \in Int64, NEW cap \in Int64, NEW attempt \in Nat, cap < Half - Slack,
           NEW r \in Backoff(base, cap, attempt)
    PROVE  /\ r # Failed("panic")
           /\ r.wait \in 0..(IF cap < 0 THEN 0 ELSE IF cap <= Exact THEN cap ELSE cap + Slack)
           /\ base >= 0 => r \in Backoff(base, cap, attempt + 1)
<1> DEFINE now == Ceiling(base, cap, attempt)
           next == Ceiling(base, cap, attempt + 1)
           c == Float(cap)
<1>1. /\ now \in Int /\ next \in Int
      /\ now <= c /\ next <= c
      /\ base >= 0 => now <= next
  BY CeilingGrows
<1>0. /\ c \in Int /\ cap \in Int /\ Slack \in Nat
      /\ cap < 0 => c <= 0
      /\ cap >= 0 => c <= cap + Slack
      /\ cap >= 0 /\ cap <= Exact => c = cap
  <2>1. Half \div Exact \in Nat
    BY DivNat, HalfAssumption, ExactAssumption
  <2>2. Slack \in Nat
    BY <2>1 DEF Slack
  <2> QED BY <2>2, FloatNear DEF Int64
<1>2. now # Half /\ next # Half
  <2> HIDE DEF now, next, c
  <2> QED BY <1>0, <1>1, HalfAssumption
<1>3. Backoff(base, cap, attempt) =
         IF now <= 0 THEN {[wait |-> 0]} ELSE {[wait |-> d] : d \in 0..now}
  BY <1>2 DEF Backoff
<1>4. Backoff(base, cap, attempt + 1) =
         IF next <= 0 THEN {[wait |-> 0]} ELSE {[wait |-> d] : d \in 0..next}
  BY <1>2 DEF Backoff
<1> HIDE DEF now, next, c
<1>5. PICK d \in Nat : r = [wait |-> d] /\ d <= (IF now <= 0 THEN 0 ELSE now)
  <2>1. CASE now <= 0
    BY <2>1, <1>3
  <2>2. CASE ~(now <= 0)
    BY <2>2, <1>1, <1>3
  <2> QED BY <2>1, <2>2
<1>6. r.wait = d
  BY <1>5
<1>7. r # Failed("panic")
  BY <1>5 DEF Failed
<1>8. d \in 0..(IF cap < 0 THEN 0 ELSE IF cap <= Exact THEN cap ELSE cap + Slack)
  BY <1>0, <1>1, <1>5
<1>9. ASSUME base >= 0 PROVE r \in Backoff(base, cap, attempt + 1)
  <2>1. CASE next <= 0
    <3>1. d = 0
      BY <2>1, <1>1, <1>5, <1>9
    <3> QED BY <3>1, <2>1, <1>4, <1>5
  <2>2. CASE ~(next <= 0)
    <3>1. d \in 0..next
      BY <2>2, <1>1, <1>5, <1>9
    <3> QED BY <3>1, <2>2, <1>4, <1>5
  <2> QED BY <2>1, <2>2
<1> QED
  BY <1>6, <1>7, <1>8, <1>9
-----------------------------------------------------------------------------
(* The calls.                                                              *)

AddCall(c) == \E m, other \in Amounts : c = [op |-> "add", m |-> m, other |-> other]
MulCall(c) ==
    \E m \in Amounts, f \in Int64 : c = [op |-> "mul", m |-> m, factor |-> f]
EstimateCall(c) ==
    \E d \in Int32, f, r \in Int64 :
        c = [op |-> "estimate", distanceNm |-> d, fees |-> f, rate |-> r]
BackoffCall(c) ==
    \E b, p \in -1..Half - 1, a \in 0..MaxAttempt :
        c = [op |-> "backoff", base |-> b, cap |-> p, attempt |-> a]

\* A call is one of the five forms, and a result is an answer to it.
CallInv ==
    /\ \/ call = Idle
       \/ AddCall(call) \/ MulCall(call) \/ EstimateCall(call) \/ BackoffCall(call)
    /\ result # NoResult => call # Idle /\ result \in Answers

LEMMA CallInvInductive ==
    Spec => []CallInv
<1>1. Init => CallInv
  BY DEF Init, CallInv
<1>2. CallInv /\ [Next]_<<call, result>> => CallInv'
  <2> SUFFICES ASSUME CallInv, [Next]_<<call, result>> PROVE CallInv'
    OBVIOUS
  <2>1. CASE CallAdd
    BY <2>1 DEF CallAdd, CallInv, AddCall
  <2>2. CASE CallMul
    BY <2>2 DEF CallMul, CallInv, MulCall
  <2>3. CASE CallEstimate
    BY <2>3 DEF CallEstimate, CallInv, EstimateCall
  <2>4. CASE CallBackoff
    BY <2>4 DEF CallBackoff, CallInv, BackoffCall
  <2>5. CASE Return
    <3>1. call' = call /\ Answers' = Answers /\ result' \in Answers
      BY <2>5 DEF Return, Answers
    <3> QED BY <2>5, <3>1 DEF Return, CallInv
  <2>6. CASE Done
    BY <2>6 DEF Done, CallInv
  <2>7. CASE UNCHANGED <<call, result>>
    <3>1. call' = call /\ result' = result /\ Answers' = Answers
      BY <2>7 DEF Answers
    <3> QED BY <3>1 DEF CallInv
  <2> QED
    BY <2>1, <2>2, <2>3, <2>4, <2>5, <2>6, <2>7 DEF Next
<1> QED
  BY <1>1, <1>2, PTL DEF Spec

\* The kinds of call are told apart by "op".
LEMMA CallOfKind ==
    ASSUME CallInv
    PROVE  /\ call.op = "add" => AddCall(call)
           /\ call.op = "mul" => MulCall(call)
           /\ call.op = "estimate" => EstimateCall(call)
           /\ call.op = "backoff" => BackoffCall(call)
<1>1. call = Idle => call.op = "none"
  BY DEF Idle
<1>2. AddCall(call) => call.op = "add"
  BY DEF AddCall
<1>3. MulCall(call) => call.op = "mul"
  BY DEF MulCall
<1>4. EstimateCall(call) => call.op = "estimate"
  BY DEF EstimateCall
<1>5. BackoffCall(call) => call.op = "backoff"
  BY DEF BackoffCall
<1> QED
  BY <1>1, <1>2, <1>3, <1>4, <1>5 DEF CallInv

\* Money.Add and Money.Mul are exact or say that they are not, for an integer of
\* any width, every amount and every factor but the least integer times -1.
THEOREM MoneyIsExact ==
    Spec => []MoneyExact
<1>1. CallInv => AddExact
  <2> SUFFICES ASSUME CallInv, Returned("add")
               PROVE  result = IF call.m.currency # call.other.currency
                               THEN Failed("ErrCurrencyMismatch")
                               ELSE Exactly(call.m.minor + call.other.minor,
                                            call.m.currency)
    BY DEF AddExact
  <2>1. AddCall(call)
    BY CallOfKind DEF Returned
  <2>2. call.m \in Amounts /\ call.other \in Amounts
    BY <2>1 DEF AddCall
  <2>3. result = Add(call.m, call.other)
    BY DEF Returned, CallInv, Answers
  <2> QED
    BY <2>2, <2>3, AddIsExact
<1>2. CallInv => MulExactButOne
  <2> SUFFICES ASSUME CallInv, Returned("mul"),
                      ~(call.m.minor = -Half /\ call.factor = -1)
               PROVE  result = Exactly(call.m.minor * call.factor, call.m.currency)
    BY DEF MulExactButOne
  <2>1. MulCall(call)
    BY CallOfKind DEF Returned
  <2>2. call.m \in Amounts /\ call.factor \in Int64
    BY <2>1 DEF MulCall
  <2>3. result = Mul(call.m, call.factor)
    BY DEF Returned, CallInv, Answers
  <2> QED
    BY <2>2, <2>3, MulIsExact
<1> QED
  BY <1>1, <1>2, CallInvInductive, PTL DEF MoneyExact

\* EstimateCost prices exactly or returns the sentinel of the first thing wrong
\* with its inputs, an overflow of the base before the fees are added included.
THEOREM PricesAreExact ==
    Spec => []EstimateExact
<1>1. CallInv => EstimateExact
  <2> SUFFICES ASSUME CallInv, Returned("estimate")
               PROVE  result =
                        IF call.distanceNm < 0 THEN Failed("ErrNegativeDistance")
                        ELSE IF call.rate <= 0 THEN Failed("ErrNonPositiveRate")
                        ELSE IF call.rate * call.distanceNm \notin Int64
                             THEN Failed("ErrOverflow")
                        ELSE Exactly(call.rate * call.distanceNm + call.fees, USD)
    BY DEF EstimateExact
  <2>1. EstimateCall(call)
    BY CallOfKind DEF Returned
  <2>2. call.distanceNm \in Int32 /\ call.fees \in Int64 /\ call.rate \in Int64
    BY <2>1 DEF EstimateCall
  <2>3. result = EstimateCost(call.distanceNm, FromUSD(call.fees), FromUSD(call.rate))
    BY DEF Returned, CallInv, Answers
  <2> QED
    BY <2>2, <2>3, EstimateIsExact
<1> QED
  BY <1>1, CallInvInductive, PTL

\* Backoff exceeds its cap by no more than the rounding of the cap, panics only with
\* a cap that is rounded up to Half, and never loses a wait it could draw one attempt
\* earlier: for every width, every precision and every attempt.
THEOREM BackoffNeverShrinks ==
    Spec => []BackoffGrows
<1>1. CallInv => BackoffGrows
  <2> SUFFICES ASSUME CallInv, Returned("backoff"), call.cap < Half - Slack
               PROVE  /\ result # Failed("panic")
                      /\ result.wait \in 0..(IF call.cap < 0 THEN 0
                                             ELSE IF call.cap <= Exact THEN call.cap
                                             ELSE call.cap + Slack)
                      /\ call.base >= 0 =>
                            result \in Backoff(call.base, call.cap, call.attempt + 1)
    BY DEF BackoffGrows
  <2>1. BackoffCall(call)
    BY CallOfKind DEF Returned
  <2>2. call.base \in Int64 /\ call.cap \in Int64 /\ call.attempt \in Nat
    BY <2>1, HalfAssumption, PricingAssumption DEF BackoffCall, Int64
  <2>3. result \in Backoff(call.base, call.cap, call.attempt)
    BY DEF Returned, CallInv, Answers
  <2> QED
    BY <2>2, <2>3, BackoffBounded
<1> QED
  BY <1>1, CallInvInductive, PTL
=============================================================================
