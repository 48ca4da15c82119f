----------------------------- MODULE MathProofs -----------------------------
(***************************************************************************)
(* What the checked operations and the fee calculator return, for all      *)
(* widths and all operands; and induction over the natural numbers, in the *)
(* form in which the other proofs use it: for a set.                       *)
(***************************************************************************)
EXTENDS FeeMath, FiniteSetTheorems, TLAPS

(***************************************************************************)
(* Natural numbers.                                                        *)
(***************************************************************************)

\* A set of natural numbers has a least element: the intervals below its elements
\* are finite sets, which strict inclusion orders well.
LEMMA LeastNatural ==
    ASSUME NEW S, S \subseteq Nat, S # {}
    PROVE  \E n \in S : \A m \in S : n <= m
<1> DEFINE Below == {0 .. n : n \in S}
           R     == StrictSubsetOrdering(Nat)
<1>1. Below \subseteq FiniteSubsetsOf(Nat) /\ Below # {}
  <2>1. ASSUME NEW n \in S
        PROVE  0 .. n \subseteq Nat /\ IsFiniteSet(0 .. n)
    BY <2>1, FS_Interval
  <2> QED
    BY <2>1 DEF FiniteSubsetsOf
<1>2. IsWellFoundedOn(R, FiniteSubsetsOf(Nat))
  BY FS_StrictSubsetOrderingWellFounded
<1>3. \E x \in Below : \A y \in Below : ~ (<<y, x>> \in R)
  <2> HIDE DEF Below, R
  <2> QED
    BY <1>1, <1>2, WFMin
<1>4. PICK n \in S : \A m \in S : ~ (<<0 .. m, 0 .. n>> \in R)
  BY <1>3
<1>5. ASSUME NEW m \in S, m < n
      PROVE  FALSE
  <2>1. 0 .. m \subseteq 0 .. n /\ n \in 0 .. n /\ n \notin 0 .. m
    BY <1>5
  <2>2. <<0 .. m, 0 .. n>> \in (SUBSET Nat) \X (SUBSET Nat)
    BY <1>5
  <2>3. <<0 .. m, 0 .. n>> \in R
    BY <2>1, <2>2 DEF StrictSubsetOrdering
  <2> QED
    BY <1>4, <1>5, <2>3
<1> QED
  BY <1>5

\* Induction, for a set in the place of a predicate.
LEMMA SetInduction ==
    ASSUME NEW S, 0 \in S, \A n \in Nat : n \in S => n + 1 \in S
    PROVE  \A n \in Nat : n \in S
<1> DEFINE T == Nat \ S
<1>1. SUFFICES ASSUME T # {} PROVE FALSE
  OBVIOUS
<1>2. PICK n \in T : \A m \in T : n <= m
  BY <1>1, LeastNatural
<1>3. n \in Nat /\ n \notin S /\ n # 0 /\ n - 1 \in Nat
  BY <1>2
<1>4. n - 1 \in S
  BY <1>2, <1>3
<1> QED
  BY <1>2, <1>3, <1>4

(***************************************************************************)
(* Checked operations return a natural number or None.                     *)
(***************************************************************************)
Option == Nat \cup {None}

LEMMA CheckedSubBounds ==
    ASSUME NEW a, NEW b
    PROVE  /\ CheckedSub(a, b) \in Option
           /\ CheckedSub(a, b) # None =>
                a \in Nat /\ b \in Nat /\ b <= a /\ CheckedSub(a, b) = a - b
  BY DEF CheckedSub, Option, None

LEMMA CheckedAddBounds ==
    ASSUME NEW a, NEW b, NEW max
    PROVE  /\ CheckedAdd(a, b, max) \in Option
           /\ CheckedAdd(a, b, max) # None =>
                a \in Nat /\ b \in Nat /\ CheckedAdd(a, b, max) = a + b
  BY DEF CheckedAdd, Option, None

LEMMA NatQuotient ==
    ASSUME NEW n \in Nat, NEW c \in Nat \ {0}
    PROVE  /\ n \div c \in Nat
           /\ (n \div c) * c <= n
  OBVIOUS

LEMMA NatProduct ==
    ASSUME NEW a \in Nat, NEW b \in Nat
    PROVE  a * b \in Nat
  OBVIOUS

LEMMA CheckedMulBounds ==
    ASSUME NEW a, NEW b, NEW max
    PROVE  /\ CheckedMul(a, b, max) \in Option
           /\ CheckedMul(a, b, max) # None =>
                a \in Nat /\ b \in Nat /\ CheckedMul(a, b, max) = a * b
  BY NatProduct DEF CheckedMul, Option, None

LEMMA CheckedDivBounds ==
    ASSUME NEW a, NEW b
    PROVE  /\ CheckedDiv(a, b) \in Option
           /\ CheckedDiv(a, b) # None =>
                a \in Nat /\ b \in Nat \ {0} /\ CheckedDiv(a, b) = a \div b
  BY NatQuotient DEF CheckedDiv, Option, None

LEMMA ToU64Bounds ==
    ASSUME NEW n
    PROVE  /\ ToU64(n) \in U64 \cup {None}
           /\ ToU64(n) \in Option
           /\ ToU64(n) # None => n \in U64 /\ ToU64(n) = n
  BY WidthAssumption DEF ToU64, U64, Option, None

\* A fee is the rounded quotient, whichever branch computes it.
LEMMA MulDivBounds ==
    ASSUME NEW a, NEW b, NEW c,
           NEW q \in {mul_div_imbalanced(a, b, c), mul_div(a, b, c)}
    PROVE  /\ q \in Option
           /\ q # None =>
                a \in Nat /\ b \in Nat /\ c \in Nat \ {0} /\ q = (a * b) \div c
<1>1. q \in {WideMulDiv(a, b, c), NarrowMulDiv(a, b, c)}
  BY DEF mul_div_imbalanced, mul_div
<1>2. CASE q = WideMulDiv(a, b, c)
  <2> DEFINE p == CheckedMul(a, b, U128_MAX)
             d == CheckedDiv(p, c)
  <2>1. q = ToU64(d)
    BY <1>2 DEF WideMulDiv
  <2>2. /\ p # None => a \in Nat /\ b \in Nat /\ p = a * b
        /\ d # None => p \in Nat /\ c \in Nat \ {0} /\ d = p \div c
    BY CheckedMulBounds, CheckedDivBounds
  <2> HIDE DEF p, d
  <2>3. q \in Option /\ (q # None => q = d /\ d # None)
    BY <2>1, ToU64Bounds
  <2> QED
    BY <2>2, <2>3 DEF None
<1>3. CASE q = NarrowMulDiv(a, b, c)
  <2> DEFINE p == CheckedMul(a, b, U64_MAX)
  <2>1. q = CheckedDiv(p, c)
    BY <1>3 DEF NarrowMulDiv
  <2>2. p # None => a \in Nat /\ b \in Nat /\ p = a * b
    BY CheckedMulBounds
  <2> HIDE DEF p
  <2>3. q \in Option /\ (q # None => p \in Nat /\ c \in Nat \ {0} /\ q = p \div c)
    BY <2>1, CheckedDivBounds
  <2> QED
    BY <2>2, <2>3 DEF None
<1> QED
  BY <1>1, <1>2, <1>3

\* A fraction of an amount is at most the amount, and a proper fraction of
\* something is less.
LEMMA FractionOfAmount ==
    ASSUME NEW a \in Nat, NEW b \in Nat, NEW c \in Nat \ {0}, b <= c
    PROVE  /\ (a * b) \div c \in Nat
           /\ (a * b) \div c <= a
           /\ b < c /\ a > 0 => (a * b) \div c < a
<1> DEFINE q == (a * b) \div c
<1>1. a * b \in Nat
  BY NatProduct
<1>2. q \in Nat /\ q * c <= a * b
  BY <1>1, NatQuotient
<1>3. a * c = a * b + a * (c - b) /\ c - b \in Nat /\ a * (c - b) \in Nat
  OBVIOUS
<1>4. b < c /\ a > 0 => a * (c - b) > 0
  OBVIOUS
<1> HIDE DEF q
<1>5. q <= a
  <2>1. SUFFICES ASSUME q >= a + 1
                 PROVE  FALSE
    BY <1>2
  <2>2. q * c >= (a + 1) * c /\ (a + 1) * c = a * c + c
    BY <2>1, <1>2
  <2> QED
    BY <1>1, <1>2, <1>3, <2>2
<1>6. b < c /\ a > 0 => q # a
  BY <1>1, <1>2, <1>3, <1>4
<1> QED
  BY <1>2, <1>5, <1>6 DEF q

\* The part of an amount that a fee takes.
LEMMA FeeBounds ==
    ASSUME NEW a, NEW b, NEW c, NEW q, q = mul_div_imbalanced(a, b, c), q # None
    PROVE  /\ a \in Nat /\ q \in Nat
           /\ b <= c => q <= a
           /\ b < c /\ a > 0 => q < a
<1>1. a \in Nat /\ b \in Nat /\ c \in Nat \ {0} /\ q = (a * b) \div c /\ q \in Nat
  BY MulDivBounds DEF Option
<1> QED
  BY <1>1, FractionOfAmount

(***************************************************************************)
(* The checked operations in the other direction: when they have a result. *)
(***************************************************************************)

LEMMA QuotientFits ==
    ASSUME NEW a \in Nat, NEW b \in Nat \ {0}, NEW max \in Nat
    PROVE  a <= max \div b <=> a * b <= max
<1> DEFINE q == max \div b
<1>1. q \in Nat /\ q * b <= max /\ max < (q + 1) * b
  OBVIOUS
<1> HIDE DEF q
<1>2. ASSUME a <= q
      PROVE  a * b <= max
  <2>1. q - a \in Nat
    BY <1>1, <1>2
  <2>2. (q - a) * b \in Nat /\ (q - a) * b = q * b - a * b
    BY <1>1, <2>1
  <2> QED
    BY <1>1, <2>2
<1>3. ASSUME a > q
      PROVE  a * b > max
  <2>1. a - (q + 1) \in Nat
    BY <1>1, <1>3
  <2>2. (a - (q + 1)) * b \in Nat /\ (a - (q + 1)) * b = a * b - (q + 1) * b
    BY <1>1, <2>1
  <2> QED
    BY <1>1, <2>2
<1>4. a * b \in Nat
  BY NatProduct
<1> QED
  BY <1>1, <1>2, <1>3, <1>4 DEF q

\* CheckedMul asks exactly whether the product fits.
LEMMA CheckedMulExact ==
    ASSUME NEW a \in Nat, NEW b \in Nat, NEW max \in Nat
    PROVE  CheckedMul(a, b, max) = IF a * b <= max THEN a * b ELSE None
<1>1. CASE b = 0
  <2>1. a * b = 0 /\ a * b <= max
    BY <1>1
  <2> QED
    BY <1>1, <2>1 DEF CheckedMul
<1>2. CASE b # 0
  BY <1>2, QuotientFits DEF CheckedMul
<1> QED
  BY <1>1, <1>2

\* The product of two u64s is a u128.
LEMMA ProductFitsU128 ==
    ASSUME NEW a \in U64, NEW b \in U64
    PROVE  a \in Nat /\ b \in Nat /\ a * b \in Nat /\ a * b <= U128_MAX
<1> USE WidthAssumption
<1>1. a \in Nat /\ b \in Nat /\ U64_MAX \in Nat /\ a <= U64_MAX /\ b <= U64_MAX
  BY DEF U64
<1>2. (U64_MAX - a) * U64_MAX \in Nat /\ a * (U64_MAX - b) \in Nat
  BY <1>1
<1>3. (U64_MAX - a) * U64_MAX = U64_MAX * U64_MAX - a * U64_MAX
  BY <1>1
<1>4. a * (U64_MAX - b) = a * U64_MAX - a * b
  BY <1>1
<1>5. U128_MAX = U64_MAX * U64_MAX + 2 * U64_MAX
  BY <1>1
<1>6. a * b \in Nat /\ a * U64_MAX \in Nat /\ U64_MAX * U64_MAX \in Nat
  BY <1>1
<1> QED
  BY <1>1, <1>2, <1>3, <1>4, <1>5, <1>6

LEMMA WideIsExact ==
    ASSUME NEW a \in U64, NEW b \in U64, NEW c \in U64
    PROVE  WideMulDiv(a, b, c) = IF c = 0 THEN None ELSE ToU64((a * b) \div c)
<1>1. a \in Nat /\ b \in Nat /\ a * b \in Nat /\ a * b <= U128_MAX
  BY ProductFitsU128
<1>2. c \in Nat
  BY WidthAssumption DEF U64
<1>3. CheckedMul(a, b, U128_MAX) = a * b
  BY <1>1, CheckedMulExact, WidthAssumption
<1> DEFINE p == a * b
<1>4. WideMulDiv(a, b, c) = ToU64(CheckedDiv(p, c))
  BY <1>3 DEF WideMulDiv
<1>5. p \in Nat
  BY <1>1
<1> HIDE DEF p
<1>6. CheckedDiv(p, c) = IF c = 0 THEN None ELSE p \div c
  BY <1>2, <1>5 DEF CheckedDiv
<1>7. ToU64(None) = None
  BY WidthAssumption DEF ToU64, U64, None
<1> QED
  BY <1>4, <1>6, <1>7 DEF p

\* In u64 alone the quotient is exact as long as the product fits.
LEMMA NarrowIsExact ==
    ASSUME NEW a \in U64, NEW b \in U64, NEW c \in U64, a * b <= U64_MAX
    PROVE  NarrowMulDiv(a, b, c) = IF c = 0 THEN None ELSE ToU64((a * b) \div c)
<1>1. a \in Nat /\ b \in Nat /\ a * b \in Nat
  BY ProductFitsU128
<1>2. c \in Nat /\ U64_MAX \in Nat
  BY WidthAssumption DEF U64
<1>3. CheckedMul(a, b, U64_MAX) = a * b
  BY <1>1, <1>2, CheckedMulExact
<1> DEFINE p == a * b
<1>4. NarrowMulDiv(a, b, c) = CheckedDiv(p, c)
  BY <1>3 DEF NarrowMulDiv
<1>5. p \in Nat /\ p <= U64_MAX
  BY <1>1
<1> HIDE DEF p
<1>6. CheckedDiv(p, c) = IF c = 0 THEN None ELSE p \div c
  BY <1>2, <1>5 DEF CheckedDiv
<1>7. c # 0 => p \div c \in Nat /\ p \div c <= p
  BY <1>2, <1>5
<1>8. c # 0 => ToU64(p \div c) = p \div c
  BY <1>2, <1>5, <1>7 DEF ToU64, U64
<1> QED
  BY <1>4, <1>6, <1>8 DEF p

\* Operands up to a split fit the narrow branch, unless both are at it.
LEMMA BelowTheSplit ==
    ASSUME NEW big \in Nat, NEW small \in Nat, big * small = U64_MAX + 1,
           NEW a \in Nat, NEW b \in Nat, a <= big, b <= small,
           ~ (a = big /\ b = small)
    PROVE  a * b <= U64_MAX
<1>1. /\ (big - a) * small \in Nat /\ (big - a) * small = big * small - a * small
      /\ a * (small - b) \in Nat /\ a * (small - b) = a * small - a * b
  OBVIOUS
<1>2. a * b \in Nat /\ a * small \in Nat /\ U64_MAX \in Nat
  BY WidthAssumption
<1>3. CASE a < big
  <2>1. small > 0
    BY <1>2
  <2>2. (big - a) * small > 0
    BY <1>3, <2>1
  <2> QED
    BY <1>1, <1>2, <2>2
<1>4. CASE a = big /\ b < small
  <2>1. a > 0
    BY <1>2, <1>4
  <2>2. a * (small - b) > 0
    BY <1>4, <2>1
  <2> QED
    BY <1>1, <1>2, <1>4, <2>2
<1> QED
  BY <1>3, <1>4

\* Both helpers return the rounded quotient of the exact product, unless both
\* operands are the largest that the narrow branch takes.
LEMMA MulDivExact ==
    ASSUME NEW a \in U64, NEW b \in U64, NEW c \in U64
    PROVE  /\ ~ (a = MAX /\ b = MAX) =>
                mul_div(a, b, c) = IF c = 0 THEN None ELSE ToU64((a * b) \div c)
           /\ ~ (a = MAX_BIG /\ b = MAX_SMALL) =>
                mul_div_imbalanced(a, b, c) =
                    IF c = 0 THEN None ELSE ToU64((a * b) \div c)
<1>1. a \in Nat /\ b \in Nat
  BY ProductFitsU128
<1>2. ASSUME ~ (a = MAX /\ b = MAX), ~ (a > MAX \/ b > MAX)
      PROVE  NarrowMulDiv(a, b, c) = IF c = 0 THEN None ELSE ToU64((a * b) \div c)
  <2>1. a * b <= U64_MAX
    BY <1>1, <1>2, SplitAssumption, BelowTheSplit
  <2> QED
    BY <2>1, NarrowIsExact
<1>3. ASSUME ~ (a = MAX_BIG /\ b = MAX_SMALL), ~ (a > MAX_BIG \/ b > MAX_SMALL)
      PROVE  NarrowMulDiv(a, b, c) = IF c = 0 THEN None ELSE ToU64((a * b) \div c)
  <2>1. a * b <= U64_MAX
    BY <1>1, <1>3, SplitAssumption, BelowTheSplit
  <2> QED
    BY <2>1, NarrowIsExact
<1> QED
  BY <1>2, <1>3, WideIsExact DEF mul_div, mul_div_imbalanced

=============================================================================
