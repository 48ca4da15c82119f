---------------------------- MODULE CurveProofs ----------------------------
(***************************************************************************)
(* What the curve's Newton loops and conversions compute, for all widths,  *)
(* amplification coefficients and reserves.                                *)
(*                                                                         *)
(* Both loops only ever return a value that their step function returned,  *)
(* so that a bound on every single step is a bound on the result, however  *)
(* many iterations it took: Newton's method on a convex function never     *)
(* steps below the root.                                                   *)
(***************************************************************************)
EXTENDS MCCurve, MathProofs

(***************************************************************************)
(* Natural numbers.                                                        *)
(***************************************************************************)

\* A bounded set of natural numbers has a greatest element.
LEMMA GreatestNatural ==
    ASSUME NEW S, S \subseteq Nat, S # {}, NEW bound \in Nat, \A n \in S : n <= bound
    PROVE  \E n \in S : \A m \in S : n >= m
<1> DEFINE T == {bound - n : n \in S}
<1>1. T \subseteq Nat /\ T # {}
  <2>1. \A n \in S : n \in Nat /\ bound - n \in Nat
    OBVIOUS
  <2> QED
    BY <2>1
<1>2. PICK t \in T : \A u \in T : t <= u
  BY <1>1, LeastNatural
<1>3. PICK n \in S : t = bound - n
  BY <1>2
<1>4. \A m \in S : t <= bound - m /\ m \in Nat
  BY <1>2
<1>5. \A m \in S : n >= m
  <2>1. n \in Nat /\ t = bound - n
    BY <1>3
  <2> QED
    BY <1>4, <2>1
<1> QED
  BY <1>5

(***************************************************************************)
(* The Newton loop.                                                        *)
(***************************************************************************)

\* The recursive function of Newton exists, and unfolds as it is written.
LEMMA NewtonUnfolds ==
    ASSUME NEW step, NEW start
    PROVE  \E iterate :
              /\ Newton(step, start) = iterate[NEWTON_STEPS][start]
              /\ \A n \in 0 .. NEWTON_STEPS, x \in Nat :
                    iterate[n][x] =
                        IF n = 0 THEN x
                        ELSE IF step[x] = None \/ Converged(step[x], x) THEN step[x]
                        ELSE iterate[n - 1][step[x]]
<1> DEFINE Body(f, n) ==
               [x \in Nat |-> IF n = 0 THEN x
                              ELSE IF step[x] = None \/ Converged(step[x], x) THEN step[x]
                              ELSE f[n - 1][step[x]]]
           Solves(f, k) == f = [n \in 0 .. k |-> Body(f, n)]
           iterate == CHOOSE f : Solves(f, NEWTON_STEPS)
<1>1. Newton(step, start) = iterate[NEWTON_STEPS][start]
  BY DEF Newton
<1>2. \A k \in Nat : k \in {n \in Nat : \E f : Solves(f, n)}
  <2> DEFINE S == {n \in Nat : \E f : Solves(f, n)}
  <2>1. 0 \in S
    <3> DEFINE f == [n \in 0 .. 0 |-> Body(<< >>, n)]
    <3>1. Body(f, 0) = Body(<< >>, 0)
      OBVIOUS
    <3>2. Solves(f, 0)
      BY <3>1
    <3> QED
      BY <3>2
  <2>2. ASSUME NEW k \in Nat, k \in S
        PROVE  k + 1 \in S
    <3>1. PICK f : Solves(f, k)
      BY <2>2
    <3> DEFINE g == [n \in 0 .. k + 1 |-> Body(f, n)]
    <3>2. \A n \in 0 .. k : g[n] = f[n]
      <4>1. \A n \in 0 .. k : f[n] = Body(f, n)
        <5> HIDE DEF Body
        <5> QED
          BY <3>1
      <4> HIDE DEF Body
      <4> QED
        BY <4>1
    <3>3. \A n \in 0 .. k + 1 : Body(g, n) = Body(f, n)
      <4> SUFFICES ASSUME NEW n \in 0 .. k + 1
                   PROVE  Body(g, n) = Body(f, n)
        OBVIOUS
      <4>1. CASE n = 0
        BY <4>1
      <4>2. CASE n # 0
        <5>1. n - 1 \in 0 .. k
          BY <4>2
        <5>2. g[n - 1] = f[n - 1]
          BY <5>1, <3>2
        <5> HIDE DEF g
        <5> QED
          BY <5>2
      <4> QED
        BY <4>1, <4>2
    <3>4. Solves(g, k + 1)
      <4> HIDE DEF Body
      <4> QED
        BY <3>3
    <3> HIDE DEF g, Solves
    <3> QED
      BY <3>4
  <2> HIDE DEF S
  <2>3. \A k \in Nat : k \in S
    BY <2>1, <2>2, SetInduction
  <2> QED
    BY <2>3 DEF S
<1>3. \E f : Solves(f, NEWTON_STEPS)
  <2> HIDE DEF Solves
  <2> QED
    BY <1>2, NewtonAssumption
<1>4. Solves(iterate, NEWTON_STEPS)
  <2> HIDE DEF Solves
  <2> QED
    BY <1>3
<1>5. \A n \in 0 .. NEWTON_STEPS : iterate[n] = Body(iterate, n)
  <2> HIDE DEF iterate, Body
  <2> QED
    BY <1>4
<1>6. \A n \in 0 .. NEWTON_STEPS, x \in Nat :
        iterate[n][x] =
            IF n = 0 THEN x
            ELSE IF step[x] = None \/ Converged(step[x], x) THEN step[x]
            ELSE iterate[n - 1][step[x]]
  <2> TAKE n \in 0 .. NEWTON_STEPS, x \in Nat
  <2>1. iterate[n] = Body(iterate, n)
    BY <1>5
  <2> HIDE DEF iterate
  <2> QED
    BY <2>1
<1> HIDE DEF iterate, Body, Solves
<1> WITNESS iterate
<1> QED
  BY <1>1, <1>6

\* The result of the loop is a value of the step function.
LEMMA NewtonStays ==
    ASSUME NEW step, NEW start \in Nat, NEW Good, Good \subseteq Nat,
           \A x \in Nat : step[x] \in Good \cup {None}
    PROVE  Newton(step, start) \in Good \cup {None}
<1>1. PICK iterate :
        /\ Newton(step, start) = iterate[NEWTON_STEPS][start]
        /\ \A n \in 0 .. NEWTON_STEPS, x \in Nat :
              iterate[n][x] =
                  IF n = 0 THEN x
                  ELSE IF step[x] = None \/ Converged(step[x], x) THEN step[x]
                  ELSE iterate[n - 1][step[x]]
  BY NewtonUnfolds
<1> DEFINE S == { n \in Nat : n < NEWTON_STEPS =>
                    \A x \in Nat : iterate[n + 1][x] \in Good \cup {None} }
<1>2. \A n \in 0 .. NEWTON_STEPS - 1, x \in Nat :
        \/ iterate[n + 1][x] \in Good \cup {None}
        \/ iterate[n + 1][x] = iterate[n][step[x]] /\ step[x] \in Good
  <2> SUFFICES ASSUME NEW n \in 0 .. NEWTON_STEPS - 1, NEW x \in Nat
               PROVE  \/ iterate[n + 1][x] \in Good \cup {None}
                      \/ iterate[n + 1][x] = iterate[n][step[x]] /\ step[x] \in Good
    OBVIOUS
  <2>1. n + 1 \in 0 .. NEWTON_STEPS /\ n + 1 # 0 /\ (n + 1) - 1 = n
    BY NewtonAssumption
  <2>2. iterate[n + 1][x] =
            IF step[x] = None \/ Converged(step[x], x) THEN step[x]
            ELSE iterate[n][step[x]]
    BY <1>1, <2>1
  <2> QED
    BY <2>2
<1>3. 0 \in S
  <2> SUFFICES ASSUME NEW x \in Nat
               PROVE  iterate[0 + 1][x] \in Good \cup {None}
    OBVIOUS
  <2>1. 0 \in 0 .. NEWTON_STEPS - 1 /\ 0 \in 0 .. NEWTON_STEPS
    BY NewtonAssumption
  <2>2. \A y \in Nat : iterate[0][y] = y
    BY <1>1, <2>1
  <2> QED
    BY <1>2, <2>1, <2>2
<1>4. ASSUME NEW n \in Nat, n \in S
      PROVE  n + 1 \in S
  <2> SUFFICES ASSUME n + 1 < NEWTON_STEPS, NEW x \in Nat
               PROVE  iterate[(n + 1) + 1][x] \in Good \cup {None}
    BY <1>4
  <2>1. n + 1 \in 0 .. NEWTON_STEPS - 1 /\ n < NEWTON_STEPS
    BY NewtonAssumption
  <2>2. \A y \in Nat : iterate[n + 1][y] \in Good \cup {None}
    BY <1>4, <2>1
  <2>3. \/ iterate[(n + 1) + 1][x] \in Good \cup {None}
        \/ iterate[(n + 1) + 1][x] = iterate[n + 1][step[x]] /\ step[x] \in Good
    BY <1>2, <2>1
  <2> HIDE DEF S
  <2> QED
    BY <2>2, <2>3
<1> HIDE DEF S
<1>5. NEWTON_STEPS - 1 \in S
  BY <1>3, <1>4, SetInduction, NewtonAssumption
<1>6. \A x \in Nat : iterate[(NEWTON_STEPS - 1) + 1][x] \in Good \cup {None}
  BY <1>5, NewtonAssumption DEF S
<1>7. (NEWTON_STEPS - 1) + 1 = NEWTON_STEPS
  BY NewtonAssumption
<1> QED
  BY <1>1, <1>6, <1>7

(***************************************************************************)
(* The invariant D.                                                        *)
(***************************************************************************)

LEMMA QuotientAtLeast ==
    ASSUME NEW k \in Nat, NEW n \in Nat, NEW c \in Nat \ {0}, k * c <= n
    PROVE  k <= n \div c
<1> DEFINE q == n \div c
<1>1. q \in Nat /\ n < (q + 1) * c
  OBVIOUS
<1> HIDE DEF q
<1>2. SUFFICES ASSUME q + 1 <= k
               PROVE  FALSE
  BY <1>1 DEF q
<1>3. (k - (q + 1)) * c >= 0 /\ (k - (q + 1)) * c = k * c - (q + 1) * c
  BY <1>1, <1>2
<1> QED
  BY <1>1, <1>3

LEMMA Multiplied ==
    ASSUME NEW a \in Int, NEW b \in Int, NEW c \in Nat, a <= b
    PROVE  a * c <= b * c
<1>1. (b - a) * c >= 0 /\ (b - a) * c = b * c - a * c
  OBVIOUS
<1> QED
  BY <1>1

\* d * d / a * d / b, which occurs in both equations, is rounded down twice.
LEMMA TwoQuotients ==
    ASSUME NEW a, NEW b, NEW d,
           NEW p, p = MulDiv192(MulDiv192(d, d, a), d, b), p # None
    PROVE  /\ a \in Nat \ {0} /\ b \in Nat \ {0} /\ d \in Nat /\ p \in Nat
           /\ \E q \in Nat : /\ q * a <= d * d /\ d * d < (q + 1) * a
                             /\ p * b <= q * d /\ q * d < (p + 1) * b
<1> DEFINE m == Mul192(d, d)
           q == CheckedDiv(m, a)
           n == Mul192(q, d)
<1>1. p = CheckedDiv(n, b)
  BY DEF MulDiv192
<1>2. n # None /\ n \in Nat /\ b \in Nat \ {0} /\ p = n \div b
  <2> HIDE DEF n
  <2> QED
    BY <1>1, CheckedDivBounds DEF None
<1>3. q # None /\ q \in Nat /\ d \in Nat /\ n = q * d
  <2>1. n # None => q \in Nat /\ d \in Nat /\ n = q * d
    BY CheckedMulBounds DEF Mul192
  <2> QED
    BY <1>2, <2>1 DEF None
<1>4. m # None /\ m \in Nat /\ a \in Nat \ {0} /\ q = m \div a
  <2> HIDE DEF m
  <2>1. q # None => m \in Nat /\ a \in Nat \ {0} /\ q = m \div a
    BY CheckedDivBounds
  <2> QED
    BY <1>3, <2>1 DEF None
<1>5. m = d * d
  <2>1. m # None => m = d * d
    BY CheckedMulBounds DEF Mul192
  <2> QED
    BY <1>4, <2>1
<1> HIDE DEF m, n, q
<1>6. \A t \in Nat, c \in Nat \ {0} : /\ t \div c \in Nat
                                      /\ (t \div c) * c <= t
                                      /\ t < (t \div c + 1) * c
  OBVIOUS
<1>7. p \in Nat /\ p * b <= n /\ n < (p + 1) * b
  BY <1>2, <1>6
<1>8. q * a <= m /\ m < (q + 1) * a
  BY <1>4, <1>6
<1> QED
  BY <1>2, <1>3, <1>4, <1>5, <1>7, <1>8

\* So d_prod is at most D^3 / (4 a b).
LEMMA ProductRoundedDown ==
    ASSUME NEW a, NEW b, NEW d,
           NEW p, p = MulDiv192(MulDiv192(d, d, a), d, b), p # None
    PROVE  /\ a \in Nat \ {0} /\ b \in Nat \ {0} /\ d \in Nat /\ p \in Nat
           /\ p * (a * b) <= d * d * d
<1>1. a \in Nat \ {0} /\ b \in Nat \ {0} /\ d \in Nat /\ p \in Nat
  BY TwoQuotients
<1>2. PICK q \in Nat : q * a <= d * d /\ p * b <= q * d
  BY TwoQuotients
<1>3. (p * b) * a <= (q * d) * a
  BY <1>1, <1>2, Multiplied
<1>4. (q * a) * d <= (d * d) * d
  BY <1>1, <1>2, Multiplied
<1>5. (p * b) * a = p * (a * b) /\ (q * d) * a = (q * a) * d /\ (d * d) * d = d * d * d
  BY <1>1
<1> QED
  BY <1>1, <1>3, <1>4, <1>5

\* Newton's method on a convex function: where the cubic of RootD is not positive
\* at k, it takes no d below k, although d_prod was rounded.
LEMMA ConvexStep ==
    ASSUME NEW ann \in Nat \ {0}, NEW M \in Nat \ {0}, NEW S \in Nat,
           NEW k \in Nat, NEW d \in Nat, NEW p \in Nat,
           (ann - 1) * k * M + k * k * k <= ann * S * M,
           p * M <= d * d * d
    PROVE  k * (d * (ann - 1) + p * 3) <= d * (p * 2 + S * ann)
<1>1. ((ann - 1) * k * M + k * k * k) * d <= (ann * S * M) * d
  <2>1. (ann - 1) * k * M + k * k * k \in Int /\ ann * S * M \in Int
    OBVIOUS
  <2> QED
    BY <2>1, Multiplied
<1>2. d * d * (3 * k - 2 * d) <= k * k * k
  <2>1. (k - d) * (k - d) \in Nat /\ k + 2 * d \in Nat
    OBVIOUS
  <2>2. ((k - d) * (k - d)) * (k + 2 * d) \in Nat
    BY <2>1
  <2>3. ((k - d) * (k - d)) * (k + 2 * d) = k * k * k - d * d * (3 * k - 2 * d)
    OBVIOUS
  <2> QED
    BY <2>2, <2>3
<1>3. p * M * (3 * k - 2 * d) <= k * k * k * d
  <2>1. CASE 3 * k - 2 * d < 0
    <3>1. (p * M) * (2 * d - 3 * k) \in Nat /\ k * k * k * d \in Nat
      BY <2>1
    <3>2. (p * M) * (2 * d - 3 * k) = - (p * M * (3 * k - 2 * d))
      OBVIOUS
    <3> QED
      BY <3>1, <3>2
  <2>2. CASE 3 * k - 2 * d >= 0
    <3>1. p * M * (3 * k - 2 * d) <= d * d * d * (3 * k - 2 * d)
      <4>1. 3 * k - 2 * d \in Nat /\ p * M \in Int /\ d * d * d \in Int
        BY <2>2
      <4> QED
        BY <4>1, Multiplied
    <3>2. d * d * (3 * k - 2 * d) * d <= k * k * k * d
      <4>1. d * d * (3 * k - 2 * d) \in Int /\ k * k * k \in Int
        OBVIOUS
      <4> QED
        BY <4>1, <1>2, Multiplied
    <3>3. d * d * d * (3 * k - 2 * d) = d * d * (3 * k - 2 * d) * d
      OBVIOUS
    <3> QED
      BY <3>1, <3>2, <3>3
  <2> QED
    BY <2>1, <2>2
<1> DEFINE Left  == k * (d * (ann - 1) + p * 3)
           Right == d * (p * 2 + S * ann)
<1>4. /\ M * Left = (ann - 1) * k * M * d + 3 * (p * M * k)
      /\ M * Right = 2 * (p * M * d) + ann * S * M * d
      /\ p * M * (3 * k - 2 * d) = 3 * (p * M * k) - 2 * (p * M * d)
      /\ ((ann - 1) * k * M + k * k * k) * d
            = (ann - 1) * k * M * d + k * k * k * d
  OBVIOUS
<1>5. M * Left <= M * Right
  <2>1. /\ (ann - 1) * k * M * d \in Int /\ k * k * k * d \in Int
        /\ p * M * k \in Int /\ p * M * d \in Int /\ ann * S * M * d \in Int
    OBVIOUS
  <2>2. (ann - 1) * k * M * d + k * k * k * d <= ann * S * M * d
    BY <1>1, <1>4
  <2>3. 3 * (p * M * k) - 2 * (p * M * d) <= k * k * k * d
    BY <1>3, <1>4
  <2> HIDE DEF Left, Right
  <2> QED
    BY <1>4, <2>1, <2>2, <2>3
<1>6. Left \in Int /\ Right \in Int
  OBVIOUS
<1> HIDE DEF Left, Right
<1>7. Left <= Right
  <2>1. SUFFICES ASSUME Left >= Right + 1
                 PROVE  FALSE
    BY <1>6
  <2>2. (Right + 1) * M <= Left * M
    BY <1>6, <2>1, Multiplied
  <2>3. (Right + 1) * M = M * Right + M /\ Left * M = M * Left /\ M * Right \in Int
    BY <1>6
  <2> QED
    BY <1>5, <1>6, <2>2, <2>3
<1> QED
  BY <1>7 DEF Left, Right

LEMMA MaxOfBoundedSet ==
    ASSUME NEW S, S \subseteq Nat, S # {}, NEW bound \in Nat, \A n \in S : n <= bound
    PROVE  Max(S) \in S /\ \A n \in S : n <= Max(S)
<1>1. \E n \in S : \A m \in S : n >= m
  BY GreatestNatural
<1>2. Max(S) \in S /\ \A m \in S : Max(S) >= m
  BY <1>1 DEF Max
<1> QED
  BY <1>2

LEMMA RootDIsARoot ==
    ASSUME NEW amp \in Nat \ {0}, NEW a \in Nat, NEW b \in Nat
    PROVE  /\ RootD(amp, a, b) \in Nat
           /\ (2 * amp - 1) * RootD(amp, a, b) * (4 * a * b)
                + RootD(amp, a, b) * RootD(amp, a, b) * RootD(amp, a, b)
              <= (2 * amp) * (a + b) * (4 * a * b)
<1> DEFINE ann == 2 * amp
           S == { D \in 0 .. a + b :
                    (ann - 1) * D * 4 * a * b + D * D * D <= ann * (a + b) * 4 * a * b }
<1>1. (ann - 1) * 0 * 4 * a * b + 0 * 0 * 0 <= ann * (a + b) * 4 * a * b
  <2>1. (ann - 1) * 0 * 4 * a * b = 0 /\ ann * (a + b) * 4 * a * b \in Nat
    OBVIOUS
  <2> QED
    BY <2>1
<1>2. 0 \in S
  BY <1>1
<1>3. S \subseteq Nat /\ a + b \in Nat /\ \A n \in S : n <= a + b
  OBVIOUS
<1>4. RootD(amp, a, b) = Max(S)
  BY DEF RootD
<1> DEFINE k == Max(S)
<1>5. k \in S
  <2> HIDE DEF S
  <2> QED
    BY <1>2, <1>3, MaxOfBoundedSet
<1> HIDE DEF k
<1>6. k \in Nat /\ (ann - 1) * k * 4 * a * b + k * k * k <= ann * (a + b) * 4 * a * b
  BY <1>5
<1>7. /\ (ann - 1) * k * 4 * a * b = (ann - 1) * k * (4 * a * b)
      /\ ann * (a + b) * 4 * a * b = ann * (a + b) * (4 * a * b)
  BY <1>6
<1> QED
  BY <1>4, <1>6, <1>7 DEF k

LEMMA NextDBounds ==
    ASSUME NEW amp, NEW d, NEW p, NEW s,
           NEW next, next = compute_next_d(amp, d, p, s), next # None
    PROVE  /\ amp \in Nat \ {0} /\ d \in Nat /\ p \in Nat /\ s \in Nat
           /\ d * (2 * amp - 1) + p * 3 \in Nat \ {0}
           /\ next = (d * (p * 2 + s * (2 * amp))) \div (d * (2 * amp - 1) + p * 3)
<1> USE CheckedMulBounds, CheckedAddBounds DEF Mul64, Mul192, Add192, Option
<1> DEFINE ann == Mul64(amp, N_COINS)
           less == CheckedSub(ann, 1)
           leverage == CheckedMul(s, ann, U128_MAX)
           twice == Mul192(p, N_COINS)
           sum == Add192(twice, leverage)
           numerator == Mul192(d, sum)
           dear == Mul192(d, less)
           thrice == Mul192(p, N_COINS + 1)
           denominator == Add192(dear, thrice)
<1>1. next = CheckedDiv(numerator, denominator)
  BY DEF compute_next_d
<1>2. /\ numerator \in Nat /\ denominator \in Nat \ {0}
      /\ next = numerator \div denominator
  <2> HIDE DEF numerator, denominator
  <2> QED
    BY <1>1, CheckedDivBounds
<1>3. d \in Nat /\ sum \in Nat /\ numerator = d * sum
  <2> HIDE DEF sum
  <2>1. numerator # None
    BY <1>2 DEF None
  <2> QED
    BY <2>1
<1>4. twice \in Nat /\ leverage \in Nat /\ sum = twice + leverage
  <2> HIDE DEF twice, leverage
  <2>1. sum # None
    BY <1>3 DEF None
  <2> QED
    BY <2>1
<1>5. p \in Nat /\ twice = p * 2
  <2>1. twice # None
    BY <1>4 DEF None
  <2> QED
    BY <2>1 DEF N_COINS
<1>6. s \in Nat /\ ann \in Nat /\ leverage = s * ann
  <2> HIDE DEF ann
  <2>1. leverage # None
    BY <1>4 DEF None
  <2> QED
    BY <2>1
<1>7. amp \in Nat /\ ann = amp * 2
  <2>1. ann # None
    BY <1>6 DEF None
  <2> QED
    BY <2>1 DEF N_COINS
<1>8. dear \in Nat /\ thrice \in Nat /\ denominator = dear + thrice
  <2> HIDE DEF dear, thrice
  <2>1. denominator # None
    BY <1>2 DEF None
  <2> QED
    BY <2>1
<1>9. thrice = p * 3
  <2>1. thrice # None
    BY <1>8 DEF None
  <2> QED
    BY <2>1 DEF N_COINS
<1>10. less \in Nat /\ dear = d * less
  <2> HIDE DEF less
  <2>1. dear # None
    BY <1>8 DEF None
  <2> QED
    BY <2>1
<1>11. ann >= 1 /\ less = ann - 1
  <2> HIDE DEF ann
  <2>1. less # None
    BY <1>10 DEF None
  <2> QED
    BY <2>1, CheckedSubBounds
<1> HIDE DEF ann, less, leverage, twice, sum, numerator, dear, thrice, denominator
<1>12. ann = 2 * amp /\ amp \in Nat \ {0}
  BY <1>7, <1>11
<1>13. numerator = d * (p * 2 + s * (2 * amp))
  BY <1>3, <1>4, <1>5, <1>6, <1>12
<1>14. denominator = d * (2 * amp - 1) + p * 3
  BY <1>8, <1>9, <1>10, <1>11, <1>12
<1> QED
  BY <1>2, <1>3, <1>5, <1>6, <1>12, <1>13, <1>14

\* compute_d never returns less than the root.
LEMMA DNeverBelow ==
    ASSUME NEW amp \in Nat \ {0}, NEW a \in Nat, NEW b \in Nat, compute_d(amp, a, b) # None
    PROVE  compute_d(amp, a, b) \in Nat /\ RootD(amp, a, b) <= compute_d(amp, a, b)
<1> DEFINE s == Add64(a, b)
           a2 == Mul64(a, N_COINS)
           b2 == Mul64(b, N_COINS)
           d_prod(d) == MulDiv192(MulDiv192(d, d, a2), d, b2)
           next_d == [d \in Nat |-> compute_next_d(amp, d, d_prod(d), s)]
           k == RootD(amp, a, b)
           Good == { n \in Nat : k <= n }
<1>0. /\ k \in Nat
      /\ (2 * amp - 1) * k * (4 * a * b) + k * k * k <= (2 * amp) * (a + b) * (4 * a * b)
  BY RootDIsARoot
<1>1. compute_d(amp, a, b) =
        IF s = 0 THEN 0
        ELSE IF s = None \/ a2 = None \/ b2 = None THEN None
        ELSE Newton(next_d, s)
  BY DEF compute_d
<1>2. /\ s # None => s = a + b
      /\ a2 # None => a2 = a * 2
      /\ b2 # None => b2 = b * 2
  BY CheckedAddBounds, CheckedMulBounds DEF Add64, Mul64, N_COINS
<1>3. CASE s = 0
  <2>1. a = 0 /\ b = 0
    BY <1>2, <1>3 DEF None
  <2>2. (2 * amp - 1) * k * (4 * a * b) = 0 /\ (2 * amp) * (a + b) * (4 * a * b) = 0
    BY <1>0, <2>1
  <2>3. k * k * k <= 0
    BY <1>0, <2>2
  <2>4. k <= 0
    <3>1. \A n \in Nat : n * n * n <= 0 => n <= 0
      OBVIOUS
    <3> HIDE DEF k
    <3> QED
      BY <1>0, <2>3, <3>1
  <2> QED
    BY <1>1, <1>3, <2>4
<1>4. CASE s # 0
  <2>1. s # None /\ a2 # None /\ b2 # None /\ compute_d(amp, a, b) = Newton(next_d, s)
    BY <1>1, <1>4
  <2>2. \A d \in Nat : next_d[d] \in Good \cup {None}
    <3> SUFFICES ASSUME NEW d \in Nat, next_d[d] # None
                 PROVE  next_d[d] \in Good
      OBVIOUS
    <3> DEFINE p == d_prod(d)
               M == 4 * a * b
    <3>1. next_d[d] = compute_next_d(amp, d, p, s)
      OBVIOUS
    <3>2. /\ amp \in Nat \ {0} /\ p \in Nat
          /\ d * (2 * amp - 1) + p * 3 \in Nat \ {0}
          /\ next_d[d] = (d * (p * 2 + s * (2 * amp))) \div (d * (2 * amp - 1) + p * 3)
      BY <3>1, NextDBounds
    <3>3. p # None
      BY <3>2 DEF None
    <3>4. a2 \in Nat \ {0} /\ b2 \in Nat \ {0} /\ p * (a2 * b2) <= d * d * d
      BY <3>3, ProductRoundedDown
    <3>5. a2 * b2 = M /\ M \in Nat \ {0}
      <4>1. a2 * b2 \in Nat \ {0}
        BY <3>4
      <4>2. a2 * b2 = M
        BY <1>2, <2>1
      <4> QED
        BY <4>1, <4>2
    <3> HIDE DEF p, M
    <3>6. k \in Nat /\ (2 * amp - 1) * k * M + k * k * k <= (2 * amp) * s * M
      BY <1>0, <1>2, <2>1, <3>2 DEF M
    <3>7. s \in Nat /\ 2 * amp \in Nat \ {0} /\ p * M <= d * d * d
      BY <1>2, <2>1, <3>2, <3>4, <3>5
    <3> HIDE DEF k, s
    <3>8. k * (d * (2 * amp - 1) + p * 3) <= d * (p * 2 + s * (2 * amp))
      BY <3>2, <3>5, <3>6, <3>7, ConvexStep
    <3>9. d * (p * 2 + s * (2 * amp)) \in Nat
      BY <3>2, <3>7
    <3>10. k <= next_d[d]
      BY <3>2, <3>6, <3>8, <3>9, QuotientAtLeast
    <3>11. next_d[d] \in Nat
      BY <3>2, <3>9, NatQuotient
    <3> HIDE DEF next_d
    <3> QED
      BY <3>10, <3>11
  <2>3. s \in Nat
    BY <1>2, <2>1
  <2> HIDE DEF next_d
  <2>4. Newton(next_d, s) \in Good \cup {None}
    BY <2>2, <2>3, NewtonStays
  <2> QED
    BY <2>1, <2>4
<1> QED
  BY <1>3, <1>4

(***************************************************************************)
(* The other reserve.                                                      *)
(***************************************************************************)

\* Where the roundings of c and b leave the equation of compute_y: one below the
\* root of the exact one, the rounded one is not positive either.
LEMMA RoundedBelowRoot ==
    ASSUME NEW ann \in Nat \ {0}, NEW x \in Nat \ {0}, NEW d \in Nat,
           NEW k \in Nat \ {0}, k + x >= d,
           4 * x * ann * k * k + 4 * x * (ann * (x - d) + d) * k <= d * d * d,
           NEW q \in Nat, d * d < (q + 1) * (2 * x),
           NEW c \in Nat, q * d < (c + 1) * (2 * ann),
           NEW e \in Nat, e * ann <= d
    PROVE  (k - 1) * (k - 1) + (e + x - d) * (k - 1) <= c
<1> DEFINE j == k - 1
           M == 4 * x * ann
           G == j * j + (e + x - d) * j
<1>1. j \in Nat /\ k = j + 1 /\ M \in Nat \ {0} /\ G \in Int
  OBVIOUS
<1>2. d * d * d + d + 2 * x <= M * (c + 1) + 2 * x * d
  <2>1. (d * d + 1) * d <= ((q + 1) * (2 * x)) * d
    <3>1. d * d + 1 <= (q + 1) * (2 * x) /\ d * d + 1 \in Int /\ (q + 1) * (2 * x) \in Int
      OBVIOUS
    <3> QED
      BY <3>1, Multiplied
  <2>2. (q * d + 1) * (2 * x) <= ((c + 1) * (2 * ann)) * (2 * x)
    <3>1. q * d + 1 <= (c + 1) * (2 * ann) /\ q * d + 1 \in Int /\ (c + 1) * (2 * ann) \in Int
      OBVIOUS
    <3>2. 2 * x \in Nat
      OBVIOUS
    <3> QED
      BY <3>1, <3>2, Multiplied
  <2>3. /\ (d * d + 1) * d = d * d * d + d
        /\ ((q + 1) * (2 * x)) * d = 2 * (q * x * d) + 2 * x * d
        /\ (q * d + 1) * (2 * x) = 2 * (q * x * d) + 2 * x
        /\ ((c + 1) * (2 * ann)) * (2 * x) = M * (c + 1)
    OBVIOUS
  <2>4. q * x * d \in Int /\ 2 * x * d \in Int /\ M * (c + 1) \in Int /\ d * d * d \in Int
    OBVIOUS
  <2> HIDE DEF M
  <2> QED
    BY <2>1, <2>2, <2>3, <2>4
<1> DEFINE P == 4 * x * (ann * (x - d) + d)
<1>3. M * G <= M * j * j + P * j
  <2>1. (e * ann) * (4 * x * j) <= d * (4 * x * j)
    <3>1. e * ann \in Int /\ 4 * x * j \in Nat
      BY <1>1
    <3> QED
      BY <3>1, Multiplied
  <2>2. /\ M * G = M * j * j + 4 * x * ann * (x - d) * j + (e * ann) * (4 * x * j)
        /\ P * j = 4 * x * ann * (x - d) * j + d * (4 * x * j)
    BY <1>1
  <2>3. /\ M * j * j \in Int /\ 4 * x * ann * (x - d) * j \in Int
        /\ (e * ann) * (4 * x * j) \in Int /\ d * (4 * x * j) \in Int
    BY <1>1
  <2> HIDE DEF M, G, P
  <2> QED
    BY <2>1, <2>2, <2>3
<1>4. M * j * j + P * j + 4 * x * d <= d * d * d
  <2>1. M * k * k + P * k <= d * d * d
    OBVIOUS
  <2>2. M * k * k + P * k = (M * j * j + P * j) + (M * (2 * j + 1) + P)
    <3>1. M \in Int /\ P \in Int
      OBVIOUS
    <3> HIDE DEF M, P, j
    <3> QED
      BY <1>1, <3>1
  <2>3. M * (2 * j + 1) + P = M * (j + k + x - d) + 4 * x * d
    BY <1>1
  <2>4. M * (j + k + x - d) >= 0
    <3>1. j + k + x - d \in Nat
      BY <1>1
    <3> HIDE DEF M
    <3> QED
      BY <1>1, <3>1
  <2>5. M * j * j + P * j \in Int /\ M * (j + k + x - d) \in Int /\ 4 * x * d \in Int
    BY <1>1
  <2> HIDE DEF M, P, j
  <2> QED
    BY <2>1, <2>2, <2>3, <2>4, <2>5
<1>5. M * G < M * (c + 1)
  <2>1. /\ x * d \in Nat /\ d * d * d \in Nat /\ M * (c + 1) \in Int
        /\ M * j * j + P * j \in Int /\ M * G \in Int
    BY <1>1
  <2>2. 4 * x * d = 4 * (x * d) /\ 2 * x * d = 2 * (x * d)
    OBVIOUS
  <2> HIDE DEF M, P, G, j
  <2> QED
    BY <1>2, <1>3, <1>4, <2>1, <2>2
<1> HIDE DEF M, P, G
<1>6. G < c + 1
  <2>1. SUFFICES ASSUME G >= c + 1
                 PROVE  FALSE
    BY <1>1
  <2>2. (c + 1) * M <= G * M /\ (c + 1) * M = M * (c + 1) /\ G * M = M * G
    BY <1>1, <2>1, Multiplied
  <2>3. M * G \in Int /\ M * (c + 1) \in Int
    BY <1>1
  <2> QED
    BY <1>5, <2>2, <2>3
<1> QED
  BY <1>1, <1>6 DEF G, j

\* RootY is a root, and at least what D leaves besides x.
LEMMA RootYIsARoot ==
    ASSUME NEW amp \in Nat \ {0}, NEW x \in Nat \ {0}, NEW d \in Nat
    PROVE  /\ RootY(amp, x, d) \in Nat
           /\ RootY(amp, x, d) + x >= d
           /\ 4 * x * (2 * amp) * RootY(amp, x, d) * RootY(amp, x, d)
                + 4 * x * ((2 * amp) * (x - d) + d) * RootY(amp, x, d) <= d * d * d
<1> DEFINE ann == 2 * amp
           F(y) == 4 * x * ann * y * y + 4 * x * (ann * (x - d) + d) * y - d * d * d
           bound == d + (d * d) \div (4 * x)
           S == { y \in 0 .. bound : F(y) <= 0 }
           k == Max(S)
<1>1. RootY(amp, x, d) = k
  BY DEF RootY
<1>2. bound \in Nat /\ d <= bound
  <2>1. d * d \in Nat /\ 4 * x \in Nat \ {0}
    OBVIOUS
  <2>2. (d * d) \div (4 * x) \in Nat
    BY <2>1, NatQuotient
  <2> QED
    BY <2>2
<1> HIDE DEF bound
<1>3. 0 \in S
  <2>1. F(0) = - (d * d * d) /\ d * d * d \in Nat
    OBVIOUS
  <2> QED
    BY <1>2, <2>1
<1>4. S \subseteq Nat /\ \A n \in S : n <= bound
  BY <1>2
<1>5. k \in S /\ \A n \in S : n <= k
  <2> HIDE DEF S
  <2> QED
    BY <1>2, <1>3, <1>4, MaxOfBoundedSet
<1>6. k + x >= d
  <2>1. CASE d <= x
    BY <1>4, <1>5, <2>1
  <2>2. CASE d > x
    <3> DEFINE z == d - x
    <3>1. F(z) = - (d * ((d - 2 * x) * (d - 2 * x)))
      OBVIOUS
    <3>2. (d - 2 * x) * (d - 2 * x) \in Nat
      OBVIOUS
    <3>3. d * ((d - 2 * x) * (d - 2 * x)) \in Nat
      BY <3>2
    <3>4. z \in 0 .. bound
      BY <1>2, <2>2
    <3>5. z \in S
      BY <3>1, <3>3, <3>4
    <3>6. z <= k /\ k \in Nat /\ z + x = d
      BY <1>4, <1>5, <3>5
    <3> QED
      BY <3>6
  <2> QED
    BY <2>1, <2>2
<1>7. k \in Nat /\ F(k) <= 0
  <2> HIDE DEF k, F
  <2> QED
    BY <1>4, <1>5
<1> HIDE DEF k
<1>8. 4 * x * ann * k * k + 4 * x * (ann * (x - d) + d) * k \in Int /\ d * d * d \in Int
  BY <1>7
<1> QED
  BY <1>1, <1>6, <1>7, <1>8

LEMMA NextYBounds ==
    ASSUME NEW y \in Nat, NEW c \in Nat, NEW b \in Nat, NEW d \in Nat,
           NEW next,
           next = CheckedDiv(Add192(Mul192(y, y), c),
                             CheckedSub(Add192(Mul192(y, 2), b), d)),
           next # None
    PROVE  /\ 2 * y + b - d \in Nat \ {0}
           /\ next = (y * y + c) \div (2 * y + b - d)
<1> USE CheckedMulBounds, CheckedAddBounds DEF Mul192, Add192, Option
<1> DEFINE square == Mul192(y, y)
           numerator == Add192(square, c)
           twice == Mul192(y, 2)
           sum == Add192(twice, b)
           denominator == CheckedSub(sum, d)
<1>1. /\ numerator \in Nat /\ denominator \in Nat \ {0}
      /\ next = numerator \div denominator
  <2> HIDE DEF numerator, denominator
  <2> QED
    BY CheckedDivBounds DEF numerator, denominator
<1>2. square \in Nat /\ numerator = square + c
  <2> HIDE DEF square
  <2>1. numerator # None
    BY <1>1 DEF None
  <2> QED
    BY <2>1
<1>3. square = y * y
  <2>1. square # None
    BY <1>2 DEF None
  <2> QED
    BY <2>1
<1>4. sum \in Nat /\ denominator = sum - d
  <2> HIDE DEF sum
  <2>1. denominator # None
    BY <1>1 DEF None
  <2> QED
    BY <2>1, CheckedSubBounds
<1>5. twice \in Nat /\ sum = twice + b
  <2> HIDE DEF twice
  <2>1. sum # None
    BY <1>4 DEF None
  <2> QED
    BY <2>1
<1>6. twice = y * 2
  <2>1. twice # None
    BY <1>5 DEF None
  <2> QED
    BY <2>1
<1> HIDE DEF square, numerator, twice, sum, denominator
<1> QED
  BY <1>1, <1>2, <1>3, <1>4, <1>5, <1>6

\* compute_y never returns less than the root, but for one unit.
LEMMA YNeverFarBelow ==
    ASSUME NEW amp, NEW x, NEW d, compute_y(amp, x, d) # None
    PROVE  /\ amp \in Nat \ {0} /\ x \in Nat \ {0} /\ d \in Nat
           /\ compute_y(amp, x, d) \in U64
           /\ RootY(amp, x, d) <= compute_y(amp, x, d) + 1
<1> DEFINE ann == Mul64(amp, N_COINS)
           x2 == Mul64(x, N_COINS)
           ann2 == Mul64(ann, N_COINS)
           c == MulDiv192(MulDiv192(d, d, x2), d, ann2)
           e == CheckedDiv(d, ann)
           b == Add192(e, x)
           next_y == [y \in Nat |-> CheckedDiv(Add192(Mul192(y, y), c),
                                               CheckedSub(Add192(Mul192(y, 2), b), d))]
           result == Newton(next_y, d)
           k == RootY(amp, x, d)
           Good == { n \in Nat : k <= n + 1 }
<1>1. compute_y(amp, x, d) = IF c = None \/ b = None THEN None ELSE ToU64(result)
  BY DEF compute_y
<1>2. c # None /\ b # None /\ compute_y(amp, x, d) = ToU64(result)
  BY <1>1
<1>3. /\ x2 \in Nat \ {0} /\ ann2 \in Nat \ {0} /\ d \in Nat /\ c \in Nat
      /\ \E q \in Nat : /\ d * d < (q + 1) * x2
                        /\ q * d < (c + 1) * ann2
  <2> HIDE DEF c, x2, ann2
  <2>1. c = MulDiv192(MulDiv192(d, d, x2), d, ann2)
    BY DEF c
  <2> QED
    BY <1>2, <2>1, TwoQuotients
<1>4. x \in Nat /\ x2 = 2 * x
  <2>1. x2 # None
    BY <1>3 DEF None
  <2> QED
    BY <2>1, CheckedMulBounds DEF Mul64, N_COINS
<1>5. ann \in Nat /\ ann2 = 2 * ann
  <2> HIDE DEF ann
  <2>1. ann2 # None
    BY <1>3 DEF None
  <2> QED
    BY <2>1, CheckedMulBounds DEF Mul64, N_COINS
<1>6. amp \in Nat /\ ann = 2 * amp
  <2>1. ann # None
    BY <1>5 DEF None
  <2> QED
    BY <2>1, CheckedMulBounds DEF Mul64, N_COINS
<1>7. e \in Nat /\ b = e + x
  <2> HIDE DEF e
  <2> QED
    BY <1>2, CheckedAddBounds DEF Add192
<1>8. e * ann <= d
  <2>1. e # None
    BY <1>7 DEF None
  <2>2. e = d \div ann /\ ann \in Nat \ {0}
    <3> HIDE DEF ann
    <3> QED
      BY <2>1, CheckedDivBounds
  <2> HIDE DEF ann, e
  <2> QED
    BY <1>3, <2>2, NatQuotient
<1>9. next_y \in [Nat -> Option] /\
      \A y \in Nat : next_y[y] = CheckedDiv(Add192(Mul192(y, y), c),
                                            CheckedSub(Add192(Mul192(y, 2), b), d))
  <2> HIDE DEF c, b
  <2> QED
    BY CheckedDivBounds
<1>10. x \in Nat \ {0} /\ amp \in Nat \ {0}
  BY <1>3, <1>4, <1>5, <1>6
<1>11. /\ k \in Nat /\ k + x >= d
       /\ 4 * x * (2 * amp) * k * k + 4 * x * ((2 * amp) * (x - d) + d) * k <= d * d * d
  BY <1>3, <1>10, RootYIsARoot
<1> HIDE DEF next_y, c, e, b, ann, ann2, x2, k
<1>12. k # 0 => (k - 1) * (k - 1) + (b - d) * (k - 1) <= c
  <2> SUFFICES ASSUME k # 0
               PROVE  (k - 1) * (k - 1) + (b - d) * (k - 1) <= c
    OBVIOUS
  <2>1. PICK q \in Nat : d * d < (q + 1) * (2 * x) /\ q * d < (c + 1) * (2 * (2 * amp))
    BY <1>3, <1>4, <1>5, <1>6
  <2>2. 2 * amp \in Nat \ {0} /\ k \in Nat \ {0} /\ e * (2 * amp) <= d
    BY <1>6, <1>8, <1>10, <1>11
  <2>3. (k - 1) * (k - 1) + (e + x - d) * (k - 1) <= c
    BY <1>3, <1>7, <1>10, <1>11, <2>1, <2>2, RoundedBelowRoot
  <2>4. b - d = e + x - d
    BY <1>3, <1>4, <1>7
  <2> QED
    BY <2>3, <2>4
<1>13. \A y \in Nat : next_y[y] \in Good \cup {None}
  <2> SUFFICES ASSUME NEW y \in Nat, next_y[y] # None
               PROVE  next_y[y] \in Good
    OBVIOUS
  <2>1. b \in Nat
    BY <1>4, <1>7
  <2>2. /\ 2 * y + b - d \in Nat \ {0}
        /\ next_y[y] = (y * y + c) \div (2 * y + b - d)
    BY <1>3, <1>9, <2>1, NextYBounds
  <2>3. y * y + c \in Nat
    BY <1>3
  <2>4. next_y[y] \in Nat
    BY <2>2, <2>3, NatQuotient
  <2>5. CASE k = 0
    BY <2>4, <2>5
  <2>6. CASE k # 0
    <3> DEFINE j == k - 1
    <3>1. j \in Nat /\ j * j + (b - d) * j <= c
      BY <1>11, <1>12, <2>6
    <3> HIDE DEF j
    <3>2. (y - j) * (y - j) >= 0 /\ (y - j) * (y - j) = y * y - j * (2 * y) + j * j
      BY <3>1
    <3>3. j * (2 * y + b - d) = j * (2 * y) + (b - d) * j
      BY <1>3, <2>1, <3>1
    <3>4. /\ j * (2 * y) \in Int /\ (b - d) * j \in Int /\ j * j \in Int /\ y * y \in Int
      BY <1>3, <2>1, <3>1
    <3>5. j * (2 * y + b - d) <= y * y + c
      BY <1>3, <3>1, <3>2, <3>3, <3>4
    <3>6. j <= next_y[y]
      BY <2>2, <2>3, <3>1, <3>5, QuotientAtLeast
    <3> QED
      BY <1>11, <2>4, <2>6, <3>6 DEF j
  <2> QED
    BY <2>5, <2>6
<1>14. result \in Good \cup {None}
  BY <1>3, <1>13, NewtonStays
<1> HIDE DEF result
<1>15. result \in U64 /\ ToU64(result) = result
  BY <1>2, ToU64Bounds
<1>16. result # None
  BY <1>2, <1>15
<1> QED
  BY <1>2, <1>3, <1>10, <1>14, <1>15, <1>16 DEF k

\* Whatever the fees, a swap leaves the pool the root that belongs to the new
\* reserve, before the fees that stay in it.
LEMMA SwapLeavesRoot ==
    ASSUME NEW amp, NEW source_amount, NEW a, NEW b, NEW fees,
           NEW swapped, swapped = swap_to(amp, source_amount, a, b, fees), swapped.ok
    PROVE  LET x == Add64(a, source_amount)
               d == compute_d(amp, a, b)
           IN  /\ x = a + source_amount
               /\ swapped.amount_swapped + swapped.fee <= b - RootY(amp, x, d)
<1> DEFINE x == Add64(a, source_amount)
           d == compute_d(amp, a, b)
           y == compute_y(amp, x, d)
           rest == CheckedSub(b, y)
           dy == CheckedSub(rest, 1)
           fee == trade_fee(fees, dy)
           amount == CheckedSub(dy, fee)
           left == CheckedSub(b, amount)
           new_destination == CheckedSub(left, admin_trade_fee(fees, fee))
<1>1. /\ swapped.ok = (new_destination # None)
      /\ swapped.amount_swapped = amount /\ swapped.fee = fee
  BY DEF swap_to, Exchanged
<1>2. left # None
  <2> HIDE DEF left
  <2>1. new_destination # None => left \in Nat
    BY CheckedSubBounds
  <2>2. new_destination # None
    <3> HIDE DEF new_destination
    <3> QED
      BY <1>1, Zenon
  <2> QED
    BY <2>1, <2>2 DEF None
<1>3. amount \in Nat
  <2> HIDE DEF amount
  <2>1. left # None => amount \in Nat
    BY CheckedSubBounds
  <2> QED
    BY <1>2, <2>1
<1>4. dy \in Nat /\ fee \in Nat /\ amount = dy - fee
  <2> HIDE DEF dy, fee
  <2>1. amount # None
    BY <1>3 DEF None
  <2> QED
    BY <2>1, CheckedSubBounds
<1>5. rest \in Nat /\ dy = rest - 1
  <2> HIDE DEF rest
  <2>1. dy # None
    BY <1>4 DEF None
  <2> QED
    BY <2>1, CheckedSubBounds
<1>6. b \in Nat /\ y \in Nat /\ rest = b - y
  <2> HIDE DEF y
  <2>1. rest # None
    BY <1>5 DEF None
  <2> QED
    BY <2>1, CheckedSubBounds
<1>7. /\ x \in Nat \ {0} /\ d \in Nat /\ amp \in Nat \ {0}
      /\ RootY(amp, x, d) <= y + 1
  <2>1. y # None
    BY <1>6 DEF None
  <2> HIDE DEF x, d
  <2> QED
    BY <2>1, YNeverFarBelow
<1>8. RootY(amp, x, d) \in Nat
  <2> HIDE DEF x, d
  <2> QED
    BY <1>7, RootYIsARoot
<1>9. x = a + source_amount
  <2>1. x # None
    BY <1>7 DEF None
  <2> QED
    BY <2>1, CheckedAddBounds DEF Add64
<1> HIDE DEF x, d, y, rest, dy, fee, amount, left, new_destination
<1>10. swapped.amount_swapped + swapped.fee <= b - RootY(amp, x, d)
  BY <1>1, <1>4, <1>5, <1>6, <1>7, <1>8
<1> QED
  BY <1>9, <1>10 DEF x, d

(***************************************************************************)
(* Conversions and back.                                                   *)
(***************************************************************************)

LEMMA MulDiv192Bounds ==
    ASSUME NEW a, NEW b, NEW c, NEW q, q = ToU64(MulDiv192(a, b, c)), q # None
    PROVE  /\ a \in Nat /\ b \in Nat /\ c \in Nat \ {0} /\ q \in Nat
           /\ q * c <= a * b
<1> DEFINE p == Mul192(a, b)
           r == CheckedDiv(p, c)
<1>1. r \in U64 /\ q = r
  <2>1. q = ToU64(r)
    BY DEF MulDiv192
  <2> HIDE DEF r
  <2> QED
    BY <2>1, ToU64Bounds
<1>2. r # None
  BY <1>1
<1>3. p \in Nat /\ c \in Nat \ {0} /\ r = p \div c
  <2> HIDE DEF p
  <2> QED
    BY <1>2, CheckedDivBounds
<1>4. p # None
  BY <1>3 DEF None
<1>5. a \in Nat /\ b \in Nat /\ p = a * b
  BY <1>4, CheckedMulBounds DEF Mul192
<1> HIDE DEF p, r
<1> QED
  BY <1>1, <1>3, <1>5, NatQuotient

LEMMA CheckedMulDivBounds ==
    ASSUME NEW a, NEW b, NEW c, NEW q,
           q = ToU64(CheckedDiv(CheckedMul(a, b, U128_MAX), c)), q # None
    PROVE  /\ a \in Nat /\ b \in Nat /\ c \in Nat \ {0} /\ q \in Nat
           /\ q * c <= a * b
<1> DEFINE p == CheckedMul(a, b, U128_MAX)
           r == CheckedDiv(p, c)
<1>1. r \in U64 /\ q = r
  <2> HIDE DEF r
  <2> QED
    BY ToU64Bounds DEF r
<1>2. r # None
  BY <1>1
<1>3. p \in Nat /\ c \in Nat \ {0} /\ r = p \div c
  <2> HIDE DEF p
  <2> QED
    BY <1>2, CheckedDivBounds
<1>4. p # None
  BY <1>3 DEF None
<1>5. a \in Nat /\ b \in Nat /\ p = a * b
  BY <1>4, CheckedMulBounds
<1> HIDE DEF p, r
<1> QED
  BY <1>1, <1>3, <1>5, NatQuotient

\* Two quotients that invert each other do not gain.
LEMMA RoundTrip ==
    ASSUME NEW n \in Nat, NEW m \in Nat, NEW x \in Nat, NEW c \in Nat, NEW w \in Nat \ {0},
           n * w <= m * c, m * c <= x * w
    PROVE  n <= x
<1>1. n * w \in Nat /\ x * w \in Nat /\ m * c \in Nat
  BY NatProduct
<1>2. n * w <= x * w
  BY <1>1
<1>3. SUFFICES ASSUME n >= x + 1
               PROVE  FALSE
  OBVIOUS
<1>4. (x + 1) * w <= n * w /\ (x + 1) * w = x * w + w
  BY <1>3, Multiplied
<1> QED
  BY <1>1, <1>2, <1>4

LEMMA WorthBounds ==
    ASSUME NEW n, NEW supply, NEW reserve, NEW fees,
           NEW worth, worth = token_rate(n, supply, reserve, fees).amount, worth # None
    PROVE  /\ n \in Nat /\ reserve \in Nat /\ supply \in Nat \ {0} /\ worth \in Nat
           /\ worth * supply <= n * reserve
<1> DEFINE amount == ToU64(CheckedDiv(CheckedMul(n, reserve, U128_MAX), supply))
           fee == withdraw_fee(fees, amount)
<1>1. worth = CheckedSub(amount, fee)
  BY DEF token_rate
<1>2. amount \in Nat /\ fee \in Nat /\ worth = amount - fee /\ worth \in Nat
  <2> HIDE DEF amount, fee
  <2> QED
    BY <1>1, CheckedSubBounds DEF Option
<1>3. amount # None
  BY <1>2 DEF None
<1>4. /\ n \in Nat /\ reserve \in Nat /\ supply \in Nat \ {0}
      /\ amount * supply <= n * reserve
  <2> HIDE DEF amount
  <2> QED
    BY <1>3, CheckedMulDivBounds DEF amount
<1> HIDE DEF amount, fee
<1>5. worth * supply <= amount * supply
  BY <1>2, <1>4, Multiplied
<1>6. worth * supply \in Nat /\ amount * supply \in Nat /\ n * reserve \in Nat
  BY <1>2, <1>4
<1> QED
  BY <1>2, <1>4, <1>5, <1>6

LEMMA TokensBounds ==
    ASSUME NEW n, NEW supply, NEW reserve,
           NEW tokens, tokens = lp_tokens_excluding_fees(n, supply, reserve), tokens # None
    PROVE  /\ n \in Nat /\ supply \in Nat /\ reserve \in Nat \ {0} /\ tokens \in Nat
           /\ tokens * reserve <= n * supply
  BY CheckedMulDivBounds DEF lp_tokens_excluding_fees

(***************************************************************************)
(* The properties of MCCurve, for all amplification coefficients and       *)
(* reserves.                                                               *)
(***************************************************************************)

\* A pool under evaluation.
CurveTypeOK ==
    pool \in {<< >>} \cup [ amp : Amps, a : 1 .. MaxReserve,
                            b : 1 .. MaxReserve, x : 1 .. MaxReserve ]

LEMMA CurveType == Spec => []CurveTypeOK
<1>1. Init => CurveTypeOK
  BY DEF Init, CurveTypeOK
<1>2. CurveTypeOK /\ [Next]_vars => CurveTypeOK'
  BY DEF CurveTypeOK, Next, Evaluate, Discard, vars
<1> QED
  BY <1>1, <1>2, PTL DEF Spec

LEMMA EvaluatedPool ==
    ASSUME CurveTypeOK, pool # << >>
    PROVE  /\ pool.amp \in Nat \ {0} /\ pool.a \in Nat \ {0}
           /\ pool.b \in Nat \ {0} /\ pool.x \in Nat \ {0}
<1>1. pool \in [ amp : Amps, a : 1 .. MaxReserve, b : 1 .. MaxReserve, x : 1 .. MaxReserve ]
  BY DEF CurveTypeOK
<1>2. /\ pool.amp \in Amps /\ pool.a \in 1 .. MaxReserve
      /\ pool.b \in 1 .. MaxReserve /\ pool.x \in 1 .. MaxReserve
  BY <1>1
<1>3. Amps \subseteq Nat \ {0} /\ 1 .. MaxReserve \subseteq Nat \ {0}
  BY MCCurveAssumption
<1> QED
  BY <1>2, <1>3

\* compute_d never stops below the root of the StableSwap equation: no rounding
\* and no early end of the loop lets it understate what the pool holds.
THEOREM DIsNeverBelowTheRoot == Spec => []DNeverBelowRoot
<1>1. CurveTypeOK => DNeverBelowRoot
  <2> SUFFICES ASSUME CurveTypeOK, pool # << >>,
                      compute_d(pool.amp, pool.a, pool.b) # None
               PROVE  RootD(pool.amp, pool.a, pool.b)
                        <= compute_d(pool.amp, pool.a, pool.b)
    BY DEF DNeverBelowRoot
  <2> QED
    BY EvaluatedPool, DNeverBelow
<1> QED
  BY <1>1, CurveType, PTL

\* A swap never takes so much of the other token, fees included, that less than
\* the exact reserve of the StableSwap equation is left.
THEOREM SwapsNeverOverpay == Spec => []SwapNeverOverpays
<1>1. CurveTypeOK => SwapNeverOverpays
  <2> DEFINE d == compute_d(pool.amp, pool.a, pool.b)
             swapped == swap_to(pool.amp, pool.x, pool.a, pool.b, MODEL_FEES)
  <2> SUFFICES ASSUME CurveTypeOK, pool # << >>, swapped.ok
               PROVE  swapped.amount_swapped + swapped.fee
                        <= pool.b - RootY(pool.amp, pool.a + pool.x, d)
    BY DEF SwapNeverOverpays
  <2>1. /\ Add64(pool.a, pool.x) = pool.a + pool.x
        /\ swapped.amount_swapped + swapped.fee
             <= pool.b - RootY(pool.amp, Add64(pool.a, pool.x), d)
    BY SwapLeavesRoot
  <2> QED
    BY <2>1
<1> QED
  BY <1>1, CurveType, PTL

\* The virtual price of an amount of LP tokens, turned back into LP tokens, is
\* never more of them: both conversions of SaberSwap round downward.
THEOREM PriceRoundTrips == Spec => []PriceRoundTripCreatesNothing
<1>1. ASSUME NEW amp, NEW x \in Nat, NEW supply, NEW a, NEW b
      PROVE  pool_tokens_from_virtual_amount(amp,
                 virtual_price_of_pool_tokens(amp, x, supply, a, b), supply, a, b) <= x
  <2> DEFINE d == compute_d(amp, a, b)
             virtual == virtual_price_of_pool_tokens(amp, x, supply, a, b)
             tokens == pool_tokens_from_virtual_amount(amp, virtual, supply, a, b)
  <2>1. virtual = ToU64(MulDiv192(d, x, supply)) /\ tokens = ToU64(MulDiv192(virtual, supply, d))
    BY DEF virtual_price_of_pool_tokens, pool_tokens_from_virtual_amount
  <2> HIDE DEF d, virtual, tokens
  <2>2. CASE tokens = None
    BY <2>2 DEF None, tokens, virtual
  <2>3. CASE tokens # None
    <3>1. /\ virtual \in Nat /\ supply \in Nat /\ d \in Nat \ {0} /\ tokens \in Nat
          /\ tokens * d <= virtual * supply
      BY <2>1, <2>3, MulDiv192Bounds
    <3>2. virtual # None
      BY <3>1 DEF None
    <3>3. virtual * supply <= d * x
      BY <2>1, <3>2, MulDiv192Bounds
    <3>4. d * x = x * d
      BY <3>1
    <3>5. tokens <= x
      BY <3>1, <3>3, <3>4, RoundTrip
    <3> QED
      BY <3>5 DEF tokens, virtual
  <2> QED
    BY <2>2, <2>3
<1>2. CurveTypeOK => PriceRoundTripCreatesNothing
  <2> SUFFICES ASSUME CurveTypeOK, pool # << >>
               PROVE  PriceRoundTripCreatesNothing
    BY DEF PriceRoundTripCreatesNothing
  <2>1. pool.x \in Nat
    BY EvaluatedPool
  <2> QED
    BY <1>1, <2>1 DEF PriceRoundTripCreatesNothing
<1> QED
  BY <1>2, CurveType, PTL

\* Neither direction of PoolTokenConverter, followed by the other, ends with more
\* than it started from.
THEOREM ConversionsRoundTrip == Spec => []ConversionsCreateNothing
<1>1. ASSUME NEW x \in Nat, NEW supply, NEW reserve, NEW fees
      PROVE  /\ token_rate(lp_tokens_excluding_fees(x, supply, reserve),
                           supply, reserve, fees).amount <= x
             /\ lp_tokens_excluding_fees(token_rate(x, supply, reserve, fees).amount,
                                         supply, reserve) <= x
  <2>1. token_rate(lp_tokens_excluding_fees(x, supply, reserve),
                   supply, reserve, fees).amount <= x
    <3> DEFINE tokens == lp_tokens_excluding_fees(x, supply, reserve)
               worth == token_rate(tokens, supply, reserve, fees).amount
    <3> SUFFICES worth <= x
      OBVIOUS
    <3>1. CASE worth = None
      <4> HIDE DEF worth
      <4> QED
        BY <3>1 DEF None
    <3>2. CASE worth # None
      <4>1. /\ tokens \in Nat /\ reserve \in Nat /\ supply \in Nat \ {0} /\ worth \in Nat
            /\ worth * supply <= tokens * reserve
        <5> HIDE DEF tokens
        <5> QED
          BY <3>2, WorthBounds
      <4>2. tokens # None
        BY <4>1 DEF None
      <4>3. tokens * reserve <= x * supply
        BY <4>2, TokensBounds
      <4> HIDE DEF tokens, worth
      <4> QED
        BY <4>1, <4>3, RoundTrip
    <3> HIDE DEF worth
    <3> QED
      BY <3>1, <3>2
  <2>2. lp_tokens_excluding_fees(token_rate(x, supply, reserve, fees).amount,
                                 supply, reserve) <= x
    <3> DEFINE worth == token_rate(x, supply, reserve, fees).amount
               tokens == lp_tokens_excluding_fees(worth, supply, reserve)
    <3> SUFFICES tokens <= x
      OBVIOUS
    <3>1. CASE tokens = None
      <4> HIDE DEF tokens
      <4> QED
        BY <3>1 DEF None
    <3>2. CASE tokens # None
      <4>1. /\ worth \in Nat /\ supply \in Nat /\ reserve \in Nat \ {0} /\ tokens \in Nat
            /\ tokens * reserve <= worth * supply
        <5> HIDE DEF worth
        <5> QED
          BY <3>2, TokensBounds
      <4>2. worth # None
        BY <4>1 DEF None
      <4>3. worth * supply <= x * reserve
        BY <4>2, WorthBounds
      <4> HIDE DEF tokens, worth
      <4> QED
        BY <4>1, <4>3, RoundTrip
    <3> HIDE DEF tokens
    <3> QED
      BY <3>1, <3>2
  <2> QED
    BY <2>1, <2>2
<1>2. CurveTypeOK => ConversionsCreateNothing
  <2> SUFFICES ASSUME CurveTypeOK, pool # << >>
               PROVE  ConversionsCreateNothing
    BY DEF ConversionsCreateNothing
  <2>1. pool.x \in Nat
    BY EvaluatedPool
  <2> QED
    BY <1>1, <2>1 DEF ConversionsCreateNothing
<1> QED
  BY <1>2, CurveType, PTL

=============================================================================
