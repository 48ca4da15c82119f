--------------------------- MODULE HistoryProofs ---------------------------
(***************************************************************************)
(* Theorems about MCAdmin's properties of the past, for all values of its  *)
(* constants: how far the coefficient moves within a MIN_RAMP_DURATION,    *)
(* and who named the admin that takes over.                                *)
(***************************************************************************)
EXTENDS MCAdmin, AdminProofs

(***************************************************************************)
(* How far a ramp carries the coefficient in part of a MIN_RAMP_DURATION.  *)
(* A ramp is linear, at least that long and at most by a factor of ten, so *)
(* that k seconds change it by at most 9 * k parts in MIN_RAMP_DURATION of *)
(* its smaller end.                                                        *)
(***************************************************************************)

\* x is a coefficient recorded k seconds before or after m: a ramp up to m leaves
\* at least, a ramp down to m at most so much of it, up to a rounding of one unit.
Near(x, m, k) ==
    /\ m * (10 * MIN_RAMP_DURATION - 9 * k) <= 10 * MIN_RAMP_DURATION * (x + 1)
    /\ MIN_RAMP_DURATION * x <= m * (MIN_RAMP_DURATION + 9 * k) + MIN_RAMP_DURATION

LEMMA Cancel ==
    ASSUME NEW a \in Int, NEW b \in Int, NEW c \in Nat \ {0}, c * a <= c * b
    PROVE  a <= b
<1>1. SUFFICES ASSUME a - b >= 1
               PROVE  FALSE
  OBVIOUS
<1>2. c * (a - b) >= c /\ c * (a - b) = c * a - c * b
  BY <1>1
<1>3. c * a \in Int /\ c * b \in Int
  OBVIOUS
<1> QED
  BY <1>2, <1>3

LEMMA Scale ==
    ASSUME NEW a \in Int, NEW b \in Int, NEW c \in Nat, a <= b
    PROVE  a * c <= b * c
<1>1. (b - a) * c >= 0 /\ (b - a) * c = b * c - a * c
  OBVIOUS
<1>2. a * c \in Int /\ b * c \in Int
  OBVIOUS
<1> QED
  BY <1>1, <1>2

\* A quotient of compute_amp_factor: r is the range, n of l seconds have passed.
LEMMA PartBounds ==
    ASSUME NEW r \in Nat, NEW n \in Nat, NEW l \in Nat \ {0}
    PROVE  /\ (r * n) \div l \in Nat
           /\ ((r * n) \div l) * l <= r * n
           /\ r * n < ((r * n) \div l + 1) * l
<1>1. r * n \in Nat
  OBVIOUS
<1>2. \A t \in Nat, c \in Nat \ {0} : /\ t \div c \in Nat
                                      /\ (t \div c) * c <= t
                                      /\ t < (t \div c + 1) * c
  OBVIOUS
<1> QED
  BY <1>1, <1>2

\* On a ramp upward from i, n seconds after its start and k seconds before that.
LEMMA NearUp ==
    ASSUME NEW D \in Nat \ {0}, NEW i \in Nat, NEW r \in Nat, r <= 9 * i,
           NEW l \in Nat, NEW n \in Nat, D <= n, n <= l,
           NEW k \in Nat, k <= n,
           NEW p \in Nat, p * l <= r * n,
           NEW q \in Nat, r * (n - k) < (q + 1) * l
    PROVE  (i + p) * (10 * D - 9 * k) <= 10 * D * (i + q + 1)
<1>1. l \in Nat \ {0}
  OBVIOUS
<1>2. D * r <= 9 * (i * l) + 9 * (r * n) - 9 * (D * r)
  <2>1. r * l <= (9 * i) * l
    BY Scale
  <2>2. D * r <= l * r /\ D * r <= n * r
    BY Scale
  <2>3. r * l \in Int /\ i * l \in Int /\ D * r \in Int /\ n * r \in Int /\ r * n \in Int
    OBVIOUS
  <2>4. l * r = r * l /\ n * r = r * n /\ (9 * i) * l = 9 * (i * l)
    OBVIOUS
  <2> QED
    BY <2>1, <2>2, <2>3, <2>4
<1>3. k * (D * r) <= k * (9 * (i * l) + 9 * (r * n) - 9 * (D * r))
  <2>1. D * r \in Int /\ 9 * (i * l) + 9 * (r * n) - 9 * (D * r) \in Int
    OBVIOUS
  <2>2. (D * r) * k <= (9 * (i * l) + 9 * (r * n) - 9 * (D * r)) * k
    BY <1>2, <2>1, Scale
  <2> QED
    BY <2>1, <2>2
<1>4. (i * l + p * l) * (10 * D - 9 * k) <= (10 * D) * (i * l + (q + 1) * l)
  <2>1. CASE 10 * D - 9 * k >= 0
    <3>1. 10 * D - 9 * k \in Nat /\ p * l \in Int /\ r * n \in Int
      BY <2>1
    <3>2. (i * l + p * l) * (10 * D - 9 * k) <= (i * l + r * n) * (10 * D - 9 * k)
      BY <3>1, Scale
    <3>3. (i * l + r * n) * (10 * D - 9 * k) <= (10 * D) * (i * l + r * (n - k))
      <4>1. (i * l + r * n) * (10 * D - 9 * k)
              = 10 * (D * i * l) + 10 * (D * r * n) - 9 * (k * i * l) - 9 * (k * r * n)
        OBVIOUS
      <4>2. (10 * D) * (i * l + r * (n - k))
              = 10 * (D * i * l) + 10 * (D * r * n) - 10 * (D * r * k)
        OBVIOUS
      <4>3. /\ k * (D * r) = D * r * k
            /\ k * (9 * (i * l) + 9 * (r * n) - 9 * (D * r))
                 = 9 * (k * i * l) + 9 * (k * r * n) - 9 * (D * r * k)
        OBVIOUS
      <4>4. /\ D * i * l \in Int /\ D * r * n \in Int /\ k * i * l \in Int
            /\ k * r * n \in Int /\ D * r * k \in Int
        OBVIOUS
      <4> QED
        BY <1>3, <4>1, <4>2, <4>3, <4>4
    <3>4. (10 * D) * (i * l + r * (n - k)) <= (10 * D) * (i * l + (q + 1) * l)
      <4>1. (i * l + r * (n - k)) * (10 * D) <= (i * l + (q + 1) * l) * (10 * D)
        BY Scale
      <4> QED
        BY <4>1
    <3>5. /\ (i * l + p * l) * (10 * D - 9 * k) \in Int
          /\ (i * l + r * n) * (10 * D - 9 * k) \in Int
          /\ (10 * D) * (i * l + r * (n - k)) \in Int
          /\ (10 * D) * (i * l + (q + 1) * l) \in Int
      OBVIOUS
    <3> QED
      BY <3>2, <3>3, <3>4, <3>5
  <2>2. CASE 10 * D - 9 * k < 0
    <3>1. 9 * k - 10 * D \in Nat /\ i * l + p * l \in Nat
      BY <2>2
    <3>2. (i * l + p * l) * (9 * k - 10 * D) \in Nat
      BY <3>1
    <3>3. (i * l + p * l) * (9 * k - 10 * D) = - ((i * l + p * l) * (10 * D - 9 * k))
      OBVIOUS
    <3>4. (10 * D) * (i * l + (q + 1) * l) \in Nat
      OBVIOUS
    <3> QED
      BY <3>2, <3>3, <3>4
  <2> QED
    BY <2>1, <2>2
<1>5. /\ l * ((i + p) * (10 * D - 9 * k)) = (i * l + p * l) * (10 * D - 9 * k)
      /\ l * (10 * D * (i + q + 1)) = (10 * D) * (i * l + (q + 1) * l)
  OBVIOUS
<1>6. (i + p) * (10 * D - 9 * k) \in Int /\ 10 * D * (i + q + 1) \in Int
  OBVIOUS
<1> QED
  BY <1>1, <1>4, <1>5, <1>6, Cancel

\* On a ramp downward from i, n seconds after its start and k seconds before that.
LEMMA NearDown ==
    ASSUME NEW D \in Nat \ {0}, NEW i \in Nat, NEW r \in Nat, 10 * r <= 9 * i,
           NEW l \in Nat, NEW n \in Nat, D <= l, n <= l,
           NEW k \in Nat, k <= n,
           NEW p \in Nat, p * l <= r * n,
           NEW q \in Nat, r * (n - k) < (q + 1) * l
    PROVE  D * (i - q) <= (i - p) * (D + 9 * k) + D
<1>1. l \in Nat \ {0}
  OBVIOUS
<1>2. D * r <= 9 * (i * l) - 9 * (r * n)
  <2>1. (10 * r) * l <= (9 * i) * l
    BY Scale
  <2>2. D * r <= l * r /\ n * r <= l * r
    BY Scale
  <2>3. r * l \in Int /\ i * l \in Int /\ D * r \in Int /\ n * r \in Int /\ r * n \in Int
    OBVIOUS
  <2>4. l * r = r * l /\ n * r = r * n /\ (9 * i) * l = 9 * (i * l)
        /\ (10 * r) * l = 10 * (r * l)
    OBVIOUS
  <2> QED
    BY <2>1, <2>2, <2>3, <2>4
<1>3. (D * r) * k <= (9 * (i * l) - 9 * (r * n)) * k
  <2>1. D * r \in Int /\ 9 * (i * l) - 9 * (r * n) \in Int
    OBVIOUS
  <2> QED
    BY <1>2, <2>1, Scale
<1>4. D * (i * l + l - r * (n - k)) <= (i * l - r * n) * (D + 9 * k) + D * l
  <2>1. /\ D * (i * l + l - r * (n - k)) = D * i * l + D * l - D * r * n + D * r * k
        /\ (i * l - r * n) * (D + 9 * k) + D * l
             = D * i * l - D * r * n + 9 * (k * i * l) - 9 * (k * r * n) + D * l
        /\ (D * r) * k = D * r * k
        /\ (9 * (i * l) - 9 * (r * n)) * k = 9 * (k * i * l) - 9 * (k * r * n)
    OBVIOUS
  <2>2. /\ D * i * l \in Int /\ D * r * n \in Int /\ k * i * l \in Int
        /\ k * r * n \in Int /\ D * r * k \in Int /\ D * l \in Int
    OBVIOUS
  <2> QED
    BY <1>3, <2>1, <2>2
<1>5. D * (i * l - q * l) <= D * (i * l + l - r * (n - k))
  <2>1. (q + 1) * l = q * l + l /\ q * l \in Int /\ i * l \in Int /\ r * (n - k) \in Int
    OBVIOUS
  <2>2. i * l - q * l <= i * l + l - r * (n - k)
    BY <2>1
  <2>3. (i * l - q * l) * D <= (i * l + l - r * (n - k)) * D
    BY <2>1, <2>2, Scale
  <2> QED
    BY <2>1, <2>3
<1>6. (i * l - r * n) * (D + 9 * k) <= (i * l - p * l) * (D + 9 * k)
  <2>1. i * l - r * n <= i * l - p * l /\ i * l - r * n \in Int /\ i * l - p * l \in Int
        /\ D + 9 * k \in Nat
    OBVIOUS
  <2> QED
    BY <2>1, Scale
<1>7. /\ l * (D * (i - q)) = D * (i * l - q * l)
      /\ l * ((i - p) * (D + 9 * k) + D) = (i * l - p * l) * (D + 9 * k) + D * l
  OBVIOUS
<1>8. /\ D * (i - q) \in Int /\ (i - p) * (D + 9 * k) + D \in Int
      /\ D * (i * l - q * l) \in Int
      /\ D * (i * l + l - r * (n - k)) \in Int
      /\ (i * l - r * n) * (D + 9 * k) \in Int /\ D * l \in Int
      /\ (i * l - p * l) * (D + 9 * k) \in Int
  OBVIOUS
<1>9. l * (D * (i - q)) <= l * ((i - p) * (D + 9 * k) + D)
  BY <1>4, <1>5, <1>6, <1>7, <1>8
<1> QED
  BY <1>1, <1>8, <1>9, Cancel

LEMMA NearItself ==
    ASSUME NEW m \in Nat, NEW k \in Nat
    PROVE  Near(m, m, k)
<1> DEFINE D == MIN_RAMP_DURATION
<1>1. D \in Nat
  BY AmpAssumption
<1>2. /\ m * (10 * D - 9 * k) = 10 * (D * m) - 9 * (m * k)
      /\ 10 * D * (m + 1) = 10 * (D * m) + 10 * D
      /\ m * (D + 9 * k) = D * m + 9 * (m * k)
      /\ m * k \in Nat /\ D * m \in Nat
  BY <1>1
<1> QED
  BY <1>1, <1>2 DEF Near

LEMMA NearLonger ==
    ASSUME NEW x \in Nat, NEW m \in Nat, NEW k \in Nat, NEW j \in Nat, j <= k, Near(x, m, j)
    PROVE  Near(x, m, k)
<1> DEFINE D == MIN_RAMP_DURATION
<1>1. D \in Nat
  BY AmpAssumption
<1>2. j * m <= k * m
  BY Scale
<1>3. /\ m * (10 * D - 9 * k) = 10 * (D * m) - 9 * (k * m)
      /\ m * (10 * D - 9 * j) = 10 * (D * m) - 9 * (j * m)
      /\ m * (D + 9 * k) = D * m + 9 * (k * m)
      /\ m * (D + 9 * j) = D * m + 9 * (j * m)
      /\ j * m \in Int /\ k * m \in Int /\ D * m \in Int
      /\ 10 * D * (x + 1) \in Int /\ D * x \in Int
  BY <1>1
<1>4. /\ m * (10 * D - 9 * j) <= 10 * D * (x + 1)
      /\ D * x <= m * (D + 9 * j) + D
  BY DEF Near
<1>5. /\ m * (10 * D - 9 * k) <= 10 * D * (x + 1)
      /\ D * x <= m * (D + 9 * k) + D
  <2> HIDE DEF D
  <2> QED
    BY <1>1, <1>2, <1>3, <1>4
<1> QED
  BY <1>5 DEF Near

\* A ramp that RampA starts, or a coefficient at rest.
ProperRamp(i, g, s, e) ==
    i # g => /\ e - s >= MIN_RAMP_DURATION
             /\ i <= 10 * g
             /\ g <= 10 * i

\* The values of compute_amp_factor on the way, as an end and a quotient.
LEMMA WholePart ==
    ASSUME NEW r \in Nat, NEW t \in Nat \ {0}
    PROVE  (r * t) \div t = r
  OBVIOUS

LEMMA AmpUp ==
    ASSUME NEW i \in Nat, NEW g \in Nat, g >= i,
           NEW c \in Nat, NEW s \in Nat, NEW e \in Nat, s <= c, c <= e, s < e
    PROVE  compute_amp_factor(i, g, c, s, e) = i + ((g - i) * (c - s)) \div (e - s)
<1>1. CASE c < e
  BY <1>1 DEF compute_amp_factor
<1>2. CASE c = e
  <2>1. ((g - i) * (e - s)) \div (e - s) = g - i
    <3>1. g - i \in Nat /\ e - s \in Nat \ {0}
      OBVIOUS
    <3> QED
      BY <3>1, WholePart
  <2>2. compute_amp_factor(i, g, c, s, e) = g
    BY <1>2 DEF compute_amp_factor
  <2> QED
    BY <1>2, <2>1, <2>2
<1> QED
  BY <1>1, <1>2

LEMMA AmpDown ==
    ASSUME NEW i \in Nat, NEW g \in Nat, g < i,
           NEW c \in Nat, NEW s \in Nat, NEW e \in Nat, s <= c, c <= e, s < e
    PROVE  compute_amp_factor(i, g, c, s, e) = i - ((i - g) * (c - s)) \div (e - s)
<1>1. CASE c < e
  BY <1>1 DEF compute_amp_factor
<1>2. CASE c = e
  <2>1. ((i - g) * (e - s)) \div (e - s) = i - g
    <3>1. i - g \in Nat /\ e - s \in Nat \ {0}
      OBVIOUS
    <3> QED
      BY <3>1, WholePart
  <2>2. compute_amp_factor(i, g, c, s, e) = g
    BY <1>2 DEF compute_amp_factor
  <2> QED
    BY <1>2, <2>1, <2>2
<1> QED
  BY <1>1, <1>2

\* Looking back from a moment at which a ramp could be replaced.
LEMMA AmpNear ==
    ASSUME NEW i \in Nat, NEW g \in Nat, NEW s \in Nat, NEW e \in Nat, s <= e,
           ProperRamp(i, g, s, e),
           NEW c \in Nat, c - s >= MIN_RAMP_DURATION,
           NEW k \in Nat, k <= MIN_RAMP_DURATION
    PROVE  Near(compute_amp_factor(i, g, c - k, s, e), compute_amp_factor(i, g, c, s, e), k)
<1> DEFINE D == MIN_RAMP_DURATION
           A(t) == compute_amp_factor(i, g, t, s, e)
<1>1. D \in Nat \ {0} /\ c - k \in Nat /\ s <= c - k
  BY AmpAssumption
<1>2. \A t \in Nat : s <= t => A(t) \in Nat /\ Between(A(t), i, g) /\ (t >= e => A(t) = g)
  <2> SUFFICES ASSUME NEW t \in Nat, s <= t
               PROVE  A(t) \in Nat /\ Between(A(t), i, g) /\ (t >= e => A(t) = g)
    OBVIOUS
  <2>1. compute_amp_factor(i, g, t, s, e) \in Nat
    BY AmpBetweenEnds
  <2>2. Between(compute_amp_factor(i, g, t, s, e), i, g)
    BY AmpBetweenEnds, Zenon
  <2>3. t >= e => compute_amp_factor(i, g, t, s, e) = g
    BY AmpBetweenEnds
  <2> QED
    BY <2>1, <2>2, <2>3
<1>3. CASE i = g
  <2>1. A(c - k) = i /\ A(c) = i
    BY <1>1, <1>2, <1>3 DEF Between
  <2> QED
    BY <2>1, NearItself
\* The same from a moment up to the end of the ramp.
<1>4. ASSUME i # g, NEW t \in Nat, t - s >= D, t <= e, NEW j \in Nat, j <= D
      PROVE  Near(A(t - j), A(t), j)
  <2> DEFINE r == IF g >= i THEN g - i ELSE i - g
             l == e - s
             n == t - s
             p == (r * n) \div l
             q == (r * (n - j)) \div l
  <2>1. /\ r \in Nat /\ l \in Nat \ {0} /\ n \in Nat /\ D <= n /\ n <= l /\ j <= n
        /\ n - j \in Nat /\ t - j \in Nat /\ s <= t - j /\ s < e /\ D <= l /\ s <= t
        /\ t - j <= e /\ (t - j) - s = n - j
    BY <1>1, <1>4
  <2>2. /\ p \in Nat /\ p * l <= r * n
        /\ q \in Nat /\ r * (n - j) < (q + 1) * l
    <3> HIDE DEF r, l, n
    <3> QED
      BY <2>1, PartBounds
  <2>3. /\ g >= i => A(t) = i + p /\ A(t - j) = i + q /\ r = g - i
        /\ g < i  => A(t) = i - p /\ A(t - j) = i - q /\ r = i - g
    <3>1. ASSUME g >= i
          PROVE  A(t) = i + p /\ A(t - j) = i + q /\ r = g - i
      <4>1. A(t) = i + ((g - i) * (t - s)) \div (e - s)
        BY <1>4, <2>1, <3>1, AmpUp
      <4>2. A(t - j) = i + ((g - i) * ((t - j) - s)) \div (e - s)
        BY <2>1, <3>1, AmpUp
      <4>3. r = g - i
        BY <3>1
      <4> HIDE DEF A
      <4> QED
        BY <2>1, <4>1, <4>2, <4>3
    <3>2. ASSUME g < i
          PROVE  A(t) = i - p /\ A(t - j) = i - q /\ r = i - g
      <4>1. A(t) = i - ((i - g) * (t - s)) \div (e - s)
        BY <1>4, <2>1, <3>2, AmpDown
      <4>2. A(t - j) = i - ((i - g) * ((t - j) - s)) \div (e - s)
        BY <2>1, <3>2, AmpDown
      <4>3. r = i - g
        BY <3>2
      <4> HIDE DEF A
      <4> QED
        BY <2>1, <4>1, <4>2, <4>3
    <3> QED
      BY <3>1, <3>2
  <2>4. A(t) \in Nat /\ A(t - j) \in Nat
    BY <1>2, <1>4, <2>1
  <2>5. i <= 10 * g /\ g <= 10 * i
    BY <1>4 DEF ProperRamp
  <2> DEFINE m == A(t)
             x == A(t - j)
  <2>6. CASE g >= i
    <3>1. r <= 9 * i /\ m = i + p /\ x = i + q
      BY <2>3, <2>5, <2>6
    <3>2. x <= m
      <4>1. q <= p
        <5>1. n - j <= n
          BY <1>4, <2>1
        <5> HIDE DEF r, l, n
        <5> QED
          BY <1>4, <2>1, <5>1, PartMonotone
      <4> HIDE DEF p, q, x, m
      <4> QED
        BY <2>2, <3>1, <4>1
    <3> HIDE DEF r, l, n, p, q, x, m, A
    <3>3. m * (10 * D - 9 * j) <= 10 * D * (x + 1)
      <4>1. (i + p) * (10 * D - 9 * j) <= 10 * D * (i + q + 1)
        BY <1>1, <1>4, <2>1, <2>2, <3>1, NearUp
      <4> QED
        BY <3>1, <4>1
    <3>4. D * x <= m * (D + 9 * j) + D
      <4>1. m \in Nat /\ x \in Nat
        BY <2>4 DEF m, x
      <4>2. x * D <= m * D
        BY <1>1, <3>2, <4>1, Scale
      <4>3. m * (D + 9 * j) = m * D + 9 * (m * j) /\ m * j \in Nat /\ m * D \in Nat
            /\ D * x = x * D /\ x * D \in Nat
        BY <1>1, <1>4, <4>1
      <4> QED
        BY <1>1, <4>2, <4>3
    <3> QED
      BY <3>3, <3>4 DEF Near, m, x
  <2>7. CASE g < i
    <3>1. 10 * r <= 9 * i /\ m = i - p /\ x = i - q
      BY <2>3, <2>5, <2>7
    <3>2. m <= x
      <4>1. q <= p
        <5>1. n - j <= n
          BY <1>4, <2>1
        <5> HIDE DEF r, l, n
        <5> QED
          BY <1>4, <2>1, <5>1, PartMonotone
      <4> HIDE DEF p, q, x, m
      <4> QED
        BY <2>2, <3>1, <4>1
    <3> HIDE DEF r, l, n, p, q, x, m, A
    <3>3. D * x <= m * (D + 9 * j) + D
      <4>1. D * (i - q) <= (i - p) * (D + 9 * j) + D
        BY <1>1, <1>4, <2>1, <2>2, <3>1, NearDown
      <4> QED
        BY <3>1, <4>1
    <3>4. m * (10 * D - 9 * j) <= 10 * D * (x + 1)
      <4>1. m \in Nat /\ x \in Nat
        BY <2>4 DEF m, x
      <4>2. m * D <= x * D
        BY <1>1, <3>2, <4>1, Scale
      <4>3. m * (10 * D - 9 * j) = 10 * (m * D) - 9 * (m * j) /\ m * j \in Nat /\ m * D \in Nat
            /\ 10 * D * (x + 1) = 10 * (x * D) + 10 * D /\ x * D \in Nat
        BY <1>1, <1>4, <4>1
      <4> QED
        BY <1>1, <4>2, <4>3
    <3> QED
      BY <3>3, <3>4 DEF Near, m, x
  <2> QED
    BY <2>6, <2>7
<1>5. CASE i # g /\ c <= e
  BY <1>4, <1>5
<1>6. CASE i # g /\ c > e /\ c - k >= e
  <2>1. A(c - k) = g /\ A(c) = g
    BY <1>1, <1>2, <1>6
  <2> QED
    BY <2>1, NearItself
<1>7. CASE i # g /\ c > e /\ c - k < e
  <2> DEFINE j == e - (c - k)
  <2>1. j \in Nat /\ j <= k /\ j <= D /\ e - j = c - k
    BY <1>1, <1>7
  <2>2. e - s >= D
    BY <1>7 DEF ProperRamp
  <2>3. Near(A(e - j), A(e), j)
    <3> HIDE DEF A, j
    <3> QED
      BY <1>4, <1>7, <2>1, <2>2
  <2>4. A(e) = g /\ A(c) = g /\ A(c - k) \in Nat
    BY <1>1, <1>2, <1>7
  <2> HIDE DEF A, j
  <2> QED
    BY <2>1, <2>3, <2>4, NearLonger DEF A
<1> QED
  BY <1>3, <1>5, <1>6, <1>7

(***************************************************************************)
(* Two recorded values at most a MIN_RAMP_DURATION apart.                  *)
(***************************************************************************)

\* Both on one ramp.
LEMMA WithinOneRamp ==
    ASSUME NEW i \in Nat, NEW g \in Nat, NEW s \in Nat, NEW e \in Nat, ProperRamp(i, g, s, e),
           NEW x \in Nat, Between(x, i, g), NEW y \in Nat, Between(y, i, g)
    PROVE  x <= 10 * (y + 1)
<1>1. CASE i = g
  BY <1>1 DEF Between
<1>2. CASE i # g
  <2>1. i <= 10 * g /\ g <= 10 * i
    BY <1>2 DEF ProperRamp
  <2> QED
    BY <2>1 DEF Between
<1> QED
  BY <1>1, <1>2

\* In the first n seconds of a ramp.
LEMMA FirstUp ==
    ASSUME NEW D \in Nat \ {0}, NEW i \in Nat, NEW r \in Nat, r <= 9 * i,
           NEW l \in Nat, D <= l, NEW n \in Nat,
           NEW p \in Nat, p * l <= r * n
    PROVE  D * (i + p) <= i * (D + 9 * n)
<1>1. p * D <= p * l
  <2>1. D * p <= l * p
    BY Scale
  <2> QED
    BY <2>1
<1>2. r * n <= (9 * i) * n
  BY Scale
<1>3. /\ D * (i + p) = D * i + p * D
      /\ i * (D + 9 * n) = D * i + (9 * i) * n
      /\ D * i \in Int /\ p * D \in Int /\ (9 * i) * n \in Int /\ p * l \in Int /\ r * n \in Int
  OBVIOUS
<1> QED
  BY <1>1, <1>2, <1>3

LEMMA FirstDown ==
    ASSUME NEW D \in Nat \ {0}, NEW i \in Nat, NEW r \in Nat, 10 * r <= 9 * i,
           NEW l \in Nat, D <= l, NEW n \in Nat,
           NEW p \in Nat, p * l <= r * n
    PROVE  i * (10 * D - 9 * n) <= 10 * D * (i - p)
<1>1. p * D <= p * l
  <2>1. D * p <= l * p
    BY Scale
  <2> QED
    BY <2>1
<1>2. (10 * r) * n <= (9 * i) * n
  BY Scale
<1>3. /\ 10 * D * (i - p) = 10 * (D * i) - 10 * (p * D)
      /\ i * (10 * D - 9 * n) = 10 * (D * i) - (9 * i) * n
      /\ (10 * r) * n = 10 * (r * n)
      /\ D * i \in Int /\ p * D \in Int /\ (9 * i) * n \in Int /\ p * l \in Int /\ r * n \in Int
  OBVIOUS
<1> QED
  BY <1>1, <1>2, <1>3

\* y from a seconds before a ramp from i, x from n seconds after its start.
LEMMA AcrossUp ==
    ASSUME NEW D \in Nat \ {0}, NEW i \in Nat, NEW x \in Nat, NEW y \in Nat,
           NEW a \in Nat, NEW n \in Nat, a + n <= D,
           i * (10 * D - 9 * a) <= 10 * D * (y + 1),
           D * y <= i * (D + 9 * a) + D,
           i <= x, D * x <= i * (D + 9 * n)
    PROVE  x <= 10 * (y + 1) /\ y <= 10 * (x + 1)
<1>1. D * x <= D * (10 * (y + 1))
  <2>1. (D + 9 * n) * i <= (10 * D - 9 * a) * i
    BY Scale
  <2>2. /\ i * (D + 9 * n) = (D + 9 * n) * i
        /\ i * (10 * D - 9 * a) = (10 * D - 9 * a) * i
        /\ D * (10 * (y + 1)) = 10 * D * (y + 1)
        /\ (D + 9 * n) * i \in Int /\ (10 * D - 9 * a) * i \in Int
        /\ D * x \in Int /\ 10 * D * (y + 1) \in Int
    OBVIOUS
  <2> QED
    BY <2>1, <2>2
<1>2. D * y <= D * (10 * (x + 1))
  <2>1. (D + 9 * a) * i <= (10 * D) * i
    BY Scale
  <2>2. i * (10 * D) <= x * (10 * D)
    BY Scale
  <2>3. /\ i * (D + 9 * a) = (D + 9 * a) * i
        /\ (10 * D) * i = i * (10 * D)
        /\ D * (10 * (x + 1)) = x * (10 * D) + 10 * D
        /\ (D + 9 * a) * i \in Int /\ i * (10 * D) \in Int /\ x * (10 * D) \in Int
        /\ D * y \in Int
    OBVIOUS
  <2> QED
    BY <2>1, <2>2, <2>3
<1> QED
  BY <1>1, <1>2, Cancel

LEMMA AcrossDown ==
    ASSUME NEW D \in Nat \ {0}, NEW i \in Nat, NEW x \in Nat, NEW y \in Nat,
           NEW a \in Nat, NEW n \in Nat, a + n <= D,
           i * (10 * D - 9 * a) <= 10 * D * (y + 1),
           D * y <= i * (D + 9 * a) + D,
           x <= i, i * (10 * D - 9 * n) <= 10 * D * x
    PROVE  x <= 10 * (y + 1) /\ y <= 10 * (x + 1)
<1>1. D * x <= D * (10 * (y + 1))
  <2>1. D * i <= (10 * D - 9 * a) * i
    BY Scale
  <2>2. x * D <= i * D
    BY Scale
  <2>3. /\ i * (10 * D - 9 * a) = (10 * D - 9 * a) * i
        /\ D * (10 * (y + 1)) = 10 * D * (y + 1)
        /\ D * i = i * D /\ D * x = x * D
        /\ i * D \in Int /\ x * D \in Int /\ (10 * D - 9 * a) * i \in Int
        /\ 10 * D * (y + 1) \in Int
    OBVIOUS
  <2> QED
    BY <2>1, <2>2, <2>3
<1>2. D * y <= D * (10 * (x + 1))
  <2>1. (D + 9 * a) * i <= (10 * D - 9 * n) * i
    BY Scale
  <2>2. /\ i * (D + 9 * a) = (D + 9 * a) * i
        /\ i * (10 * D - 9 * n) = (10 * D - 9 * n) * i
        /\ D * (10 * (x + 1)) = 10 * D * x + 10 * D
        /\ (D + 9 * a) * i \in Int /\ (10 * D - 9 * n) * i \in Int
        /\ D * y \in Int /\ 10 * D * x \in Int
    OBVIOUS
  <2> QED
    BY <2>1, <2>2
<1> QED
  BY <1>1, <1>2, Cancel

LEMMA AcrossStart ==
    ASSUME NEW i \in Nat, NEW g \in Nat, i # g, NEW s \in Nat, NEW e \in Nat,
           ProperRamp(i, g, s, e),
           NEW n \in Nat, NEW a \in Nat, a + n <= MIN_RAMP_DURATION,
           NEW y \in Nat, Near(y, i, a),
           NEW x \in Nat, x = compute_amp_factor(i, g, s + n, s, e)
    PROVE  x <= 10 * (y + 1) /\ y <= 10 * (x + 1)
<1> DEFINE D == MIN_RAMP_DURATION
           l == e - s
<1>1. /\ D \in Nat \ {0}
      /\ l \in Nat /\ D <= l /\ s < e /\ s <= s + n /\ s + n <= e /\ s + n \in Nat
      /\ i <= 10 * g /\ g <= 10 * i
      /\ (s + n) - s = n
  BY AmpAssumption DEF ProperRamp
<1>2. /\ i * (10 * D - 9 * a) <= 10 * D * (y + 1)
      /\ D * y <= i * (D + 9 * a) + D
  BY DEF Near
<1>3. CASE g >= i
  <2> DEFINE r == g - i
             p == (r * n) \div l
  <2>1. r \in Nat /\ r <= 9 * i
    BY <1>1, <1>3
  <2>2. p \in Nat /\ p * l <= r * n
    <3>1. l \in Nat \ {0}
      BY <1>1
    <3> HIDE DEF r, l
    <3> QED
      BY <2>1, <3>1, PartBounds
  <2>3. x = i + p
    <3>1. x = i + ((g - i) * ((s + n) - s)) \div (e - s)
      BY <1>1, <1>3, AmpUp
    <3> QED
      BY <1>1, <3>1
  <2>4. i <= x /\ D * x <= i * (D + 9 * n)
    <3> HIDE DEF D, r, l, p
    <3> QED
      BY <1>1, <2>1, <2>2, <2>3, FirstUp
  <2> HIDE DEF D, l, r, p
  <2> QED
    BY <1>1, <1>2, <2>4, AcrossUp DEF D
<1>4. CASE g < i
  <2> DEFINE r == i - g
             p == (r * n) \div l
  <2>1. r \in Nat /\ 10 * r <= 9 * i
    BY <1>1, <1>4
  <2>2. p \in Nat /\ p * l <= r * n
    <3>1. l \in Nat \ {0}
      BY <1>1
    <3> HIDE DEF r, l
    <3> QED
      BY <2>1, <3>1, PartBounds
  <2>3. x = i - p
    <3>1. x = i - ((i - g) * ((s + n) - s)) \div (e - s)
      BY <1>1, <1>4, AmpDown
    <3> QED
      BY <1>1, <3>1
  <2>4. x <= i /\ i * (10 * D - 9 * n) <= 10 * D * x
    <3> HIDE DEF D, r, l, p
    <3> QED
      BY <1>1, <2>1, <2>2, <2>3, FirstDown
  <2> HIDE DEF D, l, r, p
  <2> QED
    BY <1>1, <1>2, <2>4, AcrossDown DEF D
<1> QED
  BY <1>3, <1>4

(***************************************************************************)
(* The inductive invariant.  AmpDriftBounded alone is not inductive: what  *)
(* the next second adds to the record depends on the ramp, and what RampA  *)
(* may do on the time since the last one.  So the record is tied to the    *)
(* ramp: the values since its start are the ones AmpAt gives, the older    *)
(* ones are as near to its initial value as their age allows.              *)
(***************************************************************************)

\* The second at which entry j was made.
RecordedAt(j) == now - (Len(recent_amps) - j)

RecordOK ==
    /\ recent_amps \in Seq(Nat)
    /\ Len(recent_amps) <= MIN_RAMP_DURATION + 1
    /\ recent_amps = << >> <=> ~is_initialized

RampProper ==
    is_initialized =>
        ProperRamp(initial_amp_factor, target_amp_factor, start_ramp_ts, stop_ramp_ts)

RecordFollowsRamp ==
    is_initialized => \A j \in 1..Len(recent_amps) :
        /\ RecordedAt(j) >= start_ramp_ts => recent_amps[j] = AmpAt(RecordedAt(j))
        /\ RecordedAt(j) < start_ramp_ts /\ initial_amp_factor # target_amp_factor
              => Near(recent_amps[j], initial_amp_factor, start_ramp_ts - RecordedAt(j))

DriftInv == RecordOK /\ RampProper /\ RecordFollowsRamp /\ AmpDriftBounded

LEMMA McStepIsAdminStep == [MCNext]_vars => [AdminNext]_adminVars
  BY DEF MCNext, vars

LEMMA McInvariance == MCSpec => []IInv
<1>1. MCInit => IInv
  BY InitIInv DEF MCInit
<1>2. IInv /\ [MCNext]_vars => IInv'
  BY McStepIsAdminStep, StepIInv
<1> QED
  BY <1>1, <1>2, PTL DEF MCSpec

\* What the numbers of an initialized pool are.
LEMMA RampNumbers ==
    ASSUME IInv
    PROVE  /\ now \in Nat
           /\ initial_amp_factor \in Nat
           /\ target_amp_factor \in Nat
           /\ start_ramp_ts \in Nat
           /\ stop_ramp_ts \in Nat
           /\ is_initialized => start_ramp_ts <= now /\ start_ramp_ts <= stop_ramp_ts
  BY AdminAssumption, WidthAssumption DEF IInv, TypeOK, RampOK, U64

LEMMA InitDriftInv == MCInit => DriftInv
<1> SUFFICES ASSUME MCInit
             PROVE  DriftInv
  OBVIOUS
<1>1. recent_amps = << >> /\ ~is_initialized
  BY DEF MCInit, AdminInit
<1>2. << >> \in Seq(Nat) /\ Len(<< >>) = 0
  OBVIOUS
<1> QED
  BY <1>1, <1>2, AmpAssumption
     DEF DriftInv, RecordOK, RampProper, RecordFollowsRamp, AmpDriftBounded

\* One more second in the record: the entries move by shift places.
OneMore(rec, a, n, next, shift) ==
    /\ next \in Seq(Nat)
    /\ Len(next) = Len(rec) + 1 - shift
    /\ Len(next) <= n
    /\ Len(next) > 0
    /\ \A j \in 1..Len(next) :
          next[j] = IF j = Len(next) THEN a ELSE rec[j + shift]

LEMMA NextRecord ==
    ASSUME NEW rec \in Seq(Nat), NEW a \in Nat, NEW n \in Nat, Len(rec) <= n, n > 0,
           NEW next, next = IF Len(Append(rec, a)) <= n THEN Append(rec, a)
                            ELSE Tail(Append(rec, a))
    PROVE  \E shift \in {0, 1} : OneMore(rec, a, n, next, shift)
<1> DEFINE all == Append(rec, a)
<1>1. /\ all \in Seq(Nat) /\ Len(all) = Len(rec) + 1 /\ Len(rec) \in Nat
      /\ \A j \in 1..Len(all) : all[j] = IF j = Len(all) THEN a ELSE rec[j]
  OBVIOUS
<1>2. CASE Len(all) <= n
  <2>1. next = all
    BY <1>2
  <2> HIDE DEF all
  <2>2. OneMore(rec, a, n, next, 0)
    BY <1>1, <1>2, <2>1 DEF OneMore
  <2> QED
    BY <2>2
<1>3. CASE ~(Len(all) <= n)
  <2>1. next = Tail(all)
    BY <1>3
  <2> HIDE DEF all
  <2>2. all # << >>
    BY <1>1
  <2>3. /\ Tail(all) \in Seq(Nat) /\ Len(Tail(all)) = Len(all) - 1
        /\ \A j \in 1..Len(Tail(all)) : Tail(all)[j] = all[j + 1]
    BY <1>1, <2>2
  <2>4. Len(rec) = n /\ Len(next) = n
    <3>1. Len(rec) = n
      BY <1>1, <1>3
    <3>2. Len(next) = Len(all) - 1
      BY <2>1, <2>3
    <3> QED
      BY <1>1, <3>1, <3>2
  <2>5. \A j \in 1..Len(next) : next[j] = IF j = Len(next) THEN a ELSE rec[j + 1]
    <3> SUFFICES ASSUME NEW j \in 1..Len(next)
                 PROVE  next[j] = IF j = Len(next) THEN a ELSE rec[j + 1]
      OBVIOUS
    <3>1. next[j] = all[j + 1] /\ j + 1 \in 1..Len(all)
      BY <1>1, <2>1, <2>3, <2>4
    <3>2. all[j + 1] = IF j + 1 = Len(all) THEN a ELSE rec[j + 1]
      BY <1>1, <3>1
    <3> QED
      BY <1>1, <2>4, <3>1, <3>2
  <2>6. OneMore(rec, a, n, next, 1)
    BY <1>1, <2>1, <2>3, <2>4, <2>5 DEF OneMore
  <2> QED
    BY <2>6
<1> QED
  BY <1>2, <1>3

\* The entries made since the ramp started lie between its ends, as does the
\* coefficient in effect.
LEMMA OnTheRamp ==
    ASSUME IInv, is_initialized, NEW t \in Nat, start_ramp_ts <= t
    PROVE  /\ AmpAt(t) \in Nat
           /\ Between(AmpAt(t), initial_amp_factor, target_amp_factor)
<1> DEFINE i == initial_amp_factor
           g == target_amp_factor
           s == start_ramp_ts
           e == stop_ramp_ts
<1>1. i \in Nat /\ g \in Nat /\ s \in Nat /\ e \in Nat
  BY RampNumbers
<1>2. compute_amp_factor(i, g, t, s, e) \in Nat
  <2> HIDE DEF i, g, e
  <2> QED
    BY <1>1, AmpBetweenEnds
<1>3. Between(compute_amp_factor(i, g, t, s, e), i, g)
  <2> HIDE DEF i, g, e
  <2> QED
    BY <1>1, AmpBetweenEnds, Zenon
<1> QED
  BY <1>2, <1>3 DEF AmpAt

\* The entry that the next second adds, against every one it leaves.
LEMMA NextEntryNear ==
    ASSUME IInv, DriftInv, is_initialized, NEW j \in 1..Len(recent_amps),
           now + 1 - RecordedAt(j) <= MIN_RAMP_DURATION
    PROVE  /\ AmpAt(now + 1) <= 10 * (recent_amps[j] + 1)
           /\ recent_amps[j] <= 10 * (AmpAt(now + 1) + 1)
<1> DEFINE i == initial_amp_factor
           g == target_amp_factor
           s == start_ramp_ts
           e == stop_ramp_ts
           at == RecordedAt(j)
           x == AmpAt(now + 1)
           y == recent_amps[j]
<1>1. i \in Nat /\ g \in Nat /\ s \in Nat /\ e \in Nat /\ now \in Nat /\ s <= now /\ s <= e
  BY RampNumbers
<1>2. y \in Nat /\ at \in Int /\ at <= now /\ Len(recent_amps) \in Nat /\ j \in Nat
  BY <1>1 DEF DriftInv, RecordOK, RecordedAt
<1>3. ProperRamp(i, g, s, e)
  BY DEF DriftInv, RampProper
<1>4. x \in Nat /\ Between(x, i, g) /\ now + 1 \in Nat
  BY <1>1, OnTheRamp
<1>5. CASE at >= s
  <2>1. y = AmpAt(at) /\ at \in Nat
    BY <1>1, <1>2, <1>5 DEF DriftInv, RecordFollowsRamp
  <2>2. Between(y, i, g)
    BY <1>5, <2>1, OnTheRamp
  <2> HIDE DEF i, g, s, e, at, x, y
  <2> QED
    BY <1>1, <1>2, <1>3, <1>4, <2>2, WithinOneRamp DEF x, y
<1>6. CASE at < s /\ i # g
  <2>1. Near(y, i, s - at)
    BY <1>6 DEF DriftInv, RecordFollowsRamp
  <2> DEFINE n == now + 1 - s
             a == s - at
  <2>2. n \in Nat /\ a \in Nat /\ a + n <= MIN_RAMP_DURATION /\ s + n = now + 1
    BY <1>1, <1>2, <1>6, AmpAssumption
  <2>3. x = compute_amp_factor(i, g, s + n, s, e)
    BY <2>2 DEF AmpAt
  <2> HIDE DEF i, g, s, e, at, x, y, n
  <2> QED
    BY <1>1, <1>2, <1>3, <1>4, <1>6, <2>1, <2>2, <2>3, AcrossStart DEF x, y
<1>7. CASE i = g
  <2>1. Len(recent_amps) > 0 /\ Len(recent_amps) \in 1..Len(recent_amps)
    BY <1>2
  <2>2. RecordedAt(Len(recent_amps)) = now
    BY <1>1, <1>2 DEF RecordedAt
  <2>3. recent_amps[Len(recent_amps)] = AmpAt(now)
    BY <1>1, <2>1, <2>2 DEF DriftInv, RecordFollowsRamp
  <2>4. AmpAt(now) = i /\ x = i
    BY <1>1, <1>4, <1>7, OnTheRamp DEF Between
  <2>5. /\ recent_amps[Len(recent_amps)] <= 10 * (y + 1)
        /\ y <= 10 * (recent_amps[Len(recent_amps)] + 1)
    BY <2>1 DEF DriftInv, AmpDriftBounded, MAX_A_CHANGE
  <2> QED
    BY <2>3, <2>4, <2>5
<1> QED
  BY <1>1, <1>2, <1>5, <1>6, <1>7

LEMMA TickDriftInv ==
    ASSUME IInv, DriftInv, is_initialized, Tick, RecordAmp
    PROVE  DriftInv'
<1> DEFINE len == Len(recent_amps)
           len2 == Len(recent_amps')
           a == AmpAt(now + 1)
           D == MIN_RAMP_DURATION
<1>1. /\ now \in Nat /\ now' = now + 1 /\ is_initialized'
      /\ UNCHANGED <<initial_amp_factor, target_amp_factor, start_ramp_ts, stop_ramp_ts>>
      /\ start_ramp_ts \in Nat /\ start_ramp_ts <= now
      /\ D \in Nat
  BY RampNumbers, AmpAssumption DEF Tick, swapInfoVars, rampVars
<1>2. \A t : AmpAt(t)' = AmpAt(t')
  BY <1>1 DEF AmpAt
<1>3. amp_factor' = a /\ a \in Nat
  BY <1>1, OnTheRamp DEF amp_factor, AmpAt
<1>4. recent_amps \in Seq(Nat) /\ len \in Nat /\ len <= D + 1 /\ len > 0
  BY DEF DriftInv, RecordOK
<1>5. recent_amps' = IF Len(Append(recent_amps, a)) <= D + 1 THEN Append(recent_amps, a)
                     ELSE Tail(Append(recent_amps, a))
  BY <1>1, <1>3 DEF RecordAmp
<1>6. PICK shift \in {0, 1} :
                /\ recent_amps' \in Seq(Nat)
                /\ len2 = len + 1 - shift
                /\ len2 <= D + 1
                /\ len2 > 0
                /\ \A j \in 1..len2 :
                      recent_amps'[j] = IF j = len2 THEN a ELSE recent_amps[j + shift]
  <2> DEFINE next == recent_amps'
             n == D + 1
  <2>1. n \in Nat /\ n > 0 /\ len <= n
    BY <1>1, <1>4
  <2>2. next = IF Len(Append(recent_amps, a)) <= n THEN Append(recent_amps, a)
               ELSE Tail(Append(recent_amps, a))
    BY <1>5
  <2> HIDE DEF a, n, next
  <2>3. \E shift \in {0, 1} : OneMore(recent_amps, a, n, next, shift)
    BY <1>3, <1>4, <2>1, <2>2, NextRecord, Zenon
  <2> QED
    BY <2>3 DEF next, n, OneMore
<1>7. RecordOK'
  BY <1>1, <1>6 DEF RecordOK
<1>8. RampProper'
  BY <1>1 DEF DriftInv, RampProper, ProperRamp
<1>9. \A j \in 1..len2 : /\ j # len2 => /\ j + shift \in 1..len
                                        /\ recent_amps'[j] = recent_amps[j + shift]
                                        /\ RecordedAt(j)' = RecordedAt(j + shift)
                         /\ j = len2 => /\ recent_amps'[j] = a
                                        /\ RecordedAt(j)' = now + 1
                         /\ now + 1 - RecordedAt(j)' <= D
                         /\ RecordedAt(j)' \in Int
  <2> HIDE DEF a, D
  <2> SUFFICES ASSUME NEW j \in 1..len2
               PROVE  /\ j # len2 => /\ j + shift \in 1..len
                                     /\ recent_amps'[j] = recent_amps[j + shift]
                                     /\ RecordedAt(j)' = RecordedAt(j + shift)
                      /\ j = len2 => /\ recent_amps'[j] = a
                                     /\ RecordedAt(j)' = now + 1
                      /\ now + 1 - RecordedAt(j)' <= D
                      /\ RecordedAt(j)' \in Int
    OBVIOUS
  <2>1. /\ RecordedAt(j)' = now + 1 - (len2 - j)
        /\ RecordedAt(j + shift) = now - (len - (j + shift))
    BY <1>1 DEF RecordedAt
  <2>2. shift \in Int /\ len2 \in Int /\ j \in Int /\ 1 <= j /\ j <= len2 /\ shift >= 0
    BY <1>4, <1>6
  <2>3. recent_amps'[j] = IF j = len2 THEN a ELSE recent_amps[j + shift]
    BY <1>6
  <2>4. len2 = len + 1 - shift /\ len2 <= D + 1
    BY <1>6
  <2>5. j # len2 => j + shift \in 1..len
    BY <1>4, <2>2, <2>4
  <2>6. j # len2 => RecordedAt(j)' = RecordedAt(j + shift)
    BY <1>1, <1>4, <2>1, <2>2, <2>4
  <2>7. /\ j = len2 => RecordedAt(j)' = now + 1
        /\ now + 1 - RecordedAt(j)' <= D
        /\ RecordedAt(j)' \in Int
    BY <1>1, <2>1, <2>2, <2>4
  <2> QED
    BY <2>3, <2>5, <2>6, <2>7
<1>10. RecordFollowsRamp'
  <2> SUFFICES ASSUME NEW j \in 1..len2
               PROVE  /\ RecordedAt(j)' >= start_ramp_ts
                            => recent_amps'[j] = AmpAt(RecordedAt(j)')
                      /\ RecordedAt(j)' < start_ramp_ts
                         /\ initial_amp_factor # target_amp_factor
                            => Near(recent_amps'[j], initial_amp_factor,
                                    start_ramp_ts - RecordedAt(j)')
    BY <1>1 DEF RecordFollowsRamp, AmpAt
  <2>1. CASE j = len2
    BY <1>1, <1>9, <2>1
  <2>2. CASE j # len2
    <3> DEFINE k == j + shift
    <3>1. k \in 1..len /\ recent_amps'[j] = recent_amps[k] /\ RecordedAt(j)' = RecordedAt(k)
      BY <1>9, <2>2
    <3> HIDE DEF k
    <3> QED
      BY <3>1 DEF DriftInv, RecordFollowsRamp
  <2> QED
    BY <2>1, <2>2
<1>11. AmpDriftBounded'
  <2> SUFFICES ASSUME NEW j \in 1..len2, NEW k \in 1..len2
               PROVE  recent_amps'[j] <= 10 * (recent_amps'[k] + 1)
    BY DEF AmpDriftBounded, MAX_A_CHANGE
  <2>1. ASSUME NEW m \in 1..len2, m # len2
        PROVE  /\ a <= 10 * (recent_amps'[m] + 1)
               /\ recent_amps'[m] <= 10 * (a + 1)
    <3> DEFINE o == m + shift
    <3>1. /\ o \in 1..len
          /\ recent_amps'[m] = recent_amps[o]
          /\ RecordedAt(o) = RecordedAt(m)'
          /\ now + 1 - RecordedAt(m)' <= D
      BY <1>9, <2>1
    <3>2. now + 1 - RecordedAt(o) <= MIN_RAMP_DURATION
      BY <3>1
    <3> HIDE DEF o
    <3> QED
      BY <3>1, <3>2, NextEntryNear
  <2>2. CASE j # len2 /\ k # len2
    <3> DEFINE p == j + shift
               q == k + shift
    <3>1. p \in 1..len /\ q \in 1..len
          /\ recent_amps'[j] = recent_amps[p] /\ recent_amps'[k] = recent_amps[q]
      BY <1>9, <2>2
    <3> HIDE DEF p, q
    <3> QED
      BY <3>1 DEF DriftInv, AmpDriftBounded, MAX_A_CHANGE
  <2>3. CASE j = len2 /\ k = len2
    BY <1>3, <1>9, <2>3
  <2>4. CASE j = len2 /\ k # len2
    BY <1>9, <2>1, <2>4
  <2>5. CASE j # len2 /\ k = len2
    BY <1>9, <2>1, <2>5
  <2> QED
    BY <2>2, <2>3, <2>4, <2>5
<1> QED
  BY <1>7, <1>8, <1>10, <1>11 DEF DriftInv

\* An instruction on an initialized pool adds nothing to the record.
LEMMA RecordKept ==
    ASSUME DriftInv, is_initialized, is_initialized', now' = now, RecordAmp
    PROVE  recent_amps' = recent_amps
  BY DEF DriftInv, RecordOK, RecordAmp

LEMMA OtherDriftInv ==
    ASSUME DriftInv, is_initialized, is_initialized', now' = now, RecordAmp,
           UNCHANGED rampVars
    PROVE  DriftInv'
<1>1. recent_amps' = recent_amps
  BY RecordKept
<1>2. UNCHANGED <<initial_amp_factor, target_amp_factor, start_ramp_ts, stop_ramp_ts>>
  BY DEF rampVars
<1> QED
  BY <1>1, <1>2
     DEF DriftInv, RecordOK, RampProper, RecordFollowsRamp, AmpDriftBounded, RecordedAt, AmpAt

LEMMA AmpAtStart ==
    ASSUME NEW i \in Nat, NEW g \in Nat, NEW s \in Nat, NEW e \in Nat,
           s <= e, s = e => i = g
    PROVE  compute_amp_factor(i, g, s, s, e) = i
<1>1. CASE s = e
  BY <1>1 DEF compute_amp_factor
<1>2. CASE s < e
  BY <1>2, AmpBetweenEnds
<1> QED
  BY <1>1, <1>2

\* A new ramp from the coefficient in effect.
LEMMA NewRampDriftInv ==
    ASSUME IInv, DriftInv, is_initialized, is_initialized', now' = now, RecordAmp,
           NEW target \in Nat, NEW stop \in Nat, stop >= now,
           SetRamp(amp_factor, target, stop),
           ProperRamp(amp_factor, target, now, stop),
           amp_factor # target => now - start_ramp_ts >= MIN_RAMP_DURATION
    PROVE  DriftInv'
<1> DEFINE len == Len(recent_amps)
           i == initial_amp_factor
           g == target_amp_factor
           s == start_ramp_ts
           e == stop_ramp_ts
           a == amp_factor
<1>1. recent_amps' = recent_amps
  BY RecordKept
<1>2. i \in Nat /\ g \in Nat /\ s \in Nat /\ e \in Nat /\ now \in Nat /\ s <= now /\ s <= e
  BY RampNumbers
<1>3. a \in Nat
  BY <1>2, OnTheRamp DEF amp_factor
<1>4. /\ initial_amp_factor' = a /\ target_amp_factor' = target
      /\ start_ramp_ts' = now /\ stop_ramp_ts' = stop
  BY DEF SetRamp
<1>5. recent_amps \in Seq(Nat) /\ len \in Nat /\ len <= MIN_RAMP_DURATION + 1
      /\ ProperRamp(i, g, s, e)
  BY DEF DriftInv, RecordOK, RampProper
<1>6. \A j \in 1..len : /\ RecordedAt(j)' = RecordedAt(j)
                        /\ RecordedAt(j) \in Int
                        /\ RecordedAt(j) <= now
                        /\ now - RecordedAt(j) <= MIN_RAMP_DURATION
  BY <1>1, <1>2, <1>5, AmpAssumption DEF RecordedAt
<1>7. AmpAt(now)' = a
  <2>1. AmpAt(now)' = compute_amp_factor(a, target, now, now, stop)
    BY <1>4 DEF AmpAt
  <2>2. compute_amp_factor(a, target, now, now, stop) = a
    <3>1. ASSUME stop = now, amp_factor # target
          PROVE  FALSE
      <4>1. stop - now >= MIN_RAMP_DURATION
        BY <3>1 DEF ProperRamp
      <4> QED
        BY <1>2, <3>1, <4>1, AmpAssumption
    <3> HIDE DEF a
    <3> QED
      BY <1>2, <1>3, <3>1, AmpAtStart DEF a
  <2> QED
    BY <2>1, <2>2
<1>8. RecordOK'
  BY <1>1 DEF DriftInv, RecordOK
<1>9. RampProper'
  BY <1>4 DEF RampProper
<1>10. AmpDriftBounded'
  BY <1>1 DEF DriftInv, AmpDriftBounded
<1>11. ASSUME NEW j \in 1..len
       PROVE  /\ RecordedAt(j) >= now => recent_amps[j] = AmpAt(RecordedAt(j))'
              /\ RecordedAt(j) < now /\ a # target
                   => Near(recent_amps[j], a, now - RecordedAt(j))
  <2> DEFINE at == RecordedAt(j)
  <2>1. at \in Int /\ at <= now /\ now - at <= MIN_RAMP_DURATION
    BY <1>6
  <2>2. at >= s => recent_amps[j] = AmpAt(at)
    BY DEF DriftInv, RecordFollowsRamp
  <2>3. at >= now => recent_amps[j] = AmpAt(at)'
    <3>1. at >= now => at = now
      BY <1>2, <2>1
    <3>2. at = now => recent_amps[j] = a
      BY <1>2, <2>2 DEF amp_factor
    <3>3. at = now => AmpAt(at)' = AmpAt(now)'
      BY <1>6
    <3> QED
      BY <1>7, <3>1, <3>2, <3>3
  <2>4. ASSUME at < now, a # target
        PROVE  Near(recent_amps[j], a, now - at)
    <3> DEFINE k == now - at
    <3>1. k \in Nat /\ k <= MIN_RAMP_DURATION /\ now - k = at /\ now - s >= MIN_RAMP_DURATION
      BY <1>2, <2>1, <2>4
    <3>2. at >= s
      BY <1>2, <2>1, <3>1, AmpAssumption
    <3>3. Near(compute_amp_factor(i, g, now - k, s, e), compute_amp_factor(i, g, now, s, e), k)
      <4> HIDE DEF i, g, s, e, k
      <4> QED
        BY <1>2, <1>5, <3>1, AmpNear, Zenon
    <3>4. recent_amps[j] = compute_amp_factor(i, g, now - k, s, e)
      BY <2>2, <3>1, <3>2 DEF AmpAt
    <3>5. a = compute_amp_factor(i, g, now, s, e)
      BY DEF amp_factor, AmpAt
    <3> QED
      BY <3>3, <3>4, <3>5
  <2> QED
    BY <2>3, <2>4
<1>12. RecordFollowsRamp'
  BY <1>1, <1>4, <1>6, <1>11 DEF RecordFollowsRamp
<1> QED
  BY <1>8, <1>9, <1>10, <1>12 DEF DriftInv

LEMMA InitializeDriftInv ==
    ASSUME IInv, DriftInv, ~is_initialized, is_initialized', now' = now, RecordAmp,
           NEW amp \in Nat,
           initial_amp_factor' = amp, target_amp_factor' = amp,
           start_ramp_ts' = ZERO_TS, stop_ramp_ts' = ZERO_TS
    PROVE  DriftInv'
<1>1. now \in Nat
  BY RampNumbers
<1>2. recent_amps = << >>
  BY DEF DriftInv, RecordOK
<1>3. amp_factor' = amp
  BY <1>1 DEF amp_factor, AmpAt, compute_amp_factor, ZERO_TS
<1>4. MIN_RAMP_DURATION \in Nat \ {0}
  BY AmpAssumption
<1>5. recent_amps' = <<amp>>
  <2>1. recent_amps' = LET all == Append(<< >>, amp)
                       IN  IF Len(all) <= MIN_RAMP_DURATION + 1 THEN all ELSE Tail(all)
    BY <1>2, <1>3 DEF RecordAmp
  <2>2. Append(<< >>, amp) = <<amp>> /\ Len(<<amp>>) = 1
    OBVIOUS
  <2> QED
    BY <1>4, <2>1, <2>2
<1>6. <<amp>> \in Seq(Nat) /\ Len(<<amp>>) = 1 /\ <<amp>> # << >> /\ <<amp>>[1] = amp
  OBVIOUS
<1>7. RecordOK'
  BY <1>4, <1>5, <1>6 DEF RecordOK
<1>8. RampProper'
  BY DEF RampProper, ProperRamp
<1>9. AmpDriftBounded'
  BY <1>5, <1>6 DEF AmpDriftBounded, MAX_A_CHANGE
<1>10. RecordFollowsRamp'
  <2>1. \A j \in 1..1 : /\ recent_amps'[j] = amp
                        /\ RecordedAt(j)' = now
    BY <1>1, <1>5, <1>6 DEF RecordedAt
  <2>2. AmpAt(now)' = amp
    BY <1>3 DEF amp_factor
  <2>3. \A j \in 1..Len(recent_amps') :
            /\ RecordedAt(j)' >= start_ramp_ts'
            /\ recent_amps'[j] = AmpAt(RecordedAt(j))'
    <3> SUFFICES ASSUME NEW j \in 1..Len(recent_amps')
                 PROVE  /\ RecordedAt(j)' >= start_ramp_ts'
                        /\ recent_amps'[j] = AmpAt(RecordedAt(j))'
      OBVIOUS
    <3>1. recent_amps'[j] = amp /\ RecordedAt(j)' = now
      BY <1>5, <1>6, <2>1
    <3>2. AmpAt(RecordedAt(j))' = AmpAt(now)'
      BY <3>1 DEF AmpAt
    <3> QED
      BY <1>1, <2>2, <3>1, <3>2 DEF ZERO_TS
  <2> QED
    BY <2>3 DEF RecordFollowsRamp
<1> QED
  BY <1>7, <1>8, <1>9, <1>10 DEF DriftInv

LEMMA StepDriftInv == IInv /\ DriftInv /\ [MCNext]_vars => DriftInv'
<1> SUFFICES ASSUME IInv, DriftInv, [MCNext]_vars
             PROVE  DriftInv'
  OBVIOUS
<1>1. CASE UNCHANGED vars
  <2>1. UNCHANGED <<now, is_initialized, initial_amp_factor, target_amp_factor,
                    start_ramp_ts, stop_ramp_ts, recent_amps>>
    BY <1>1 DEF vars, historyVars, adminVars, swapInfoVars, rampVars
  <2> QED
    BY <2>1
       DEF DriftInv, RecordOK, RampProper, RecordFollowsRamp, AmpDriftBounded, RecordedAt, AmpAt
<1>2. ASSUME AdminNext, RecordAmp
      PROVE  DriftInv'
  <2>1. ASSUME NEW amp \in TargetAmps, NEW key \in Keys, NEW f \in FeeChoices,
               NEW accounts \in [Mints -> FeeAccounts],
               InitializeSwapInfo(amp, key, f, accounts)
        PROVE  DriftInv'
    <3>1. /\ ~is_initialized /\ is_initialized' /\ now' = now
          /\ initial_amp_factor' = amp /\ target_amp_factor' = amp
          /\ start_ramp_ts' = ZERO_TS /\ stop_ramp_ts' = ZERO_TS
      BY <2>1 DEF InitializeSwapInfo
    <3>2. amp \in Nat
      BY AdminAssumption, WidthAssumption DEF U64
    <3> QED
      BY <1>2, <3>1, <3>2, InitializeDriftInv
  <2>2. CASE Tick /\ ~is_initialized
    <3>1. ~is_initialized' /\ recent_amps' = << >>
      BY <1>2, <2>2 DEF Tick, swapInfoVars, RecordAmp
    <3> QED
      BY <3>1, AmpAssumption
         DEF DriftInv, RecordOK, RampProper, RecordFollowsRamp, AmpDriftBounded
  <2>3. CASE Tick /\ is_initialized
    BY <1>2, <2>3, TickDriftInv
  <2>4. ASSUME NEW amp \in TargetAmps, NEW t \in StopTimes, RampA(amp, t)
        PROVE  DriftInv'
    <3>1. /\ is_initialized /\ is_initialized' /\ now' = now
          /\ SetRamp(amp_factor, amp, t)
          /\ t \in Int /\ t >= now + MIN_RAMP_DURATION
          /\ now >= start_ramp_ts + MIN_RAMP_DURATION
          /\ RampStepAllowed(amp_factor, amp)
      BY <2>4, AdminAssumption DEF RampA, AdminSigned, RampUnlocked
    <3>2. now \in Nat /\ start_ramp_ts \in Nat /\ amp \in Nat /\ amp_factor \in Nat
          /\ MIN_RAMP_DURATION \in Nat
      BY <3>1, RampNumbers, OnTheRamp, AdminAssumption, AmpAssumption, WidthAssumption
         DEF amp_factor, U64
    <3>3. t \in Nat /\ t >= now /\ now - start_ramp_ts >= MIN_RAMP_DURATION
          /\ t - now >= MIN_RAMP_DURATION
      BY <3>1, <3>2
    <3>4. amp_factor <= 10 * amp /\ amp <= 10 * amp_factor
      <4> HIDE DEF amp_factor
      <4> QED
        BY <3>1, <3>2, WidthAssumption
           DEF RampStepAllowed, CheckedMul, None, MAX_A_CHANGE
    <3>5. ProperRamp(amp_factor, amp, now, t)
      BY <3>3, <3>4 DEF ProperRamp
    <3> QED
      BY <1>2, <3>1, <3>2, <3>3, <3>5, NewRampDriftInv
  <2>5. CASE StopRampA
    <3>1. /\ is_initialized /\ is_initialized' /\ now' = now
          /\ SetRamp(amp_factor, amp_factor, now)
      BY <2>5 DEF StopRampA, AdminSigned
    <3>2. now \in Nat /\ amp_factor \in Nat /\ now >= now
      BY <3>1, RampNumbers, OnTheRamp DEF amp_factor
    <3>3. ProperRamp(amp_factor, amp_factor, now, now)
      BY DEF ProperRamp
    <3> QED
      BY <1>2, <3>1, <3>2, <3>3, NewRampDriftInv
  <2>6. CASE is_initialized /\ is_initialized' /\ now' = now /\ UNCHANGED rampVars
    BY <1>2, <2>6, OtherDriftInv
  <2> QED
    BY <1>2, <2>1, <2>2, <2>3, <2>4, <2>5, <2>6
       DEF AdminNext, AdminInstruction, AdminSigned, Pause, Unpause, SetPaused,
           SetFeeAccount, ApplyNewAdmin, CommitNewAdmin, SetNewFees
<1> QED
  BY <1>1, <1>2 DEF MCNext, Record

\* No two recorded coefficients of a MIN_RAMP_DURATION are more than a factor of
\* MAX_A_CHANGE apart, whatever ramps the admin starts and stops.
THEOREM AmpDriftIsBounded == MCSpec => []AmpDriftBounded
<1>1. DriftInv => AmpDriftBounded
  BY DEF DriftInv
<1> QED
  BY <1>1, InitDriftInv, StepDriftInv, McInvariance, PTL DEF MCSpec

(***************************************************************************)
(* Who named the next admin.                                               *)
(***************************************************************************)

\* A pending transfer was committed by the admin of today, ADMIN_TRANSFER_DELAY
\* before its deadline.
CommitOK ==
    is_initialized /\ future_admin_deadline # ZERO_TS =>
        /\ committed.by = admin_key
        /\ committed.at \in Nat
        /\ future_admin_deadline = committed.at + ADMIN_TRANSFER_DELAY

LEMMA StepCommitOK == IInv /\ CommitOK /\ [MCNext]_vars => CommitOK'
<1> SUFFICES ASSUME IInv, CommitOK, [MCNext]_vars
             PROVE  CommitOK'
  OBVIOUS
<1>0. now \in Nat /\ future_admin_deadline \in Nat
  BY DEF IInv, TypeOK
<1>1. CASE UNCHANGED vars
  BY <1>1 DEF vars, historyVars, adminVars, swapInfoVars, transferVars, CommitOK
<1>2. ASSUME AdminNext, RecordCommit
      PROVE  CommitOK'
  <2>1. CASE future_admin_deadline' = ZERO_TS
    BY <2>1 DEF CommitOK
  <2>2. CASE UNCHANGED <<is_initialized, transferVars>>
    BY <1>2, <2>2 DEF RecordCommit, transferVars, CommitOK
  <2>3. ASSUME NEW key \in NewAdmins, CommitNewAdmin(key)
        PROVE  CommitOK'
    <3>1. /\ future_admin_deadline' = now + ADMIN_TRANSFER_DELAY
          /\ admin_key' = admin_key
          /\ ~(now < future_admin_deadline)
      BY <1>0, <2>3, AdminAssumption
         DEF CommitNewAdmin, TransferDeadline, TransferActive, CheckedAdd, None
    <3>2. /\ future_admin_deadline' # future_admin_deadline
          /\ future_admin_deadline' # ZERO_TS
      BY <1>0, <3>1, AdminAssumption DEF ZERO_TS
    <3>3. committed' = [by |-> admin_key, at |-> now]
      BY <1>2, <3>2 DEF RecordCommit
    <3> QED
      BY <1>0, <3>1, <3>3 DEF CommitOK
  <2> QED
    BY <1>2, <2>1, <2>2, <2>3
       DEF AdminNext, AdminInstruction, InitializeSwapInfo, RampA, StopRampA, Pause,
           Unpause, SetPaused, SetFeeAccount, ApplyNewAdmin, SetNewFees, Tick,
           swapInfoVars
<1> QED
  BY <1>1, <1>2 DEF MCNext, Record

\* The key that takes over is the one the admin before it committed, within the
\* delay: for every sequence of instructions and every clock.
THEOREM AdminHandsOverItself == MCSpec => HandoverByTheAdminItself
<1>1. MCInit => CommitOK
  BY DEF MCInit, AdminInit, CommitOK
<1>2. MCSpec => []CommitOK
  BY <1>1, StepCommitOK, McInvariance, PTL DEF MCSpec
<1>3. ASSUME IInv, CommitOK, [MCNext]_vars, is_initialized, admin_key' # admin_key
      PROVE  /\ committed.by = admin_key
             /\ admin_key' = future_admin_key
             /\ now - committed.at <= ADMIN_TRANSFER_DELAY
  <2>1. ApplyNewAdmin
    BY <1>3
       DEF MCNext, AdminNext, AdminInstruction, vars, adminVars, swapInfoVars,
           transferVars, InitializeSwapInfo, RampA, StopRampA, Pause, Unpause,
           SetPaused, SetFeeAccount, CommitNewAdmin, SetNewFees, Tick
  <2>2. /\ future_admin_deadline # ZERO_TS
        /\ now <= future_admin_deadline
        /\ admin_key' = future_admin_key
    BY <2>1 DEF ApplyNewAdmin, TransferApplicable
  <2>3. now \in Nat /\ ADMIN_TRANSFER_DELAY \in Nat
    BY <1>3, AdminAssumption DEF IInv, TypeOK
  <2> QED
    BY <1>3, <2>2, <2>3 DEF CommitOK
<1> QED
  BY <1>2, <1>3, McInvariance, PTL DEF MCSpec, HandoverByTheAdminItself

=============================================================================
