--------------------------- MODULE EncodingProofs ---------------------------
(***************************************************************************)
(* What the byte layouts of the instructions and of the state account      *)
(* guarantee, for all widths of a word and a byte.                         *)
(***************************************************************************)
EXTENDS Encoding, MathProofs, SequenceTheorems

(***************************************************************************)
(* Recursive functions over 0..n.                                          *)
(***************************************************************************)

Follows(f, n, start, step) ==
    /\ f \in [0 .. n -> Int]
    /\ \A k \in 0 .. n : f[k] = IF k = 0 THEN start ELSE step[k][f[k - 1]]

\* A sequence of integers defined from one to the next exists.
LEMMA Recursion ==
    ASSUME NEW n \in Nat, NEW start \in Int, NEW step \in [1 .. n -> [Int -> Int]]
    PROVE  \E f : Follows(f, n, start, step)
<1> DEFINE Upto(f, m) == /\ f \in [0 .. m -> Int]
                         /\ f[0] = start
                         /\ \A k \in 1 .. m : f[k] = step[k][f[k - 1]]
           Holding == {m \in Nat : m <= n => \E f : Upto(f, m)}
<1>1. \E f : Upto(f, 0)
  <2> DEFINE f == [k \in 0 .. 0 |-> start]
  <2>1. f \in [0 .. 0 -> Int] /\ f[0] = start
    OBVIOUS
  <2>2. 1 .. 0 = {}
    OBVIOUS
  <2> HIDE DEF f
  <2>3. Upto(f, 0)
    BY <2>1, <2>2
  <2> QED
    BY <2>3
<1>2. ASSUME NEW m \in Nat, m + 1 <= n, NEW f, Upto(f, m)
      PROVE  \E g : Upto(g, m + 1)
  <2> DEFINE g == [k \in 0 .. m + 1 |-> IF k = m + 1 THEN step[m + 1][f[m]] ELSE f[k]]
  <2>0. f \in [0 .. m -> Int]
    BY <1>2
  <2>1. /\ \A k \in 0 .. m : g[k] = f[k] /\ f[k] \in Int
        /\ g[m + 1] = step[m + 1][f[m]]
    <3> HIDE DEF Upto
    <3>1. \A k \in 0 .. m : k \in 0 .. m + 1 /\ k # m + 1
      OBVIOUS
    <3>2. m + 1 \in 0 .. m + 1
      OBVIOUS
    <3> QED
      BY <2>0, <3>1, <3>2
  <2>2. step[m + 1][f[m]] \in Int
    <3>1. f[m] \in Int /\ m + 1 \in 1 .. n
      BY <1>2
    <3>2. step[m + 1] \in [Int -> Int]
      BY <3>1
    <3> QED
      BY <3>1, <3>2
  <2>3. g \in [0 .. m + 1 -> Int]
    <3>1. \A k \in 0 .. m + 1 : k = m + 1 \/ k \in 0 .. m
      OBVIOUS
    <3>2. \A k \in 0 .. m + 1 : g[k] \in Int
      <4> HIDE DEF g
      <4> QED
        BY <2>1, <2>2, <3>1
    <3> QED
      BY <3>2
  <2>4. f[0] = start /\ \A k \in 1 .. m : f[k] = step[k][f[k - 1]]
    BY <1>2
  <2> HIDE DEF g
  <2>5. \A k \in 1 .. m + 1 : g[k] = step[k][g[k - 1]]
    <3> SUFFICES ASSUME NEW k \in 1 .. m + 1
                 PROVE  g[k] = step[k][g[k - 1]]
      OBVIOUS
    <3>1. CASE k = m + 1
      <4>1. k - 1 = m /\ m \in 0 .. m
        BY <3>1
      <4> QED
        BY <2>1, <3>1, <4>1
    <3>2. CASE k # m + 1
      <4>1. k \in 1 .. m /\ k - 1 \in 0 .. m /\ k \in 0 .. m
        BY <3>2
      <4> QED
        BY <2>1, <2>4, <4>1
    <3> QED
      BY <3>1, <3>2
  <2>6. g[0] = start
    <3>1. 0 \in 0 .. m
      OBVIOUS
    <3> QED
      BY <2>1, <2>4, <3>1
  <2>7. Upto(g, m + 1)
    BY <2>3, <2>5, <2>6
  <2> HIDE DEF Upto
  <2> QED
    BY <2>7
<1>3. \A m \in Nat : m \in Holding
  <2> HIDE DEF Upto
  <2>1. 0 \in Holding
    BY <1>1
  <2>2. ASSUME NEW m \in Nat, m \in Holding
        PROVE  m + 1 \in Holding
    BY <1>2, <2>2
  <2> HIDE DEF Holding
  <2> QED
    BY <2>1, <2>2, SetInduction
<1>4. \E f : Upto(f, n)
  <2> HIDE DEF Upto
  <2> QED
    BY <1>3
<1>5. PICK f : Upto(f, n)
  <2> HIDE DEF Upto
  <2> QED
    BY <1>4
<1>6. /\ f \in [0 .. n -> Int] /\ f[0] = start
      /\ \A k \in 1 .. n : f[k] = step[k][f[k - 1]]
  BY <1>5
<1>7. \A k \in 0 .. n : f[k] = IF k = 0 THEN start ELSE step[k][f[k - 1]]
  <2> SUFFICES ASSUME NEW k \in 0 .. n, k # 0
               PROVE  f[k] = step[k][f[k - 1]]
    BY <1>6
  <2>1. k \in 1 .. n
    OBVIOUS
  <2> QED
    BY <1>6, <2>1
<1> QED
  BY <1>6, <1>7 DEF Follows

(***************************************************************************)
(* Words: a u64 as its digits.                                             *)
(***************************************************************************)

LEMMA PowerUnfolds ==
    /\ Power[0] = 1
    /\ \A k \in 1 .. WORD : Power[k] = BYTE * Power[k - 1]
    /\ \A k \in 0 .. WORD : Power[k] \in Nat \ {0}
<1> USE EncodingAssumption
<1> DEFINE Solves(f) == f = [k \in 0 .. WORD |-> IF k = 0 THEN 1 ELSE BYTE * f[k - 1]]
           step == [k \in 1 .. WORD |-> [x \in Int |-> BYTE * x]]
<1>1. PICK f : Follows(f, WORD, 1, step)
  <2>1. step \in [1 .. WORD -> [Int -> Int]]
    OBVIOUS
  <2>2. WORD \in Nat /\ 0 \in Int /\ 1 \in Int
    OBVIOUS
  <2> HIDE DEF step
  <2> QED
    BY <2>1, <2>2, Recursion
<1>2. \A k \in 0 .. WORD : f[k] = IF k = 0 THEN 1 ELSE BYTE * f[k - 1]
  <2> SUFFICES ASSUME NEW k \in 0 .. WORD, k # 0
               PROVE  f[k] = BYTE * f[k - 1]
    BY <1>1 DEF Follows
  <2>1. k \in 1 .. WORD /\ k - 1 \in 0 .. WORD
    OBVIOUS
  <2>2. f[k] = step[k][f[k - 1]] /\ f[k - 1] \in Int
    BY <1>1, <2>1 DEF Follows
  <2> QED
    BY <2>1, <2>2
<1>3. Solves(f)
  <2> HIDE DEF step
  <2> QED
    BY <1>1, <1>2 DEF Follows
<1>4. Solves(Power)
  <2> HIDE DEF Solves
  <2>1. Power = CHOOSE g : Solves(g)
    BY DEF Power, Solves
  <2> QED
    BY <1>3, <2>1
<1>5. \A k \in 0 .. WORD : Power[k] = IF k = 0 THEN 1 ELSE BYTE * Power[k - 1]
  <2> DEFINE Powers == Power
  <2>1. Solves(Powers)
    BY <1>4
  <2> HIDE DEF Powers
  <2>2. \A k \in 0 .. WORD : Powers[k] = IF k = 0 THEN 1 ELSE BYTE * Powers[k - 1]
    BY <2>1
  <2> QED
    BY <2>2 DEF Powers
<1> HIDE DEF Solves, step
<1>6. Power[0] = 1 /\ \A k \in 1 .. WORD : Power[k] = BYTE * Power[k - 1]
  BY <1>5
<1> DEFINE Holding == {k \in Nat : k <= WORD => Power[k] \in Nat \ {0}}
<1>7. 0 \in Holding
  BY <1>6
<1>8. ASSUME NEW k \in Nat, k \in Holding
      PROVE  k + 1 \in Holding
  <2> SUFFICES ASSUME k + 1 <= WORD
               PROVE  Power[k + 1] \in Nat \ {0}
    OBVIOUS
  <2>1. k + 1 \in 1 .. WORD /\ (k + 1) - 1 = k
    OBVIOUS
  <2>2. Power[k] \in Nat \ {0} /\ Power[k + 1] = BYTE * Power[k]
    BY <1>6, <1>8, <2>1
  <2>3. \A p \in Nat \ {0} : BYTE * p \in Nat \ {0}
    OBVIOUS
  <2> QED
    BY <2>2, <2>3
<1>9. \A k \in Nat : k \in Holding
  <2> HIDE DEF Holding
  <2> QED
    BY <1>7, <1>8, SetInduction
<1>10. \A k \in 0 .. WORD : Power[k] \in Nat \ {0}
  BY <1>9
<1> QED
  BY <1>6, <1>10

\* The sum of u64_from_le_bytes, as far as the k-th digit.
SumsUp(low, bytes) ==
    /\ low \in [0 .. WORD -> Int]
    /\ low[0] = 0
    /\ \A k \in 1 .. WORD : low[k] = low[k - 1] + bytes[k] * Power[k - 1]

LEMMA SumOfDigits ==
    ASSUME NEW bytes, \A k \in 1 .. WORD : bytes[k] \in Int
    PROVE  \E low : SumsUp(low, bytes) /\ u64_from_le_bytes(bytes) = low[WORD]
<1> USE EncodingAssumption
<1> DEFINE Solves(f) ==
              f = [k \in 0 .. WORD |-> IF k = 0 THEN 0 ELSE f[k - 1] + bytes[k] * Power[k - 1]]
           step == [k \in 1 .. WORD |-> [x \in Int |-> x + bytes[k] * Power[k - 1]]]
           low == CHOOSE f : Solves(f)
<1>0. \A k \in 1 .. WORD : bytes[k] * Power[k - 1] \in Int
  <2> TAKE k \in 1 .. WORD
  <2>1. k - 1 \in 0 .. WORD
    OBVIOUS
  <2>2. Power[k - 1] \in Nat
    BY <2>1, PowerUnfolds
  <2> QED
    BY <2>2
<1>1. PICK f : Follows(f, WORD, 0, step)
  <2>1. step \in [1 .. WORD -> [Int -> Int]]
    BY <1>0
  <2>2. WORD \in Nat /\ 0 \in Int /\ 1 \in Int
    OBVIOUS
  <2> HIDE DEF step
  <2> QED
    BY <2>1, <2>2, Recursion
<1>2. \A k \in 0 .. WORD :
        f[k] = IF k = 0 THEN 0 ELSE f[k - 1] + bytes[k] * Power[k - 1]
  <2> SUFFICES ASSUME NEW k \in 0 .. WORD, k # 0
               PROVE  f[k] = f[k - 1] + bytes[k] * Power[k - 1]
    BY <1>1 DEF Follows
  <2>1. k \in 1 .. WORD /\ k - 1 \in 0 .. WORD
    OBVIOUS
  <2>2. f[k] = step[k][f[k - 1]] /\ f[k - 1] \in Int
    BY <1>1, <2>1 DEF Follows
  <2> QED
    BY <2>1, <2>2
<1>3. Solves(f)
  <2> HIDE DEF step
  <2> QED
    BY <1>1, <1>2 DEF Follows
<1>4. Solves(low)
  <2> HIDE DEF Solves
  <2> QED
    BY <1>3
<1>5. \A k \in 0 .. WORD :
        low[k] = IF k = 0 THEN 0 ELSE low[k - 1] + bytes[k] * Power[k - 1]
  <2> HIDE DEF low
  <2> QED
    BY <1>4
<1>6. u64_from_le_bytes(bytes) = low[WORD]
  BY DEF u64_from_le_bytes
<1>7. low = [k \in 0 .. WORD |-> low[k]]
  <2> HIDE DEF low
  <2> QED
    BY <1>4
<1> HIDE DEF Solves, step, low
<1>8. low[0] = 0 /\ \A k \in 1 .. WORD : low[k] = low[k - 1] + bytes[k] * Power[k - 1]
  BY <1>5
<1> DEFINE Holding == {k \in Nat : k <= WORD => low[k] \in Int}
<1>9. 0 \in Holding
  BY <1>8
<1>10. ASSUME NEW k \in Nat, k \in Holding
       PROVE  k + 1 \in Holding
  <2> SUFFICES ASSUME k + 1 <= WORD
               PROVE  low[k + 1] \in Int
    OBVIOUS
  <2>1. k + 1 \in 1 .. WORD /\ (k + 1) - 1 = k
    OBVIOUS
  <2>2. low[k] \in Int /\ low[k + 1] = low[k] + bytes[k + 1] * Power[k]
    BY <1>8, <1>10, <2>1
  <2>3. bytes[k + 1] * Power[k] \in Int
    BY <1>0, <2>1
  <2> QED
    BY <2>2, <2>3
<1>11. \A k \in Nat : k \in Holding
  <2> HIDE DEF Holding
  <2> QED
    BY <1>9, <1>10, SetInduction
<1>12. low \in [0 .. WORD -> Int]
  BY <1>7, <1>11
<1> QED
  BY <1>6, <1>8, <1>12 DEF SumsUp

LEMMA IntQuotient ==
    ASSUME NEW n \in Int, NEW c \in Nat \ {0}
    PROVE  /\ n \div c \in Int
           /\ (n \div c) * c <= n /\ n < (n \div c) * c + c
           /\ n % c = n - (n \div c) * c
           /\ n % c \in 0 .. c - 1
  OBVIOUS

\* ... and it is the only such number.
LEMMA QuotientIs ==
    ASSUME NEW n \in Int, NEW c \in Nat \ {0}, NEW q \in Int,
           q * c <= n, n < q * c + c
    PROVE  n \div c = q
<1> DEFINE p == n \div c
<1>1. p \in Int /\ p * c <= n /\ n < p * c + c
  BY IntQuotient
<1> HIDE DEF p
<1>2. q * c \in Int /\ p * c \in Int
  BY <1>1
<1>3. CASE p > q
  <2>1. (p - q - 1) * c >= 0 /\ (p - q - 1) * c = p * c - q * c - c
    BY <1>1, <1>3
  <2> QED
    BY <1>1, <1>2, <2>1
<1>4. CASE p < q
  <2>1. (q - p - 1) * c >= 0 /\ (q - p - 1) * c = q * c - p * c - c
    BY <1>1, <1>4
  <2> QED
    BY <1>1, <1>2, <2>1
<1> QED
  BY <1>1, <1>3, <1>4 DEF p

\* Dividing twice is dividing by the product.
LEMMA QuotientTwice ==
    ASSUME NEW n \in Int, NEW c \in Nat \ {0}, NEW b \in Nat \ {0}
    PROVE  (n \div c) \div b = n \div (b * c)
<1> DEFINE p == n \div c
           q == p \div b
<1>1. p \in Int /\ p * c <= n /\ n < p * c + c
  BY IntQuotient
<1> HIDE DEF p
<1>2. q \in Int /\ q * b <= p /\ p <= q * b + b - 1
  BY <1>1, IntQuotient
<1> HIDE DEF q
<1>3. b * c \in Nat \ {0} /\ q * b \in Int /\ p * c \in Int
  BY <1>1, <1>2
<1>4. (p - q * b) * c >= 0 /\ (p - q * b) * c = p * c - (q * b) * c
  BY <1>1, <1>2, <1>3
<1>5. (q * b + b - 1 - p) * c >= 0
      /\ (q * b + b - 1 - p) * c = (q * b) * c + b * c - c - p * c
  BY <1>1, <1>2, <1>3
<1>6. (q * b) * c = q * (b * c) /\ q * (b * c) \in Int
  BY <1>2
<1>7. q * (b * c) <= n /\ n < q * (b * c) + b * c
  BY <1>1, <1>3, <1>4, <1>5, <1>6
<1>8. n \div (b * c) = q
  BY <1>2, <1>3, <1>7, QuotientIs
<1> QED
  BY <1>8 DEF p, q

LEMMA Digits ==
    ASSUME NEW n \in Int
    PROVE  /\ DOMAIN to_le_bytes(n) = 1 .. WORD
           /\ \A k \in 1 .. WORD :
                 /\ to_le_bytes(n)[k] \in Byte
                 /\ n \div Power[k - 1] \in Int
                 /\ n \div Power[k] \in Int
                 /\ to_le_bytes(n)[k] = n \div Power[k - 1] - (n \div Power[k]) * BYTE
<1> USE EncodingAssumption
<1>1. ASSUME NEW k \in 1 .. WORD
      PROVE  /\ to_le_bytes(n)[k] \in Byte
             /\ n \div Power[k - 1] \in Int
             /\ n \div Power[k] \in Int
             /\ to_le_bytes(n)[k] = n \div Power[k - 1] - (n \div Power[k]) * BYTE
  <2> DEFINE c == Power[k - 1]
             d == Power[k]
             p == n \div c
  <2>1. k - 1 \in 0 .. WORD /\ k \in 0 .. WORD
    OBVIOUS
  <2>2. c \in Nat \ {0} /\ d \in Nat \ {0} /\ d = BYTE * c
    BY <2>1, PowerUnfolds
  <2>3. to_le_bytes(n)[k] = p % BYTE
    BY DEF to_le_bytes
  <2> HIDE DEF c, d
  <2>4. p \in Int /\ n \div d \in Int
    BY <2>2, IntQuotient
  <2>5. p \div BYTE = n \div d
    BY <2>2, QuotientTwice
  <2> HIDE DEF p
  <2>6. p % BYTE = p - (p \div BYTE) * BYTE /\ p % BYTE \in Byte
    BY <2>4, IntQuotient DEF Byte
  <2> QED
    BY <2>3, <2>4, <2>5, <2>6 DEF c, d, p
<1> QED
  BY <1>1 DEF to_le_bytes

\* Reading a word back gives the number modulo the width.
LEMMA ReadWritten ==
    ASSUME NEW n \in Int
    PROVE  u64_from_le_bytes(to_le_bytes(n)) = n % (U64_MAX + 1)
<1> USE EncodingAssumption
<1> DEFINE bytes == to_le_bytes(n)
<1>1. \A k \in 1 .. WORD :
         /\ bytes[k] \in Int
         /\ n \div Power[k - 1] \in Int
         /\ n \div Power[k] \in Int
         /\ bytes[k] = n \div Power[k - 1] - (n \div Power[k]) * BYTE
  <2>1. \A k \in 1 .. WORD :
            /\ bytes[k] \in Byte
            /\ n \div Power[k - 1] \in Int
            /\ n \div Power[k] \in Int
            /\ bytes[k] = n \div Power[k - 1] - (n \div Power[k]) * BYTE
    BY Digits
  <2>2. \A b \in Byte : b \in Int
    BY DEF Byte
  <2> HIDE DEF bytes
  <2> QED
    BY <2>1, <2>2
<1> HIDE DEF bytes
<1>2. PICK low : SumsUp(low, bytes) /\ u64_from_le_bytes(bytes) = low[WORD]
  <2>1. \A k \in 1 .. WORD : bytes[k] \in Int
    BY <1>1
  <2> QED
    BY <2>1, SumOfDigits
<1> DEFINE Holding == {k \in Nat : k <= WORD => low[k] = n - (n \div Power[k]) * Power[k]}
<1>3. 0 \in Holding
  <2>1. Power[0] = 1 /\ n \div 1 = n
    BY PowerUnfolds
  <2> QED
    BY <1>2, <2>1 DEF SumsUp
<1>4. ASSUME NEW k \in Nat, k \in Holding
      PROVE  k + 1 \in Holding
  <2> SUFFICES ASSUME k + 1 <= WORD
               PROVE  low[k + 1] = n - (n \div Power[k + 1]) * Power[k + 1]
    OBVIOUS
  <2> DEFINE c == Power[k]
             d == Power[k + 1]
             p == n \div c
             q == n \div d
             byte == bytes[k + 1]
  <2>1. k + 1 \in 1 .. WORD /\ (k + 1) - 1 = k /\ k \in 0 .. WORD
    OBVIOUS
  <2>2. c \in Nat /\ d \in Nat /\ d = BYTE * c
    BY <2>1, PowerUnfolds
  <2>3. p \in Int /\ q \in Int /\ byte = p - q * BYTE
    BY <1>1, <2>1
  <2>4. low[k + 1] = low[k] + byte * c /\ low[k] = n - p * c
    BY <1>2, <1>4, <2>1 DEF SumsUp
  <2> HIDE DEF c, d, p, q, byte
  <2>5. (p - q * BYTE) * c = p * c - q * (BYTE * c)
    BY <2>2, <2>3
  <2>6. p * c \in Int /\ q * (BYTE * c) \in Int
    BY <2>2, <2>3
  <2>7. low[k + 1] = n - q * d
    BY <2>2, <2>3, <2>4, <2>5, <2>6
  <2> QED
    BY <2>7 DEF d, q
<1>5. \A k \in Nat : k \in Holding
  <2> HIDE DEF Holding
  <2> QED
    BY <1>3, <1>4, SetInduction
<1> DEFINE width == Power[WORD]
<1>6. low[WORD] = n - (n \div width) * width
  BY <1>5
<1>7. width \in Nat \ {0} /\ width = U64_MAX + 1
  BY PowerUnfolds
<1> HIDE DEF width, Holding
<1>8. n % width = n - (n \div width) * width
  BY <1>7, IntQuotient
<1> QED
  BY <1>2, <1>6, <1>7, <1>8 DEF bytes

Word == [1 .. WORD -> Byte]

\* What digits are worth, and that no other number has these digits.
LEMMA ReadWord ==
    ASSUME NEW bytes \in Word
    PROVE  /\ u64_from_le_bytes(bytes) \in U64
           /\ to_le_bytes(u64_from_le_bytes(bytes)) = bytes
<1> USE EncodingAssumption
<1>1. \A k \in 1 .. WORD : bytes[k] \in Byte /\ bytes[k] \in Int
  BY DEF Word, Byte
<1>2. PICK low : SumsUp(low, bytes) /\ u64_from_le_bytes(bytes) = low[WORD]
  BY <1>1, SumOfDigits
<1>3. ASSUME NEW k \in 1 .. WORD
      PROVE  /\ low[k - 1] \in Int /\ low[k] \in Int
             /\ bytes[k] \in Int /\ 0 <= bytes[k] /\ bytes[k] <= BYTE - 1
             /\ Power[k - 1] \in Nat \ {0} /\ Power[k] = BYTE * Power[k - 1]
             /\ low[k] = low[k - 1] + bytes[k] * Power[k - 1]
  <2>1. k - 1 \in 0 .. WORD /\ k \in 0 .. WORD
    OBVIOUS
  <2>2. Power[k - 1] \in Nat \ {0} /\ Power[k] = BYTE * Power[k - 1]
    BY <2>1, PowerUnfolds
  <2>3. bytes[k] \in Int /\ 0 <= bytes[k] /\ bytes[k] <= BYTE - 1
    BY <1>1 DEF Byte
  <2> QED
    BY <1>2, <2>1, <2>2, <2>3 DEF SumsUp
\* The first k digits are worth less than one in the next place.
<1> DEFINE Holding == {k \in Nat : k <= WORD => 0 <= low[k] /\ low[k] < Power[k]}
<1>4. 0 \in Holding
  BY <1>2, PowerUnfolds DEF SumsUp
<1>5. ASSUME NEW k \in Nat, k \in Holding
      PROVE  k + 1 \in Holding
  <2> SUFFICES ASSUME k + 1 <= WORD
               PROVE  0 <= low[k + 1] /\ low[k + 1] < Power[k + 1]
    OBVIOUS
  <2> DEFINE c == Power[k]
             byte == bytes[k + 1]
  <2>1. k + 1 \in 1 .. WORD /\ (k + 1) - 1 = k
    OBVIOUS
  <2>2. /\ low[k] \in Int /\ c \in Nat \ {0} /\ Power[k + 1] = BYTE * c
        /\ byte \in Int /\ 0 <= byte /\ byte <= BYTE - 1
        /\ low[k + 1] = low[k] + byte * c
        /\ 0 <= low[k] /\ low[k] < c
    BY <1>3, <1>5, <2>1
  <2> HIDE DEF c, byte
  <2>3. 0 <= byte * c
    BY <2>2
  <2>4. (BYTE - 1 - byte) * c >= 0 /\ (BYTE - 1 - byte) * c = BYTE * c - c - byte * c
    BY <2>2
  <2>5. byte * c \in Int /\ BYTE * c \in Int
    BY <2>2
  <2> QED
    BY <2>2, <2>3, <2>4, <2>5
<1>6. \A k \in Nat : k \in Holding
  <2> HIDE DEF Holding
  <2> QED
    BY <1>4, <1>5, SetInduction
<1>7. \A k \in 0 .. WORD : 0 <= low[k] /\ low[k] < Power[k]
  BY <1>6
<1> DEFINE n == low[WORD]
<1>8. n \in Int /\ 0 <= n /\ n < Power[WORD]
  BY <1>2, <1>7 DEF SumsUp
<1>9. n \in U64
  BY <1>8, WidthAssumption DEF U64
<1> HIDE DEF n, Holding
\* From the last place down: the quotients of the value are the digits above.
<1> DEFINE above(k) == (n \div Power[k]) * Power[k]
           T == {j \in Nat : j <= WORD => n - above(WORD - j) = low[WORD - j]}
<1>10. 0 \in T
  <2>1. Power[WORD] \in Nat \ {0}
    BY PowerUnfolds
  <2>2. n \div Power[WORD] = 0
    <3> DEFINE c == Power[WORD]
    <3> HIDE DEF c
    <3>1. 0 * c <= n /\ n < 0 * c + c
      BY <1>8, <2>1 DEF c
    <3>2. n \div c = 0
      BY <1>8, <2>1, <3>1, QuotientIs DEF c
    <3> QED
      BY <3>2 DEF c
  <2>3. above(WORD) = 0
    BY <2>1, <2>2
  <2> QED
    BY <1>8, <2>3 DEF n
<1>11. ASSUME NEW j \in Nat, j \in T
       PROVE  j + 1 \in T
  <2> SUFFICES ASSUME j + 1 <= WORD
               PROVE  n - above(WORD - (j + 1)) = low[WORD - (j + 1)]
    OBVIOUS
  <2> DEFINE k == WORD - j
             c == Power[k - 1]
             d == Power[k]
             q == n \div d
             byte == bytes[k]
  <2>1. k \in 1 .. WORD /\ k - 1 \in 0 .. WORD /\ k \in 0 .. WORD /\ WORD - (j + 1) = k - 1
    OBVIOUS
  <2>2. n - q * d = low[k]
    BY <1>11
  <2>3. /\ low[k - 1] \in Int /\ c \in Nat \ {0} /\ d = BYTE * c
        /\ byte \in Int /\ low[k] = low[k - 1] + byte * c
        /\ 0 <= low[k - 1] /\ low[k - 1] < c
    BY <1>3, <1>7, <2>1
  <2>4. d \in Nat \ {0}
    BY <2>1, PowerUnfolds
  <2>5. q \in Int
    BY <1>8, <2>4, IntQuotient
  <2> HIDE DEF c, d, q, byte, k
  <2>6. (q * BYTE + byte) * c = q * (BYTE * c) + byte * c
    BY <2>3, <2>5
  <2>7. q * (BYTE * c) \in Int /\ byte * c \in Int /\ q * BYTE + byte \in Int
    BY <2>3, <2>5
  <2>8. n = low[k - 1] + (q * BYTE + byte) * c
    BY <1>8, <2>2, <2>3, <2>6, <2>7
  <2>9. n \div c = q * BYTE + byte
    <3> DEFINE r == q * BYTE + byte
    <3>1. r \in Int /\ n = low[k - 1] + r * c
      BY <2>7, <2>8
    <3> HIDE DEF r
    <3>2. r * c <= n /\ n < r * c + c
      BY <1>8, <2>3, <3>1
    <3>3. n \div c = r
      BY <1>8, <2>3, <3>1, <3>2, QuotientIs
    <3> QED
      BY <3>3 DEF r
  <2>10. n - (n \div c) * c = low[k - 1]
    BY <1>8, <2>3, <2>7, <2>8, <2>9
  <2> QED
    BY <2>1, <2>10 DEF c
<1>12. \A j \in Nat : j \in T
  <2> HIDE DEF T
  <2> QED
    BY <1>10, <1>11, SetInduction
<1>13. ASSUME NEW k \in 0 .. WORD
       PROVE  n - above(k) = low[k]
  <2>1. WORD - k \in Nat /\ WORD - k <= WORD /\ WORD - (WORD - k) = k
    OBVIOUS
  <2>2. WORD - k \in T
    BY <1>12, <2>1
  <2> QED
    BY <2>1, <2>2
<1> HIDE DEF T
<1>14. ASSUME NEW k \in 1 .. WORD
       PROVE  to_le_bytes(n)[k] = bytes[k]
  <2> DEFINE c == Power[k - 1]
             d == Power[k]
             p == n \div c
             q == n \div d
  <2>1. k - 1 \in 0 .. WORD /\ k \in 0 .. WORD
    OBVIOUS
  <2>2. p \in Int /\ q \in Int /\ to_le_bytes(n)[k] = p - q * BYTE
    BY <1>8, Digits
  <2>3. n - p * c = low[k - 1] /\ n - q * d = low[k]
    BY <1>13, <2>1
  <2>4. /\ low[k - 1] \in Int /\ c \in Nat \ {0} /\ d = BYTE * c
        /\ bytes[k] \in Int /\ low[k] = low[k - 1] + bytes[k] * c
    BY <1>3
  <2> HIDE DEF c, d, p, q
  <2>5. (p - q * BYTE) * c = p * c - q * (BYTE * c)
    BY <2>2, <2>4
  <2>6. p * c \in Int /\ q * (BYTE * c) \in Int /\ bytes[k] * c \in Int
    BY <2>2, <2>4
  <2>7. (p - q * BYTE) * c = bytes[k] * c
    BY <1>8, <2>3, <2>4, <2>5, <2>6
  <2>8. \A x \in Int, y \in Int, z \in Nat \ {0} : x * z = y * z => x = y
    OBVIOUS
  <2>9. p - q * BYTE \in Int
    BY <2>2
  <2>10. p - q * BYTE = bytes[k]
    BY <2>4, <2>7, <2>8, <2>9
  <2> QED
    BY <2>2, <2>10
<1>15. to_le_bytes(n) = bytes
  <2>1. /\ bytes = [k \in 1 .. WORD |-> bytes[k]]
        /\ to_le_bytes(n) = [k \in 1 .. WORD |-> to_le_bytes(n)[k]]
    BY DEF Word, to_le_bytes
  <2> QED
    BY <1>14, <2>1
<1> QED
  BY <1>2, <1>9, <1>15 DEF n

LEMMA WrittenWord ==
    ASSUME NEW n \in Int
    PROVE  to_le_bytes(n) \in Word
<1>1. \A k \in 1 .. WORD : (n \div Power[k - 1]) % BYTE = to_le_bytes(n)[k]
  BY DEF to_le_bytes
<1>2. \A k \in 1 .. WORD : to_le_bytes(n)[k] \in Byte
  BY Digits
<1> QED
  BY <1>1, <1>2 DEF to_le_bytes, Word

LEMMA U64RoundTrip ==
    ASSUME NEW n \in U64
    PROVE  u64_from_le_bytes(to_le_bytes(n)) = n
<1>1. /\ n \in Int /\ U64_MAX + 1 \in Nat \ {0}
      /\ 0 * (U64_MAX + 1) <= n /\ n < 0 * (U64_MAX + 1) + (U64_MAX + 1)
  BY WidthAssumption DEF U64
<1> DEFINE c == U64_MAX + 1
<1> HIDE DEF c
<1>2. n \div c = 0
  BY <1>1, QuotientIs DEF c
<1>3. c \in Nat \ {0}
  BY <1>1 DEF c
<1>4. n % c = n - (n \div c) * c
  BY <1>1, <1>3, IntQuotient
<1>5. n % c = n
  BY <1>1, <1>2, <1>3, <1>4
<1> QED
  BY <1>1, <1>5, ReadWritten DEF c

\* An i64 comes back as it was, negative numbers in two's complement.
LEMMA I64RoundTrip ==
    ASSUME NEW n \in I64
    PROVE  i64_from_le_bytes(to_le_bytes(n)) = n
<1> DEFINE c == U64_MAX + 1
           half == U64_MAX \div 2
           read == u64_from_le_bytes(to_le_bytes(n))
<1>1. /\ c \in Nat \ {0} /\ half \in Nat /\ 2 * half <= U64_MAX /\ U64_MAX <= 2 * half + 1
      /\ U64_MAX = c - 1
  BY WidthAssumption
<1>2. n \in Int /\ half - U64_MAX <= n /\ n <= half
  BY <1>1 DEF I64
<1>3. read = n % c
  BY <1>2, ReadWritten
<1>4. i64_from_le_bytes(to_le_bytes(n)) = IF read <= half THEN read ELSE read - c
  BY DEF i64_from_le_bytes
<1> HIDE DEF c, half, read
<1>5. CASE n >= 0
  <2>1. 0 * c <= n /\ n < 0 * c + c
    BY <1>1, <1>2, <1>5
  <2>2. n \div c = 0
    BY <1>1, <1>2, <2>1, QuotientIs
  <2>3. n % c = n - (n \div c) * c
    BY <1>1, <1>2, IntQuotient
  <2>4. read = n
    BY <1>1, <1>2, <1>3, <2>2, <2>3
  <2> QED
    BY <1>2, <1>4, <2>4
<1>6. CASE n < 0
  <2>1. (-1) * c <= n /\ n < (-1) * c + c
    BY <1>1, <1>2, <1>6
  <2>2. n \div c = -1
    BY <1>1, <1>2, <2>1, QuotientIs
  <2>3. n % c = n - (n \div c) * c
    BY <1>1, <1>2, IntQuotient
  <2>4. read = n + c
    BY <1>1, <1>2, <1>3, <2>2, <2>3
  <2> QED
    BY <1>1, <1>2, <1>4, <2>4
<1> QED
  BY <1>2, <1>5, <1>6

\* Numbers that differ by the width have the same digits.
LEMMA SameDigits ==
    ASSUME NEW n \in U64
    PROVE  to_le_bytes(n - (U64_MAX + 1)) = to_le_bytes(n)
<1> DEFINE c == U64_MAX + 1
           m == n - c
<1>1. n \in Int /\ 0 <= n /\ n < c /\ c \in Nat \ {0} /\ m \in Int
  BY WidthAssumption DEF U64
<1>2. u64_from_le_bytes(to_le_bytes(m)) = m % c
  BY <1>1, ReadWritten
<1> HIDE DEF c
<1>3. (-1) * c <= m /\ m < (-1) * c + c
  BY <1>1
<1> HIDE DEF m
<1>4. m \div c = -1
  BY <1>1, <1>3, QuotientIs
<1>5. m % c = n
  <2>1. c \in Nat \ {0} /\ m \in Int /\ n = m + c /\ n \in Int
    BY <1>1 DEF m, c
  <2>2. m % c = m - (m \div c) * c
    BY <2>1, IntQuotient
  <2> QED
    BY <1>4, <2>1, <2>2
<1>6. to_le_bytes(m) \in Word
  BY <1>1, WrittenWord
<1>7. to_le_bytes(u64_from_le_bytes(to_le_bytes(m))) = to_le_bytes(m)
  BY <1>6, ReadWord
<1> QED
  BY <1>2, <1>5, <1>7 DEF m, c

LEMMA ReadI64 ==
    ASSUME NEW bytes \in Word
    PROVE  /\ i64_from_le_bytes(bytes) \in I64
           /\ to_le_bytes(i64_from_le_bytes(bytes)) = bytes
<1> DEFINE n == u64_from_le_bytes(bytes)
           half == U64_MAX \div 2
<1>1. n \in U64 /\ to_le_bytes(n) = bytes
  BY ReadWord
<1>2. i64_from_le_bytes(bytes) = IF n <= half THEN n ELSE n - (U64_MAX + 1)
  BY DEF i64_from_le_bytes
<1>3. half \in Nat /\ n \in Nat /\ n <= U64_MAX /\ U64_MAX \in Nat
      /\ 2 * half <= U64_MAX /\ U64_MAX <= 2 * half + 1
  BY <1>1, WidthAssumption DEF U64
<1>4. to_le_bytes(n - (U64_MAX + 1)) = bytes
  BY <1>1, SameDigits
<1>5. I64 = - (U64_MAX - half) .. half
  BY DEF I64
<1> HIDE DEF n, half
<1>6. n <= half => n \in I64
  BY <1>3, <1>5
<1>7. n > half => n - (U64_MAX + 1) \in I64
  BY <1>3, <1>5
<1> QED
  BY <1>1, <1>2, <1>3, <1>4, <1>6, <1>7

(***************************************************************************)
(* Buffers of words.                                                       *)
(***************************************************************************)

\* The parts of a buffer that was put together from two.
LEMMA WithinSecondPart ==
    ASSUME NEW Cells, NEW s \in Seq(Cells), NEW t \in Seq(Cells),
           NEW i \in 1 .. Len(t), NEW j \in 1 .. Len(t)
    PROVE  SubSeq(s \o t, Len(s) + i, Len(s) + j) = SubSeq(t, i, j)
<1> DEFINE m == Len(s) + i
           n == Len(s) + j
<1>1. /\ m \in Len(s) + 1 .. Len(s) + Len(t) /\ m - Len(s) = i
      /\ n \in Len(s) + 1 .. Len(s) + Len(t) /\ n - Len(s) = j
  OBVIOUS
<1> HIDE DEF m, n
<1>2. SubSeq(s \o t, m, n) = SubSeq(t, m - Len(s), n - Len(s))
  BY <1>1, SubSeqOfConcat2
<1> QED
  BY <1>1, <1>2 DEF m, n

LEMMA SecondPart ==
    ASSUME NEW Cells, NEW s \in Seq(Cells), NEW t \in Seq(Cells), t # << >>
    PROVE  SubSeq(s \o t, Len(s) + 1, Len(s) + Len(t)) = t
<1>1. 1 \in 1 .. Len(t) /\ Len(t) \in 1 .. Len(t)
  BY EmptySeq
<1>2. SubSeq(t, 1, Len(t)) = t
  BY SubSeqFull
<1> QED
  BY <1>1, <1>2, WithinSecondPart

LEMMA WordIsSeq ==
    ASSUME NEW w \in Word
    PROVE  w \in Seq(Int) /\ Len(w) = WORD /\ WORD \in Nat
<1>1. WORD \in Nat
  BY EncodingAssumption
<1>2. w \in [1 .. WORD -> Int]
  BY EncodingAssumption DEF Word, Byte
<1> QED
  BY <1>1, <1>2

\* A multiple of the size of a word.
LEMMA Words ==
    ASSUME NEW k \in Nat
    PROVE  k * WORD \in Nat /\ (k + 1) * WORD = k * WORD + WORD
BY EncodingAssumption

\* The first k words of a buffer that has no more.
Holds(s, k, words) ==
    /\ s \in Seq(Int)
    /\ Len(s) = k * WORD
    /\ \A i \in 1 .. k : WordAt(s, i) = words[i]

LEMMA AppendWord ==
    ASSUME NEW s, NEW words, NEW k \in Nat, Holds(s, k, words),
           NEW w \in Word, words[k + 1] = w
    PROVE  Holds(s \o w, k + 1, words)
<1> DEFINE n == k * WORD
           m == (k + 1) * WORD
<1>1. /\ w \in Seq(Int) /\ Len(w) = WORD /\ WORD \in Nat \ {0}
      /\ s \in Seq(Int) /\ Len(s) = n /\ n \in Nat /\ m = n + WORD
  BY WordIsSeq, Words, EncodingAssumption DEF Holds
<1>0. w # << >>
  BY <1>1
<1>2. s \o w \in Seq(Int) /\ Len(s \o w) = m
  <2> HIDE DEF n, m
  <2> QED
    BY <1>1, ConcatProperties
<1>3. WordAt(s \o w, k + 1) = w
  <2>1. (k + 1 - 1) * WORD + 1 = Len(s) + 1 /\ (k + 1) * WORD = Len(s) + Len(w)
    <3>1. k + 1 - 1 = k
      OBVIOUS
    <3> QED
      BY <1>1, <3>1
  <2> HIDE DEF n, m
  <2>2. SubSeq(s \o w, Len(s) + 1, Len(s) + Len(w)) = w
    BY <1>0, <1>1, SecondPart
  <2> QED
    BY <2>1, <2>2 DEF WordAt
<1>4. ASSUME NEW i \in 1 .. k
      PROVE  WordAt(s \o w, i) = WordAt(s, i)
  <2> DEFINE a == (i - 1) * WORD + 1
             b == i * WORD
  <2>1. a \in 1 .. Len(s) /\ b \in 1 .. Len(s)
    <3>1. i - 1 \in Nat /\ i \in Nat /\ i - 1 + 1 = i /\ k - i \in Nat /\ k = i + (k - i)
      OBVIOUS
    <3>2. (i - 1) * WORD \in Nat /\ i * WORD = (i - 1) * WORD + WORD
      BY <3>1, Words
    <3>3. (k - i) * WORD \in Nat
      BY <3>1, Words
    <3>4. k * WORD = i * WORD + (k - i) * WORD
      <4>1. \A x \in Nat, y \in Nat, z \in Nat : (x + y) * z = x * z + y * z
        OBVIOUS
      <4>2. (i + (k - i)) * WORD = i * WORD + (k - i) * WORD
        BY <1>1, <3>1, <4>1
      <4> QED
        BY <3>1, <4>2
    <3> DEFINE before == (i - 1) * WORD
               after == (k - i) * WORD
    <3>5. /\ before \in Nat /\ b = before + WORD /\ a = before + 1
          /\ after \in Nat /\ n = b + after
      BY <3>2, <3>3, <3>4
    <3> HIDE DEF before, after, a, b, n, m
    <3> QED
      BY <1>1, <3>5
  <2> HIDE DEF a, b, n, m
  <2>2. SubSeq(s \o w, a, b) = SubSeq(s, a, b)
    BY <1>1, <2>1, SubSeqOfConcat1
  <2> QED
    BY <2>2 DEF WordAt, a, b
<1>5. \A i \in 1 .. k + 1 : i \in 1 .. k \/ i = k + 1
  OBVIOUS
<1> QED
  BY <1>2, <1>3, <1>4, <1>5 DEF Holds

LEMMA FirstWord ==
    ASSUME NEW w \in Word, NEW words, words[1] = w
    PROVE  Holds(w, 1, words)
<1>1. w \in Seq(Int) /\ Len(w) = WORD /\ WORD \in Nat
  BY WordIsSeq
<1>2. WordAt(w, 1) = SubSeq(w, 1, Len(w))
  BY <1>1 DEF WordAt
<1>3. SubSeq(w, 1, Len(w)) = w
  BY <1>1, SubSeqFull
<1>4. 1 * WORD = WORD /\ \A i \in 1 .. 1 : i = 1
  BY <1>1
<1> QED
  BY <1>1, <1>2, <1>3, <1>4 DEF Holds

\* A buffer whose cells are bytes is made of words.
LEMMA WordOfBytes ==
    ASSUME NEW s \in Seq(Int), \A i \in 1 .. Len(s) : s[i] \in Byte,
           NEW k \in Nat \ {0}, k * WORD <= Len(s)
    PROVE  /\ WordAt(s, k) \in Word
           /\ SubSeq(s, 1, (k - 1) * WORD) \o WordAt(s, k) = SubSeq(s, 1, k * WORD)
<1> DEFINE a == (k - 1) * WORD
<1>1. /\ a \in Nat /\ k * WORD = a + WORD /\ WORD \in Nat \ {0} /\ Len(s) \in Nat
      /\ a + WORD <= Len(s)
  <2>1. k - 1 \in Nat /\ k - 1 + 1 = k
    OBVIOUS
  <2> QED
    BY <2>1, Words, EncodingAssumption, LenProperties
<1>2. WordAt(s, k) = SubSeq(s, a + 1, a + WORD)
  BY <1>1 DEF WordAt
<1> HIDE DEF a
<1>3. \A i \in a + 1 .. a + WORD : s[i] \in Byte
  BY <1>1
<1>4. /\ SubSeq(s, a + 1, a + WORD) \in Seq(Byte)
      /\ Len(SubSeq(s, a + 1, a + WORD)) = WORD
  BY <1>1, <1>3, SubSeqProperties
<1>5. WordAt(s, k) \in Word
  BY <1>2, <1>4, LenProperties DEF Word
<1>6. SubSeq(s, 1, a) \o SubSeq(s, a + 1, a + WORD) = SubSeq(s, 1, a + WORD)
  <2>1. 1 \in 1 .. Len(s) + 1 /\ a \in 1 - 1 .. Len(s) /\ a + WORD \in a .. Len(s)
    BY <1>1
  <2> QED
    BY <2>1, ConcatAdjacentSubSeq
<1> QED
  BY <1>1, <1>2, <1>5, <1>6 DEF a

(***************************************************************************)
(* Fees.                                                                   *)
(***************************************************************************)

LEMMA FeesRoundTrip ==
    ASSUME NEW fees \in Fees
    PROVE  /\ Fees_pack(fees) \in Seq(Int) /\ Len(Fees_pack(fees)) = FEES_LEN
           /\ Fees_unpack_from_slice(Fees_pack(fees)) = fees
<1> DEFINE words == << to_le_bytes(fees.admin_trade_fee_numerator),
                       to_le_bytes(fees.admin_trade_fee_denominator),
                       to_le_bytes(fees.admin_withdraw_fee_numerator),
                       to_le_bytes(fees.admin_withdraw_fee_denominator),
                       to_le_bytes(fees.trade_fee_numerator),
                       to_le_bytes(fees.trade_fee_denominator),
                       to_le_bytes(fees.withdraw_fee_numerator),
                       to_le_bytes(fees.withdraw_fee_denominator) >>
           Fee(i) == u64_from_le_bytes(words[i])
           packed == Fees_pack(fees)
<1>1. \A n \in U64 : to_le_bytes(n) \in Word /\ u64_from_le_bytes(to_le_bytes(n)) = n
  <2>1. \A n \in U64 : n \in Int
    BY WidthAssumption DEF U64
  <2> QED
    BY <2>1, WrittenWord, U64RoundTrip
<1>2. /\ words[1] \in Word /\ words[2] \in Word /\ words[3] \in Word /\ words[4] \in Word
      /\ words[5] \in Word /\ words[6] \in Word /\ words[7] \in Word /\ words[8] \in Word
  BY <1>1 DEF Fees
<1>3. packed = words[1] \o words[2] \o words[3] \o words[4]
               \o words[5] \o words[6] \o words[7] \o words[8]
  BY DEF Fees_pack
<1>4. fees = [ admin_trade_fee_numerator      |-> Fee(1),
               admin_trade_fee_denominator    |-> Fee(2),
               admin_withdraw_fee_numerator   |-> Fee(3),
               admin_withdraw_fee_denominator |-> Fee(4),
               trade_fee_numerator            |-> Fee(5),
               trade_fee_denominator          |-> Fee(6),
               withdraw_fee_numerator         |-> Fee(7),
               withdraw_fee_denominator       |-> Fee(8) ]
  BY <1>1 DEF Fees
<1> HIDE DEF words
<1>5. Holds(packed, 8, words)
  <2> DEFINE s2 == words[1] \o words[2]
             s3 == s2 \o words[3]
             s4 == s3 \o words[4]
             s5 == s4 \o words[5]
             s6 == s5 \o words[6]
             s7 == s6 \o words[7]
             s8 == s7 \o words[8]
  <2>1. Holds(words[1], 1, words)
    BY <1>2, FirstWord
  <2>2. Holds(s2, 1 + 1, words)
    BY <1>2, <2>1, AppendWord
  <2> HIDE DEF s2
  <2>3. Holds(s3, 2 + 1, words)
    BY <1>2, <2>2, AppendWord
  <2> HIDE DEF s3
  <2>4. Holds(s4, 3 + 1, words)
    BY <1>2, <2>3, AppendWord
  <2> HIDE DEF s4
  <2>5. Holds(s5, 4 + 1, words)
    BY <1>2, <2>4, AppendWord
  <2> HIDE DEF s5
  <2>6. Holds(s6, 5 + 1, words)
    BY <1>2, <2>5, AppendWord
  <2> HIDE DEF s6
  <2>7. Holds(s7, 6 + 1, words)
    BY <1>2, <2>6, AppendWord
  <2> HIDE DEF s7
  <2>8. Holds(s8, 7 + 1, words)
    BY <1>2, <2>7, AppendWord
  <2>9. packed = s8
    BY <1>3 DEF s2, s3, s4, s5, s6, s7
  <2> QED
    BY <2>8, <2>9
<1> HIDE DEF packed
<1>6. \A i \in 1 .. 8 : unpack_u64(packed, i) = Fee(i)
  BY <1>5 DEF Holds, unpack_u64
<1>7. Fees_unpack_from_slice(packed) = fees
  <2>1. /\ unpack_u64(packed, 1) = Fee(1) /\ unpack_u64(packed, 2) = Fee(2)
        /\ unpack_u64(packed, 3) = Fee(3) /\ unpack_u64(packed, 4) = Fee(4)
        /\ unpack_u64(packed, 5) = Fee(5) /\ unpack_u64(packed, 6) = Fee(6)
        /\ unpack_u64(packed, 7) = Fee(7) /\ unpack_u64(packed, 8) = Fee(8)
    BY <1>6
  <2> QED
    BY <1>4, <2>1 DEF Fees_unpack_from_slice
<1>8. packed \in Seq(Int) /\ Len(packed) = FEES_LEN
  BY <1>5 DEF Holds, FEES_LEN
<1> QED
  BY <1>7, <1>8 DEF packed

\* Any bytes of the right length are the encoding of the fees they stand for.
LEMMA FeesOfBytes ==
    ASSUME NEW s \in Seq(Int), \A i \in 1 .. Len(s) : s[i] \in Byte, FeesFit(s)
    PROVE  /\ Fees_unpack_from_slice(s) \in Fees
           /\ Fees_pack(Fees_unpack_from_slice(s)) = s
<1> DEFINE w == [i \in 1 .. 8 |-> WordAt(s, i)]
           upto == [i \in 0 .. 8 |-> SubSeq(s, 1, i * WORD)]
<1>1. /\ Len(s) = 8 * WORD /\ WORD \in Nat /\ Len(s) \in Nat
      /\ 1 * WORD <= Len(s) /\ 2 * WORD <= Len(s) /\ 3 * WORD <= Len(s)
      /\ 4 * WORD <= Len(s) /\ 5 * WORD <= Len(s) /\ 6 * WORD <= Len(s)
      /\ 7 * WORD <= Len(s)
  BY EncodingAssumption DEF FeesFit, FEES_LEN
<1>2. ASSUME NEW k \in 1 .. 8
      PROVE  w[k] \in Word /\ upto[k - 1] \o w[k] = upto[k]
  <2>1. k \in Nat \ {0} /\ k * WORD <= Len(s)
    BY <1>1
  <2>2. k \in 1 .. 8 /\ k \in 0 .. 8 /\ k - 1 \in 0 .. 8
    OBVIOUS
  <2> QED
    BY <2>1, <2>2, WordOfBytes
<1>3. \A k \in 1 .. 8 : /\ unpack_u64(s, k) \in U64
                        /\ to_le_bytes(unpack_u64(s, k)) = w[k]
  BY <1>2, ReadWord DEF unpack_u64
<1>4. Fees_unpack_from_slice(s) \in Fees
  <2> HIDE DEF w, upto
  <2>1. /\ unpack_u64(s, 1) \in U64 /\ unpack_u64(s, 2) \in U64
        /\ unpack_u64(s, 3) \in U64 /\ unpack_u64(s, 4) \in U64
        /\ unpack_u64(s, 5) \in U64 /\ unpack_u64(s, 6) \in U64
        /\ unpack_u64(s, 7) \in U64 /\ unpack_u64(s, 8) \in U64
    BY <1>3
  <2> QED
    BY <2>1 DEF Fees_unpack_from_slice, Fees
<1>5. Fees_pack(Fees_unpack_from_slice(s))
        = w[1] \o w[2] \o w[3] \o w[4] \o w[5] \o w[6] \o w[7] \o w[8]
  <2> HIDE DEF w, upto
  <2>1. /\ to_le_bytes(unpack_u64(s, 1)) = w[1] /\ to_le_bytes(unpack_u64(s, 2)) = w[2]
        /\ to_le_bytes(unpack_u64(s, 3)) = w[3] /\ to_le_bytes(unpack_u64(s, 4)) = w[4]
        /\ to_le_bytes(unpack_u64(s, 5)) = w[5] /\ to_le_bytes(unpack_u64(s, 6)) = w[6]
        /\ to_le_bytes(unpack_u64(s, 7)) = w[7] /\ to_le_bytes(unpack_u64(s, 8)) = w[8]
    BY <1>3
  <2> QED
    BY <2>1 DEF Fees_unpack_from_slice, Fees_pack
<1>6. w[1] = upto[1]
  BY <1>1 DEF WordAt
<1>7. upto[8] = s
  BY <1>1, SubSeqFull
<1>8. /\ upto[1] \o w[2] = upto[2] /\ upto[2] \o w[3] = upto[3] /\ upto[3] \o w[4] = upto[4]
      /\ upto[4] \o w[5] = upto[5] /\ upto[5] \o w[6] = upto[6] /\ upto[6] \o w[7] = upto[7]
      /\ upto[7] \o w[8] = upto[8]
  <2> HIDE DEF w, upto
  <2>1. \A i \in 0 .. 8, k \in 1 .. 8 : i = k - 1 => upto[i] \o w[k] = upto[k]
    BY <1>2
  <2>2. /\ 1 \in 0 .. 8 /\ 2 \in 0 .. 8 /\ 3 \in 0 .. 8 /\ 4 \in 0 .. 8
        /\ 5 \in 0 .. 8 /\ 6 \in 0 .. 8 /\ 7 \in 0 .. 8
        /\ 2 \in 1 .. 8 /\ 3 \in 1 .. 8 /\ 4 \in 1 .. 8
        /\ 5 \in 1 .. 8 /\ 6 \in 1 .. 8 /\ 7 \in 1 .. 8 /\ 8 \in 1 .. 8
    OBVIOUS
  <2>3. /\ 1 = 2 - 1 /\ 2 = 3 - 1 /\ 3 = 4 - 1 /\ 4 = 5 - 1
        /\ 5 = 6 - 1 /\ 6 = 7 - 1 /\ 7 = 8 - 1
    OBVIOUS
  <2> QED
    BY <2>1, <2>2, <2>3, Zenon
<1> HIDE DEF w, upto
<1> QED
  BY <1>4, <1>5, <1>6, <1>7, <1>8

(***************************************************************************)
(* Instructions: what is packed is dispatched to.                          *)
(***************************************************************************)

LEMMA Tagged ==
    ASSUME NEW tag \in Int, NEW s \in Seq(Int)
    PROVE  /\ <<tag>> \o s \in Seq(Int) /\ <<tag>> \o s # << >>
           /\ Head(<<tag>> \o s) = tag /\ Tail(<<tag>> \o s) = s
<1>1. <<tag>> \in Seq(Int) /\ Len(<<tag>>) = 1 /\ <<tag>>[1] = tag
  OBVIOUS
<1> DEFINE t == <<tag>>
<1> HIDE DEF t
<1>2. /\ t \o s \in Seq(Int) /\ Len(t \o s) = 1 + Len(s)
      /\ \A i \in 1 .. 1 + Len(s) : (t \o s)[i] = IF i <= 1 THEN tag ELSE s[i - 1]
  BY <1>1, ConcatProperties DEF t
<1>3. Len(s) \in Nat /\ t \o s # << >>
  BY <1>2
<1>4. (t \o s)[1] = tag
  BY <1>2, <1>3
<1>5. Head(t \o s) = tag
  BY <1>2, <1>4
<1>6. /\ Tail(t \o s) \in Seq(Int) /\ Len(Tail(t \o s)) = Len(s)
      /\ \A i \in 1 .. Len(s) : Tail(t \o s)[i] = (t \o s)[i + 1]
  BY <1>2, <1>3, HeadTailProperties
<1>7. \A i \in 1 .. Len(s) : (t \o s)[i + 1] = s[i]
  BY <1>2, <1>3
<1>8. Tail(t \o s) = s
  BY <1>6, <1>7, SeqEqual
<1> QED
  BY <1>2, <1>3, <1>5, <1>8 DEF t

LEMMA TwoWords ==
    ASSUME NEW v \in Word, NEW w \in Word
    PROVE  /\ v \o w \in Seq(Int) /\ Len(v \o w) = 2 * WORD
           /\ WordAt(v \o w, 1) = v /\ WordAt(v \o w, 2) = w
<1> DEFINE words == <<v, w>>
<1>1. words[1] = v /\ words[2] = w
  OBVIOUS
<1> HIDE DEF words
<1>2. Holds(v, 1, words)
  BY <1>1, FirstWord
<1>3. Holds(v \o w, 1 + 1, words)
  BY <1>1, <1>2, AppendWord
<1> QED
  BY <1>1, <1>3 DEF Holds

LEMMA ThreeWords ==
    ASSUME NEW u \in Word, NEW v \in Word, NEW w \in Word
    PROVE  /\ u \o v \o w \in Seq(Int) /\ Len(u \o v \o w) = 3 * WORD
           /\ WordAt(u \o v \o w, 1) = u /\ WordAt(u \o v \o w, 2) = v
           /\ WordAt(u \o v \o w, 3) = w
<1> DEFINE words == <<u, v, w>>
           two == u \o v
<1>1. words[1] = u /\ words[2] = v /\ words[3] = w
  OBVIOUS
<1> HIDE DEF words
<1>2. Holds(u, 1, words)
  BY <1>1, FirstWord
<1>3. Holds(two, 1 + 1, words)
  BY <1>1, <1>2, AppendWord
<1> HIDE DEF two
<1>4. Holds(two \o w, 2 + 1, words)
  BY <1>1, <1>3, AppendWord
<1> QED
  BY <1>1, <1>4 DEF Holds, two

LEMMA UserTag ==
    ASSUME NEW data, data # << >>, Head(data) \notin 100 .. 107
    PROVE  Unpack(data) = SwapInstruction_unpack(data)
<1>1. /\ Head(data) # 100 /\ Head(data) # 101 /\ Head(data) # 102 /\ Head(data) # 103
      /\ Head(data) # 104 /\ Head(data) # 105 /\ Head(data) # 106 /\ Head(data) # 107
  OBVIOUS
<1>2. AdminInstruction_unpack(data) = Decoded(NotAdmin)
  BY <1>1 DEF AdminInstruction_unpack
<1> QED
  BY <1>2 DEF Unpack, Decoded

PlainOps == {"StopRampA", "Pause", "Unpause", "SetFeeAccount", "ApplyNewAdmin", "CommitNewAdmin"}

\* Every instruction there is, with arguments of their types.
AdminInstructions ==
    [op : {"RampA"}, target_amp : U64, stop_ramp_ts : I64]
    \cup [op : PlainOps]
    \cup [op : {"SetNewFees"}, fees : Fees]

SwapInstructions ==
    [op : {"Initialize"}, nonce : Byte, amp_factor : U64, fees : Fees]
    \cup [op : {"Swap"}, amount_in : U64, minimum_amount_out : U64]
    \cup [ op : {"Deposit"}, token_a_amount : U64, token_b_amount : U64,
           min_mint_amount : U64 ]
    \cup [ op : {"Withdraw"}, pool_token_amount : U64, minimum_token_a_amount : U64,
           minimum_token_b_amount : U64 ]
    \cup [op : {"WithdrawOne"}, pool_token_amount : U64, minimum_token_amount : U64]

LEMMA AdminDecoded ==
    ASSUME NEW data, AdminInstruction_unpack(data).err = Ok,
           AdminInstruction_unpack(data).instruction # NotAdmin
    PROVE  Unpack(data) = AdminInstruction_unpack(data)
BY DEF Unpack

LEMMA Numbers ==
    ASSUME NEW n \in U64
    PROVE  to_le_bytes(n) \in Word /\ u64_from_le_bytes(to_le_bytes(n)) = n
<1>1. n \in Int
  BY WidthAssumption DEF U64
<1> QED
  BY <1>1, WrittenWord, U64RoundTrip

LEMMA SignedNumbers ==
    ASSUME NEW n \in I64
    PROVE  to_le_bytes(n) \in Word /\ i64_from_le_bytes(to_le_bytes(n)) = n
<1>1. n \in Int
  BY WidthAssumption DEF I64
<1> QED
  BY <1>1, WrittenWord, I64RoundTrip

\* An admin instruction comes back as it was.
LEMMA AdminRoundTrip ==
    ASSUME NEW ix \in AdminInstructions
    PROVE  Unpack(AdminInstruction_pack(ix)) = Decoded(ix)
<1> DEFINE data == AdminInstruction_pack(ix)
<1>1. CASE ix \in [op : {"RampA"}, target_amp : U64, stop_ramp_ts : I64]
  <2> DEFINE v == to_le_bytes(ix.target_amp)
             w == to_le_bytes(ix.stop_ramp_ts)
             rest == v \o w
  <2>1. ix.op = "RampA" /\ ix.target_amp \in U64 /\ ix.stop_ramp_ts \in I64
    BY <1>1
  <2>2. /\ v \in Word /\ u64_from_le_bytes(v) = ix.target_amp
        /\ w \in Word /\ i64_from_le_bytes(w) = ix.stop_ramp_ts
    BY <2>1, Numbers, SignedNumbers
  <2>3. data = <<100>> \o rest
    BY <2>1 DEF AdminInstruction_pack, AdminTags
  <2> HIDE DEF v, w
  <2>4. rest \in Seq(Int) /\ Len(rest) = 2 * WORD /\ WordAt(rest, 1) = v /\ WordAt(rest, 2) = w
    BY <2>2, TwoWords
  <2> HIDE DEF rest, data
  <2>5. data # << >> /\ Head(data) = 100 /\ Tail(data) = rest
    BY <2>3, <2>4, Tagged, SMTT(60)
  <2>6. /\ ~TooShort(rest, 2)
        /\ unpack_u64(rest, 1) = ix.target_amp /\ unpack_i64(rest, 2) = ix.stop_ramp_ts
    BY <2>2, <2>4, EncodingAssumption DEF TooShort, unpack_u64, unpack_i64
  <2> DEFINE decoded == [ op |-> "RampA", target_amp |-> unpack_u64(Tail(data), 1),
                          stop_ramp_ts |-> unpack_i64(Tail(data), 2) ]
  <2>7. decoded = ix
    BY <1>1, <2>5, <2>6
  <2>8. AdminInstruction_unpack(data) = Decoded(decoded)
    <3>1. ~TooShort(Tail(data), 2)
      BY <2>5, <2>6
    <3> QED
      BY <2>5, <3>1 DEF AdminInstruction_unpack
  <2>9. Decoded(decoded).err = Ok /\ Decoded(decoded).instruction # NotAdmin
    BY DEF Decoded, NotAdmin
  <2> HIDE DEF decoded
  <2> QED
    BY <2>7, <2>8, <2>9, AdminDecoded DEF data
<1>2. CASE ix \in [op : PlainOps]
  <2> DEFINE tag == AdminTags[ix.op]
  <2>1. ix = [op |-> ix.op] /\ ix.op \in PlainOps
    BY <1>2
  <2>2. data = <<tag>> \o << >>
    BY <2>1 DEF AdminInstruction_pack, PlainOps
  <2>3. /\ ix.op = "StopRampA" => tag = 101
        /\ ix.op = "Pause" => tag = 102
        /\ ix.op = "Unpause" => tag = 103
        /\ ix.op = "SetFeeAccount" => tag = 104
        /\ ix.op = "ApplyNewAdmin" => tag = 105
        /\ ix.op = "CommitNewAdmin" => tag = 106
    BY DEF AdminTags
  <2>4. tag \in Int /\ << >> \in Seq(Int)
    BY <2>1, <2>3 DEF PlainOps
  <2> HIDE DEF tag, data
  <2>5. data # << >> /\ Head(data) = tag
    BY <2>2, <2>4, Tagged
  <2>6. AdminInstruction_unpack(data) = Decoded([op |-> ix.op])
    BY <2>1, <2>3, <2>5 DEF AdminInstruction_unpack, PlainOps
  <2>7. AdminInstruction_unpack(data) = Decoded(ix) /\ ix # NotAdmin
    BY <2>1, <2>6 DEF NotAdmin, PlainOps
  <2> QED
    BY <2>7, AdminDecoded DEF Decoded, data
<1>3. CASE ix \in [op : {"SetNewFees"}, fees : Fees]
  <2> DEFINE rest == Fees_pack(ix.fees)
  <2>1. ix.op = "SetNewFees" /\ ix.fees \in Fees
    BY <1>3
  <2>2. data = <<107>> \o rest
    BY <2>1 DEF AdminInstruction_pack, AdminTags
  <2>3. /\ rest \in Seq(Int) /\ FeesFit(rest)
        /\ Fees_unpack_from_slice(rest) = ix.fees
    BY <2>1, FeesRoundTrip DEF FeesFit
  <2> HIDE DEF rest, data
  <2>4. data # << >> /\ Head(data) = 107 /\ Tail(data) = rest
    BY <2>2, <2>3, Tagged
  <2> DEFINE decoded ==
                [op |-> "SetNewFees", fees |-> Fees_unpack_from_slice(Tail(data))]
  <2>5. decoded = ix
    BY <1>3, <2>3, <2>4
  <2>6. AdminInstruction_unpack(data) = Decoded(decoded)
    <3>1. FeesFit(Tail(data))
      BY <2>3, <2>4
    <3> QED
      BY <2>4, <3>1 DEF AdminInstruction_unpack
  <2>7. Decoded(decoded).err = Ok /\ Decoded(decoded).instruction # NotAdmin
    BY DEF Decoded, NotAdmin
  <2> HIDE DEF decoded
  <2> QED
    BY <2>5, <2>6, <2>7, AdminDecoded DEF data
<1> QED
  BY <1>1, <1>2, <1>3 DEF AdminInstructions

LEMMA Concat ==
    ASSUME NEW s \in Seq(Int), NEW t \in Seq(Int)
    PROVE  s \o t \in Seq(Int) /\ Len(s \o t) = Len(s) + Len(t)
BY ConcatProperties

LEMMA JoinTwo ==
    ASSUME NEW s \in Seq(Int), NEW u \in Seq(Int), NEW v \in Seq(Int)
    PROVE  s \o u \o v = s \o (u \o v)
BY ConcatAssociative, SMTT(60)

\* The whole is the first part and the rest.
Parts(whole, first, rest) == whole = first \o rest

LEMMA JoinThree ==
    ASSUME NEW s \in Seq(Int), NEW u \in Seq(Int), NEW v \in Seq(Int), NEW w \in Seq(Int)
    PROVE  Parts(s \o u \o v \o w, s, u \o v \o w)
<1> DEFINE t == u \o v
<1>1. t \in Seq(Int)
  BY ConcatProperties
<1>2. s \o u \o v = s \o t
  BY JoinTwo
<1> HIDE DEF t
<1>3. s \o t \o w = s \o (t \o w)
  BY <1>1, JoinTwo, ZenonT(60)
<1> QED
  BY <1>2, <1>3 DEF t, Parts

\* A user instruction comes back as it was, and is not taken for an admin's.
LEMMA SwapRoundTrip ==
    ASSUME NEW ix \in SwapInstructions
    PROVE  Unpack(SwapInstruction_pack(ix)) = Decoded(ix)
<1> DEFINE data == SwapInstruction_pack(ix)
           rest == Tail(data)
<1>1. CASE ix \in [op : {"Initialize"}, nonce : Byte, amp_factor : U64, fees : Fees]
  <2> DEFINE w == to_le_bytes(ix.amp_factor)
             f == Fees_pack(ix.fees)
             n == <<ix.nonce>>
  <2>1. ix.op = "Initialize" /\ ix.nonce \in Int /\ ix.amp_factor \in U64 /\ ix.fees \in Fees
    BY <1>1, EncodingAssumption DEF Byte
  <2>2. /\ w \in Word /\ u64_from_le_bytes(w) = ix.amp_factor
        /\ w \in Seq(Int) /\ Len(w) = WORD /\ WORD \in Nat \ {0}
    BY <2>1, Numbers, WordIsSeq, EncodingAssumption
  <2>3. /\ f \in Seq(Int) /\ Len(f) = 8 * WORD /\ FeesFit(f)
        /\ Fees_unpack_from_slice(f) = ix.fees
    BY <2>1, FeesRoundTrip DEF FeesFit, FEES_LEN
  <2>4. data = <<0, ix.nonce>> \o w \o f
    BY <2>1 DEF SwapInstruction_pack
  <2>5. <<0, ix.nonce>> = <<0>> \o n
    OBVIOUS
  <2>6. n \in Seq(Int) /\ <<0>> \in Seq(Int) /\ Len(n) = 1
    BY <2>1
  <2> HIDE DEF w, f, n, data, rest
  <2>7. /\ n \o w \in Seq(Int) /\ Len(n \o w) = 1 + WORD
        /\ n \o w \o f \in Seq(Int) /\ Len(n \o w \o f) = 1 + WORD + Len(f)
        /\ w \o f \in Seq(Int) /\ Len(w \o f) = WORD + Len(f)
    <3>1. n \o w \in Seq(Int) /\ Len(n \o w) = 1 + WORD
      BY <2>2, <2>6, Concat, ZenonT(60)
    <3>2. w \o f \in Seq(Int) /\ Len(w \o f) = WORD + Len(f)
      BY <2>2, <2>3, Concat
    <3> QED
      BY <2>3, <3>1, <3>2, Concat
  <2>8. data = <<0>> \o (n \o w \o f)
    <3> DEFINE z == <<0>>
    <3>1. z \in Seq(Int) /\ data = z \o n \o w \o f
      BY <2>4, <2>5, <2>6
    <3> HIDE DEF z
    <3>2. Parts(z \o n \o w \o f, z, n \o w \o f)
      BY <2>2, <2>3, <2>6, <3>1, JoinThree
    <3> QED
      BY <3>1, <3>2 DEF z, Parts
  <2>9. n \o w \o f = n \o (w \o f)
    BY <2>2, <2>3, <2>6, JoinTwo
  <2>10. data # << >> /\ Head(data) = 0 /\ rest = n \o w \o f
    BY <2>7, <2>8, Tagged, SMTT(60) DEF rest
  <2>11. rest # << >> /\ Head(rest) = ix.nonce /\ Tail(rest) = w \o f
    BY <2>1, <2>7, <2>9, <2>10, Tagged DEF n
  <2>12. SubSeq(rest, WORD + 2, Len(rest)) = f
    <3>1. f # << >> /\ Len(f) \in Nat
      BY <2>2, <2>3
    <3> DEFINE s == n \o w
    <3>2. s \in Seq(Int) /\ WORD + 2 = Len(s) + 1 /\ Len(rest) = Len(s) + Len(f) /\ rest = s \o f
      BY <2>2, <2>7, <2>10
    <3> HIDE DEF s
    <3>3. SubSeq(s \o f, Len(s) + 1, Len(s) + Len(f)) = f
      BY <2>3, <3>1, <3>2, SecondPart
    <3> QED
      BY <3>2, <3>3
  <2>13. unpack_u64(Tail(rest), 1) = ix.amp_factor
    <3>1. SubSeq(w \o f, 1, WORD) = SubSeq(w, 1, WORD)
      BY <2>2, <2>3, SubSeqOfConcat1
    <3>2. SubSeq(w, 1, WORD) = w
      BY <2>2, SubSeqFull
    <3>3. (1 - 1) * WORD + 1 = 1 /\ 1 * WORD = WORD
      BY <2>2
    <3> QED
      BY <2>2, <2>11, <3>1, <3>2, <3>3 DEF unpack_u64, WordAt
  <2>14. ~TooShort(Tail(rest), 1)
    BY <2>2, <2>3, <2>7, <2>11, SMTT(60) DEF TooShort
  <2> DEFINE fees == SubSeq(rest, WORD + 2, Len(rest))
             decoded == [ op |-> "Initialize", nonce |-> Head(rest),
                          amp_factor |-> unpack_u64(Tail(rest), 1),
                          fees |-> Fees_unpack_from_slice(fees) ]
  <2>15. decoded = ix
    BY <1>1, <2>3, <2>11, <2>12, <2>13
  <2>16. SwapInstruction_unpack(data) = Decoded(decoded)
    <3>1. FeesFit(fees)
      BY <2>3, <2>12
    <3> QED
      BY <2>10, <2>11, <2>14, <3>1 DEF SwapInstruction_unpack, rest
  <2>17. Head(data) \notin 100 .. 107
    BY <2>10
  <2> HIDE DEF decoded
  <2> QED
    BY <2>10, <2>15, <2>16, <2>17, UserTag DEF data
<1>2. CASE ix \in [op : {"Swap"}, amount_in : U64, minimum_amount_out : U64]
  <2> DEFINE v == to_le_bytes(ix.amount_in)
             w == to_le_bytes(ix.minimum_amount_out)
  <2>1. ix.op = "Swap"
    BY <1>2
  <2>2. /\ v \in Word /\ u64_from_le_bytes(v) = ix.amount_in
        /\ w \in Word /\ u64_from_le_bytes(w) = ix.minimum_amount_out
    BY <1>2, Numbers
  <2>3. data = <<1>> \o v \o w
    BY <2>1 DEF SwapInstruction_pack
  <2> HIDE DEF v, w, data, rest
  <2>4. /\ v \o w \in Seq(Int) /\ Len(v \o w) = 2 * WORD
        /\ WordAt(v \o w, 1) = v
        /\ WordAt(v \o w, 2) = w
    BY <2>2, TwoWords
  <2>5. data = <<1>> \o (v \o w)
    BY <2>2, <2>3, WordIsSeq, JoinTwo, SMTT(60)
  <2>6. data # << >> /\ Head(data) = 1 /\ rest = v \o w
    BY <2>4, <2>5, Tagged DEF rest
  <2>7. /\ ~TooShort(rest, 2)
        /\ unpack_u64(rest, 1) = ix.amount_in
        /\ unpack_u64(rest, 2) = ix.minimum_amount_out
    BY <2>2, <2>4, <2>6, EncodingAssumption DEF TooShort, unpack_u64
  <2> DEFINE decoded == [ op |-> "Swap",
                          amount_in |-> unpack_u64(rest, 1),
                          minimum_amount_out |-> unpack_u64(rest, 2) ]
  <2>8. decoded = ix
    BY <1>2, <2>7
  <2>9. SwapInstruction_unpack(data) = Decoded(decoded)
    BY <2>6, <2>7 DEF SwapInstruction_unpack, rest
  <2> HIDE DEF decoded
  <2> QED
    BY <2>6, <2>8, <2>9, UserTag DEF data
<1>3. CASE ix \in [ op : {"Deposit"}, token_a_amount : U64, token_b_amount : U64,
                 min_mint_amount : U64 ]
  <2> DEFINE u == to_le_bytes(ix.token_a_amount)
             v == to_le_bytes(ix.token_b_amount)
             w == to_le_bytes(ix.min_mint_amount)
  <2>1. ix.op = "Deposit"
    BY <1>3
  <2>2. /\ u \in Word /\ u64_from_le_bytes(u) = ix.token_a_amount
        /\ v \in Word /\ u64_from_le_bytes(v) = ix.token_b_amount
        /\ w \in Word /\ u64_from_le_bytes(w) = ix.min_mint_amount
    BY <1>3, Numbers
  <2>3. data = <<2>> \o u \o v \o w
    BY <2>1 DEF SwapInstruction_pack
  <2> HIDE DEF u, v, w, data, rest
  <2>4. /\ u \o v \o w \in Seq(Int) /\ Len(u \o v \o w) = 3 * WORD
        /\ WordAt(u \o v \o w, 1) = u
        /\ WordAt(u \o v \o w, 2) = v
        /\ WordAt(u \o v \o w, 3) = w
    BY <2>2, ThreeWords
  <2>5. data = <<2>> \o (u \o v \o w)
    <3> DEFINE z == <<2>>
    <3>1. /\ z \in Seq(Int) /\ data = z \o u \o v \o w
          /\ u \in Seq(Int) /\ v \in Seq(Int) /\ w \in Seq(Int)
      BY <2>2, <2>3, WordIsSeq
    <3> HIDE DEF z
    <3>2. Parts(z \o u \o v \o w, z, u \o v \o w)
      BY <3>1, JoinThree
    <3> QED
      BY <3>1, <3>2 DEF z, Parts
  <2>6. data # << >> /\ Head(data) = 2 /\ rest = u \o v \o w
    BY <2>4, <2>5, Tagged, SMTT(60) DEF rest
  <2>7. /\ ~TooShort(rest, 3)
        /\ unpack_u64(rest, 1) = ix.token_a_amount
        /\ unpack_u64(rest, 2) = ix.token_b_amount
        /\ unpack_u64(rest, 3) = ix.min_mint_amount
    BY <2>2, <2>4, <2>6, EncodingAssumption DEF TooShort, unpack_u64
  <2> DEFINE decoded == [ op |-> "Deposit",
                          token_a_amount |-> unpack_u64(rest, 1),
                          token_b_amount |-> unpack_u64(rest, 2),
                          min_mint_amount |-> unpack_u64(rest, 3) ]
  <2>8. decoded = ix
    BY <1>3, <2>7
  <2>9. SwapInstruction_unpack(data) = Decoded(decoded)
    BY <2>6, <2>7 DEF SwapInstruction_unpack, rest
  <2> HIDE DEF decoded
  <2> QED
    BY <2>6, <2>8, <2>9, UserTag DEF data
<1>4. CASE ix \in [ op : {"Withdraw"}, pool_token_amount : U64, minimum_token_a_amount : U64,
                 minimum_token_b_amount : U64 ]
  <2> DEFINE u == to_le_bytes(ix.pool_token_amount)
             v == to_le_bytes(ix.minimum_token_a_amount)
             w == to_le_bytes(ix.minimum_token_b_amount)
  <2>1. ix.op = "Withdraw"
    BY <1>4
  <2>2. /\ u \in Word /\ u64_from_le_bytes(u) = ix.pool_token_amount
        /\ v \in Word /\ u64_from_le_bytes(v) = ix.minimum_token_a_amount
        /\ w \in Word /\ u64_from_le_bytes(w) = ix.minimum_token_b_amount
    BY <1>4, Numbers
  <2>3. data = <<3>> \o u \o v \o w
    BY <2>1 DEF SwapInstruction_pack
  <2> HIDE DEF u, v, w, data, rest
  <2>4. /\ u \o v \o w \in Seq(Int) /\ Len(u \o v \o w) = 3 * WORD
        /\ WordAt(u \o v \o w, 1) = u
        /\ WordAt(u \o v \o w, 2) = v
        /\ WordAt(u \o v \o w, 3) = w
    BY <2>2, ThreeWords
  <2>5. data = <<3>> \o (u \o v \o w)
    <3> DEFINE z == <<3>>
    <3>1. /\ z \in Seq(Int) /\ data = z \o u \o v \o w
          /\ u \in Seq(Int) /\ v \in Seq(Int) /\ w \in Seq(Int)
      BY <2>2, <2>3, WordIsSeq
    <3> HIDE DEF z
    <3>2. Parts(z \o u \o v \o w, z, u \o v \o w)
      BY <3>1, JoinThree
    <3> QED
      BY <3>1, <3>2 DEF z, Parts
  <2>6. data # << >> /\ Head(data) = 3 /\ rest = u \o v \o w
    BY <2>4, <2>5, Tagged, SMTT(60) DEF rest
  <2>7. /\ ~TooShort(rest, 3)
        /\ unpack_u64(rest, 1) = ix.pool_token_amount
        /\ unpack_u64(rest, 2) = ix.minimum_token_a_amount
        /\ unpack_u64(rest, 3) = ix.minimum_token_b_amount
    BY <2>2, <2>4, <2>6, EncodingAssumption DEF TooShort, unpack_u64
  <2> DEFINE decoded == [ op |-> "Withdraw",
                          pool_token_amount |-> unpack_u64(rest, 1),
                          minimum_token_a_amount |-> unpack_u64(rest, 2),
                          minimum_token_b_amount |-> unpack_u64(rest, 3) ]
  <2>8. decoded = ix
    BY <1>4, <2>7
  <2>9. SwapInstruction_unpack(data) = Decoded(decoded)
    BY <2>6, <2>7 DEF SwapInstruction_unpack, rest
  <2> HIDE DEF decoded
  <2> QED
    BY <2>6, <2>8, <2>9, UserTag DEF data
<1>5. CASE ix \in [op : {"WithdrawOne"}, pool_token_amount : U64, minimum_token_amount : U64]
  <2> DEFINE v == to_le_bytes(ix.pool_token_amount)
             w == to_le_bytes(ix.minimum_token_amount)
  <2>1. ix.op = "WithdrawOne"
    BY <1>5
  <2>2. /\ v \in Word /\ u64_from_le_bytes(v) = ix.pool_token_amount
        /\ w \in Word /\ u64_from_le_bytes(w) = ix.minimum_token_amount
    BY <1>5, Numbers
  <2>3. data = <<4>> \o v \o w
    BY <2>1 DEF SwapInstruction_pack
  <2> HIDE DEF v, w, data, rest
  <2>4. /\ v \o w \in Seq(Int) /\ Len(v \o w) = 2 * WORD
        /\ WordAt(v \o w, 1) = v
        /\ WordAt(v \o w, 2) = w
    BY <2>2, TwoWords
  <2>5. data = <<4>> \o (v \o w)
    BY <2>2, <2>3, WordIsSeq, JoinTwo
  <2>6. data # << >> /\ Head(data) = 4 /\ rest = v \o w
    BY <2>4, <2>5, Tagged DEF rest
  <2>7. /\ ~TooShort(rest, 2)
        /\ unpack_u64(rest, 1) = ix.pool_token_amount
        /\ unpack_u64(rest, 2) = ix.minimum_token_amount
    BY <2>2, <2>4, <2>6, EncodingAssumption DEF TooShort, unpack_u64
  <2> DEFINE decoded == [ op |-> "WithdrawOne",
                          pool_token_amount |-> unpack_u64(rest, 1),
                          minimum_token_amount |-> unpack_u64(rest, 2) ]
  <2>8. decoded = ix
    BY <1>5, <2>7
  <2>9. SwapInstruction_unpack(data) = Decoded(decoded)
    BY <2>6, <2>7 DEF SwapInstruction_unpack, rest
  <2> HIDE DEF decoded
  <2> QED
    BY <2>6, <2>8, <2>9, UserTag DEF data
<1> QED
  BY <1>1, <1>2, <1>3, <1>4, <1>5 DEF SwapInstructions

(***************************************************************************)
(* What the program accepts begins with the encoding of what it takes it   *)
(* for.                                                                    *)
(***************************************************************************)

LEMMA PrefixOfTagged ==
    ASSUME NEW data \in Seq(Int), data # << >>, NEW n \in 0 .. Len(Tail(data)), NEW packed,
           packed = <<Head(data)>> \o SubSeq(Tail(data), 1, n)
    PROVE  IsPrefix(packed, data)
<1> DEFINE rest == Tail(data)
           part == SubSeq(data, 1, n + 1)
<1>1. /\ rest \in Seq(Int) /\ Len(rest) = Len(data) - 1 /\ Len(data) \in Nat \ {0}
      /\ \A i \in 1 .. Len(rest) : rest[i] = data[i + 1]
  BY HeadTailProperties, EmptySeq
<1>2. 1 \in 1 .. Len(data) /\ n + 1 \in 1 .. Len(data) /\ n \in Nat /\ n <= Len(rest)
  BY <1>1
<1>3. part = <<data[1]>> \o SubSeq(data, 2, n + 1)
  BY <1>2, SubSeqRecursiveFirst
<1>4. Head(data) = data[1]
  BY <1>1
<1>5. SubSeq(data, 2, n + 1) = SubSeq(rest, 1, n)
  <2> HIDE DEF rest, part
  <2> DEFINE a == SubSeq(data, 2, n + 1)
             b == SubSeq(rest, 1, n)
  <2>1. \A i \in 2 .. n + 1 : data[i] \in Int
    BY <1>1, <1>2, ElementOfSeq
  <2>2. \A i \in 1 .. n : rest[i] \in Int
    BY <1>1, <1>2, ElementOfSeq
  <2>3. a \in Seq(Int) /\ Len(a) = n /\ \A i \in 1 .. n : a[i] = data[2 + i - 1]
    BY <1>2, <2>1, SubSeqProperties
  <2>4. b \in Seq(Int) /\ Len(b) = n /\ \A i \in 1 .. n : b[i] = rest[1 + i - 1]
    BY <1>2, <2>2, SubSeqProperties
  <2> HIDE DEF a, b
  <2>5. \A i \in 1 .. n : a[i] = b[i]
    <3> SUFFICES ASSUME NEW i \in 1 .. n
                 PROVE  a[i] = b[i]
      OBVIOUS
    <3>1. 2 + i - 1 = i + 1 /\ 1 + i - 1 = i /\ i \in 1 .. Len(rest)
      BY <1>2
    <3> QED
      BY <1>1, <2>3, <2>4, <3>1
  <2>6. a = b
    BY <2>3, <2>4, <2>5, SeqEqual
  <2> QED
    BY <2>6 DEF a, b
<1>6. packed = part
  BY <1>3, <1>4, <1>5
<1>7. part \in Seq(Int) /\ Len(part) = n + 1
  <2>1. \A i \in 1 .. n + 1 : data[i] \in Int
    BY <1>1, <1>2, ElementOfSeq
  <2> QED
    BY <1>2, <2>1, SubSeqProperties
<1> HIDE DEF part
<1>8. SubSeq(part, 1, Len(part)) = part
  BY <1>7, SubSeqFull
<1> QED
  BY <1>1, <1>2, <1>6, <1>7, <1>8 DEF IsPrefix, part

Joins(s, k, before, upto) ==
    /\ WordAt(s, k) \in Word
    /\ SubSeq(s, 1, before) \o WordAt(s, k) = SubSeq(s, 1, upto)

LEMMA WordsOfBytes ==
    ASSUME NEW s \in Seq(Int), \A i \in 1 .. Len(s) : s[i] \in Byte
    PROVE  /\ ~TooShort(s, 1) => /\ WORD \in 0 .. Len(s)
                                 /\ WordAt(s, 1) \in Word
                                 /\ WordAt(s, 1) = SubSeq(s, 1, WORD)
           /\ ~TooShort(s, 2) => /\ 2 * WORD \in 0 .. Len(s)
                                 /\ WordAt(s, 1) \in Word /\ WordAt(s, 2) \in Word
                                 /\ WordAt(s, 1) \o WordAt(s, 2) = SubSeq(s, 1, 2 * WORD)
           /\ ~TooShort(s, 3) => /\ 3 * WORD \in 0 .. Len(s)
                                 /\ WordAt(s, 1) \in Word /\ WordAt(s, 2) \in Word
                                 /\ WordAt(s, 3) \in Word
                                 /\ WordAt(s, 1) \o WordAt(s, 2) \o WordAt(s, 3)
                                      = SubSeq(s, 1, 3 * WORD)
<1>1. WORD \in Nat \ {0} /\ Len(s) \in Nat /\ 1 * WORD = WORD
  BY EncodingAssumption
<1>2. WordAt(s, 1) = SubSeq(s, 1, WORD)
  BY <1>1 DEF WordAt
<1>3. ASSUME NEW k \in Nat \ {0}, NEW before, NEW upto,
             before = (k - 1) * WORD, upto = k * WORD, upto <= Len(s)
      PROVE  Joins(s, k, before, upto)
  BY <1>3, WordOfBytes DEF Joins
<1>4. WORD <= Len(s) => Joins(s, 1, 0, WORD)
  <2>1. 0 = (1 - 1) * WORD /\ WORD = 1 * WORD
    BY <1>1
  <2> QED
    BY <1>3, <2>1
<1>5. 2 * WORD <= Len(s) => Joins(s, 2, WORD, 2 * WORD)
  <2>1. WORD = (2 - 1) * WORD
    BY <1>1
  <2> QED
    BY <1>3, <2>1
<1>6. 3 * WORD <= Len(s) => Joins(s, 3, 2 * WORD, 3 * WORD)
  <2>1. 2 * WORD = (3 - 1) * WORD
    BY <1>1
  <2> QED
    BY <1>3, <2>1
<1>7. /\ ~TooShort(s, 1) => WORD <= Len(s)
      /\ ~TooShort(s, 2) => WORD <= Len(s) /\ 2 * WORD <= Len(s)
      /\ ~TooShort(s, 3) => WORD <= Len(s) /\ 2 * WORD <= Len(s) /\ 3 * WORD <= Len(s)
  BY <1>1 DEF TooShort
<1>8. /\ ~TooShort(s, 1) => WORD \in 0 .. Len(s)
      /\ ~TooShort(s, 2) => 2 * WORD \in 0 .. Len(s)
      /\ ~TooShort(s, 3) => 3 * WORD \in 0 .. Len(s)
  BY <1>1, <1>7
<1> QED
  BY <1>2, <1>4, <1>5, <1>6, <1>7, <1>8 DEF Joins

LEMMA PackIsByKind ==
    ASSUME NEW ix
    PROVE  /\ ix.op \in {"RampA", "SetNewFees"} \cup PlainOps => Pack(ix) = AdminInstruction_pack(ix)
           /\ ix.op \in {"Initialize", "Swap", "Deposit", "Withdraw", "WithdrawOne"} =>
                 Pack(ix) = SwapInstruction_pack(ix)
<1>1. DOMAIN AdminTags = {"RampA", "SetNewFees"} \cup PlainOps
  BY DEF AdminTags, PlainOps
<1> QED
  BY <1>1 DEF Pack, PlainOps

\* Whatever bytes the program accepts: an instruction with arguments of their
\* types, whose encoding they begin with.
Understood(data) ==
    LET ix == Unpack(data).instruction
    IN  /\ ix \in AdminInstructions \cup SwapInstructions
        /\ IsPrefix(Pack(ix), data)

LEMMA AcceptedBytes ==
    ASSUME NEW data \in Seq(Int), \A i \in 2 .. Len(data) : data[i] \in Byte,
           Unpack(data).err = Ok
    PROVE  Understood(data)
<1> DEFINE rest == Tail(data)
           tag == Head(data)
           admin == AdminInstruction_unpack(data)
           user == SwapInstruction_unpack(data)
<1>1. data # << >>
  BY DEF Unpack, AdminInstruction_unpack, Refused, Ok
<1>2. /\ rest \in Seq(Int) /\ Len(rest) = Len(data) - 1
      /\ \A i \in 1 .. Len(rest) : rest[i] = data[i + 1]
  BY <1>1, HeadTailProperties
<1>3. \A i \in 1 .. Len(rest) : rest[i] \in Byte
  BY <1>2
<1>4. ASSUME NEW ix, NEW n \in 0 .. Len(rest), ix \in AdminInstructions \cup SwapInstructions,
             Pack(ix) = <<tag>> \o SubSeq(rest, 1, n), Unpack(data) = Decoded(ix)
      PROVE  Understood(data)
  <2>1. IsPrefix(Pack(ix), data)
    BY <1>1, <1>4, PrefixOfTagged
  <2>2. Unpack(data).instruction = ix
    BY <1>4 DEF Decoded
  <2> QED
    BY <1>4, <2>1, <2>2 DEF Understood
<1>5. \A k \in 1 .. 3 : WordAt(rest, k) \in Word =>
        /\ unpack_u64(rest, k) \in U64 /\ to_le_bytes(unpack_u64(rest, k)) = WordAt(rest, k)
        /\ unpack_i64(rest, k) \in I64 /\ to_le_bytes(unpack_i64(rest, k)) = WordAt(rest, k)
  BY ReadWord, ReadI64 DEF unpack_u64, unpack_i64
<1>6. admin.err = Ok /\ admin.instruction # NotAdmin => Unpack(data) = admin
  BY AdminDecoded
<1>7. tag \notin 100 .. 107 => Unpack(data) = user
  BY <1>1, UserTag
<1>8. CASE tag = 100
  <2> DEFINE ix == [ op |-> "RampA", target_amp |-> unpack_u64(rest, 1),
                     stop_ramp_ts |-> unpack_i64(rest, 2) ]
  <2>1. ~TooShort(rest, 2)
    <3>1. TooShort(rest, 2) => admin = Refused("InvalidInstruction")
      BY <1>1, <1>8 DEF AdminInstruction_unpack
    <3>2. admin.err # Ok => Unpack(data) = admin
      BY DEF Unpack
    <3> QED
      BY <3>1, <3>2 DEF Refused, Ok
  <2>2. admin = Decoded(ix)
    BY <1>1, <1>8, <2>1 DEF AdminInstruction_unpack
  <2>3. Unpack(data) = Decoded(ix)
    BY <1>6, <2>2 DEF Decoded, NotAdmin
  <2> HIDE DEF rest, tag, admin, user
  <2>4. /\ 2 * WORD \in 0 .. Len(rest) /\ WordAt(rest, 1) \in Word /\ WordAt(rest, 2) \in Word
        /\ WordAt(rest, 1) \o WordAt(rest, 2) = SubSeq(rest, 1, 2 * WORD)
    BY <1>2, <1>3, <2>1, WordsOfBytes
  <2>5. /\ unpack_u64(rest, 1) \in U64 /\ to_le_bytes(unpack_u64(rest, 1)) = WordAt(rest, 1)
        /\ unpack_i64(rest, 2) \in I64 /\ to_le_bytes(unpack_i64(rest, 2)) = WordAt(rest, 2)
    BY <1>5, <2>4
  <2>6. ix \in AdminInstructions \cup SwapInstructions
    BY <2>5 DEF AdminInstructions
  <2>7. AdminInstruction_pack(ix)
          = <<100>> \o (to_le_bytes(ix.target_amp) \o to_le_bytes(ix.stop_ramp_ts))
    BY DEF AdminInstruction_pack, AdminTags
  <2>8. Pack(ix) = AdminInstruction_pack(ix)
    BY PackIsByKind
  <2>9. Pack(ix) = <<tag>> \o SubSeq(rest, 1, 2 * WORD)
    BY <1>8, <2>4, <2>5, <2>7, <2>8
  <2> QED
    BY <1>4, <2>3, <2>4, <2>6, <2>9
<1>9. CASE tag \in 101 .. 106
  <2>1. PICK op \in PlainOps : admin = Decoded([op |-> op]) /\ AdminTags[op] = tag
    <3>1. tag \in {101, 102, 103, 104, 105, 106}
      BY <1>9
    <3> QED
      BY <1>1, <3>1 DEF AdminInstruction_unpack, AdminTags, PlainOps
  <2> DEFINE ix == [op |-> op]
  <2>2. Unpack(data) = Decoded(ix)
    BY <1>6, <2>1 DEF Decoded, NotAdmin, PlainOps
  <2>3. ix \in AdminInstructions \cup SwapInstructions
    BY DEF AdminInstructions
  <2>4. AdminInstruction_pack(ix) = <<tag>> \o << >>
    BY <2>1 DEF AdminInstruction_pack, PlainOps
  <2>5. Pack(ix) = AdminInstruction_pack(ix)
    BY PackIsByKind
  <2> HIDE DEF rest, tag, admin, user
  <2>6. SubSeq(rest, 1, 0) = << >> /\ 0 \in 0 .. Len(rest)
    BY <1>2, SubSeqEmpty
  <2>7. Pack(ix) = <<tag>> \o SubSeq(rest, 1, 0)
    BY <2>4, <2>5, <2>6
  <2> QED
    BY <1>4, <2>2, <2>3, <2>6, <2>7
<1>10. CASE tag = 107
  <2> DEFINE ix == [op |-> "SetNewFees", fees |-> Fees_unpack_from_slice(rest)]
  <2>1. FeesFit(rest)
    BY <1>1, <1>10 DEF Unpack, AdminInstruction_unpack, Refused, Ok
  <2>2. admin = Decoded(ix)
    BY <1>1, <1>10, <2>1 DEF AdminInstruction_unpack
  <2>3. Unpack(data) = Decoded(ix)
    BY <1>6, <2>2 DEF Decoded, NotAdmin
  <2> HIDE DEF rest, tag, admin, user
  <2>4. /\ Fees_unpack_from_slice(rest) \in Fees
        /\ Fees_pack(Fees_unpack_from_slice(rest)) = rest
    BY <1>2, <1>3, <2>1, FeesOfBytes
  <2>5. ix \in AdminInstructions \cup SwapInstructions
    BY <2>4 DEF AdminInstructions
  <2>6. AdminInstruction_pack(ix) = <<107>> \o Fees_pack(ix.fees)
    BY DEF AdminInstruction_pack, AdminTags
  <2>7. Pack(ix) = AdminInstruction_pack(ix)
    BY PackIsByKind
  <2>8. SubSeq(rest, 1, Len(rest)) = rest /\ Len(rest) \in 0 .. Len(rest)
    BY <1>2, SubSeqFull
  <2>9. Pack(ix) = <<tag>> \o SubSeq(rest, 1, Len(rest))
    BY <1>10, <2>4, <2>6, <2>7, <2>8
  <2> QED
    BY <1>4, <2>3, <2>5, <2>8, <2>9
<1>11. CASE tag = 0
  <2> DEFINE tr == Tail(rest)
             f == SubSeq(rest, WORD + 2, Len(rest))
             ix == [ op |-> "Initialize", nonce |-> Head(rest),
                     amp_factor |-> unpack_u64(tr, 1), fees |-> Fees_unpack_from_slice(f) ]
             n == <<Head(rest)>>
  <2>1. Unpack(data) = user
    BY <1>7, <1>11
  <2>2. rest # << >> /\ ~TooShort(tr, 1) /\ FeesFit(f)
    BY <1>1, <1>11, <2>1 DEF SwapInstruction_unpack, Refused, Ok
  <2>3. Unpack(data) = Decoded(ix)
    BY <1>1, <1>11, <2>1, <2>2 DEF SwapInstruction_unpack
  <2> HIDE DEF rest, tag, admin, user
  <2>4. /\ tr \in Seq(Int) /\ Len(tr) = Len(rest) - 1 /\ Head(rest) = rest[1]
        /\ \A i \in 1 .. Len(tr) : tr[i] = rest[i + 1]
        /\ Len(rest) \in Nat \ {0}
    BY <1>2, <2>2, HeadTailProperties, EmptySeq, SMTT(60)
  <2>5. \A i \in 1 .. Len(tr) : tr[i] \in Byte
    BY <1>3, <2>4
  <2>6. Head(rest) \in Byte
    BY <1>3, <2>4
  <2>7. /\ WORD \in 0 .. Len(tr) /\ WordAt(tr, 1) \in Word
        /\ WordAt(tr, 1) = SubSeq(tr, 1, WORD)
    BY <2>2, <2>4, <2>5, WordsOfBytes
  <2>8. unpack_u64(tr, 1) \in U64 /\ to_le_bytes(unpack_u64(tr, 1)) = WordAt(tr, 1)
    BY <2>7, ReadWord DEF unpack_u64
  <2>9. f = SubSeq(tr, WORD + 1, Len(tr))
    <3> DEFINE g == SubSeq(tr, WORD + 1, Len(tr))
    <3>1. \A i \in WORD + 2 .. Len(rest) : rest[i] \in Int
      BY <1>2, <2>7, ElementOfSeq
    <3>2. \A i \in WORD + 1 .. Len(tr) : tr[i] \in Int
      BY <2>4, <2>7, ElementOfSeq
    <3>3. /\ f \in Seq(Int)
          /\ Len(f) = IF WORD + 2 <= Len(rest) THEN Len(rest) - (WORD + 2) + 1 ELSE 0
          /\ \A i \in 1 .. Len(rest) - (WORD + 2) + 1 : f[i] = rest[WORD + 2 + i - 1]
      <4> DEFINE m == WORD + 2
                 l == Len(rest)
      <4>1. m \in Int /\ l \in Int
        BY <2>4, <2>7
      <4> HIDE DEF m, l
      <4>2. /\ SubSeq(rest, m, l) \in Seq(Int)
            /\ Len(SubSeq(rest, m, l)) = IF m <= l THEN l - m + 1 ELSE 0
            /\ \A i \in 1 .. l - m + 1 : SubSeq(rest, m, l)[i] = rest[m + i - 1]
        BY <3>1, <4>1, SubSeqProperties DEF m, l
      <4> QED
        BY <4>2 DEF m, l
    <3>4. /\ g \in Seq(Int)
          /\ Len(g) = IF WORD + 1 <= Len(tr) THEN Len(tr) - (WORD + 1) + 1 ELSE 0
          /\ \A i \in 1 .. Len(tr) - (WORD + 1) + 1 : g[i] = tr[WORD + 1 + i - 1]
      BY <2>4, <2>7, <3>2, SubSeqProperties
    <3> HIDE DEF f, g, tr
    <3>5. Len(f) = Len(g)
      BY <2>4, <2>7, <3>3, <3>4, SMTT(60)
    <3>6. ASSUME NEW i \in 1 .. Len(f)
          PROVE  f[i] = g[i]
      <4>1. /\ i \in 1 .. Len(rest) - (WORD + 2) + 1 /\ i \in 1 .. Len(tr) - (WORD + 1) + 1
            /\ WORD + 1 + i - 1 \in 1 .. Len(tr) /\ WORD + 2 + i - 1 = WORD + 1 + i - 1 + 1
        <5> DEFINE l == Len(rest)
                   k == Len(tr)
        <5>1. /\ l \in Nat \ {0} /\ k = l - 1 /\ WORD \in 0 .. k
              /\ Len(f) = IF WORD + 2 <= l THEN l - (WORD + 2) + 1 ELSE 0
          BY <2>4, <2>7, <3>3
        <5>2. i \in Nat /\ 1 <= i /\ i <= Len(f)
          OBVIOUS
        <5> HIDE DEF l, k
        <5>3. i <= l - (WORD + 2) + 1
          BY <5>1, <5>2
        <5>4. WORD \in Nat
          BY <5>1
        <5> QED
          BY <5>1, <5>2, <5>3, <5>4 DEF l, k
      <4>2. f[i] = rest[WORD + 2 + i - 1]
        BY <3>3, <4>1
      <4>3. g[i] = tr[WORD + 1 + i - 1]
        BY <3>4, <4>1
      <4>4. tr[WORD + 1 + i - 1] = rest[WORD + 1 + i - 1 + 1]
        BY <2>4, <4>1
      <4> QED
        BY <4>1, <4>2, <4>3, <4>4
    <3>7. f = g
      BY <3>3, <3>4, <3>5, <3>6, SeqEqual
    <3> QED
      BY <3>7 DEF g
  <2>10. \A i \in 1 .. Len(f) : f[i] \in Byte
    <3>1. \A i \in WORD + 2 .. Len(rest) : rest[i] \in Byte
      BY <1>3, <2>7
    <3>2. f \in Seq(Byte)
      BY <2>4, <2>7, <3>1, SubSeqProperties
    <3> QED
      BY <3>2, ElementOfSeq
  <2>11. f \in Seq(Int)
    <3>1. \A i \in WORD + 2 .. Len(rest) : rest[i] \in Int
      BY <1>2, <2>7, ElementOfSeq
    <3> QED
      BY <2>4, <2>7, <3>1, SubSeqProperties
  <2>12. Fees_unpack_from_slice(f) \in Fees /\ Fees_pack(Fees_unpack_from_slice(f)) = f
    BY <2>2, <2>10, <2>11, FeesOfBytes
  <2>13. ix \in AdminInstructions \cup SwapInstructions
    BY <2>6, <2>8, <2>12 DEF SwapInstructions
  <2>14. SwapInstruction_pack(ix) = <<0, Head(rest)>> \o WordAt(tr, 1) \o f
    BY <2>8, <2>12 DEF SwapInstruction_pack
  <2>15. Pack(ix) = SwapInstruction_pack(ix)
    BY PackIsByKind
  <2>16. tr = SubSeq(tr, 1, WORD) \o SubSeq(tr, WORD + 1, Len(tr))
    <3>1. 1 \in 1 .. Len(tr) + 1 /\ WORD \in 1 - 1 .. Len(tr) /\ Len(tr) \in WORD .. Len(tr)
      BY <2>4, <2>7
    <3> QED
      BY <2>4, <3>1, ConcatAdjacentSubSeq, SubSeqFull
  <2>17. rest = n \o tr
    <3>1. 1 \in 1 .. Len(rest) /\ Len(rest) \in 1 .. Len(rest)
      BY <2>4
    <3>2. SubSeq(rest, 1, Len(rest)) = <<rest[1]>> \o SubSeq(rest, 1 + 1, Len(rest))
      BY <1>2, <3>1, SubSeqRecursiveFirst
    <3>3. tr = SubSeq(rest, 2, Len(rest))
      BY <1>2, <2>2, TailIsSubSeq
    <3>4. SubSeq(rest, 1, Len(rest)) = rest
      BY <1>2, SubSeqFull
    <3> QED
      BY <2>4, <3>2, <3>3, <3>4
  <2>18. Pack(ix) = <<tag>> \o SubSeq(rest, 1, Len(rest))
    <3> DEFINE z == <<0>>
               w == WordAt(tr, 1)
    <3>1. <<0, Head(rest)>> = z \o n
      OBVIOUS
    <3>2. z \in Seq(Int) /\ n \in Seq(Int) /\ w \in Seq(Int)
      BY <2>6, <2>7, WordIsSeq, EncodingAssumption DEF Byte
    <3>3. tr = w \o f
      BY <2>7, <2>9, <2>16
    <3>4. Pack(ix) = z \o n \o w \o f
      BY <2>14, <2>15, <3>1
    <3>5. rest = n \o (w \o f)
      BY <2>17, <3>3
    <3> HIDE DEF z, n, w, f, tr, ix
    <3>6. n \o w \o f = n \o (w \o f)
      BY <2>11, <3>2, JoinTwo, ZenonT(60)
    <3>7. Parts(z \o n \o w \o f, z, n \o w \o f)
      BY <2>11, <3>2, JoinThree
    <3>8. Pack(ix) = z \o rest
      BY <3>4, <3>5, <3>6, <3>7 DEF Parts
    <3>9. SubSeq(rest, 1, Len(rest)) = rest
      BY <1>2, SubSeqFull
    <3> QED
      BY <1>11, <3>8, <3>9 DEF z
  <2>19. Len(rest) \in 0 .. Len(rest)
    BY <2>4
  <2> QED
    BY <1>4, <2>3, <2>13, <2>18, <2>19
<1>12. CASE tag = 1
  <2> DEFINE ix == [ op |-> "Swap",
                     amount_in |-> unpack_u64(rest, 1),
                     minimum_amount_out |-> unpack_u64(rest, 2) ]
  <2>1. Unpack(data) = user
    BY <1>7, <1>12
  <2>2. ~TooShort(rest, 2)
    BY <1>1, <1>12, <2>1 DEF SwapInstruction_unpack, Refused, Ok
  <2>3. Unpack(data) = Decoded(ix)
    BY <1>1, <1>12, <2>1, <2>2 DEF SwapInstruction_unpack
  <2> HIDE DEF rest, tag, admin, user
  <2>4. /\ 2 * WORD \in 0 .. Len(rest)
        /\ WordAt(rest, 1) \in Word
        /\ WordAt(rest, 2) \in Word
        /\ WordAt(rest, 1) \o WordAt(rest, 2)
             = SubSeq(rest, 1, 2 * WORD)
    BY <1>2, <1>3, <2>2, WordsOfBytes
  <2>5. /\ unpack_u64(rest, 1) \in U64 /\ to_le_bytes(unpack_u64(rest, 1)) = WordAt(rest, 1)
        /\ unpack_u64(rest, 2) \in U64 /\ to_le_bytes(unpack_u64(rest, 2)) = WordAt(rest, 2)
    BY <1>5, <2>4
  <2>6. ix \in AdminInstructions \cup SwapInstructions
    BY <2>5 DEF SwapInstructions
  <2>7. SwapInstruction_pack(ix) = <<1>> \o WordAt(rest, 1) \o WordAt(rest, 2)
    BY <2>5 DEF SwapInstruction_pack
  <2>8. Pack(ix) = SwapInstruction_pack(ix)
    BY PackIsByKind
  <2>9. Pack(ix) = <<tag>> \o SubSeq(rest, 1, 2 * WORD)
    <3> DEFINE z == <<1>>
               u == WordAt(rest, 1)
               v == WordAt(rest, 2)
    <3>1. z \in Seq(Int) /\ u \in Seq(Int) /\ v \in Seq(Int)
      BY <2>4, WordIsSeq
    <3>2. Pack(ix) = z \o u \o v /\ u \o v = SubSeq(rest, 1, 2 * WORD)
      BY <2>4, <2>7, <2>8
    <3> HIDE DEF z, u, v, ix
    <3>3. z \o u \o v = z \o (u \o v)
      BY <3>1, JoinTwo
    <3> QED
      BY <1>12, <3>2, <3>3 DEF z
  <2> QED
    BY <1>4, <2>3, <2>4, <2>6, <2>9
<1>13. CASE tag = 2
  <2> DEFINE ix == [ op |-> "Deposit",
                     token_a_amount |-> unpack_u64(rest, 1),
                     token_b_amount |-> unpack_u64(rest, 2),
                     min_mint_amount |-> unpack_u64(rest, 3) ]
  <2>1. Unpack(data) = user
    BY <1>7, <1>13
  <2>2. ~TooShort(rest, 3)
    BY <1>1, <1>13, <2>1 DEF SwapInstruction_unpack, Refused, Ok
  <2>3. Unpack(data) = Decoded(ix)
    BY <1>1, <1>13, <2>1, <2>2 DEF SwapInstruction_unpack
  <2> HIDE DEF rest, tag, admin, user
  <2>4. /\ 3 * WORD \in 0 .. Len(rest)
        /\ WordAt(rest, 1) \in Word
        /\ WordAt(rest, 2) \in Word
        /\ WordAt(rest, 3) \in Word
        /\ WordAt(rest, 1) \o WordAt(rest, 2) \o WordAt(rest, 3)
             = SubSeq(rest, 1, 3 * WORD)
    BY <1>2, <1>3, <2>2, WordsOfBytes
  <2>5. /\ unpack_u64(rest, 1) \in U64 /\ to_le_bytes(unpack_u64(rest, 1)) = WordAt(rest, 1)
        /\ unpack_u64(rest, 2) \in U64 /\ to_le_bytes(unpack_u64(rest, 2)) = WordAt(rest, 2)
        /\ unpack_u64(rest, 3) \in U64 /\ to_le_bytes(unpack_u64(rest, 3)) = WordAt(rest, 3)
    BY <1>5, <2>4
  <2>6. ix \in AdminInstructions \cup SwapInstructions
    BY <2>5 DEF SwapInstructions
  <2>7. SwapInstruction_pack(ix)
          = <<2>> \o WordAt(rest, 1) \o WordAt(rest, 2) \o WordAt(rest, 3)
    BY <2>5 DEF SwapInstruction_pack
  <2>8. Pack(ix) = SwapInstruction_pack(ix)
    BY PackIsByKind
  <2>9. Pack(ix) = <<tag>> \o SubSeq(rest, 1, 3 * WORD)
    <3> DEFINE z == <<2>>
               u == WordAt(rest, 1)
               v == WordAt(rest, 2)
               w == WordAt(rest, 3)
    <3>1. z \in Seq(Int) /\ u \in Seq(Int) /\ v \in Seq(Int) /\ w \in Seq(Int)
      BY <2>4, WordIsSeq
    <3>2. Pack(ix) = z \o u \o v \o w /\ u \o v \o w = SubSeq(rest, 1, 3 * WORD)
      BY <2>4, <2>7, <2>8
    <3> HIDE DEF z, u, v, w, ix
    <3>3. Parts(z \o u \o v \o w, z, u \o v \o w)
      BY <3>1, JoinThree
    <3> QED
      BY <1>13, <3>2, <3>3 DEF z, Parts
  <2> QED
    BY <1>4, <2>3, <2>4, <2>6, <2>9
<1>14. CASE tag = 3
  <2> DEFINE ix == [ op |-> "Withdraw",
                     pool_token_amount |-> unpack_u64(rest, 1),
                     minimum_token_a_amount |-> unpack_u64(rest, 2),
                     minimum_token_b_amount |-> unpack_u64(rest, 3) ]
  <2>1. Unpack(data) = user
    BY <1>7, <1>14
  <2>2. ~TooShort(rest, 3)
    BY <1>1, <1>14, <2>1 DEF SwapInstruction_unpack, Refused, Ok
  <2>3. Unpack(data) = Decoded(ix)
    BY <1>1, <1>14, <2>1, <2>2 DEF SwapInstruction_unpack
  <2> HIDE DEF rest, tag, admin, user
  <2>4. /\ 3 * WORD \in 0 .. Len(rest)
        /\ WordAt(rest, 1) \in Word
        /\ WordAt(rest, 2) \in Word
        /\ WordAt(rest, 3) \in Word
        /\ WordAt(rest, 1) \o WordAt(rest, 2) \o WordAt(rest, 3)
             = SubSeq(rest, 1, 3 * WORD)
    BY <1>2, <1>3, <2>2, WordsOfBytes
  <2>5. /\ unpack_u64(rest, 1) \in U64 /\ to_le_bytes(unpack_u64(rest, 1)) = WordAt(rest, 1)
        /\ unpack_u64(rest, 2) \in U64 /\ to_le_bytes(unpack_u64(rest, 2)) = WordAt(rest, 2)
        /\ unpack_u64(rest, 3) \in U64 /\ to_le_bytes(unpack_u64(rest, 3)) = WordAt(rest, 3)
    BY <1>5, <2>4
  <2>6. ix \in AdminInstructions \cup SwapInstructions
    BY <2>5 DEF SwapInstructions
  <2>7. SwapInstruction_pack(ix)
          = <<3>> \o WordAt(rest, 1) \o WordAt(rest, 2) \o WordAt(rest, 3)
    BY <2>5 DEF SwapInstruction_pack
  <2>8. Pack(ix) = SwapInstruction_pack(ix)
    BY PackIsByKind
  <2>9. Pack(ix) = <<tag>> \o SubSeq(rest, 1, 3 * WORD)
    <3> DEFINE z == <<3>>
               u == WordAt(rest, 1)
               v == WordAt(rest, 2)
               w == WordAt(rest, 3)
    <3>1. z \in Seq(Int) /\ u \in Seq(Int) /\ v \in Seq(Int) /\ w \in Seq(Int)
      BY <2>4, WordIsSeq
    <3>2. Pack(ix) = z \o u \o v \o w /\ u \o v \o w = SubSeq(rest, 1, 3 * WORD)
      BY <2>4, <2>7, <2>8
    <3> HIDE DEF z, u, v, w, ix
    <3>3. Parts(z \o u \o v \o w, z, u \o v \o w)
      BY <3>1, JoinThree
    <3> QED
      BY <1>14, <3>2, <3>3 DEF z, Parts
  <2> QED
    BY <1>4, <2>3, <2>4, <2>6, <2>9
<1>15. CASE tag = 4
  <2> DEFINE ix == [ op |-> "WithdrawOne",
                     pool_token_amount |-> unpack_u64(rest, 1),
                     minimum_token_amount |-> unpack_u64(rest, 2) ]
  <2>1. Unpack(data) = user
    BY <1>7, <1>15
  <2>2. ~TooShort(rest, 2)
    BY <1>1, <1>15, <2>1 DEF SwapInstruction_unpack, Refused, Ok
  <2>3. Unpack(data) = Decoded(ix)
    BY <1>1, <1>15, <2>1, <2>2 DEF SwapInstruction_unpack
  <2> HIDE DEF rest, tag, admin, user
  <2>4. /\ 2 * WORD \in 0 .. Len(rest)
        /\ WordAt(rest, 1) \in Word
        /\ WordAt(rest, 2) \in Word
        /\ WordAt(rest, 1) \o WordAt(rest, 2)
             = SubSeq(rest, 1, 2 * WORD)
    BY <1>2, <1>3, <2>2, WordsOfBytes
  <2>5. /\ unpack_u64(rest, 1) \in U64 /\ to_le_bytes(unpack_u64(rest, 1)) = WordAt(rest, 1)
        /\ unpack_u64(rest, 2) \in U64 /\ to_le_bytes(unpack_u64(rest, 2)) = WordAt(rest, 2)
    BY <1>5, <2>4
  <2>6. ix \in AdminInstructions \cup SwapInstructions
    BY <2>5 DEF SwapInstructions
  <2>7. SwapInstruction_pack(ix) = <<4>> \o WordAt(rest, 1) \o WordAt(rest, 2)
    BY <2>5 DEF SwapInstruction_pack
  <2>8. Pack(ix) = SwapInstruction_pack(ix)
    BY PackIsByKind
  <2>9. Pack(ix) = <<tag>> \o SubSeq(rest, 1, 2 * WORD)
    <3> DEFINE z == <<4>>
               u == WordAt(rest, 1)
               v == WordAt(rest, 2)
    <3>1. z \in Seq(Int) /\ u \in Seq(Int) /\ v \in Seq(Int)
      BY <2>4, WordIsSeq
    <3>2. Pack(ix) = z \o u \o v /\ u \o v = SubSeq(rest, 1, 2 * WORD)
      BY <2>4, <2>7, <2>8
    <3> HIDE DEF z, u, v, ix
    <3>3. z \o u \o v = z \o (u \o v)
      BY <3>1, JoinTwo
    <3> QED
      BY <1>15, <3>2, <3>3 DEF z
  <2> QED
    BY <1>4, <2>3, <2>4, <2>6, <2>9
<1>16. CASE tag \notin 100 .. 107 /\ tag \notin {0, 1, 2, 3, 4}
  <2>1. user = Refused("InvalidInstruction")
    <3>1. tag # 0 /\ tag # 1 /\ tag # 2 /\ tag # 3 /\ tag # 4
      BY <1>16
    <3> QED
      BY <1>1, <3>1 DEF SwapInstruction_unpack
  <2> QED
    BY <1>7, <1>16, <2>1 DEF Refused, Ok
<1>17. tag \in Int
  BY <1>1, HeadTailProperties
<1> HIDE DEF rest, tag, admin, user
<1>18. tag \in 100 .. 107 => tag = 100 \/ tag \in 101 .. 106 \/ tag = 107
  BY <1>17
<1> QED
  BY <1>8, <1>9, <1>10, <1>11, <1>12, <1>13, <1>14, <1>15, <1>16, <1>18

\* Every instruction there is, of either kind and with any arguments of their
\* types, is dispatched to as it was packed: process_instruction
\* (processor/mod.rs:24) never takes one for another.
THEOREM InstructionsRoundTrip ==
    ASSUME NEW ix \in AdminInstructions \cup SwapInstructions
    PROVE  Unpack(Pack(ix)) = Decoded(ix)
<1>1. ix \in AdminInstructions => ix.op \in {"RampA", "SetNewFees"} \cup PlainOps
  BY DEF AdminInstructions
<1>2. ix \in SwapInstructions =>
        ix.op \in {"Initialize", "Swap", "Deposit", "Withdraw", "WithdrawOne"}
  BY DEF SwapInstructions
<1> QED
  BY <1>1, <1>2, PackIsByKind, AdminRoundTrip, SwapRoundTrip

\* Whatever the tag and the bytes after it: what the program accepts begins with
\* the encoding of the instruction that it dispatches to.
THEOREM AcceptedBytesAreUnderstood ==
    ASSUME NEW data \in Seq(Int), \A i \in 2 .. Len(data) : data[i] \in Byte,
           Unpack(data).err = Ok
    PROVE  Understood(data)
BY AcceptedBytes

(***************************************************************************)
(* SwapInfo.                                                               *)
(***************************************************************************)

\* The cells of a buffer that was put together from two.
CellsOf(whole, s, t) ==
    /\ Len(whole) = Len(s) + Len(t)
    /\ \A i \in 1 .. Len(s) : whole[i] = s[i]
    /\ \A i \in 1 .. Len(t) : whole[Len(s) + i] = t[i]

LEMMA CellsOfBoth ==
    ASSUME NEW Cells, NEW s \in Seq(Cells), NEW t \in Seq(Cells)
    PROVE  s \o t \in Seq(Cells) /\ CellsOf(s \o t, s, t)
<1>1. Len(s) \in Nat /\ Len(t) \in Nat
  OBVIOUS
<1>2. /\ s \o t \in Seq(Cells) /\ Len(s \o t) = Len(s) + Len(t)
      /\ \A i \in 1 .. Len(s) + Len(t) :
            (s \o t)[i] = IF i <= Len(s) THEN s[i] ELSE t[i - Len(s)]
  BY ConcatProperties
<1>3. \A i \in 1 .. Len(s) : i \in 1 .. Len(s) + Len(t) /\ i <= Len(s)
  BY <1>1
<1>4. \A i \in 1 .. Len(t) : /\ Len(s) + i \in 1 .. Len(s) + Len(t)
                             /\ ~(Len(s) + i <= Len(s)) /\ Len(s) + i - Len(s) = i
  BY <1>1
<1> QED
  BY <1>2, <1>3, <1>4 DEF CellsOf

\* What FieldEnds is defined by.
LEMMA FieldEndsUnfolds ==
    ASSUME NEW lengths \in Seq(Int)
    PROVE  /\ DOMAIN FieldEnds(lengths) = 0 .. Len(lengths)
           /\ FieldEnds(lengths)[0] = 0
           /\ \A i \in 1 .. Len(lengths) :
                FieldEnds(lengths)[i] = FieldEnds(lengths)[i - 1] + lengths[i]
<1> DEFINE n == Len(lengths)
           Solves(f) == f = [i \in 0 .. n |-> IF i = 0 THEN 0 ELSE f[i - 1] + lengths[i]]
           step == [i \in 1 .. n |-> [x \in Int |-> x + lengths[i]]]
           ends == FieldEnds(lengths)
<1>0. n \in Nat /\ \A i \in 1 .. n : lengths[i] \in Int
  OBVIOUS
<1> HIDE DEF n
<1>1. PICK f : Follows(f, n, 0, step)
  <2>1. step \in [1 .. n -> [Int -> Int]]
    BY <1>0
  <2>2. n \in Nat /\ 0 \in Int
    BY <1>0
  <2> HIDE DEF step
  <2> QED
    BY <2>1, <2>2, Recursion
<1>2. \A i \in 0 .. n : f[i] = IF i = 0 THEN 0 ELSE f[i - 1] + lengths[i]
  <2> SUFFICES ASSUME NEW i \in 0 .. n, i # 0
               PROVE  f[i] = f[i - 1] + lengths[i]
    BY <1>1 DEF Follows
  <2>1. i \in 1 .. n /\ i - 1 \in 0 .. n
    BY <1>0
  <2>2. f[i] = step[i][f[i - 1]] /\ f[i - 1] \in Int
    BY <1>1, <2>1 DEF Follows
  <2> QED
    BY <2>1, <2>2
<1>3. Solves(f)
  <2> HIDE DEF step
  <2> QED
    BY <1>1, <1>2 DEF Follows
<1>4. Solves(ends)
  <2> HIDE DEF Solves
  <2>1. ends = CHOOSE g : Solves(g)
    BY DEF FieldEnds, Solves, n
  <2> HIDE DEF ends
  <2> QED
    BY <1>3, <2>1
<1> HIDE DEF ends
<1>5. /\ DOMAIN ends = 0 .. n
      /\ \A i \in 0 .. n : ends[i] = IF i = 0 THEN 0 ELSE ends[i - 1] + lengths[i]
  BY <1>4
<1>6. ends[0] = 0 /\ \A i \in 1 .. n : ends[i] = ends[i - 1] + lengths[i]
  <2>1. 0 \in 0 .. n /\ \A i \in 1 .. n : i \in 0 .. n /\ i # 0
    BY <1>0
  <2> HIDE DEF Solves
  <2> QED
    BY <1>5, <2>1
<1> QED
  BY <1>5, <1>6 DEF ends, n

\* Where the fields of SwapInfo end.
LEMMA SwapInfoEnds ==
    /\ DOMAIN SwapInfoLayout = 0 .. 18
    /\ SwapInfoLayout[0] = 0 /\ SwapInfoLayout[1] = 1 /\ SwapInfoLayout[2] = 2
    /\ SwapInfoLayout[3] = 3 /\ SwapInfoLayout[4] = 3 + WORD
    /\ SwapInfoLayout[5] = 3 + 2 * WORD /\ SwapInfoLayout[6] = 3 + 3 * WORD
    /\ SwapInfoLayout[7] = 3 + 4 * WORD
    /\ \A i \in 0 .. 9 : SwapInfoLayout[8 + i] = 3 + 5 * WORD + i
    /\ SwapInfoLayout[18] = 12 + 13 * WORD
<1> DEFINE head == <<1, 1, 1, WORD, WORD, WORD, WORD, WORD>>
           keys == [i \in 1 .. 9 |-> 1]
           tail == <<FEES_LEN>>
           lengths == (head \o keys) \o tail
           ends == SwapInfoLayout
<1>0. WORD \in Nat \ {0} /\ FEES_LEN = 8 * WORD
  BY EncodingAssumption DEF FEES_LEN
<1>1. /\ head \in Seq(Int) /\ Len(head) = 8
      /\ head[1] = 1 /\ head[2] = 1 /\ head[3] = 1
      /\ head[4] = WORD /\ head[5] = WORD /\ head[6] = WORD /\ head[7] = WORD /\ head[8] = WORD
  BY <1>0
<1>2. keys \in Seq(Int) /\ Len(keys) = 9 /\ \A i \in 1 .. 9 : keys[i] = 1
  <2>1. keys \in [1 .. 9 -> Int]
    OBVIOUS
  <2> QED
    BY <2>1
<1>3. tail \in Seq(Int) /\ Len(tail) = 1 /\ tail[1] = 8 * WORD
  BY <1>0
<1> HIDE DEF head, keys, tail
<1> DEFINE first == head \o keys
<1>4. /\ first \in Seq(Int) /\ Len(first) = 17
      /\ \A i \in 1 .. 8 : first[i] = head[i]
      /\ \A i \in 1 .. 9 : first[8 + i] = 1
  <2>1. first \in Seq(Int) /\ CellsOf(first, head, keys)
    BY <1>1, <1>2, CellsOfBoth
  <2> HIDE DEF first
  <2> QED
    BY <1>1, <1>2, <2>1 DEF CellsOf
<1> HIDE DEF first
<1>5. /\ lengths \in Seq(Int) /\ Len(lengths) = 18
      /\ \A i \in 1 .. 17 : lengths[i] = first[i]
      /\ lengths[17 + 1] = tail[1]
  <2>1. lengths = first \o tail
    BY DEF first
  <2>2. 1 \in 1 .. Len(tail)
    BY <1>3
  <2> HIDE DEF lengths
  <2> QED
    <3>1. lengths \in Seq(Int) /\ CellsOf(lengths, first, tail)
      BY <1>3, <1>4, <2>1, CellsOfBoth
    <3> QED
      BY <1>3, <1>4, <2>2, <3>1 DEF CellsOf
<1>6. /\ lengths[1] = 1 /\ lengths[2] = 1 /\ lengths[3] = 1 /\ lengths[4] = WORD
      /\ lengths[5] = WORD /\ lengths[6] = WORD /\ lengths[7] = WORD /\ lengths[8] = WORD
      /\ \A i \in 9 .. 17 : lengths[i] = 1
      /\ lengths[18] = 8 * WORD
  <2> HIDE DEF lengths
  <2>1. \A i \in 1 .. 8 : lengths[i] = head[i]
    BY <1>4, <1>5, SMTT(60)
  <2>2. \A i \in 9 .. 17 : lengths[i] = first[8 + (i - 8)] /\ i - 8 \in 1 .. 9
    BY <1>5
  <2>3. \A i \in 9 .. 17 : lengths[i] = 1
    BY <1>4, <2>2
  <2> QED
    BY <1>1, <1>3, <1>5, <2>1, <2>3
<1>7. ends = FieldEnds(lengths)
  BY DEF SwapInfoLayout, first, head, keys, tail
<1> HIDE DEF lengths, ends
<1>8. /\ DOMAIN ends = 0 .. 18 /\ ends[0] = 0
      /\ \A i \in 1 .. 18 : ends[i] = ends[i - 1] + lengths[i]
  BY <1>5, <1>7, FieldEndsUnfolds
<1>9. /\ ends[1] = 1 /\ ends[2] = 2 /\ ends[3] = 3 /\ ends[4] = 3 + WORD
      /\ ends[5] = 3 + 2 * WORD /\ ends[6] = 3 + 3 * WORD
      /\ ends[7] = 3 + 4 * WORD /\ ends[8] = 3 + 5 * WORD
  <2>1. /\ ends[1] = ends[0] + lengths[1] /\ ends[2] = ends[1] + lengths[2]
        /\ ends[3] = ends[2] + lengths[3] /\ ends[4] = ends[3] + lengths[4]
        /\ ends[5] = ends[4] + lengths[5] /\ ends[6] = ends[5] + lengths[6]
        /\ ends[7] = ends[6] + lengths[7] /\ ends[8] = ends[7] + lengths[8]
    BY <1>8
  <2> QED
    BY <1>0, <1>6, <1>8, <2>1
<1>10. /\ ends[9] = 4 + 5 * WORD /\ ends[10] = 5 + 5 * WORD /\ ends[11] = 6 + 5 * WORD
       /\ ends[12] = 7 + 5 * WORD /\ ends[13] = 8 + 5 * WORD /\ ends[14] = 9 + 5 * WORD
       /\ ends[15] = 10 + 5 * WORD /\ ends[16] = 11 + 5 * WORD /\ ends[17] = 12 + 5 * WORD
       /\ ends[18] = 12 + 13 * WORD
  <2>1. /\ ends[9] = ends[8] + lengths[9] /\ ends[10] = ends[9] + lengths[10]
        /\ ends[11] = ends[10] + lengths[11] /\ ends[12] = ends[11] + lengths[12]
        /\ ends[13] = ends[12] + lengths[13] /\ ends[14] = ends[13] + lengths[14]
        /\ ends[15] = ends[14] + lengths[15] /\ ends[16] = ends[15] + lengths[16]
        /\ ends[17] = ends[16] + lengths[17] /\ ends[18] = ends[17] + lengths[18]
    BY <1>8
  <2> QED
    BY <1>0, <1>6, <1>9, <2>1
<1>11. \A i \in 0 .. 9 : ends[8 + i] = 3 + 5 * WORD + i
  <2> SUFFICES ASSUME NEW i \in 0 .. 9
               PROVE  ends[8 + i] = 3 + 5 * WORD + i
    OBVIOUS
  <2>1. \/ i = 0 \/ i = 1 \/ i = 2 \/ i = 3 \/ i = 4 \/ i = 5 \/ i = 6 \/ i = 7 \/ i = 8 \/ i = 9
    OBVIOUS
  <2> QED
    BY <1>0, <1>9, <1>10, <2>1
<1> QED
  BY <1>8, <1>9, <1>10, <1>11 DEF ends

\* The cells a..b of s are w.
Field(s, a, b, w) == a \in 1 .. Len(s) /\ b \in 1 .. Len(s) /\ SubSeq(s, a, b) = w

\* The fields of a buffer that was put together from two are theirs.
Appended(whole, s, t) ==
    /\ Len(whole) = Len(s) + Len(t)
    /\ Field(whole, Len(s) + 1, Len(s) + Len(t), t)
    /\ \A a, b, w : Field(s, a, b, w) => Field(whole, a, b, w)
    /\ \A a, b, w : Field(t, a, b, w) => Field(whole, Len(s) + a, Len(s) + b, w)

LEMMA AppendField ==
    ASSUME NEW Cells, NEW s \in Seq(Cells), NEW t \in Seq(Cells), t # << >>
    PROVE  s \o t \in Seq(Cells) /\ Appended(s \o t, s, t)
<1> DEFINE whole == s \o t
<1>1. /\ whole \in Seq(Cells) /\ Len(whole) = Len(s) + Len(t)
      /\ Len(s) \in Nat /\ Len(t) \in Nat \ {0}
  <2>1. whole \in Seq(Cells) /\ Len(whole) = Len(s) + Len(t)
    BY ConcatProperties
  <2>2. Len(s) \in Nat /\ Len(t) \in Nat /\ Len(t) # 0
    BY EmptySeq
  <2> QED
    BY <2>1, <2>2
<1>2. Field(whole, Len(s) + 1, Len(s) + Len(t), t)
  <2>1. SubSeq(whole, Len(s) + 1, Len(s) + Len(t)) = t
    BY SecondPart
  <2> HIDE DEF whole
  <2> QED
    BY <1>1, <2>1 DEF Field
<1>3. ASSUME NEW a, NEW b, NEW w, Field(s, a, b, w)
      PROVE  Field(whole, a, b, w)
  <2>1. a \in 1 .. Len(s) /\ b \in 1 .. Len(s) /\ SubSeq(s, a, b) = w
    BY <1>3 DEF Field
  <2>2. SubSeq(whole, a, b) = SubSeq(s, a, b)
    BY <2>1, SubSeqOfConcat1
  <2> HIDE DEF whole
  <2>3. a \in 1 .. Len(whole) /\ b \in 1 .. Len(whole)
    BY <1>1, <2>1
  <2> QED
    BY <2>1, <2>2, <2>3 DEF Field
<1>4. ASSUME NEW a, NEW b, NEW w, Field(t, a, b, w)
      PROVE  Field(whole, Len(s) + a, Len(s) + b, w)
  <2>1. a \in 1 .. Len(t) /\ b \in 1 .. Len(t) /\ SubSeq(t, a, b) = w
    BY <1>4 DEF Field
  <2>2. SubSeq(whole, Len(s) + a, Len(s) + b) = SubSeq(t, a, b)
    BY <2>1, WithinSecondPart
  <2> HIDE DEF whole
  <2>3. Len(s) + a \in 1 .. Len(whole) /\ Len(s) + b \in 1 .. Len(whole)
    BY <1>1, <2>1
  <2> QED
    BY <2>1, <2>2, <2>3 DEF Field
<1> HIDE DEF whole
<1> QED
  BY <1>1, <1>2, <1>3, <1>4, Zenon DEF Appended, whole

LEMMA CellField ==
    ASSUME NEW Cells, NEW s \in Seq(Cells), NEW i \in 1 .. Len(s)
    PROVE  Field(s, i, i, <<s[i]>>)
<1> DEFINE cell == SubSeq(s, i, i)
<1>1. i \in Nat /\ i + 1 - i = 1 /\ i \in i .. Len(s) /\ i + 1 - 1 = i
  OBVIOUS
<1>2. cell \in Seq(Cells) /\ Len(cell) = 1 /\ cell[1] = s[i]
  <2>1. /\ cell \in Seq(Cells)
        /\ Len(cell) = IF i <= i THEN i - i + 1 ELSE 0
        /\ \A j \in 1 .. i - i + 1 : cell[j] = s[i + j - 1]
    BY <1>1, SubSeqProperties
  <2>2. i <= i /\ i - i + 1 = 1 /\ 1 \in 1 .. 1
    OBVIOUS
  <2> HIDE DEF cell
  <2>3. Len(cell) = 1 /\ cell[1] = s[i + 1 - 1]
    BY <2>1, <2>2
  <2> QED
    BY <1>1, <2>1, <2>3
<1> HIDE DEF cell
<1>3. cell = <<s[i]>>
  BY <1>2
<1> QED
  BY <1>3 DEF Field, cell

\* Each field of the account is written to where it is read from.
SwapInfoFields(data, stored) ==
    /\ Len(data) = SWAP_INFO_LEN
    /\ Field(data, 1, 1, <<bool_byte(stored.is_initialized)>>)
    /\ Field(data, 2, 2, <<bool_byte(stored.is_paused)>>)
    /\ Field(data, 3, 3, <<stored.nonce>>)
    /\ Field(data, 4, 3 + WORD, to_le_bytes(stored.initial_amp_factor))
    /\ Field(data, 4 + WORD, 3 + 2 * WORD, to_le_bytes(stored.target_amp_factor))
    /\ Field(data, 4 + 2 * WORD, 3 + 3 * WORD, to_le_bytes(stored.start_ramp_ts))
    /\ Field(data, 4 + 3 * WORD, 3 + 4 * WORD, to_le_bytes(stored.stop_ramp_ts))
    /\ Field(data, 4 + 4 * WORD, 3 + 5 * WORD, to_le_bytes(stored.future_admin_deadline))
    /\ \A i \in 1 .. 9 :
          Field(data, 3 + 5 * WORD + i, 3 + 5 * WORD + i,
                << << stored.future_admin_key, stored.admin_key,
                      stored.token_a.reserves, stored.token_b.reserves, stored.pool_mint,
                      stored.token_a.mint, stored.token_b.mint,
                      stored.token_a.admin_fees, stored.token_b.admin_fees >>[i] >>)
    /\ Field(data, 13 + 5 * WORD, 12 + 13 * WORD, Fees_pack(stored.fees))

LEMMA SwapInfoIsLaidOut ==
    ASSUME NEW Keys, NEW stored \in SwapInfos(Keys)
    PROVE  SwapInfoFields(SwapInfo_pack(stored), stored)
<1> DEFINE Cells == Int \cup Keys
           flags == << bool_byte(stored.is_initialized), bool_byte(stored.is_paused),
                       stored.nonce >>
           w1 == to_le_bytes(stored.initial_amp_factor)
           w2 == to_le_bytes(stored.target_amp_factor)
           w3 == to_le_bytes(stored.start_ramp_ts)
           w4 == to_le_bytes(stored.stop_ramp_ts)
           w5 == to_le_bytes(stored.future_admin_deadline)
           keys == << stored.future_admin_key, stored.admin_key,
                      stored.token_a.reserves, stored.token_b.reserves, stored.pool_mint,
                      stored.token_a.mint, stored.token_b.mint,
                      stored.token_a.admin_fees, stored.token_b.admin_fees >>
           f == Fees_pack(stored.fees)
           s1 == flags \o w1
           s2 == s1 \o w2
           s3 == s2 \o w3
           s4 == s3 \o w4
           s5 == s4 \o w5
           s6 == s5 \o keys
           s7 == s6 \o f
<1>1. WORD \in Nat \ {0}
  BY EncodingAssumption
<1>2. flags \in Seq(Cells) /\ Len(flags) = 3
  <2>1. bool_byte(stored.is_initialized) \in Int /\ bool_byte(stored.is_paused) \in Int
    BY DEF bool_byte
  <2>2. stored.nonce \in Int
    BY EncodingAssumption DEF SwapInfos, Byte
  <2> QED
    BY <2>1, <2>2
<1>3. \A w \in Word : w \in Seq(Cells) /\ Len(w) = WORD /\ w # << >>
  <2> SUFFICES ASSUME NEW w \in Word
               PROVE  w \in Seq(Cells) /\ Len(w) = WORD /\ w # << >>
    OBVIOUS
  <2>1. w \in Seq(Int) /\ Len(w) = WORD
    BY WordIsSeq
  <2>2. w # << >>
    BY <1>1, <2>1
  <2>3. w \in Seq(Cells)
    BY <2>1
  <2> QED
    BY <2>1, <2>2, <2>3
<1>4. w1 \in Word /\ w2 \in Word /\ w3 \in Word /\ w4 \in Word /\ w5 \in Word
  <2>1. \A n : n \in U64 \/ n \in I64 => n \in Int
    BY WidthAssumption DEF U64, I64
  <2>2. /\ stored.initial_amp_factor \in U64 /\ stored.target_amp_factor \in U64
        /\ stored.start_ramp_ts \in I64 /\ stored.stop_ramp_ts \in I64
        /\ stored.future_admin_deadline \in I64
    BY DEF SwapInfos
  <2> QED
    BY <2>1, <2>2, WrittenWord
<1>0. /\ Len(w1) = WORD /\ Len(w2) = WORD /\ Len(w3) = WORD /\ Len(w4) = WORD
      /\ Len(w5) = WORD
  <2> HIDE DEF w1, w2, w3, w4, w5, Cells
  <2> QED
    BY <1>3, <1>4
<1>5. keys \in Seq(Cells) /\ Len(keys) = 9 /\ keys # << >>
  <2>1. /\ stored.future_admin_key \in Keys /\ stored.admin_key \in Keys
        /\ stored.pool_mint \in Keys
        /\ stored.token_a \in TokenInfos(Keys, 0) /\ stored.token_b \in TokenInfos(Keys, 1)
    BY DEF SwapInfos
  <2>2. /\ stored.token_a.reserves \in Keys /\ stored.token_b.reserves \in Keys
        /\ stored.token_a.mint \in Keys /\ stored.token_b.mint \in Keys
        /\ stored.token_a.admin_fees \in Keys /\ stored.token_b.admin_fees \in Keys
    BY <2>1 DEF TokenInfos
  <2> QED
    BY <2>1, <2>2
<1>6. f \in Seq(Cells) /\ Len(f) = 8 * WORD /\ f # << >>
  <2>1. f \in Seq(Int) /\ Len(f) = 8 * WORD
    BY FeesRoundTrip DEF SwapInfos, FEES_LEN
  <2> HIDE DEF f
  <2>2. f # << >>
    BY <1>1, <2>1
  <2> QED
    BY <2>1, <2>2
<1>7. SwapInfo_pack(stored) = s7
  BY DEF SwapInfo_pack
<1>8. \A i \in 1 .. 3 : Field(flags, i, i, <<flags[i]>>)
  <2> HIDE DEF flags, Cells
  <2> QED
    BY <1>2, CellField
<1>9. \A i \in 1 .. 9 : Field(keys, i, i, <<keys[i]>>)
  <2> HIDE DEF keys, Cells
  <2> QED
    BY <1>5, CellField
<1>10. /\ flags[1] = bool_byte(stored.is_initialized)
       /\ flags[2] = bool_byte(stored.is_paused) /\ flags[3] = stored.nonce
  OBVIOUS
<1> HIDE DEF flags, w1, w2, w3, w4, w5, keys, f, Cells
<1>11. s1 \in Seq(Cells) /\ Appended(s1, flags, w1) /\ Len(s1) = 3 + WORD
  <2>1. s1 \in Seq(Cells) /\ Appended(s1, flags, w1)
    BY <1>2, <1>3, <1>4, AppendField
  <2>2. Len(s1) = Len(flags) + Len(w1)
    BY <2>1, Zenon DEF Appended
  <2> QED
    BY <1>0, <1>1, <1>2, <2>1, <2>2
<1> HIDE DEF s1
<1>12. s2 \in Seq(Cells) /\ Appended(s2, s1, w2) /\ Len(s2) = 3 + 2 * WORD
  <2>1. s2 \in Seq(Cells) /\ Appended(s2, s1, w2)
    BY <1>3, <1>4, <1>11, AppendField
  <2>2. Len(s2) = Len(s1) + Len(w2)
    BY <2>1, Zenon DEF Appended
  <2> QED
    BY <1>0, <1>1, <1>11, <2>1, <2>2
<1> HIDE DEF s2
<1>13. s3 \in Seq(Cells) /\ Appended(s3, s2, w3) /\ Len(s3) = 3 + 3 * WORD
  <2>1. s3 \in Seq(Cells) /\ Appended(s3, s2, w3)
    BY <1>3, <1>4, <1>12, AppendField
  <2>2. Len(s3) = Len(s2) + Len(w3)
    BY <2>1, Zenon DEF Appended
  <2> QED
    BY <1>0, <1>1, <1>12, <2>1, <2>2
<1> HIDE DEF s3
<1>14. s4 \in Seq(Cells) /\ Appended(s4, s3, w4) /\ Len(s4) = 3 + 4 * WORD
  <2>1. s4 \in Seq(Cells) /\ Appended(s4, s3, w4)
    BY <1>3, <1>4, <1>13, AppendField
  <2>2. Len(s4) = Len(s3) + Len(w4)
    BY <2>1, Zenon DEF Appended
  <2> QED
    BY <1>0, <1>1, <1>13, <2>1, <2>2
<1> HIDE DEF s4
<1>15. s5 \in Seq(Cells) /\ Appended(s5, s4, w5) /\ Len(s5) = 3 + 5 * WORD
  <2>1. s5 \in Seq(Cells) /\ Appended(s5, s4, w5)
    BY <1>3, <1>4, <1>14, AppendField
  <2>2. Len(s5) = Len(s4) + Len(w5)
    BY <2>1, Zenon DEF Appended
  <2> QED
    BY <1>0, <1>1, <1>14, <2>1, <2>2
<1> HIDE DEF s5
<1>16. s6 \in Seq(Cells) /\ Appended(s6, s5, keys) /\ Len(s6) = 12 + 5 * WORD
  <2>1. s6 \in Seq(Cells) /\ Appended(s6, s5, keys)
    BY <1>5, <1>15, AppendField
  <2>2. Len(s6) = Len(s5) + Len(keys)
    BY <2>1, Zenon DEF Appended
  <2> QED
    BY <1>1, <1>5, <1>15, <2>1, <2>2
<1> HIDE DEF s6
<1>17. s7 \in Seq(Cells) /\ Appended(s7, s6, f) /\ Len(s7) = 12 + 13 * WORD
  <2>1. s7 \in Seq(Cells) /\ Appended(s7, s6, f)
    BY <1>6, <1>16, AppendField
  <2>2. Len(s7) = Len(s6) + Len(f)
    BY <2>1, Zenon DEF Appended
  <2> QED
    BY <1>1, <1>6, <1>16, <2>1, <2>2
<1> HIDE DEF s7
\* A field stays where it is while the rest is appended.
<1>18. /\ \A a, b, w : Field(flags, a, b, w) => Field(s1, a, b, w)
       /\ \A a, b, w : Field(s1, a, b, w) => Field(s2, a, b, w)
       /\ \A a, b, w : Field(s2, a, b, w) => Field(s3, a, b, w)
       /\ \A a, b, w : Field(s3, a, b, w) => Field(s4, a, b, w)
       /\ \A a, b, w : Field(s4, a, b, w) => Field(s5, a, b, w)
       /\ \A a, b, w : Field(s5, a, b, w) => Field(s6, a, b, w)
       /\ \A a, b, w : Field(s6, a, b, w) => Field(s7, a, b, w)
  BY <1>11, <1>12, <1>13, <1>14, <1>15, <1>16, <1>17, Zenon DEF Appended
<1>19. \A i \in 1 .. 3 : Field(s7, i, i, <<flags[i]>>)
  BY <1>8, <1>18, Zenon
<1>20. Field(s7, 4, 3 + WORD, w1)
  <2>1. Field(s1, Len(flags) + 1, Len(flags) + Len(w1), w1)
    BY <1>11, Zenon DEF Appended
  <2>2. Len(flags) + 1 = 4 /\ Len(flags) + Len(w1) = 3 + WORD
    BY <1>0, <1>1, <1>2
  <2> QED
    BY <1>18, <2>1, <2>2, Zenon
<1>21. Field(s7, 4 + WORD, 3 + 2 * WORD, w2)
  <2>1. Field(s2, Len(s1) + 1, Len(s1) + Len(w2), w2)
    BY <1>12, Zenon DEF Appended
  <2>2. Len(s1) + 1 = 4 + WORD /\ Len(s1) + Len(w2) = 3 + 2 * WORD
    BY <1>0, <1>1, <1>11
  <2> QED
    BY <1>18, <2>1, <2>2, Zenon
<1>22. Field(s7, 4 + 2 * WORD, 3 + 3 * WORD, w3)
  <2>1. Field(s3, Len(s2) + 1, Len(s2) + Len(w3), w3)
    BY <1>13, Zenon DEF Appended
  <2>2. Len(s2) + 1 = 4 + 2 * WORD /\ Len(s2) + Len(w3) = 3 + 3 * WORD
    BY <1>0, <1>1, <1>12
  <2> QED
    BY <1>18, <2>1, <2>2, Zenon
<1>23. Field(s7, 4 + 3 * WORD, 3 + 4 * WORD, w4)
  <2>1. Field(s4, Len(s3) + 1, Len(s3) + Len(w4), w4)
    BY <1>14, Zenon DEF Appended
  <2>2. Len(s3) + 1 = 4 + 3 * WORD /\ Len(s3) + Len(w4) = 3 + 4 * WORD
    BY <1>0, <1>1, <1>13
  <2> QED
    BY <1>18, <2>1, <2>2, Zenon
<1>24. Field(s7, 4 + 4 * WORD, 3 + 5 * WORD, w5)
  <2>1. Field(s5, Len(s4) + 1, Len(s4) + Len(w5), w5)
    BY <1>15, Zenon DEF Appended
  <2>2. Len(s4) + 1 = 4 + 4 * WORD /\ Len(s4) + Len(w5) = 3 + 5 * WORD
    BY <1>0, <1>1, <1>14
  <2> QED
    BY <1>18, <2>1, <2>2, Zenon
<1>25. \A i \in 1 .. 9 : Field(s7, 3 + 5 * WORD + i, 3 + 5 * WORD + i, <<keys[i]>>)
  <2>1. \A i \in 1 .. 9 : Field(s6, Len(s5) + i, Len(s5) + i, <<keys[i]>>)
    BY <1>9, <1>16, Zenon DEF Appended
  <2> QED
    BY <1>15, <1>18, <2>1, Zenon
<1>26. Field(s7, 13 + 5 * WORD, 12 + 13 * WORD, f)
  <2>1. Field(s7, Len(s6) + 1, Len(s6) + Len(f), f)
    BY <1>17, Zenon DEF Appended
  <2>2. Len(s6) + 1 = 13 + 5 * WORD /\ Len(s6) + Len(f) = 12 + 13 * WORD
    BY <1>1, <1>6, <1>16
  <2> QED
    BY <2>1, <2>2, Zenon
<1>27. /\ Field(s7, 1, 1, <<bool_byte(stored.is_initialized)>>)
       /\ Field(s7, 2, 2, <<bool_byte(stored.is_paused)>>)
       /\ Field(s7, 3, 3, <<stored.nonce>>)
  <2>1. 1 \in 1 .. 3 /\ 2 \in 1 .. 3 /\ 3 \in 1 .. 3
    OBVIOUS
  <2> QED
    BY <1>10, <1>19, <2>1, Zenon
<1>28. Len(s7) = SWAP_INFO_LEN
  BY <1>17 DEF SWAP_INFO_LEN
<1> QED
  BY <1>7, <1>20, <1>21, <1>22, <1>23, <1>24, <1>25, <1>26, <1>27, <1>28, Zenon
     DEF SwapInfoFields, w1, w2, w3, w4, w5, keys, f

\* What array_refs reads from a laid-out buffer.
LEMMA FieldRead ==
    ASSUME NEW data, NEW i \in 1 .. 18, NEW w,
           Field(data, SwapInfoLayout[i - 1] + 1, SwapInfoLayout[i], w)
    PROVE  array_refs(data, SwapInfoLayout)[i] = w
<1>1. i \in DOMAIN SwapInfoLayout \ {0}
  <2>1. DOMAIN SwapInfoLayout = 0 .. 18
    BY SwapInfoEnds
  <2> QED
    BY <2>1
<1>2. array_refs(data, SwapInfoLayout)[i] = SubSeq(data, SwapInfoLayout[i - 1] + 1, SwapInfoLayout[i])
  BY <1>1 DEF array_refs
<1> QED
  BY <1>2 DEF Field

\* SwapInfo::unpack_from_slice (state.rs:79) reads every field that
\* pack_into_slice (state.rs:140) wrote, from where it wrote it: whatever the
\* handlers store is what the next instruction works with.
THEOREM SwapInfoRoundTrip ==
    ASSUME NEW Keys, NEW stored \in SwapInfos(Keys)
    PROVE  SwapInfo_unpack_unchecked(SwapInfo_pack(stored)) = [err |-> Ok, info |-> stored]
<1> DEFINE data == SwapInfo_pack(stored)
           ends == SwapInfoLayout
           f == array_refs(data, ends)
           keys == << stored.future_admin_key, stored.admin_key,
                      stored.token_a.reserves, stored.token_b.reserves, stored.pool_mint,
                      stored.token_a.mint, stored.token_b.mint,
                      stored.token_a.admin_fees, stored.token_b.admin_fees >>
<1>1. SwapInfoFields(data, stored)
  BY SwapInfoIsLaidOut
<1> HIDE DEF data
<1>2. /\ Len(data) = SWAP_INFO_LEN
      /\ Field(data, 1, 1, <<bool_byte(stored.is_initialized)>>)
      /\ Field(data, 2, 2, <<bool_byte(stored.is_paused)>>)
      /\ Field(data, 3, 3, <<stored.nonce>>)
      /\ Field(data, 4, 3 + WORD, to_le_bytes(stored.initial_amp_factor))
      /\ Field(data, 4 + WORD, 3 + 2 * WORD, to_le_bytes(stored.target_amp_factor))
      /\ Field(data, 4 + 2 * WORD, 3 + 3 * WORD, to_le_bytes(stored.start_ramp_ts))
      /\ Field(data, 4 + 3 * WORD, 3 + 4 * WORD, to_le_bytes(stored.stop_ramp_ts))
      /\ Field(data, 4 + 4 * WORD, 3 + 5 * WORD, to_le_bytes(stored.future_admin_deadline))
      /\ Field(data, 13 + 5 * WORD, 12 + 13 * WORD, Fees_pack(stored.fees))
  BY <1>1, Zenon DEF SwapInfoFields
<1>3. \A i \in 1 .. 9 : Field(data, 3 + 5 * WORD + i, 3 + 5 * WORD + i, <<keys[i]>>)
  BY <1>1, Zenon DEF SwapInfoFields
<1> HIDE DEF keys
<1>4. /\ ends[1 - 1] + 1 = 1 /\ ends[1] = 1 /\ ends[2 - 1] + 1 = 2 /\ ends[2] = 2
      /\ ends[3 - 1] + 1 = 3 /\ ends[3] = 3 /\ ends[4 - 1] + 1 = 4 /\ ends[4] = 3 + WORD
      /\ ends[5 - 1] + 1 = 4 + WORD /\ ends[5] = 3 + 2 * WORD
      /\ ends[6 - 1] + 1 = 4 + 2 * WORD /\ ends[6] = 3 + 3 * WORD
      /\ ends[7 - 1] + 1 = 4 + 3 * WORD /\ ends[7] = 3 + 4 * WORD
      /\ ends[8 - 1] + 1 = 4 + 4 * WORD /\ ends[8] = 3 + 5 * WORD
      /\ ends[18 - 1] + 1 = 13 + 5 * WORD /\ ends[18] = 12 + 13 * WORD
      /\ \A i \in 1 .. 9 : /\ ends[8 + i - 1] + 1 = 3 + 5 * WORD + i
                           /\ ends[8 + i] = 3 + 5 * WORD + i
  <2>1. /\ ends[0] = 0 /\ ends[1] = 1 /\ ends[2] = 2 /\ ends[3] = 3 /\ ends[4] = 3 + WORD
        /\ ends[5] = 3 + 2 * WORD /\ ends[6] = 3 + 3 * WORD /\ ends[7] = 3 + 4 * WORD
        /\ \A i \in 0 .. 9 : ends[8 + i] = 3 + 5 * WORD + i
        /\ ends[18] = 12 + 13 * WORD
    BY SwapInfoEnds
  <2> HIDE DEF ends
  <2>2. ends[8 + 0] = 3 + 5 * WORD + 0 /\ ends[8 + 9] = 3 + 5 * WORD + 9
    BY <2>1
  <2>3. WORD \in Nat
    BY EncodingAssumption
  <2>4. ASSUME NEW i \in 1 .. 9
        PROVE  ends[8 + i - 1] + 1 = 3 + 5 * WORD + i /\ ends[8 + i] = 3 + 5 * WORD + i
    <3>1. i - 1 \in 0 .. 9 /\ i \in 0 .. 9 /\ 8 + (i - 1) = 8 + i - 1
      OBVIOUS
    <3>2. ends[8 + (i - 1)] = 3 + 5 * WORD + (i - 1) /\ ends[8 + i] = 3 + 5 * WORD + i
      BY <2>1, <3>1
    <3> QED
      BY <2>3, <3>1, <3>2
  <2> QED
    BY <2>1, <2>2, <2>3, <2>4
<1>5. \A i \in 1 .. 18 : \A w : Field(data, ends[i - 1] + 1, ends[i], w) => f[i] = w
  BY FieldRead
<1> HIDE DEF ends, f
<1>6. /\ f[1] = <<bool_byte(stored.is_initialized)>>
      /\ f[2] = <<bool_byte(stored.is_paused)>>
      /\ f[3] = <<stored.nonce>>
      /\ f[4] = to_le_bytes(stored.initial_amp_factor)
      /\ f[5] = to_le_bytes(stored.target_amp_factor)
      /\ f[6] = to_le_bytes(stored.start_ramp_ts)
      /\ f[7] = to_le_bytes(stored.stop_ramp_ts)
      /\ f[8] = to_le_bytes(stored.future_admin_deadline)
      /\ f[18] = Fees_pack(stored.fees)
  <2>1. {1, 2, 3, 4, 5, 6, 7, 8, 18} \subseteq 1 .. 18
    OBVIOUS
  <2> QED
    BY <1>2, <1>4, <1>5, <2>1, ZenonT(60)
<1>7. \A i \in 1 .. 9 : f[8 + i] = <<keys[i]>>
  <2> TAKE i \in 1 .. 9
  <2>1. 8 + i \in 1 .. 18
    OBVIOUS
  <2>2. Field(data, ends[8 + i - 1] + 1, ends[8 + i], <<keys[i]>>)
    <3>1. ends[8 + i - 1] + 1 = 3 + 5 * WORD + i /\ ends[8 + i] = 3 + 5 * WORD + i
      BY <1>4
    <3> QED
      BY <1>3, <3>1
  <2>3. \A j \in 1 .. 18 : Field(data, ends[j - 1] + 1, ends[j], <<keys[i]>>) => f[j] = <<keys[i]>>
    BY <1>5, Zenon
  <2> QED
    BY <2>1, <2>2, <2>3
<1>8. /\ f[9] = <<keys[1]>> /\ f[10] = <<keys[2]>> /\ f[11] = <<keys[3]>>
      /\ f[12] = <<keys[4]>> /\ f[13] = <<keys[5]>> /\ f[14] = <<keys[6]>>
      /\ f[15] = <<keys[7]>> /\ f[16] = <<keys[8]>> /\ f[17] = <<keys[9]>>
  BY <1>7
<1>9. /\ f[9][1] = stored.future_admin_key /\ f[10][1] = stored.admin_key
      /\ f[11][1] = stored.token_a.reserves /\ f[12][1] = stored.token_b.reserves
      /\ f[13][1] = stored.pool_mint
      /\ f[14][1] = stored.token_a.mint /\ f[15][1] = stored.token_b.mint
      /\ f[16][1] = stored.token_a.admin_fees /\ f[17][1] = stored.token_b.admin_fees
  BY <1>8 DEF keys
<1>10. /\ f[1] \in {<<0>>, <<1>>} /\ f[2] \in {<<0>>, <<1>>}
       /\ (f[1] = <<1>>) = stored.is_initialized /\ (f[2] = <<1>>) = stored.is_paused
  <2>1. stored.is_initialized \in BOOLEAN /\ stored.is_paused \in BOOLEAN
    BY DEF SwapInfos
  <2>2. <<0>> # <<1>>
    OBVIOUS
  <2>3. \A b \in BOOLEAN : /\ <<bool_byte(b)>> \in {<<0>>, <<1>>}
                           /\ (<<bool_byte(b)>> = <<1>>) = b
    BY <2>2 DEF bool_byte
  <2> QED
    BY <1>6, <2>1, <2>3
<1>11. /\ f[3][1] = stored.nonce
       /\ u64_from_le_bytes(f[4]) = stored.initial_amp_factor
       /\ u64_from_le_bytes(f[5]) = stored.target_amp_factor
       /\ i64_from_le_bytes(f[6]) = stored.start_ramp_ts
       /\ i64_from_le_bytes(f[7]) = stored.stop_ramp_ts
       /\ i64_from_le_bytes(f[8]) = stored.future_admin_deadline
       /\ Fees_unpack_from_slice(f[18]) = stored.fees
  <2>1. /\ stored.initial_amp_factor \in U64 /\ stored.target_amp_factor \in U64
        /\ stored.start_ramp_ts \in I64 /\ stored.stop_ramp_ts \in I64
        /\ stored.future_admin_deadline \in I64 /\ stored.fees \in Fees
    BY DEF SwapInfos
  <2> QED
    BY <1>6, <2>1, U64RoundTrip, I64RoundTrip, FeesRoundTrip
<1>12. /\ stored.token_a = SwapTokenInfo(f[11][1], f[14][1], f[16][1], 0)
       /\ stored.token_b = SwapTokenInfo(f[12][1], f[15][1], f[17][1], 1)
  <2>1. stored.token_a \in TokenInfos(Keys, 0) /\ stored.token_b \in TokenInfos(Keys, 1)
    BY DEF SwapInfos
  <2>2. \A i, t : t \in TokenInfos(Keys, i) => t = SwapTokenInfo(t.reserves, t.mint, t.admin_fees, i)
    BY DEF TokenInfos, SwapTokenInfo
  <2> QED
    BY <1>9, <2>1, <2>2
<1>13. stored = [ is_initialized        |-> f[1] = <<1>>,
                  is_paused             |-> f[2] = <<1>>,
                  nonce                 |-> f[3][1],
                  initial_amp_factor    |-> u64_from_le_bytes(f[4]),
                  target_amp_factor     |-> u64_from_le_bytes(f[5]),
                  start_ramp_ts         |-> i64_from_le_bytes(f[6]),
                  stop_ramp_ts          |-> i64_from_le_bytes(f[7]),
                  future_admin_deadline |-> i64_from_le_bytes(f[8]),
                  future_admin_key      |-> f[9][1],
                  admin_key             |-> f[10][1],
                  token_a   |-> SwapTokenInfo(f[11][1], f[14][1], f[16][1], 0),
                  token_b   |-> SwapTokenInfo(f[12][1], f[15][1], f[17][1], 1),
                  pool_mint |-> f[13][1],
                  fees      |-> Fees_unpack_from_slice(f[18]) ]
  <2>1. stored = [ is_initialized        |-> stored.is_initialized,
                   is_paused             |-> stored.is_paused,
                   nonce                 |-> stored.nonce,
                   initial_amp_factor    |-> stored.initial_amp_factor,
                   target_amp_factor     |-> stored.target_amp_factor,
                   start_ramp_ts         |-> stored.start_ramp_ts,
                   stop_ramp_ts          |-> stored.stop_ramp_ts,
                   future_admin_deadline |-> stored.future_admin_deadline,
                   future_admin_key      |-> stored.future_admin_key,
                   admin_key             |-> stored.admin_key,
                   token_a               |-> stored.token_a,
                   token_b               |-> stored.token_b,
                   pool_mint             |-> stored.pool_mint,
                   fees                  |-> stored.fees ]
    BY DEF SwapInfos
  <2> QED
    BY <1>9, <1>10, <1>11, <1>12, <2>1, Zenon
<1>14. SwapInfo_unpack_from_slice(data) = [err |-> Ok, info |-> stored]
  <2>1. {f[1], f[2]} \subseteq {<<0>>, <<1>>}
    BY <1>10
  <2> QED
    BY <1>13, <2>1, Zenon DEF SwapInfo_unpack_from_slice, f, ends
<1> QED
  BY <1>2, <1>14, Zenon DEF SwapInfo_unpack_unchecked, data

=============================================================================
