----------------------------- MODULE MCFeeMath -----------------------------
(***************************************************************************)
(* Exhaustive comparison of mul_div and mul_div_imbalanced with the        *)
(* quotient of the exact product, for every triple of scaled-down u64s.    *)
(***************************************************************************)
EXTENDS FeeMath

VARIABLE operands   \* the arguments of one call, or << >> between calls

vars == <<operands>>

Init == operands = << >>

Call   == operands = << >> /\ operands' \in U64 \X U64 \X U64
Return == operands # << >> /\ operands' = << >>

Next == Call \/ Return
Spec == Init /\ [][Next]_vars

\* The quotient of the exact product: None only for a zero divisor or when it
\* is no u64.
Reference(a, b, c) == IF c = 0 THEN None ELSE ToU64((a * b) \div c)

\* Both operands are the largest that the narrow branch takes: the product is
\* one more than the largest u64.
AtSplit(a, b, max_a, max_b) == a = max_a /\ b = max_b

\* Away from that corner, both multiply-and-divide helpers (math.rs:13-36)
\* return the floor of the exact quotient, whichever branch they take, and
\* None only when that is no u64: every fee of the program depends on it.
ExactOffTheSplit ==
    operands # << >> =>
        LET a == operands[1]  b == operands[2]  c == operands[3]
        IN  /\ ~ AtSplit(a, b, MAX, MAX) => mul_div(a, b, c) = Reference(a, b, c)
            /\ ~ AtSplit(a, b, MAX_BIG, MAX_SMALL)
                   => mul_div_imbalanced(a, b, c) = Reference(a, b, c)

\* The claim of math.rs:10-11, "Multiplies two u64s then divides by the third
\* number. This function attempts to use 64 bit math if possible", without
\* an exception: the choice of the branch never changes the result.
MulDivIsExact ==
    operands # << >> =>
        mul_div(operands[1], operands[2], operands[3])
            = Reference(operands[1], operands[2], operands[3])

=============================================================================
