---------------------------- MODULE CheckedMath ----------------------------
(***************************************************************************)
(* The checked integer arithmetic the program is written in.  Rust's       *)
(* checked_add, checked_sub, checked_mul and checked_div return an Option; *)
(* the `?` after each of them ends the calling function with None.  Here   *)
(* an Option<unsigned> is a natural number or None, and every operator     *)
(* returns None for an operand that is not a number: a nest of them is a   *)
(* chain of `?`.                                                           *)
(*                                                                         *)
(* The widths are parameters: TLC runs them scaled down, keeping the       *)
(* ratios of u64, u128 and U192, so that the overflow checks of the code   *)
(* are met by small numbers.                                               *)
(***************************************************************************)
EXTENDS Integers

CONSTANTS
    U64_MAX,    \* largest u64: token amounts, LP amounts, fee numbers, amps
    U128_MAX,   \* largest u128: intermediate products of two u64s
    U192_MAX    \* largest U192: the curve's intermediate values

ASSUME WidthAssumption ==
    /\ U64_MAX \in Nat \ {0}
    /\ U128_MAX \in Nat
    /\ U192_MAX \in Nat
    /\ U128_MAX = (U64_MAX + 1) * (U64_MAX + 1) - 1
    /\ U192_MAX = (U64_MAX + 1) * (U128_MAX + 1) - 1

None == -1

U64 == 0..U64_MAX

\* to_u64() of a u128 or of a U192.
ToU64(n) == IF n \in U64 THEN n ELSE None

CheckedAdd(a, b, max) ==
    IF a \in Nat /\ b \in Nat /\ a + b <= max THEN a + b ELSE None

CheckedSub(a, b) ==
    IF a \in Nat /\ b \in Nat /\ b <= a THEN a - b ELSE None

\* a * b <= max, asked without forming the product.
CheckedMul(a, b, max) ==
    IF a \in Nat /\ b \in Nat /\ (b = 0 \/ a <= max \div b) THEN a * b ELSE None

CheckedDiv(a, b) ==
    IF a \in Nat /\ b \in Nat /\ b # 0 THEN a \div b ELSE None

=============================================================================
