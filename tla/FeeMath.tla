------------------------------ MODULE FeeMath ------------------------------
(***************************************************************************)
(* stable-swap-math/src/math.rs: the fee calculator.                       *)
(* (A definition marked "mutant" is the next one with a mistake in it: the *)
(* properties are tested against it, and nothing else uses it.)            *)
(***************************************************************************)
EXTENDS CheckedMath

CONSTANTS
    MAX,        \* 1 << 32: operands up to here are multiplied as u64s
    MAX_BIG,    \* 1 << 48: the same for the larger operand ...
    MAX_SMALL   \* 1 << 16: ... and the smaller one of mul_div_imbalanced

ASSUME SplitAssumption ==
    /\ MAX \in Nat /\ MAX_BIG \in Nat /\ MAX_SMALL \in Nat
    /\ MAX * MAX = U64_MAX + 1
    /\ MAX_BIG * MAX_SMALL = U64_MAX + 1

N_COINS == 2

\* stable_swap_client::fees::Fees.
Fees == [ admin_trade_fee_numerator      : U64,
          admin_trade_fee_denominator    : U64,
          admin_withdraw_fee_numerator   : U64,
          admin_withdraw_fee_denominator : U64,
          trade_fee_numerator            : U64,
          trade_fee_denominator          : U64,
          withdraw_fee_numerator         : U64,
          withdraw_fee_denominator       : U64 ]

\* a * b / c, through u128.
WideMulDiv(a, b, c) == ToU64(CheckedDiv(CheckedMul(a, b, U128_MAX), c))

\* a * b / c, in u64 alone.
NarrowMulDiv(a, b, c) == CheckedDiv(CheckedMul(a, b, U64_MAX), c)

\* mutant: the narrow branch is taken for operands that do not fit it.
mul_div_wide_limit(a, b, c) ==
    IF a > 2 * MAX \/ b > MAX THEN WideMulDiv(a, b, c) ELSE NarrowMulDiv(a, b, c)

mul_div(a, b, c) ==
    IF a > MAX \/ b > MAX THEN WideMulDiv(a, b, c) ELSE NarrowMulDiv(a, b, c)

\* mutant: a fee without a denominator is no fee.
mul_div_imbalanced_free(a, b, c) ==
    IF c = 0 THEN 0
    ELSE IF a > MAX_BIG \/ b > MAX_SMALL THEN WideMulDiv(a, b, c) ELSE NarrowMulDiv(a, b, c)

mul_div_imbalanced(a, b, c) ==
    IF a > MAX_BIG \/ b > MAX_SMALL
    THEN WideMulDiv(a, b, c)
    ELSE NarrowMulDiv(a, b, c)

admin_trade_fee(fees, amount) ==
    mul_div_imbalanced(amount, fees.admin_trade_fee_numerator,
                       fees.admin_trade_fee_denominator)

admin_withdraw_fee(fees, amount) ==
    mul_div_imbalanced(amount, fees.admin_withdraw_fee_numerator,
                       fees.admin_withdraw_fee_denominator)

trade_fee(fees, amount) ==
    mul_div_imbalanced(amount, fees.trade_fee_numerator,
                       fees.trade_fee_denominator)

withdraw_fee(fees, amount) ==
    mul_div_imbalanced(amount, fees.withdraw_fee_numerator,
                       fees.withdraw_fee_denominator)

\* The fee of the imbalance of a deposit or of a one-sided withdrawal:
\* fee * n / (4 * (n - 1)) of the amount.
normalized_trade_fee(fees, amount) ==
    LET adjusted == mul_div(fees.trade_fee_numerator, N_COINS, 4 * (N_COINS - 1))
    IN  mul_div(amount, adjusted, fees.trade_fee_denominator)

=============================================================================
