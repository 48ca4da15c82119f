------------------------------- MODULE Curve -------------------------------
(***************************************************************************)
(* stable-swap-math/src/curve.rs, pool_converter.rs and price.rs: the      *)
(* invariant D of a pool with two reserves, the reserve y that belongs to  *)
(* the other one at a given D, and the amounts that deposits, swaps and    *)
(* withdrawals move.                                                       *)
(*                                                                         *)
(* The amplification coefficient is an argument (amp): every function of   *)
(* the code computes it from the ramp at the time of the call.  A result   *)
(* is None when the code returns None.                                     *)
(*                                                                         *)
(* A definition marked "mutant" is the next one with a mistake in it: the  *)
(* properties are tested against it, and nothing else uses it.             *)
(***************************************************************************)
EXTENDS FeeMath, Amplification

CONSTANT NEWTON_STEPS   \* 256: the iterations after which both loops give up

ASSUME NewtonAssumption == NEWTON_STEPS \in Nat \ {0}

Add64(a, b)  == CheckedAdd(a, b, U64_MAX)
Mul64(a, b)  == CheckedMul(a, b, U64_MAX)
Add192(a, b) == CheckedAdd(a, b, U192_MAX)
Mul192(a, b) == CheckedMul(a, b, U192_MAX)

\* a * b / c in U192, as it occurs all over the curve.
MulDiv192(a, b, c) == CheckedDiv(Mul192(a, b), c)

\* "Equality with the precision of 1".
Converged(next, prev) == next - prev \in -1..1

\* The loop of compute_d and of compute_y_raw: at most NEWTON_STEPS times the
\* function step from start, until two successive values are equal with the
\* precision of 1.
Newton(step, start) ==
    LET iterate[n \in 0..NEWTON_STEPS] ==
            [x \in Nat |->
                LET Continue(next) ==
                        IF next = None \/ Converged(next, x) THEN next
                        ELSE iterate[n - 1][next]
                IN  IF n = 0 THEN x ELSE Continue(step[x])]
    IN  iterate[NEWTON_STEPS][start]

\* mutant: N_COINS in the place of N_COINS + 1.
compute_next_d_coins(amp, d_init, d_prod, sum_x) ==
    LET ann == Mul64(amp, N_COINS)
    IN  CheckedDiv(d_init * (d_prod * N_COINS + sum_x * ann),
                   d_init * (ann - 1) + d_prod * N_COINS)

\* mutant: Ann in the place of Ann - 1.
compute_next_d_ann(amp, d_init, d_prod, sum_x) ==
    LET ann == Mul64(amp, N_COINS)
    IN  CheckedDiv(d_init * (d_prod * N_COINS + sum_x * ann),
                   d_init * ann + d_prod * (N_COINS + 1))

compute_next_d(amp, d_init, d_prod, sum_x) ==
    LET ann       == Mul64(amp, N_COINS)
        leverage  == CheckedMul(sum_x, ann, U128_MAX)
        numerator == Mul192(d_init, Add192(Mul192(d_prod, N_COINS), leverage))
        denominator == Add192(Mul192(d_init, CheckedSub(ann, 1)),
                              Mul192(d_prod, N_COINS + 1))
    IN  CheckedDiv(numerator, denominator)

\* mutant: the products wrap around, as they do without checked_mul.
compute_d_wrapping(amp, amount_a, amount_b) ==
    LET Wrapped(n)  == n % (U64_MAX + 1)
        sum_x       == Wrapped(amount_a + amount_b)
        d_prod(d)   == MulDiv192(MulDiv192(d, d, Wrapped(amount_a * N_COINS)), d,
                                 Wrapped(amount_b * N_COINS))
        next_d      == [d \in Nat |-> compute_next_d(amp, d, d_prod(d), sum_x)]
    IN  IF sum_x = 0 THEN 0 ELSE Newton(next_d, sum_x)

compute_d(amp, amount_a, amount_b) ==
    LET sum_x         == Add64(amount_a, amount_b)
        a_times_coins == Mul64(amount_a, N_COINS)
        b_times_coins == Mul64(amount_b, N_COINS)
        d_prod(d)     == MulDiv192(MulDiv192(d, d, a_times_coins), d, b_times_coins)
        next_d        == [d \in Nat |-> compute_next_d(amp, d, d_prod(d), sum_x)]
    IN  IF sum_x = 0 THEN 0
        ELSE IF sum_x = None \/ a_times_coins = None \/ b_times_coins = None
        THEN None
        ELSE Newton(next_d, sum_x)

\* mutant: the last division by N_COINS is missing in c.
compute_y_coins(amp, x, d) ==
    LET ann == Mul64(amp, N_COINS)
        c   == MulDiv192(MulDiv192(d, d, x * N_COINS), d, ann)
        next_y == [y \in Nat |-> CheckedDiv(y * y + c, CheckedSub(2 * y + d \div ann + x, d))]
    IN  ToU64(Newton(next_y, d))

compute_y(amp, x, d) ==
    LET ann == Mul64(amp, N_COINS)
        c   == MulDiv192(MulDiv192(d, d, Mul64(x, N_COINS)), d, Mul64(ann, N_COINS))
        b   == Add192(CheckedDiv(d, ann), x)
        next_y == [y \in Nat |-> CheckedDiv(Add192(Mul192(y, y), c),
                                            CheckedSub(Add192(Mul192(y, 2), b), d))]
    IN  IF c = None \/ b = None THEN None ELSE ToU64(Newton(next_y, d))

\* mutant: the tokens are valued at what the pool holds afterwards.
compute_mint_amount_for_deposit_whole(amp, deposit, old, supply, fees) ==
    LET d_0 == compute_d(amp, old[1], old[2])
        d_1 == compute_d(amp, old[1] + deposit[1], old[2] + deposit[2])
    IN  ToU64(MulDiv192(supply, d_1, d_0))

\* mutant: the first deposit into a pool without LP tokens gets D of them.
compute_mint_amount_for_deposit_restarts(amp, deposit, old, supply, fees) ==
    LET d_0 == compute_d(amp, old[1], old[2])
        d_1 == compute_d(amp, old[1] + deposit[1], old[2] + deposit[2])
    IN  IF supply = 0 THEN ToU64(d_1)
        ELSE ToU64(MulDiv192(supply, CheckedSub(d_1, d_0), d_0))

\* LP tokens minted for a deposit that takes the reserves from old to new and
\* the invariant from d_0 up to d_1.
MintedForGrowth(amp, old, new, d_0, d_1, supply, fees) ==
    LET ideal == [i \in 1..2 |-> ToU64(MulDiv192(d_1, old[i], d_0))]
        Fee(i) == IF ideal[i] = None THEN None
                  ELSE normalized_trade_fee(fees,
                           IF ideal[i] > new[i] THEN ideal[i] - new[i]
                                                ELSE new[i] - ideal[i])
        charged == [i \in 1..2 |-> CheckedSub(new[i], Fee(i))]
        d_2 == compute_d(amp, charged[1], charged[2])
    IN  IF d_0 = None \/ d_1 = None \/ d_1 <= d_0 THEN None
        ELSE ToU64(MulDiv192(supply, CheckedSub(d_2, d_0), d_0))

\* The same for depositing deposit[1], deposit[2].
compute_mint_amount_for_deposit(amp, deposit, old, supply, fees) ==
    LET new == [i \in 1..2 |-> Add64(old[i], deposit[i])]
    IN  MintedForGrowth(amp, old, new, compute_d(amp, old[1], old[2]),
                        compute_d(amp, new[1], new[2]), supply, fees)

\* mutant: the user gets the fee too.
swap_to_fee_on_top(amp, source_amount, swap_source, swap_destination, fees) ==
    LET y  == compute_y(amp, Add64(swap_source, source_amount),
                        compute_d(amp, swap_source, swap_destination))
        dy == CheckedSub(CheckedSub(swap_destination, y), 1)
    IN  [ ok |-> dy # None, amount_swapped |-> dy,
          admin_fee |-> admin_trade_fee(fees, trade_fee(fees, dy)) ]

\* What dy of the other token comes to for the user, the admin and the pool.
\* ok is FALSE where the code returns None.
Exchanged(dy, source_amount, swap_source, swap_destination, fees) ==
    LET dy_fee         == trade_fee(fees, dy)
        admin_fee      == admin_trade_fee(fees, dy_fee)
        amount_swapped == CheckedSub(dy, dy_fee)
        new_destination ==
            CheckedSub(CheckedSub(swap_destination, amount_swapped), admin_fee)
    IN  [ ok                     |-> new_destination # None,
          new_source_amount      |-> Add64(swap_source, source_amount),
          new_destination_amount |-> new_destination,
          amount_swapped         |-> amount_swapped,
          admin_fee              |-> admin_fee,
          fee                    |-> dy_fee ]

\* mutant: the pool keeps no unit back.
swap_to_keeps_nothing(amp, source_amount, swap_source, swap_destination, fees) ==
    LET y == compute_y(amp, Add64(swap_source, source_amount),
                       compute_d(amp, swap_source, swap_destination))
    IN  Exchanged(CheckedSub(swap_destination, y),
                  source_amount, swap_source, swap_destination, fees)

\* The exchange of source_amount for the other token, of which the pool keeps
\* one unit back.
swap_to(amp, source_amount, swap_source, swap_destination, fees) ==
    LET y == compute_y(amp, Add64(swap_source, source_amount),
                       compute_d(amp, swap_source, swap_destination))
    IN  Exchanged(CheckedSub(CheckedSub(swap_destination, y), 1),
                  source_amount, swap_source, swap_destination, fees)

\* A payout of at most most, and the trade fee that makes the difference.
PaidOut(most, dy) ==
    LET fee == CheckedSub(most, dy)
    IN  [ dy |-> dy, fee |-> fee, ok |-> fee # None ]

\* The amount of the base token that takes the pool from d_0 down to d_1, where
\* without fees new_y of it would be left.
WithdrawOneDown(amp, base, quote, d_0, d_1, new_y, fees) ==
    LET expected_base  == CheckedSub(ToU64(MulDiv192(base, d_1, d_0)), new_y)
        expected_quote == CheckedSub(quote, ToU64(MulDiv192(quote, d_1, d_0)))
        new_base  == CheckedSub(base, normalized_trade_fee(fees, expected_base))
        new_quote == CheckedSub(quote, normalized_trade_fee(fees, expected_quote))
    IN  PaidOut(CheckedSub(base, new_y),
                CheckedSub(CheckedSub(new_base, compute_y(amp, new_quote, d_1)), 1))

\* The same for burning pool_tokens.
compute_withdraw_one(amp, pool_tokens, supply, base, quote, fees) ==
    LET d_0       == compute_d(amp, base, quote)
        Down(d_1) == WithdrawOneDown(amp, base, quote, d_0, d_1,
                                     compute_y(amp, quote, d_1), fees)
    IN  Down(CheckedSub(d_0, MulDiv192(pool_tokens, d_0, supply)))

\* mutant: the user gets the fee too.
token_rate_fee_on_top(pool_tokens, supply, reserve, fees) ==
    LET amount == ToU64(CheckedDiv(pool_tokens * reserve, supply))
        fee    == withdraw_fee(fees, amount)
    IN  [ amount |-> amount, fee |-> fee, admin_fee |-> admin_withdraw_fee(fees, fee),
          ok |-> amount # None ]

\* mutant: the product is not widened to u128.
token_rate_narrow(pool_tokens, supply, reserve, fees) ==
    LET amount == CheckedDiv(Mul64(pool_tokens, reserve), supply)
        fee       == withdraw_fee(fees, amount)
        admin_fee == admin_withdraw_fee(fees, fee)
        payout    == CheckedSub(amount, fee)
    IN  [ amount |-> payout, fee |-> fee, admin_fee |-> admin_fee,
          ok |-> payout # None /\ admin_fee # None ]

\* PoolTokenConverter::token_a_rate and token_b_rate: the share of a reserve
\* that backs pool_tokens, less the withdrawal fee.
token_rate(pool_tokens, supply, reserve, fees) ==
    LET amount == ToU64(CheckedDiv(CheckedMul(pool_tokens, reserve, U128_MAX), supply))
        fee       == withdraw_fee(fees, amount)
        admin_fee == admin_withdraw_fee(fees, fee)
        payout    == CheckedSub(amount, fee)
    IN  [ amount |-> payout, fee |-> fee, admin_fee |-> admin_fee,
          ok |-> payout # None /\ admin_fee # None ]

\* mutant: the quotient is rounded up.
lp_tokens_excluding_fees_up(token_amount, supply, reserve) ==
    ToU64(CheckedDiv(token_amount * supply + reserve - 1, reserve))

\* lp_tokens_for_a_excluding_fees and lp_tokens_for_b_excluding_fees: the LP tokens
\* that token_amount of a reserve corresponds to.
lp_tokens_excluding_fees(token_amount, supply, reserve) ==
    ToU64(CheckedDiv(CheckedMul(token_amount, supply, U128_MAX), reserve))

\* mutant: the price is rounded up.
virtual_price_of_pool_tokens_up(amp, pool_tokens, supply, a, b) ==
    ToU64(CheckedDiv(compute_d(amp, a, b) * pool_tokens + supply - 1, supply))

\* SaberSwap::calculate_virtual_price_of_pool_tokens, and its inverse.
virtual_price_of_pool_tokens(amp, pool_tokens, supply, a, b) ==
    ToU64(MulDiv192(compute_d(amp, a, b), pool_tokens, supply))

pool_tokens_from_virtual_amount(amp, virtual, supply, a, b) ==
    ToU64(MulDiv192(virtual, supply, compute_d(amp, a, b)))

=============================================================================
