------------------------------ MODULE MCCurve ------------------------------
(***************************************************************************)
(* Curve compared with exact roots of the StableSwap equation and with     *)
(* Curve's Python model, over all small pools.                             *)
(***************************************************************************)
EXTENDS Curve, FiniteSetsExt

CONSTANTS
    Amps,       \* amplification coefficients tried
    MaxReserve  \* bound on both reserves and on the new reserve x

ASSUME MCCurveAssumption == MaxReserve \in Nat /\ Amps \subseteq Nat \ {0}

\* The constants of the simulation are those of its only fee.
CONSTANTS MODEL_FEE_NUMERATOR, MODEL_FEE_DENOMINATOR

Sim == INSTANCE Simulation

\* curve.rs:425, the schedule of the tests, in which the admin gets nothing.
MODEL_FEES ==
    [ admin_trade_fee_numerator      |-> 0,
      admin_trade_fee_denominator    |-> 1,
      admin_withdraw_fee_numerator   |-> 0,
      admin_withdraw_fee_denominator |-> 1,
      trade_fee_numerator            |-> MODEL_FEE_NUMERATOR,
      trade_fee_denominator          |-> MODEL_FEE_DENOMINATOR,
      withdraw_fee_numerator         |-> 0,
      withdraw_fee_denominator       |-> 1 ]

VARIABLE pool   \* one pool to evaluate, or << >>

vars == <<pool>>

Init == pool = << >>

Evaluate ==
    /\ pool = << >>
    /\ pool' \in [amp : Amps, a : 1..MaxReserve, b : 1..MaxReserve, x : 1..MaxReserve]

Discard == pool # << >> /\ pool' = << >>

Next == Evaluate \/ Discard
Spec == Init /\ [][Next]_vars

\* The equation of curve.rs:180, Ann * S + D = Ann * D + D^3 / (4 a b), has one
\* root D >= 0, between 0 and S; this is its integer part.
RootD(amp, a, b) ==
    LET ann == 2 * amp
    IN  Max({ D \in 0 .. a + b :
                (ann - 1) * D * 4 * a * b + D * D * D <= ann * (a + b) * 4 * a * b })

\* The equation of curve.rs:274, y^2 + b y = c: the integer part of its root,
\* with all terms over the common denominator 4 x Ann.  A root y >= d is at most
\* d^2 / (4 x), since then y^2 + b y >= d y / Ann.
RootY(amp, x, d) ==
    LET ann == 2 * amp
        F(y) == 4 * x * ann * y * y + 4 * x * (ann * (x - d) + d) * y - d * d * d
    IN  Max({ y \in 0 .. d + (d * d) \div (4 * x) : F(y) <= 0 })

\* compute_d (curve.rs:189) never stops below the root, however early the loop
\* ends and whatever its divisions lose: every swap and withdrawal is computed
\* from a D at which the pool holds no more than it should.
DNeverBelowRoot ==
    pool # << >> =>
        LET d == compute_d(pool.amp, pool.a, pool.b)
        IN  d # None => RootD(pool.amp, pool.a, pool.b) <= d

\* Nor more than one above it ("Equality with the precision of 1", curve.rs:211),
\* as long as neither reserve is more than sixteen times the other: in a pool
\* less balanced than that, the loop can settle further above.
DWithinOne ==
    pool # << >> /\ pool.a <= 16 * pool.b /\ pool.b <= 16 * pool.a =>
        compute_d(pool.amp, pool.a, pool.b) <= RootD(pool.amp, pool.a, pool.b) + 1

\* compute_y (curve.rs:279, 315) is within one unit of the exact reserve.
YWithinOne ==
    pool # << >> =>
        LET d == compute_d(pool.amp, pool.a, pool.b)
        IN  compute_y(pool.amp, pool.x, d) - RootY(pool.amp, pool.x, d) \in -1..1

\* The unit that swap_to keeps back (curve.rs:381) makes up for all that compute_y
\* loses in its divisions: user, admin and fee together never take so much that
\* less than the exact reserve is left in the pool.
SwapNeverOverpays ==
    pool # << >> =>
        LET d       == compute_d(pool.amp, pool.a, pool.b)
            swapped == swap_to(pool.amp, pool.x, pool.a, pool.b, MODEL_FEES)
        IN  swapped.ok => swapped.amount_swapped + swapped.fee
                            <= pool.b - RootY(pool.amp, pool.a + pool.x, d)

\* SaberSwap's two conversions (price.rs:82-105, the claim of test_invertible
\* at price.rs:203): taking the virtual price of an amount of LP tokens and
\* turning it back never creates LP tokens, whatever the supply.
PriceRoundTripCreatesNothing ==
    pool # << >> =>
        \A supply \in {1, 5, MaxReserve} :
            LET virtual == virtual_price_of_pool_tokens(pool.amp, pool.x, supply,
                                                        pool.a, pool.b)
            IN  pool_tokens_from_virtual_amount(pool.amp, virtual, supply,
                                                pool.a, pool.b) <= pool.x

\* What the tests of curve.rs ask of random pools (curve.rs:515, :536, :707 and
\* :1000): the checked, bounded and rounded arithmetic of the program agrees with
\* the Python model wherever the model has an answer, on D, on the new reserve, on
\* a swap up to the one unit that swap_to keeps back, and on a one-sided
\* withdrawal.  (A D of 1 does not enter the model's loop.)
AgreesWithSimulation ==
    pool # << >> =>
        LET model == Sim!Model(pool.amp, pool.a, pool.b, pool.a + pool.b)
            d     == compute_d(pool.amp, pool.a, pool.b)
            swapped == swap_to(pool.amp, pool.x, pool.a, pool.b, MODEL_FEES)
            expected == Sim!sim_exchange(model, 0, pool.x)
            supply == pool.a + pool.b
            one   == compute_withdraw_one(pool.amp, pool.x, supply,
                                          pool.a, pool.b, MODEL_FEES)
            sim_one == Sim!sim_calc_withdraw_one_coin(model, pool.x, 0)
        IN  /\ d = Sim!sim_d(model)
            /\ compute_y(pool.amp, pool.x, d) = Sim!sim_y(model, pool.x)
            /\ swapped.ok => expected - swapped.amount_swapped \in 0..1
            /\ one.ok /\ d - (pool.x * d) \div supply # 1
                  => one.dy = sim_one.dy /\ one.fee = sim_one.fee

\* PoolTokenConverter's two directions (pool_converter.rs:21-60), without fees:
\* LP tokens for an amount are never worth more of it, and the amount for some
\* LP tokens is never worth more of them.
ConversionsCreateNothing ==
    pool # << >> =>
        LET free == [MODEL_FEES EXCEPT !.trade_fee_numerator = 0]
            Worth(n) == token_rate(n, pool.b, pool.a, free).amount
            Tokens(n) == lp_tokens_excluding_fees(n, pool.b, pool.a)
        IN  Worth(Tokens(pool.x)) <= pool.x /\ Tokens(Worth(pool.x)) <= pool.x

=============================================================================
