----------------------------- MODULE Simulation -----------------------------
(***************************************************************************)
(* stable-swap-math/sim: Curve's Python model of a pool (simulation.py),   *)
(* which the tests of the math crate take for the truth, and the wrappers  *)
(* of sim/src/lib.rs that they call it through.  Its numbers have no       *)
(* width, its loops no bound, and nothing is checked.                      *)
(*                                                                         *)
(* A model is a record: A, the balances x of tokens 0 and 1, and tokens,   *)
(* the LP supply.  The target prices are all 10 ** 18, so xp is x.         *)
(***************************************************************************)
EXTENDS Integers

CONSTANTS
    MODEL_FEE_NUMERATOR,    \* 10 ** 7
    MODEL_FEE_DENOMINATOR   \* 10 ** 10

n_coins == 2

Model(amp_factor, balance_0, balance_1, pool_tokens) ==
    [ A |-> amp_factor, x |-> [i \in 0..1 |-> IF i = 0 THEN balance_0 ELSE balance_1],
      tokens |-> pool_tokens ]

Abs(n) == IF n < 0 THEN -n ELSE n

\* while abs(x - previous) > 1
Until(step(_), start, first_previous) ==
    LET loop[x \in Int, previous \in Int] ==
            IF Abs(x - previous) <= 1 THEN x ELSE loop[step(x), x]
    IN  loop[start, first_previous]

Ann(m) == m.A * n_coins

sim_d(m) ==
    LET S      == m.x[0] + m.x[1]
        D_P(D) == (((D * D) \div (n_coins * m.x[0])) * D) \div (n_coins * m.x[1])
        next(D, P) == ((Ann(m) * S + P * n_coins) * D)
                      \div ((Ann(m) - 1) * D + (n_coins + 1) * P)
        step(D) == next(D, D_P(D))
    IN  Until(step, S, 0)

\* The loops of y and y_D, for the reserve that goes with x.
Solve(m, x, D) ==
    LET c == (((D * D) \div (x * n_coins)) * D) \div (n_coins * Ann(m))
        b == x + D \div Ann(m)
        step(y) == (y * y + c) \div (2 * y + b - D)
    IN  Until(step, D, 0)

\* Token 1 - i is set to x; the answer is token i.
sim_y(m, x) == Solve(m, x, sim_d(m))

sim_y_d(m, i, D) == Solve(m, m.x[1 - i], D)

sim_dy(m, i, dx) == m.x[1 - i] - sim_y(m, m.x[i] + dx)

Taxed(amount) == amount - (amount * MODEL_FEE_NUMERATOR) \div MODEL_FEE_DENOMINATOR

\* What token 1 - i pays for dx of token i.
sim_exchange(m, i, dx) == Taxed(sim_dy(m, i, dx))

imbalance_fee == (MODEL_FEE_NUMERATOR * n_coins) \div (4 * (n_coins - 1))

\* What token_amount LP tokens get out of token i alone, and the fee.
sim_calc_withdraw_one_coin(m, token_amount, i) ==
    LET D0    == sim_d(m)
        D1    == D0 - (token_amount * D0) \div m.tokens
        new_y == sim_y_d(m, i, D1)
        dx_expected(j) == IF j = i THEN (m.x[j] * D1) \div D0 - new_y
                                   ELSE m.x[j] - (m.x[j] * D1) \div D0
        xp_reduced ==
            [j \in 0..1 |->
                m.x[j] - (imbalance_fee * dx_expected(j)) \div MODEL_FEE_DENOMINATOR]
        dy == xp_reduced[i] - sim_y_d([m EXCEPT !.x = xp_reduced], i, D1) - 1
    IN  [ dy |-> dy, fee |-> m.x[i] - new_y - dy ]

=============================================================================
