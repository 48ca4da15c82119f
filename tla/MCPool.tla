------------------------------- MODULE MCPool -------------------------------
(***************************************************************************)
(* Small pools for TLC: accounts, fee schedules and balances by name.      *)
(***************************************************************************)
EXTENDS Pool, TLC

CONSTANTS
    PoolKey, u1, founder, collector,            \* signers
    lpMint,
    resA, resB,                                 \* reserves
    feeA, feeB,                                 \* fee accounts of the collector
    myA, myB, myLP,                             \* accounts of u1
    founderLP                                   \* where Initialize mints to

MCTokenAccounts == {resA, resB, feeA, feeB, myA, myB, myLP, founderLP}

MCMint == [ a \in MCTokenAccounts |->
              CASE a \in {resA, feeA, myA} -> TokenA
                [] a \in {resB, feeB, myB} -> TokenB
                [] OTHER                   -> lpMint ]

MCOwner == [ a \in MCTokenAccounts |->
               CASE a \in {resA, resB}     -> PoolKey
                 [] a \in {feeA, feeB}     -> collector
                 [] a = founderLP          -> founder
                 [] OTHER                  -> u1 ]

MCReserves == TokenA :> resA @@ TokenB :> resB

\* The balances a pool starts from: reserves a and b, u1 with ua and ub.
Balances(a, b, ua, ub) ==
    [ t \in MCTokenAccounts |->
        CASE t = resA -> a [] t = resB -> b [] t = myA -> ua [] t = myB -> ub
          [] OTHER -> 0 ]

FeesOf(admin_trade, admin_withdraw, trade, withdraw) ==
    [ admin_trade_fee_numerator      |-> admin_trade[1],
      admin_trade_fee_denominator    |-> admin_trade[2],
      admin_withdraw_fee_numerator   |-> admin_withdraw[1],
      admin_withdraw_fee_denominator |-> admin_withdraw[2],
      trade_fee_numerator            |-> trade[1],
      trade_fee_denominator          |-> trade[2],
      withdraw_fee_numerator         |-> withdraw[1],
      withdraw_fee_denominator       |-> withdraw[2] ]

NoFees   == FeesOf(<<0, 1>>, <<0, 1>>, <<0, 1>>, <<0, 1>>)
\* Half of a trade, a quarter of a withdrawal; half of each fee for the admin.
HighFees == FeesOf(<<1, 2>>, <<1, 2>>, <<2, 4>>, <<1, 4>>)

\* The trade fee, the admin's part of it and the withdrawal fee without a
\* denominator, and fees of more than the whole amount.
NoTradeFee    == FeesOf(<<1, 2>>, <<1, 2>>, <<0, 0>>, <<1, 4>>)
NoAdminFee    == FeesOf(<<0, 0>>, <<1, 2>>, <<1, 4>>, <<1, 4>>)
NoWithdrawFee == FeesOf(<<1, 2>>, <<1, 2>>, <<1, 4>>, <<0, 0>>)
ExcessiveFees == FeesOf(<<1, 2>>, <<1, 2>>, <<3, 2>>, <<5, 4>>)

FeesAtTheLimits == {HighFees, NoTradeFee, NoAdminFee, NoWithdrawFee, ExcessiveFees}

FeesCharged == {HighFees}
FreeOfFees  == {NoFees}

\* Balanced and unbalanced pools, and what u1 brings.
PoolAmounts   == {Balances(5, 4, 6, 5)}
RampAmounts   == {Balances(3, 5, 4, 4)}
LimitAmounts  == {Balances(5, 4, 4, 3)}
TraderAmounts == {Balances(5, 5, 8, 6)}

---------------------------------------------------------------------------
\* fuzz/targets/swaps_only.rs:111-118: in a pool without fees and with equal
\* reserves, no sequence of swaps leaves the trader with more tokens in total
\* than he started with.
SwapsNeverProfit ==
    \A start \in InitialAmounts :
        ledger.amount[myA] + ledger.amount[myB] <= start[myA] + start[myB]

\* stable-swap-client/src/instruction.rs:388-389, of Deposit: "Inputs are
\* converted to the current ratio."  A deposit leaves the ratio of the reserves
\* as it is, up to one token of rounding.
DepositKeepsRatio ==
    [][is_initialized /\ Supply' > Supply =>
           \A m \in Mints :
               Reserve(m)' * Reserve(Other(m)) <= (Reserve(Other(m))' + 1) * Reserve(m)]_poolVars

=============================================================================
