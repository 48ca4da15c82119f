-------------------------------- MODULE Pool --------------------------------
(***************************************************************************)
(* One StableSwap pool: the user instructions of processor/swap.rs on the  *)
(* token ledger, the admin instructions of Admin, the clock, and what      *)
(* others may do to the token accounts without the program.                *)
(*                                                                         *)
(* A handler is an operator that returns the ledger its calls leave        *)
(* behind, with ok FALSE where the handler returns an error.  The runtime  *)
(* discards the effects of a failed instruction: an action takes place     *)
(* only when the handler succeeds.                                         *)
(*                                                                         *)
(* A definition marked "mutant" is the next one with a mistake in it: the  *)
(* properties are tested against it, and nothing else uses it.             *)
(***************************************************************************)
EXTENDS Curve, Admin, TokenLedger

CONSTANTS
    Users,          \* owners of token accounts who send user instructions
    reserves,       \* token_a.reserves and token_b.reserves
    \* Inputs of the instructions
    Destinations,   \* accounts named to receive tokens
    Amounts,        \* token and LP amounts
    Minimums,       \* slippage limits
    Donations,      \* amounts that somebody gives up without the program
    Closable,       \* accounts that their owner may close and open again
    InitialAmounts  \* balances before Initialize

ASSUME PoolAssumption ==
    /\ PoolMint \notin Mints
    /\ reserves \in [Mints -> TokenAccounts]
    /\ reserves[TokenA] # reserves[TokenB]
    /\ Authority \notin Users
    /\ Closable \subseteq TokenAccounts \ {reserves[TokenA], reserves[TokenB]}
    /\ Amounts \subseteq U64 /\ Minimums \subseteq U64 /\ Donations \subseteq U64
    /\ InitialAmounts \subseteq [TokenAccounts -> U64]
    /\ Destinations \subseteq TokenAccounts
    /\ FeeChoices \subseteq Fees

poolVars == <<adminVars, ledger>>

Other(m) == IF m = TokenA THEN TokenB ELSE TokenA

Reserve(m) == ledger.amount[reserves[m]]

AccountsOf(user, m) == { a \in TokenAccounts : owner[a] = user /\ mint[a] = m }

\* One account for each token.
PairOf(S(_)) ==
    { [m \in Mints |-> IF m = TokenA THEN a ELSE b] : a \in S(TokenA), b \in S(TokenB) }

IsReserve(account) == \E m \in Mints : account = reserves[m]

\* mutant: the pause is not looked at.
Tradable_when_paused == is_initialized

\* Every user instruction but Withdraw is refused while the pool is paused.
Tradable == is_initialized /\ ~is_paused

---------------------------------------------------------------------------
(* The handlers *)

\* From the source amount to the ledger after the three transfers.
process_swap(user, from, source, destination, amount_in, minimum_amount_out) ==
    LET to     == Other(from)
        result == swap_to(amp_factor, amount_in, Reserve(from), Reserve(to), fees)
        l1 == transfer_as_user(ledger, user, source, reserves[from], amount_in)
        l2 == transfer_as_swap(l1, reserves[to], destination, result.amount_swapped)
        l3 == transfer_as_swap(l2, reserves[to], admin_fees[to], result.admin_fee)
    IN  IF \/ ~Tradable
           \/ IsReserve(source)
           \/ ~result.ok
           \/ result.amount_swapped < minimum_amount_out
        THEN Failed(ledger)
        ELSE l3

process_deposit(user, sources, destination, amounts, min_mint_amount) ==
    LET deposit == <<amounts[TokenA], amounts[TokenB]>>
        old     == <<Reserve(TokenA), Reserve(TokenB)>>
        mint_amount ==
            compute_mint_amount_for_deposit(amp_factor, deposit, old, ledger.supply, fees)
        l1 == transfer_as_user(ledger, user, sources[TokenA], reserves[TokenA], deposit[1])
        l2 == transfer_as_user(l1, user, sources[TokenB], reserves[TokenB], deposit[2])
        l3 == mint_to(l2, destination, mint_amount)
    IN  IF \/ ~Tradable
           \/ \E m \in Mints : sources[m] = reserves[m]
           \/ mint_amount = None
           \/ mint_amount < min_mint_amount
        THEN Failed(ledger)
        ELSE l3

\* mutant: a fee of zero is not transferred.
handle_token_withdraw_skips_zero(l, m, rate, destination) ==
    LET paid == transfer_as_swap(l, reserves[m], destination, rate.amount)
    IN  IF rate.admin_fee = 0 THEN paid
        ELSE transfer_as_swap(paid, reserves[m], admin_fees[m], rate.admin_fee)

\* Pays one token out: rate.amount to the user, the admin's part of the fee to
\* the fee account.
handle_token_withdraw(l, m, rate, destination) ==
    transfer_as_swap(
        transfer_as_swap(l, reserves[m], destination, rate.amount),
        reserves[m], admin_fees[m], rate.admin_fee)

\* mutant: Withdraw is refused like the other instructions.
process_withdraw_when_tradable(user, source, destinations, pool_token_amount, minimums) ==
    LET Share(m) == token_rate(pool_token_amount, ledger.supply, Reserve(m), fees)
        l1 == handle_token_withdraw(ledger, TokenA, Share(TokenA), destinations[TokenA])
        l2 == handle_token_withdraw(l1, TokenB, Share(TokenB), destinations[TokenB])
    IN  IF Tradable THEN burn(l2, user, source, pool_token_amount) ELSE Failed(ledger)

\* mutant: the LP tokens are not burned.
process_withdraw_unburned(user, source, destinations, pool_token_amount, minimums) ==
    LET Share(m) == token_rate(pool_token_amount, ledger.supply, Reserve(m), fees)
        l1 == handle_token_withdraw(ledger, TokenA, Share(TokenA), destinations[TokenA])
        l2 == handle_token_withdraw(l1, TokenB, Share(TokenB), destinations[TokenB])
    IN  IF ~is_initialized \/ ledger.supply = 0 THEN Failed(ledger) ELSE l2

process_withdraw(user, source, destinations, pool_token_amount, minimums) ==
    LET rate == [m \in Mints |->
                    token_rate(pool_token_amount, ledger.supply, Reserve(m), fees)]
        l1 == handle_token_withdraw(ledger, TokenA, rate[TokenA], destinations[TokenA])
        l2 == handle_token_withdraw(l1, TokenB, rate[TokenB], destinations[TokenB])
        l3 == burn(l2, user, source, pool_token_amount)
    IN  IF \/ ~is_initialized
           \/ ledger.supply = 0
           \/ \E m \in Mints : ~rate[m].ok \/ rate[m].amount < minimums[m]
        THEN Failed(ledger)
        ELSE l3

\* What is left of a one-sided withdrawal after its fee, and the admin's part
\* of that fee and of the trade fee in result.
WithdrawOneRate(result) ==
    LET fee       == withdraw_fee(fees, result.dy)
        admin_fee == Add64(admin_trade_fee(fees, result.fee),
                           admin_withdraw_fee(fees, fee))
        payout    == CheckedSub(result.dy, fee)
    IN  [ amount |-> payout, fee |-> fee, admin_fee |-> admin_fee,
          ok |-> result.ok /\ payout # None /\ admin_fee # None ]

process_withdraw_one(user, base, source, destination, pool_token_amount, minimum) ==
    LET rate == WithdrawOneRate(
                    compute_withdraw_one(amp_factor, pool_token_amount, ledger.supply,
                                         Reserve(base), Reserve(Other(base)), fees))
        l1 == handle_token_withdraw(ledger, base, rate, destination)
        l2 == burn(l1, user, source, pool_token_amount)
    IN  IF ~Tradable \/ ~rate.ok \/ rate.amount < minimum
        THEN Failed(ledger)
        ELSE l2

\* process_initialize accepts two funded reserves of different mints under the
\* pool's authority and an LP mint without supply, and mints D LP tokens.
process_initialize(amp, destination) ==
    LET mint_amount == ToU64(compute_d(amp, Reserve(TokenA), Reserve(TokenB)))
    IN  IF \/ \E m \in Mints : \/ owner[reserves[m]] # Authority
                               \/ mint[reserves[m]] # m
                               \/ Reserve(m) = 0
           \/ owner[destination] = Authority
           \/ ledger.supply # 0
           \/ mint_amount = None
        THEN Failed(ledger)
        ELSE mint_to(ledger, destination, mint_amount)

---------------------------------------------------------------------------
(* The actions.  An instruction with a zero amount is a noop and needs no step. *)

Commit(new_ledger) == new_ledger.ok /\ ledger' = new_ledger

Init ==
    /\ AdminInit
    /\ \E amounts \in InitialAmounts :
           ledger = [amount |-> amounts, supply |-> 0, open |-> TokenAccounts, ok |-> TRUE]

Initialize(amp, key, new_fees, accounts, destination) ==
    /\ InitializeSwapInfo(amp, key, new_fees, accounts)
    /\ Commit(process_initialize(amp, destination))

Swap(user, from, source, destination, amount_in, minimum_amount_out) ==
    /\ amount_in # 0
    /\ Commit(process_swap(user, from, source, destination, amount_in, minimum_amount_out))
    /\ UNCHANGED adminVars

Deposit(user, sources, destination, amounts, min_mint_amount) ==
    /\ \E m \in Mints : amounts[m] # 0
    /\ Commit(process_deposit(user, sources, destination, amounts, min_mint_amount))
    /\ UNCHANGED adminVars

Withdraw(user, source, destinations, pool_token_amount, minimums) ==
    /\ pool_token_amount # 0
    /\ Commit(process_withdraw(user, source, destinations, pool_token_amount, minimums))
    /\ UNCHANGED adminVars

WithdrawOne(user, base, source, destination, pool_token_amount, minimum) ==
    /\ pool_token_amount # 0
    /\ Commit(process_withdraw_one(user, base, source, destination,
                                   pool_token_amount, minimum))
    /\ UNCHANGED adminVars

\* An admin instruction; the account that SetFeeAccount unpacks must exist.
Administer ==
    /\ AdminInstruction
    /\ \A m \in Mints : admin_fees'[m] # admin_fees[m] => admin_fees'[m] \in ledger.open
    /\ UNCHANGED ledger

\* Anyone can send tokens to a reserve without the program.
Donate(user, source, m, amount) ==
    /\ Commit(transfer_as_user(ledger, user, source, reserves[m], amount))
    /\ UNCHANGED adminVars

\* A holder can burn LP tokens of his without the program, and gets nothing for
\* them.
Forfeit(user, source, amount) ==
    /\ Commit(burn(ledger, user, source, amount))
    /\ UNCHANGED adminVars

\* The owner of an empty account can close it, and create it again.
CloseAccount(account) ==
    /\ account \in ledger.open
    /\ ledger.amount[account] = 0
    /\ ledger' = [ledger EXCEPT !.open = @ \ {account}]
    /\ UNCHANGED adminVars

OpenAccount(account) ==
    /\ account \notin ledger.open
    /\ ledger' = [ledger EXCEPT !.open = @ \cup {account}]
    /\ UNCHANGED adminVars

---------------------------------------------------------------------------
DestinationsOf(m) == { a \in Destinations : mint[a] = m }

FeeAccountsOf(m) == { a \in FeeAccounts : mint[a] = m }

UserInstruction(user) ==
    LET Mine(m) == AccountsOf(user, m) IN
    \/ \E from \in Mints, n \in Amounts, min \in Minimums :
       \E source \in Mine(from), to \in DestinationsOf(Other(from)) :
           Swap(user, from, source, to, n, min)
    \/ \E sources \in PairOf(Mine), to \in DestinationsOf(PoolMint),
          ns \in [Mints -> Amounts \cup {0}], min \in Minimums :
           Deposit(user, sources, to, ns, min)
    \/ \E source \in Mine(PoolMint), tos \in PairOf(DestinationsOf), n \in Amounts,
          min \in Minimums :
           Withdraw(user, source, tos, n, [m \in Mints |-> min])
    \/ \E base \in Mints, source \in Mine(PoolMint), n \in Amounts, min \in Minimums :
       \E to \in DestinationsOf(base) :
           WithdrawOne(user, base, source, to, n, min)

Environment ==
    \/ Tick /\ UNCHANGED ledger
    \/ \E m \in Mints, n \in Donations, user \in Users :
       \E source \in AccountsOf(user, m) : Donate(user, source, m, n)
    \/ \E n \in Donations, user \in Users :
       \E source \in AccountsOf(user, PoolMint) : Forfeit(user, source, n)
    \/ \E account \in Closable : CloseAccount(account) \/ OpenAccount(account)

Next ==
    \/ \E amp \in TargetAmps, key \in Keys, f \in FeeChoices,
          accounts \in PairOf(FeeAccountsOf), to \in DestinationsOf(PoolMint) :
            Initialize(amp, key, f, accounts, to)
    \/ \E user \in Users : UserInstruction(user)
    \/ Administer
    \/ Environment

Spec == Init /\ [][Next]_poolVars

---------------------------------------------------------------------------
(* Properties *)

Supply == ledger.supply

\* The pool seen by those who hold its LP tokens.
V == INSTANCE Vault WITH
        phase    <- IF ~is_initialized THEN "unborn"
                    ELSE IF is_paused THEN "paused" ELSE "open",
        shares   <- Supply,
        holdings <- [m \in Mints |-> Reserve(m)]

\* Every step of the pool, by whomever, is one that Vault allows (under admin
\* fees below 100% of their fee): see the promises there.
ImplementsVault == V!Spec

\* What the value of the pool's LP tokens depends on, and that value in units
\* of the curve.
Backing == [ amp |-> amp_factor, a |-> Reserve(TokenA), b |-> Reserve(TokenB),
             supply |-> Supply ]

D(backing) == compute_d(backing.amp, backing.a, backing.b)

\* No sequence of swaps, withdrawals and fee payments empties one of the
\* reserves while LP tokens are outstanding (under fees below 100%, see
\* FeeChoices: the program does not check them): the curve stays computable
\* (compute_d divides by both reserves, curve.rs:189) and nobody's LP tokens
\* lose their backing in one of the tokens.
ReservesStayLive ==
    is_initialized /\ Supply > 0 => \A m \in Mints : Reserve(m) > 0

\* A fee is at most the whole amount.
Fraction(numerator, denominator) == denominator > 0 /\ numerator <= denominator

WithdrawFeesAreFractions ==
    /\ Fraction(fees.withdraw_fee_numerator, fees.withdraw_fee_denominator)
    /\ Fraction(fees.admin_withdraw_fee_numerator, fees.admin_withdraw_fee_denominator)

\* Withdraw is the way out that always works: paused or not, in the middle of
\* a ramp or not, and whatever happened to the pool before, every holder can
\* redeem any part of his LP tokens (swap.rs:591, which does not ask for
\* is_paused), as long as the accounts that take the fees exist and the fees
\* are fractions.
ExitAlwaysPossible ==
    /\ is_initialized
    /\ \A m \in Mints : admin_fees[m] \in ledger.open
    /\ WithdrawFeesAreFractions
    => \A user \in Users :
           LET Mine(m) == AccountsOf(user, m) \cap ledger.open
           IN  \A source \in Mine(PoolMint), tos \in PairOf(Mine) :
               \A n \in 1 .. ledger.amount[source] :
                   process_withdraw(user, source, tos, n, [m \in Mints |-> 0]).ok

\* The account that takes the fees of a token belongs to somebody else, who can
\* close it at any time.  Then nothing is paid out of that reserve anymore, not
\* even where the fee is zero: the transfer of the fee comes after the payout
\* (swap.rs:400 and :552), fails, and undoes it.  No sequence of instructions
\* gets around the fees, and the tokens are there when SetFeeAccount names an
\* open account.
ClosedFeeAccountStopsPayouts ==
    [][is_initialized =>
          \A m \in Mints :
              admin_fees[m] \notin ledger.open => Reserve(m)' >= Reserve(m)]_poolVars

\* The curve is computed with N_COINS times each reserve, in a u64.
OnTheCurve(backing) == N_COINS * backing.a <= U64_MAX /\ N_COINS * backing.b <= U64_MAX

\* No instruction takes value out of the LP tokens of those who did not send
\* it: D per LP token does not fall at any moment, up to one unit of D, which
\* is the precision of the Newton iterations.  Only the passing of time, which
\* moves the amplification coefficient, may change it.  (D exists as long as
\* the reserves fit the curve.)
ShareValueKept ==
    [][is_initialized /\ now' = now /\ Supply' > 0 =>
           \A old \in {Backing}, new \in {Backing'} :
               OnTheCurve(old) /\ OnTheCurve(new) =>
               /\ D(new) # None
               /\ (D(new) + 1) * old.supply >= D(old) * new.supply]_poolVars

\* While the pool is paused, what every LP token stands for does not decrease
\* in either of the two tokens (swap.rs:310, :443 and :709; the withdrawals
\* that go on are proportional and round down), as long as the fees are
\* fractions.
PausedKeepsBothReserves ==
    [][is_initialized /\ is_paused /\ WithdrawFeesAreFractions =>
            \A m \in Mints : Reserve(m)' * Supply >= Reserve(m) * Supply']_poolVars

\* No LP token loses backing in either of the two tokens.
SharesKeepBacking == \A m \in Mints : Reserve(m)' * Supply >= Reserve(m) * Supply'

\* Anyone can push a reserve over half of the largest u64 with a donation.  The
\* curve then overflows (curve.rs:190-196) and must do so in every instruction
\* that uses it, in particular never wrap around: all that still goes through
\* are the proportional withdrawals.
OverflowKeepsBothReserves ==
    [][is_initialized /\ ~OnTheCurve(Backing) /\ WithdrawFeesAreFractions =>
            SharesKeepBacking]_poolVars

TradeFeeUndefined ==
    0 \in {fees.trade_fee_denominator, fees.admin_trade_fee_denominator}

WithdrawFeeUndefined ==
    0 \in {fees.withdraw_fee_denominator, fees.admin_withdraw_fee_denominator}

\* SetNewFees (admin.rs:256) and Initialize store whatever they are given, with
\* zero denominators too.  Such a fee is never taken for zero: the instructions
\* that charge it fail.  Without a trade fee nothing is swapped or withdrawn in
\* one token, and LP tokens are only minted if the trade fee itself exists;
\* without a withdrawal fee no LP token is redeemed: where any disappear, their
\* holder has burned them for nothing.
UndefinedFeesRefuse ==
    [][is_initialized =>
          /\ TradeFeeUndefined /\ WithdrawFeesAreFractions /\ Supply' <= Supply =>
                SharesKeepBacking
          /\ fees.trade_fee_denominator = 0 => Supply' <= Supply
          /\ WithdrawFeeUndefined /\ Supply' < Supply =>
                \A m \in Mints : Reserve(m)' >= Reserve(m)]_poolVars

\* A pool whose last LP token has been burned never issues another one, also
\* when tokens are left or sent to it: whoever deposits gets nothing for it.
\* Initialize (swap.rs:124) and the supply in compute_mint_amount_for_deposit
\* (curve.rs:263) both rule it out.
DeadPoolStaysDead ==
    [][is_initialized /\ Supply = 0 => Supply' = 0]_poolVars

=============================================================================
