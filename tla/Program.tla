------------------------------ MODULE Program ------------------------------
(***************************************************************************)
(* The program as the runtime calls it: processor/mod.rs, admin.rs,        *)
(* swap.rs, checks.rs and utils.rs on the accounts an instruction names,   *)
(* the bytes it carries and the bytes stored in the SwapInfo account.      *)
(*                                                                         *)
(* Pool models what the instructions do once everything is in order; this  *)
(* module models everything that may be out of order: accounts of the      *)
(* wrong kind or in the wrong place, missing accounts and signatures,      *)
(* data that does not decode, and which error is returned for it.          *)
(*                                                                         *)
(* A handler asks for a list of checks, and fails with the first error in  *)
(* it.                                                                     *)
(* A definition marked "mutant" is the next one with a mistake in it: the  *)
(* properties are tested against it, and nothing else uses it.             *)
(***************************************************************************)
EXTENDS Encoding, Curve, TokenLedger

CONSTANTS
    TokenA, TokenB,         \* the two mints a pool can be made of
    OtherMints,             \* mints besides those two and PoolMint
    SwapKey,                \* the address of the SwapInfo account
    PoolNonce,              \* the nonce that makes Authority of SwapKey
    TokenProgram,           \* spl_token::id()
    DefaultKey,             \* Pubkey::default()
    ADMIN_TRANSFER_DELAY, I64_MAX,
    \* What does not change about token accounts and mints
    Delegated,              \* token accounts with a delegate,
    WithCloseAuthority,     \* ... with a close authority
    mint_authority,         \* of every mint
    Freezable,              \* mints with a freeze authority
    decimals,               \* of every mint
    \* Inputs and bound
    Requests,               \* instructions sent to the program
    InitialAmounts,         \* balances before Initialize
    MaxNow                  \* the last second of the model

MintAccounts == {TokenA, TokenB, PoolMint} \cup OtherMints

ASSUME ProgramAssumption ==
    /\ I64_MAX = U64_MAX \div 2
    /\ MaxNow \in 0..I64_MAX
    /\ DOMAIN mint_authority = MintAccounts
    /\ DOMAIN decimals = MintAccounts
    /\ Authority # DefaultKey

VARIABLES
    now,        \* Clock::unix_timestamp
    swap_data   \* the data of the SwapInfo account

programVars == <<now, swap_data, ledger>>

---------------------------------------------------------------------------
(* The accounts *)

\* The data of accounts other than the pool's has another length.
data_of(key) == IF key = SwapKey THEN swap_data ELSE << >>

balance_in(l, key) == IF key \in TokenAccounts THEN l.amount[key] ELSE 0
owner_of(key) == IF key \in TokenAccounts THEN owner[key] ELSE DefaultKey
mint_of(key)  == IF key \in TokenAccounts THEN mint[key] ELSE DefaultKey

amount_of(key) == balance_in(ledger, key)
supply_of(key) == IF key = PoolMint THEN ledger.supply ELSE 0

\* utils.rs: a program address is made of the pool's address and a nonce.
authority_id(my_info, nonce) ==
    IF my_info = SwapKey /\ nonce = PoolNonce THEN Authority ELSE <<my_info, nonce>>

\* The result of a check: its error, unless what it asks for holds.
Check(holds, error) == IF holds THEN Ok ELSE error

unpack_token_account(key) == Check(key \in ledger.open, "ExpectedAccount")
unpack_mint(key)          == Check(key \in MintAccounts, "ExpectedMint")

\* The accounts of an instruction by the names of the handler's variables.
next_account_infos(infos, names) ==
    [ name \in ToSet(names) |-> infos[CHOOSE i \in DOMAIN names : names[i] = name].key ]

---------------------------------------------------------------------------
(* Results *)

FirstError(checks) ==
    LET i == SelectInSeq(checks, LAMBDA check : check # Ok)
    IN  IF i = 0 THEN Ok ELSE checks[i]

Then(error, next) == IF error # Ok THEN error ELSE next

Outcome(error, data, l) == [err |-> error, data |-> data, ledger |-> l]

\* The runtime discards what a failed instruction has done.
Fails(error) == Outcome(error, swap_data, ledger)

NothingToDo == Outcome(Ok, swap_data, ledger)

Unless(error, outcome) == IF error # Ok THEN Fails(error) ELSE outcome

---------------------------------------------------------------------------
(* checks.rs *)

check_reserves_match(token, reserves_key) ==
    Check(reserves_key = token.reserves, "IncorrectSwapAccount")

\* mutant: anyone who signs is the admin.
check_has_admin_signer_any(expected_admin_key, admin_info) ==
    << Check(admin_info.is_signer, "MissingRequiredSignature") >>

check_has_admin_signer(expected_admin_key, admin_info) ==
    << Check(admin_info.key = expected_admin_key, "Unauthorized"),
       Check(admin_info.is_signer, "MissingRequiredSignature") >>

check_deposit_token_accounts(token, source_key, reserves_key) ==
    << Check(source_key # token.reserves, "InvalidInput"),
       check_reserves_match(token, reserves_key) >>

check_can_withdraw_token(rate, minimum_token_amount) ==
    << Check(rate.ok, "CalculationFailure"),
       Check(rate.amount >= minimum_token_amount, "ExceededSlippage") >>

\* mutant: any account may take the admin's fee.
check_withdraw_token_accounts_any_fee(token, reserves_key, admin_fee_dest_key) ==
    << check_reserves_match(token, reserves_key) >>

check_withdraw_token_accounts(token, reserves_key, admin_fee_dest_key) ==
    << check_reserves_match(token, reserves_key),
       Check(admin_fee_dest_key = token.admin_fees, "InvalidAdmin") >>

check_swap_authority(token_swap, k) ==
    Check(k.swap_authority = authority_id(k.swap, token_swap.nonce), "InvalidProgramAddress")

check_swap_token_destination_accounts(token, destination_key, admin_destination_key) ==
    << check_reserves_match(token, destination_key),
       Check(admin_destination_key = token.admin_fees, "InvalidAdmin") >>

---------------------------------------------------------------------------
(* Calls of the token program.  c says who calls: the accounts of the      *)
(* instruction, the program called, the owner or authority named, and      *)
(* whether its signature is there.                                         *)

AsUser(infos, k) ==
    [ infos |-> infos, token_program |-> k.token_program, authority |-> k.user_authority,
      signed |-> \E i \in DOMAIN infos : infos[i].key = k.user_authority /\ infos[i].is_signer ]

AsSwap(infos, k, nonce) ==
    [ infos |-> infos, token_program |-> k.token_program, authority |-> k.swap_authority,
      signed |-> k.swap_authority = authority_id(k.swap, nonce) ]

\* What spl_token::instruction and the runtime ask of every call.
Privileges(c, keys) ==
    << Check(c.token_program = TokenProgram, "IncorrectProgramId"),
       Check(/\ c.signed
             /\ \A key \in keys : \E i \in DOMAIN c.infos :
                    c.infos[i].key = key /\ c.infos[i].is_writable,
             "PrivilegeEscalation") >>

\* One call more, made with the result of the calls before it.
Called(r, checks, new_ledger) ==
    IF r.err # Ok THEN r
    ELSE Unless(FirstError(checks), [r EXCEPT !.ledger = new_ledger])

spl_transfer(r, c, source, destination, amount) ==
    LET l == r.ledger
    IN  Called(r,
            Privileges(c, {source, destination}) \o
            << Check({source, destination} \subseteq l.open, "InvalidAccountData"),
               Check(amount <= balance_in(l, source), "InsufficientFunds"),
               Check(mint_of(source) = mint_of(destination), "MintMismatch"),
               Check(owner_of(source) = c.authority, "OwnerMismatch"),
               Check(source = destination \/ balance_in(l, destination) + amount \in U64,
                     "Overflow") >>,
            Transfer(l, c.authority, source, destination, amount))

spl_mint_to(r, c, mint_key, destination, amount) ==
    LET l == r.ledger
    IN  Called(r,
            Privileges(c, {mint_key, destination}) \o
            << Check(destination \in l.open, "InvalidAccountData"),
               Check(mint_of(destination) = mint_key, "MintMismatch"),
               Check(mint_key \in MintAccounts, "InvalidAccountData"),
               Check(mint_key \in MintAccounts => mint_authority[mint_key] = c.authority,
                     "OwnerMismatch"),
               Check({l.supply + amount, balance_in(l, destination) + amount} \subseteq U64,
                     "Overflow") >>,
            mint_to(l, destination, amount))

spl_burn(r, c, account, mint_key, amount) ==
    LET l == r.ledger
    IN  Called(r,
            Privileges(c, {account, mint_key}) \o
            << Check(account \in l.open /\ mint_key \in MintAccounts, "InvalidAccountData"),
               Check(amount <= balance_in(l, account), "InsufficientFunds"),
               Check(mint_of(account) = mint_key, "MintMismatch"),
               Check(owner_of(account) = c.authority, "OwnerMismatch"),
               Check(amount <= l.supply, "Overflow") >>,
            burn(l, c.authority, account, amount))

---------------------------------------------------------------------------
(* admin.rs.  A handler takes the SwapInfo and returns it changed, with an *)
(* error or Ok.                                                            *)

Changed(error, token_swap) == [err |-> error, info |-> token_swap]

current_amp(token_swap) ==
    compute_amp_factor(token_swap.initial_amp_factor, token_swap.target_amp_factor, now,
                       token_swap.start_ramp_ts, token_swap.stop_ramp_ts)

ramped(token_swap, from_amp, to_amp, stop_ts) ==
    [ token_swap EXCEPT !.initial_amp_factor = from_amp, !.target_amp_factor = to_amp,
                        !.start_ramp_ts = now, !.stop_ramp_ts = stop_ts ]

RampA(token_swap, target_amp, stop_ts) ==
    LET amp    == current_amp(token_swap)
        lower  == IF target_amp < amp THEN target_amp ELSE amp
        higher == IF target_amp < amp THEN amp ELSE target_amp
        limit  == Mul64(lower, 10)
    IN  Changed(FirstError(<<
            Check(target_amp \in MIN_AMP..MAX_AMP, "InvalidInput"),
            Check(token_swap.start_ramp_ts + MIN_RAMP_DURATION <= I64_MAX,
                  "CalculationFailure"),
            Check(now >= token_swap.start_ramp_ts + MIN_RAMP_DURATION, "RampLocked"),
            Check(now + MIN_RAMP_DURATION <= I64_MAX, "CalculationFailure"),
            Check(stop_ts >= now + MIN_RAMP_DURATION, "InsufficientRampTime"),
            Check(amp # None /\ limit # None, "CalculationFailure"),
            Check(higher <= limit, "InvalidInput") >>),
            ramped(token_swap, amp, target_amp, stop_ts))

StopRampA(token_swap) ==
    LET amp == current_amp(token_swap)
    IN  Changed(IF amp = None THEN "CalculationFailure" ELSE Ok,
                ramped(token_swap, amp, amp, now))

Pause(token_swap)   == Changed(Ok, [token_swap EXCEPT !.is_paused = TRUE])
Unpause(token_swap) == Changed(Ok, [token_swap EXCEPT !.is_paused = FALSE])

\* mutant: it is always token B's.
SetFeeAccount_of_b(token_swap, key) ==
    Changed(FirstError(<<
        unpack_token_account(key),
        Check(mint_of(key) \in {token_swap.token_a.mint, token_swap.token_b.mint},
              "InvalidAdmin") >>),
        [token_swap EXCEPT !.token_b.admin_fees = key])

SetFeeAccount(token_swap, key) ==
    LET of_mint == mint_of(key)
    IN  Changed(FirstError(<<
            unpack_token_account(key),
            Check(of_mint \in {token_swap.token_a.mint, token_swap.token_b.mint},
                  "InvalidAdmin") >>),
            IF of_mint = token_swap.token_a.mint
            THEN [token_swap EXCEPT !.token_a.admin_fees = key]
            ELSE [token_swap EXCEPT !.token_b.admin_fees = key])

ApplyNewAdmin(token_swap) ==
    Changed(FirstError(<<
        Check(token_swap.future_admin_deadline # ZERO_TS, "NoActiveTransfer"),
        Check(now <= token_swap.future_admin_deadline, "AdminDeadlineExceeded") >>),
        [ token_swap EXCEPT !.admin_key = token_swap.future_admin_key,
                            !.future_admin_key = DefaultKey,
                            !.future_admin_deadline = ZERO_TS ])

CommitNewAdmin(token_swap, key) ==
    Changed(FirstError(<<
        Check(now >= token_swap.future_admin_deadline, "ActiveTransfer"),
        Check(now + ADMIN_TRANSFER_DELAY <= I64_MAX, "CalculationFailure") >>),
        [ token_swap EXCEPT !.future_admin_key = key,
                            !.future_admin_deadline = now + ADMIN_TRANSFER_DELAY ])

SetNewFees(token_swap, new_fees) == Changed(Ok, [token_swap EXCEPT !.fees = new_fees])

HandleAdmin(token_swap, infos, ix) ==
    CASE ix.op = "RampA"         -> RampA(token_swap, ix.target_amp, ix.stop_ramp_ts)
      [] ix.op = "StopRampA"     -> StopRampA(token_swap)
      [] ix.op = "Pause"         -> Pause(token_swap)
      [] ix.op = "Unpause"       -> Unpause(token_swap)
      [] ix.op = "ApplyNewAdmin" -> ApplyNewAdmin(token_swap)
      [] ix.op = "SetNewFees"    -> SetNewFees(token_swap, ix.fees)
      [] ix.op \in {"SetFeeAccount", "CommitNewAdmin"} /\ Len(infos) < 3 ->
            Changed("NotEnoughAccountKeys", token_swap)
      [] ix.op = "SetFeeAccount"  /\ Len(infos) >= 3 -> SetFeeAccount(token_swap, infos[3].key)
      [] ix.op = "CommitNewAdmin" /\ Len(infos) >= 3 -> CommitNewAdmin(token_swap, infos[3].key)

\* The runtime refuses a change of the data of an account that the
\* instruction does not declare writable.
Stored(swap_info, token_swap) ==
    LET data == SwapInfo_pack(token_swap)
    IN  IF data # swap_data /\ ~swap_info.is_writable
        THEN Fails("ReadonlyDataModified")
        ELSE Outcome(Ok, data, ledger)

HandledAndStored(swap_info, handled) ==
    Unless(handled.err, Stored(swap_info, handled.info))

Administered(unpacked, infos, ix) ==
    Unless(Then(unpacked.err,
                FirstError(check_has_admin_signer(unpacked.info.admin_key, infos[2]))),
           HandledAndStored(infos[1], HandleAdmin(unpacked.info, infos, ix)))

process_admin_instruction(ix, infos) ==
    IF Len(infos) < 2 THEN Fails("NotEnoughAccountKeys")
    ELSE Administered(SwapInfo_unpack(data_of(infos[1].key)), infos, ix)

---------------------------------------------------------------------------
(* swap.rs *)

\* How the user instructions but Initialize begin: the accounts by name, the
\* names of those that have to be different, and the stored SwapInfo.
LoadedSwap(k, unpacked) == [err |-> unpacked.err, k |-> k, unpacked |-> unpacked]

LoadedAccounts(k, different) ==
    IF \E x, y \in different : x # y /\ k[x] = k[y]
    THEN [err |-> "InvalidInput"]
    ELSE LoadedSwap(k, SwapInfo_unpack(data_of(k.swap)))

Loaded(infos, names, different) ==
    IF Len(infos) < Len(names) THEN [err |-> "NotEnoughAccountKeys"]
    ELSE LoadedAccounts(next_account_infos(infos, names), different)

\* mutant: the pause is not looked at.
NotPaused_ignored(token_swap) == Check(TRUE, "IsPaused")

NotPaused(token_swap) == Check(~token_swap.is_paused, "IsPaused")

UserLeads == <<"swap", "swap_authority", "user_authority">>

\* The handlers are in three parts: the checks of the accounts, the checks of
\* what the curve returns, and the calls of the token program.
SwapChecks(k, token_swap, a, b) ==
    << NotPaused(token_swap),
       Check(k.source \notin {a.reserves, b.reserves}, "InvalidInput"),
       check_swap_authority(token_swap, k),
       Check(k.swap_source \in {a.reserves, b.reserves}, "IncorrectSwapAccount") >>
    \o check_swap_token_destination_accounts(IF k.swap_source = a.reserves THEN b ELSE a,
                                             k.swap_destination, k.admin_destination)
    \o << unpack_token_account(k.swap_source), unpack_token_account(k.swap_destination) >>

SwapCalls(infos, ix, k, nonce, result) ==
    LET paid_in == spl_transfer(NothingToDo, AsUser(infos, k),
                                k.source, k.swap_source, ix.amount_in)
    IN  Unless(FirstError(<< Check(result.ok, "CalculationFailure"),
                             Check(result.amount_swapped >= ix.minimum_amount_out,
                                   "ExceededSlippage") >>),
               spl_transfer(
                   spl_transfer(paid_in, AsSwap(infos, k, nonce),
                                k.swap_destination, k.destination, result.amount_swapped),
                   AsSwap(infos, k, nonce),
                   k.swap_destination, k.admin_destination, result.admin_fee))

SwapLoaded(infos, ix, loaded) ==
    LET k == loaded.k
        token_swap == loaded.unpacked.info
    IN  Unless(Then(loaded.err,
                    FirstError(SwapChecks(k, token_swap, token_swap.token_a, token_swap.token_b))),
               SwapCalls(infos, ix, k, token_swap.nonce,
                   swap_to(current_amp(token_swap), ix.amount_in,
                           amount_of(k.swap_source), amount_of(k.swap_destination),
                           token_swap.fees)))

process_swap(infos, ix) ==
    IF ix.amount_in = 0 THEN NothingToDo
    ELSE SwapLoaded(infos, ix, Loaded(infos,
            UserLeads \o << "source", "swap_source", "swap_destination", "destination",
                            "admin_destination", "token_program" >>,
            {"swap_source", "swap_destination"}))

DepositChecks(k, token_swap) ==
    << NotPaused(token_swap), check_swap_authority(token_swap, k) >>
    \o check_deposit_token_accounts(token_swap.token_a, k.source_a, k.token_a)
    \o check_deposit_token_accounts(token_swap.token_b, k.source_b, k.token_b)
    \o << Check(k.pool_mint = token_swap.pool_mint, "IncorrectMint"),
          unpack_token_account(k.token_a), unpack_token_account(k.token_b),
          unpack_mint(k.pool_mint) >>

DepositCalls(infos, ix, k, nonce, mint_amount) ==
    LET paid_a == spl_transfer(NothingToDo, AsUser(infos, k), k.source_a, k.token_a,
                               ix.token_a_amount)
    IN  Unless(FirstError(<< Check(mint_amount # None, "CalculationFailure"),
                             Check(mint_amount >= ix.min_mint_amount, "ExceededSlippage") >>),
               spl_mint_to(
                   spl_transfer(paid_a, AsUser(infos, k), k.source_b, k.token_b,
                                ix.token_b_amount),
                   AsSwap(infos, k, nonce), k.pool_mint, k.destination, mint_amount))

DepositLoaded(infos, ix, loaded) ==
    LET k == loaded.k
        token_swap == loaded.unpacked.info
    IN  Unless(Then(loaded.err, FirstError(DepositChecks(k, token_swap))),
               DepositCalls(infos, ix, k, token_swap.nonce,
                   compute_mint_amount_for_deposit(current_amp(token_swap),
                       <<ix.token_a_amount, ix.token_b_amount>>,
                       <<amount_of(k.token_a), amount_of(k.token_b)>>,
                       supply_of(k.pool_mint), token_swap.fees)))

process_deposit(infos, ix) ==
    IF ix.token_a_amount = 0 /\ ix.token_b_amount = 0 THEN NothingToDo
    ELSE DepositLoaded(infos, ix, Loaded(infos,
            UserLeads \o << "source_a", "source_b", "token_a", "token_b", "pool_mint",
                            "destination", "token_program" >>,
            {}))

\* What one token's part of a withdrawal pays out, after the calls before it.
handle_token_withdraw(r, as_swap, rate, reserves_key, destination, admin_fee_dest) ==
    spl_transfer(spl_transfer(r, as_swap, reserves_key, destination, rate.amount),
                 as_swap, reserves_key, admin_fee_dest, rate.admin_fee)

WithdrawChecks(k, token_swap) ==
    << check_swap_authority(token_swap, k) >>
    \o check_withdraw_token_accounts(token_swap.token_a, k.token_a, k.fee_a)
    \o check_withdraw_token_accounts(token_swap.token_b, k.token_b, k.fee_b)
    \o << Check(k.pool_mint = token_swap.pool_mint, "IncorrectMint"),
          unpack_mint(k.pool_mint),
          Check(supply_of(k.pool_mint) # 0, "EmptyPool"),
          unpack_token_account(k.token_a), unpack_token_account(k.token_b) >>

WithdrawCalls(infos, ix, k, as_swap, a, b) ==
    LET paid_a == handle_token_withdraw(NothingToDo, as_swap, a, k.token_a, k.dest_a, k.fee_a)
    IN  Unless(FirstError(check_can_withdraw_token(a, ix.minimum_token_a_amount)
                          \o check_can_withdraw_token(b, ix.minimum_token_b_amount)),
               spl_burn(
                   handle_token_withdraw(paid_a, as_swap, b, k.token_b, k.dest_b, k.fee_b),
                   AsUser(infos, k), k.source, k.pool_mint, ix.pool_token_amount))

WithdrawLoaded(infos, ix, loaded) ==
    LET k == loaded.k
        token_swap == loaded.unpacked.info
        Rate(reserves_key) ==
            token_rate(ix.pool_token_amount, supply_of(k.pool_mint),
                       amount_of(reserves_key), token_swap.fees)
    IN  Unless(Then(loaded.err, FirstError(WithdrawChecks(k, token_swap))),
               WithdrawCalls(infos, ix, k, AsSwap(infos, k, token_swap.nonce),
                             Rate(k.token_a), Rate(k.token_b)))

process_withdraw(infos, ix) ==
    IF ix.pool_token_amount = 0 THEN NothingToDo
    ELSE WithdrawLoaded(infos, ix, Loaded(infos,
            UserLeads \o << "pool_mint", "source", "token_a", "token_b", "dest_a",
                            "dest_b", "fee_a", "fee_b", "token_program" >>,
            {}))

WithdrawOneChecks(k, token_swap, base, quote) ==
    << NotPaused(token_swap),
       check_swap_authority(token_swap, k),
       check_reserves_match(base, k.base),
       check_reserves_match(quote, k.quote),
       Check(k.admin_destination = base.admin_fees, "InvalidAdmin"),
       Check(k.pool_mint = token_swap.pool_mint, "IncorrectMint"),
       unpack_mint(k.pool_mint),
       unpack_token_account(k.base), unpack_token_account(k.quote) >>

\* The payout and the admin's fee: dy and the trade fee in it come from the
\* curve, then the withdrawal fee is taken from dy.
withdraw_one_rate(fees, result) ==
    LET fee == withdraw_fee(fees, result.dy)
    IN  [ ok        |-> result.ok,
          amount    |-> CheckedSub(result.dy, fee),
          admin_fee |-> Add64(admin_trade_fee(fees, result.fee),
                              admin_withdraw_fee(fees, fee)) ]

WithdrawOneCalls(infos, ix, k, nonce, rate) ==
    Unless(FirstError(<< Check(rate.ok /\ rate.amount # None, "CalculationFailure"),
                         Check(rate.amount >= ix.minimum_token_amount, "ExceededSlippage"),
                         Check(rate.admin_fee # None, "CalculationFailure") >>),
           spl_burn(
               handle_token_withdraw(NothingToDo, AsSwap(infos, k, nonce), rate,
                                     k.base, k.destination, k.admin_destination),
               AsUser(infos, k), k.source, k.pool_mint, ix.pool_token_amount))

WithdrawOneLoaded(infos, ix, loaded) ==
    LET k == loaded.k
        token_swap == loaded.unpacked.info
        a == token_swap.token_a
        b == token_swap.token_b
        of_a == k.base = a.reserves
    IN  Unless(Then(loaded.err,
                    FirstError(WithdrawOneChecks(k, token_swap, IF of_a THEN a ELSE b,
                                                 IF of_a THEN b ELSE a))),
               WithdrawOneCalls(infos, ix, k, token_swap.nonce,
                   withdraw_one_rate(token_swap.fees,
                       compute_withdraw_one(current_amp(token_swap),
                           ix.pool_token_amount, supply_of(k.pool_mint),
                           amount_of(k.base), amount_of(k.quote), token_swap.fees))))

process_withdraw_one(infos, ix) ==
    IF ix.pool_token_amount = 0 THEN NothingToDo
    ELSE WithdrawOneLoaded(infos, ix, Loaded(infos,
            UserLeads \o << "pool_mint", "source", "base", "quote", "destination",
                            "admin_destination", "token_program" >>,
            {"base", "quote"}))

\* What Initialize asks of the accounts, in the order of the code.
InitializeChecks(k, nonce) ==
    << Check(k.swap_authority = authority_id(k.swap, nonce), "InvalidProgramAddress"),
       unpack_token_account(k.destination),
       unpack_token_account(k.token_a),
       unpack_token_account(k.token_b),
       Check(owner_of(k.token_a) = k.swap_authority, "InvalidOwner"),
       Check(owner_of(k.token_b) = k.swap_authority, "InvalidOwner"),
       Check(owner_of(k.destination) # k.swap_authority, "InvalidOutputOwner"),
       Check(mint_of(k.token_a) # mint_of(k.token_b), "RepeatedMint"),
       Check(amount_of(k.token_b) # 0 /\ amount_of(k.token_a) # 0, "EmptySupply"),
       Check({k.token_a, k.token_b} \cap Delegated = {}, "InvalidDelegate"),
       Check(mint_of(k.token_a) = k.token_a_mint, "IncorrectMint"),
       Check(mint_of(k.token_b) = k.token_b_mint, "IncorrectMint"),
       Check({k.token_a, k.token_b} \cap WithCloseAuthority = {}, "InvalidCloseAuthority"),
       unpack_mint(k.pool_mint) >>

\* ... and of the mints, once the pool mint is one.
InitializeMintChecks(k) ==
    << Check(mint_authority[k.pool_mint] = k.swap_authority, "InvalidOwner"),
       Check(k.pool_mint \notin Freezable, "InvalidFreezeAuthority"),
       Check(supply_of(k.pool_mint) = 0, "InvalidSupply"),
       Check(decimals[k.token_a_mint] = decimals[k.token_b_mint], "MismatchedDecimals"),
       Check(decimals[k.pool_mint] = decimals[k.token_a_mint], "MismatchedDecimals"),
       unpack_token_account(k.admin_fee_a),
       unpack_token_account(k.admin_fee_b),
       Check(mint_of(k.token_a) = mint_of(k.admin_fee_a), "InvalidAdmin"),
       Check(mint_of(k.token_b) = mint_of(k.admin_fee_b), "InvalidAdmin") >>

InitialSwapInfo(k, ix) ==
    [ is_initialized        |-> TRUE,
      is_paused             |-> FALSE,
      nonce                 |-> ix.nonce,
      initial_amp_factor    |-> ix.amp_factor,
      target_amp_factor     |-> ix.amp_factor,
      start_ramp_ts         |-> ZERO_TS,
      stop_ramp_ts          |-> ZERO_TS,
      future_admin_deadline |-> ZERO_TS,
      future_admin_key      |-> DefaultKey,
      admin_key             |-> k.admin,
      token_a   |-> SwapTokenInfo(k.token_a, mint_of(k.token_a), k.admin_fee_a, 0),
      token_b   |-> SwapTokenInfo(k.token_b, mint_of(k.token_b), k.admin_fee_b, 1),
      pool_mint |-> k.pool_mint,
      fees      |-> ix.fees ]

InitializeErrors(k, ix, unpacked, d) ==
    Then(unpacked.err,
    Then(IF unpacked.info.is_initialized THEN "AlreadyInUse" ELSE Ok,
    Then(FirstError(InitializeChecks(k, ix.nonce)),
    Then(FirstError(InitializeMintChecks(k)),
         FirstError(<< Check(d # None, "CalculationFailure"),
                       Check(d \in U64, "ConversionFailure") >>)))))

\* The LP tokens have been minted; SwapInfo is written last.
InitializeStored(swap_info, r, token_swap) ==
    Unless(Then(r.err, IF swap_info.is_writable THEN Ok ELSE "ReadonlyDataModified"),
           [r EXCEPT !.data = SwapInfo_pack(token_swap)])

InitializeWith(infos, ix, k) ==
    LET d == compute_d(ix.amp_factor, amount_of(k.token_a), amount_of(k.token_b))
    IN  Unless(InitializeErrors(k, ix, SwapInfo_unpack_unchecked(data_of(k.swap)), d),
               InitializeStored(infos[1],
                   spl_mint_to(NothingToDo, AsSwap(infos, k, ix.nonce), k.pool_mint,
                               k.destination, d),
                   InitialSwapInfo(k, ix)))

process_initialize(infos, ix) ==
    LET names == << "swap", "swap_authority", "admin", "admin_fee_a", "admin_fee_b",
                    "token_a_mint", "token_a", "token_b_mint", "token_b", "pool_mint",
                    "destination", "token_program" >>
    IN  IF Len(infos) < Len(names) THEN Fails("NotEnoughAccountKeys")
        ELSE IF ix.amp_factor \notin MIN_AMP..MAX_AMP THEN Fails("InvalidInput")
        ELSE InitializeWith(infos, ix, next_account_infos(infos, names))

---------------------------------------------------------------------------
(* Dispatch *)

HandleSwapInstruction(infos, ix) ==
    CASE ix.op = "Initialize"  -> process_initialize(infos, ix)
      [] ix.op = "Swap"        -> process_swap(infos, ix)
      [] ix.op = "Deposit"     -> process_deposit(infos, ix)
      [] ix.op = "Withdraw"    -> process_withdraw(infos, ix)
      [] ix.op = "WithdrawOne" -> process_withdraw_one(infos, ix)

SwapUnpacked(infos, unpacked) ==
    Unless(unpacked.err, HandleSwapInstruction(infos, unpacked.instruction))

process_swap_instruction(infos, input) ==
    SwapUnpacked(infos, SwapInstruction_unpack(input))

\* What AdminInstruction does not know is for SwapInstruction.
AdminUnpacked(infos, input, unpacked) ==
    Unless(unpacked.err,
           IF unpacked.instruction = NotAdmin
           THEN process_swap_instruction(infos, input)
           ELSE process_admin_instruction(unpacked.instruction, infos))

process(infos, input) == AdminUnpacked(infos, input, AdminInstruction_unpack(input))

---------------------------------------------------------------------------
(* The program under the runtime *)

\* The runtime joins the privileges that a transaction gives one account.
account_infos(metas) ==
    [ i \in DOMAIN metas |->
        LET same == { j \in DOMAIN metas : metas[j].key = metas[i].key }
        IN  [ key         |-> metas[i].key,
              is_signer   |-> \E j \in same : metas[j].is_signer,
              is_writable |-> \E j \in same : metas[j].is_writable ] ]

process_instruction(request) == process(account_infos(request.accounts), request.data)

\* A SwapInfo account as it is allocated: all zero.
ZeroedSwapInfo ==
    LET token == SwapTokenInfo(DefaultKey, DefaultKey, DefaultKey, 0)
    IN  [ is_initialized |-> FALSE, is_paused |-> FALSE, nonce |-> 0,
          initial_amp_factor |-> 0, target_amp_factor |-> 0,
          start_ramp_ts |-> 0, stop_ramp_ts |-> 0, future_admin_deadline |-> 0,
          future_admin_key |-> DefaultKey, admin_key |-> DefaultKey,
          token_a |-> token, token_b |-> token, pool_mint |-> DefaultKey,
          fees |-> Fees_unpack_from_slice([i \in 1..FEES_LEN |-> 0]) ]

Init ==
    /\ now = 0
    /\ swap_data = SwapInfo_pack(ZeroedSwapInfo)
    /\ \E amounts \in InitialAmounts :
           ledger = [amount |-> amounts, supply |-> 0, open |-> TokenAccounts, ok |-> TRUE]

\* An instruction that fails changes nothing.
ProcessInstruction(request) ==
    /\ \E r \in {process_instruction(request)} :
           /\ r.err = Ok
           /\ swap_data' = r.data
           /\ ledger' = r.ledger
    /\ UNCHANGED now

Tick == now < MaxNow /\ now' = now + 1 /\ UNCHANGED <<swap_data, ledger>>

Next == Tick \/ \E request \in Requests : ProcessInstruction(request)

Spec == Init /\ [][Next]_programVars

=============================================================================
