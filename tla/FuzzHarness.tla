----------------------------- MODULE FuzzHarness -----------------------------
(***************************************************************************)
(* The harness under which the fuzz targets run the program, fuzz/src, and *)
(* the two targets, fuzz/targets/full.rs and swaps_only.rs.                *)
(*                                                                         *)
(* The harness stands in for the runtime: it lists the accounts of every   *)
(* instruction itself, next to the metas of the builder, and copies their  *)
(* data back by position.  What it finds out about the program is worth    *)
(* something only where it agrees with the runtime.                        *)
(*                                                                         *)
(* A token account stands for its id in the maps of the targets; its       *)
(* signing account, the other half of the pair, is its owner.              *)
(* A definition marked "mutant" is the next one with a mistake in it: the  *)
(* properties are tested against it, and nothing else uses it.             *)
(***************************************************************************)
EXTENDS Program

CONSTANTS
    stable_swap,    \* the accounts that NativeStableSwap::new has made, by field
    token_a_accounts, token_b_accounts, pool_accounts,  \* of the users, by mint
    FuzzAmounts,    \* u64s in the data of an Action
    FuzzMinimums, FuzzAmps, FuzzTimes

C == INSTANCE Client

---------------------------------------------------------------------------
(* native_account_data.rs and native_processor.rs *)

\* Made with new_signer.
Signers ==
    {stable_swap.admin_account}
    \cup { owner[a] : a \in token_a_accounts \cup token_b_accounts \cup pool_accounts }

\* is_writable is FALSE in the code, but the stub of the runtime does not look.
as_account_info(key) ==
    [key |-> key, is_signer |-> key \in Signers, is_writable |-> TRUE]

\* An instruction and the accounts to run it on.
Native(instruction, keys) ==
    [ instruction |-> instruction,
      infos       |-> [i \in DOMAIN keys |-> as_account_info(keys[i])] ]

\* The account at each position gets the data of the account which the meta at
\* that position names; positions beyond the shorter of the lists are left.
CopyBack(native, r) ==
    LET metas == native.instruction.accounts
        infos == native.infos
        zip   == { i \in DOMAIN metas \cap DOMAIN infos :
                     \E j \in DOMAIN infos : infos[j].key = metas[i].key }
        \* Which account's data ends up in key.
        From(key) == LET at == { i \in zip : infos[i].key = key }
                     IN  IF at = {} THEN "nothing" ELSE metas[Max(at)].key
    IN  Outcome(Ok,
            IF From(SwapKey) = SwapKey THEN r.data ELSE swap_data,
            [ r.ledger EXCEPT
                !.amount = [ a \in TokenAccounts |->
                               IF From(a) \in TokenAccounts THEN @[From(a)]
                                                            ELSE ledger.amount[a] ],
                !.supply = IF From(PoolMint) = PoolMint THEN @ ELSE ledger.supply ])

AfterProcessing(native, r) ==
    LET token_program_listed ==
            \E i \in DOMAIN native.infos : native.infos[i].key = TokenProgram
    IN  IF r.err # Ok THEN r
        ELSE IF r.ledger # ledger /\ ~token_program_listed
        THEN Fails("InvalidAccountData")
        ELSE CopyBack(native, r)

do_process_instruction_at_time(native) ==
    AfterProcessing(native, process(native.infos, native.instruction.data))

---------------------------------------------------------------------------
(* native_stable_swap.rs *)

S == stable_swap

\* What the builders take from the harness in every call.
PoolKeys ==
    [ swap |-> S.swap_account, swap_authority |-> S.authority_account,
      token_program |-> S.token_program_account ]

NewNativeStableSwap(amp_factor, fees) ==
    Native(
        C!initialize(PoolKeys @@
            [ admin |-> S.admin_account,
              admin_fee_a |-> S.admin_fee_a_account, admin_fee_b |-> S.admin_fee_b_account,
              token_a_mint |-> S.token_a_mint_account, token_a |-> S.token_a_account,
              token_b_mint |-> S.token_b_mint_account, token_b |-> S.token_b_account,
              pool_mint |-> S.pool_mint_account, destination |-> S.pool_token_account ],
            S.nonce, amp_factor, fees),
        << S.swap_account, S.authority_account, S.admin_account, S.admin_fee_a_account,
           S.admin_fee_b_account, S.token_a_mint_account, S.token_a_account,
           S.token_b_mint_account, S.token_b_account, S.pool_mint_account,
           S.pool_token_account, S.token_program_account >>)


swap_a_to_b(user, token_a, token_b, amount_in, minimum_amount_out) ==
    Native(
        C!swap(PoolKeys @@
            [ user_authority |-> user, source |-> token_a,
              swap_source |-> S.token_a_account, swap_destination |-> S.token_b_account,
              destination |-> token_b, admin_fee_destination |-> S.admin_fee_b_account ],
            amount_in, minimum_amount_out),
        << S.swap_account, S.authority_account, user, token_a, S.token_a_account,
           S.token_b_account, token_b, S.admin_fee_b_account, S.token_program_account >>)

swap_b_to_a(user, token_a, token_b, amount_in, minimum_amount_out) ==
    Native(
        C!swap(PoolKeys @@
            [ user_authority |-> user, source |-> token_b,
              swap_source |-> S.token_b_account, swap_destination |-> S.token_a_account,
              destination |-> token_a, admin_fee_destination |-> S.admin_fee_a_account ],
            amount_in, minimum_amount_out),
        << S.swap_account, S.authority_account, user, token_b, S.token_b_account,
           S.token_a_account, token_a, S.admin_fee_a_account, S.token_program_account >>)

deposit(user, token_a, token_b, pool_token, token_a_amount, token_b_amount, min_mint_amount) ==
    Native(
        C!deposit(PoolKeys @@
            [ user_authority |-> user, deposit_token_a |-> token_a, deposit_token_b |-> token_b,
              swap_token_a |-> S.token_a_account, swap_token_b |-> S.token_b_account,
              pool_mint |-> S.pool_mint_account, destination |-> pool_token ],
            token_a_amount, token_b_amount, min_mint_amount),
        << S.swap_account, S.authority_account, user, token_a, token_b, S.token_a_account,
           S.token_b_account, S.pool_mint_account, pool_token, S.token_program_account >>)

\* mutant: the two halves of the accounts are listed the other way round.
withdraw_users_first(user, token_a, token_b, pool_token, pool_token_amount, minimum_a, minimum_b) ==
    Native(
        C!withdraw(PoolKeys @@
            [ user_authority |-> user, pool_mint |-> S.pool_mint_account, source |-> pool_token,
              swap_token_a |-> S.token_a_account, swap_token_b |-> S.token_b_account,
              destination_token_a |-> token_a, destination_token_b |-> token_b,
              admin_fee_a |-> S.admin_fee_a_account, admin_fee_b |-> S.admin_fee_b_account ],
            pool_token_amount, minimum_a, minimum_b),
        << S.swap_account, S.authority_account, user, S.pool_mint_account, pool_token,
           token_a, token_b, S.token_a_account, S.token_b_account,
           S.admin_fee_a_account, S.admin_fee_b_account, S.token_program_account >>)

withdraw(user, token_a, token_b, pool_token, pool_token_amount, minimum_a, minimum_b) ==
    Native(
        C!withdraw(PoolKeys @@
            [ user_authority |-> user, pool_mint |-> S.pool_mint_account, source |-> pool_token,
              swap_token_a |-> S.token_a_account, swap_token_b |-> S.token_b_account,
              destination_token_a |-> token_a, destination_token_b |-> token_b,
              admin_fee_a |-> S.admin_fee_a_account, admin_fee_b |-> S.admin_fee_b_account ],
            pool_token_amount, minimum_a, minimum_b),
        << S.swap_account, S.authority_account, user, S.pool_mint_account, pool_token,
           S.token_a_account, S.token_b_account, token_a, token_b,
           S.admin_fee_a_account, S.admin_fee_b_account, S.token_program_account >>)

\* Of TokenType::TokenA, and of TokenType::TokenB.
withdraw_one(user, token, pool_token, token_type, pool_token_amount, minimum_token_amount) ==
    LET of_a  == token_type = "TokenA"
        base  == IF of_a THEN S.token_a_account ELSE S.token_b_account
        quote == IF of_a THEN S.token_b_account ELSE S.token_a_account
        fee   == IF of_a THEN S.admin_fee_a_account ELSE S.admin_fee_b_account
    IN  Native(
            C!withdraw_one(PoolKeys @@
                [ user_authority |-> user, pool_mint |-> S.pool_mint_account,
                  source |-> pool_token, swap_base_token |-> base, swap_quote_token |-> quote,
                  base_destination |-> token, admin_fee_destination |-> fee ],
                pool_token_amount, minimum_token_amount),
            << S.swap_account, S.authority_account, user, S.pool_mint_account, pool_token,
               base, quote, token, fee, S.token_program_account >>)

ramp_a(target_amp, stop_ramp_ts) ==
    Native(C!ramp_a(S.swap_account, S.admin_account, target_amp, stop_ramp_ts),
           <<S.swap_account, S.admin_account>>)

stop_ramp_a ==
    Native(C!stop_ramp_a(S.swap_account, S.admin_account), <<S.swap_account, S.admin_account>>)

---------------------------------------------------------------------------
(* full.rs: the calls of run_action.  The user that signs is the pair's    *)
(* signing account of what is paid in: of the source of a Swap, of the A   *)
(* account of a Deposit, of the LP account of a withdrawal.                *)

FullActions ==
    { swap_a_to_b(owner[a], a, b, n, min) :
        a \in token_a_accounts, b \in token_b_accounts, n \in FuzzAmounts, min \in FuzzMinimums }
    \cup
    { swap_b_to_a(owner[b], a, b, n, min) :
        a \in token_a_accounts, b \in token_b_accounts, n \in FuzzAmounts, min \in FuzzMinimums }
    \cup
    { deposit(owner[a], a, b, lp, n_a, n_b, min) :
        a \in token_a_accounts, b \in token_b_accounts, lp \in pool_accounts,
        n_a \in FuzzAmounts, n_b \in FuzzAmounts, min \in FuzzMinimums }
    \cup
    { withdraw(owner[lp], a, b, lp, n, min, min) :
        a \in token_a_accounts, b \in token_b_accounts, lp \in pool_accounts,
        n \in FuzzAmounts, min \in FuzzMinimums }
    \cup
    { withdraw_one(owner[lp], a, lp, "TokenA", n, min) :
        a \in token_a_accounts, lp \in pool_accounts, n \in FuzzAmounts, min \in FuzzMinimums }
    \cup
    { withdraw_one(owner[lp], b, lp, "TokenB", n, min) :
        b \in token_b_accounts, lp \in pool_accounts, n \in FuzzAmounts, min \in FuzzMinimums }

RampActions ==
    { ramp_a(amp, stop) : amp \in FuzzAmps, stop \in FuzzTimes } \cup {stop_ramp_a}

\* swaps_only.rs: one user, no slippage limit.
PairsOfOneUser ==
    { pair \in token_a_accounts \X token_b_accounts : owner[pair[1]] = owner[pair[2]] }

RunSwaps(a, b) ==
    { swap_a_to_b(owner[a], a, b, n, 0) : n \in FuzzAmounts }
    \cup { swap_b_to_a(owner[a], a, b, n, 0) : n \in FuzzAmounts }

\* The errors that run_action expects of a ramp and of the other actions, and
\* run_swap of a swap; any other ends the run.
RampErrors == {Ok, "InvalidInput", "CalculationFailure", "RampLocked", "InsufficientRampTime"}

ActionErrors ==
    {Ok, "CalculationFailure", "ConversionFailure", "ExceededSlippage",
     "InsufficientFunds", "OwnerMismatch"}

SwapErrors == {Ok, "CalculationFailure", "InsufficientFunds"}

---------------------------------------------------------------------------
(* Properties *)

\* The pool is one the harness can have: made by NewNativeStableSwap, only
\* ramped since, and with LP tokens outstanding (those of S.pool_token_account
\* are never redeemed).
InHarness(info) ==
    /\ info.is_initialized /\ ~info.is_paused
    /\ info.admin_key = S.admin_account
    /\ info.token_a.admin_fees = S.admin_fee_a_account
    /\ info.token_b.admin_fees = S.admin_fee_b_account
    /\ ledger.supply # 0

SameResult(native, runtime_infos, result) ==
    AfterProcessing(native, result[native.infos]) = result[runtime_infos]

\* What the fuzz targets run is what the runtime would run: for every action
\* the accounts that the harness lists by hand, its own signers and its copying
\* back by position (native_processor.rs:122) give the result, error or effect,
\* that the runtime gives for the same instruction of the builder.
HarnessSeesTheRuntime ==
    \A native \in FullActions \cup RampActions :
        SameResult(native, account_infos(native.instruction.accounts),
            [ infos \in {native.infos, account_infos(native.instruction.accounts)} |->
                process(infos, native.instruction.data) ])


=============================================================================
