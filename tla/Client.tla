------------------------------- MODULE Client -------------------------------
(***************************************************************************)
(* The instruction builders of stable-swap-client/src/instruction.rs: from *)
(* the accounts by role and the arguments to an Instruction, which is the  *)
(* list of account metas and the packed data.                              *)
(*                                                                         *)
(* The builders of the user instructions take their accounts as a record   *)
(* with a field for each parameter of the function in the code.            *)
(* A definition marked "mutant" is the next one with a mistake in it: the  *)
(* properties are tested against it, and nothing else uses it.             *)
(***************************************************************************)
EXTENDS Encoding

\* AccountMeta::new and AccountMeta::new_readonly.
new(key, is_signer) ==
    [key |-> key, is_signer |-> is_signer, is_writable |-> TRUE]

new_readonly(key, is_signer) ==
    [key |-> key, is_signer |-> is_signer, is_writable |-> FALSE]

Instruction(accounts, data) == [accounts |-> accounts, data |-> data]

---------------------------------------------------------------------------
(* Admin instructions *)

\* mutant: the swap account is not writable.
AdminAccounts_readonly(swap, admin) == <<new_readonly(swap, FALSE), new_readonly(admin, TRUE)>>

\* What all of them begin with.
AdminAccounts(swap, admin) == <<new(swap, FALSE), new_readonly(admin, TRUE)>>

ramp_a(swap, admin, target_amp, stop_ramp_ts) ==
    Instruction(AdminAccounts(swap, admin),
        AdminInstruction_pack(
            [op |-> "RampA", target_amp |-> target_amp, stop_ramp_ts |-> stop_ramp_ts]))

stop_ramp_a(swap, admin) ==
    Instruction(AdminAccounts(swap, admin), AdminInstruction_pack([op |-> "StopRampA"]))

pause(swap, admin) ==
    Instruction(AdminAccounts(swap, admin), AdminInstruction_pack([op |-> "Pause"]))

unpause(swap, admin) ==
    Instruction(AdminAccounts(swap, admin), AdminInstruction_pack([op |-> "Unpause"]))

apply_new_admin(swap, admin) ==
    Instruction(AdminAccounts(swap, admin), AdminInstruction_pack([op |-> "ApplyNewAdmin"]))

commit_new_admin(swap, admin, new_admin) ==
    Instruction(Append(AdminAccounts(swap, admin), new_readonly(new_admin, FALSE)),
                AdminInstruction_pack([op |-> "CommitNewAdmin"]))

set_fee_account(swap, admin, new_fee_account) ==
    Instruction(Append(AdminAccounts(swap, admin), new_readonly(new_fee_account, FALSE)),
                AdminInstruction_pack([op |-> "SetFeeAccount"]))

set_new_fees(swap, admin, new_fees) ==
    Instruction(AdminAccounts(swap, admin),
                AdminInstruction_pack([op |-> "SetNewFees", fees |-> new_fees]))

---------------------------------------------------------------------------
(* User instructions *)

initialize(k, nonce, amp_factor, fees) ==
    Instruction(
        << new(k.swap, TRUE),
           new_readonly(k.swap_authority, FALSE),
           new_readonly(k.admin, FALSE),
           new_readonly(k.admin_fee_a, FALSE),
           new_readonly(k.admin_fee_b, FALSE),
           new_readonly(k.token_a_mint, FALSE),
           new_readonly(k.token_a, FALSE),
           new_readonly(k.token_b_mint, FALSE),
           new_readonly(k.token_b, FALSE),
           new(k.pool_mint, FALSE),
           new(k.destination, FALSE),
           new_readonly(k.token_program, FALSE) >>,
        SwapInstruction_pack([ op |-> "Initialize", nonce |-> nonce,
                               amp_factor |-> amp_factor, fees |-> fees ]))

\* The pool, its authority and the user, who signs: the user instructions but
\* Initialize begin with them.
UserAccounts(k) ==
    << new_readonly(k.swap, FALSE),
       new_readonly(k.swap_authority, FALSE),
       new_readonly(k.user_authority, TRUE) >>

\* Token accounts and mints, all writable, and the token program.
TokenCallAccounts(k, keys) ==
    [i \in DOMAIN keys |-> new(keys[i], FALSE)] \o <<new_readonly(k.token_program, FALSE)>>

deposit(k, token_a_amount, token_b_amount, min_mint_amount) ==
    Instruction(
        UserAccounts(k) \o
        TokenCallAccounts(k, << k.deposit_token_a, k.deposit_token_b, k.swap_token_a,
                                k.swap_token_b, k.pool_mint, k.destination >>),
        SwapInstruction_pack([ op |-> "Deposit", token_a_amount |-> token_a_amount,
                               token_b_amount |-> token_b_amount,
                               min_mint_amount |-> min_mint_amount ]))

withdraw(k, pool_token_amount, minimum_token_a_amount, minimum_token_b_amount) ==
    Instruction(
        UserAccounts(k) \o
        TokenCallAccounts(k, << k.pool_mint, k.source, k.swap_token_a, k.swap_token_b,
                                k.destination_token_a, k.destination_token_b,
                                k.admin_fee_a, k.admin_fee_b >>),
        SwapInstruction_pack([ op |-> "Withdraw", pool_token_amount |-> pool_token_amount,
                               minimum_token_a_amount |-> minimum_token_a_amount,
                               minimum_token_b_amount |-> minimum_token_b_amount ]))

swap(k, amount_in, minimum_amount_out) ==
    Instruction(
        UserAccounts(k) \o
        TokenCallAccounts(k, << k.source, k.swap_source, k.swap_destination,
                                k.destination, k.admin_fee_destination >>),
        SwapInstruction_pack([ op |-> "Swap", amount_in |-> amount_in,
                               minimum_amount_out |-> minimum_amount_out ]))

withdraw_one(k, pool_token_amount, minimum_token_amount) ==
    Instruction(
        UserAccounts(k) \o
        TokenCallAccounts(k, << k.pool_mint, k.source, k.swap_base_token,
                                k.swap_quote_token, k.base_destination,
                                k.admin_fee_destination >>),
        SwapInstruction_pack([ op |-> "WithdrawOne", pool_token_amount |-> pool_token_amount,
                               minimum_token_amount |-> minimum_token_amount ]))

=============================================================================
