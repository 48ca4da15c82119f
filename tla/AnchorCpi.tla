------------------------------ MODULE AnchorCpi ------------------------------
(***************************************************************************)
(* stable-swap-anchor: the wrappers through which another program calls    *)
(* this one.  A wrapper takes its accounts as nested structs, passes their *)
(* keys to the builder of the client crate and invokes the instruction     *)
(* with the accounts of its context.                                       *)
(*                                                                         *)
(* A struct of accounts.rs is a record of keys with the same fields.       *)
(* A definition marked "mutant" is the next one with a mistake in it: the  *)
(* properties are tested against it, and nothing else uses it.             *)
(***************************************************************************)
EXTENDS Encoding

CONSTANT StableSwapProgram  \* ctx.program

C == INSTANCE Client

---------------------------------------------------------------------------
(* accounts.rs *)

InitToken(reserve, fees, mint_key) == [reserve |-> reserve, fees |-> fees, mint |-> mint_key]

SwapToken(user, reserve) == [user |-> user, reserve |-> reserve]

SwapOutput(user_token, fees) == [user_token |-> user_token, fees |-> fees]

SwapUserContext(token_program, swap_authority, user_authority, swap) ==
    [ token_program |-> token_program, swap_authority |-> swap_authority,
      user_authority |-> user_authority, swap |-> swap ]

AdminUserContext(admin, swap) == [admin |-> admin, swap |-> swap]

\* #[derive(Accounts)]'s to_account_infos: the keys of a struct, to any depth
\* the structs of accounts.rs have.
UserContextKeys(user) ==
    {user.token_program, user.swap_authority, user.user_authority, user.swap}
SwapOutputKeys(output) == {output.user_token.user, output.user_token.reserve, output.fees}
AdminContextKeys(admin_ctx) == {admin_ctx.admin, admin_ctx.swap}

---------------------------------------------------------------------------
(* A call is the instruction and the accounts it is invoked with. *)

invoke_signed(ix, keys) == [ix |-> ix, keys |-> keys \cup {StableSwapProgram}]

\* What a builder takes from the context of the user.
UserKeys(user) ==
    [ swap |-> user.swap, swap_authority |-> user.swap_authority,
      token_program |-> user.token_program, user_authority |-> user.user_authority ]

initialize(accounts, nonce, amp_factor, fees) ==
    invoke_signed(
        C!initialize(
            [ token_program |-> accounts.token_program, swap |-> accounts.swap,
              swap_authority |-> accounts.swap_authority, admin |-> accounts.admin,
              admin_fee_a |-> accounts.token_a.fees, admin_fee_b |-> accounts.token_b.fees,
              token_a_mint |-> accounts.token_a.mint, token_a |-> accounts.token_a.reserve,
              token_b_mint |-> accounts.token_b.mint, token_b |-> accounts.token_b.reserve,
              pool_mint |-> accounts.pool_mint, destination |-> accounts.output_lp ],
            nonce, amp_factor, fees),
        { accounts.swap, accounts.swap_authority, accounts.admin,
          accounts.token_a.fees, accounts.token_b.fees,
          accounts.token_a.mint, accounts.token_a.reserve,
          accounts.token_b.mint, accounts.token_b.reserve,
          accounts.pool_mint, accounts.output_lp, accounts.token_program })

deposit(accounts, token_a_amount, token_b_amount, min_mint_amount) ==
    invoke_signed(
        C!deposit(UserKeys(accounts.user) @@
            [ deposit_token_a |-> accounts.input_a.user,
              deposit_token_b |-> accounts.input_b.user,
              swap_token_a |-> accounts.input_a.reserve,
              swap_token_b |-> accounts.input_b.reserve,
              pool_mint |-> accounts.pool_mint, destination |-> accounts.output_lp ],
            token_a_amount, token_b_amount, min_mint_amount),
        UserContextKeys(accounts.user) \cup
        { accounts.input_a.user, accounts.input_b.user, accounts.input_a.reserve,
          accounts.input_b.reserve, accounts.pool_mint, accounts.output_lp })

\* mutant: the user's token account and the reserve of the output are exchanged.
swap_output_exchanged(accounts, amount_in, minimum_amount_out) ==
    invoke_signed(
        C!swap(UserKeys(accounts.user) @@
            [ source |-> accounts.input.user, swap_source |-> accounts.input.reserve,
              swap_destination |-> accounts.output.user_token.user,
              destination |-> accounts.output.user_token.reserve,
              admin_fee_destination |-> accounts.output.fees ],
            amount_in, minimum_amount_out),
        UserContextKeys(accounts.user) \cup
        {accounts.input.user, accounts.input.reserve} \cup SwapOutputKeys(accounts.output))

swap(accounts, amount_in, minimum_amount_out) ==
    invoke_signed(
        C!swap(UserKeys(accounts.user) @@
            [ source |-> accounts.input.user, swap_source |-> accounts.input.reserve,
              swap_destination |-> accounts.output.user_token.reserve,
              destination |-> accounts.output.user_token.user,
              admin_fee_destination |-> accounts.output.fees ],
            amount_in, minimum_amount_out),
        UserContextKeys(accounts.user) \cup
        {accounts.input.user, accounts.input.reserve} \cup SwapOutputKeys(accounts.output))

withdraw_one(accounts, pool_token_amount, minimum_token_amount) ==
    invoke_signed(
        C!withdraw_one(UserKeys(accounts.user) @@
            [ pool_mint |-> accounts.pool_mint, source |-> accounts.input_lp,
              swap_base_token |-> accounts.output.user_token.reserve,
              swap_quote_token |-> accounts.quote_reserves,
              base_destination |-> accounts.output.user_token.user,
              admin_fee_destination |-> accounts.output.fees ],
            pool_token_amount, minimum_token_amount),
        UserContextKeys(accounts.user) \cup SwapOutputKeys(accounts.output) \cup
        {accounts.pool_mint, accounts.input_lp, accounts.quote_reserves})

withdraw(accounts, pool_token_amount, minimum_token_a_amount, minimum_token_b_amount) ==
    invoke_signed(
        C!withdraw(UserKeys(accounts.user) @@
            [ pool_mint |-> accounts.pool_mint, source |-> accounts.input_lp,
              swap_token_a |-> accounts.output_a.user_token.reserve,
              swap_token_b |-> accounts.output_b.user_token.reserve,
              destination_token_a |-> accounts.output_a.user_token.user,
              destination_token_b |-> accounts.output_b.user_token.user,
              admin_fee_a |-> accounts.output_a.fees,
              admin_fee_b |-> accounts.output_b.fees ],
            pool_token_amount, minimum_token_a_amount, minimum_token_b_amount),
        UserContextKeys(accounts.user) \cup {accounts.input_lp, accounts.pool_mint} \cup
        SwapOutputKeys(accounts.output_a) \cup SwapOutputKeys(accounts.output_b))

ramp_a(accounts, target_amp, stop_ramp_ts) ==
    invoke_signed(C!ramp_a(accounts.swap, accounts.admin, target_amp, stop_ramp_ts),
                  AdminContextKeys(accounts))

stop_ramp_a(accounts) ==
    invoke_signed(C!stop_ramp_a(accounts.swap, accounts.admin), AdminContextKeys(accounts))

pause(accounts) ==
    invoke_signed(C!pause(accounts.swap, accounts.admin), AdminContextKeys(accounts))

unpause(accounts) ==
    invoke_signed(C!unpause(accounts.swap, accounts.admin), AdminContextKeys(accounts))

apply_new_admin(accounts) ==
    invoke_signed(C!apply_new_admin(accounts.swap, accounts.admin), AdminContextKeys(accounts))

commit_new_admin(accounts) ==
    invoke_signed(
        C!commit_new_admin(accounts.admin_ctx.swap, accounts.admin_ctx.admin,
                           accounts.new_admin),
        AdminContextKeys(accounts.admin_ctx) \cup {accounts.new_admin})

set_fee_account(accounts) ==
    invoke_signed(
        C!set_fee_account(accounts.admin_ctx.swap, accounts.admin_ctx.admin,
                          accounts.fee_account),
        AdminContextKeys(accounts.admin_ctx) \cup {accounts.fee_account})

set_new_fees(accounts, fees) ==
    invoke_signed(C!set_new_fees(accounts.swap, accounts.admin, fees),
                  AdminContextKeys(accounts))

\* The runtime asks the caller for every account that the instruction names.
Complete(call) == { call.ix.accounts[i].key : i \in DOMAIN call.ix.accounts } \subseteq call.keys

=============================================================================
