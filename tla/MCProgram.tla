------------------------------ MODULE MCProgram ------------------------------
(***************************************************************************)
(* A small pool under the whole program for TLC: accounts by name, the     *)
(* instructions that are sent to it, and those instructions with one slip  *)
(* each.                                                                   *)
(***************************************************************************)
EXTENDS FuzzHarness, Deployed

CONSTANTS
    PoolKey, u1, u2, collector,     \* signers; the collector is the admin
    lpMint, oddMint,
    feeA, feeB,                     \* fee accounts of the collector
    myA, myB, myLP,                 \* accounts of u1
    yourB,                          \* of u2
    founderLP,                      \* where Initialize mints to
    oddA,                           \* of mint A under the pool's authority, delegated
    AnchorProgram,
    MaxSteps                        \* bound on the changes of a behaviour

MCTokenAccounts == {resA, resB, feeA, feeB, myA, myB, myLP, yourB, founderLP, oddA}

MCMint == [ a \in MCTokenAccounts |->
              CASE a \in {resA, feeA, myA, oddA}  -> TokenA
                [] a \in {resB, feeB, myB, yourB} -> TokenB
                [] OTHER                          -> lpMint ]

MCOwner == [ a \in MCTokenAccounts |->
               CASE a \in {resA, resB, oddA}      -> PoolKey
                 [] a \in {feeA, feeB, founderLP} -> collector
                 [] a = yourB                     -> u2
                 [] OTHER                         -> u1 ]

MCMintAuthority ==
    [ m \in {TokenA, TokenB, lpMint, oddMint} |->
        IF m \in {lpMint, oddMint} THEN PoolKey ELSE collector ]

MCDecimals == [m \in {TokenA, TokenB, lpMint, oddMint} |-> IF m = oddMint THEN 9 ELSE 6]

SmallAmounts ==
    { [ t \in MCTokenAccounts |->
          CASE t \in {resA, resB, oddA} -> 3 [] t \in {myA, myB} -> 2 [] t = yourB -> 1
            [] OTHER -> 0 ] }

MCStableSwap ==
    [ nonce |-> PoolNonce, swap_account |-> SwapKey, authority_account |-> PoolKey,
      pool_mint_account |-> lpMint, pool_token_account |-> founderLP,
      token_a_account |-> resA, token_a_mint_account |-> TokenA,
      token_b_account |-> resB, token_b_mint_account |-> TokenB,
      admin_account |-> collector, admin_fee_a_account |-> feeA,
      admin_fee_b_account |-> feeB, token_program_account |-> TokenProgram ]

---------------------------------------------------------------------------
(* The instructions *)

InitializeRequest == NewNativeStableSwap(2, Schedule).instruction

\* Those of u1, and of the collector, who is the only holder of LP tokens at
\* first.
UserRequests == <<
    swap_a_to_b(u1, myA, myB, 2, 0).instruction,
    swap_b_to_a(u1, myA, myB, 2, 0).instruction,
    deposit(u1, myA, myB, myLP, 2, 2, 0).instruction,
    withdraw(u1, myA, myB, myLP, 2, 0, 0).instruction,
    withdraw_one(u1, myA, myLP, "TokenA", 2, 0).instruction,
    withdraw_one(u1, myB, myLP, "TokenB", 2, 0).instruction,
    withdraw(collector, feeA, feeB, founderLP, 2, 0, 0).instruction >>

AdminRequests == <<
    C!ramp_a(SwapKey, collector, 4, 2),
    C!stop_ramp_a(SwapKey, collector),
    C!pause(SwapKey, collector),
    C!unpause(SwapKey, collector),
    C!set_fee_account(SwapKey, collector, myA),
    C!set_new_fees(SwapKey, collector, OtherFees),
    C!commit_new_admin(SwapKey, collector, u1),
    C!apply_new_admin(SwapKey, collector) >>

\* A minimum that is not met.
GreedyRequests == <<
    swap_a_to_b(u1, myA, myB, 2, 9).instruction,
    deposit(u1, myA, myB, myLP, 2, 2, 9).instruction,
    withdraw(collector, feeA, feeB, founderLP, 2, 0, 9).instruction,
    withdraw_one(u1, myA, myLP, "TokenA", 2, 9).instruction >>

AllRequests == <<InitializeRequest>> \o UserRequests \o AdminRequests

Honest == ToSet(AllRequests)

---------------------------------------------------------------------------
(* The slips *)

Decoys == {u2, oddA, yourB, founderLP, oddMint}

\* The positions at which an instruction with another account would not be
\* wrong, just another instruction.
FreePositions(request) ==
    CASE request.data[1] = 0 -> {3, 4, 5, 11}   \* admin, its accounts, destination
      [] request.data[1] = 1 -> {7}             \* destinations
      [] request.data[1] = 2 -> {9}
      [] request.data[1] = 3 -> {8, 9}
      [] request.data[1] = 4 -> {8}
      [] OTHER               -> {3}             \* the new admin or fee account

Substitutions(request) ==
    { [request EXCEPT !.accounts[i].key = key] :
        i \in DOMAIN request.accounts \ FreePositions(request), key \in Decoys } \ {request}

Exchanges(request) ==
    { [request EXCEPT !.accounts[i] = request.accounts[i + 1],
                      !.accounts[i + 1] = request.accounts[i]] :
        i \in 1..(Len(request.accounts) - 1) }

Unsigned(request) ==
    [request EXCEPT !.accounts =
        [i \in DOMAIN request.accounts |-> [request.accounts[i] EXCEPT !.is_signer = FALSE]]]

Readonly(request) ==
    [request EXCEPT !.accounts =
        [i \in DOMAIN request.accounts |-> [request.accounts[i] EXCEPT !.is_writable = FALSE]]]

\* Initialize asks for nobody's signature.
Slips(request) ==
    (IF request = InitializeRequest THEN {} ELSE {Unsigned(request)}) \cup
    Substitutions(request) \cup Exchanges(request) \cup
    { Readonly(request),
      [request EXCEPT !.accounts = Front(@)],
      [request EXCEPT !.data = Front(@)],
      [request EXCEPT !.data[1] = 50] }

\* More data than is read.
Padded(request) == [request EXCEPT !.data = Append(@, 0)]

MCRequests ==
    Honest \cup ToSet(GreedyRequests) \cup
    { Padded(request) : request \in Honest } \cup UNION { Slips(request) : request \in Honest }

---------------------------------------------------------------------------
(* A bound on the number of changes. *)

VARIABLE steps

MCInit == DeployedInit /\ steps = 0

MCNext ==
    /\ DeployedNext
    /\ steps' = IF UNCHANGED programVars THEN steps ELSE steps + 1
    /\ steps' <= MaxSteps

MCSpec == MCInit /\ [][MCNext]_<<deployedVars, steps>>

---------------------------------------------------------------------------
(* The calls of another program through the Anchor crate, in the order of  *)
(* AllRequests.                                                            *)

A == INSTANCE AnchorCpi WITH StableSwapProgram <- AnchorProgram

UserCtx(user) == A!SwapUserContext(TokenProgram, PoolKey, user, SwapKey)
AdminCtx      == A!AdminUserContext(collector, SwapKey)

OutputA(account) == A!SwapOutput(A!SwapToken(account, resA), feeA)
OutputB(account) == A!SwapOutput(A!SwapToken(account, resB), feeB)

Redeem(user, lp, a, b) ==
    [ user |-> UserCtx(user), input_lp |-> lp, pool_mint |-> lpMint,
      output_a |-> OutputA(a), output_b |-> OutputB(b) ]

RedeemOne(output, quote) ==
    [ user |-> UserCtx(u1), pool_mint |-> lpMint, input_lp |-> myLP,
      quote_reserves |-> quote, output |-> output ]

AnchorCalls == <<
    A!initialize(
        [ swap |-> SwapKey, swap_authority |-> PoolKey, admin |-> collector,
          token_a |-> A!InitToken(resA, feeA, TokenA),
          token_b |-> A!InitToken(resB, feeB, TokenB),
          pool_mint |-> lpMint, output_lp |-> founderLP, token_program |-> TokenProgram ],
        PoolNonce, 2, Schedule),
    A!swap([ user |-> UserCtx(u1), input |-> A!SwapToken(myA, resA),
             output |-> OutputB(myB) ], 2, 0),
    A!swap([ user |-> UserCtx(u1), input |-> A!SwapToken(myB, resB),
             output |-> OutputA(myA) ], 2, 0),
    A!deposit([ user |-> UserCtx(u1), input_a |-> A!SwapToken(myA, resA),
                input_b |-> A!SwapToken(myB, resB), pool_mint |-> lpMint,
                output_lp |-> myLP ], 2, 2, 0),
    A!withdraw(Redeem(u1, myLP, myA, myB), 2, 0, 0),
    A!withdraw_one(RedeemOne(OutputA(myA), resB), 2, 0),
    A!withdraw_one(RedeemOne(OutputB(myB), resA), 2, 0),
    A!withdraw(Redeem(collector, founderLP, feeA, feeB), 2, 0, 0),
    A!ramp_a(AdminCtx, 4, 2),
    A!stop_ramp_a(AdminCtx),
    A!pause(AdminCtx),
    A!unpause(AdminCtx),
    A!set_fee_account([admin_ctx |-> AdminCtx, fee_account |-> myA]),
    A!set_new_fees(AdminCtx, OtherFees),
    A!commit_new_admin([admin_ctx |-> AdminCtx, new_admin |-> u1]),
    A!apply_new_admin(AdminCtx) >>

---------------------------------------------------------------------------
(* Properties *)

\* A pool is called in three ways: by the builders of the client crate, by the
\* wrappers of the Anchor crate and by the fuzz harness.  A wrapper, which
\* takes the same accounts in structs of another shape and order
\* (stable-swap-anchor/src/instructions.rs), has the effect of the builder's
\* instruction, and passes on every account that it names.
AnchorCallsAgree ==
    \A i \in DOMAIN AnchorCalls :
        /\ A!Complete(AnchorCalls[i])
        /\ Cardinality({ process_instruction(request) :
                            request \in {AnchorCalls[i].ix, AllRequests[i]} }) = 1

OnlyItselfAccepted(request, result) ==
    result[request].err = Ok =>
        \A slip \in DOMAIN result \ {request} :
            \/ result[slip].err # Ok
            \/ result[request] = NothingToDo /\ slip = Readonly(request)

\* Nobody gets an instruction through with a slip in it: where the program
\* accepts an instruction, it refuses the same one with another account in the
\* place of one that the pool, the user or the instruction has tied down, with
\* two accounts exchanged, without the signature, the last account or the last
\* byte, with another tag, and, if it changes anything, without write access
\* (checks.rs, the checks in swap.rs and the token program between them).
SlipsRefused ==
    \A request \in Honest :
        OnlyItselfAccepted(request,
            [slip \in Slips(request) \cup {request} |-> process_instruction(slip)])

=============================================================================
