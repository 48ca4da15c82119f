------------------------------ MODULE Deployed ------------------------------
(***************************************************************************)
(* One pool under the program: the requests that concern it, and what they *)
(* have to do with each other.  The program is written for every pool; Pool *)
(* is about one, whose reserves, mints and users are known in advance.     *)
(* This module says which pool that is, and that the program implements it.*)
(***************************************************************************)
EXTENDS Program

CONSTANTS resA, resB    \* the reserves

VARIABLE info           \* the SwapInfo, decoded once for each state

deployedVars == <<programVars, info>>

Decode(data) == SwapInfo_unpack_unchecked(data).info

DeployedInit == Init /\ info = Decode(swap_data)

DeployedNext ==
    /\ Next
    /\ info' = IF swap_data' = swap_data THEN info ELSE Decode(swap_data')

DeployedSpec == DeployedInit /\ [][DeployedNext]_deployedVars

---------------------------------------------------------------------------
(* What is sent *)

NamedKeys ==
    {DefaultKey} \cup
    UNION { { request.accounts[i].key : i \in DOMAIN request.accounts } : request \in Requests }

AccountMetas == [key : NamedKeys, is_signer : BOOLEAN, is_writable : BOOLEAN]

SigningKeys ==
    UNION { { meta.key : meta \in { m \in ToSet(request.accounts) : m.is_signer } } :
              request \in Requests }

Understandable == { request \in Requests : Unpack(request.data).err = Ok }

\* The instructions in the requests, by the variant.
Sent(op) == { ix \in { Unpack(request.data).instruction : request \in Understandable } :
                ix.op = op }

SentAmps ==
    { ix.target_amp : ix \in Sent("RampA") } \cup { ix.amp_factor : ix \in Sent("Initialize") }

SentFees == { ix.fees : ix \in Sent("SetNewFees") \cup Sent("Initialize") }

SentStops == { ix.stop_ramp_ts : ix \in Sent("RampA") }

SentAmounts ==
    { ix.amount_in : ix \in Sent("Swap") } \cup
    { ix.token_a_amount : ix \in Sent("Deposit") } \cup
    { ix.token_b_amount : ix \in Sent("Deposit") } \cup
    { ix.pool_token_amount : ix \in Sent("Withdraw") \cup Sent("WithdrawOne") }

\* An account that Initialize would take for a reserve.
Fundable(key) ==
    /\ key \in TokenAccounts
    /\ owner[key] = Authority
    /\ key \notin Delegated \cup WithCloseAuthority

\* Everyone who initializes the pool makes the same one of it.
ASSUME DeployedAssumption ==
    /\ TokenA # TokenB /\ PoolMint \notin {TokenA, TokenB}
    /\ ADMIN_TRANSFER_DELAY \in Nat \ {0}
    /\ resA \in TokenAccounts /\ mint[resA] = TokenA
    /\ resB \in TokenAccounts /\ mint[resB] = TokenB
    /\ InitialAmounts \subseteq [TokenAccounts -> U64]
    \* What a key is
    /\ \A a \in TokenAccounts, nonce \in Byte : owner[a] # <<SwapKey, nonce>>
    /\ {DefaultKey, Authority} \cap SigningKeys = {}
    /\ \A m \in MintAccounts \ {PoolMint} : mint_authority[m] # Authority \/ m \in Freezable
    \* What a request is
    /\ \A request \in Requests :
          /\ request.accounts \in Seq(AccountMetas)
          /\ request.data \in Seq(Int)
          /\ \A i \in 2 .. Len(request.data) : request.data[i] \in Byte
    /\ SentFees # {}
    /\ \A request \in Understandable :
          Unpack(request.data).instruction.op = "Initialize" /\ Len(request.accounts) >= 12 =>
              /\ Fundable(request.accounts[7].key) => request.accounts[7].key = resA
              /\ Fundable(request.accounts[9].key) => request.accounts[9].key = resB

\* All of the pool's token accounts exist, and no call has failed.
OpenLedgers ==
    [amount : [TokenAccounts -> U64], supply : U64, open : {TokenAccounts}, ok : {TRUE}]

---------------------------------------------------------------------------
(* Properties *)

\* Between two instructions the swap account holds the encoding of a SwapInfo,
\* with numbers of the widths of its fields and keys that somebody named
\* (state.rs:160-254), and the ledger is one the token program can have.
DeployedTypeOK ==
    /\ now \in 0..MaxNow
    /\ ledger \in OpenLedgers
    /\ info \in SwapInfos(NamedKeys)
    /\ swap_data = SwapInfo_pack(info)

\* The accounts of the pool, in what is stored.
Wired(stored) ==
    /\ stored.nonce = PoolNonce /\ stored.pool_mint = PoolMint
    /\ stored.token_a.reserves = resA /\ stored.token_a.mint = TokenA
    /\ stored.token_b.reserves = resB /\ stored.token_b.mint = TokenB
    /\ stored.token_a.admin_fees \in { a \in TokenAccounts : mint[a] = TokenA }
    /\ stored.token_b.admin_fees \in { a \in TokenAccounts : mint[a] = TokenB }

\* From Initialize on the pool keeps its own accounts: the handlers compare the
\* accounts of an instruction with the ones that are stored (checks.rs), and
\* nothing but SetFeeAccount (admin.rs:193) may replace one of those, by an
\* account for the same token.
StaysWired ==
    info.is_initialized =>
        Wired(info) /\ owner[resA] = Authority /\ owner[resB] = Authority

\* Eight different numbers, in the order of the fields.
FeesOf(n) ==
    [ admin_trade_fee_numerator      |-> n[1], admin_trade_fee_denominator    |-> n[2],
      admin_withdraw_fee_numerator   |-> n[3], admin_withdraw_fee_denominator |-> n[4],
      trade_fee_numerator            |-> n[5], trade_fee_denominator          |-> n[6],
      withdraw_fee_numerator         |-> n[7], withdraw_fee_denominator       |-> n[8] ]

Schedule  == FeesOf(<<1, 2, 3, 4, 5, 20, 6, 24>>)
OtherFees == FeesOf(<<200, 201, 0, 17, 0, 18, 0, 255>>)

\* Some bytes of every length and with every tag.
TaggedBytes(tag, n) == <<tag>> \o [i \in 1..n |-> (5 * i + 3) % BYTE]

SomeBytes ==
    { TaggedBytes(tag, n) : tag \in 0..110, n \in 0..(FEES_LEN + WORD + 2) }

\* Instructions whose numbers are all different, of more than one digit or
\* negative.
Samples == <<
    [op |-> "RampA", target_amp |-> 18, stop_ramp_ts |-> -100],
    [op |-> "SetNewFees", fees |-> OtherFees],
    [op |-> "Initialize", nonce |-> 9, amp_factor |-> 19, fees |-> Schedule],
    [op |-> "Swap", amount_in |-> 250, minimum_amount_out |-> 33],
    [op |-> "Deposit", token_a_amount |-> 34, token_b_amount |-> 0, min_mint_amount |-> 255],
    [op |-> "Withdraw", pool_token_amount |-> 17, minimum_token_a_amount |-> 35,
                        minimum_token_b_amount |-> 36],
    [op |-> "WithdrawOne", pool_token_amount |-> 37, minimum_token_amount |-> 38] >>

\* The two decoders that share the tag byte (processor/mod.rs:27) and the two
\* encoders fit together: what a client packs is what the program dispatches
\* to, never taken for an instruction of the other kind, and whatever bytes the
\* program accepts, they begin with the encoding of what it takes them for.
\* (It depends on no state; that of the uninitialized pool stands for all.)
InstructionsDecodeAsSent ==
    ~info.is_initialized =>
        /\ \A i \in DOMAIN Samples : Unpack(Pack(Samples[i])) = Decoded(Samples[i])
        /\ \A data \in SomeBytes :
               LET r == Unpack(data)
               IN  r.err = Ok => IsPrefix(Pack(r.instruction), data)

\* Pool, and what is proved of it, with the accounts this pool was made with.
P == INSTANCE PoolProofs WITH
        Keys <- NamedKeys, NewAdmins <- NamedKeys, Users <- SigningKeys,
        TargetAmps <- SentAmps, StopTimes <- SentStops,
        FeeChoices <- SentFees, FeeAccounts <- TokenAccounts,
        reserves <- [m \in {TokenA, TokenB} |-> IF m = TokenA THEN resA ELSE resB],
        Destinations <- TokenAccounts, Amounts <- SentAmounts, Minimums <- {0},
        Donations <- {}, Closable <- {},
        is_initialized <- info.is_initialized, is_paused <- info.is_paused,
        initial_amp_factor <- info.initial_amp_factor,
        target_amp_factor <- info.target_amp_factor,
        start_ramp_ts <- info.start_ramp_ts, stop_ramp_ts <- info.stop_ramp_ts,
        admin_key <- info.admin_key, future_admin_key <- info.future_admin_key,
        future_admin_deadline <- info.future_admin_deadline,
        \* Pool chooses these two before Initialize sets them.
        fees <- IF info.is_initialized THEN info.fees ELSE CHOOSE f \in SentFees : TRUE,
        admin_fees <-
            [ m \in {TokenA, TokenB} |->
                IF ~info.is_initialized THEN (IF m = TokenA THEN resA ELSE resB)
                ELSE IF m = TokenA THEN info.token_a.admin_fees ELSE info.token_b.admin_fees ]

\* The program is the pool that Pool describes: whatever instruction it
\* accepts, in whatever form, what the handler does to the bytes of SwapInfo
\* and to the token accounts it was given is a step of Pool
\* (processor/mod.rs:24 down to state.rs:140), made with the pool's own
\* accounts; so what is checked and proved of Pool holds of the program.
ProgramRefinesPool == P!Spec

=============================================================================
