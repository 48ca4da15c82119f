------------------------------ MODULE Encoding ------------------------------
(***************************************************************************)
(* How instructions and the SwapInfo account are laid out in bytes:        *)
(* stable-swap-client/src/instruction.rs, state.rs and fees.rs.            *)
(*                                                                         *)
(* A buffer is a sequence of cells.  A u64 or an i64 takes WORD cells, its *)
(* digits to the base BYTE; a tag, a bool and a nonce take one.  A public  *)
(* key is one cell too, which holds the key itself: the 32 bytes of a key  *)
(* are only ever copied.                                                   *)
(*                                                                         *)
(* A Result is a record with err, Ok when there is a value.                *)
(* A definition marked "mutant" is the next one with a mistake in it: the  *)
(* properties are tested against it, and nothing else uses it.             *)
(***************************************************************************)
EXTENDS FeeMath, SequencesExt

CONSTANTS
    BYTE,   \* 256
    WORD    \* 8: the bytes of a u64

\* What a one in the k-th place counts.
Power[k \in 0..WORD] == IF k = 0 THEN 1 ELSE BYTE * Power[k - 1]

ASSUME EncodingAssumption ==
    /\ BYTE \in Nat \ {0} /\ WORD \in Nat \ {0}
    /\ Power[WORD] = U64_MAX + 1

Ok == "Ok"

Refused(error) == [err |-> error]

---------------------------------------------------------------------------
(* Integers *)

Byte == 0 .. BYTE - 1

\* The range of an i64.
I64 == - (U64_MAX - U64_MAX \div 2) .. U64_MAX \div 2

\* Of a u64, and in two's complement of an i64: both \div and % round down.
to_le_bytes(n) == [ i \in 1..WORD |-> (n \div Power[i - 1]) % BYTE ]

\* The sum of what the digits count.
u64_from_le_bytes(bytes) ==
    LET low[k \in 0..WORD] ==
            IF k = 0 THEN 0 ELSE low[k - 1] + bytes[k] * Power[k - 1]
    IN  low[WORD]

i64_from_le_bytes(bytes) ==
    LET n == u64_from_le_bytes(bytes)
    IN  IF n <= U64_MAX \div 2 THEN n ELSE n - (U64_MAX + 1)

\* The i-th word of a buffer of words.
WordAt(buffer, i) == SubSeq(buffer, (i - 1) * WORD + 1, i * WORD)

unpack_u64(input, i) == u64_from_le_bytes(WordAt(input, i))
unpack_i64(input, i) == i64_from_le_bytes(WordAt(input, i))

\* One of n successive calls of unpack_u64 returns InvalidInstruction.
TooShort(input, n) == Len(input) < n * WORD

\* Where the first i of consecutive fields of the given lengths end; the fields
\* of a buffer.
FieldEnds(lengths) ==
    LET end[i \in 0..Len(lengths)] == IF i = 0 THEN 0 ELSE end[i - 1] + lengths[i]
    IN  end

array_refs(buffer, ends) ==
    [ i \in DOMAIN ends \ {0} |-> SubSeq(buffer, ends[i - 1] + 1, ends[i]) ]

---------------------------------------------------------------------------
(* Fees *)

FEES_LEN == 8 * WORD

Fees_pack(fees) ==
    to_le_bytes(fees.admin_trade_fee_numerator)
    \o to_le_bytes(fees.admin_trade_fee_denominator)
    \o to_le_bytes(fees.admin_withdraw_fee_numerator)
    \o to_le_bytes(fees.admin_withdraw_fee_denominator)
    \o to_le_bytes(fees.trade_fee_numerator)
    \o to_le_bytes(fees.trade_fee_denominator)
    \o to_le_bytes(fees.withdraw_fee_numerator)
    \o to_le_bytes(fees.withdraw_fee_denominator)

\* mutant: two neighbouring fields are taken for each other.
Fees_unpack_from_slice_swapped(input) ==
    [ admin_trade_fee_numerator      |-> unpack_u64(input, 1),
      admin_trade_fee_denominator    |-> unpack_u64(input, 2),
      admin_withdraw_fee_numerator   |-> unpack_u64(input, 5),
      admin_withdraw_fee_denominator |-> unpack_u64(input, 4),
      trade_fee_numerator            |-> unpack_u64(input, 3),
      trade_fee_denominator          |-> unpack_u64(input, 6),
      withdraw_fee_numerator         |-> unpack_u64(input, 7),
      withdraw_fee_denominator       |-> unpack_u64(input, 8) ]

Fees_unpack_from_slice(input) ==
    [ admin_trade_fee_numerator      |-> unpack_u64(input, 1),
      admin_trade_fee_denominator    |-> unpack_u64(input, 2),
      admin_withdraw_fee_numerator   |-> unpack_u64(input, 3),
      admin_withdraw_fee_denominator |-> unpack_u64(input, 4),
      trade_fee_numerator            |-> unpack_u64(input, 5),
      trade_fee_denominator          |-> unpack_u64(input, 6),
      withdraw_fee_numerator         |-> unpack_u64(input, 7),
      withdraw_fee_denominator       |-> unpack_u64(input, 8) ]

\* Pack::unpack_unchecked asks for the exact length.
FeesFit(input) == Len(input) = FEES_LEN

---------------------------------------------------------------------------
(* SwapInfo *)

\* Its 18 fields.
SwapInfoLayout == FieldEnds(<<1, 1, 1, WORD, WORD, WORD, WORD, WORD>>
                            \o [i \in 1..9 |-> 1] \o <<FEES_LEN>>)

SWAP_INFO_LEN == 12 + 13 * WORD

bool_byte(b) == IF b THEN 1 ELSE 0

SwapInfo_pack(info) ==
    <<bool_byte(info.is_initialized), bool_byte(info.is_paused), info.nonce>>
    \o to_le_bytes(info.initial_amp_factor)
    \o to_le_bytes(info.target_amp_factor)
    \o to_le_bytes(info.start_ramp_ts)
    \o to_le_bytes(info.stop_ramp_ts)
    \o to_le_bytes(info.future_admin_deadline)
    \o <<info.future_admin_key, info.admin_key,
         info.token_a.reserves, info.token_b.reserves, info.pool_mint,
         info.token_a.mint, info.token_b.mint,
         info.token_a.admin_fees, info.token_b.admin_fees>>
    \o Fees_pack(info.fees)

\* What it can hold, with keys from the set keys.
TokenInfos(keys, i) == [reserves : keys, mint : keys, admin_fees : keys, index : {i}]

SwapInfos(keys) ==
    [ is_initialized : BOOLEAN, is_paused : BOOLEAN, nonce : Byte,
      initial_amp_factor : U64, target_amp_factor : U64,
      start_ramp_ts : I64, stop_ramp_ts : I64, future_admin_deadline : I64,
      future_admin_key : keys, admin_key : keys,
      token_a : TokenInfos(keys, 0), token_b : TokenInfos(keys, 1),
      pool_mint : keys, fees : Fees ]

SwapTokenInfo(reserves, mint, admin_fees, index) ==
    [reserves |-> reserves, mint |-> mint, admin_fees |-> admin_fees, index |-> index]

SwapInfo_unpack_from_slice(input) ==
    LET f == array_refs(input, SwapInfoLayout)
    IN  IF ~({f[1], f[2]} \subseteq {<<0>>, <<1>>}) THEN Refused("InvalidAccountData")
        ELSE [ err |-> Ok,
               info |-> [ is_initialized        |-> f[1] = <<1>>,
                          is_paused             |-> f[2] = <<1>>,
                          nonce                 |-> f[3][1],
                          initial_amp_factor    |-> u64_from_le_bytes(f[4]),
                          target_amp_factor     |-> u64_from_le_bytes(f[5]),
                          start_ramp_ts         |-> i64_from_le_bytes(f[6]),
                          stop_ramp_ts          |-> i64_from_le_bytes(f[7]),
                          future_admin_deadline |-> i64_from_le_bytes(f[8]),
                          future_admin_key      |-> f[9][1],
                          admin_key             |-> f[10][1],
                          token_a   |-> SwapTokenInfo(f[11][1], f[14][1], f[16][1], 0),
                          token_b   |-> SwapTokenInfo(f[12][1], f[15][1], f[17][1], 1),
                          pool_mint |-> f[13][1],
                          fees      |-> Fees_unpack_from_slice(f[18]) ] ]

\* Pack::unpack_unchecked, and Pack::unpack, which also wants IsInitialized.
SwapInfo_unpack_unchecked(input) ==
    IF Len(input) # SWAP_INFO_LEN THEN Refused("InvalidAccountData")
    ELSE SwapInfo_unpack_from_slice(input)

SwapInfo_unpack(input) ==
    LET r == SwapInfo_unpack_unchecked(input)
    IN  IF r.err = Ok /\ ~r.info.is_initialized THEN Refused("UninitializedAccount") ELSE r

---------------------------------------------------------------------------
(* AdminInstruction and SwapInstruction.  An instruction is a record: op   *)
(* names the variant, the other fields are those of its data.              *)

NotAdmin == [op |-> "None"]

Decoded(instruction) == [err |-> Ok, instruction |-> instruction]

AdminTags ==
    [ RampA |-> 100, StopRampA |-> 101, Pause |-> 102, Unpause |-> 103,
      SetFeeAccount |-> 104, ApplyNewAdmin |-> 105, CommitNewAdmin |-> 106,
      SetNewFees |-> 107 ]

AdminInstruction_pack(ix) ==
    <<AdminTags[ix.op]>>
    \o CASE ix.op = "RampA" -> to_le_bytes(ix.target_amp) \o to_le_bytes(ix.stop_ramp_ts)
         [] ix.op = "SetNewFees" -> Fees_pack(ix.fees)
         [] OTHER -> << >>

AdminInstruction_unpack(input) ==
    IF input = << >> THEN Refused("InvalidInstruction")
    ELSE LET tag  == Head(input)
             rest == Tail(input)
         IN  CASE tag = 100 ->
                    IF TooShort(rest, 2) THEN Refused("InvalidInstruction")
                    ELSE Decoded([ op |-> "RampA", target_amp |-> unpack_u64(rest, 1),
                                   stop_ramp_ts |-> unpack_i64(rest, 2) ])
               [] tag = 101 -> Decoded([op |-> "StopRampA"])
               [] tag = 102 -> Decoded([op |-> "Pause"])
               [] tag = 103 -> Decoded([op |-> "Unpause"])
               [] tag = 104 -> Decoded([op |-> "SetFeeAccount"])
               [] tag = 105 -> Decoded([op |-> "ApplyNewAdmin"])
               [] tag = 106 -> Decoded([op |-> "CommitNewAdmin"])
               [] tag = 107 ->
                    IF ~FeesFit(rest) THEN Refused("InvalidAccountData")
                    ELSE Decoded([op |-> "SetNewFees", fees |-> Fees_unpack_from_slice(rest)])
               [] OTHER -> Decoded(NotAdmin)

SwapInstruction_pack(ix) ==
    CASE ix.op = "Initialize" ->
            <<0, ix.nonce>> \o to_le_bytes(ix.amp_factor) \o Fees_pack(ix.fees)
      [] ix.op = "Swap" ->
            <<1>> \o to_le_bytes(ix.amount_in) \o to_le_bytes(ix.minimum_amount_out)
      [] ix.op = "Deposit" ->
            <<2>> \o to_le_bytes(ix.token_a_amount) \o to_le_bytes(ix.token_b_amount)
                  \o to_le_bytes(ix.min_mint_amount)
      [] ix.op = "Withdraw" ->
            <<3>> \o to_le_bytes(ix.pool_token_amount)
                  \o to_le_bytes(ix.minimum_token_a_amount)
                  \o to_le_bytes(ix.minimum_token_b_amount)
      [] ix.op = "WithdrawOne" ->
            <<4>> \o to_le_bytes(ix.pool_token_amount) \o to_le_bytes(ix.minimum_token_amount)

SwapInstruction_unpack(input) ==
    IF input = << >> THEN Refused("InvalidInstruction")
    ELSE LET tag  == Head(input)
             rest == Tail(input)
             Data(words, instruction) ==
                IF TooShort(rest, words) THEN Refused("InvalidInstruction")
                ELSE Decoded(instruction)
         IN  CASE tag = 0 ->
                    IF rest = << >> \/ TooShort(Tail(rest), 1)
                    THEN Refused("InvalidInstruction")
                    ELSE LET fees == SubSeq(rest, WORD + 2, Len(rest))
                         IN  IF ~FeesFit(fees) THEN Refused("InvalidAccountData")
                             ELSE Decoded([ op         |-> "Initialize",
                                            nonce      |-> Head(rest),
                                            amp_factor |-> unpack_u64(Tail(rest), 1),
                                            fees       |-> Fees_unpack_from_slice(fees) ])
               [] tag = 1 -> Data(2, [ op |-> "Swap",
                                       amount_in              |-> unpack_u64(rest, 1),
                                       minimum_amount_out     |-> unpack_u64(rest, 2) ])
               [] tag = 2 -> Data(3, [ op |-> "Deposit",
                                       token_a_amount         |-> unpack_u64(rest, 1),
                                       token_b_amount         |-> unpack_u64(rest, 2),
                                       min_mint_amount        |-> unpack_u64(rest, 3) ])
               [] tag = 3 -> Data(3, [ op |-> "Withdraw",
                                       pool_token_amount      |-> unpack_u64(rest, 1),
                                       minimum_token_a_amount |-> unpack_u64(rest, 2),
                                       minimum_token_b_amount |-> unpack_u64(rest, 3) ])
               [] tag = 4 -> Data(2, [ op |-> "WithdrawOne",
                                       pool_token_amount      |-> unpack_u64(rest, 1),
                                       minimum_token_amount   |-> unpack_u64(rest, 2) ])
               [] OTHER -> Refused("InvalidInstruction")

\* Any instruction, packed by its own enum, and what Processor::process makes of
\* the data: AdminInstruction goes first.
Pack(ix) == IF ix.op \in DOMAIN AdminTags THEN AdminInstruction_pack(ix)
                                          ELSE SwapInstruction_pack(ix)

Unpack(input) ==
    LET admin == AdminInstruction_unpack(input)
    IN  IF admin.err = Ok /\ admin.instruction = NotAdmin
        THEN SwapInstruction_unpack(input) ELSE admin

=============================================================================
