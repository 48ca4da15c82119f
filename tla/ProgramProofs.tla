--------------------------- MODULE ProgramProofs ---------------------------
(***************************************************************************)
(* The program, from the bytes it is given, implements Pool.               *)
(*                                                                         *)
(* Everything Pool promises is about a pool whose accounts are the right   *)
(* ones and whose state is there.  The program has only what it is sent:   *)
(* a list of accounts, in which any key may stand anywhere, and the bytes  *)
(* of the swap account.  It is shown here that whatever it accepts is      *)
(* a step of Pool, with the accounts that the pool was made with:          *)
(*   - the bytes are always those of a SwapInfo (DeployedTypeOK), so that  *)
(*     every handler works with what the handler before it left;           *)
(*   - an initialized pool stays wired to its accounts (StaysWired), so    *)
(*     that to compare with what is stored is to compare with those;       *)
(*   - the checks of a handler are exactly passed by the guards of the     *)
(*     action of Pool that it stands for, and the calls it makes leave the *)
(*     ledger that the action leaves.                                      *)
(* The two invariants are inductive only together, and the refinement      *)
(* needs both.                                                             *)
(***************************************************************************)
EXTENDS Deployed, EncodingProofs

---------------------------------------------------------------------------
(* Samples of the encodings *)

LEMMA SamplesAreInstructions ==
    ASSUME U64_MAX >= 255, BYTE >= 16
    PROVE  \A i \in DOMAIN Samples : Samples[i] \in AdminInstructions \cup SwapInstructions
<1>1. \A n \in 0 .. 255 : n \in U64
  BY WidthAssumption DEF U64
<1>2. -100 \in I64
  BY WidthAssumption DEF I64
<1>3. 9 \in Byte
  BY EncodingAssumption DEF Byte
<1>4. Schedule \in Fees /\ OtherFees \in Fees
  BY <1>1 DEF Schedule, OtherFees, FeesOf, Fees
<1>5. /\ Samples[1] \in AdminInstructions /\ Samples[2] \in AdminInstructions
      /\ Samples[3] \in SwapInstructions /\ Samples[4] \in SwapInstructions
      /\ Samples[5] \in SwapInstructions /\ Samples[6] \in SwapInstructions
      /\ Samples[7] \in SwapInstructions
  BY <1>1, <1>2, <1>3, <1>4 DEF Samples, AdminInstructions, SwapInstructions
<1>6. DOMAIN Samples = 1 .. 7
  BY DEF Samples
<1> QED
  BY <1>5, <1>6

LEMMA SomeBytesAreBytes ==
    ASSUME NEW data \in SomeBytes
    PROVE  data \in Seq(Int) /\ \A i \in 2 .. Len(data) : data[i] \in Byte
<1>1. PICK tag \in 0 .. 110, n \in 0 .. FEES_LEN + WORD + 2 : data = TaggedBytes(tag, n)
  BY DEF SomeBytes
<1> DEFINE t == <<tag>>
           s == [i \in 1 .. n |-> (5 * i + 3) % BYTE]
<1>2. n \in Nat
  BY EncodingAssumption DEF FEES_LEN
<1>3. \A i \in 1 .. n : (5 * i + 3) % BYTE \in Byte
  BY EncodingAssumption DEF Byte
<1>4. s \in [1 .. n -> Byte]
  BY <1>3
<1>5. t \in Seq(Int) /\ Len(t) = 1
  OBVIOUS
<1> HIDE DEF s, t
<1>6. s \in Seq(Int) /\ Len(s) = n /\ \A i \in 1 .. n : s[i] \in Byte
  BY <1>2, <1>4, EncodingAssumption DEF Byte
<1>7. data = t \o s
  BY <1>1 DEF s, t, TaggedBytes
<1>8. data \in Seq(Int) /\ data # << >> /\ Tail(data) = s
  <2>1. tag \in Int
    OBVIOUS
  <2> QED
    BY <1>6, <1>7, <2>1, Tagged DEF t
<1>9. /\ Len(Tail(data)) = Len(data) - 1
      /\ \A i \in 1 .. Len(Tail(data)) : Tail(data)[i] = data[i + 1]
  BY <1>8, HeadTailProperties
<1>10. Len(data) \in Nat /\ Len(data) - 1 = n
  <2>1. Len(Tail(data)) = n
    BY <1>6, <1>8
  <2>2. Len(data) \in Nat
    BY <1>8, LenProperties
  <2> QED
    BY <1>9, <2>1, <2>2
<1> SUFFICES ASSUME NEW i \in 2 .. Len(data)
             PROVE  data[i] \in Byte
  BY <1>8
<1>11. i - 1 \in 1 .. n /\ i - 1 + 1 = i
  BY <1>2, <1>10
<1>12. Tail(data)[i - 1] = data[i]
  BY <1>9, <1>10, <1>11
<1> QED
  BY <1>6, <1>8, <1>11, <1>12

\* The two decoders and the two encoders fit together, as the run checks on
\* samples (InstructionsDecodeAsSent): from the two theorems before this one.
\* The numbers of the samples ask for a word of 8 bits and a byte of 4.
THEOREM InstructionsAreDecodedAsSent ==
    ASSUME U64_MAX >= 255, BYTE >= 16
    PROVE  DeployedSpec => []InstructionsDecodeAsSent
<1>1. \A i \in DOMAIN Samples : Unpack(Pack(Samples[i])) = Decoded(Samples[i])
  BY SamplesAreInstructions, InstructionsRoundTrip
<1>2. ASSUME NEW data \in SomeBytes, Unpack(data).err = Ok
      PROVE  IsPrefix(Pack(Unpack(data).instruction), data)
  <2>1. Understood(data)
    BY <1>2, SomeBytesAreBytes, AcceptedBytesAreUnderstood
  <2> QED
    BY <2>1 DEF Understood
<1>3. InstructionsDecodeAsSent
  BY <1>1, <1>2 DEF InstructionsDecodeAsSent
<1> QED
  BY <1>3, PTL

---------------------------------------------------------------------------
(* The instance P computes what the program computes *)

\* Pool and Program extend the same modules, and P has its own copy of each of
\* their definitions, some of them under a name of its own.  Here the copies are
\* identified, from the widths up to the curve and the token calls.

LEMMA SameNumbers ==
    /\ P!None = None /\ P!U64 = U64 /\ P!N_COINS = N_COINS /\ P!Fees = Fees
    /\ P!Mints = {TokenA, TokenB} /\ P!MAX_A_CHANGE = 10 /\ P!ZERO_TS = ZERO_TS
BY DEF P!None, None, P!U64, U64, P!N_COINS, N_COINS, P!Fees, Fees, P!Mints, P!MAX_A_CHANGE,
       P!ZERO_TS, ZERO_TS

LEMMA SameChecked ==
    ASSUME NEW a, NEW b, NEW c
    PROVE  /\ P!CheckedAdd(a, b, c) = CheckedAdd(a, b, c)
           /\ P!CheckedSub(a, b) = CheckedSub(a, b)
           /\ P!CheckedMul(a, b, c) = CheckedMul(a, b, c)
           /\ P!CheckedDiv(a, b) = CheckedDiv(a, b)
           /\ P!ToU64(a) = ToU64(a)
BY SameNumbers DEF P!CheckedAdd, CheckedAdd, P!CheckedSub, CheckedSub, P!CheckedMul, CheckedMul,
       P!CheckedDiv, CheckedDiv, P!ToU64, ToU64

LEMMA SameWide ==
    ASSUME NEW a, NEW b, NEW c
    PROVE  /\ P!Add64(a, b) = Add64(a, b) /\ P!Mul64(a, b) = Mul64(a, b)
           /\ P!Add192(a, b) = Add192(a, b) /\ P!Mul192(a, b) = Mul192(a, b)
           /\ P!MulDiv192(a, b, c) = MulDiv192(a, b, c)
BY SameChecked DEF P!Add64, Add64, P!Mul64, Mul64, P!Add192, Add192, P!Mul192, Mul192,
       P!MulDiv192, MulDiv192

LEMMA SameFeeMath ==
    ASSUME NEW a, NEW b, NEW c
    PROVE  /\ P!mul_div(a, b, c) = mul_div(a, b, c)
           /\ P!mul_div_imbalanced(a, b, c) = mul_div_imbalanced(a, b, c)
BY SameChecked DEF P!mul_div, mul_div, P!mul_div_imbalanced, mul_div_imbalanced,
       P!WideMulDiv, WideMulDiv, P!NarrowMulDiv, NarrowMulDiv

LEMMA SameFees ==
    ASSUME NEW f, NEW a
    PROVE  /\ P!admin_trade_fee(f, a) = admin_trade_fee(f, a)
           /\ P!admin_withdraw_fee(f, a) = admin_withdraw_fee(f, a)
           /\ P!trade_fee(f, a) = trade_fee(f, a)
           /\ P!withdraw_fee(f, a) = withdraw_fee(f, a)
           /\ P!normalized_trade_fee(f, a) = normalized_trade_fee(f, a)
BY SameFeeMath, SameNumbers
    DEF P!admin_trade_fee, admin_trade_fee, P!admin_withdraw_fee, admin_withdraw_fee,
        P!trade_fee, trade_fee, P!withdraw_fee, withdraw_fee,
        P!normalized_trade_fee, normalized_trade_fee

LEMMA SameNewton == ASSUME NEW step, NEW start PROVE P!Newton(step, start) = Newton(step, start)
BY DEF P!Newton, Newton, P!Converged, Converged, P!None, None

LEMMA SameNextD ==
    ASSUME NEW amp, NEW d, NEW p, NEW s
    PROVE  P!compute_next_d(amp, d, p, s) = compute_next_d(amp, d, p, s)
BY SameChecked, SameWide, SameNumbers DEF P!compute_next_d, compute_next_d

LEMMA SameD ==
    ASSUME NEW amp, NEW a, NEW b
    PROVE  P!compute_d(amp, a, b) = compute_d(amp, a, b)
<1> DEFINE sum == Add64(a, b)
           ac == Mul64(a, N_COINS)
           bc == Mul64(b, N_COINS)
           psum == P!Add64(a, b)
           pac == P!Mul64(a, P!N_COINS)
           pbc == P!Mul64(b, P!N_COINS)
           step == [d \in Nat |-> compute_next_d(amp, d,
                        MulDiv192(MulDiv192(d, d, ac), d, bc), sum)]
           pstep == [d \in Nat |-> P!compute_next_d(amp, d,
                        P!MulDiv192(P!MulDiv192(d, d, pac), d, pbc), psum)]
<1>1. psum = sum /\ pac = ac /\ pbc = bc
  BY SameWide, SameNumbers
<1>2. pstep = step
  <2> HIDE DEF sum, ac, bc, psum, pac, pbc
  <2> QED
    BY <1>1, SameWide, SameNextD
<1>3. compute_d(amp, a, b) =
        IF sum = 0 THEN 0
        ELSE IF sum = None \/ ac = None \/ bc = None THEN None
        ELSE Newton(step, sum)
  BY DEF compute_d
<1>4. P!compute_d(amp, a, b) =
        IF psum = 0 THEN 0
        ELSE IF psum = P!None \/ pac = P!None \/ pbc = P!None THEN P!None
        ELSE P!Newton(pstep, psum)
  BY DEF P!compute_d
<1> HIDE DEF sum, ac, bc, psum, pac, pbc, step, pstep
<1> QED
  BY <1>1, <1>2, <1>3, <1>4, SameNewton, SameNumbers

LEMMA SameY ==
    ASSUME NEW amp, NEW x, NEW d
    PROVE  P!compute_y(amp, x, d) = compute_y(amp, x, d)
<1> DEFINE ann == Mul64(amp, N_COINS)
           c == MulDiv192(MulDiv192(d, d, Mul64(x, N_COINS)), d, Mul64(ann, N_COINS))
           b == Add192(CheckedDiv(d, ann), x)
           pann == P!Mul64(amp, P!N_COINS)
           pc == P!MulDiv192(P!MulDiv192(d, d, P!Mul64(x, P!N_COINS)), d, P!Mul64(pann, P!N_COINS))
           pb == P!Add192(P!CheckedDiv(d, pann), x)
           step == [y \in Nat |-> CheckedDiv(Add192(Mul192(y, y), c),
                                            CheckedSub(Add192(Mul192(y, 2), b), d))]
           pstep == [y \in Nat |-> P!CheckedDiv(P!Add192(P!Mul192(y, y), pc),
                                            P!CheckedSub(P!Add192(P!Mul192(y, 2), pb), d))]
<1>1. pann = ann /\ pc = c /\ pb = b
  BY SameChecked, SameWide, SameNumbers
<1>2. pstep = step
  <2> HIDE DEF c, b, pc, pb
  <2> QED
    BY <1>1, SameChecked, SameWide
<1>3. compute_y(amp, x, d) = IF c = None \/ b = None THEN None ELSE ToU64(Newton(step, d))
  BY DEF compute_y
<1>4. P!compute_y(amp, x, d)
        = IF pc = P!None \/ pb = P!None THEN P!None ELSE P!ToU64(P!Newton(pstep, d))
  BY DEF P!compute_y
<1> HIDE DEF c, b, pc, pb, step, pstep
<1> QED
  BY <1>1, <1>2, <1>3, <1>4, SameChecked, SameNewton, SameNumbers

LEMMA SameMinted ==
    ASSUME NEW amp, NEW old, NEW new, NEW d_0, NEW d_1, NEW supply, NEW f
    PROVE  P!MintedForGrowth(amp, old, new, d_0, d_1, supply, f)
         = MintedForGrowth(amp, old, new, d_0, d_1, supply, f)
BY SameChecked, SameWide, SameFees, SameD, SameNumbers DEF P!MintedForGrowth, MintedForGrowth

LEMMA SameDeposit ==
    ASSUME NEW amp, NEW deposit, NEW old, NEW supply, NEW f
    PROVE  P!compute_mint_amount_for_deposit(amp, deposit, old, supply, f)
         = compute_mint_amount_for_deposit(amp, deposit, old, supply, f)
BY SameWide, SameD, SameMinted
    DEF P!compute_mint_amount_for_deposit, compute_mint_amount_for_deposit

LEMMA SameSwap ==
    ASSUME NEW amp, NEW n, NEW a, NEW b, NEW f
    PROVE  P!swap_to(amp, n, a, b, f) = swap_to(amp, n, a, b, f)
<1>1. ASSUME NEW dy
      PROVE  P!Exchanged(dy, n, a, b, f) = Exchanged(dy, n, a, b, f)
  BY SameChecked, SameWide, SameFees, SameNumbers DEF P!Exchanged, Exchanged
<1> QED
  BY <1>1, SameChecked, SameWide, SameD, SameY DEF P!swap_to, swap_to

LEMMA SameWithdrawOneDown ==
    ASSUME NEW amp, NEW base, NEW quote, NEW d_0, NEW d_1, NEW y, NEW f
    PROVE  P!WithdrawOneDown(amp, base, quote, d_0, d_1, y, f)
         = WithdrawOneDown(amp, base, quote, d_0, d_1, y, f)
<1>1. ASSUME NEW most, NEW dy
      PROVE  P!PaidOut(most, dy) = PaidOut(most, dy)
  BY SameChecked, SameNumbers DEF P!PaidOut, PaidOut
<1> QED
  BY <1>1, SameChecked, SameWide, SameFees, SameY DEF P!WithdrawOneDown, WithdrawOneDown

LEMMA SameWithdrawOne ==
    ASSUME NEW amp, NEW n, NEW supply, NEW base, NEW quote, NEW f
    PROVE  P!compute_withdraw_one(amp, n, supply, base, quote, f)
         = compute_withdraw_one(amp, n, supply, base, quote, f)
BY SameChecked, SameWide, SameD, SameY, SameWithdrawOneDown
    DEF P!compute_withdraw_one, compute_withdraw_one

LEMMA SameRate ==
    ASSUME NEW n, NEW supply, NEW r, NEW f
    PROVE  P!token_rate(n, supply, r, f) = token_rate(n, supply, r, f)
BY SameChecked, SameFees, SameNumbers DEF P!token_rate, token_rate

LEMMA SameAmp ==
    ASSUME NEW i, NEW g, NEW c, NEW s, NEW e
    PROVE  P!compute_amp_factor(i, g, c, s, e) = compute_amp_factor(i, g, c, s, e)
BY SameNumbers DEF P!compute_amp_factor, compute_amp_factor

LEMMA SameCalls ==
    ASSUME NEW l, NEW signer, NEW s, NEW d, NEW n
    PROVE  /\ P!Transfer(l, signer, s, d, n) = Transfer(l, signer, s, d, n)
           /\ P!mint_to(l, d, n) = mint_to(l, d, n)
           /\ P!burn(l, signer, s, n) = burn(l, signer, s, n)
BY DEF P!Transfer, Transfer, P!Failed, Failed, P!U64, U64, P!mint_to, mint_to, P!burn, burn

---------------------------------------------------------------------------
(* Checks in sequence *)

\* What is known when no check of a list fails.  (The lists are as long as
\* those of the handlers.)

IsList(s) == s \in Seq(Range(s))

Passed(s) == \A i \in 1 .. Len(s) : s[i] = Ok

LEMMA NoErrorPasses ==
    ASSUME NEW s, IsList(s), FirstError(s) = Ok
    PROVE  Passed(s)
<1> DEFINE I == {i \in 1 .. Len(s) : s[i] # Ok}
<1> SUFFICES ASSUME I # {} PROVE FALSE
  BY DEF Passed
<1>1. I \subseteq Nat
  OBVIOUS
<1>2. PICK n \in I : \A m \in I : n <= m
  BY <1>1, LeastNatural
<1>3. Min(I) \in I
  BY <1>2 DEF Min
<1>4. SelectInSeq(s, LAMBDA check : check # Ok) = Min(I)
  BY DEF SelectInSeq
<1>5. Min(I) # 0
  BY <1>3
<1>6. FirstError(s) = s[Min(I)]
  BY <1>4, <1>5 DEF FirstError
<1> QED
  BY <1>3, <1>6

LEMMA JoinChecks ==
    ASSUME NEW s, NEW t, IsList(s), IsList(t)
    PROVE  IsList(s \o t) /\ (Passed(s \o t) => Passed(s) /\ Passed(t))
<1> DEFINE R == Range(s) \cup Range(t)
<1>1. s \in Seq(R) /\ t \in Seq(R)
  BY DEF IsList
<1>2. /\ s \o t \in Seq(R) /\ Len(s \o t) = Len(s) + Len(t)
      /\ \A i \in 1 .. Len(s) + Len(t) :
            (s \o t)[i] = IF i <= Len(s) THEN s[i] ELSE t[i - Len(s)]
  BY <1>1, ConcatProperties
<1>3. Len(s) \in Nat /\ Len(t) \in Nat
  BY <1>1
<1> DEFINE u == s \o t
<1>0. /\ u \in Seq(R) /\ Len(u) = Len(s) + Len(t)
      /\ \A i \in 1 .. Len(s) + Len(t) : u[i] = IF i <= Len(s) THEN s[i] ELSE t[i - Len(s)]
  BY <1>2
<1> HIDE DEF u
<1>4. u \in Seq(Range(u))
  BY <1>0 DEF Range
<1>6. ASSUME Passed(u) PROVE Passed(s) /\ Passed(t)
  <2>1. ASSUME NEW i \in 1 .. Len(s) PROVE s[i] = Ok
    BY <1>0, <1>3, <1>6 DEF Passed
  <2>2. ASSUME NEW i \in 1 .. Len(t) PROVE t[i] = Ok
    <3>1. i + Len(s) \in 1 .. Len(s) + Len(t) /\ ~(i + Len(s) <= Len(s)) /\ i + Len(s) - Len(s) = i
      BY <1>3
    <3>2. u[i + Len(s)] = t[i]
      BY <1>0, <3>1
    <3> QED
      BY <1>0, <1>6, <3>1, <3>2 DEF Passed
  <2> QED
    BY <2>1, <2>2 DEF Passed
<1> QED
  BY <1>4, <1>6 DEF u, IsList

LEMMA List1 ==
    ASSUME NEW a
    PROVE  /\ IsList(<<a>>)
           /\ Passed(<<a>>) => a = Ok
BY DEF IsList, Passed, Range

LEMMA List2 ==
    ASSUME NEW a, NEW b
    PROVE  /\ IsList(<<a, b>>)
           /\ Passed(<<a, b>>) => a = Ok /\ b = Ok
BY DEF IsList, Passed, Range

LEMMA List3 ==
    ASSUME NEW a, NEW b, NEW c
    PROVE  /\ IsList(<<a, b, c>>)
           /\ Passed(<<a, b, c>>) => a = Ok /\ b = Ok /\ c = Ok
BY DEF IsList, Passed, Range

LEMMA List4 ==
    ASSUME NEW a, NEW b, NEW c, NEW d
    PROVE  /\ IsList(<<a, b, c, d>>)
           /\ Passed(<<a, b, c, d>>) => a = Ok /\ b = Ok /\ c = Ok /\ d = Ok
BY DEF IsList, Passed, Range

LEMMA List5 ==
    ASSUME NEW a, NEW b, NEW c, NEW d, NEW e
    PROVE  /\ IsList(<<a, b, c, d, e>>)
           /\ Passed(<<a, b, c, d, e>>) => a = Ok /\ b = Ok /\ c = Ok /\ d = Ok /\ e = Ok
BY DEF IsList, Passed, Range

LEMMA List9 ==
    ASSUME NEW a, NEW b, NEW c, NEW d, NEW e, NEW f, NEW g, NEW h, NEW i
    PROVE  /\ IsList(<<a, b, c, d, e, f, g, h, i>>)
           /\ Passed(<<a, b, c, d, e, f, g, h, i>>) =>
                /\ a = Ok /\ b = Ok /\ c = Ok /\ d = Ok /\ e = Ok /\ f = Ok
                /\ g = Ok /\ h = Ok /\ i = Ok
BY DEF IsList, Passed, Range

LEMMA List14 ==
    ASSUME NEW a, NEW b, NEW c, NEW d, NEW e, NEW f, NEW g, NEW h, NEW i, NEW j, NEW k, NEW l,
           NEW m, NEW n
    PROVE  /\ IsList(<<a, b, c, d, e, f, g, h, i, j, k, l, m, n>>)
           /\ Passed(<<a, b, c, d, e, f, g, h, i, j, k, l, m, n>>) =>
                /\ a = Ok /\ b = Ok /\ c = Ok /\ d = Ok /\ e = Ok /\ f = Ok /\ g = Ok
                /\ h = Ok /\ i = Ok /\ j = Ok /\ k = Ok /\ l = Ok /\ m = Ok /\ n = Ok
BY DEF IsList, Passed, Range

LEMMA ThreeLists ==
    ASSUME NEW s, NEW t, NEW u, IsList(s), IsList(t), IsList(u), FirstError(s \o t \o u) = Ok
    PROVE  Passed(s) /\ Passed(t) /\ Passed(u)
<1>1. IsList(s \o t) /\ (Passed(s \o t) => Passed(s) /\ Passed(t))
  BY JoinChecks
<1>2. IsList(s \o t \o u) /\ (Passed(s \o t \o u) => Passed(s \o t) /\ Passed(u))
  BY <1>1, JoinChecks
<1> QED
  BY <1>1, <1>2, NoErrorPasses

LEMMA FourLists ==
    ASSUME NEW s, NEW t, NEW u, NEW v, IsList(s), IsList(t), IsList(u), IsList(v),
           FirstError(s \o t \o u \o v) = Ok
    PROVE  Passed(s) /\ Passed(t) /\ Passed(u) /\ Passed(v)
<1>1. IsList(s \o t) /\ (Passed(s \o t) => Passed(s) /\ Passed(t))
  BY JoinChecks
<1>2. IsList(s \o t \o u) /\ (Passed(s \o t \o u) => Passed(s \o t) /\ Passed(u))
  BY <1>1, JoinChecks
<1>3. IsList(s \o t \o u \o v) /\ (Passed(s \o t \o u \o v) => Passed(s \o t \o u) /\ Passed(v))
  BY <1>2, JoinChecks
<1> QED
  BY <1>1, <1>2, <1>3, NoErrorPasses

LEMMA AdminChecks ==
    ASSUME NEW key, NEW admin_info, FirstError(check_has_admin_signer(key, admin_info)) = Ok
    PROVE  admin_info.key = key /\ admin_info.is_signer
<1> DEFINE s == check_has_admin_signer(key, admin_info)
<1>1. IsList(s)
  BY DEF check_has_admin_signer, IsList, Range
<1>2. Passed(s)
  BY <1>1, NoErrorPasses
<1> QED
  BY <1>2 DEF Passed, check_has_admin_signer, Check, Ok

LEMMA RampChecks ==
    ASSUME NEW token_swap, NEW amp, NEW stop, RampA(token_swap, amp, stop).err = Ok,
           NEW current, current = current_amp(token_swap)
    PROVE  /\ amp \in MIN_AMP..MAX_AMP
           /\ token_swap.start_ramp_ts + MIN_RAMP_DURATION <= I64_MAX
           /\ now >= token_swap.start_ramp_ts + MIN_RAMP_DURATION
           /\ now + MIN_RAMP_DURATION <= I64_MAX
           /\ stop >= now + MIN_RAMP_DURATION
           /\ current # None
           /\ amp < current => Mul64(amp, 10) # None /\ current <= Mul64(amp, 10)
           /\ ~(amp < current) => Mul64(current, 10) # None /\ amp <= Mul64(current, 10)
<1> DEFINE lower  == IF amp < current THEN amp ELSE current
           higher == IF amp < current THEN current ELSE amp
           limit  == Mul64(lower, 10)
           s == << Check(amp \in MIN_AMP..MAX_AMP, "InvalidInput"),
                   Check(token_swap.start_ramp_ts + MIN_RAMP_DURATION <= I64_MAX,
                         "CalculationFailure"),
                   Check(now >= token_swap.start_ramp_ts + MIN_RAMP_DURATION, "RampLocked"),
                   Check(now + MIN_RAMP_DURATION <= I64_MAX, "CalculationFailure"),
                   Check(stop >= now + MIN_RAMP_DURATION, "InsufficientRampTime"),
                   Check(current # None /\ limit # None, "CalculationFailure"),
                   Check(higher <= limit, "InvalidInput") >>
<1>1. IsList(s)
  BY DEF IsList, Range
<1>2. FirstError(s) = Ok
  BY DEF RampA, Changed
<1>3. Passed(s)
  BY <1>1, <1>2, NoErrorPasses
<1> HIDE DEF lower, higher, limit
<1>4. /\ amp \in MIN_AMP..MAX_AMP
      /\ token_swap.start_ramp_ts + MIN_RAMP_DURATION <= I64_MAX
      /\ now >= token_swap.start_ramp_ts + MIN_RAMP_DURATION
      /\ now + MIN_RAMP_DURATION <= I64_MAX
      /\ stop >= now + MIN_RAMP_DURATION
      /\ current # None /\ limit # None
      /\ higher <= limit
  BY <1>3 DEF Passed, Check, Ok
<1> QED
  BY <1>4 DEF lower, higher, limit

---------------------------------------------------------------------------
(* Token calls *)

\* A call that succeeds passed the checks of the token program, and leaves the
\* ledger of TokenLedger's operator.

\* The calls so far have left the ledger l.
CallsLeft(r, l) == r = Outcome(Ok, swap_data, l) /\ l \in OpenLedgers

LEMMA EarlierCalls ==
    ASSUME NEW r, NEW c, NEW x, NEW y, NEW n
    PROVE  /\ spl_transfer(r, c, x, y, n).err = Ok => r.err = Ok
           /\ spl_mint_to(r, c, x, y, n).err = Ok => r.err = Ok
           /\ spl_burn(r, c, x, y, n).err = Ok => r.err = Ok
BY DEF spl_transfer, spl_mint_to, spl_burn, Called

LEMMA CalledOk ==
    ASSUME NEW r, r.err = Ok, NEW checks, NEW l, Called(r, checks, l).err = Ok
    PROVE  FirstError(checks) = Ok /\ Called(r, checks, l) = [r EXCEPT !.ledger = l]
<1>1. Called(r, checks, l) = Unless(FirstError(checks), [r EXCEPT !.ledger = l])
  BY DEF Called
<1>2. Fails(FirstError(checks)).err = FirstError(checks)
  BY DEF Fails, Outcome
<1> QED
  BY <1>1, <1>2 DEF Unless

LEMMA PrivilegesAreChecks ==
    ASSUME NEW c, NEW keys
    PROVE  /\ IsList(Privileges(c, keys))
           /\ Passed(Privileges(c, keys)) => c.signed
<1> DEFINE h == /\ c.signed
                /\ \A key \in keys : \E i \in DOMAIN c.infos :
                       c.infos[i].key = key /\ c.infos[i].is_writable
           a == Check(c.token_program = TokenProgram, "IncorrectProgramId")
           b == Check(h, "PrivilegeEscalation")
<1>1. Privileges(c, keys) = <<a, b>>
  BY Zenon DEF Privileges
<1>2. b = Ok => h
  <2> HIDE DEF h
  <2> QED
    BY DEF Check, Ok
<1>3. h => c.signed
  OBVIOUS
<1> HIDE DEF a, b, h
<1> QED
  BY <1>1, <1>2, <1>3, List2

LEMMA TransferTyped ==
    ASSUME NEW l \in OpenLedgers, NEW source \in TokenAccounts, NEW destination \in TokenAccounts,
           NEW n \in Nat, mint[source] = mint[destination],
           n <= l.amount[source], source = destination \/ l.amount[destination] + n \in U64
    PROVE  Transfer(l, owner[source], source, destination, n) \in OpenLedgers
<1> DEFINE r == Transfer(l, owner[source], source, destination, n)
<1>1. CASE source = destination
  <2>1. r = l
    BY <1>1 DEF Transfer, OpenLedgers
  <2> QED
    BY <2>1
<1>2. CASE source # destination
  <2> DEFINE f == l.amount
             g == [f EXCEPT ![source] = @ - n, ![destination] = @ + n]
  <2>1. r = [l EXCEPT !.amount[source] = @ - n, !.amount[destination] = @ + n]
    BY <1>2 DEF Transfer, OpenLedgers
  <2>2. f \in [TokenAccounts -> U64] /\ f[source] - n \in U64 /\ f[destination] + n \in U64
    BY <1>2, WidthAssumption DEF OpenLedgers, U64
  <2>3. r = [amount |-> g, supply |-> l.supply, open |-> l.open, ok |-> l.ok]
    BY <1>2, <2>1, <2>2 DEF OpenLedgers, U64
  <2>4. g \in [TokenAccounts -> U64]
    BY <1>2, <2>2
  <2>5. l.supply \in U64 /\ l.open = TokenAccounts /\ l.ok = TRUE
    BY DEF OpenLedgers
  <2> HIDE DEF g, r
  <2>6. r \in OpenLedgers
    BY <2>3, <2>4, <2>5 DEF OpenLedgers
  <2> QED
    BY <2>6 DEF r
<1> QED
  BY <1>1, <1>2

LEMMA TransferAccepted ==
    ASSUME NEW r, NEW l, CallsLeft(r, l), NEW c, NEW source, NEW destination, NEW n \in Nat,
           spl_transfer(r, c, source, destination, n).err = Ok
    PROVE  /\ CallsLeft(spl_transfer(r, c, source, destination, n),
                        Transfer(l, c.authority, source, destination, n))
           /\ c.signed /\ source \in TokenAccounts /\ destination \in TokenAccounts
           /\ mint[source] = mint[destination] /\ owner[source] = c.authority
<1> DEFINE p == Privileges(c, {source, destination})
           q == << Check({source, destination} \subseteq l.open, "InvalidAccountData"),
                   Check(n <= balance_in(l, source), "InsufficientFunds"),
                   Check(mint_of(source) = mint_of(destination), "MintMismatch"),
                   Check(owner_of(source) = c.authority, "OwnerMismatch"),
                   Check(source = destination \/ balance_in(l, destination) + n \in U64,
                         "Overflow") >>
           t == Transfer(l, c.authority, source, destination, n)
<1>1. r.err = Ok /\ r.data = swap_data /\ r.ledger = l /\ l \in OpenLedgers
  BY DEF CallsLeft, Outcome
<1>2. spl_transfer(r, c, source, destination, n) = Called(r, p \o q, t)
  BY <1>1 DEF spl_transfer
<1> HIDE DEF p, q, t
<1>3. FirstError(p \o q) = Ok /\ Called(r, p \o q, t) = [r EXCEPT !.ledger = t]
  BY <1>1, <1>2, CalledOk
<1>4. IsList(p) /\ IsList(q)
  <2>1. IsList(p)
    BY PrivilegesAreChecks DEF p
  <2>2. IsList(q)
    BY Zenon, List5 DEF q
  <2> QED
    BY <2>1, <2>2
<1>5. Passed(p) /\ Passed(q)
  BY <1>3, <1>4, JoinChecks, NoErrorPasses
<1>6. c.signed
  BY <1>5, PrivilegesAreChecks DEF p
<1>7. /\ source \in l.open /\ destination \in l.open
      /\ n <= balance_in(l, source)
      /\ mint_of(source) = mint_of(destination)
      /\ owner_of(source) = c.authority
      /\ source = destination \/ balance_in(l, destination) + n \in U64
  BY <1>5 DEF Passed, q, Check, Ok
<1>8. /\ source \in TokenAccounts /\ destination \in TokenAccounts
      /\ n <= l.amount[source] /\ mint[source] = mint[destination] /\ owner[source] = c.authority
      /\ source = destination \/ l.amount[destination] + n \in U64
  BY <1>1, <1>7 DEF OpenLedgers, balance_in, mint_of, owner_of
<1>9. t \in OpenLedgers
  BY <1>1, <1>8, TransferTyped DEF t
<1>10. [r EXCEPT !.ledger = t] = Outcome(Ok, swap_data, t)
  BY DEF CallsLeft, Outcome
<1> QED
  BY <1>2, <1>3, <1>6, <1>8, <1>9, <1>10 DEF CallsLeft, t

LEMMA MintAccepted ==
    ASSUME NEW r, NEW l, CallsLeft(r, l), NEW c, NEW destination, NEW n \in Nat,
           spl_mint_to(r, c, PoolMint, destination, n).err = Ok
    PROVE  /\ CallsLeft(spl_mint_to(r, c, PoolMint, destination, n), mint_to(l, destination, n))
           /\ destination \in TokenAccounts /\ mint[destination] = PoolMint
<1> DEFINE p == Privileges(c, {PoolMint, destination})
           q == << Check(destination \in l.open, "InvalidAccountData"),
               Check(mint_of(destination) = PoolMint, "MintMismatch"),
               Check(PoolMint \in MintAccounts, "InvalidAccountData"),
               Check(PoolMint \in MintAccounts => mint_authority[PoolMint] = c.authority,
                     "OwnerMismatch"),
               Check({l.supply + n, balance_in(l, destination) + n} \subseteq U64,
                     "Overflow") >>
           t == mint_to(l, destination, n)
<1>1. r.err = Ok /\ r.data = swap_data /\ r.ledger = l /\ l \in OpenLedgers
  BY DEF CallsLeft, Outcome
<1>2. spl_mint_to(r, c, PoolMint, destination, n) = Called(r, p \o q, t)
  BY <1>1 DEF spl_mint_to
<1> HIDE DEF p, q, t
<1>3. FirstError(p \o q) = Ok /\ Called(r, p \o q, t) = [r EXCEPT !.ledger = t]
  BY <1>1, <1>2, CalledOk
<1>4. IsList(p) /\ IsList(q)
  <2>1. IsList(p)
    BY PrivilegesAreChecks DEF p
  <2>2. IsList(q)
    BY Zenon, List5 DEF q
  <2> QED
    BY <2>1, <2>2
<1>5. Passed(q)
  BY <1>3, <1>4, JoinChecks, NoErrorPasses
<1>6. /\ destination \in l.open /\ mint_of(destination) = PoolMint
      /\ {l.supply + n, balance_in(l, destination) + n} \subseteq U64
  BY <1>5 DEF Passed, q, Check, Ok
<1>7. /\ destination \in TokenAccounts /\ mint[destination] = PoolMint
      /\ l.supply + n \in U64 /\ l.amount[destination] + n \in U64
  BY <1>1, <1>6 DEF OpenLedgers, balance_in, mint_of
<1>8. t \in OpenLedgers
  <2> DEFINE g == [l.amount EXCEPT ![destination] = @ + n]
  <2>1. t = [l EXCEPT !.amount[destination] = @ + n, !.supply = @ + n]
    BY <1>1, <1>6, <1>7 DEF t, mint_to, OpenLedgers
  <2>2. t = [amount |-> g, supply |-> l.supply + n, open |-> l.open, ok |-> l.ok]
    BY <1>1, <2>1 DEF OpenLedgers
  <2>3. g \in [TokenAccounts -> U64]
    BY <1>1, <1>7 DEF OpenLedgers
  <2> HIDE DEF g
  <2> QED
    BY <1>1, <1>7, <2>2, <2>3 DEF OpenLedgers
<1>9. [r EXCEPT !.ledger = t] = Outcome(Ok, swap_data, t)
  BY DEF CallsLeft, Outcome
<1> QED
  BY <1>2, <1>3, <1>7, <1>8, <1>9 DEF CallsLeft, t

LEMMA BurnAccepted ==
    ASSUME NEW r, NEW l, CallsLeft(r, l), NEW c, NEW account, NEW n \in Nat,
           spl_burn(r, c, account, PoolMint, n).err = Ok
    PROVE  /\ CallsLeft(spl_burn(r, c, account, PoolMint, n), burn(l, c.authority, account, n))
           /\ c.signed
           /\ account \in TokenAccounts /\ mint[account] = PoolMint /\ owner[account] = c.authority
<1> DEFINE p == Privileges(c, {account, PoolMint})
           q == << Check(account \in l.open /\ PoolMint \in MintAccounts, "InvalidAccountData"),
               Check(n <= balance_in(l, account), "InsufficientFunds"),
               Check(mint_of(account) = PoolMint, "MintMismatch"),
               Check(owner_of(account) = c.authority, "OwnerMismatch"),
               Check(n <= l.supply, "Overflow") >>
           t == burn(l, c.authority, account, n)
<1>1. r.err = Ok /\ r.data = swap_data /\ r.ledger = l /\ l \in OpenLedgers
  BY DEF CallsLeft, Outcome
<1>2. spl_burn(r, c, account, PoolMint, n) = Called(r, p \o q, t)
  BY <1>1 DEF spl_burn
<1> HIDE DEF p, q, t
<1>3. FirstError(p \o q) = Ok /\ Called(r, p \o q, t) = [r EXCEPT !.ledger = t]
  BY <1>1, <1>2, CalledOk
<1>4. IsList(p) /\ IsList(q)
  <2>1. IsList(p)
    BY PrivilegesAreChecks DEF p
  <2>2. IsList(q)
    BY Zenon, List5 DEF q
  <2> QED
    BY <2>1, <2>2
<1>5. Passed(p) /\ Passed(q)
  BY <1>3, <1>4, JoinChecks, NoErrorPasses
<1>6. /\ account \in l.open /\ n <= balance_in(l, account) /\ mint_of(account) = PoolMint
      /\ owner_of(account) = c.authority /\ n <= l.supply
  BY <1>5 DEF Passed, q, Check, Ok
<1>7. /\ account \in TokenAccounts /\ mint[account] = PoolMint /\ owner[account] = c.authority
      /\ n <= l.amount[account] /\ n <= l.supply
  BY <1>1, <1>6 DEF OpenLedgers, balance_in, mint_of, owner_of
<1>8. t \in OpenLedgers
  <2> DEFINE g == [l.amount EXCEPT ![account] = @ - n]
  <2>1. t = [l EXCEPT !.amount[account] = @ - n, !.supply = @ - n]
    BY <1>1, <1>6, <1>7 DEF t, burn, OpenLedgers
  <2>2. t = [amount |-> g, supply |-> l.supply - n, open |-> l.open, ok |-> l.ok]
    BY <1>1, <2>1 DEF OpenLedgers
  <2>3. l.amount[account] - n \in U64 /\ l.supply - n \in U64
    BY <1>1, <1>7, WidthAssumption DEF OpenLedgers, U64
  <2>4. g \in [TokenAccounts -> U64]
    BY <1>1, <1>7, <2>3 DEF OpenLedgers
  <2> HIDE DEF g
  <2> QED
    BY <1>1, <2>2, <2>3, <2>4 DEF OpenLedgers
<1>9. [r EXCEPT !.ledger = t] = Outcome(Ok, swap_data, t)
  BY DEF CallsLeft, Outcome
<1>10. c.signed
  BY <1>5, PrivilegesAreChecks DEF p
<1> QED
  BY <1>2, <1>3, <1>7, <1>8, <1>9, <1>10 DEF CallsLeft, t

---------------------------------------------------------------------------
(* The state between instructions *)

DeployedInv == DeployedTypeOK /\ StaysWired

LEMMA AmpTyped ==
    ASSUME NEW i \in U64, NEW g \in U64, NEW c \in Int, NEW s \in Int, NEW e \in Int
    PROVE  compute_amp_factor(i, g, c, s, e) \in U64 \cup {None}
<1> DEFINE d == c - s
           t == e - s
<1>1. i \in Nat /\ g \in Nat /\ i <= U64_MAX /\ g <= U64_MAX /\ U64_MAX \in Nat
  BY WidthAssumption DEF U64
<1>2. CASE c >= e \/ d < 0
  BY <1>2 DEF compute_amp_factor
<1>3. CASE c < e /\ d >= 0 /\ g >= i
  <2>1. d \in Nat /\ t \in Nat \ {0} /\ d <= t /\ g - i \in Nat
    BY <1>1, <1>3
  <2>2. /\ ((g - i) * d) \div t \in Nat
        /\ ((g - i) * d) \div t <= g - i
    BY <2>1, FractionOfAmount
  <2>3. compute_amp_factor(i, g, c, s, e) = i + ((g - i) * d) \div t
    BY <1>1, <1>3 DEF compute_amp_factor
  <2> HIDE DEF d, t
  <2> QED
    BY <1>1, <2>2, <2>3 DEF U64
<1>4. CASE c < e /\ d >= 0 /\ g < i
  <2>1. d \in Nat /\ t \in Nat \ {0} /\ d <= t /\ i - g \in Nat
    BY <1>1, <1>4
  <2>2. /\ ((i - g) * d) \div t \in Nat
        /\ ((i - g) * d) \div t <= i - g
    BY <2>1, FractionOfAmount
  <2>3. compute_amp_factor(i, g, c, s, e) = i - ((i - g) * d) \div t
    BY <1>1, <1>4 DEF compute_amp_factor
  <2> HIDE DEF d, t
  <2> QED
    BY <1>1, <2>2, <2>3 DEF U64
<1> QED
  BY <1>1, <1>2, <1>3, <1>4

LEMMA InfoTyped ==
    ASSUME DeployedTypeOK
    PROVE  /\ info \in SwapInfos(NamedKeys)
           /\ info.is_initialized \in BOOLEAN /\ info.is_paused \in BOOLEAN
           /\ info.initial_amp_factor \in U64 /\ info.target_amp_factor \in U64
           /\ info.start_ramp_ts \in Int /\ info.stop_ramp_ts \in Int
           /\ info.future_admin_deadline \in Int
           /\ now \in Nat /\ now \in Int
BY WidthAssumption, ProgramAssumption DEF DeployedTypeOK, SwapInfos, I64

LEMMA CurrentAmp ==
    ASSUME DeployedTypeOK
    PROVE  current_amp(info) \in U64 \cup {None} /\ P!amp_factor = current_amp(info)
BY InfoTyped, AmpTyped, SameAmp DEF current_amp, P!amp_factor, P!AmpAt

LEMMA Reload ==
    ASSUME DeployedTypeOK
    PROVE  /\ Decode(swap_data) = info
           /\ SwapInfo_unpack_unchecked(swap_data) = [err |-> Ok, info |-> info]
           /\ SwapInfo_unpack(swap_data).err = Ok =>
                info.is_initialized /\ SwapInfo_unpack(swap_data) = [err |-> Ok, info |-> info]
<1>1. SwapInfo_unpack_unchecked(swap_data) = [err |-> Ok, info |-> info]
  BY InfoTyped, SwapInfoRoundTrip DEF DeployedTypeOK
<1> QED
  BY <1>1 DEF Decode, SwapInfo_unpack, Refused, Ok

LEMMA OtherAccounts ==
    ASSUME NEW key
    PROVE  /\ SwapInfo_unpack_unchecked(data_of(key)).err = Ok => key = SwapKey
           /\ SwapInfo_unpack(data_of(key)).err = Ok => key = SwapKey
           /\ data_of(SwapKey) = swap_data
<1>1. SWAP_INFO_LEN # 0
  BY EncodingAssumption DEF SWAP_INFO_LEN
<1>2. Len(<< >>) = 0
  OBVIOUS
<1>3. SwapInfo_unpack_unchecked(<< >>) = Refused("InvalidAccountData")
  BY <1>1, <1>2 DEF SwapInfo_unpack_unchecked
<1> QED
  BY <1>3 DEF data_of, SwapInfo_unpack, Refused, Ok

LEMMA InfoAfter ==
    ASSUME DeployedTypeOK, NEW new \in SwapInfos(NamedKeys), swap_data' = SwapInfo_pack(new),
           info' = IF swap_data' = swap_data THEN info ELSE Decode(swap_data')
    PROVE  info' = new
<1>1. Decode(swap_data') = new
  BY SwapInfoRoundTrip DEF Decode
<1> QED
  BY <1>1, Reload

\* What an instruction finds of the accounts of its request.
GivenAccounts(infos) ==
    /\ Len(infos) \in Nat /\ DOMAIN infos = 1 .. Len(infos)
    /\ \A i \in 1 .. Len(infos) :
          infos[i].key \in NamedKeys /\ (infos[i].is_signer => infos[i].key \in SigningKeys)

LEMMA AccountsGiven ==
    ASSUME NEW request \in Requests
    PROVE  /\ GivenAccounts(account_infos(request.accounts))
           /\ Len(account_infos(request.accounts)) = Len(request.accounts)
           /\ \A i \in 1 .. Len(request.accounts) :
                  account_infos(request.accounts)[i].key = request.accounts[i].key
<1> DEFINE metas == request.accounts
           infos == account_infos(metas)
<1>1. metas \in Seq(AccountMetas)
  BY DeployedAssumption
<1>2. Len(metas) \in Nat /\ DOMAIN metas = 1 .. Len(metas)
  BY <1>1
<1>3. infos = [i \in 1 .. Len(metas) |-> infos[i]]
  BY <1>2 DEF account_infos
<1>4. Len(infos) = Len(metas) /\ DOMAIN infos = 1 .. Len(infos)
  <2> HIDE DEF infos
  <2>1. infos \in [1 .. Len(metas) -> {infos[i] : i \in 1 .. Len(metas)}]
    BY <1>3
  <2> QED
    BY <1>2, <2>1
<1>5. ASSUME NEW i \in 1 .. Len(metas)
      PROVE  /\ infos[i].key = metas[i].key
             /\ infos[i].is_signer =>
                  \E j \in 1 .. Len(metas) : metas[j].key = metas[i].key /\ metas[j].is_signer
  <2> DEFINE same == { j \in DOMAIN metas : metas[j].key = metas[i].key }
             signs == \E j \in same : metas[j].is_signer
             writes == \E j \in same : metas[j].is_writable
  <2>1. infos[i] = [key |-> metas[i].key, is_signer |-> signs, is_writable |-> writes]
    BY <1>2, Zenon DEF account_infos
  <2>2. signs => \E j \in 1 .. Len(metas) : metas[j].key = metas[i].key /\ metas[j].is_signer
    BY <1>2
  <2> HIDE DEF signs, writes, infos
  <2> QED
    BY <2>1, <2>2
<1>6. ASSUME NEW i \in 1 .. Len(metas)
      PROVE  metas[i].key \in NamedKeys
  BY <1>2, <1>6 DEF NamedKeys
<1>7. ASSUME NEW i \in 1 .. Len(metas), metas[i].is_signer
      PROVE  metas[i].key \in SigningKeys
  <2> DEFINE signing == { meta.key : meta \in { m \in ToSet(metas) : m.is_signer } }
  <2>1. metas[i] \in { m \in ToSet(metas) : m.is_signer }
    BY <1>2, <1>7 DEF ToSet
  <2>2. metas[i].key \in signing
    BY <2>1
  <2>3. \A x \in signing : x \in SigningKeys
    BY DEF SigningKeys
  <2> QED
    BY <2>2, <2>3
<1> HIDE DEF infos
<1>8. GivenAccounts(infos)
  BY <1>2, <1>4, <1>5, <1>6, <1>7, Zenon DEF GivenAccounts
<1> QED
  BY <1>4, <1>5, <1>8 DEF infos

---------------------------------------------------------------------------
(* From the bytes to the handlers *)

\* An accepted request was understood, and went to the handler of its variant.

AdminOps == {"RampA", "SetNewFees"} \cup PlainOps
SwapOps  == {"Initialize", "Swap", "Deposit", "Withdraw", "WithdrawOne"}

LEMMA OpsOf ==
    ASSUME NEW ix
    PROVE  /\ ix \in AdminInstructions => ix.op \in AdminOps
           /\ ix \in SwapInstructions => ix.op \in SwapOps
BY DEF AdminInstructions, SwapInstructions, AdminOps, SwapOps

LEMMA DecodedOps ==
    ASSUME NEW data
    PROVE  /\ AdminInstruction_unpack(data).err = Ok =>
                AdminInstruction_unpack(data).instruction.op \in AdminOps \cup {"None"}
           /\ SwapInstruction_unpack(data).err = Ok =>
                SwapInstruction_unpack(data).instruction.op \in SwapOps
<1> DEFINE tag == Head(data)
           rest == Tail(data)
           admin == AdminInstruction_unpack(data)
           user == SwapInstruction_unpack(data)
<1>1. CASE data = << >>
  BY <1>1 DEF AdminInstruction_unpack, SwapInstruction_unpack, Refused, Ok
<1>2. CASE data # << >>
  <2>1. ASSUME admin.err = Ok
        PROVE  admin.instruction.op \in AdminOps \cup {"None"}
    <3>1. CASE tag \in {101, 102, 103, 104, 105, 106}
      BY <1>2, <3>1 DEF AdminInstruction_unpack, Decoded, AdminOps, PlainOps
    <3>2. CASE tag = 100
      BY <1>2, <2>1, <3>2 DEF AdminInstruction_unpack, Refused, Decoded, Ok, AdminOps
    <3>3. CASE tag = 107
      BY <1>2, <2>1, <3>3 DEF AdminInstruction_unpack, Refused, Decoded, Ok, AdminOps
    <3>4. CASE tag \notin {100, 101, 102, 103, 104, 105, 106, 107}
      BY <1>2, <3>4 DEF AdminInstruction_unpack, Decoded, NotAdmin
    <3> QED
      BY <3>1, <3>2, <3>3, <3>4
  <2>2. ASSUME user.err = Ok
        PROVE  user.instruction.op \in SwapOps
    <3>1. CASE tag = 0
      BY <1>2, <2>2, <3>1 DEF SwapInstruction_unpack, Refused, Decoded, Ok, SwapOps
    <3>2. CASE tag \in {1, 2, 3, 4}
      BY <1>2, <2>2, <3>2 DEF SwapInstruction_unpack, Refused, Decoded, Ok, SwapOps
    <3>3. CASE tag \notin {0, 1, 2, 3, 4}
      BY <1>2, <2>2, <3>3 DEF SwapInstruction_unpack, Refused, Ok
    <3> QED
      BY <3>1, <3>2, <3>3
  <2> QED
    BY <2>1, <2>2
<1> QED
  BY <1>1, <1>2

LEMMA Refusal ==
    ASSUME NEW error, NEW outcome, Unless(error, outcome).err = Ok
    PROVE  error = Ok /\ Unless(error, outcome) = outcome
BY DEF Unless, Fails, Outcome

LEMMA Dispatch ==
    ASSUME NEW request \in Requests, process_instruction(request).err = Ok,
           NEW ix, ix = Unpack(request.data).instruction
    PROVE  /\ request \in Understandable
           /\ \/ /\ ix \in AdminInstructions
                 /\ process_instruction(request)
                        = process_admin_instruction(ix, account_infos(request.accounts))
              \/ /\ ix \in SwapInstructions
                 /\ process_instruction(request)
                        = HandleSwapInstruction(account_infos(request.accounts), ix)
<1> DEFINE data == request.data
           infos == account_infos(request.accounts)
           admin == AdminInstruction_unpack(data)
           user == SwapInstruction_unpack(data)
           r == process_instruction(request)
<1>1. r = AdminUnpacked(infos, data, admin)
  BY DEF process_instruction, process
<1> HIDE DEF infos, admin, user, r
<1>2. /\ admin.err = Ok
      /\ r = IF admin.instruction = NotAdmin THEN process_swap_instruction(infos, data)
             ELSE process_admin_instruction(admin.instruction, infos)
  BY <1>1, Refusal DEF AdminUnpacked, r
<1>3. /\ data \in Seq(Int) /\ \A i \in 2 .. Len(data) : data[i] \in Byte
  BY DeployedAssumption
<1>4. ASSUME Unpack(data).err = Ok
      PROVE  request \in Understandable /\ ix \in AdminInstructions \cup SwapInstructions
  BY <1>3, <1>4, AcceptedBytesAreUnderstood DEF Understood, Understandable
<1>5. AdminOps \cap SwapOps = {} /\ "None" \notin SwapOps /\ "None" \notin AdminOps
  BY DEF AdminOps, SwapOps, PlainOps
<1>6. CASE admin.instruction = NotAdmin
  <2>1. r = SwapUnpacked(infos, user)
    BY <1>2, <1>6 DEF process_swap_instruction, user
  <2>2. user.err = Ok /\ r = HandleSwapInstruction(infos, user.instruction)
    BY <2>1, Refusal DEF SwapUnpacked, r
  <2>3. Unpack(data) = user
    BY <1>2, <1>6 DEF Unpack, admin, user
  <2>4. ix.op \in SwapOps
    BY <2>2, <2>3, DecodedOps DEF user
  <2>5. ix \in SwapInstructions
    BY <1>4, <1>5, <2>2, <2>3, <2>4, OpsOf
  <2> QED
    BY <1>4, <2>2, <2>3, <2>5 DEF infos, r
<1>7. CASE admin.instruction # NotAdmin
  <2>1. r = process_admin_instruction(admin.instruction, infos)
    BY <1>2, <1>7
  <2>2. Unpack(data) = admin
    BY <1>2, <1>7 DEF Unpack, admin
  <2>3. ix.op \in AdminOps \cup {"None"}
    BY <1>2, <2>2, DecodedOps DEF admin
  <2>4. ix \in AdminInstructions
    BY <1>2, <1>4, <1>5, <2>2, <2>3, OpsOf
  <2> QED
    BY <1>2, <1>4, <2>1, <2>2, <2>4 DEF infos, r
<1> QED
  BY <1>6, <1>7

---------------------------------------------------------------------------
(* Admin instructions *)

\* Each handler that succeeds takes the step of Pool with its name, and does
\* not touch the wires.

\* A handler of an admin instruction leaves the accounts of the pool as they are.
SameWires(new) ==
    /\ new.is_initialized /\ new.nonce = info.nonce /\ new.pool_mint = info.pool_mint
    /\ new.token_a = info.token_a /\ new.token_b = info.token_b

LEMMA AdminState ==
    ASSUME DeployedTypeOK, info.is_initialized, info.admin_key \in SigningKeys
    PROVE  P!AdminSigned
BY DeployedAssumption DEF P!AdminSigned

LEMMA RampARefines ==
    ASSUME DeployedTypeOK, P!AdminSigned, NEW amp \in U64, NEW stop \in I64,
           NEW h, h = RampA(info, amp, stop), h.err = Ok
    PROVE  /\ h.info \in SwapInfos(NamedKeys) /\ SameWires(h.info)
           /\ info' = h.info /\ now' = now => P!RampA(amp, stop)
<1> DEFINE current == current_amp(info)
           new == ramped(info, current, amp, stop)
<1>1. h.info = new /\ info.is_initialized
  BY DEF RampA, Changed, P!AdminSigned
<1>2. current \in U64 \cup {None} /\ P!amp_factor = current
  BY CurrentAmp
<1> HIDE DEF current
<1>3. /\ amp \in MIN_AMP..MAX_AMP
      /\ info.start_ramp_ts + MIN_RAMP_DURATION <= I64_MAX
      /\ now >= info.start_ramp_ts + MIN_RAMP_DURATION
      /\ now + MIN_RAMP_DURATION <= I64_MAX
      /\ stop >= now + MIN_RAMP_DURATION
      /\ current # None
      /\ amp < current => Mul64(amp, 10) # None /\ current <= Mul64(amp, 10)
      /\ ~(amp < current) => Mul64(current, 10) # None /\ amp <= Mul64(current, 10)
  BY RampChecks DEF current
<1>4. now \in I64
  BY InfoTyped, ProgramAssumption, WidthAssumption DEF DeployedTypeOK, I64
<1>5. new \in SwapInfos(NamedKeys)
  BY <1>2, <1>3, <1>4, InfoTyped DEF SwapInfos, ramped
<1>6. SameWires(new)
  BY <1>1, InfoTyped DEF SwapInfos, ramped, SameWires
<1>7. P!RampStepAllowed(current, amp)
  BY <1>3, SameChecked, SameNumbers DEF P!RampStepAllowed, Mul64
<1>8. ASSUME info' = new, now' = now
      PROVE  P!RampA(amp, stop)
  <2>1. /\ info'.initial_amp_factor = current /\ info'.target_amp_factor = amp
        /\ info'.start_ramp_ts = now /\ info'.stop_ramp_ts = stop
        /\ info'.is_initialized = info.is_initialized /\ info'.is_paused = info.is_paused
        /\ info'.admin_key = info.admin_key /\ info'.future_admin_key = info.future_admin_key
        /\ info'.future_admin_deadline = info.future_admin_deadline
        /\ info'.fees = info.fees /\ info'.token_a = info.token_a /\ info'.token_b = info.token_b
    BY <1>8, InfoTyped DEF SwapInfos, ramped
  <2>2. P!SetRamp(current, amp, stop)
    BY <2>1 DEF P!SetRamp
  <2>3. UNCHANGED <<now, info.is_initialized, info.is_paused, P!transferVars, P!feeVars>>
    BY <1>8, <2>1 DEF P!transferVars, P!feeVars
  <2> HIDE DEF new
  <2> QED
    BY <1>2, <1>3, <1>7, <2>2, <2>3, SameNumbers
       DEF P!RampA, P!ValidAmp, P!RampUnlocked
<1> QED
  BY <1>1, <1>5, <1>6, <1>8

LEMMA StopRampARefines ==
    ASSUME DeployedTypeOK, P!AdminSigned, NEW h, h = StopRampA(info), h.err = Ok
    PROVE  /\ h.info \in SwapInfos(NamedKeys) /\ SameWires(h.info)
           /\ info' = h.info /\ now' = now => P!StopRampA
<1> DEFINE current == current_amp(info)
           new == ramped(info, current, current, now)
<1>1. h.info = new /\ info.is_initialized /\ current # None
  BY DEF StopRampA, Changed, P!AdminSigned, Ok
<1>2. current \in U64 \cup {None} /\ P!amp_factor = current
  BY CurrentAmp
<1> HIDE DEF current
<1>4. now \in I64
  BY InfoTyped, ProgramAssumption, WidthAssumption DEF DeployedTypeOK, I64
<1>5. new \in SwapInfos(NamedKeys)
  BY <1>1, <1>2, <1>4, InfoTyped DEF SwapInfos, ramped
<1>6. SameWires(new)
  BY <1>1, InfoTyped DEF SwapInfos, ramped, SameWires
<1>8. ASSUME info' = new, now' = now
      PROVE  P!StopRampA
  <2>1. /\ info'.initial_amp_factor = current /\ info'.target_amp_factor = current
        /\ info'.start_ramp_ts = now /\ info'.stop_ramp_ts = now
        /\ info'.is_initialized = info.is_initialized /\ info'.is_paused = info.is_paused
        /\ info'.admin_key = info.admin_key /\ info'.future_admin_key = info.future_admin_key
        /\ info'.future_admin_deadline = info.future_admin_deadline
        /\ info'.fees = info.fees /\ info'.token_a = info.token_a /\ info'.token_b = info.token_b
    BY <1>8, InfoTyped DEF SwapInfos, ramped
  <2>2. P!SetRamp(current, current, now)
    BY <2>1 DEF P!SetRamp
  <2>3. UNCHANGED <<now, info.is_initialized, info.is_paused, P!transferVars, P!feeVars>>
    BY <1>8, <2>1 DEF P!transferVars, P!feeVars
  <2> HIDE DEF new
  <2> QED
    BY <1>1, <1>2, <2>2, <2>3, SameNumbers DEF P!StopRampA
<1> QED
  BY <1>1, <1>5, <1>6, <1>8

LEMMA PauseRefines ==
    ASSUME DeployedTypeOK, P!AdminSigned, NEW flag \in BOOLEAN,
           NEW new, new = [info EXCEPT !.is_paused = flag]
    PROVE  /\ new \in SwapInfos(NamedKeys) /\ SameWires(new)
           /\ info' = new /\ now' = now => P!SetPaused(flag)
BY InfoTyped DEF SwapInfos, SameWires, P!SetPaused, P!rampVars, P!transferVars, P!feeVars,
                 P!AdminSigned

LEMMA ApplyRefines ==
    ASSUME DeployedTypeOK, P!AdminSigned, NEW h, h = ApplyNewAdmin(info), h.err = Ok
    PROVE  /\ h.info \in SwapInfos(NamedKeys) /\ SameWires(h.info)
           /\ info' = h.info /\ now' = now => P!ApplyNewAdmin
<1> DEFINE new == [ info EXCEPT !.admin_key = info.future_admin_key,
                                !.future_admin_key = DefaultKey,
                                !.future_admin_deadline = ZERO_TS ]
           a == Check(info.future_admin_deadline # ZERO_TS, "NoActiveTransfer")
           b == Check(now <= info.future_admin_deadline, "AdminDeadlineExceeded")
<1>1. h = Changed(FirstError(<<a, b>>), new)
  BY DEF ApplyNewAdmin
<1>2. a = Ok /\ b = Ok /\ h.info = new
  <2> HIDE DEF a, b, new
  <2> QED
    BY <1>1, List2, NoErrorPasses DEF Changed
<1>3. info.future_admin_deadline # ZERO_TS /\ now <= info.future_admin_deadline
  BY <1>2 DEF Check, Ok
<1>4. DefaultKey \in NamedKeys /\ ZERO_TS \in I64
  BY WidthAssumption DEF NamedKeys, ZERO_TS, I64
<1>5. new \in SwapInfos(NamedKeys) /\ SameWires(new)
  BY <1>4, InfoTyped DEF SwapInfos, SameWires, P!AdminSigned
<1>6. ASSUME info' = new, now' = now
      PROVE  P!ApplyNewAdmin
  BY <1>3, <1>6, InfoTyped, SameNumbers
     DEF SwapInfos, P!ApplyNewAdmin, P!TransferApplicable, P!rampVars, P!feeVars
<1> QED
  BY <1>2, <1>5, <1>6

LEMMA CommitRefines ==
    ASSUME DeployedTypeOK, P!AdminSigned, NEW key \in NamedKeys,
           NEW h, h = CommitNewAdmin(info, key), h.err = Ok
    PROVE  /\ h.info \in SwapInfos(NamedKeys) /\ SameWires(h.info)
           /\ info' = h.info /\ now' = now => P!CommitNewAdmin(key)
<1> DEFINE new == [ info EXCEPT !.future_admin_key = key,
                                !.future_admin_deadline = now + ADMIN_TRANSFER_DELAY ]
           a == Check(now >= info.future_admin_deadline, "ActiveTransfer")
           b == Check(now + ADMIN_TRANSFER_DELAY <= I64_MAX, "CalculationFailure")
<1>1. h = Changed(FirstError(<<a, b>>), new)
  BY DEF CommitNewAdmin
<1>2. a = Ok /\ b = Ok /\ h.info = new
  <2> HIDE DEF a, b, new
  <2> QED
    BY <1>1, List2, NoErrorPasses DEF Changed
<1>3. now >= info.future_admin_deadline /\ now + ADMIN_TRANSFER_DELAY <= I64_MAX
  BY <1>2 DEF Check, Ok
<1>4. now \in Nat /\ ADMIN_TRANSFER_DELAY \in Nat /\ info.future_admin_deadline \in Int
  BY InfoTyped, DeployedAssumption
<1>5. now + ADMIN_TRANSFER_DELAY \in I64
  BY <1>3, <1>4, WidthAssumption, ProgramAssumption DEF I64
<1>6. new \in SwapInfos(NamedKeys) /\ SameWires(new)
  BY <1>5, InfoTyped DEF SwapInfos, SameWires, P!AdminSigned
<1>7. P!TransferDeadline = now + ADMIN_TRANSFER_DELAY /\ P!TransferDeadline # P!None
  BY <1>3, <1>4, SameChecked, SameNumbers DEF P!TransferDeadline, CheckedAdd, None
<1>8. ~P!TransferActive
  BY <1>3, <1>4 DEF P!TransferActive
<1>9. ASSUME info' = new, now' = now
      PROVE  P!CommitNewAdmin(key)
  BY <1>7, <1>8, <1>9, InfoTyped DEF SwapInfos, P!CommitNewAdmin, P!rampVars, P!feeVars
<1> QED
  BY <1>2, <1>6, <1>9

LEMMA SetNewFeesRefines ==
    ASSUME DeployedTypeOK, P!AdminSigned, NEW f \in Fees,
           NEW new, new = [info EXCEPT !.fees = f]
    PROVE  /\ new \in SwapInfos(NamedKeys) /\ SameWires(new)
           /\ info' = new /\ now' = now => P!SetNewFees(f)
BY InfoTyped DEF SwapInfos, SameWires, P!SetNewFees, P!rampVars, P!transferVars, P!AdminSigned

LEMMA SetFeeAccountRefines ==
    ASSUME DeployedTypeOK, P!AdminSigned, Wired(info), NEW key \in NamedKeys,
           NEW h, h = SetFeeAccount(info, key), h.err = Ok
    PROVE  /\ h.info \in SwapInfos(NamedKeys) /\ h.info.is_initialized /\ Wired(h.info)
           /\ info' = h.info /\ now' = now => key \in TokenAccounts /\ P!SetFeeAccount(key)
<1> DEFINE new == IF mint_of(key) = info.token_a.mint
                  THEN [info EXCEPT !.token_a.admin_fees = key]
                  ELSE [info EXCEPT !.token_b.admin_fees = key]
           a == unpack_token_account(key)
           b == Check(mint_of(key) \in {info.token_a.mint, info.token_b.mint}, "InvalidAdmin")
<1>1. h = Changed(FirstError(<<a, b>>), new)
  BY DEF SetFeeAccount
<1>2. a = Ok /\ b = Ok /\ h.info = new
  <2> HIDE DEF a, b, new
  <2> QED
    BY <1>1, List2, NoErrorPasses DEF Changed
<1>3. key \in TokenAccounts
  BY <1>2 DEF unpack_token_account, Check, Ok, DeployedTypeOK, OpenLedgers
<1>4. mint_of(key) = mint[key] /\ mint[key] \in {TokenA, TokenB}
  BY <1>2, <1>3 DEF mint_of, Check, Ok, Wired
<1>5. info.token_a \in TokenInfos(NamedKeys, 0) /\ info.token_b \in TokenInfos(NamedKeys, 1)
  BY InfoTyped DEF SwapInfos
<1>6. CASE mint[key] = TokenA
  <2> DEFINE t == [info.token_a EXCEPT !.admin_fees = key]
  <2>1. new = [info EXCEPT !.token_a = t]
    BY <1>4, <1>6 DEF Wired
  <2>2. /\ t \in TokenInfos(NamedKeys, 0) /\ t.admin_fees = key
        /\ t.reserves = info.token_a.reserves /\ t.mint = info.token_a.mint
    BY <1>5 DEF TokenInfos
  <2> HIDE DEF t, new
  <2>3. /\ new \in SwapInfos(NamedKeys) /\ new.token_a = t /\ new.token_b = info.token_b
        /\ new.nonce = info.nonce /\ new.pool_mint = info.pool_mint
        /\ new.is_initialized = info.is_initialized /\ new.is_paused = info.is_paused
        /\ new.initial_amp_factor = info.initial_amp_factor
        /\ new.target_amp_factor = info.target_amp_factor
        /\ new.start_ramp_ts = info.start_ramp_ts /\ new.stop_ramp_ts = info.stop_ramp_ts
        /\ new.admin_key = info.admin_key /\ new.future_admin_key = info.future_admin_key
        /\ new.future_admin_deadline = info.future_admin_deadline /\ new.fees = info.fees
    BY <2>1, <2>2, InfoTyped DEF SwapInfos
  <2>4. Wired(new) /\ new.is_initialized
    BY <1>3, <1>6, <2>2, <2>3 DEF Wired, P!AdminSigned
  <2>5. ASSUME info' = new, now' = now
        PROVE  P!SetFeeAccount(key)
    BY <1>6, <2>2, <2>3, <2>5, SameNumbers, DeployedAssumption
       DEF P!SetFeeAccount, P!AdminSigned, P!rampVars, P!transferVars
  <2> QED
    BY <1>2, <1>3, <2>3, <2>4, <2>5
<1>7. CASE mint[key] = TokenB
  <2> DEFINE t == [info.token_b EXCEPT !.admin_fees = key]
  <2>1. new = [info EXCEPT !.token_b = t]
    BY <1>4, <1>7, DeployedAssumption DEF Wired
  <2>2. /\ t \in TokenInfos(NamedKeys, 1) /\ t.admin_fees = key
        /\ t.reserves = info.token_b.reserves /\ t.mint = info.token_b.mint
    BY <1>5 DEF TokenInfos
  <2> HIDE DEF t, new
  <2>3. /\ new \in SwapInfos(NamedKeys) /\ new.token_b = t /\ new.token_a = info.token_a
        /\ new.nonce = info.nonce /\ new.pool_mint = info.pool_mint
        /\ new.is_initialized = info.is_initialized /\ new.is_paused = info.is_paused
        /\ new.initial_amp_factor = info.initial_amp_factor
        /\ new.target_amp_factor = info.target_amp_factor
        /\ new.start_ramp_ts = info.start_ramp_ts /\ new.stop_ramp_ts = info.stop_ramp_ts
        /\ new.admin_key = info.admin_key /\ new.future_admin_key = info.future_admin_key
        /\ new.future_admin_deadline = info.future_admin_deadline /\ new.fees = info.fees
    BY <2>1, <2>2, InfoTyped DEF SwapInfos
  <2>4. Wired(new) /\ new.is_initialized
    BY <1>3, <1>7, <2>2, <2>3 DEF Wired, P!AdminSigned
  <2>5. ASSUME info' = new, now' = now
        PROVE  P!SetFeeAccount(key)
    BY <1>7, <2>2, <2>3, <2>5, SameNumbers, DeployedAssumption
       DEF P!SetFeeAccount, P!AdminSigned, P!rampVars, P!transferVars
  <2> QED
    BY <1>2, <1>3, <2>3, <2>4, <2>5
<1> QED
  BY <1>4, <1>6, <1>7

\* What ProcessInstruction and DeployedNext do with the result r.
Commits(r) ==
    /\ swap_data' = r.data /\ ledger' = r.ledger /\ now' = now
    /\ info' = IF swap_data' = swap_data THEN info ELSE Decode(swap_data')

LEMMA AdminResult ==
    ASSUME DeployedTypeOK, NEW infos, GivenAccounts(infos), NEW ix,
           process_admin_instruction(ix, infos).err = Ok
    PROVE  /\ P!AdminSigned
           /\ HandleAdmin(info, infos, ix).err = Ok
           /\ process_admin_instruction(ix, infos)
                = Outcome(Ok, SwapInfo_pack(HandleAdmin(info, infos, ix).info), ledger)
<1> DEFINE r == process_admin_instruction(ix, infos)
           unpacked == SwapInfo_unpack(data_of(infos[1].key))
           checks == check_has_admin_signer(unpacked.info.admin_key, infos[2])
           h == HandleAdmin(unpacked.info, infos, ix)
<1>1. Len(infos) >= 2 /\ r = Administered(unpacked, infos, ix)
  BY DEF process_admin_instruction, Fails, Outcome, GivenAccounts, Ok
<1> HIDE DEF r, unpacked
<1>2. /\ Then(unpacked.err, FirstError(checks)) = Ok
      /\ r = HandledAndStored(infos[1], h)
  <2> HIDE DEF checks, h
  <2>1. r = Unless(Then(unpacked.err, FirstError(checks)), HandledAndStored(infos[1], h))
    BY <1>1 DEF Administered, checks, h
  <2> QED
    BY <2>1, Refusal DEF r
<1>3. unpacked.err = Ok /\ FirstError(checks) = Ok
  BY <1>2 DEF Then
<1>4. infos[1].key = SwapKey /\ unpacked = SwapInfo_unpack(swap_data)
  BY <1>3, OtherAccounts DEF unpacked
<1>5. info.is_initialized /\ unpacked.info = info
  BY <1>3, <1>4, Reload
<1>6. infos[2].key = info.admin_key /\ infos[2].is_signer
  BY <1>3, <1>5, AdminChecks
<1>7. P!AdminSigned
  BY <1>1, <1>5, <1>6, AdminState DEF GivenAccounts
<1>8. h = HandleAdmin(info, infos, ix)
  BY <1>5
<1> HIDE DEF h
<1>9. h.err = Ok /\ r = Stored(infos[1], h.info)
  BY <1>2, Refusal DEF HandledAndStored, r
<1>10. r = Outcome(Ok, SwapInfo_pack(h.info), ledger)
  BY <1>9 DEF Stored, Fails, Outcome, Ok, r
<1> QED
  BY <1>7, <1>8, <1>9, <1>10 DEF r

LEMMA AdminRefines ==
    ASSUME DeployedInv, NEW request \in Understandable,
           NEW ix, ix = Unpack(request.data).instruction, ix \in AdminInstructions,
           NEW infos, GivenAccounts(infos), P!AdminSigned,
           NEW h, h = HandleAdmin(info, infos, ix), h.err = Ok
    PROVE  /\ h.info \in SwapInfos(NamedKeys)
           /\ h.info.is_initialized /\ Wired(h.info)
           /\ info' = h.info /\ now' = now => P!AdminInstruction
<1>1. ix \in Sent(ix.op)
  BY DEF Sent
<1>2. Wired(info) /\ DeployedTypeOK
  BY DEF DeployedInv, StaysWired, P!AdminSigned
<1>3. ASSUME h.info \in SwapInfos(NamedKeys), SameWires(h.info)
      PROVE  h.info.is_initialized /\ Wired(h.info)
  BY <1>2, <1>3 DEF SameWires, Wired
<1>4. CASE ix.op = "RampA"
  <2>1. ix.target_amp \in U64 /\ ix.stop_ramp_ts \in I64
    BY <1>4 DEF AdminInstructions, PlainOps
  <2>2. ix.target_amp \in SentAmps /\ ix.stop_ramp_ts \in SentStops
    BY <1>1, <1>4 DEF SentAmps, SentStops
  <2>3. h = RampA(info, ix.target_amp, ix.stop_ramp_ts)
    BY <1>4 DEF HandleAdmin
  <2>4. /\ h.info \in SwapInfos(NamedKeys) /\ SameWires(h.info)
        /\ info' = h.info /\ now' = now => P!RampA(ix.target_amp, ix.stop_ramp_ts)
    BY <1>2, <2>1, <2>3, RampARefines
  <2> QED
    BY <1>3, <2>2, <2>4, Zenon DEF P!AdminInstruction
<1>5. CASE ix.op = "StopRampA"
  <2>1. h = StopRampA(info)
    BY <1>5 DEF HandleAdmin
  <2>2. /\ h.info \in SwapInfos(NamedKeys) /\ SameWires(h.info)
        /\ info' = h.info /\ now' = now => P!StopRampA
    BY <1>2, <2>1, StopRampARefines
  <2> QED
    BY <1>3, <2>2, Zenon DEF P!AdminInstruction
<1>6. CASE ix.op = "Pause"
  <2>1. h = Pause(info)
    BY <1>6 DEF HandleAdmin
  <2>2. h.info = [info EXCEPT !.is_paused = TRUE]
    BY <2>1 DEF Pause, Changed
  <2>3. /\ h.info \in SwapInfos(NamedKeys) /\ SameWires(h.info)
        /\ info' = h.info /\ now' = now => P!SetPaused(TRUE)
    BY <1>2, <2>2, PauseRefines
  <2> QED
    BY <1>3, <2>3, Zenon DEF P!AdminInstruction, P!Pause
<1>7. CASE ix.op = "Unpause"
  <2>1. h = Unpause(info)
    BY <1>7 DEF HandleAdmin
  <2>2. h.info = [info EXCEPT !.is_paused = FALSE]
    BY <2>1 DEF Unpause, Changed
  <2>3. /\ h.info \in SwapInfos(NamedKeys) /\ SameWires(h.info)
        /\ info' = h.info /\ now' = now => P!SetPaused(FALSE)
    BY <1>2, <2>2, PauseRefines
  <2> QED
    BY <1>3, <2>3, Zenon DEF P!AdminInstruction, P!Unpause
<1>8. CASE ix.op = "ApplyNewAdmin"
  <2>1. h = ApplyNewAdmin(info)
    BY <1>8 DEF HandleAdmin
  <2>2. /\ h.info \in SwapInfos(NamedKeys) /\ SameWires(h.info)
        /\ info' = h.info /\ now' = now => P!ApplyNewAdmin
    BY <1>2, <2>1, ApplyRefines
  <2> QED
    BY <1>3, <2>2, Zenon DEF P!AdminInstruction
<1>9. CASE ix.op = "SetNewFees"
  <2>1. h = SetNewFees(info, ix.fees)
    BY <1>9 DEF HandleAdmin
  <2>2. h.info = [info EXCEPT !.fees = ix.fees]
    BY <2>1 DEF SetNewFees, Changed
  <2>3. ix.fees \in Fees
    BY <1>9 DEF AdminInstructions, PlainOps
  <2>4. ix.fees \in SentFees
    BY <1>1, <1>9 DEF SentFees
  <2>5. /\ h.info \in SwapInfos(NamedKeys) /\ SameWires(h.info)
        /\ info' = h.info /\ now' = now => P!SetNewFees(ix.fees)
    BY <1>2, <2>2, <2>3, SetNewFeesRefines
  <2> QED
    BY <1>3, <2>4, <2>5, Zenon DEF P!AdminInstruction
<1>10. CASE ix.op = "SetFeeAccount"
  <2>1. Len(infos) >= 3 /\ h = SetFeeAccount(info, infos[3].key)
    BY <1>10 DEF HandleAdmin, Changed, Ok, GivenAccounts
  <2>2. infos[3].key \in NamedKeys
    BY <2>1 DEF GivenAccounts
  <2>3. /\ h.info \in SwapInfos(NamedKeys) /\ h.info.is_initialized /\ Wired(h.info)
        /\ info' = h.info /\ now' = now =>
                infos[3].key \in TokenAccounts /\ P!SetFeeAccount(infos[3].key)
    BY <1>2, <2>1, <2>2, SetFeeAccountRefines
  <2> QED
    BY <2>3, Zenon DEF P!AdminInstruction
<1>11. CASE ix.op = "CommitNewAdmin"
  <2>1. Len(infos) >= 3 /\ h = CommitNewAdmin(info, infos[3].key)
    BY <1>11 DEF HandleAdmin, Changed, Ok, GivenAccounts
  <2>2. infos[3].key \in NamedKeys
    BY <2>1 DEF GivenAccounts
  <2>3. /\ h.info \in SwapInfos(NamedKeys) /\ SameWires(h.info)
        /\ info' = h.info /\ now' = now => P!CommitNewAdmin(infos[3].key)
    BY <1>2, <2>1, <2>2, CommitRefines
  <2> QED
    BY <1>3, <2>2, <2>3, Zenon DEF P!AdminInstruction
<1> QED
  BY <1>4, <1>5, <1>6, <1>7, <1>8, <1>9, <1>10, <1>11, OpsOf DEF AdminOps, PlainOps

LEMMA AdminStep ==
    ASSUME DeployedInv, NEW request \in Understandable,
           NEW ix, ix = Unpack(request.data).instruction, ix \in AdminInstructions,
           NEW infos, GivenAccounts(infos),
           NEW r, r = process_admin_instruction(ix, infos), r.err = Ok, Commits(r)
    PROVE  DeployedInv' /\ P!Next
<1> DEFINE h == HandleAdmin(info, infos, ix)
<1>1. DeployedTypeOK
  BY DEF DeployedInv
<1>2. /\ P!AdminSigned /\ h.err = Ok /\ r = Outcome(Ok, SwapInfo_pack(h.info), ledger)
  BY <1>1, AdminResult
<1> HIDE DEF h
<1>3. /\ h.info \in SwapInfos(NamedKeys) /\ h.info.is_initialized /\ Wired(h.info)
      /\ info' = h.info /\ now' = now => P!AdminInstruction
  BY <1>2, AdminRefines DEF h
<1>4. swap_data' = SwapInfo_pack(h.info) /\ ledger' = ledger /\ now' = now
  BY <1>2 DEF Commits, Outcome
<1>5. info' = h.info
  BY <1>1, <1>3, <1>4, InfoAfter DEF Commits
<1>6. owner[resA] = Authority /\ owner[resB] = Authority
  BY <1>2 DEF DeployedInv, StaysWired, P!AdminSigned
<1>7. DeployedInv'
  BY <1>1, <1>3, <1>4, <1>5, <1>6 DEF DeployedInv, DeployedTypeOK, StaysWired, Wired
<1>8. info.is_initialized
  BY <1>2 DEF P!AdminSigned
<1>9. P!Administer
  <2>1. P!AdminInstruction /\ UNCHANGED ledger
    BY <1>3, <1>4, <1>5
  <2>2. ledger.open = TokenAccounts
    BY <1>1 DEF DeployedTypeOK, OpenLedgers
  <2>3. info'.token_a.admin_fees \in TokenAccounts /\ info'.token_b.admin_fees \in TokenAccounts
        /\ info'.is_initialized
    BY <1>3, <1>5 DEF Wired
  <2> QED
    BY <2>1, <2>2, <2>3, SameNumbers DEF P!Administer
<1> QED
  BY <1>7, <1>9 DEF P!Next

---------------------------------------------------------------------------
(* User instructions *)

\* What the checks of all of them establish: the state is loaded, the pool's
\* authority and the user sign, and the accounts are the pool's.

LEMMA LoadedOk ==
    ASSUME DeployedTypeOK, NEW infos, NEW names, NEW different,
           NEW loaded, loaded = Loaded(infos, names, different), loaded.err = Ok
    PROVE  /\ info.is_initialized
           /\ loaded.unpacked.info = info
           /\ loaded.k.swap = SwapKey
<1> DEFINE k == next_account_infos(infos, names)
           unpacked == SwapInfo_unpack(data_of(k.swap))
<1>1. loaded = LoadedAccounts(k, different)
  BY DEF Loaded, Ok
<1> HIDE DEF k
<1>2. loaded = LoadedSwap(k, unpacked)
  <2> DEFINE same == \E x, y \in different : x # y /\ k[x] = k[y]
  <2>1. loaded = IF same THEN [err |-> "InvalidInput"] ELSE LoadedSwap(k, unpacked)
    BY <1>1, Zenon DEF LoadedAccounts
  <2> HIDE DEF same, unpacked
  <2> QED
    BY <2>1 DEF Ok
<1>3. loaded.k = k /\ loaded.unpacked = unpacked /\ unpacked.err = Ok
  <2> HIDE DEF unpacked
  <2> QED
    BY <1>2 DEF LoadedSwap
<1>4. k.swap = SwapKey /\ unpacked = SwapInfo_unpack(swap_data)
  BY <1>3, OtherAccounts
<1> HIDE DEF unpacked
<1> QED
  BY <1>3, <1>4, Reload

LEMMA AuthorityOfPool ==
    ASSUME Wired(info), NEW k, k.swap = SwapKey, check_swap_authority(info, k) = Ok
    PROVE  k.swap_authority = Authority
BY DEF Wired, check_swap_authority, authority_id, Check, Ok

LEMMA UserSigns ==
    ASSUME NEW infos, GivenAccounts(infos), NEW k, AsUser(infos, k).signed
    PROVE  AsUser(infos, k).authority \in SigningKeys
<1> DEFINE signed == \E i \in DOMAIN infos : infos[i].key = k.user_authority /\ infos[i].is_signer
<1>1. AsUser(infos, k) = [infos |-> infos, token_program |-> k.token_program,
                          authority |-> k.user_authority, signed |-> signed]
  BY Zenon DEF AsUser
<1>2. signed => k.user_authority \in SigningKeys
  BY DEF GivenAccounts
<1> HIDE DEF signed
<1> QED
  BY <1>1, <1>2

LEMMA SwapAuthority ==
    ASSUME NEW infos, NEW k, NEW nonce, k.swap_authority = Authority
    PROVE  AsSwap(infos, k, nonce).authority = Authority
<1> DEFINE signed == k.swap_authority = authority_id(k.swap, nonce)
<1>1. AsSwap(infos, k, nonce) = [infos |-> infos, token_program |-> k.token_program,
                                 authority |-> k.swap_authority, signed |-> signed]
  BY Zenon DEF AsSwap
<1> HIDE DEF signed
<1> QED
  BY <1>1

LEMMA TwoReserves == resA # resB /\ TokenA # TokenB
BY DeployedAssumption

LEMMA SwapAccounts ==
    ASSUME Wired(info), NEW k, k.swap = SwapKey,
           FirstError(SwapChecks(k, info, info.token_a, info.token_b)) = Ok
    PROVE  /\ ~info.is_paused /\ k.source \notin {resA, resB} /\ k.swap_authority = Authority
           /\ \/ /\ k.swap_source = resA /\ k.swap_destination = resB
                 /\ k.admin_destination = info.token_b.admin_fees
              \/ /\ k.swap_source = resB /\ k.swap_destination = resA
                 /\ k.admin_destination = info.token_a.admin_fees
<1> DEFINE t == IF k.swap_source = info.token_a.reserves THEN info.token_b ELSE info.token_a
           c1 == NotPaused(info)
           c2 == Check(k.source \notin {info.token_a.reserves, info.token_b.reserves},
                       "InvalidInput")
           c3 == check_swap_authority(info, k)
           c4 == Check(k.swap_source \in {info.token_a.reserves, info.token_b.reserves},
                       "IncorrectSwapAccount")
           c5 == check_reserves_match(t, k.swap_destination)
           c6 == Check(k.admin_destination = t.admin_fees, "InvalidAdmin")
           c7 == unpack_token_account(k.swap_source)
           c8 == unpack_token_account(k.swap_destination)
<1>1. SwapChecks(k, info, info.token_a, info.token_b)
        = <<c1, c2, c3, c4>> \o <<c5, c6>> \o <<c7, c8>>
  BY Zenon DEF SwapChecks, check_swap_token_destination_accounts
<1>2. c1 = Ok /\ c2 = Ok /\ c3 = Ok /\ c4 = Ok /\ c5 = Ok /\ c6 = Ok
  <2> HIDE DEF c1, c2, c3, c4, c5, c6, c7, c8
  <2> DEFINE s == <<c1, c2, c3, c4>>
             u == <<c5, c6>>
             v == <<c7, c8>>
  <2>1. /\ IsList(s) /\ (Passed(s) => c1 = Ok /\ c2 = Ok /\ c3 = Ok /\ c4 = Ok)
        /\ IsList(u) /\ (Passed(u) => c5 = Ok /\ c6 = Ok)
        /\ IsList(v)
    BY List4, List2
  <2>2. FirstError(s \o u \o v) = Ok
    BY <1>1
  <2> HIDE DEF s, u, v
  <2> QED
    BY <2>1, <2>2, ThreeLists
<1>3. k.swap_authority = Authority
  BY <1>2, AuthorityOfPool
<1> QED
  BY <1>2, <1>3, TwoReserves DEF NotPaused, check_reserves_match, Check, Ok, Wired

LEMMA SwapAmounts ==
    ASSUME NEW amp, NEW n, NEW a, NEW b, NEW f, NEW result, result = swap_to(amp, n, a, b, f),
           result.ok
    PROVE  result.amount_swapped \in Nat /\ result.admin_fee \in Nat
<1> DEFINE y  == compute_y(amp, Add64(a, n), compute_d(amp, a, b))
           dy == CheckedSub(CheckedSub(b, y), 1)
<1>1. result = Exchanged(dy, n, a, b, f)
  BY DEF swap_to
<1> HIDE DEF dy
<1> DEFINE dy_fee == trade_fee(f, dy)
           adm == admin_trade_fee(f, dy_fee)
           swapped == CheckedSub(dy, dy_fee)
           left == CheckedSub(CheckedSub(b, swapped), adm)
<1>2. result.amount_swapped = swapped /\ result.admin_fee = adm /\ left # None
  <2> DEFINE fine == left # None
  <2>1. result = [ ok |-> fine, new_source_amount |-> Add64(a, n), new_destination_amount |-> left,
                   amount_swapped |-> swapped, admin_fee |-> adm, fee |-> dy_fee ]
    BY <1>1, Zenon DEF Exchanged
  <2> HIDE DEF dy_fee, adm, swapped, left, fine
  <2>2. fine /\ result.amount_swapped = swapped /\ result.admin_fee = adm
    BY <2>1
  <2> QED
    BY <2>2 DEF fine
<1> HIDE DEF dy_fee, adm, swapped
<1>3. adm \in Nat /\ CheckedSub(b, swapped) \in Nat
  BY <1>2, CheckedSubBounds
<1>4. swapped \in Nat
  BY <1>3, CheckedSubBounds DEF None
<1> QED
  BY <1>2, <1>3, <1>4

---------------------------------------------------------------------------
(* Swap *)

\* A successful user instruction with the result r.
UserStep(r) ==
    \/ r = NothingToDo
    \/ \E l \in OpenLedgers :
          /\ r = Outcome(Ok, swap_data, l)
          /\ ledger' = l /\ now' = now /\ info' = info =>
                \E user \in SigningKeys : P!UserInstruction(user)

LEMMA NothingLeft ==
    ASSUME DeployedTypeOK
    PROVE  CallsLeft(NothingToDo, ledger)
BY DEF CallsLeft, NothingToDo, DeployedTypeOK

LEMMA PoolState ==
    ASSUME DeployedInv, info.is_initialized
    PROVE  /\ P!Reserve(TokenA) = ledger.amount[resA] /\ P!Reserve(TokenB) = ledger.amount[resB]
           /\ P!Other(TokenA) = TokenB /\ P!Other(TokenB) = TokenA
           /\ amount_of(resA) = ledger.amount[resA] /\ amount_of(resB) = ledger.amount[resB]
           /\ supply_of(PoolMint) = ledger.supply
           /\ Wired(info) /\ mint[resA] = TokenA /\ mint[resB] = TokenB
           /\ P!amp_factor = current_amp(info)
BY DeployedAssumption, CurrentAmp, TwoReserves
   DEF DeployedInv, StaysWired, P!Reserve, P!Other, amount_of, balance_in, supply_of

LEMMA SwapRefines ==
    ASSUME DeployedInv, NEW infos, GivenAccounts(infos), NEW ix,
           ix.amount_in \in U64 \cap SentAmounts, ix.minimum_amount_out \in U64,
           NEW r, r = process_swap(infos, ix), r.err = Ok
    PROVE  UserStep(r)
<1>1. CASE ix.amount_in = 0
  BY <1>1 DEF process_swap, UserStep
<1>2. CASE ix.amount_in # 0
  <2> DEFINE names == UserLeads \o << "source", "swap_source", "swap_destination", "destination",
                                      "admin_destination", "token_program" >>
             loaded == Loaded(infos, names, {"swap_source", "swap_destination"})
             k == loaded.k
             checks == SwapChecks(k, info, info.token_a, info.token_b)
             result == swap_to(current_amp(info), ix.amount_in, amount_of(k.swap_source),
                               amount_of(k.swap_destination), info.fees)
             n == ix.amount_in
             asUser == AsUser(infos, k)
             asSwap == AsSwap(infos, k, info.nonce)
             r1 == spl_transfer(NothingToDo, asUser, k.source, k.swap_source, n)
             r2 == spl_transfer(r1, asSwap, k.swap_destination, k.destination,
                                result.amount_swapped)
             r3 == spl_transfer(r2, asSwap, k.swap_destination, k.admin_destination,
                                result.admin_fee)
  <2>1. r = SwapLoaded(infos, ix, loaded)
    BY <1>2 DEF process_swap
  <2> HIDE DEF loaded
  <2>2. DeployedTypeOK
    BY DEF DeployedInv
  <2>3. loaded.err = Ok
    <3> DEFINE t == loaded.unpacked.info
               error == FirstError(SwapChecks(k, t, t.token_a, t.token_b))
               outcome == SwapCalls(infos, ix, k, t.nonce,
                   swap_to(current_amp(t), ix.amount_in,
                           amount_of(k.swap_source), amount_of(k.swap_destination),
                           t.fees))
    <3>1. r = Unless(Then(loaded.err, error), outcome)
      BY <2>1 DEF SwapLoaded
    <3> HIDE DEF error, outcome
    <3> QED
      BY <3>1, Refusal DEF Then
  <2>4. info.is_initialized /\ loaded.unpacked.info = info /\ k.swap = SwapKey
    BY <2>2, <2>3, LoadedOk DEF loaded
  <2>5. r = Unless(Then(loaded.err, FirstError(checks)),
                   SwapCalls(infos, ix, k, info.nonce, result))
    BY <2>1, <2>4 DEF SwapLoaded
  <2> HIDE DEF k, checks, result
  <2>6. FirstError(checks) = Ok /\ r = SwapCalls(infos, ix, k, info.nonce, result)
    BY <2>3, <2>5, Refusal DEF Then
  <2>7. /\ ~info.is_paused /\ k.source \notin {resA, resB} /\ k.swap_authority = Authority
        /\ \/ /\ k.swap_source = resA /\ k.swap_destination = resB
              /\ k.admin_destination = info.token_b.admin_fees
           \/ /\ k.swap_source = resB /\ k.swap_destination = resA
              /\ k.admin_destination = info.token_a.admin_fees
    BY <2>4, <2>6, PoolState, SwapAccounts DEF checks
  <2>8. result.ok /\ r = r3
    <3> DEFINE a == Check(result.ok, "CalculationFailure")
               b == Check(result.amount_swapped >= ix.minimum_amount_out, "ExceededSlippage")
    <3>1. r = Unless(FirstError(<<a, b>>), r3)
      BY <2>6 DEF SwapCalls
    <3>2. a = Ok /\ r = r3
      <4> HIDE DEF a, b, r3
      <4> QED
        BY <3>1, List2, NoErrorPasses, Refusal
    <3> QED
      BY <3>2 DEF Check, Ok
  <2>9. n \in Nat /\ result.amount_swapped \in Nat /\ result.admin_fee \in Nat
    BY <2>8, SwapAmounts, WidthAssumption DEF result, U64
  <2> HIDE DEF asUser, asSwap, r1, r2, r3
  <2>10. r3.err = Ok /\ r2.err = Ok /\ r1.err = Ok
    BY <2>8, EarlierCalls DEF r3, r2
  <2> DEFINE user == asUser.authority
             l1 == Transfer(ledger, user, k.source, k.swap_source, n)
             l2 == Transfer(l1, Authority, k.swap_destination, k.destination,
                            result.amount_swapped)
             l3 == Transfer(l2, Authority, k.swap_destination, k.admin_destination,
                            result.admin_fee)
  <2> HIDE DEF l1, l2, l3
  <2>11. asSwap.authority = Authority
    BY <2>7, SwapAuthority DEF asSwap
  <2>12. /\ CallsLeft(r1, l1) /\ asUser.signed
         /\ k.source \in TokenAccounts /\ mint[k.source] = mint[k.swap_source]
         /\ owner[k.source] = user
    BY <2>2, <2>9, <2>10, NothingLeft, TransferAccepted DEF r1, l1
  <2>13. /\ CallsLeft(r2, l2)
         /\ k.destination \in TokenAccounts /\ mint[k.swap_destination] = mint[k.destination]
    BY <2>9, <2>10, <2>11, <2>12, TransferAccepted DEF r2, l2
  <2>14. CallsLeft(r3, l3)
    BY <2>9, <2>10, <2>11, <2>13, TransferAccepted DEF r3, l3
  <2>15. user \in SigningKeys
    BY <2>12, UserSigns DEF asUser
  <2> HIDE DEF user, n
  <2>16. ASSUME ledger' = l3, now' = now, info' = info,
                NEW from \in {TokenA, TokenB},
                k.swap_source = IF from = TokenA THEN resA ELSE resB,
                k.swap_destination = IF from = TokenA THEN resB ELSE resA,
                k.admin_destination = IF from = TokenA THEN info.token_b.admin_fees
                                                       ELSE info.token_a.admin_fees
         PROVE  P!UserInstruction(user)
    <3>1. l3.ok
      BY <2>14 DEF CallsLeft, OpenLedgers
    <3>2. P!process_swap(user, from, k.source, k.destination, n, 0) = l3
      <4>1. P!swap_to(P!amp_factor, n, P!Reserve(from), P!Reserve(P!Other(from)), info.fees)
              = result
        BY <2>4, <2>16, PoolState, SameSwap, TwoReserves DEF result, n
      <4>2. P!Tradable /\ ~P!IsReserve(k.source)
        BY <2>4, <2>7 DEF P!Tradable, P!IsReserve, P!Mints
      <4>3. P!transfer_as_user(ledger, user, k.source, k.swap_source, n) = l1
        BY SameCalls DEF P!transfer_as_user, l1
      <4>4. P!transfer_as_swap(l1, k.swap_destination, k.destination, result.amount_swapped) = l2
        BY SameCalls DEF P!transfer_as_swap, l2
      <4>5. P!transfer_as_swap(l2, k.swap_destination, k.admin_destination, result.admin_fee) = l3
        BY SameCalls DEF P!transfer_as_swap, l3
      <4>6. ~(result.amount_swapped < 0)
        BY <2>9
      <4> HIDE DEF l1, l2, l3
      <4> QED
        BY <2>4, <2>8, <2>16, <4>1, <4>2, <4>3, <4>4, <4>5, <4>6, PoolState, SameNumbers,
           TwoReserves
           DEF P!process_swap
    <3>3. P!Swap(user, from, k.source, k.destination, n, 0)
      BY <1>2, <2>16, <3>1, <3>2
         DEF P!Swap, P!Commit, P!adminVars, P!swapInfoVars, P!rampVars, P!transferVars, P!feeVars, n
    <3>4. n \in SentAmounts
      BY DEF n
    <3>5. k.source \in P!AccountsOf(user, from)
      BY <2>12, <2>16, DeployedAssumption DEF P!AccountsOf
    <3>6. k.destination \in P!DestinationsOf(P!Other(from))
      BY <2>13, <2>16, DeployedAssumption DEF P!DestinationsOf, P!Other
    <3> QED
      BY <3>3, <3>4, <3>5, <3>6, SameNumbers DEF P!UserInstruction
  <2>17. l3 \in OpenLedgers /\ r = Outcome(Ok, swap_data, l3)
    BY <2>8, <2>14 DEF CallsLeft
  <2>18. ASSUME ledger' = l3, now' = now, info' = info
         PROVE  P!UserInstruction(user)
    <3>1. CASE k.swap_source = resA
      BY <2>7, <2>16, <2>18, <3>1, TwoReserves
    <3>2. CASE k.swap_source = resB
      BY <2>7, <2>16, <2>18, <3>2, TwoReserves
    <3> QED
      BY <2>7, <3>1, <3>2
  <2> QED
    BY <2>15, <2>17, <2>18 DEF UserStep
<1> QED
  BY <1>1, <1>2

---------------------------------------------------------------------------
(* Deposit *)

LEMMA DepositAccounts ==
    ASSUME Wired(info), NEW k, k.swap = SwapKey, FirstError(DepositChecks(k, info)) = Ok
    PROVE  /\ ~info.is_paused /\ k.swap_authority = Authority
           /\ k.source_a # resA /\ k.token_a = resA
           /\ k.source_b # resB /\ k.token_b = resB
           /\ k.pool_mint = PoolMint
<1> DEFINE c1 == NotPaused(info)
           c2 == check_swap_authority(info, k)
           c3 == Check(k.source_a # info.token_a.reserves, "InvalidInput")
           c4 == check_reserves_match(info.token_a, k.token_a)
           c5 == Check(k.source_b # info.token_b.reserves, "InvalidInput")
           c6 == check_reserves_match(info.token_b, k.token_b)
           c7 == Check(k.pool_mint = info.pool_mint, "IncorrectMint")
           c8 == unpack_token_account(k.token_a)
           c9 == unpack_token_account(k.token_b)
           c10 == unpack_mint(k.pool_mint)
<1>1. DepositChecks(k, info) = <<c1, c2>> \o <<c3, c4>> \o <<c5, c6>> \o <<c7, c8, c9, c10>>
  BY Zenon DEF DepositChecks, check_deposit_token_accounts
<1>2. c1 = Ok /\ c2 = Ok /\ c3 = Ok /\ c4 = Ok /\ c5 = Ok /\ c6 = Ok /\ c7 = Ok
  <2> HIDE DEF c1, c2, c3, c4, c5, c6, c7, c8, c9, c10
  <2> DEFINE s == <<c1, c2>>
             u == <<c3, c4>>
             v == <<c5, c6>>
             w == <<c7, c8, c9, c10>>
  <2>1. /\ IsList(s) /\ (Passed(s) => c1 = Ok /\ c2 = Ok)
        /\ IsList(u) /\ (Passed(u) => c3 = Ok /\ c4 = Ok)
        /\ IsList(v) /\ (Passed(v) => c5 = Ok /\ c6 = Ok)
        /\ IsList(w) /\ (Passed(w) => c7 = Ok)
    BY List4, List2
  <2>2. FirstError(s \o u \o v \o w) = Ok
    BY <1>1
  <2> HIDE DEF s, u, v, w
  <2> QED
    BY <2>1, <2>2, FourLists
<1>3. k.swap_authority = Authority
  BY <1>2, AuthorityOfPool
<1> QED
  BY <1>2, <1>3 DEF NotPaused, check_reserves_match, Check, Ok, Wired

LEMMA MintAmount ==
    ASSUME NEW amp, NEW deposit, NEW old, NEW supply, NEW f,
           compute_mint_amount_for_deposit(amp, deposit, old, supply, f) # None
    PROVE  compute_mint_amount_for_deposit(amp, deposit, old, supply, f) \in Nat
<1>1. compute_mint_amount_for_deposit(amp, deposit, old, supply, f) \in Option
  BY ToU64Bounds, Zenon DEF compute_mint_amount_for_deposit, MintedForGrowth, Option
<1> QED
  BY <1>1 DEF Option

LEMMA DepositRefines ==
    ASSUME DeployedInv, NEW infos, GivenAccounts(infos), NEW ix,
           ix.token_a_amount \in U64 \cap SentAmounts, ix.token_b_amount \in U64 \cap SentAmounts,
           NEW r, r = process_deposit(infos, ix), r.err = Ok
    PROVE  UserStep(r)
<1>1. CASE ix.token_a_amount = 0 /\ ix.token_b_amount = 0
  BY <1>1 DEF process_deposit, UserStep
<1>2. CASE ~(ix.token_a_amount = 0 /\ ix.token_b_amount = 0)
  <2> DEFINE names == UserLeads \o << "source_a", "source_b", "token_a", "token_b", "pool_mint",
                                      "destination", "token_program" >>
             loaded == Loaded(infos, names, {})
             k == loaded.k
             n_a == ix.token_a_amount
             n_b == ix.token_b_amount
             checks == DepositChecks(k, info)
             minted == compute_mint_amount_for_deposit(current_amp(info), <<n_a, n_b>>,
                           <<amount_of(k.token_a), amount_of(k.token_b)>>,
                           supply_of(k.pool_mint), info.fees)
             asUser == AsUser(infos, k)
             asSwap == AsSwap(infos, k, info.nonce)
             r1 == spl_transfer(NothingToDo, asUser, k.source_a, k.token_a, n_a)
             r2 == spl_transfer(r1, asUser, k.source_b, k.token_b, n_b)
             r3 == spl_mint_to(r2, asSwap, k.pool_mint, k.destination, minted)
  <2>1. r = DepositLoaded(infos, ix, loaded)
    BY <1>2, Zenon DEF process_deposit
  <2> HIDE DEF loaded
  <2>2. DeployedTypeOK
    BY DEF DeployedInv
  <2>3. loaded.err = Ok
    <3> DEFINE t == loaded.unpacked.info
               error == FirstError(DepositChecks(k, t))
               outcome == DepositCalls(infos, ix, k, t.nonce,
                   compute_mint_amount_for_deposit(current_amp(t),
                       <<ix.token_a_amount, ix.token_b_amount>>,
                       <<amount_of(k.token_a), amount_of(k.token_b)>>,
                       supply_of(k.pool_mint), t.fees))
    <3>1. r = Unless(Then(loaded.err, error), outcome)
      BY <2>1, Zenon DEF DepositLoaded
    <3> HIDE DEF error, outcome
    <3> QED
      BY <3>1, Refusal DEF Then
  <2>4. info.is_initialized /\ loaded.unpacked.info = info /\ k.swap = SwapKey
    BY <2>2, <2>3, LoadedOk DEF loaded
  <2>5. r = Unless(Then(loaded.err, FirstError(checks)),
                   DepositCalls(infos, ix, k, info.nonce, minted))
    BY <2>1, <2>4 DEF DepositLoaded
  <2> HIDE DEF k, checks, minted
  <2>6. FirstError(checks) = Ok /\ r = DepositCalls(infos, ix, k, info.nonce, minted)
    BY <2>3, <2>5, Refusal DEF Then
  <2>7. /\ ~info.is_paused /\ k.swap_authority = Authority
        /\ k.source_a # resA /\ k.token_a = resA
        /\ k.source_b # resB /\ k.token_b = resB
        /\ k.pool_mint = PoolMint
    BY <2>4, <2>6, PoolState, DepositAccounts DEF checks
  <2>8. minted # None /\ r = r3
    <3> DEFINE a == Check(minted # None, "CalculationFailure")
               b == Check(minted >= ix.min_mint_amount, "ExceededSlippage")
    <3>1. r = Unless(FirstError(<<a, b>>), r3)
      BY <2>6, Zenon DEF DepositCalls
    <3>2. a = Ok /\ r = r3
      <4> HIDE DEF a, b, r3
      <4> QED
        BY <3>1, List2, NoErrorPasses, Refusal
    <3> QED
      BY <3>2 DEF Check, Ok
  <2>9. n_a \in Nat /\ n_b \in Nat /\ minted \in Nat
    <3>1. minted \in Nat
      BY <2>8, MintAmount DEF minted
    <3> QED
      BY <3>1, WidthAssumption DEF U64
  <2> HIDE DEF asUser, asSwap, r1, r2, r3
  <2>10. r3.err = Ok /\ r2.err = Ok /\ r1.err = Ok
    BY <2>8, EarlierCalls DEF r3, r2
  <2> DEFINE user == asUser.authority
             l1 == Transfer(ledger, user, k.source_a, k.token_a, n_a)
             l2 == Transfer(l1, user, k.source_b, k.token_b, n_b)
             l3 == mint_to(l2, k.destination, minted)
  <2> HIDE DEF l1, l2, l3
  <2>12. /\ CallsLeft(r1, l1) /\ asUser.signed
         /\ k.source_a \in TokenAccounts /\ mint[k.source_a] = mint[k.token_a]
         /\ owner[k.source_a] = user
    BY <2>2, <2>9, <2>10, NothingLeft, TransferAccepted DEF r1, l1
  <2>13. /\ CallsLeft(r2, l2)
         /\ k.source_b \in TokenAccounts /\ mint[k.source_b] = mint[k.token_b]
         /\ owner[k.source_b] = user
    BY <2>9, <2>10, <2>12, TransferAccepted DEF r2, l2
  <2>14. CallsLeft(r3, l3) /\ k.destination \in TokenAccounts /\ mint[k.destination] = PoolMint
    BY <2>7, <2>9, <2>10, <2>13, MintAccepted DEF r3, l3
  <2>15. user \in SigningKeys
    BY <2>12, UserSigns DEF asUser
  <2> HIDE DEF user
  <2>16. ASSUME ledger' = l3, now' = now, info' = info
         PROVE  P!UserInstruction(user)
    <3> DEFINE sources == [m \in {TokenA, TokenB} |-> IF m = TokenA THEN k.source_a ELSE k.source_b]
               ns == [m \in {TokenA, TokenB} |-> IF m = TokenA THEN n_a ELSE n_b]
    <3>0. /\ sources[TokenA] = k.source_a /\ sources[TokenB] = k.source_b
          /\ ns[TokenA] = n_a /\ ns[TokenB] = n_b
      BY TwoReserves
    <3>1. l3.ok
      BY <2>14 DEF CallsLeft, OpenLedgers
    <3>2. P!process_deposit(user, sources, k.destination, ns, 0) = l3
      <4>1. P!compute_mint_amount_for_deposit(P!amp_factor, <<ns[TokenA], ns[TokenB]>>,
                <<P!Reserve(TokenA), P!Reserve(TokenB)>>, ledger.supply, info.fees) = minted
        BY <2>4, <2>7, <3>0, PoolState, SameDeposit DEF minted
      <4>2. P!Tradable /\ ~ \E m \in P!Mints :
                sources[m] = [n \in {TokenA, TokenB} |-> IF n = TokenA THEN resA ELSE resB][m]
        BY <2>4, <2>7, <3>0, SameNumbers, TwoReserves DEF P!Tradable
      <4>3. P!transfer_as_user(ledger, user, sources[TokenA], resA, n_a) = l1
        BY <2>7, <3>0, SameCalls DEF P!transfer_as_user, l1
      <4>4. P!transfer_as_user(l1, user, sources[TokenB], resB, n_b) = l2
        BY <2>7, <3>0, SameCalls DEF P!transfer_as_user, l2
      <4>5. P!mint_to(l2, k.destination, minted) = l3
        BY SameCalls DEF l3
      <4>6. ~(minted < 0)
        BY <2>9
      <4> HIDE DEF l1, l2, l3, sources, ns
      <4> DEFINE d == <<ns[TokenA], ns[TokenB]>>
                 old == <<P!Reserve(TokenA), P!Reserve(TokenB)>>
                 pminted == P!compute_mint_amount_for_deposit(P!amp_factor, d, old,
                                                              ledger.supply, info.fees)
                 resOf == [n \in {TokenA, TokenB} |-> IF n = TokenA THEN resA ELSE resB]
                 p1 == P!transfer_as_user(ledger, user, sources[TokenA], resOf[TokenA], d[1])
                 p2 == P!transfer_as_user(p1, user, sources[TokenB], resOf[TokenB], d[2])
      <4>7. P!process_deposit(user, sources, k.destination, ns, 0) =
                IF \/ ~P!Tradable
                   \/ \E m \in P!Mints : sources[m] = resOf[m]
                   \/ pminted = P!None
                   \/ pminted < 0
                THEN P!Failed(ledger) ELSE P!mint_to(p2, k.destination, pminted)
        BY <2>4 DEF P!process_deposit
      <4>8. d[1] = n_a /\ d[2] = n_b /\ resOf[TokenA] = resA /\ resOf[TokenB] = resB
        BY <3>0, TwoReserves
      <4>9. p1 = l1 /\ p2 = l2
        BY <4>3, <4>4, <4>8
      <4>10. pminted = minted
        BY <4>1
      <4> HIDE DEF pminted, p1, p2, d, old
      <4> QED
        BY <2>8, <4>2, <4>5, <4>6, <4>7, <4>9, <4>10, SameNumbers
    <3>3. P!Deposit(user, sources, k.destination, ns, 0)
      <4>1. \E m \in P!Mints : ns[m] # 0
        BY <1>2, <3>0, SameNumbers
      <4>2. P!Commit(P!process_deposit(user, sources, k.destination, ns, 0))
        BY <2>16, <3>1, <3>2 DEF P!Commit
      <4>3. UNCHANGED P!adminVars
        BY <2>16 DEF P!adminVars, P!swapInfoVars, P!rampVars, P!transferVars, P!feeVars
      <4> HIDE DEF sources, ns
      <4> QED
        BY <4>1, <4>2, <4>3 DEF P!Deposit
    <3>4. ns \in [P!Mints -> SentAmounts \cup {0}]
      BY SameNumbers
    <3>5. k.source_a \in P!AccountsOf(user, TokenA) /\ k.source_b \in P!AccountsOf(user, TokenB)
      BY <2>7, <2>12, <2>13, DeployedAssumption DEF P!AccountsOf
    <3>6. k.destination \in P!DestinationsOf(PoolMint)
      BY <2>14 DEF P!DestinationsOf
    <3>7. sources \in { [m \in P!Mints |-> IF m = TokenA THEN a ELSE b] :
                            a \in P!AccountsOf(user, TokenA), b \in P!AccountsOf(user, TokenB) }
      BY <3>5, SameNumbers
    <3> HIDE DEF sources, ns
    <3> QED
      BY <3>3, <3>4, <3>6, <3>7 DEF P!UserInstruction, P!PairOf
  <2>17. l3 \in OpenLedgers /\ r = Outcome(Ok, swap_data, l3)
    BY <2>8, <2>14 DEF CallsLeft
  <2> QED
    BY <2>15, <2>16, <2>17 DEF UserStep
<1> QED
  BY <1>1, <1>2

---------------------------------------------------------------------------
(* Withdraw *)

LEMMA WithdrawAccounts ==
    ASSUME Wired(info), NEW k, k.swap = SwapKey, FirstError(WithdrawChecks(k, info)) = Ok
    PROVE  /\ k.swap_authority = Authority
           /\ k.token_a = resA /\ k.fee_a = info.token_a.admin_fees
           /\ k.token_b = resB /\ k.fee_b = info.token_b.admin_fees
           /\ k.pool_mint = PoolMint /\ supply_of(PoolMint) # 0
<1> DEFINE c1 == check_swap_authority(info, k)
           c2 == check_reserves_match(info.token_a, k.token_a)
           c3 == Check(k.fee_a = info.token_a.admin_fees, "InvalidAdmin")
           c4 == check_reserves_match(info.token_b, k.token_b)
           c5 == Check(k.fee_b = info.token_b.admin_fees, "InvalidAdmin")
           c6 == Check(k.pool_mint = info.pool_mint, "IncorrectMint")
           c7 == unpack_mint(k.pool_mint)
           c8 == Check(supply_of(k.pool_mint) # 0, "EmptyPool")
           c9 == unpack_token_account(k.token_a)
           c10 == unpack_token_account(k.token_b)
<1>1. WithdrawChecks(k, info) = <<c1>> \o <<c2, c3>> \o <<c4, c5>> \o <<c6, c7, c8, c9, c10>>
  BY Zenon DEF WithdrawChecks, check_withdraw_token_accounts
<1>2. c1 = Ok /\ c2 = Ok /\ c3 = Ok /\ c4 = Ok /\ c5 = Ok /\ c6 = Ok /\ c8 = Ok
  <2> HIDE DEF c1, c2, c3, c4, c5, c6, c7, c8, c9, c10
  <2> DEFINE s == <<c1>>
             u == <<c2, c3>>
             v == <<c4, c5>>
             w == <<c6, c7, c8, c9, c10>>
  <2>1. /\ IsList(s) /\ (Passed(s) => c1 = Ok)
        /\ IsList(u) /\ (Passed(u) => c2 = Ok /\ c3 = Ok)
        /\ IsList(v) /\ (Passed(v) => c4 = Ok /\ c5 = Ok)
        /\ IsList(w) /\ (Passed(w) => c6 = Ok /\ c8 = Ok)
    BY List1, List2, List5
  <2>2. FirstError(s \o u \o v \o w) = Ok
    BY <1>1
  <2> HIDE DEF s, u, v, w
  <2> QED
    BY <2>1, <2>2, FourLists
<1>3. k.swap_authority = Authority
  BY <1>2, AuthorityOfPool
<1> QED
  BY <1>2, <1>3 DEF check_reserves_match, Check, Ok, Wired

LEMMA RateAmounts ==
    ASSUME NEW n, NEW supply, NEW reserve, NEW f,
           NEW rate, rate = token_rate(n, supply, reserve, f),
           rate.ok
    PROVE  rate.amount \in Nat /\ rate.admin_fee \in Nat
<1> DEFINE amount == ToU64(CheckedDiv(CheckedMul(n, reserve, U128_MAX), supply))
           fee == withdraw_fee(f, amount)
           adm == admin_withdraw_fee(f, fee)
           payout == CheckedSub(amount, fee)
           fine == payout # None /\ adm # None
<1>1. rate = [amount |-> payout, fee |-> fee, admin_fee |-> adm, ok |-> fine]
  BY Zenon DEF token_rate
<1>2. payout \in Option /\ adm \in Option
  BY CheckedSubBounds, MulDivBounds DEF admin_withdraw_fee
<1>3. rate.amount = payout /\ rate.admin_fee = adm /\ fine
  <2> HIDE DEF payout, adm, fee, fine
  <2> QED
    BY <1>1
<1> HIDE DEF payout, adm
<1> QED
  BY <1>2, <1>3 DEF Option

\* Where the pool keeps the token m, and where the admin's part of its fees goes.
PoolAccounts(m, x, z) ==
    \/ m = TokenA /\ x = resA /\ z = info.token_a.admin_fees
    \/ m = TokenB /\ x = resB /\ z = info.token_b.admin_fees

\* The two transfers that pay out one token.
LEMMA PayoutAccepted ==
    ASSUME info.is_initialized, NEW r, NEW l, NEW c, NEW rate, NEW m, NEW x, NEW y, NEW z,
           NEW new, new = handle_token_withdraw(r, c, rate, x, y, z),
           NEW l2, l2 = P!handle_token_withdraw(l, m, rate, y),
           CallsLeft(r, l), PoolAccounts(m, x, z), c.authority = Authority,
           rate.amount \in Nat, rate.admin_fee \in Nat, new.err = Ok
    PROVE  CallsLeft(new, l2) /\ y \in TokenAccounts /\ mint[y] = mint[x]
<1> DEFINE r1 == spl_transfer(r, c, x, y, rate.amount)
           l1 == Transfer(l, Authority, x, y, rate.amount)
<1>1. new = spl_transfer(r1, c, x, z, rate.admin_fee)
  BY DEF handle_token_withdraw
<1>2. l2 = Transfer(l1, Authority, x, z, rate.admin_fee)
  BY SameCalls, TwoReserves DEF P!handle_token_withdraw, P!transfer_as_swap, PoolAccounts
<1> HIDE DEF r1, l1
<1>3. r1.err = Ok
  BY <1>1, EarlierCalls
<1>4. CallsLeft(r1, l1) /\ y \in TokenAccounts /\ mint[y] = mint[x]
  BY <1>3, TransferAccepted DEF r1, l1
<1>5. CallsLeft(new, l2)
  BY <1>1, <1>2, <1>4, TransferAccepted
<1> QED
  BY <1>4, <1>5

LEMMA WithdrawRefines ==
    ASSUME DeployedInv, NEW infos, GivenAccounts(infos), NEW ix,
           ix.pool_token_amount \in U64 \cap SentAmounts,
           NEW r, r = process_withdraw(infos, ix), r.err = Ok
    PROVE  UserStep(r)
<1>1. CASE ix.pool_token_amount = 0
  BY <1>1 DEF process_withdraw, UserStep
<1>2. CASE ix.pool_token_amount # 0
  <2> DEFINE names == UserLeads \o << "pool_mint", "source", "token_a", "token_b", "dest_a",
                            "dest_b", "fee_a", "fee_b", "token_program" >>
             loaded == Loaded(infos, names, {})
             k == loaded.k
             n == ix.pool_token_amount
             checks == WithdrawChecks(k, info)
             a == token_rate(n, supply_of(k.pool_mint), amount_of(k.token_a), info.fees)
             b == token_rate(n, supply_of(k.pool_mint), amount_of(k.token_b), info.fees)
             asUser == AsUser(infos, k)
             asSwap == AsSwap(infos, k, info.nonce)
             r1 == handle_token_withdraw(NothingToDo, asSwap, a, k.token_a, k.dest_a, k.fee_a)
             r2 == handle_token_withdraw(r1, asSwap, b, k.token_b, k.dest_b, k.fee_b)
             r3 == spl_burn(r2, asUser, k.source, k.pool_mint, n)
  <2>1. r = WithdrawLoaded(infos, ix, loaded)
    BY <1>2, Zenon DEF process_withdraw
  <2> HIDE DEF loaded
  <2>2. DeployedTypeOK
    BY DEF DeployedInv
  <2>3. loaded.err = Ok
    <3> DEFINE t == loaded.unpacked.info
               error == FirstError(WithdrawChecks(k, t))
               outcome == WithdrawCalls(infos, ix, k, AsSwap(infos, k, t.nonce),
                   token_rate(n, supply_of(k.pool_mint), amount_of(k.token_a), t.fees),
                   token_rate(n, supply_of(k.pool_mint), amount_of(k.token_b), t.fees))
    <3>1. r = Unless(Then(loaded.err, error), outcome)
      BY <2>1, Zenon DEF WithdrawLoaded
    <3> HIDE DEF error, outcome
    <3> QED
      BY <3>1, Refusal DEF Then
  <2>4. info.is_initialized /\ loaded.unpacked.info = info /\ k.swap = SwapKey
    BY <2>2, <2>3, LoadedOk DEF loaded
  <2>5. r = Unless(Then(loaded.err, FirstError(checks)), WithdrawCalls(infos, ix, k, asSwap, a, b))
    BY <2>1, <2>4 DEF WithdrawLoaded
  <2> HIDE DEF k, checks, a, b, asSwap, asUser
  <2>6. FirstError(checks) = Ok /\ r = WithdrawCalls(infos, ix, k, asSwap, a, b)
    BY <2>3, <2>5, Refusal DEF Then
  <2>7. /\ k.swap_authority = Authority
        /\ k.token_a = resA /\ k.fee_a = info.token_a.admin_fees
        /\ k.token_b = resB /\ k.fee_b = info.token_b.admin_fees
        /\ k.pool_mint = PoolMint /\ supply_of(PoolMint) # 0
    BY <2>4, <2>6, PoolState, WithdrawAccounts DEF checks
  <2>8. a.ok /\ b.ok /\ r = r3
    <3> DEFINE c1 == Check(a.ok, "CalculationFailure")
               c2 == Check(a.amount >= ix.minimum_token_a_amount, "ExceededSlippage")
               c3 == Check(b.ok, "CalculationFailure")
               c4 == Check(b.amount >= ix.minimum_token_b_amount, "ExceededSlippage")
    <3>1. r = Unless(FirstError(<<c1, c2>> \o <<c3, c4>>), r3)
      BY <2>6, Zenon DEF WithdrawCalls, check_can_withdraw_token, asUser
    <3>2. c1 = Ok /\ c3 = Ok /\ r = r3
      <4> HIDE DEF c1, c2, c3, c4, r3
      <4> DEFINE s == <<c1, c2>>
                 t == <<c3, c4>>
      <4>1. /\ IsList(s) /\ (Passed(s) => c1 = Ok)
            /\ IsList(t) /\ (Passed(t) => c3 = Ok)
        BY List2
      <4>2. FirstError(s \o t) = Ok /\ r = r3
        BY <3>1, Refusal
      <4> HIDE DEF s, t
      <4> QED
        BY <4>1, <4>2, JoinChecks, NoErrorPasses
    <3> QED
      BY <3>2 DEF Check, Ok
  <2>9. /\ n \in Nat /\ a.amount \in Nat /\ a.admin_fee \in Nat
        /\ b.amount \in Nat /\ b.admin_fee \in Nat
    <3>1. a.amount \in Nat /\ a.admin_fee \in Nat
      BY <2>8, RateAmounts DEF a
    <3>2. b.amount \in Nat /\ b.admin_fee \in Nat
      BY <2>8, RateAmounts DEF b
    <3> QED
      BY <3>1, <3>2, WidthAssumption DEF U64
  <2> HIDE DEF r1, r2, r3
  <2>10. r3.err = Ok /\ r2.err = Ok /\ r1.err = Ok
    <3>1. r3.err = Ok /\ r2.err = Ok
      BY <2>8, EarlierCalls DEF r3
    <3>2. r1.err = Ok
      BY <3>1, EarlierCalls DEF r2, handle_token_withdraw
    <3> QED
      BY <3>1, <3>2
  <2> DEFINE user == asUser.authority
             l1 == P!handle_token_withdraw(ledger, TokenA, a, k.dest_a)
             l2 == P!handle_token_withdraw(l1, TokenB, b, k.dest_b)
             l3 == burn(l2, user, k.source, n)
  <2> HIDE DEF l1, l2, l3
  <2>11. asSwap.authority = Authority
    BY <2>7, SwapAuthority DEF asSwap
  <2>12. CallsLeft(r1, l1) /\ k.dest_a \in TokenAccounts /\ mint[k.dest_a] = mint[resA]
    <3>1. r1 = handle_token_withdraw(NothingToDo, asSwap, a, resA, k.dest_a,
                                     info.token_a.admin_fees)
      BY <2>7 DEF r1
    <3>2. l1 = P!handle_token_withdraw(ledger, TokenA, a, k.dest_a)
      BY DEF l1
    <3>3. CallsLeft(NothingToDo, ledger) /\ PoolAccounts(TokenA, resA, info.token_a.admin_fees)
      BY <2>2, NothingLeft DEF PoolAccounts
    <3> QED
      BY <2>4, <2>9, <2>10, <2>11, <3>1, <3>2, <3>3, PayoutAccepted
  <2>13. CallsLeft(r2, l2) /\ k.dest_b \in TokenAccounts /\ mint[k.dest_b] = mint[resB]
    <3>1. r2 = handle_token_withdraw(r1, asSwap, b, resB, k.dest_b, info.token_b.admin_fees)
      BY <2>7 DEF r2
    <3>2. l2 = P!handle_token_withdraw(l1, TokenB, b, k.dest_b)
      BY DEF l2
    <3>3. PoolAccounts(TokenB, resB, info.token_b.admin_fees)
      BY DEF PoolAccounts
    <3> QED
      BY <2>4, <2>9, <2>10, <2>11, <2>12, <3>1, <3>2, <3>3, PayoutAccepted
  <2>14. /\ CallsLeft(r3, l3) /\ asUser.signed
         /\ k.source \in TokenAccounts /\ mint[k.source] = PoolMint /\ owner[k.source] = user
    BY <2>7, <2>9, <2>10, <2>13, BurnAccepted DEF r3, l3
  <2>15. user \in SigningKeys
    BY <2>14, UserSigns DEF asUser
  <2> HIDE DEF user
  <2>16. ASSUME ledger' = l3, now' = now, info' = info
         PROVE  P!UserInstruction(user)
    <3> DEFINE tos == [m \in {TokenA, TokenB} |-> IF m = TokenA THEN k.dest_a ELSE k.dest_b]
               minimums == [m \in {TokenA, TokenB} |-> 0]
    <3>0. /\ tos[TokenA] = k.dest_a /\ tos[TokenB] = k.dest_b
          /\ minimums[TokenA] = 0 /\ minimums[TokenB] = 0
      BY TwoReserves
    <3>1. l3.ok
      BY <2>14 DEF CallsLeft, OpenLedgers
    <3> DEFINE rate == [m \in P!Mints |->
                            P!token_rate(n, ledger.supply, P!Reserve(m), info.fees)]
    <3>2. rate[TokenA] = a /\ rate[TokenB] = b
      BY <2>4, <2>7, PoolState, SameRate, SameNumbers DEF a, b
    <3>3. P!process_withdraw(user, k.source, tos, n, minimums) = l3
      <4> DEFINE p1 == P!handle_token_withdraw(ledger, TokenA, rate[TokenA], tos[TokenA])
                 p2 == P!handle_token_withdraw(p1, TokenB, rate[TokenB], tos[TokenB])
                 p3 == P!burn(p2, user, k.source, n)
      <4>1. P!process_withdraw(user, k.source, tos, n, minimums) =
              IF \/ ~info.is_initialized
                 \/ ledger.supply = 0
                 \/ \E m \in P!Mints : ~rate[m].ok \/ rate[m].amount < minimums[m]
              THEN P!Failed(ledger) ELSE p3
        BY <2>4 DEF P!process_withdraw
      <4>2. p1 = l1 /\ p2 = l2 /\ p3 = l3
        BY <3>0, <3>2, SameCalls DEF l1, l2, l3
      <4>3. ~ \E m \in P!Mints : ~rate[m].ok \/ rate[m].amount < minimums[m]
        BY <2>8, <2>9, <3>0, <3>2, SameNumbers
      <4>4. ledger.supply # 0
        BY <2>4, <2>7, PoolState
      <4> HIDE DEF p1, p2, p3, rate
      <4> QED
        BY <2>4, <4>1, <4>2, <4>3, <4>4
    <3>4. P!Withdraw(user, k.source, tos, n, minimums)
      BY <1>2, <2>16, <3>1, <3>3 DEF P!Withdraw, P!Commit, P!adminVars, P!swapInfoVars, P!rampVars,
                                    P!transferVars, P!feeVars
    <3>5. k.source \in P!AccountsOf(user, PoolMint)
      BY <2>14 DEF P!AccountsOf
    <3>6. k.dest_a \in P!DestinationsOf(TokenA) /\ k.dest_b \in P!DestinationsOf(TokenB)
      BY <2>12, <2>13, DeployedAssumption DEF P!DestinationsOf
    <3>7. tos \in { [m \in P!Mints |-> IF m = TokenA THEN x ELSE y] :
                        x \in P!DestinationsOf(TokenA), y \in P!DestinationsOf(TokenB) }
      BY <3>6, SameNumbers
    <3>8. minimums = [m \in P!Mints |-> 0]
      BY SameNumbers
    <3> HIDE DEF tos, minimums
    <3> QED
      BY <3>4, <3>5, <3>7, <3>8 DEF P!UserInstruction, P!PairOf
  <2>17. l3 \in OpenLedgers /\ r = Outcome(Ok, swap_data, l3)
    BY <2>8, <2>14 DEF CallsLeft
  <2> QED
    BY <2>15, <2>16, <2>17 DEF UserStep
<1> QED
  BY <1>1, <1>2

---------------------------------------------------------------------------
(* WithdrawOne *)

LEMMA WithdrawOneAccounts ==
    ASSUME Wired(info), NEW k, k.swap = SwapKey,
           NEW base, base = IF k.base = info.token_a.reserves THEN info.token_a ELSE info.token_b,
           NEW quote, quote = IF k.base = info.token_a.reserves THEN info.token_b ELSE info.token_a,
           FirstError(WithdrawOneChecks(k, info, base, quote)) = Ok
    PROVE  /\ ~info.is_paused /\ k.swap_authority = Authority /\ k.pool_mint = PoolMint
           /\ \/ /\ k.base = resA /\ k.quote = resB
                 /\ k.admin_destination = info.token_a.admin_fees
              \/ /\ k.base = resB /\ k.quote = resA
                 /\ k.admin_destination = info.token_b.admin_fees
<1> DEFINE c1 == NotPaused(info)
           c2 == check_swap_authority(info, k)
           c3 == check_reserves_match(base, k.base)
           c4 == check_reserves_match(quote, k.quote)
           c5 == Check(k.admin_destination = base.admin_fees, "InvalidAdmin")
           c6 == Check(k.pool_mint = info.pool_mint, "IncorrectMint")
           c7 == unpack_mint(k.pool_mint)
           c8 == unpack_token_account(k.base)
           c9 == unpack_token_account(k.quote)
<1>1. WithdrawOneChecks(k, info, base, quote) = <<c1, c2, c3, c4, c5, c6, c7, c8, c9>>
  BY Zenon DEF WithdrawOneChecks
<1>2. c1 = Ok /\ c2 = Ok /\ c3 = Ok /\ c4 = Ok /\ c5 = Ok /\ c6 = Ok
  <2> HIDE DEF c1, c2, c3, c4, c5, c6, c7, c8, c9
  <2> QED
    BY <1>1, List9, NoErrorPasses
<1>3. k.swap_authority = Authority
  BY <1>2, AuthorityOfPool
<1> QED
  BY <1>2, <1>3, TwoReserves DEF NotPaused, check_reserves_match, Check, Ok, Wired

LEMMA OneRateAmounts ==
    ASSUME NEW f, NEW result, NEW rate, rate = withdraw_one_rate(f, result)
    PROVE  /\ rate.ok = result.ok
           /\ rate.amount \in Nat \cup {None} /\ rate.admin_fee \in Nat \cup {None}
<1> DEFINE fee == withdraw_fee(f, result.dy)
           payout == CheckedSub(result.dy, fee)
           x == admin_trade_fee(f, result.fee)
           y == admin_withdraw_fee(f, fee)
           adm == Add64(x, y)
<1>1. rate = [ok |-> result.ok, amount |-> payout, admin_fee |-> adm]
  BY Zenon DEF withdraw_one_rate
<1>2. payout \in Option /\ x \in Option /\ y \in Option
  BY CheckedSubBounds, MulDivBounds DEF admin_withdraw_fee, admin_trade_fee
<1>3. adm \in Option
  <2> HIDE DEF x, y
  <2> QED
    BY <1>2, CheckedAddBounds DEF Add64, Option
<1> HIDE DEF payout, adm
<1> QED
  BY <1>1, <1>2, <1>3 DEF Option

\* Pool computes the same payout.
LEMMA SameOneRate ==
    ASSUME info.is_initialized, NEW result, NEW rate, rate = withdraw_one_rate(info.fees, result),
           NEW p, p = P!WithdrawOneRate(result)
    PROVE  /\ p.amount = rate.amount /\ p.admin_fee = rate.admin_fee
           /\ p.ok = (rate.ok /\ rate.amount # None /\ rate.admin_fee # None)
<1> DEFINE fee == withdraw_fee(info.fees, result.dy)
           payout == CheckedSub(result.dy, fee)
           adm == Add64(admin_trade_fee(info.fees, result.fee), admin_withdraw_fee(info.fees, fee))
           pfee == P!withdraw_fee(info.fees, result.dy)
           ppayout == P!CheckedSub(result.dy, pfee)
           padm == P!Add64(P!admin_trade_fee(info.fees, result.fee),
                           P!admin_withdraw_fee(info.fees, pfee))
           fine == result.ok /\ ppayout # P!None /\ padm # P!None
<1>1. rate = [ok |-> result.ok, amount |-> payout, admin_fee |-> adm]
  BY Zenon DEF withdraw_one_rate
<1>2. p = [amount |-> ppayout, fee |-> pfee, admin_fee |-> padm, ok |-> fine]
  BY DEF P!WithdrawOneRate
<1>3. pfee = fee /\ ppayout = payout /\ padm = adm
  BY SameChecked, SameWide, SameFees
<1>4. rate.ok = result.ok /\ rate.amount = payout /\ rate.admin_fee = adm
  <2> HIDE DEF payout, adm
  <2> QED
    BY <1>1
<1>5. p.amount = ppayout /\ p.admin_fee = padm /\ p.ok = fine
  <2> HIDE DEF ppayout, padm, pfee, fine
  <2> QED
    BY <1>2
<1> HIDE DEF payout, adm, ppayout, padm, pfee
<1> QED
  BY <1>3, <1>4, <1>5, SameNumbers

LEMMA WithdrawOneRefines ==
    ASSUME DeployedInv, NEW infos, GivenAccounts(infos), NEW ix,
           ix.pool_token_amount \in U64 \cap SentAmounts,
           NEW r, r = process_withdraw_one(infos, ix), r.err = Ok
    PROVE  UserStep(r)
<1>1. CASE ix.pool_token_amount = 0
  BY <1>1 DEF process_withdraw_one, UserStep
<1>2. CASE ix.pool_token_amount # 0
  <2> DEFINE names == UserLeads \o << "pool_mint", "source", "base", "quote", "destination",
                            "admin_destination", "token_program" >>
             loaded == Loaded(infos, names, {"base", "quote"})
             k == loaded.k
             n == ix.pool_token_amount
             of_a == k.base = info.token_a.reserves
             bt == IF of_a THEN info.token_a ELSE info.token_b
             qt == IF of_a THEN info.token_b ELSE info.token_a
             checks == WithdrawOneChecks(k, info, bt, qt)
             result == compute_withdraw_one(current_amp(info), n, supply_of(k.pool_mint),
                           amount_of(k.base), amount_of(k.quote), info.fees)
             rate == withdraw_one_rate(info.fees, result)
             asUser == AsUser(infos, k)
             asSwap == AsSwap(infos, k, info.nonce)
             r1 == handle_token_withdraw(NothingToDo, asSwap, rate, k.base, k.destination,
                                         k.admin_destination)
             r2 == spl_burn(r1, asUser, k.source, k.pool_mint, n)
  <2>1. r = WithdrawOneLoaded(infos, ix, loaded)
    BY <1>2, Zenon DEF process_withdraw_one
  <2> HIDE DEF loaded
  <2>2. DeployedTypeOK
    BY DEF DeployedInv
  <2>3. loaded.err = Ok
    <3> DEFINE t == loaded.unpacked.info
               a == k.base = t.token_a.reserves
               error == FirstError(WithdrawOneChecks(k, t, IF a THEN t.token_a ELSE t.token_b,
                                                     IF a THEN t.token_b ELSE t.token_a))
               outcome == WithdrawOneCalls(infos, ix, k, t.nonce,
                   withdraw_one_rate(t.fees,
                       compute_withdraw_one(current_amp(t), n, supply_of(k.pool_mint),
                           amount_of(k.base), amount_of(k.quote), t.fees)))
    <3>1. r = Unless(Then(loaded.err, error), outcome)
      BY <2>1, Zenon DEF WithdrawOneLoaded
    <3> HIDE DEF error, outcome
    <3> QED
      BY <3>1, Refusal DEF Then
  <2>4. info.is_initialized /\ loaded.unpacked.info = info /\ k.swap = SwapKey
    BY <2>2, <2>3, LoadedOk DEF loaded
  <2>5. r = Unless(Then(loaded.err, FirstError(checks)),
                   WithdrawOneCalls(infos, ix, k, info.nonce, rate))
    BY <2>1, <2>4 DEF WithdrawOneLoaded
  <2> HIDE DEF k, checks, result, rate
  <2>6. FirstError(checks) = Ok /\ r = WithdrawOneCalls(infos, ix, k, info.nonce, rate)
    BY <2>3, <2>5, Refusal DEF Then
  <2>7. /\ ~info.is_paused /\ k.swap_authority = Authority /\ k.pool_mint = PoolMint
        /\ \/ /\ k.base = resA /\ k.quote = resB
              /\ k.admin_destination = info.token_a.admin_fees
           \/ /\ k.base = resB /\ k.quote = resA
              /\ k.admin_destination = info.token_b.admin_fees
    <3> HIDE DEF bt, qt
    <3>1. FirstError(WithdrawOneChecks(k, info, bt, qt)) = Ok
      BY <2>6 DEF checks
    <3>2. Wired(info)
      BY <2>4, PoolState
    <3>3. /\ bt = IF k.base = info.token_a.reserves THEN info.token_a ELSE info.token_b
          /\ qt = IF k.base = info.token_a.reserves THEN info.token_b ELSE info.token_a
      BY DEF bt, qt
    <3> QED
      BY <2>4, <3>1, <3>2, <3>3, WithdrawOneAccounts
  <2>8. rate.ok /\ rate.amount # None /\ rate.admin_fee # None /\ r = r2
    <3> DEFINE h == rate.ok /\ rate.amount # None
               c1 == Check(h, "CalculationFailure")
               c2 == Check(rate.amount >= ix.minimum_token_amount, "ExceededSlippage")
               c3 == Check(rate.admin_fee # None, "CalculationFailure")
    <3>1. r = Unless(FirstError(<<c1, c2, c3>>), r2)
      BY <2>6, Zenon DEF WithdrawOneCalls
    <3>2. c1 = Ok /\ c3 = Ok /\ r = r2
      <4> HIDE DEF c1, c2, c3, r2
      <4> QED
        BY <3>1, List3, NoErrorPasses, Refusal
    <3>3. h
      <4> HIDE DEF h
      <4> QED
        BY <3>2 DEF Check, Ok
    <3> QED
      BY <3>2, <3>3 DEF Check, Ok
  <2>9. n \in Nat /\ rate.amount \in Nat /\ rate.admin_fee \in Nat
    <3>1. rate.amount \in Nat \cup {None} /\ rate.admin_fee \in Nat \cup {None}
      BY OneRateAmounts DEF rate
    <3> QED
      BY <2>8, <3>1, WidthAssumption DEF U64
  <2> HIDE DEF asUser, asSwap, r1, r2
  <2>10. r2.err = Ok /\ r1.err = Ok
    BY <2>8, EarlierCalls DEF r2
  <2> DEFINE user == asUser.authority
  <2>11. asSwap.authority = Authority
    BY <2>7, SwapAuthority DEF asSwap
  <2>12. PICK base \in {TokenA, TokenB} :
            \/ /\ base = TokenA /\ k.base = resA /\ k.quote = resB
               /\ k.admin_destination = info.token_a.admin_fees
            \/ /\ base = TokenB /\ k.base = resB /\ k.quote = resA
               /\ k.admin_destination = info.token_b.admin_fees
    BY <2>7
  <2> DEFINE l1 == P!handle_token_withdraw(ledger, base, rate, k.destination)
             l2 == burn(l1, user, k.source, n)
  <2> HIDE DEF l1, l2
  <2>13. CallsLeft(r1, l1) /\ k.destination \in TokenAccounts /\ mint[k.destination] = base
    <3>1. r1 = handle_token_withdraw(NothingToDo, asSwap, rate, k.base, k.destination,
                                     k.admin_destination)
      BY DEF r1
    <3>2. l1 = P!handle_token_withdraw(ledger, base, rate, k.destination)
      BY DEF l1
    <3>3. CallsLeft(NothingToDo, ledger) /\ PoolAccounts(base, k.base, k.admin_destination)
      BY <2>2, <2>12, NothingLeft DEF PoolAccounts
    <3>4. /\ CallsLeft(r1, l1) /\ k.destination \in TokenAccounts
          /\ mint[k.destination] = mint[k.base]
      BY <2>4, <2>9, <2>10, <2>11, <3>1, <3>2, <3>3, PayoutAccepted
    <3> QED
      BY <2>12, <3>4, DeployedAssumption
  <2>14. /\ CallsLeft(r2, l2) /\ asUser.signed
         /\ k.source \in TokenAccounts /\ mint[k.source] = PoolMint /\ owner[k.source] = user
    BY <2>7, <2>9, <2>10, <2>13, BurnAccepted DEF r2, l2
  <2>15. user \in SigningKeys
    BY <2>14, UserSigns DEF asUser
  <2> HIDE DEF user
  <2>16. ASSUME ledger' = l2, now' = now, info' = info
         PROVE  P!UserInstruction(user)
    <3>1. l2.ok
      BY <2>14 DEF CallsLeft, OpenLedgers
    <3> DEFINE presult == P!compute_withdraw_one(P!amp_factor, n, ledger.supply, P!Reserve(base),
                                                 P!Reserve(P!Other(base)), info.fees)
               prate == P!WithdrawOneRate(presult)
    <3>2. presult = result
      BY <2>4, <2>7, <2>12, PoolState, SameWithdrawOne, TwoReserves DEF result
    <3> HIDE DEF presult
    <3>3. prate.amount = rate.amount /\ prate.admin_fee = rate.admin_fee /\ prate.ok
      BY <2>4, <2>8, <3>2, SameOneRate DEF rate
    <3>4. P!process_withdraw_one(user, base, k.source, k.destination, n, 0) = l2
      <4> DEFINE p1 == P!handle_token_withdraw(ledger, base, prate, k.destination)
                 p2 == P!burn(p1, user, k.source, n)
      <4>1. P!process_withdraw_one(user, base, k.source, k.destination, n, 0) =
              IF ~P!Tradable \/ ~prate.ok \/ prate.amount < 0 THEN P!Failed(ledger) ELSE p2
        BY <2>4 DEF P!process_withdraw_one, presult
      <4> HIDE DEF prate
      <4>2. p1 = l1
        BY <3>3 DEF P!handle_token_withdraw, l1
      <4>3. p2 = l2
        BY <4>2, SameCalls DEF l2
      <4>4. P!Tradable
        BY <2>4, <2>7 DEF P!Tradable
      <4> HIDE DEF p1, p2
      <4> QED
        BY <2>9, <3>3, <4>1, <4>3, <4>4
    <3>5. P!WithdrawOne(user, base, k.source, k.destination, n, 0)
      BY <1>2, <2>16, <3>1, <3>4 DEF P!WithdrawOne, P!Commit, P!adminVars, P!swapInfoVars,
                                    P!rampVars, P!transferVars, P!feeVars
    <3>6. k.source \in P!AccountsOf(user, PoolMint) /\ k.destination \in P!DestinationsOf(base)
      BY <2>13, <2>14 DEF P!AccountsOf, P!DestinationsOf
    <3> QED
      BY <3>5, <3>6, SameNumbers DEF P!UserInstruction
  <2>17. l2 \in OpenLedgers /\ r = Outcome(Ok, swap_data, l2)
    BY <2>8, <2>14 DEF CallsLeft
  <2> QED
    BY <2>15, <2>16, <2>17 DEF UserStep
<1> QED
  BY <1>1, <1>2

---------------------------------------------------------------------------
(* Initialize *)

\* The one instruction whose accounts are not yet stored: what it stores is what
\* it was given, after its own checks.

LEMMA NamedAt ==
    ASSUME NEW infos, NEW names, NEW j \in DOMAIN names,
           \A i \in DOMAIN names : names[i] = names[j] => i = j
    PROVE  next_account_infos(infos, names)[names[j]] = infos[j].key
<1>1. names[j] \in ToSet(names)
  BY DEF ToSet
<1>2. (CHOOSE i \in DOMAIN names : names[i] = names[j]) = j
  OBVIOUS
<1> QED
  BY <1>1, <1>2 DEF next_account_infos

InitializeNames ==
    << "swap", "swap_authority", "admin", "admin_fee_a", "admin_fee_b",
                    "token_a_mint", "token_a", "token_b_mint", "token_b", "pool_mint",
                    "destination", "token_program" >>

LEMMA InitializeNamed ==
    ASSUME NEW infos, NEW k, k = next_account_infos(infos, InitializeNames)
    PROVE  /\ k.swap = infos[1].key /\ k.admin = infos[3].key
           /\ k.admin_fee_a = infos[4].key /\ k.admin_fee_b = infos[5].key
           /\ k.token_a_mint = infos[6].key /\ k.token_a = infos[7].key
           /\ k.token_b_mint = infos[8].key /\ k.token_b = infos[9].key
           /\ k.pool_mint = infos[10].key
<1>1. DOMAIN InitializeNames = 1 .. 12
  BY DEF InitializeNames
<1>2. ASSUME NEW i \in 1 .. 12, NEW j \in {1, 3, 4, 5, 6, 7, 8, 9, 10}
      PROVE  InitializeNames[i] = InitializeNames[j] => i = j
  <2>1. CASE i \in 1 .. 4
   BY <2>1 DEF InitializeNames
  <2>2. CASE i \in 5 .. 8
   BY <2>2 DEF InitializeNames
  <2>3. CASE i \in 9 .. 12
   BY <2>3 DEF InitializeNames
  <2> QED BY <2>1, <2>2, <2>3
<1>3. \A j \in {1, 3, 4, 5, 6, 7, 8, 9, 10} : k[InitializeNames[j]] = infos[j].key
  BY <1>1, <1>2, NamedAt
<1> QED
  BY <1>3 DEF InitializeNames

\* What the checks of the reserves, in both lists, come down to.
LEMMA InitializeAuthority ==
    ASSUME NEW k, NEW nonce \in Byte, k.swap = SwapKey,
           k.swap_authority = authority_id(k.swap, nonce),
           k.token_a \in TokenAccounts, owner[k.token_a] = k.swap_authority
    PROVE  nonce = PoolNonce /\ k.swap_authority = Authority
BY DeployedAssumption DEF authority_id

LEMMA InitializeAccounts ==
    ASSUME DeployedTypeOK, NEW k, NEW nonce \in Byte, k.swap = SwapKey,
           FirstError(InitializeChecks(k, nonce)) = Ok, FirstError(InitializeMintChecks(k)) = Ok,
           Fundable(k.token_a) => k.token_a = resA,
           Fundable(k.token_b) => k.token_b = resB
    PROVE  /\ nonce = PoolNonce /\ k.swap_authority = Authority /\ k.pool_mint = PoolMint
           /\ k.token_a = resA /\ owner[resA] = Authority /\ k.token_a_mint = TokenA
           /\ k.token_b = resB /\ owner[resB] = Authority /\ k.token_b_mint = TokenB
           /\ ledger.amount[resA] # 0 /\ ledger.amount[resB] # 0 /\ ledger.supply = 0
           /\ k.destination \in TokenAccounts /\ owner[k.destination] # Authority
           /\ k.admin_fee_a \in TokenAccounts /\ mint[k.admin_fee_a] = TokenA
           /\ k.admin_fee_b \in TokenAccounts /\ mint[k.admin_fee_b] = TokenB
<1> DEFINE h9 == amount_of(k.token_b) # 0 /\ amount_of(k.token_a) # 0
           h10 == {k.token_a, k.token_b} \cap Delegated = {}
           h13 == {k.token_a, k.token_b} \cap WithCloseAuthority = {}
           c1 == Check(k.swap_authority = authority_id(k.swap, nonce), "InvalidProgramAddress")
           c2 == unpack_token_account(k.destination)
           c3 == unpack_token_account(k.token_a)
           c4 == unpack_token_account(k.token_b)
           c5 == Check(owner_of(k.token_a) = k.swap_authority, "InvalidOwner")
           c6 == Check(owner_of(k.token_b) = k.swap_authority, "InvalidOwner")
           c7 == Check(owner_of(k.destination) # k.swap_authority, "InvalidOutputOwner")
           c8 == Check(mint_of(k.token_a) # mint_of(k.token_b), "RepeatedMint")
           c9 == Check(h9, "EmptySupply")
           c10 == Check(h10, "InvalidDelegate")
           c11 == Check(mint_of(k.token_a) = k.token_a_mint, "IncorrectMint")
           c12 == Check(mint_of(k.token_b) = k.token_b_mint, "IncorrectMint")
           c13 == Check(h13, "InvalidCloseAuthority")
           c14 == unpack_mint(k.pool_mint)
           d1 == Check(mint_authority[k.pool_mint] = k.swap_authority, "InvalidOwner")
           d2 == Check(k.pool_mint \notin Freezable, "InvalidFreezeAuthority")
           d3 == Check(supply_of(k.pool_mint) = 0, "InvalidSupply")
           d4 == Check(decimals[k.token_a_mint] = decimals[k.token_b_mint], "MismatchedDecimals")
           d5 == Check(decimals[k.pool_mint] = decimals[k.token_a_mint], "MismatchedDecimals")
           d6 == unpack_token_account(k.admin_fee_a)
           d7 == unpack_token_account(k.admin_fee_b)
           d8 == Check(mint_of(k.token_a) = mint_of(k.admin_fee_a), "InvalidAdmin")
           d9 == Check(mint_of(k.token_b) = mint_of(k.admin_fee_b), "InvalidAdmin")
<1>1. InitializeChecks(k, nonce)
        = << c1, c2, c3, c4, c5, c6, c7, c8, c9, c10, c11, c12, c13, c14 >>
  BY Zenon DEF InitializeChecks
<1>2. InitializeMintChecks(k) = << d1, d2, d3, d4, d5, d6, d7, d8, d9 >>
  BY Zenon DEF InitializeMintChecks
<1>3. /\ c1 = Ok /\ c2 = Ok /\ c3 = Ok /\ c4 = Ok /\ c5 = Ok /\ c6 = Ok /\ c7 = Ok
      /\ c9 = Ok /\ c10 = Ok /\ c11 = Ok /\ c12 = Ok /\ c13 = Ok /\ c14 = Ok
  <2> HIDE DEF c1, c2, c3, c4, c5, c6, c7, c8, c9, c10, c11, c12, c13, c14
  <2> QED
    BY <1>1, List14, NoErrorPasses
<1>4. d1 = Ok /\ d2 = Ok /\ d3 = Ok /\ d6 = Ok /\ d7 = Ok /\ d8 = Ok /\ d9 = Ok
  <2> HIDE DEF d1, d2, d3, d4, d5, d6, d7, d8, d9
  <2> QED
    BY <1>2, List9, NoErrorPasses
<1>5. /\ k.swap_authority = authority_id(k.swap, nonce)
      /\ k.destination \in ledger.open /\ k.token_a \in ledger.open /\ k.token_b \in ledger.open
      /\ owner_of(k.token_a) = k.swap_authority /\ owner_of(k.token_b) = k.swap_authority
      /\ owner_of(k.destination) # k.swap_authority
      /\ k.pool_mint \in MintAccounts
  BY <1>3 DEF Check, Ok, unpack_token_account, unpack_mint
<1>6. /\ amount_of(k.token_b) # 0 /\ amount_of(k.token_a) # 0
      /\ {k.token_a, k.token_b} \cap Delegated = {}
      /\ mint_of(k.token_a) = k.token_a_mint /\ mint_of(k.token_b) = k.token_b_mint
      /\ {k.token_a, k.token_b} \cap WithCloseAuthority = {}
  <2>1. h9 /\ h10 /\ h13
    <3> HIDE DEF h9, h10, h13
    <3> QED
      BY <1>3 DEF Check, Ok
  <2> QED
    BY <1>3, <2>1 DEF Check, Ok
<1>7. /\ mint_authority[k.pool_mint] = k.swap_authority /\ k.pool_mint \notin Freezable
      /\ supply_of(k.pool_mint) = 0
      /\ k.admin_fee_a \in ledger.open /\ k.admin_fee_b \in ledger.open
      /\ mint_of(k.token_a) = mint_of(k.admin_fee_a)
      /\ mint_of(k.token_b) = mint_of(k.admin_fee_b)
  BY <1>4 DEF Check, Ok, unpack_token_account
<1> HIDE DEF c1, c2, c3, c4, c5, c6, c7, c8, c9, c10, c11, c12, c13, c14,
             d1, d2, d3, d4, d5, d6, d7, d8, d9
<1>8. ledger.open = TokenAccounts
  BY DEF DeployedTypeOK, OpenLedgers
<1>9. nonce = PoolNonce /\ k.swap_authority = Authority
  BY <1>5, <1>8, InitializeAuthority DEF owner_of
<1>10. k.token_a = resA /\ k.token_b = resB
  BY <1>5, <1>6, <1>8, <1>9 DEF Fundable, owner_of
<1>11. k.pool_mint = PoolMint
  BY <1>5, <1>7, <1>9, DeployedAssumption
<1> QED
  BY <1>5, <1>6, <1>7, <1>8, <1>9, <1>10, <1>11, DeployedAssumption
     DEF owner_of, mint_of, amount_of, balance_in, supply_of

LEMMA ZeroFits == 0 \in U64 /\ 0 \in I64 /\ 0 \in Byte
<1> DEFINE h == U64_MAX \div 2
<1>1. U64_MAX \in Nat /\ h \in Nat /\ h * 2 <= U64_MAX
  BY WidthAssumption, NatQuotient
<1>2. I64 = -(U64_MAX - h) .. h
  BY DEF I64
<1> HIDE DEF h
<1> QED
  BY <1>1, <1>2, EncodingAssumption DEF U64, Byte

LEMMA InitialInfo ==
    ASSUME NEW infos, GivenAccounts(infos), Len(infos) >= 12,
           NEW k, k = next_account_infos(infos, InitializeNames),
           NEW ix, ix.nonce \in Byte, ix.amp_factor \in MIN_AMP..MAX_AMP, ix.fees \in Fees,
           k.token_a = resA, k.token_a_mint = TokenA, k.token_b = resB, k.token_b_mint = TokenB,
           k.pool_mint = PoolMint, ix.nonce = PoolNonce,
           k.admin_fee_a \in TokenAccounts, mint[k.admin_fee_a] = TokenA,
           k.admin_fee_b \in TokenAccounts, mint[k.admin_fee_b] = TokenB,
           NEW new, new = InitialSwapInfo(k, ix)
    PROVE  /\ new \in SwapInfos(NamedKeys) /\ Wired(new) /\ new.is_initialized
           /\ ~new.is_paused /\ new.initial_amp_factor = ix.amp_factor
           /\ new.target_amp_factor = ix.amp_factor /\ new.start_ramp_ts = ZERO_TS
           /\ new.stop_ramp_ts = ZERO_TS /\ new.admin_key = k.admin
           /\ new.future_admin_key = DefaultKey /\ new.future_admin_deadline = ZERO_TS
           /\ new.fees = ix.fees
           /\ new.token_a.admin_fees = k.admin_fee_a /\ new.token_b.admin_fees = k.admin_fee_b
<1> DEFINE a == SwapTokenInfo(resA, TokenA, k.admin_fee_a, 0)
           b == SwapTokenInfo(resB, TokenB, k.admin_fee_b, 1)
<1>1. mint_of(k.token_a) = TokenA /\ mint_of(k.token_b) = TokenB
  BY DeployedAssumption DEF mint_of
<1>2. /\ resA \in NamedKeys /\ TokenA \in NamedKeys /\ k.admin_fee_a \in NamedKeys
      /\ resB \in NamedKeys /\ TokenB \in NamedKeys /\ k.admin_fee_b \in NamedKeys
      /\ k.admin \in NamedKeys /\ PoolMint \in NamedKeys /\ DefaultKey \in NamedKeys
  <2>1. \A i \in 3 .. 10 : infos[i].key \in NamedKeys
    BY DEF GivenAccounts
  <2>2. DefaultKey \in NamedKeys
    BY DEF NamedKeys
  <2> QED
    BY <2>1, <2>2, InitializeNamed
<1>3. a \in TokenInfos(NamedKeys, 0) /\ b \in TokenInfos(NamedKeys, 1)
  BY <1>2 DEF SwapTokenInfo, TokenInfos
<1>4. /\ a.reserves = resA /\ a.mint = TokenA /\ a.admin_fees = k.admin_fee_a
      /\ b.reserves = resB /\ b.mint = TokenB /\ b.admin_fees = k.admin_fee_b
  BY DEF SwapTokenInfo
<1>5. ix.amp_factor \in U64 /\ 0 \in I64
  BY ZeroFits, AmpAssumption, WidthAssumption DEF U64
<1>6. new = [ is_initialized        |-> TRUE,
              is_paused             |-> FALSE,
              nonce                 |-> ix.nonce,
              initial_amp_factor    |-> ix.amp_factor,
              target_amp_factor     |-> ix.amp_factor,
              start_ramp_ts         |-> ZERO_TS,
              stop_ramp_ts          |-> ZERO_TS,
              future_admin_deadline |-> ZERO_TS,
              future_admin_key      |-> DefaultKey,
              admin_key             |-> k.admin,
              token_a   |-> a,
              token_b   |-> b,
              pool_mint |-> PoolMint,
              fees      |-> ix.fees ]
  BY <1>1 DEF InitialSwapInfo
<1> HIDE DEF a, b
<1> QED
  BY <1>2, <1>3, <1>4, <1>5, <1>6 DEF SwapInfos, Wired, ZERO_TS

LEMMA FirstOfTwo ==
    ASSUME NEW a, NEW b, Then(a, b) = Ok
    PROVE  a = Ok /\ b = Ok
BY DEF Then

LEMMA InitializeStep ==
    ASSUME DeployedInv, NEW infos, GivenAccounts(infos),
           NEW ix, ix.nonce \in Byte, ix.amp_factor \in SentAmps,
           ix.fees \in Fees \cap SentFees,
           Len(infos) >= 12 =>
              /\ Fundable(infos[7].key) => infos[7].key = resA
              /\ Fundable(infos[9].key) => infos[9].key = resB,
           NEW r, r = process_initialize(infos, ix), r.err = Ok, Commits(r)
    PROVE  DeployedInv' /\ P!Next
<1> DEFINE k == next_account_infos(infos, InitializeNames)
           d == compute_d(ix.amp_factor, amount_of(k.token_a), amount_of(k.token_b))
           unpacked == SwapInfo_unpack_unchecked(data_of(k.swap))
           errors == InitializeErrors(k, ix, unpacked, d)
           r1 == spl_mint_to(NothingToDo, AsSwap(infos, k, ix.nonce), k.pool_mint,
                             k.destination, d)
           new == InitialSwapInfo(k, ix)
           l1 == mint_to(ledger, k.destination, d)
<1>1. Len(infos) >= 12 /\ ix.amp_factor \in MIN_AMP..MAX_AMP /\ r = InitializeWith(infos, ix, k)
  <2> DEFINE wrong == ix.amp_factor \notin MIN_AMP..MAX_AMP
  <2>1. r = IF Len(infos) < Len(InitializeNames) THEN Fails("NotEnoughAccountKeys")
            ELSE IF wrong THEN Fails("InvalidInput")
            ELSE InitializeWith(infos, ix, k)
    BY Zenon DEF process_initialize, InitializeNames
  <2>2. Len(InitializeNames) = 12
    BY DEF InitializeNames
  <2> HIDE DEF k, wrong
  <2>3. ~(Len(infos) < 12) /\ ~wrong /\ r = InitializeWith(infos, ix, k)
    BY <2>1, <2>2 DEF Fails, Outcome, Ok
  <2> QED
    BY <2>3 DEF wrong, GivenAccounts
<1> HIDE DEF k
<1>2. errors = Ok /\ r = InitializeStored(infos[1], r1, new)
  <2>1. r = Unless(errors, InitializeStored(infos[1], r1, new))
    BY <1>1, Zenon DEF InitializeWith
  <2> HIDE DEF errors, r1, new
  <2> QED
    BY <2>1, Refusal
<1> HIDE DEF d, unpacked
<1>3. /\ unpacked.err = Ok /\ ~unpacked.info.is_initialized
      /\ FirstError(InitializeChecks(k, ix.nonce)) = Ok
      /\ FirstError(InitializeMintChecks(k)) = Ok /\ d # None /\ d \in U64
  <2> DEFINE e1 == IF unpacked.info.is_initialized THEN "AlreadyInUse" ELSE Ok
             e2 == FirstError(InitializeChecks(k, ix.nonce))
             e3 == FirstError(InitializeMintChecks(k))
             a == Check(d # None, "CalculationFailure")
             b == Check(d \in U64, "ConversionFailure")
             e4 == FirstError(<<a, b>>)
  <2>1. Then(unpacked.err, Then(e1, Then(e2, Then(e3, e4)))) = Ok
    BY <1>2, Zenon DEF InitializeErrors
  <2>2. unpacked.err = Ok /\ e1 = Ok /\ e2 = Ok /\ e3 = Ok /\ e4 = Ok
    <3> HIDE DEF e1, e2, e3, e4
    <3> QED
      BY <2>1, FirstOfTwo
  <2>3. a = Ok /\ b = Ok
    <3> HIDE DEF a, b
    <3> QED
      BY <2>2, List2, NoErrorPasses
  <2> QED
    BY <2>2, <2>3 DEF Check, Ok
<1> HIDE DEF errors
<1>4. DeployedTypeOK
  BY DEF DeployedInv
<1>5. k.swap = SwapKey /\ unpacked = SwapInfo_unpack_unchecked(swap_data)
  BY <1>3, OtherAccounts DEF unpacked
<1>6. ~info.is_initialized
  BY <1>3, <1>4, <1>5, Reload
<1>7. k.admin = infos[3].key /\ k.token_a = infos[7].key /\ k.token_b = infos[9].key
  BY InitializeNamed DEF k
<1>8. /\ ix.nonce = PoolNonce /\ k.swap_authority = Authority /\ k.pool_mint = PoolMint
      /\ k.token_a = resA /\ owner[resA] = Authority /\ k.token_a_mint = TokenA
      /\ k.token_b = resB /\ owner[resB] = Authority /\ k.token_b_mint = TokenB
      /\ ledger.amount[resA] # 0 /\ ledger.amount[resB] # 0 /\ ledger.supply = 0
      /\ k.destination \in TokenAccounts /\ owner[k.destination] # Authority
      /\ k.admin_fee_a \in TokenAccounts /\ mint[k.admin_fee_a] = TokenA
      /\ k.admin_fee_b \in TokenAccounts /\ mint[k.admin_fee_b] = TokenB
  BY <1>1, <1>3, <1>4, <1>5, <1>7, InitializeAccounts
<1>9. /\ new \in SwapInfos(NamedKeys) /\ Wired(new) /\ new.is_initialized
      /\ ~new.is_paused /\ new.initial_amp_factor = ix.amp_factor
      /\ new.target_amp_factor = ix.amp_factor /\ new.start_ramp_ts = ZERO_TS
      /\ new.stop_ramp_ts = ZERO_TS /\ new.admin_key = k.admin
      /\ new.future_admin_key = DefaultKey /\ new.future_admin_deadline = ZERO_TS
      /\ new.fees = ix.fees
      /\ new.token_a.admin_fees = k.admin_fee_a /\ new.token_b.admin_fees = k.admin_fee_b
  <2> HIDE DEF new
  <2>1. k = next_account_infos(infos, InitializeNames) /\ new = InitialSwapInfo(k, ix)
    BY DEF k, new
  <2> QED
    BY <1>1, <1>8, <2>1, InitialInfo
<1> HIDE DEF new, r1, l1
<1>10. r1.err = Ok /\ r = [r1 EXCEPT !.data = SwapInfo_pack(new)]
  <2> DEFINE e == IF infos[1].is_writable THEN Ok ELSE "ReadonlyDataModified"
  <2>1. r = Unless(Then(r1.err, e), [r1 EXCEPT !.data = SwapInfo_pack(new)])
    BY <1>2 DEF InitializeStored
  <2> HIDE DEF e
  <2>2. Then(r1.err, e) = Ok /\ r = [r1 EXCEPT !.data = SwapInfo_pack(new)]
    BY <2>1, Refusal
  <2> QED
    BY <2>2, FirstOfTwo
<1>11. d \in Nat
  BY <1>3, WidthAssumption DEF U64
<1>12. CallsLeft(r1, l1) /\ mint[k.destination] = PoolMint
  <2>1. r1 = spl_mint_to(NothingToDo, AsSwap(infos, k, ix.nonce), PoolMint, k.destination, d)
    BY <1>8 DEF r1
  <2> QED
    BY <1>4, <1>10, <1>11, <2>1, NothingLeft, MintAccepted DEF l1
<1>13. swap_data' = SwapInfo_pack(new) /\ ledger' = l1 /\ now' = now
  BY <1>10, <1>12 DEF Commits, CallsLeft, Outcome
<1>14. info' = new
  BY <1>4, <1>9, <1>13, InfoAfter DEF Commits
<1>15. DeployedInv'
  <2>1. DeployedTypeOK'
    BY <1>4, <1>9, <1>12, <1>13, <1>14 DEF DeployedTypeOK, CallsLeft
  <2>2. StaysWired'
    BY <1>8, <1>9, <1>14 DEF StaysWired, Wired
  <2> QED
    BY <2>1, <2>2 DEF DeployedInv
<1> DEFINE accounts == [m \in {TokenA, TokenB} |->
                            IF m = TokenA THEN k.admin_fee_a ELSE k.admin_fee_b]
<1>16. accounts[TokenA] = k.admin_fee_a /\ accounts[TokenB] = k.admin_fee_b
  BY TwoReserves
<1>17. P!InitializeSwapInfo(ix.amp_factor, k.admin, ix.fees, accounts)
  <2>1. \A m \in {TokenA, TokenB} : mint[accounts[m]] = m
    BY <1>8, <1>16
  <2>2. accounts = [ m \in {TokenA, TokenB} |->
                IF ~info'.is_initialized THEN (IF m = TokenA THEN resA ELSE resB)
                ELSE IF m = TokenA THEN info'.token_a.admin_fees ELSE info'.token_b.admin_fees ]
    BY <1>9, <1>14
  <2> HIDE DEF accounts
  <2> QED
    BY <1>1, <1>6, <1>9, <1>13, <1>14, <2>1, <2>2, SameNumbers
       DEF P!InitializeSwapInfo, P!ValidAmp
<1>18. P!process_initialize(ix.amp_factor, k.destination) = l1
  <2> DEFINE resOf == [m \in {TokenA, TokenB} |-> IF m = TokenA THEN resA ELSE resB]
             minted == P!ToU64(P!compute_d(ix.amp_factor, P!Reserve(TokenA), P!Reserve(TokenB)))
  <2>1. P!process_initialize(ix.amp_factor, k.destination) =
            IF \/ \E m \in P!Mints : \/ owner[resOf[m]] # Authority
                                     \/ mint[resOf[m]] # m
                                     \/ P!Reserve(m) = 0
               \/ owner[k.destination] = Authority
               \/ ledger.supply # 0
               \/ minted = P!None
            THEN P!Failed(ledger)
            ELSE P!mint_to(ledger, k.destination, minted)
    BY DEF P!process_initialize
  <2>2. /\ P!Reserve(TokenA) = ledger.amount[resA] /\ P!Reserve(TokenB) = ledger.amount[resB]
        /\ resOf[TokenA] = resA /\ resOf[TokenB] = resB
    BY TwoReserves DEF P!Reserve
  <2>3. minted = d
    <3>1. d = compute_d(ix.amp_factor, ledger.amount[resA], ledger.amount[resB])
      BY <1>8, DeployedAssumption DEF d, amount_of, balance_in
    <3>2. ToU64(d) = d
      BY <1>3, WidthAssumption DEF ToU64, U64
    <3> QED
      BY <2>2, <3>1, <3>2, SameD, SameChecked
  <2> HIDE DEF resOf, minted
  <2>4. ASSUME NEW m \in P!Mints
        PROVE  owner[resOf[m]] = Authority /\ mint[resOf[m]] = m /\ P!Reserve(m) # 0
    <3>1. m = TokenA \/ m = TokenB
      BY SameNumbers
    <3> QED
      BY <1>8, <2>2, <3>1, DeployedAssumption
  <2>5. P!mint_to(ledger, k.destination, minted) = l1 /\ minted # P!None
    BY <1>3, <2>3, SameCalls, SameNumbers DEF l1
  <2> QED
    BY <1>8, <2>1, <2>4, <2>5
<1>19. P!Initialize(ix.amp_factor, k.admin, ix.fees, accounts, k.destination)
  <2>1. l1.ok
    BY <1>12 DEF CallsLeft, OpenLedgers
  <2> HIDE DEF accounts
  <2> QED
    BY <1>13, <1>17, <1>18, <2>1 DEF P!Initialize, P!Commit
<1>20. k.admin \in NamedKeys
  BY <1>1, <1>7 DEF GivenAccounts
<1>21. k.admin_fee_a \in P!FeeAccountsOf(TokenA) /\ k.admin_fee_b \in P!FeeAccountsOf(TokenB)
       /\ k.destination \in P!DestinationsOf(PoolMint)
  BY <1>8, <1>12 DEF P!FeeAccountsOf, P!DestinationsOf
<1>22. accounts \in { [m \in P!Mints |-> IF m = TokenA THEN x ELSE y] :
                        x \in P!FeeAccountsOf(TokenA), y \in P!FeeAccountsOf(TokenB) }
  BY <1>21, SameNumbers
<1> HIDE DEF accounts
<1> QED
  BY <1>15, <1>19, <1>20, <1>21, <1>22 DEF P!Next, P!PairOf

---------------------------------------------------------------------------
(* Every step of the program *)

LEMMA UserResult ==
    ASSUME DeployedInv, NEW r, UserStep(r), Commits(r)
    PROVE  DeployedInv' /\ (P!Next \/ UNCHANGED P!poolVars)
<1>1. CASE r = NothingToDo
  <2>1. ledger' = ledger /\ now' = now /\ info' = info /\ swap_data' = swap_data
    BY <1>1 DEF Commits, NothingToDo, Outcome
  <2>2. DeployedInv'
    BY <2>1 DEF DeployedInv, DeployedTypeOK, StaysWired, Wired
  <2>3. UNCHANGED P!poolVars
    BY <2>1 DEF P!poolVars, P!adminVars, P!swapInfoVars, P!rampVars, P!transferVars, P!feeVars
  <2> QED
    BY <2>2, <2>3
<1>2. ASSUME NEW l \in OpenLedgers, r = Outcome(Ok, swap_data, l),
             ledger' = l /\ now' = now /\ info' = info =>
                \E user \in SigningKeys : P!UserInstruction(user)
      PROVE  DeployedInv' /\ (P!Next \/ UNCHANGED P!poolVars)
  <2>1. ledger' = l /\ now' = now /\ info' = info /\ swap_data' = swap_data
    BY <1>2 DEF Commits, Outcome
  <2>2. DeployedInv'
    BY <2>1 DEF DeployedInv, DeployedTypeOK, StaysWired, Wired
  <2>3. PICK user \in SigningKeys : P!UserInstruction(user)
    BY <1>2, <2>1
  <2>4. P!Next
    BY <2>3, Zenon DEF P!Next
  <2> QED
    BY <2>2, <2>4
<1> QED
  BY <1>1, <1>2 DEF UserStep

LEMMA UserAmounts ==
    ASSUME NEW request \in Understandable,
           NEW ix, ix = Unpack(request.data).instruction, ix \in SwapInstructions
    PROVE  /\ ix.op = "Initialize" => /\ ix.nonce \in Byte /\ ix.amp_factor \in SentAmps
                                      /\ ix.fees \in Fees \cap SentFees
           /\ ix.op = "Swap" => /\ ix.amount_in \in U64 \cap SentAmounts
                                /\ ix.minimum_amount_out \in U64
           /\ ix.op = "Deposit" => /\ ix.token_a_amount \in U64 \cap SentAmounts
                                   /\ ix.token_b_amount \in U64 \cap SentAmounts
           /\ ix.op \in {"Withdraw", "WithdrawOne"} => ix.pool_token_amount \in U64 \cap SentAmounts
           /\ ix.op \in SwapOps
<1>1. ix \in Sent(ix.op)
  BY DEF Sent
<1>2. CASE ix.op = "Initialize"
  BY <1>1, <1>2 DEF SwapInstructions, SentAmps, SentFees, SwapOps
<1>3. CASE ix.op = "Swap"
  BY <1>1, <1>3 DEF SwapInstructions, SentAmounts, SwapOps
<1>4. CASE ix.op = "Deposit"
  BY <1>1, <1>4 DEF SwapInstructions, SentAmounts, SwapOps
<1>5. CASE ix.op = "Withdraw"
  BY <1>1, <1>5 DEF SwapInstructions, SentAmounts, SwapOps
<1>6. CASE ix.op = "WithdrawOne"
  BY <1>1, <1>6 DEF SwapInstructions, SentAmounts, SwapOps
<1> QED
  BY <1>2, <1>3, <1>4, <1>5, <1>6, OpsOf DEF SwapOps

LEMMA InstructionStep ==
    ASSUME DeployedInv, NEW request \in Requests,
           NEW r, r = process_instruction(request), r.err = Ok, Commits(r)
    PROVE  DeployedInv' /\ (P!Next \/ UNCHANGED P!poolVars)
<1> DEFINE ix == Unpack(request.data).instruction
           infos == account_infos(request.accounts)
<1>1. /\ request \in Understandable
      /\ \/ ix \in AdminInstructions /\ r = process_admin_instruction(ix, infos)
         \/ ix \in SwapInstructions /\ r = HandleSwapInstruction(infos, ix)
  BY Dispatch
<1>2. /\ GivenAccounts(infos) /\ Len(infos) = Len(request.accounts)
      /\ \A i \in 1 .. Len(request.accounts) : infos[i].key = request.accounts[i].key
  BY AccountsGiven
<1>3. /\ Len(request.accounts) \in Nat
      /\ ix.op = "Initialize" /\ Len(request.accounts) >= 12 =>
            /\ Fundable(request.accounts[7].key) => request.accounts[7].key = resA
            /\ Fundable(request.accounts[9].key) => request.accounts[9].key = resB
  <2>1. request.accounts \in Seq(AccountMetas)
    BY DeployedAssumption
  <2> QED
    BY <1>1, <2>1, LenProperties, DeployedAssumption
<1> HIDE DEF infos
<1>4. CASE ix \in AdminInstructions /\ r = process_admin_instruction(ix, infos)
  BY <1>1, <1>2, <1>4, AdminStep
<1>5. CASE ix \in SwapInstructions /\ r = HandleSwapInstruction(infos, ix)
  <2> HIDE DEF ix
  <2>1. ix = Unpack(request.data).instruction
    BY DEF ix
  <2>2. /\ ix.op = "Initialize" => /\ ix.nonce \in Byte /\ ix.amp_factor \in SentAmps
                                   /\ ix.fees \in Fees \cap SentFees
        /\ ix.op = "Swap" => /\ ix.amount_in \in U64 \cap SentAmounts
                             /\ ix.minimum_amount_out \in U64
        /\ ix.op = "Deposit" => /\ ix.token_a_amount \in U64 \cap SentAmounts
                                /\ ix.token_b_amount \in U64 \cap SentAmounts
        /\ ix.op \in {"Withdraw", "WithdrawOne"} => ix.pool_token_amount \in U64 \cap SentAmounts
        /\ ix.op \in SwapOps
    BY <1>1, <1>5, <2>1, UserAmounts
  <2>3. CASE ix.op = "Initialize"
    <3>1. Len(infos) >= 12 =>
              /\ Fundable(infos[7].key) => infos[7].key = resA
              /\ Fundable(infos[9].key) => infos[9].key = resB
      BY <1>2, <1>3, <2>3
    <3>2. r = process_initialize(infos, ix)
      BY <1>5, <2>3 DEF HandleSwapInstruction
    <3> QED
      BY <1>2, <2>2, <2>3, <3>1, <3>2, InitializeStep
  <2>4. CASE ix.op = "Swap"
    <3>1. r = process_swap(infos, ix)
      BY <1>5, <2>4 DEF HandleSwapInstruction
    <3>2. UserStep(r)
      BY <1>2, <2>2, <2>4, <3>1, SwapRefines
    <3> QED
      BY <3>2, UserResult
  <2>5. CASE ix.op = "Deposit"
    <3>1. r = process_deposit(infos, ix)
      BY <1>5, <2>5 DEF HandleSwapInstruction
    <3>2. UserStep(r)
      BY <1>2, <2>2, <2>5, <3>1, DepositRefines
    <3> QED
      BY <3>2, UserResult
  <2>6. CASE ix.op = "Withdraw"
    <3>1. r = process_withdraw(infos, ix)
      BY <1>5, <2>6 DEF HandleSwapInstruction
    <3>2. UserStep(r)
      BY <1>2, <2>2, <2>6, <3>1, WithdrawRefines
    <3> QED
      BY <3>2, UserResult
  <2>7. CASE ix.op = "WithdrawOne"
    <3>1. r = process_withdraw_one(infos, ix)
      BY <1>5, <2>7 DEF HandleSwapInstruction
    <3>2. UserStep(r)
      BY <1>2, <2>2, <2>7, <3>1, WithdrawOneRefines
    <3> QED
      BY <3>2, UserResult
  <2> QED
    BY <2>2, <2>3, <2>4, <2>5, <2>6, <2>7 DEF SwapOps
<1> QED
  BY <1>1, <1>4, <1>5

LEMMA TickStep ==
    ASSUME DeployedInv, Tick, info' = info
    PROVE  DeployedInv' /\ P!Next
<1>1. DeployedInv'
  <2>1. now' \in 0 .. MaxNow
    BY ProgramAssumption, WidthAssumption DEF Tick, DeployedInv, DeployedTypeOK
  <2> QED
    BY <2>1 DEF Tick, DeployedInv, DeployedTypeOK, StaysWired, Wired
<1>2. P!Tick /\ UNCHANGED ledger
  BY DEF Tick, P!Tick, P!swapInfoVars, P!rampVars, P!transferVars, P!feeVars
<1> QED
  BY <1>1, <1>2, Zenon DEF P!Next, P!Environment

LEMMA ProgramStep ==
    ASSUME DeployedInv, [DeployedNext]_deployedVars
    PROVE  DeployedInv' /\ [P!Next]_P!poolVars
<1>1. CASE UNCHANGED deployedVars
  <2>1. now' = now /\ swap_data' = swap_data /\ ledger' = ledger /\ info' = info
    BY <1>1 DEF deployedVars, programVars
  <2>2. DeployedInv'
    BY <2>1 DEF DeployedInv, DeployedTypeOK, StaysWired, Wired
  <2>3. UNCHANGED P!poolVars
    BY <2>1 DEF P!poolVars, P!adminVars, P!swapInfoVars, P!rampVars, P!transferVars, P!feeVars
  <2> QED
    BY <2>2, <2>3
<1>2. CASE DeployedNext
  <2>1. info' = IF swap_data' = swap_data THEN info ELSE Decode(swap_data')
    BY <1>2 DEF DeployedNext
  <2>2. CASE Tick
    <3>1. info' = info
      BY <2>1, <2>2 DEF Tick
    <3> QED
      BY <2>2, <3>1, TickStep
  <2>3. ASSUME NEW request \in Requests, ProcessInstruction(request)
        PROVE  DeployedInv' /\ [P!Next]_P!poolVars
    <3> DEFINE r == process_instruction(request)
    <3>1. /\ r.err = Ok /\ swap_data' = r.data /\ ledger' = r.ledger /\ now' = now
      BY <2>3 DEF ProcessInstruction
    <3>2. Commits(r)
      BY <2>1, <3>1 DEF Commits
    <3> HIDE DEF r
    <3>3. r = process_instruction(request)
      BY DEF r
    <3> QED
      BY <3>1, <3>2, <3>3, InstructionStep
  <2> QED
    BY <1>2, <2>2, <2>3 DEF DeployedNext, Next
<1> QED
  BY <1>1, <1>2

LEMMA ZeroFees ==
    Fees_unpack_from_slice([i \in 1..FEES_LEN |-> 0]) \in Fees
<1> DEFINE s == [i \in 1..FEES_LEN |-> 0]
<1>1. FEES_LEN \in Nat
  BY EncodingAssumption DEF FEES_LEN
<1>2. s \in Seq(Int) /\ Len(s) = FEES_LEN
  <2>1. s \in [1..FEES_LEN -> Int]
    OBVIOUS
  <2> HIDE DEF s
  <2> QED
    BY <1>1, <2>1
<1>3. \A i \in 1 .. Len(s) : s[i] \in Byte
  <2>1. 0 \in Byte
    BY EncodingAssumption DEF Byte
  <2> QED
    BY <1>2, <2>1
<1> HIDE DEF s
<1> QED
  BY <1>2, <1>3, FeesOfBytes DEF FeesFit, s

LEMMA ProgramStart ==
    ASSUME DeployedInit
    PROVE  DeployedInv /\ P!Init
<1> DEFINE zero == SwapTokenInfo(DefaultKey, DefaultKey, DefaultKey, 0)
           one  == SwapTokenInfo(DefaultKey, DefaultKey, DefaultKey, 1)
           f == Fees_unpack_from_slice([i \in 1..FEES_LEN |-> 0])
           start(b) ==
            [ is_initialized |-> FALSE, is_paused |-> FALSE, nonce |-> 0,
              initial_amp_factor |-> 0, target_amp_factor |-> 0,
              start_ramp_ts |-> 0, stop_ramp_ts |-> 0, future_admin_deadline |-> 0,
              future_admin_key |-> DefaultKey, admin_key |-> DefaultKey,
              token_a |-> zero, token_b |-> b, pool_mint |-> DefaultKey, fees |-> f ]
<1>1. ZeroedSwapInfo = start(zero)
  BY Zenon DEF ZeroedSwapInfo
<1>2. f \in Fees
  BY ZeroFees
<1> HIDE DEF f
<1>3. /\ zero \in TokenInfos(NamedKeys, 0) /\ one \in TokenInfos(NamedKeys, 1)
      /\ one.reserves = zero.reserves /\ one.mint = zero.mint
      /\ one.admin_fees = zero.admin_fees
  <2>1. DefaultKey \in NamedKeys
    BY DEF NamedKeys
  <2> QED
    BY <2>1 DEF SwapTokenInfo, TokenInfos
<1> HIDE DEF zero, one
<1>4. start(one) \in SwapInfos(NamedKeys)
  <2>1. 0 \in Byte /\ 0 \in U64 /\ 0 \in I64
    BY ZeroFits
  <2>2. DefaultKey \in NamedKeys
    BY DEF NamedKeys
  <2> QED
    BY <1>2, <1>3, <2>1, <2>2 DEF SwapInfos
<1>5. SwapInfo_pack(start(zero)) = SwapInfo_pack(start(one))
  BY <1>3 DEF SwapInfo_pack
<1>6. info = start(one) /\ swap_data = SwapInfo_pack(info)
  BY <1>1, <1>4, <1>5, SwapInfoRoundTrip DEF DeployedInit, Init, Decode
<1>7. /\ ~info.is_initialized /\ ~info.is_paused
      /\ info.initial_amp_factor = 0 /\ info.target_amp_factor = 0
      /\ info.start_ramp_ts = 0 /\ info.stop_ramp_ts = 0 /\ info.future_admin_deadline = 0
      /\ info.future_admin_key = DefaultKey /\ info.admin_key = DefaultKey
      /\ info.is_initialized = FALSE /\ info.is_paused = FALSE
  BY <1>6
<1>8. PICK amounts \in InitialAmounts :
         ledger = [amount |-> amounts, supply |-> 0, open |-> TokenAccounts, ok |-> TRUE]
  BY DEF DeployedInit, Init
<1>9. now = 0
  BY DEF DeployedInit, Init
<1> HIDE DEF start
<1>10. DeployedInv
  <2>1. ledger \in OpenLedgers
    BY <1>8, ZeroFits, DeployedAssumption DEF OpenLedgers
  <2>2. now \in 0 .. MaxNow
    BY <1>9, ProgramAssumption
  <2> QED
    BY <1>4, <1>6, <1>7, <2>1, <2>2 DEF DeployedInv, DeployedTypeOK, StaysWired
<1>11. P!AdminInit
  <2>1. SentFees # {} /\ (CHOOSE x \in SentFees : TRUE) \in SentFees
    BY DeployedAssumption
  <2> DEFINE fees == [ m \in {TokenA, TokenB} |->
                IF ~info.is_initialized THEN (IF m = TokenA THEN resA ELSE resB)
                ELSE IF m = TokenA THEN info.token_a.admin_fees ELSE info.token_b.admin_fees ]
  <2>2. fees \in [{TokenA, TokenB} -> TokenAccounts]
    BY <1>7, DeployedAssumption
  <2> HIDE DEF fees
  <2> QED
    BY <1>7, <1>9, <2>1, <2>2, SameNumbers DEF P!AdminInit, ZERO_TS, fees
<1> QED
  BY <1>8, <1>10, <1>11, Zenon DEF P!Init

---------------------------------------------------------------------------
(* The theorems *)

\* Between two instructions the swap account holds the encoding of a SwapInfo,
\* with numbers of the widths of its fields and keys that somebody named
\* (state.rs:160-254): no handler writes what the next one cannot load, and
\* after every instruction the ledger is in the range of the token program.
THEOREM ProgramTypeCorrect == DeployedSpec => []DeployedTypeOK
<1>1. DeployedInit => DeployedInv
  BY ProgramStart
<1>2. DeployedInv /\ [DeployedNext]_deployedVars => DeployedInv'
  BY ProgramStep
<1>3. DeployedInv => DeployedTypeOK
  BY DEF DeployedInv
<1> QED
  BY <1>1, <1>2, <1>3, PTL DEF DeployedSpec

\* Once the pool is initialized, no sequence of requests, whatever accounts
\* they list, makes it use another reserve, mint or nonce, or another fee
\* account than one for the same token (swap.rs, checks.rs, admin.rs:193).
THEOREM AccountsStayWired == DeployedSpec => []StaysWired
<1>1. DeployedInit => DeployedInv
  BY ProgramStart
<1>2. DeployedInv /\ [DeployedNext]_deployedVars => DeployedInv'
  BY ProgramStep
<1>3. DeployedInv => StaysWired
  BY DEF DeployedInv
<1> QED
  BY <1>1, <1>2, <1>3, PTL DEF DeployedSpec

\* Every behaviour of the program, from the bytes of its requests on
\* (processor/mod.rs:25), is a behaviour of Pool: a request that is accepted
\* has the effect of an instruction of the pool with the pool's accounts, and
\* one that is refused has none.
THEOREM ProgramImplementsPool == DeployedSpec => ProgramRefinesPool
<1>1. DeployedInit => DeployedInv /\ P!Init
  BY ProgramStart
<1>2. DeployedInv /\ [DeployedNext]_deployedVars => DeployedInv' /\ [P!Next]_P!poolVars
  BY ProgramStep
<1> QED
  BY <1>1, <1>2, PTL DEF DeployedSpec, ProgramRefinesPool, P!Spec

---------------------------------------------------------------------------
(* What is proved of Pool holds of the program *)

\* PoolProofs is about every pool that meets its assumptions.  This one does, so
\* that its theorems can be cited, each with the assumptions it was proved from.

LEMMA SameAssumptions ==
    P!WidthAssumption /\ P!SplitAssumption /\ P!AmpAssumption /\ P!NewtonAssumption
BY WidthAssumption, SplitAssumption, AmpAssumption, NewtonAssumption
   DEF P!WidthAssumption, P!SplitAssumption, P!AmpAssumption, P!NewtonAssumption

LEMMA SentInstructions ==
    ASSUME NEW request \in Understandable
    PROVE  Unpack(request.data).instruction \in AdminInstructions \cup SwapInstructions
<1>1. /\ request \in Requests /\ Unpack(request.data).err = Ok
      /\ request.data \in Seq(Int) /\ \A i \in 2 .. Len(request.data) : request.data[i] \in Byte
  BY DeployedAssumption DEF Understandable
<1> QED
  BY <1>1, AcceptedBytesAreUnderstood DEF Understood

LEMMA SentTyped ==
    /\ SentAmps \subseteq U64 /\ SentStops \subseteq I64 /\ SentFees \subseteq Fees
    /\ SentAmounts \subseteq U64
<1>1. ASSUME NEW op, NEW ix \in Sent(op)
      PROVE  ix \in AdminInstructions \cup SwapInstructions /\ ix.op = op
  BY SentInstructions DEF Sent
<1>2. ASSUME NEW ix \in AdminInstructions \cup SwapInstructions
      PROVE  /\ ix.op = "RampA" => ix.target_amp \in U64 /\ ix.stop_ramp_ts \in I64
             /\ ix.op = "SetNewFees" => ix.fees \in Fees
             /\ ix.op = "Initialize" => ix.amp_factor \in U64 /\ ix.fees \in Fees
             /\ ix.op = "Swap" => ix.amount_in \in U64
             /\ ix.op = "Deposit" => ix.token_a_amount \in U64 /\ ix.token_b_amount \in U64
             /\ ix.op \in {"Withdraw", "WithdrawOne"} => ix.pool_token_amount \in U64
  BY DEF AdminInstructions, SwapInstructions, PlainOps
<1> QED
  BY <1>1, <1>2 DEF SentAmps, SentStops, SentFees, SentAmounts

\* The pool that the requests are about is one that Pool is about: what clients
\* send and what the handlers check (the signer is not the program's own
\* address, the mints differ, swap.rs:161-194) is what Pool assumes.
THEOREM PoolAssumptionsHold == P!AdminAssumption /\ P!PoolAssumption
<1>1. DefaultKey \in NamedKeys
  BY DEF NamedKeys
<1>2. \A t \in SentStops : t \in Int /\ t <= I64_MAX
  BY SentTyped, ProgramAssumption, WidthAssumption DEF I64
<1>3. P!AdminAssumption
  BY <1>1, <1>2, SentTyped, SameNumbers, DeployedAssumption, ProgramAssumption,
     WidthAssumption DEF P!AdminAssumption
<1>4. P!PoolAssumption
  BY SentTyped, SameNumbers, TwoReserves, DeployedAssumption, ZeroFits DEF P!PoolAssumption
<1> QED
  BY <1>3, <1>4

\* What Pool's instructions never do to the fees, the amplification coefficient
\* and the transfer of the admin rights, no request to the program does, in
\* whatever accounts and bytes it comes.
THEOREM ProgramKeepsInvariants ==
    DeployedSpec => [](P!TypeOK /\ P!AmpAlwaysInBounds /\ P!TransferWellFormed)
<1>1. P!Spec => P!AdminSpec
  BY PoolAssumptionsHold, SameAssumptions, P!PoolImplementsAdmin
<1>2. P!AdminSpec => []P!TypeOK
  BY PoolAssumptionsHold, SameAssumptions, P!TypeCorrect
<1>3. P!AdminSpec => []P!AmpAlwaysInBounds
  BY PoolAssumptionsHold, SameAssumptions, P!AmpStaysInBounds
<1>4. P!AdminSpec => []P!TransferWellFormed
  BY PoolAssumptionsHold, SameAssumptions, P!TransferStaysWellFormed
<1> QED
  BY <1>1, <1>2, <1>3, <1>4, ProgramImplementsPool, PTL DEF ProgramRefinesPool

\* The promises of Pool about single steps hold of every request: those about
\* the ramp (amplification), the pending transfer (admin.rs:218-251), a paused
\* pool, a pool without LP tokens, fees with a zero denominator and reserves
\* beyond the curve.
THEOREM ProgramKeepsPromises ==
    DeployedSpec =>
        /\ P!AmpContinuous /\ P!AmpHeadsForTarget /\ P!PendingTransferIsFirm
        /\ P!PausedKeepsBothReserves /\ P!DeadPoolStaysDead
        /\ P!UndefinedFeesRefuse /\ P!OverflowKeepsBothReserves
<1> USE PoolAssumptionsHold, SameAssumptions
<1>1. P!Spec => P!AdminSpec
  BY P!PoolImplementsAdmin
<1>2. P!AdminSpec => P!AmpContinuous
  BY P!AmpIsContinuous
<1>3. P!AdminSpec => P!AmpHeadsForTarget
  BY P!AmpHeadsForItsTarget
<1>4. P!AdminSpec => P!PendingTransferIsFirm
  BY P!PendingTransferStaysFirm
<1>5. P!Spec => P!PausedKeepsBothReserves
  BY P!PausedKeepsReserves
<1>6. P!Spec => P!DeadPoolStaysDead
  BY P!DeadStaysDead
<1>7. P!Spec => P!UndefinedFeesRefuse
  BY P!UndefinedFeesAreRefused
<1>8. P!Spec => P!OverflowKeepsBothReserves
  BY P!OverflowKeepsReserves
<1> QED
  BY <1>1, <1>2, <1>3, <1>4, <1>5, <1>6, <1>7, <1>8, ProgramImplementsPool, PTL
     DEF ProgramRefinesPool

\* Under fees below 100%, which the program does not check, no sequence of
\* requests empties a reserve or leaves LP tokens without their backing.
THEOREM ProgramFundsShares ==
    ASSUME \A f \in SentFees : P!FeesBelow100(f)
    PROVE  DeployedSpec => [](P!ReservesStayLive /\ P!V!SharesAreFunded)
<1> USE PoolAssumptionsHold, SameAssumptions
<1>1. P!Spec => []P!ReservesStayLive
  BY P!ReservesLive
<1>2. P!Spec => []P!V!SharesAreFunded
  BY P!LPTokensStayFunded
<1> QED
  BY <1>1, <1>2, ProgramImplementsPool, PTL DEF ProgramRefinesPool

\* And no sequence of requests bars the way out: the step that Withdraw is
\* (swap.rs:591) stays possible for every holder of LP tokens.
THEOREM ProgramLetsOut ==
    ASSUME \A amounts \in InitialAmounts : P!Circulating(amounts),
           \A f \in SentFees : P!OffTheSplit(f)
    PROVE  DeployedSpec => []P!ExitAlwaysPossible
<1> USE PoolAssumptionsHold, SameAssumptions
<1>1. P!Spec => []P!ExitAlwaysPossible
  BY P!ExitIsAlwaysPossible
<1> QED
  BY <1>1, ProgramImplementsPool, PTL DEF ProgramRefinesPool

=============================================================================
