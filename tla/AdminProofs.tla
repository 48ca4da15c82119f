---------------------------- MODULE AdminProofs ----------------------------
(***************************************************************************)
(* Theorems about Admin, for all values of its constants.                  *)
(***************************************************************************)
EXTENDS Admin, TLAPS

(***************************************************************************)
(* The amplification coefficient along a ramp.                             *)
(***************************************************************************)

\* The quotient that compute_amp_factor adds or subtracts is at most the whole
\* range, as long as not more than the whole time has passed.
LEMMA PartInRange ==
    ASSUME NEW r \in Nat, NEW e \in Nat, NEW t \in Nat, t > 0, e <= t
    PROVE  (r * e) \div t \in 0..r
<1> DEFINE q == (r * e) \div t
<1>1. r * e \in Nat /\ r * e <= r * t
  <2>1. t - e \in Nat /\ t = e + (t - e)
    OBVIOUS
  <2>2. r * (t - e) \in Nat
    BY <2>1
  <2>3. r * t = r * e + r * (t - e)
    BY <2>1
  <2> QED
    BY <2>2, <2>3
<1>2. q \in Nat /\ q * t <= r * e
  BY <1>1
<1>3. q <= r
  <2>1. SUFFICES ASSUME q >= r + 1
                 PROVE  FALSE
    BY <1>2
  <2>2. q * t >= (r + 1) * t
    BY <2>1, <1>2
  <2>3. (r + 1) * t = r * t + t
    OBVIOUS
  <2> QED
    BY <1>1, <1>2, <2>2, <2>3
<1> QED
  BY <1>2, <1>3

\* It does not shrink as time passes.
LEMMA PartMonotone ==
    ASSUME NEW r \in Nat, NEW d \in Nat, NEW e \in Nat, NEW t \in Nat, t > 0, d <= e
    PROVE  (r * d) \div t <= (r * e) \div t
<1> DEFINE p == (r * d) \div t
           q == (r * e) \div t
<1>1. r * d \in Nat /\ r * e \in Nat /\ r * d <= r * e
  <2>1. e - d \in Nat /\ e = d + (e - d)
    OBVIOUS
  <2>2. r * (e - d) \in Nat
    BY <2>1
  <2>3. r * e = r * d + r * (e - d)
    BY <2>1
  <2> QED
    BY <2>2, <2>3
<1>2. p \in Nat /\ p * t <= r * d
  BY <1>1
<1>3. q \in Nat /\ r * e < (q + 1) * t
  BY <1>1
<1>4. SUFFICES ASSUME p >= q + 1
               PROVE  FALSE
  BY <1>2, <1>3
<1>5. p * t >= (q + 1) * t
  BY <1>2, <1>3, <1>4
<1> QED
  BY <1>1, <1>2, <1>3, <1>5

\* compute_amp_factor, from the start of a ramp on, is a number between the
\* two ends of the ramp; at its start the one, from its stop on the other.
LEMMA AmpBetweenEnds ==
    ASSUME NEW i \in Nat, NEW g \in Nat, NEW c \in Nat, NEW s \in Nat, NEW e \in Nat,
           s <= c
    PROVE  /\ compute_amp_factor(i, g, c, s, e) \in Nat
           /\ Between(compute_amp_factor(i, g, c, s, e), i, g)
           /\ c >= e => compute_amp_factor(i, g, c, s, e) = g
           /\ c = s /\ c < e => compute_amp_factor(i, g, c, s, e) = i
<1> USE DEF compute_amp_factor, Between
<1>1. CASE c >= e
  BY <1>1
<1>2. CASE c < e /\ g >= i
  <2> DEFINE q == ((g - i) * (c - s)) \div (e - s)
  <2>1. g - i \in Nat /\ c - s \in Nat /\ e - s \in Nat /\ e - s > 0 /\ c - s <= e - s
    BY <1>2
  <2>2. q \in 0..(g - i)
    BY <2>1, PartInRange
  <2>3. c = s => q = 0
    BY <2>1
  <2>4. compute_amp_factor(i, g, c, s, e) = i + q
    BY <1>2
  <2> HIDE DEF q, compute_amp_factor
  <2> QED
    BY <1>2, <2>1, <2>2, <2>3, <2>4
<1>3. CASE c < e /\ g < i
  <2> DEFINE q == ((i - g) * (c - s)) \div (e - s)
  <2>1. i - g \in Nat /\ c - s \in Nat /\ e - s \in Nat /\ e - s > 0 /\ c - s <= e - s
    BY <1>3
  <2>2. q \in 0..(i - g)
    BY <2>1, PartInRange
  <2>3. c = s => q = 0
    BY <2>1
  <2>4. compute_amp_factor(i, g, c, s, e) = i - q
    BY <1>3
  <2> HIDE DEF q, compute_amp_factor
  <2> QED
    BY <1>3, <2>1, <2>2, <2>3, <2>4
<1> QED
  BY <1>1, <1>2, <1>3

\* As time passes it moves towards the target.
LEMMA AmpMovesToTarget ==
    ASSUME NEW i \in Nat, NEW g \in Nat, NEW c \in Nat, NEW s \in Nat, NEW e \in Nat,
           s <= c
    PROVE  Between(compute_amp_factor(i, g, c + 1, s, e),
                   compute_amp_factor(i, g, c, s, e), g)
<1> USE DEF compute_amp_factor, Between
<1>1. CASE c + 1 >= e
  BY <1>1, AmpBetweenEnds
<1>2. CASE c + 1 < e /\ g >= i
  <2> DEFINE q(d) == ((g - i) * d) \div (e - s)
  <2>1. g - i \in Nat /\ c - s \in Nat /\ c + 1 - s \in Nat /\ e - s \in Nat
        /\ e - s > 0 /\ c - s <= e - s /\ c + 1 - s <= e - s
    BY <1>2
  <2>2. q(c - s) \in 0..(g - i) /\ q(c + 1 - s) \in 0..(g - i)
    BY <2>1, PartInRange
  <2>3. q(c - s) <= q(c + 1 - s)
    BY <2>1, PartMonotone
  <2>4. /\ compute_amp_factor(i, g, c, s, e) = i + q(c - s)
        /\ compute_amp_factor(i, g, c + 1, s, e) = i + q(c + 1 - s)
    BY <1>2
  <2> HIDE DEF q, compute_amp_factor
  <2> QED
    BY <1>2, <2>2, <2>3, <2>4
<1>3. CASE c + 1 < e /\ g < i
  <2> DEFINE q(d) == ((i - g) * d) \div (e - s)
  <2>1. i - g \in Nat /\ c - s \in Nat /\ c + 1 - s \in Nat /\ e - s \in Nat
        /\ e - s > 0 /\ c - s <= e - s /\ c + 1 - s <= e - s
    BY <1>3
  <2>2. q(c - s) \in 0..(i - g) /\ q(c + 1 - s) \in 0..(i - g)
    BY <2>1, PartInRange
  <2>3. q(c - s) <= q(c + 1 - s)
    BY <2>1, PartMonotone
  <2>4. /\ compute_amp_factor(i, g, c, s, e) = i - q(c - s)
        /\ compute_amp_factor(i, g, c + 1, s, e) = i - q(c + 1 - s)
    BY <1>3
  <2> HIDE DEF q, compute_amp_factor
  <2> QED
    BY <1>3, <2>2, <2>3, <2>4
<1> QED
  BY <1>1, <1>2, <1>3

(***************************************************************************)
(* The inductive invariant.  TypeOK alone does not bound the coefficient:  *)
(* its bounds rest on those of both ends of the ramp, and on a ramp that   *)
(* has started by now and does not stop before it starts.  The last part   *)
(* says that an account without an admin has no admin transfer pending.    *)
(***************************************************************************)
RampOK ==
    is_initialized =>
        /\ initial_amp_factor \in MIN_AMP..MAX_AMP
        /\ target_amp_factor \in MIN_AMP..MAX_AMP
        /\ start_ramp_ts <= now
        /\ start_ramp_ts <= stop_ramp_ts

NoTransferBeforeInitialize == ~is_initialized => future_admin_deadline = ZERO_TS

IInv == TypeOK /\ RampOK /\ NoTransferBeforeInitialize

\* The coefficient in effect, now and at any later second, lies between the
\* ends of the ramp and so within the bounds.
LEMMA AmpInBounds ==
    ASSUME IInv, is_initialized, NEW t \in now..MaxNow
    PROVE  /\ AmpAt(t) \in MIN_AMP..MAX_AMP
           /\ AmpAt(t) \in U64
           /\ AmpAt(t) # None
<1>1. /\ initial_amp_factor \in Nat
      /\ target_amp_factor \in Nat
      /\ start_ramp_ts \in Nat
      /\ stop_ramp_ts \in Nat
      /\ t \in Nat
      /\ start_ramp_ts <= t
  BY AmpAssumption, AdminAssumption DEF IInv, TypeOK, RampOK, U64
<1>2. AmpAt(t) \in Nat /\ Between(AmpAt(t), initial_amp_factor, target_amp_factor)
  BY <1>1, AmpBetweenEnds DEF AmpAt
<1>3. /\ initial_amp_factor \in MIN_AMP..MAX_AMP
      /\ target_amp_factor \in MIN_AMP..MAX_AMP
  BY DEF IInv, RampOK
<1> HIDE DEF AmpAt
<1>4. AmpAt(t) \in MIN_AMP..MAX_AMP
  BY <1>2, <1>3, AmpAssumption DEF Between
<1> QED
  BY <1>2, <1>4, AmpAssumption, WidthAssumption DEF U64, None

LEMMA InitIInv == AdminInit => IInv
<1> SUFFICES ASSUME AdminInit
             PROVE  IInv
  OBVIOUS
<1>1. is_initialized \in BOOLEAN /\ is_paused \in BOOLEAN /\ ~is_initialized
  BY Zenon DEF AdminInit
<1>2. RampOK
  BY <1>1 DEF RampOK
<1>3. TypeOK
  BY <1>1, AdminAssumption, WidthAssumption DEF AdminInit, TypeOK, U64, ZERO_TS
<1> QED
  BY <1>2, <1>3 DEF IInv, NoTransferBeforeInitialize, AdminInit

\* Every step keeps it: one step of the proof for each action.
LEMMA StepIInv == IInv /\ [AdminNext]_adminVars => IInv'
<1> SUFFICES ASSUME IInv, [AdminNext]_adminVars
             PROVE  IInv'
  OBVIOUS
<1> USE AdminAssumption, AmpAssumption, WidthAssumption
    DEF IInv, TypeOK, RampOK, NoTransferBeforeInitialize, rampVars, transferVars, feeVars, swapInfoVars, adminVars
<1>1. ASSUME NEW amp \in TargetAmps, NEW key \in Keys, NEW f \in FeeChoices,
             NEW accounts \in [Mints -> TokenAccounts],
             InitializeSwapInfo(amp, key, f, accounts)
      PROVE  IInv'
  <2>1. is_initialized' \in BOOLEAN /\ is_paused' \in BOOLEAN /\ is_initialized'
    BY <1>1, Zenon DEF InitializeSwapInfo
  <2>2. RampOK'
    BY <1>1 DEF InitializeSwapInfo, ValidAmp, ZERO_TS
  <2>3. TypeOK'
    BY <1>1, <2>1 DEF InitializeSwapInfo, ValidAmp, ZERO_TS, U64
  <2>4. NoTransferBeforeInitialize'
    BY <2>1
  <2> QED
    BY <2>2, <2>3, <2>4
<1>2. ASSUME NEW amp \in TargetAmps, NEW t \in StopTimes, RampA(amp, t)
      PROVE  IInv'
  <2>1. is_initialized /\ now \in now..MaxNow
    BY <1>2 DEF RampA, AdminSigned
  <2>2. amp_factor \in MIN_AMP..MAX_AMP /\ amp_factor \in U64
    BY <2>1, AmpInBounds DEF amp_factor
  <2>3. amp \in MIN_AMP..MAX_AMP /\ amp \in U64
    BY <1>2 DEF RampA, ValidAmp
  <2>4. t \in Int /\ t <= I64_MAX /\ t >= now + MIN_RAMP_DURATION
    BY <1>2 DEF RampA
  <2> HIDE DEF amp_factor
  <2> QED
    BY <1>2, <2>1, <2>2, <2>3, <2>4 DEF RampA, SetRamp
<1>3. ASSUME StopRampA
      PROVE  IInv'
  <2>1. is_initialized /\ now \in now..MaxNow
    BY <1>3 DEF StopRampA, AdminSigned
  <2>2. amp_factor \in MIN_AMP..MAX_AMP /\ amp_factor \in U64
    BY <2>1, AmpInBounds DEF amp_factor
  <2> HIDE DEF amp_factor
  <2> QED
    BY <1>3, <2>1, <2>2 DEF StopRampA, SetRamp
<1>4. ASSUME Pause \/ Unpause
      PROVE  IInv'
  <2>1. is_paused' \in BOOLEAN
    BY <1>4, Zenon DEF Pause, Unpause, SetPaused
  <2>2. UNCHANGED <<now, is_initialized, rampVars, transferVars, feeVars>>
    BY <1>4, Zenon DEF Pause, Unpause, SetPaused
  <2> QED
    BY <2>1, <2>2
<1>5. ASSUME NEW account \in TokenAccounts, SetFeeAccount(account)
      PROVE  IInv'
  BY <1>5 DEF SetFeeAccount
<1>6. ASSUME ApplyNewAdmin
      PROVE  IInv'
  BY <1>6 DEF ApplyNewAdmin, AdminSigned, ZERO_TS
<1>7. ASSUME NEW key \in NewAdmins, CommitNewAdmin(key)
      PROVE  IInv'
  <2>1. TransferDeadline \in 0..I64_MAX
    BY <1>7 DEF CommitNewAdmin, TransferDeadline, CheckedAdd, None
  <2> HIDE DEF TransferDeadline
  <2> QED
    BY <1>7, <2>1 DEF CommitNewAdmin, AdminSigned
<1>8. ASSUME NEW f \in FeeChoices, SetNewFees(f)
      PROVE  IInv'
  BY <1>8 DEF SetNewFees
<1>9. ASSUME Tick
      PROVE  IInv'
  BY <1>9 DEF Tick
<1>10. CASE UNCHANGED adminVars
  BY <1>10
<1> QED
  BY <1>1, <1>2, <1>3, <1>4, <1>5, <1>6, <1>7, <1>8, <1>9, <1>10
     DEF AdminNext, AdminInstruction

THEOREM Invariance == AdminSpec => []IInv
  BY InitIInv, StepIInv, PTL DEF AdminSpec

\* Every variable keeps its type, for all constants: in particular no amplification
\* factor or timestamp that the admin instructions store leaves u64 or i64.
THEOREM TypeCorrect == AdminSpec => []TypeOK
<1>1. IInv => TypeOK
  BY DEF IInv
<1> QED
  BY <1>1, Invariance, PTL

\* From Initialize on the amplification coefficient is computable and within its
\* bounds at every second, whatever the admin does.
THEOREM AmpStaysInBounds == AdminSpec => []AmpAlwaysInBounds
<1>1. IInv => AmpAlwaysInBounds
  BY AmpInBounds DEF AmpAlwaysInBounds
<1> QED
  BY <1>1, Invariance, PTL

(***************************************************************************)
(* What a step may do to the coefficient and to a pending transfer.        *)
(***************************************************************************)

\* RampA and StopRampA start the new ramp at the coefficient in effect; the
\* others leave the ramp alone.  The price curve is continuous in time.
THEOREM AmpIsContinuous == AdminSpec => AmpContinuous
<1>1. ASSUME IInv, [AdminNext]_adminVars, is_initialized, now' = now
      PROVE  amp_factor' = amp_factor
  <2>1. /\ amp_factor \in Nat
        /\ now \in Nat
    <3>1. now \in now..MaxNow /\ now \in Nat
      BY <1>1, AdminAssumption DEF IInv, TypeOK
    <3> QED
      BY <1>1, <3>1, AmpInBounds, AmpAssumption DEF amp_factor
  <2>2. ASSUME NEW stop \in Nat, NEW target \in Nat,
               SetRamp(amp_factor, target, stop),
               stop > now \/ target = amp_factor
        PROVE  amp_factor' = amp_factor
    <3> DEFINE a == amp_factor
    <3>1. amp_factor' = compute_amp_factor(a, target, now, now, stop)
      BY <1>1, <2>2 DEF SetRamp, amp_factor, AmpAt
    <3> HIDE DEF a
    <3>2. a \in Nat /\ now \in Nat /\ (stop > now \/ target = a)
      BY <2>1, <2>2 DEF a
    <3>3. compute_amp_factor(a, target, now, now, stop) = a
      BY <3>2, AmpBetweenEnds
    <3> QED
      BY <3>1, <3>3 DEF a
  <2>3. CASE UNCHANGED rampVars
    BY <1>1, <2>3 DEF rampVars, amp_factor, AmpAt
  <2>4. ASSUME NEW amp \in TargetAmps, NEW t \in StopTimes, RampA(amp, t)
        PROVE  amp_factor' = amp_factor
    <3>1. amp \in Nat /\ t \in Nat /\ t > now /\ SetRamp(amp_factor, amp, t)
      BY <2>1, <2>4, AdminAssumption, AmpAssumption, WidthAssumption
         DEF RampA, U64
    <3> QED
      BY <2>2, <3>1
  <2>5. ASSUME StopRampA
        PROVE  amp_factor' = amp_factor
    BY <2>1, <2>2, <2>5 DEF StopRampA
  <2>6. ASSUME ~UNCHANGED rampVars
        PROVE  \/ StopRampA
               \/ \E amp \in TargetAmps, t \in StopTimes : RampA(amp, t)
    BY <1>1, <2>6
       DEF AdminNext, AdminInstruction, adminVars, swapInfoVars, InitializeSwapInfo,
           Pause, Unpause, SetPaused, SetFeeAccount, ApplyNewAdmin, CommitNewAdmin,
           SetNewFees, Tick
  <2> QED
    BY <2>3, <2>4, <2>5, <2>6
<1> QED
  BY <1>1, Invariance, PTL DEF AdminSpec, AmpContinuous

\* Time moves the coefficient towards the target of the running ramp, and not
\* at all when no ramp is running.
THEOREM AmpHeadsForItsTarget == AdminSpec => AmpHeadsForTarget
<1>1. ASSUME IInv, [AdminNext]_adminVars, is_initialized, now' # now
      PROVE  /\ Between(amp_factor', amp_factor, target_amp_factor)
             /\ now >= stop_ramp_ts => amp_factor' = amp_factor
  <2>1. Tick
    BY <1>1
       DEF AdminNext, AdminInstruction, adminVars, swapInfoVars, InitializeSwapInfo,
           RampA, StopRampA, Pause, Unpause, SetPaused, SetFeeAccount, ApplyNewAdmin,
           CommitNewAdmin, SetNewFees
  <2>2. /\ initial_amp_factor \in Nat
        /\ target_amp_factor \in Nat
        /\ start_ramp_ts \in Nat
        /\ stop_ramp_ts \in Nat
        /\ now \in Nat
        /\ start_ramp_ts <= now
    BY <1>1, AdminAssumption, WidthAssumption DEF IInv, TypeOK, RampOK, U64
  <2> DEFINE A(c) == compute_amp_factor(initial_amp_factor, target_amp_factor, c,
                                        start_ramp_ts, stop_ramp_ts)
  <2>3. amp_factor = A(now) /\ amp_factor' = A(now + 1)
    BY <2>1 DEF Tick, swapInfoVars, rampVars, amp_factor, AmpAt
  <2>4. Between(A(now + 1), A(now), target_amp_factor)
    BY <2>2, AmpMovesToTarget
  <2>5. now >= stop_ramp_ts => A(now) = target_amp_factor /\ A(now + 1) = target_amp_factor
    BY <2>2, AmpBetweenEnds
  <2> HIDE DEF A
  <2> QED
    BY <2>3, <2>4, <2>5
<1> QED
  BY <1>1, Invariance, PTL DEF AdminSpec, AmpHeadsForTarget

\* No deadline, no key; and no deadline further away than the delay.
THEOREM TransferStaysWellFormed == AdminSpec => []TransferWellFormed
<1>1. AdminInit => TransferWellFormed
  BY AdminAssumption DEF AdminInit, TransferWellFormed, ZERO_TS
<1>2. IInv /\ TransferWellFormed /\ [AdminNext]_adminVars => TransferWellFormed'
  <2> SUFFICES ASSUME IInv, TransferWellFormed, [AdminNext]_adminVars
               PROVE  TransferWellFormed'
    OBVIOUS
  <2> USE AdminAssumption DEF TransferWellFormed, ZERO_TS, transferVars
  <2>0. now \in Nat /\ future_admin_deadline \in Nat
    BY DEF IInv, TypeOK
  <2>1. ASSUME NEW amp \in TargetAmps, NEW key \in Keys, NEW f \in FeeChoices,
               NEW accounts \in [Mints -> TokenAccounts],
               InitializeSwapInfo(amp, key, f, accounts)
        PROVE  TransferWellFormed'
    BY <2>0, <2>1 DEF InitializeSwapInfo
  <2>2. ASSUME NEW key \in NewAdmins, CommitNewAdmin(key)
        PROVE  TransferWellFormed'
    <3>1. /\ future_admin_deadline' = now + ADMIN_TRANSFER_DELAY
          /\ now' = now
      BY <2>0, <2>2 DEF CommitNewAdmin, TransferDeadline, CheckedAdd, None
    <3> QED
      BY <2>0, <3>1
  <2>3. CASE ApplyNewAdmin
    BY <2>0, <2>3 DEF ApplyNewAdmin
  <2>4. CASE Tick
    BY <2>0, <2>4 DEF Tick, swapInfoVars
  <2>5. CASE UNCHANGED <<now, transferVars>>
    BY <2>5
  <2> QED
    BY <2>1, <2>2, <2>3, <2>4, <2>5
       DEF AdminNext, AdminInstruction, adminVars, swapInfoVars, RampA, StopRampA,
           Pause, Unpause, SetPaused, SetFeeAccount, SetNewFees
<1> QED
  BY <1>1, <1>2, Invariance, PTL DEF AdminSpec

\* A pending transfer is not redirected before its deadline.
THEOREM PendingTransferStaysFirm == AdminSpec => PendingTransferIsFirm
<1>1. ASSUME IInv, TransferWellFormed, [AdminNext]_adminVars,
             future_admin_deadline # ZERO_TS, now < future_admin_deadline
      PROVE  \/ UNCHANGED transferVars
             \/ /\ admin_key' = future_admin_key
                /\ future_admin_deadline' = ZERO_TS
  <2>1. ASSUME NEW key \in NewAdmins
        PROVE  ~CommitNewAdmin(key)
    BY <1>1 DEF CommitNewAdmin, TransferActive
  <2>2. CASE ApplyNewAdmin
    BY <2>2 DEF ApplyNewAdmin
  <2>3. CASE is_initialized
    BY <1>1, <2>1, <2>2, <2>3
       DEF AdminNext, AdminInstruction, adminVars, swapInfoVars, InitializeSwapInfo,
           RampA, StopRampA, Pause, Unpause, SetPaused, SetFeeAccount, SetNewFees, Tick
  <2>4. is_initialized
    BY <1>1 DEF IInv, NoTransferBeforeInitialize
  <2> QED
    BY <2>3, <2>4
<1> QED
  BY <1>1, Invariance, TransferStaysWellFormed, PTL
     DEF AdminSpec, PendingTransferIsFirm

=============================================================================
