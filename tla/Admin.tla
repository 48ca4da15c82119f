------------------------------- MODULE Admin -------------------------------
(***************************************************************************)
(* The part of the SwapInfo account that the admin instructions govern     *)
(* (processor/admin.rs), and the clock those instructions read: the ramp   *)
(* of the amplification coefficient, the pause flag, the fees and the      *)
(* accounts they go to, and the two-step transfer of the admin key.        *)
(*                                                                         *)
(* An instruction either succeeds and writes SwapInfo back, or returns an  *)
(* error and leaves it as it was: an action is enabled exactly when its    *)
(* handler returns Ok.  The runtime runs the instructions on one pool one  *)
(* after the other.                                                        *)
(***************************************************************************)
EXTENDS Amplification, Accounts

CONSTANTS
    Keys,           \* public keys: admins, past, present and future
    DefaultKey,     \* Pubkey::default(), for which nobody can sign
    TokenA, TokenB, \* the two mints of the pool
    ADMIN_TRANSFER_DELAY,   \* 259_200 seconds
    I64_MAX,        \* largest timestamp
    \* Inputs of the instructions
    TargetAmps,     \* arguments of Initialize and RampA
    StopTimes,      \* stop_ramp_ts arguments of RampA
    FeeChoices,     \* fee schedules of Initialize and SetNewFees
    FeeAccounts,    \* accounts named by Initialize and SetFeeAccount
    NewAdmins,      \* keys passed to CommitNewAdmin
    \* Bound
    MaxNow          \* the last second of the model

ASSUME AdminAssumption ==
    /\ DefaultKey \in Keys
    /\ NewAdmins \subseteq Keys
    /\ TokenA # TokenB
    /\ ADMIN_TRANSFER_DELAY \in Nat \ {0}
    /\ I64_MAX \in Nat
    /\ MaxNow \in Nat
    /\ MaxNow <= I64_MAX
    /\ FeeAccounts \subseteq TokenAccounts
    /\ TargetAmps \subseteq U64
    /\ StopTimes \subseteq Int
    /\ \A t \in StopTimes : t <= I64_MAX

MAX_A_CHANGE == 10

Mints == {TokenA, TokenB}

VARIABLES
    now,                    \* Clock::unix_timestamp
    is_initialized,
    is_paused,
    initial_amp_factor,
    target_amp_factor,
    start_ramp_ts,
    stop_ramp_ts,
    admin_key,
    future_admin_key,
    future_admin_deadline,
    fees,
    admin_fees              \* token_a.admin_fees and token_b.admin_fees

rampVars     == <<initial_amp_factor, target_amp_factor, start_ramp_ts, stop_ramp_ts>>
transferVars == <<admin_key, future_admin_key, future_admin_deadline>>
feeVars      == <<fees, admin_fees>>
swapInfoVars == <<is_initialized, is_paused, rampVars, transferVars, feeVars>>
adminVars    == <<now, swapInfoVars>>

---------------------------------------------------------------------------
(* Operators of this module with one mistake each, used to test the        *)
(* properties and nowhere else.                                            *)

\* The pool keeps the coefficient that the last ramp started from.
SetRamp_keeps_initial(from_amp, to_amp, stop_ts) ==
    /\ UNCHANGED initial_amp_factor
    /\ target_amp_factor' = to_amp
    /\ start_ramp_ts' = now
    /\ stop_ramp_ts' = stop_ts

\* The new target is in effect at once.
SetRamp_jumps(from_amp, to_amp, stop_ts) ==
    /\ initial_amp_factor' = to_amp
    /\ target_amp_factor' = to_amp
    /\ start_ramp_ts' = now
    /\ stop_ramp_ts' = stop_ts

RampUnlocked_always == TRUE

TransferApplicable_after_deadline == future_admin_deadline # ZERO_TS
TransferActive_never              == FALSE
TransferDeadline_unchecked        == now + ADMIN_TRANSFER_DELAY

\* The key of an applied transfer is not cleared.
ApplyNewAdmin_keeps_key ==
    /\ is_initialized
    /\ future_admin_deadline # ZERO_TS
    /\ now <= future_admin_deadline
    /\ admin_key' = future_admin_key
    /\ future_admin_deadline' = ZERO_TS
    /\ UNCHANGED <<now, is_initialized, is_paused, future_admin_key, rampVars, feeVars>>
---------------------------------------------------------------------------

\* The amplification coefficient in effect at time t, given the current ramp.
AmpAt(t) == compute_amp_factor(initial_amp_factor, target_amp_factor, t,
                               start_ramp_ts, stop_ramp_ts)

amp_factor == AmpAt(now)

\* MIN_AMP..=MAX_AMP contains the argument.
ValidAmp(amp) == amp \in MIN_AMP..MAX_AMP

---------------------------------------------------------------------------
AdminInit ==
    /\ now = 0
    /\ is_initialized = FALSE
    /\ is_paused = FALSE
    /\ initial_amp_factor = 0
    /\ target_amp_factor = 0
    /\ start_ramp_ts = ZERO_TS
    /\ stop_ramp_ts = ZERO_TS
    /\ admin_key = DefaultKey
    /\ future_admin_key = DefaultKey
    /\ future_admin_deadline = ZERO_TS
    /\ fees \in FeeChoices
    /\ admin_fees \in [Mints -> FeeAccounts]

\* The SwapInfo that process_initialize writes.
InitializeSwapInfo(amp, key, new_fees, accounts) ==
    /\ ValidAmp(amp)
    /\ ~is_initialized
    /\ \A m \in Mints : mint[accounts[m]] = m
    /\ is_initialized' = TRUE
    /\ is_paused' = FALSE
    /\ initial_amp_factor' = amp
    /\ target_amp_factor' = amp
    /\ start_ramp_ts' = ZERO_TS
    /\ stop_ramp_ts' = ZERO_TS
    /\ admin_key' = key
    /\ future_admin_key' = DefaultKey
    /\ future_admin_deadline' = ZERO_TS
    /\ fees' = new_fees
    /\ admin_fees' = accounts
    /\ UNCHANGED now

\* What process_admin_instruction asks before it dispatches: an initialized
\* account, and the signature of the current admin.
AdminSigned == is_initialized /\ admin_key # DefaultKey

\* MIN_RAMP_DURATION has passed since the last RampA or StopRampA.
RampUnlocked ==
    /\ start_ramp_ts + MIN_RAMP_DURATION <= I64_MAX
    /\ now >= start_ramp_ts + MIN_RAMP_DURATION

\* current_amp is within a factor of MAX_A_CHANGE of the target.
RampStepAllowed(current_amp, target_amp) ==
    LET Times10(amp) == CheckedMul(amp, MAX_A_CHANGE, U64_MAX)
    IN  IF target_amp < current_amp
        THEN Times10(target_amp) # None /\ current_amp <= Times10(target_amp)
        ELSE Times10(current_amp) # None /\ target_amp <= Times10(current_amp)

\* The four assignments that RampA and StopRampA end with.
SetRamp(from_amp, to_amp, stop_ts) ==
    /\ initial_amp_factor' = from_amp
    /\ target_amp_factor' = to_amp
    /\ start_ramp_ts' = now
    /\ stop_ramp_ts' = stop_ts

RampA(target_amp, stop_ts) ==
    /\ AdminSigned
    /\ ValidAmp(target_amp)
    /\ RampUnlocked
    /\ now + MIN_RAMP_DURATION <= I64_MAX
    /\ stop_ts >= now + MIN_RAMP_DURATION
    /\ amp_factor # None
    /\ RampStepAllowed(amp_factor, target_amp)
    /\ SetRamp(amp_factor, target_amp, stop_ts)
    /\ UNCHANGED <<now, is_initialized, is_paused, transferVars, feeVars>>

StopRampA ==
    /\ AdminSigned
    /\ amp_factor # None
    /\ SetRamp(amp_factor, amp_factor, now)
    /\ UNCHANGED <<now, is_initialized, is_paused, transferVars, feeVars>>

SetPaused(flag) ==
    /\ AdminSigned
    /\ is_paused' = flag
    /\ UNCHANGED <<now, is_initialized, rampVars, transferVars, feeVars>>

Pause   == SetPaused(TRUE)
Unpause == SetPaused(FALSE)

\* The mint of the new account tells which of the two fee accounts it replaces.
SetFeeAccount(account) ==
    /\ AdminSigned
    /\ mint[account] \in Mints
    /\ admin_fees' = [admin_fees EXCEPT ![mint[account]] = account]
    /\ UNCHANGED <<now, is_initialized, is_paused, rampVars, transferVars, fees>>

\* A transfer that can be applied, and one that stands in the way of another.
\* At the deadline itself a transfer is both applicable and replaceable.
TransferApplicable == future_admin_deadline # ZERO_TS /\ now <= future_admin_deadline
TransferActive     == now < future_admin_deadline

ApplyNewAdmin ==
    /\ AdminSigned
    /\ TransferApplicable
    /\ admin_key' = future_admin_key
    /\ future_admin_key' = DefaultKey
    /\ future_admin_deadline' = ZERO_TS
    /\ UNCHANGED <<now, is_initialized, is_paused, rampVars, feeVars>>

TransferDeadline == CheckedAdd(now, ADMIN_TRANSFER_DELAY, I64_MAX)

CommitNewAdmin(key) ==
    /\ AdminSigned
    /\ ~TransferActive
    /\ TransferDeadline # None
    /\ future_admin_key' = key
    /\ future_admin_deadline' = TransferDeadline
    /\ UNCHANGED <<now, is_initialized, is_paused, admin_key, rampVars, feeVars>>

SetNewFees(new_fees) ==
    /\ AdminSigned
    /\ fees' = new_fees
    /\ UNCHANGED <<now, is_initialized, is_paused, rampVars, transferVars, admin_fees>>

\* Seconds pass.  The clock sysvar does not run backwards.
Tick ==
    /\ now < MaxNow
    /\ now' = now + 1
    /\ UNCHANGED swapInfoVars

---------------------------------------------------------------------------
AdminInstruction ==
    \/ \E amp \in TargetAmps, t \in StopTimes : RampA(amp, t)
    \/ StopRampA
    \/ Pause
    \/ Unpause
    \/ \E account \in FeeAccounts : SetFeeAccount(account)
    \/ ApplyNewAdmin
    \/ \E key \in NewAdmins : CommitNewAdmin(key)
    \/ \E f \in FeeChoices : SetNewFees(f)

AdminNext ==
    \/ \E amp \in TargetAmps, key \in Keys, f \in FeeChoices,
          accounts \in [Mints -> FeeAccounts] :
            InitializeSwapInfo(amp, key, f, accounts)
    \/ AdminInstruction
    \/ Tick

AdminSpec == AdminInit /\ [][AdminNext]_adminVars

---------------------------------------------------------------------------
(* Properties *)

TypeOK ==
    /\ now \in 0..MaxNow
    /\ is_initialized \in BOOLEAN
    /\ is_paused \in BOOLEAN
    /\ initial_amp_factor \in U64
    /\ target_amp_factor \in U64
    /\ start_ramp_ts \in 0..I64_MAX
    /\ stop_ramp_ts \in 0..I64_MAX
    /\ admin_key \in Keys
    /\ future_admin_key \in Keys
    /\ future_admin_deadline \in 0..I64_MAX
    /\ fees \in FeeChoices
    /\ admin_fees \in [Mints -> TokenAccounts]

\* From Initialize on, the amplification coefficient can always be computed
\* and stays within MIN_AMP..MAX_AMP, at every second to come and not just
\* now: no interleaving of ramps and stops leads compute_amp_factor
\* (curve.rs:142) to None or out of the range that curve.rs:23-26 gives it.
AmpAlwaysInBounds ==
    is_initialized => \A t \in now..MaxNow : AmpAt(t) \in MIN_AMP..MAX_AMP

\* No admin instruction moves the price curve under the traders: the
\* coefficient in effect the moment after RampA or StopRampA (admin.rs:78,
\* admin.rs:142) is the one in effect the moment before.
AmpContinuous ==
    [][is_initialized /\ now' = now => amp_factor' = amp_factor]_adminVars

\* The passing of time moves the coefficient only while a ramp is running, and
\* then only towards its target; after StopRampA it rests (admin.rs:159 "now
\* (current_ts < stop_ramp_ts) is always False").
Between(x, p, q) == (p <= x /\ x <= q) \/ (q <= x /\ x <= p)

AmpHeadsForTarget ==
    [][is_initialized /\ now' # now =>
            /\ Between(amp_factor', amp_factor, target_amp_factor)
            /\ now >= stop_ramp_ts => amp_factor' = amp_factor]_adminVars

\* The key a pending transfer names cannot be replaced while the transfer can
\* still be applied: until the deadline it is either kept or becomes the
\* admin (admin.rs:213, admin.rs:231).
PendingTransferIsFirm ==
    [][future_admin_deadline # ZERO_TS /\ now < future_admin_deadline =>
            \/ UNCHANGED transferVars
            \/ /\ admin_key' = future_admin_key
               /\ future_admin_deadline' = ZERO_TS]_adminVars

\* Without a deadline no key is named, and a deadline is at most
\* ADMIN_TRANSFER_DELAY away: a transfer that was applied or never started
\* leaves nothing behind that could be applied later (admin.rs:213-253).
TransferWellFormed ==
    /\ future_admin_deadline = ZERO_TS => future_admin_key = DefaultKey
    /\ future_admin_deadline <= now + ADMIN_TRANSFER_DELAY

=============================================================================
