------------------------------ MODULE MCAdmin ------------------------------
(***************************************************************************)
(* Admin with history variables: the coefficients of the last seconds, who *)
(* committed the pending transfer, and who signed the last instruction.    *)
(***************************************************************************)
EXTENDS Admin, Sequences, FiniteSets, TLC

CONSTANTS k1, k2, feeA, feeB, otherA, otherMint, otherX

MCTokenAccounts == {feeA, feeB, otherA, otherX}
MCMint == feeA :> TokenA @@ feeB :> TokenB @@ otherA :> TokenA @@ otherX :> otherMint

VARIABLES
    recent_amps,    \* amp_factor at the last MIN_RAMP_DURATION + 1 seconds
    committed,      \* [by, at] of the last CommitNewAdmin
    signed_by       \* whose signature check_has_admin_signer last asked for

historyVars == <<recent_amps, committed, signed_by>>
vars        == <<adminVars, historyVars>>

NoCommit == [by |-> DefaultKey, at |-> ZERO_TS]

MCInit ==
    /\ AdminInit
    /\ recent_amps = << >>
    /\ committed = NoCommit
    /\ signed_by = DefaultKey

\* The coefficient is recorded for every second, once the pool is initialized.
RecordAmp ==
    recent_amps' =
        IF ~is_initialized' THEN << >>
        ELSE IF now' = now /\ recent_amps # << >> THEN recent_amps
        ELSE LET all == Append(recent_amps, amp_factor')
                 len == Len(all)
             IN  IF len <= MIN_RAMP_DURATION + 1 THEN all ELSE Tail(all)

RecordCommit ==
    committed' =
        IF future_admin_deadline' # future_admin_deadline /\ future_admin_deadline' # ZERO_TS
        THEN [by |-> admin_key, at |-> now]
        ELSE IF future_admin_deadline' = ZERO_TS THEN NoCommit ELSE committed

\* check_has_admin_signer compares with the admin before the instruction.
RecordSigner ==
    signed_by' = IF is_initialized /\ now' = now THEN admin_key ELSE DefaultKey

Record == RecordAmp /\ RecordCommit /\ RecordSigner

MCNext == AdminNext /\ Record

MCSpec == MCInit /\ [][MCNext]_vars

\* The clock goes on: validators keep producing slots.  Nothing obliges the
\* admin to send an instruction.
FairSpec == MCSpec /\ WF_vars(Tick /\ Record)

---------------------------------------------------------------------------
\* Within any MIN_RAMP_DURATION the coefficient changes by at most a factor of
\* MAX_A_CHANGE, up to the rounding of one unit: the ramp lock, the minimal
\* length of a ramp and the factor that RampA allows (admin.rs:78-139)
\* together bound its speed, also across a ramp that is stopped halfway and
\* started again.
AmpDriftBounded ==
    \A i, j \in 1..Len(recent_amps) :
        recent_amps[i] <= MAX_A_CHANGE * (recent_amps[j] + 1)

\* A key becomes the admin only if the admin it replaces has named it itself,
\* at most ADMIN_TRANSFER_DELAY earlier.  No commitment of an earlier admin
\* survives a change of hands (admin.rs:213-253).
HandoverByTheAdminItself ==
    [][is_initialized /\ admin_key' # admin_key =>
            /\ committed.by = admin_key
            /\ admin_key' = future_admin_key
            /\ now - committed.at <= ADMIN_TRANSFER_DELAY]_vars

\* instruction.rs:130: "Commits a new admin. The admin must accept ownership
\* within 3 days."  Nobody becomes the admin without an instruction that he
\* signed himself.
NewAdminAccepts ==
    [][is_initialized /\ admin_key' # admin_key => signed_by' = admin_key']_vars

\* A ramp ends at its target: unless another instruction replaces the ramp,
\* the pool eventually trades at the target and not just near it.
RampReachesTarget ==
    \A amp \in TargetAmps, stop \in 0..MaxNow :
        LET Ramping == /\ is_initialized
                       /\ target_amp_factor = amp
                       /\ stop_ramp_ts = stop
        IN  Ramping ~> amp_factor = amp \/ ~Ramping

=============================================================================
