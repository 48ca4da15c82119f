\* Ramps: one admin, no transfer, one fee schedule.
CONSTANTS
    U64_MAX = 1023
    U128_MAX = 1048575
    U192_MAX = 1073741823
    MIN_AMP = 1
    MAX_AMP = 60
    MIN_RAMP_DURATION = 2
    ADMIN_TRANSFER_DELAY = 6
    I64_MAX = 11
    MaxNow = 9
    DefaultKey = DefaultKey
    k1 = k1
    k2 = k2
    Keys = {DefaultKey, k1}
    NewAdmins = {}
    TokenA = TokenA
    TokenB = TokenB
    otherMint = otherMint
    feeA = feeA
    feeB = feeB
    otherA = otherA
    otherX = otherX
    TokenAccounts = {feeA, feeB}
    mint <- MCMint
    TargetAmps = {0, 1, 10, 50, 61}
    StopTimes = {4, 5, 8, 11}
    FeeAccounts = {feeA, feeB}
    FeeChoices = {f1}
SPECIFICATION FairSpec
INVARIANTS
    AmpAlwaysInBounds
    AmpDriftBounded
PROPERTIES
    AmpContinuous
    AmpHeadsForTarget
    RampReachesTarget
CHECK_DEADLOCK FALSE
