\* Transfers of the admin key, fees and fee accounts: no ramps.
CONSTANTS
    U64_MAX = 1023
    U128_MAX = 1048575
    U192_MAX = 1073741823
    MIN_AMP = 1
    MAX_AMP = 60
    MIN_RAMP_DURATION = 2
    ADMIN_TRANSFER_DELAY = 3
    I64_MAX = 10
    MaxNow = 8
    DefaultKey = DefaultKey
    k1 = k1
    k2 = k2
    Keys = {DefaultKey, k1, k2}
    NewAdmins = {DefaultKey, k1, k2}
    TokenA = TokenA
    TokenB = TokenB
    otherMint = otherMint
    feeA = feeA
    feeB = feeB
    otherA = otherA
    otherX = otherX
    TokenAccounts = {feeA, feeB, otherA, otherX}
    mint <- MCMint
    TargetAmps = {1}
    StopTimes = {}
    FeeAccounts = {feeA, feeB, otherA, otherX}
    FeeChoices = {f1}
SPECIFICATION MCSpec
PROPERTY NewAdminAccepts
CHECK_DEADLOCK FALSE
