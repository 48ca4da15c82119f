\* A trader without LP tokens in a pool without fees, as in fuzz/targets/swaps_only.rs.
CONSTANTS
    U64_MAX = 255
    U128_MAX = 65535
    U192_MAX = 16777215
    MAX = 16
    MAX_BIG = 64
    MAX_SMALL = 4
    MIN_AMP = 1
    MAX_AMP = 20
    MIN_RAMP_DURATION = 2
    NEWTON_STEPS = 256
    ADMIN_TRANSFER_DELAY = 3
    I64_MAX = 10
    MaxNow = 0
    DefaultKey = DefaultKey
    Keys = {DefaultKey, collector}
    NewAdmins = {}
    TokenA = TokenA
    TokenB = TokenB
    lpMint = lpMint
    PoolMint = lpMint
    Authority = PoolKey
    PoolKey = PoolKey
    u1 = u1
    founder = founder
    collector = collector
    resA = resA
    resB = resB
    feeA = feeA
    feeB = feeB
    myA = myA
    myB = myB
    myLP = myLP
    founderLP = founderLP
    TokenAccounts <- MCTokenAccounts
    mint <- MCMint
    owner <- MCOwner
    reserves <- MCReserves
    Users = {u1}
    Destinations = {myA, myB, founderLP}
    Amounts = {1, 8, 10}
    Minimums = {0}
    Donations = {}
    Closable = {}
    InitialAmounts <- TraderAmounts
    TargetAmps = {1}
    StopTimes = {}
    FeeAccounts = {feeA, feeB}
    FeeChoices <- FreeOfFees
SPECIFICATION Spec
INVARIANT SwapsNeverProfit
CHECK_DEADLOCK FALSE
