\* Fee schedules that no arithmetic accepts, and a donation that takes a reserve
\* over half of the largest u64.
CONSTANTS
    U64_MAX = 15
    U128_MAX = 255
    U192_MAX = 4095
    MAX = 4
    MAX_BIG = 8
    MAX_SMALL = 2
    MIN_AMP = 1
    MAX_AMP = 7
    MIN_RAMP_DURATION = 2
    NEWTON_STEPS = 256
    ADMIN_TRANSFER_DELAY = 3
    I64_MAX = 10
    MaxNow = 0
    DefaultKey = DefaultKey
    Keys = {DefaultKey, collector}
    NewAdmins = {}
    TokenA = TokenA
    TokenB = TokenB
    lpMint = lpMint
    PoolMint = lpMint
    Authority = PoolKey
    PoolKey = PoolKey
    u1 = u1
    founder = founder
    collector = collector
    resA = resA
    resB = resB
    feeA = feeA
    feeB = feeB
    myA = myA
    myB = myB
    myLP = myLP
    founderLP = founderLP
    TokenAccounts <- MCTokenAccounts
    mint <- MCMint
    owner <- MCOwner
    reserves <- MCReserves
    Users = {u1}
    Destinations = {myA, myB, myLP, resA, feeB}
    Amounts = {3}
    Minimums = {0}
    Donations = {4}
    Closable = {}
    InitialAmounts <- LimitAmounts
    TargetAmps = {2}
    StopTimes = {}
    FeeAccounts = {feeA, feeB}
    FeeChoices <- FeesAtTheLimits
SPECIFICATION Spec
INVARIANT ExitAlwaysPossible
PROPERTIES
    ShareValueKept
    OverflowKeepsBothReserves
    UndefinedFeesRefuse
CHECK_DEADLOCK FALSE
