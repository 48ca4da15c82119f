\* The whole program on a small pool, with honest instructions and slips.
CONSTANTS
    U64_MAX = 255
    U128_MAX = 65535
    U192_MAX = 16777215
    MAX = 16
    MAX_BIG = 64
    MAX_SMALL = 4
    BYTE = 16
    WORD = 2
    MIN_AMP = 1
    MAX_AMP = 20
    MIN_RAMP_DURATION = 1
    NEWTON_STEPS = 256
    ADMIN_TRANSFER_DELAY = 3
    I64_MAX = 127
    MaxNow = 1
    TokenA = TokenA
    TokenB = TokenB
    OtherMints = {oddMint}
    SwapKey = SwapKey
    PoolNonce = 7
    TokenProgram = TokenProgram
    DefaultKey = DefaultKey
    Authority = PoolKey
    PoolMint = lpMint
    PoolKey = PoolKey
    u1 = u1
    u2 = u2
    collector = collector
    lpMint = lpMint
    oddMint = oddMint
    resA = resA
    resB = resB
    feeA = feeA
    feeB = feeB
    myA = myA
    myB = myB
    myLP = myLP
    yourB = yourB
    founderLP = founderLP
    oddA = oddA
    AnchorProgram = AnchorProgram
    MaxSteps = 4
    TokenAccounts <- MCTokenAccounts
    mint <- MCMint
    owner <- MCOwner
    mint_authority <- MCMintAuthority
    decimals <- MCDecimals
    Delegated = {oddA}
    WithCloseAuthority = {oddA}
    Freezable = {oddMint}
    InitialAmounts <- SmallAmounts
    stable_swap <- MCStableSwap
    token_a_accounts = {myA}
    token_b_accounts = {myB, yourB}
    pool_accounts = {myLP}
    FuzzAmounts = {0, 2}
    FuzzMinimums = {0, 2}
    FuzzAmps = {0, 4}
    FuzzTimes = {1, 2}
    Requests <- MCRequests
SPECIFICATION MCSpec
INVARIANTS
    DeployedTypeOK
    StaysWired
    InstructionsDecodeAsSent
    SlipsRefused
    AnchorCallsAgree
    HarnessSeesTheRuntime
    
PROPERTY
    ProgramRefinesPool
CHECK_DEADLOCK FALSE
