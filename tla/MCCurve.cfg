\* Small pools need no more than 8 bits a number: u128 is 16 bits, U192 24.
CONSTANTS
    U64_MAX = 255
    U128_MAX = 65535
    U192_MAX = 16777215
    MAX = 16
    MAX_BIG = 64
    MAX_SMALL = 4
    MIN_AMP = 1
    MAX_AMP = 20
    MIN_RAMP_DURATION = 2
    NEWTON_STEPS = 256
    Amps = {1, 3, 20}
    MaxReserve = 20
    MODEL_FEE_NUMERATOR = 4
    MODEL_FEE_DENOMINATOR = 16
SPECIFICATION Spec
INVARIANTS
    DNeverBelowRoot
    DWithinOne
    YWithinOne
    SwapNeverOverpays
    PriceRoundTripCreatesNothing
    AgreesWithSimulation
    ConversionsCreateNothing
