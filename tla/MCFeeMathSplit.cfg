\* u64 scaled to 4 bits: u128 is 8 bits, U192 12, the splits 2^2, 2^3 and 2^1.
CONSTANTS
    U64_MAX = 15
    U128_MAX = 255
    U192_MAX = 4095
    MAX = 4
    MAX_BIG = 8
    MAX_SMALL = 2
SPECIFICATION Spec
INVARIANT MulDivIsExact
