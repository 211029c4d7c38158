CONSTANTS
    Plans <- MCPlans
    Written <- MCWritten
    Crc32 <- MCCrc32
    LongBits = 16
    IntBytes = 1
    MAX_DEPTH = 10
    FloatExponent = 3
    DoubleExponent = 5
SPECIFICATION Spec
INVARIANTS
    ReadsWhatWasWritten
    RecordsComeBack
    SpansHoldTheirValues
    DamageIsNoticed
    TokensAccountForEveryByte
    RegionsTile
    NamesMatchTheReader
    IndexesDescribePages
    SkippingIsSafe
