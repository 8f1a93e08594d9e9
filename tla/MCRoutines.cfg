SPECIFICATION Spec
CONSTANTS
    Word = 4
    SizeT = 1024
    Char <- MCChar
    U32 = 4096
    Bits = 12
    LongBits = 12
    MantissaBits = 14
    TssSize = 104
    Memory <- MCMemory
    MemorySize = 10
    Numbers <- MCNumbers
    LongNumbers <- MCLongNumbers
    Reals <- MCReals
    Sizes <- MCSizes
    Grid <- MCGrid
    TssAddresses <- MCTss
    Masks <- MCMasks
CHECK_DEADLOCK FALSE
INVARIANT MemoryAsPromised
INVARIANT NumbersReadBack
INVARIANT ModeAsAsked
INVARIANT LinesReach
INVARIANT TablesAsMeant
