SPECIFICATION Spec
CONSTANTS
    U32 = 6
    Hz = 1
    Second = 2
    Words = 2
    Polls = 2
    Drives <- SlowDrive
    MAX_BLOCKS = 16
    Entries = 8
    MAX_PROCESSES = 4
    StackWords = 16
    Armed = {TRUE, FALSE}
    Delays <- MCDelays
    BootSizes <- MCBootSizes
    Sizes <- MCSizes
    UsedPages <- MCUsedPages
INVARIANT DiskRoundTrip
