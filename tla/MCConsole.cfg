SPECIFICATION ScrnSpec
CONSTANTS
    W = 4
    H = 2
    TabStop = 2
    Byte = 4
    Blank = " "
    Printable <- MCPrintable
    MainText <- MCText
    Echoes <- MCEchoes
    MaxPrinted = 4
    MaxEchoes = 2
    Names <- MCNames
    Digits = {1, 3}
    Margins = {70}
    Leaves = {2, 60, 77}
    MaxDisturbed = 2
CHECK_DEADLOCK FALSE
INVARIANT TypeOK
INVARIANT CursorOnScreen
INVARIANT ShownIsPrinted
INVARIANT HardwareCursorFollows
INVARIANT PaddingLinesUp
