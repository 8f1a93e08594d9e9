SPECIFICATION Spec
CONSTANTS
    Controllers <- MCControllers
    Noise <- MCNoise
    KeyByte = 30
    MaxKeys = 1
    MaxLate = 1
    MaxX = 6
    MaxY = 4
    RingSize = 2
    Movements <- MCMovements
    ScreenW = 4
    ScreenH = 2
    Side = 2
    MaxReports = 2
    MaxLost = 1
INVARIANT WheelEnabled
