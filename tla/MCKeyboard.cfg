SPECIFICATION Spec
CONSTANTS
    U8 = 4
    Scan <- MCScan
    Space = 2
    F2 = 3
    MaxKeys = 6
    Layouts <- BothLayouts
INVARIANT TypeOK
INVARIANT KeysInOrder
PROPERTY EmptyMeansAllDelivered
PROPERTY KgetchReturns
PROPERTY ImplementsQueue
