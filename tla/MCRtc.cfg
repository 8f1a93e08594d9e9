SPECIFICATION Spec
CONSTANTS
    Timelines <- MCTimelines
    Modes <- AllModes
INVARIANT TypeOK
INVARIANT Consistent
PROPERTY RightTime
PROPERTY ReadReturns
