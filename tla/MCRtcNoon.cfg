SPECIFICATION Spec
CONSTANTS
    Timelines <- MCTimelines
    Modes <- AllModes
PROPERTY RightTimeAlways
