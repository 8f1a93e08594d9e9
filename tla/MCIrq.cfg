SPECIFICATION Spec
CONSTANTS
    Drivers <- MCDrivers
    Lines <- MCLines
    MaxRaised = 3
INVARIANT TypeOK
INVARIANT NoNesting
INVARIANT NothingLeftInService
INVARIANT CountsExact
INVARIANT RoutineInPlace
PROPERTY RequestsAreTaken
