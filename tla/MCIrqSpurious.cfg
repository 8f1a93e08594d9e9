SPECIFICATION Spec
CONSTANTS
    Drivers <- MCDrivers
    Lines <- MCLines
    MaxRaised = 3
PROPERTY NoEoiForSpurious
