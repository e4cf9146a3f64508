SPECIFICATION Spec
CONSTANTS
    Second = 2
    Half = 16
    None = None
    Bad = Bad
    Responses <- MCZeroMaxAge
    MaxDelay = 1
    MaxNow = 6
INVARIANT ZeroMaxAgeNeverFresh
