SPECIFICATION FairSpec
CONSTANTS
    Second = 1
    Half = 2
    None = None
    Bad = Bad
    Requests = {q1}
    Keys = {k1}
    Variants = {a, b}
    Styles <- MCStyles
    Entries = {e1}
    GetMayFail = TRUE
    Conditional = TRUE
    Before <- MCBefore
    Hops = 1
    MaxGen = 1
    MaxClock = 2
    MaxEpoch = 1
INVARIANT NotModifiedOnlyIfClientCurrent
PROPERTY EveryRequestAnswered
