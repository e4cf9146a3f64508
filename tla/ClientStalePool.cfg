SPECIFICATION Spec
CONSTANTS
    Second = 1
    Half = 2
    None = None
    Bad = Bad
    Requests = {q1, q2}
    Keys = {k1, k2}
    Variants = {a, b}
    Styles <- MCVarying
    Entries = {e1, e2}
    GetMayFail = TRUE
    Conditional = TRUE
    Before <- MCNothing
    Hops = 0
    MaxGen = 0
    MaxClock = 2
    MaxEpoch = 0
SYMMETRY MCSymmetry
INVARIANT OwnKeyOnly
