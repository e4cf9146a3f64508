SPECIFICATION FairSpec
CONSTANTS
    Keys = {k1}
    Slots = {s1, s2}
    Hashes = {h1, h2}
    Writers = {w1}
    Admins = {a1}
    s1 = s1
    s2 = s2
    h1 = h1
    h2 = h2
    Before <- MCBefore
    NoKey = NoKey
    MaxClock = 2
INVARIANTS TypeOK SweepLeavesNoDangling
PROPERTIES SweepDropsOnlyMissing CloseReturns SweepEnds
