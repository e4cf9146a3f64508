SPECIFICATION Spec
CONSTANTS
    Keys = {k1, k2}
    Values = {v1, v2}
    Callers = {h1}
    Sweeper = sweeper
    Handles <- MCHandles
    Absent = Absent
    Zero = Zero
    MaxClock = 3
SYMMETRY MCSymmetry
INVARIANT TypeOK
PROPERTIES NoLostUpdate ConflictIsReal ImplementsVersionedStore
