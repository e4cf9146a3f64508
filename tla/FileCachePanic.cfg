SPECIFICATION Spec
CONSTANTS
    b = b
    d = d
    big = big
    Contents <- MCContents
    Size <- MCSize
    DirOf <- MCDirOf
    Ingests = {i1}
    Readers = {r1}
    Kept = {b, d}
    QuotaLow = 2
    QuotaHigh = 4
    NoContent = NoContent
    MaxTime = 1
INVARIANT PruneNeverPanics
