SPECIFICATION FairSpec
CONSTANTS
    Servers = {p1, p2, adm}
    Admin = adm
    Configs <- MCConfigs
    Absent = Absent
    Empty = Empty
    Faults = TRUE
    MaxRequests = 1
INVARIANTS TypeOK NoRequestOnClosedCache OrderlyEndKeepsCounts
PROPERTY ShutdownEnds
