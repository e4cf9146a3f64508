SPECIFICATION Spec
CONSTANTS
    Servers = {p1, p2, adm}
    Admin = adm
    Configs <- MCConfigs
    Absent = Absent
    Empty = Empty
    Faults = FALSE
    MaxRequests = 1
INVARIANT StatisticsLoad
