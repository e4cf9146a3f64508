SPECIFICATION Spec
CONSTANTS
    Second = 2
    Half = 16
    None = None
    Bad = Bad
    Responses <- MCResponses
    MaxDelay = 1
    MaxNow = 6
INVARIANTS FreshAsLongAsRFC NeverYoungerThanReported StoredIsAllowed
PROPERTY StaleStaysStale
