\* The readers of the report store; dataset 1 holds rows from the start.
CONSTANTS
    Datasets = {1, 2}
    Keys = {1, 2, 3, 4}
    Seeded = {1}
    DefaultLimit = 2
    MaxLimit = 3
    MaxWrites = 1
    Limits = {0, 1, 3, 4}
    MaxBodyRows = 2
    MaxFailures = 1
    Calls = {1, 2}
    MaxFailedCalls = 1
SPECIFICATION Spec
INVARIANTS
    ReadersTypeOK
    ListingIsExact
    ScreenIsConsistent
PROPERTIES
    ListingEnds
    ConsoleCatchesUp
CHECK_DEADLOCK FALSE
