\* A console in front of a store no sync run has written to yet.
CONSTANTS
    Datasets = {1, 2}
    Keys = {1, 2, 3}
    Seeded = {}
    DefaultLimit = 2
    MaxLimit = 3
    MaxWrites = 1
    Limits = {1}
    MaxBodyRows = 2
    MaxFailures = 0
    Calls = {1, 2}
    MaxFailedCalls = 0
SPECIFICATION Spec
INVARIANT ConsoleStaysUp
CHECK_DEADLOCK FALSE
