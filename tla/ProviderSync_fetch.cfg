SPECIFICATION FairSpec
CONSTANTS
    PageSize = 2
    DetailCap = 4
    Attempts = 3
    MaxRows = 5
    MaxAnswer = 3
    OddRows = {3}
    MaxOdd = 1
INVARIANTS TypeOK ResultIsHonest TotalsBeforeDetails
PROPERTIES NoCallAfterDenial SyncTerminates
