SPECIFICATION FairSpec
CONSTANTS
    u1 = u1 u2 = u2 u3 = u3
    Urls = {u1, u2, u3}
    Sitemaps <- SomeSitemaps
    Batch = 2
    LookbackDays = 1
    MaxRangeDays = 1
    MaxEdits = 2
    MaxFaults = 3
INVARIANTS TypeOK ResumePointIsCovered PassIsComplete
PROPERTIES PassesComplete
