SPECIFICATION FairSpec
CONSTANTS
    r1 = r1 r2 = r2 h1 = h1 h2 = h2 sched = sched client = client
    jobA = jobA gsc = gsc key1 = key1 Nil = Nil
    RunIds = {r1, r2}
    Providers = {gsc}
    Jobs = {jobA}
    ProviderOf <- OneProvider
    Keys = {}
    Replicas = {h1}
    Threads = {sched}
    Schedulers = {sched}
    HostOf <- OneHost
    Configs = {"none", "ready"}
    Outcomes = {"", "PARTIAL"}
    Timeout = 1
    Grace = 0
    Lease = 1
    MaxCursor = 1
    Horizon = 1
    MaxTime = 4
CHECK_DEADLOCK FALSE
PROPERTIES StartedRunEnds ResumesFromPartial
