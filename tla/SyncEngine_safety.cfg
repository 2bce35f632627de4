SPECIFICATION Spec
CONSTANTS
    r1 = r1 r2 = r2 h1 = h1 h2 = h2 sched = sched client = client
    jobA = jobA gsc = gsc key1 = key1 Nil = Nil
    RunIds = {r1, r2}
    Providers = {gsc}
    Jobs = {jobA}
    ProviderOf <- OneProvider
    Keys = {key1}
    Replicas = {h1, h2}
    Threads = {sched, client}
    Schedulers = {sched}
    HostOf <- TwoHosts
    Configs = {"ready"}
    Outcomes = {"", "TRANSIENT"}
    Timeout = 1
    Grace = 0
    Lease = 1
    MaxCursor = 0
    Horizon = 2
    MaxTime = 2
VIEW WithoutLastError
SYMMETRY RunSymmetry
CHECK_DEADLOCK FALSE
INVARIANTS TypeOK OneWorkerPerJob LiveWorkerOwnsRun
PROPERTIES IdempotentReply ImplementsLifecycle
