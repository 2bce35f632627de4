\* All deployments; two processes, two calls of admin bootstrap.
CONSTANTS
    Deployments = {"generated", "provided", "embedded"}
    Procs = {1, 2}
    Cmds = {1, 2}
    Migrations = 3
    Providers = {1, 2}
    MaxFaults = 3
SPECIFICATION Spec
INVARIANTS
    TypeOK
    StoreIsReady
    CredentialsStayReadable
    ShownTokenWorks
    NoLockout
PROPERTY StartCompletes
CHECK_DEADLOCK FALSE
