---------------------------- MODULE RunLifecycle ----------------------------
(***************************************************************************)
(* What the table sync_runs promises its readers (the console, the SDK, the*)
(* scheduler): a run is queued once, for one job, while no other run of    *)
(* that job is active; it starts at most once; it ends at most once; and an*)
(* ended run is never touched again.  SyncEngine is shown to implement it. *)
(***************************************************************************)

CONSTANTS
    RunIds,     \* identifiers a sync_runs row may get
    Jobs,       \* (provider, capability) pairs
    Nil         \* the job of a row that does not exist

VARIABLES
    status,     \* status[r]: "NONE" until the row is inserted
    job         \* job[r]: the pair the run synchronises

vars == <<status, job>>

Active == {"QUEUED", "RUNNING"}
Terminal == {"SUCCEEDED", "PARTIAL", "FAILED"}

Init ==
    /\ status = [r \in RunIds |-> "NONE"]
    /\ job = [r \in RunIds |-> Nil]

\* A run of j is queued while no run of j is active.
Enqueue(r, j) ==
    /\ status[r] = "NONE"
    /\ \A q \in RunIds : job[q] = j => status[q] \notin Active
    /\ status' = [status EXCEPT ![r] = "QUEUED"]
    /\ job' = [job EXCEPT ![r] = j]

Start(r) ==
    /\ status[r] = "QUEUED"
    /\ status' = [status EXCEPT ![r] = "RUNNING"]
    /\ UNCHANGED job

Finish(r, s) ==
    /\ status[r] = "RUNNING"
    /\ status' = [status EXCEPT ![r] = s]
    /\ UNCHANGED job

\* Runs whose worker is gone are failed together.
Expire(S) ==
    /\ \A r \in S : status[r] = "RUNNING"
    /\ status' = [r \in RunIds |-> IF r \in S THEN "FAILED" ELSE status[r]]
    /\ UNCHANGED job

Next ==
    \/ \E r \in RunIds, j \in Jobs : Enqueue(r, j)
    \/ \E r \in RunIds : Start(r)
    \/ \E r \in RunIds, s \in Terminal : Finish(r, s)
    \/ \E S \in SUBSET RunIds : Expire(S)

Spec == Init /\ [][Next]_vars

=============================================================================
