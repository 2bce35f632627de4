----------------------------- MODULE SyncEngine -----------------------------
(***************************************************************************)
(* The sync engine (internal/sync/engine.go) over the sync_runs table      *)
(* (internal/store/store.go): Create, called by request handlers and by the*)
(* scheduler's tick; execute, one goroutine per inserted run; finish; and  *)
(* the lease that recovers runs whose process died.                        *)
(*                                                                         *)
(* Every SQL statement is one step (the pool has one connection and every  *)
(* statement autocommits); any statement may fail (locked database,        *)
(* cancelled context), and any replica may crash between two statements.   *)
(* Time is a discrete clock.  A context deadline is a bound the clock does *)
(* not cross: every wait below execute and finish is bound to its context. *)
(***************************************************************************)
EXTENDS Integers, FiniteSets

CONSTANTS
    RunIds,         \* ids a new run may get (bounds the number of runs)
    Providers, Jobs, ProviderOf,    \* a job is a (provider, capability) pair
    Keys,           \* idempotency keys clients send
    Replicas, Threads, Schedulers, HostOf,  \* goroutines that call Create
    Configs,        \* the connection states administrators produce
    Outcomes,       \* the error codes a provider's Sync returns, "" for none
    Timeout,        \* Config.Timeout
    Lease,          \* Config.Lease
    Grace,          \* the 30 seconds finish gives itself
    MaxCursor,      \* checkpoints a provider may reach (bound)
    Horizon,        \* last instant a run is inserted or begun (bound)
    MaxTime,        \* last instant of the clock (bound)
    Nil

ASSUME TopologyAssumption ==
    /\ Schedulers \subseteq Threads
    /\ HostOf \in [Threads -> Replicas]
    /\ ProviderOf \in [Jobs -> Providers]

ASSUME InputsAssumption ==
    /\ Configs \subseteq {"none", "unbound", "ready", "dead"}
    /\ Outcomes \subseteq {"", "PARTIAL", "TRANSIENT", "UNAUTHORIZED"}

ASSUME TimesAssumption ==
    /\ Timeout \in Nat /\ Lease \in Nat /\ Grace \in Nat
    /\ MaxCursor \in Nat /\ Horizon \in Nat /\ MaxTime \in Nat

ASSUME NilAssumption ==
    /\ Nil \notin Jobs \cup Keys \cup RunIds \cup Replicas
    /\ Keys \cap RunIds = {}

VARIABLES
    now,        \* the wall clock, in seconds (timeLayout drops fractions)
    run,        \* the table sync_runs
    worker,     \* worker[r]: the execute goroutine of run r
    thread,     \* the goroutines inside Create, and the schedulers
    conn        \* the provider_connections rows the engine reads and writes

vars == <<now, run, worker, thread, conn>>

-----------------------------------------------------------------------------
Active == {"QUEUED", "RUNNING"}
Terminal == {"SUCCEEDED", "PARTIAL", "FAILED"}

\* Outcomes of a provider's Sync, grouped by how the engine treats them:
\* RATE_LIMITED, NO_DATA and INTERNAL are handled exactly as TRANSIENT.
FailureCodes == {"TRANSIENT", "UNAUTHORIZED", "NOT_CONFIGURED"}
Codes == FailureCodes \cup {"", "PARTIAL"}

\* "none": no credential.  "unbound": a credential, no property, disabled.
\* "ready": enabled.  "dead": enabled, but the secret can no longer be opened.
ConfigStates == {"none", "unbound", "ready", "dead"}

Cursors == 0 .. MaxCursor       \* 0 is the empty cursor

NoRun == [status |-> "NONE", job |-> Nil, key |-> Nil, cursor |-> 0,
          startedAt |-> 0, by |-> Nil]
NoWorker == [pc |-> "none", host |-> Nil, limit |-> 0, pos |-> 0, code |-> "",
             cursor |-> 0]
Idle == [pc |-> "idle", job |-> Nil, key |-> Nil, cursor |-> 0, held |-> FALSE,
         blind |-> FALSE, todo |-> {}]

Init ==
    /\ now = 0
    /\ run = [r \in RunIds |-> NoRun]
    /\ worker = [r \in RunIds |-> NoWorker]
    /\ thread = [t \in Threads |-> Idle]
    /\ conn \in [Providers -> [config : Configs, lastError : {""}]]

Rows == {r \in RunIds : run[r].status # "NONE"}
RowsOf(j) == {r \in Rows : run[r].job = j}
ActiveOf(j) == {r \in RowsOf(j) : run[r].status \in Active}
Holders(k) == {r \in Rows : run[r].key = k}

-----------------------------------------------------------------------------
(* Create, as the steps of the goroutine that calls it.                    *)

\* Create returns: a request handler is done, the scheduler goes on with the
\* jobs of its tick that are left.
Return(t) ==
    thread' = [thread EXCEPT ![t] =
        [Idle EXCEPT !.pc = IF thread[t].todo = {} THEN "idle" ELSE "sched",
                     !.todo = thread[t].todo]]

\* POST /sync-runs: a handler enters Create with a client's key, or none.  Two
\* fields of the goroutine are history: held (a run held the key when the call
\* came in) and blind (the lookup of that run failed).
Request(t, j, k) ==
    /\ t \notin Schedulers
    /\ thread[t].pc = "idle"
    /\ now <= Horizon
    /\ thread' = [thread EXCEPT ![t] =
                    [Idle EXCEPT !.pc = "conn", !.job = j, !.key = k,
                                 !.held = Holders(k) # {}]]
    /\ UNCHANGED <<now, run, worker, conn>>

\* Only an enabled connection with a credential is scheduled.
CheckConnection(t) ==
    /\ thread[t].pc = "conn"
    /\ conn[ProviderOf[thread[t].job]].config \in {"ready", "dead"}
    /\ thread' = [thread EXCEPT ![t].pc = "cursor"]
    /\ UNCHANGED <<now, run, worker, conn>>

\* Also the outcome when the connection cannot be read.
NotConfigured(t) ==
    /\ thread[t].pc = "conn"
    /\ Return(t)
    /\ UNCHANGED <<now, run, worker, conn>>

\* The newest runs of a job.  started_at has second granularity and the query
\* says LIMIT 1: among equals SQLite may return any.
Latest(j) ==
    {r \in RowsOf(j) : \A q \in RowsOf(j) : run[q].startedAt <= run[r].startedAt}

\* Mutant: the status of the newest run is not looked at.
ResumeFromAnyRun(j) ==
    IF RowsOf(j) = {} THEN {0} ELSE {run[r].cursor : r \in Latest(j)}

ResumeCursors(j) ==
    IF RowsOf(j) = {} THEN {0}
    ELSE {IF run[r].status = "PARTIAL" THEN run[r].cursor ELSE 0 : r \in Latest(j)}

ReadCursor(t) ==
    /\ thread[t].pc = "cursor"
    /\ \E c \in ResumeCursors(thread[t].job) :
        thread' = [thread EXCEPT ![t].pc = "insert", ![t].cursor = c]
    /\ UNCHANGED <<now, run, worker, conn>>

\* Mutant: the single-flight index is missing.
ConflictOnKeyOnly(j, k) == Holders(k) # {}

\* The two unique indexes of sync_runs: one run per idempotency key, one
\* active run per job.
Conflict(j, k) == Holders(k) # {} \/ ActiveOf(j) # {}

\* The row is inserted and its goroutine launched.  Without a client key a
\* fresh uuid is used; the run's own id stands for it.
InsertRun(t) ==
    /\ thread[t].pc = "insert"
    /\ ~Conflict(thread[t].job, thread[t].key)
    /\ now <= Horizon
    /\ \E r \in RunIds \ Rows :
        /\ run' = [run EXCEPT ![r] =
                [status |-> "QUEUED", job |-> thread[t].job,
                 key |-> IF thread[t].key = Nil THEN r ELSE thread[t].key,
                 cursor |-> thread[t].cursor, startedAt |-> now,
                 by |-> IF t \in Schedulers THEN "scheduler" ELSE "request"]]
        /\ worker' = [worker EXCEPT ![r] =
                [NoWorker EXCEPT !.pc = "launched", !.host = HostOf[t]]]
    /\ Return(t)
    /\ UNCHANGED <<now, conn>>

\* Mutant: the active run is looked up without trying the key first.
InsertConflictsActiveFirst(t) ==
    /\ thread[t].pc = "insert"
    /\ Conflict(thread[t].job, thread[t].key)
    /\ thread' = [thread EXCEPT ![t].pc = "active"]
    /\ UNCHANGED <<now, run, worker, conn>>

InsertConflicts(t) ==
    /\ thread[t].pc = "insert"
    /\ Conflict(thread[t].job, thread[t].key)
    /\ thread' = [thread EXCEPT ![t].pc = "byKey"]
    /\ UNCHANGED <<now, run, worker, conn>>

\* findConflictingRun: first the run that holds the key ...
FindByKey(t, r) ==
    /\ thread[t].pc = "byKey"
    /\ r \in Holders(thread[t].key)
    /\ Return(t)
    /\ UNCHANGED <<now, run, worker, conn>>

FindByKeyMisses(t) ==
    /\ thread[t].pc = "byKey"
    /\ Holders(thread[t].key) = {}
    /\ thread' = [thread EXCEPT ![t].pc = "active"]
    /\ UNCHANGED <<now, run, worker, conn>>

\* ... then the active run of the job, which may have ended by now.
FindActive(t, r) ==
    /\ thread[t].pc = "active"
    /\ r \in ActiveOf(thread[t].job)
    /\ Return(t)
    /\ UNCHANGED <<now, run, worker, conn>>

FindActiveMisses(t) ==
    /\ thread[t].pc = "active"
    /\ ActiveOf(thread[t].job) = {}
    /\ Return(t)
    /\ UNCHANGED <<now, run, worker, conn>>

\* A statement of Create fails, or the range of the request is rejected.  A
\* failed key lookup alone is not reported: the active run is looked up.
CreateFails(t) ==
    /\ thread[t].pc \in {"cursor", "insert", "byKey", "active"}
    /\ \/ Return(t)
       \/ /\ thread[t].pc = "byKey"
          /\ thread' = [thread EXCEPT ![t].pc = "active", ![t].blind = TRUE]
    /\ UNCHANGED <<now, run, worker, conn>>

Create(t) ==
    \/ CheckConnection(t) \/ NotConfigured(t) \/ ReadCursor(t)
    \/ InsertRun(t) \/ InsertConflicts(t)
    \/ FindByKeyMisses(t) \/ FindActiveMisses(t) \/ CreateFails(t)
    \/ \E r \in RunIds : FindByKey(t, r) \/ FindActive(t, r)

-----------------------------------------------------------------------------
(* The scheduler: one tick requeues stale runs, then creates a run per job. *)

\* Mutants: the lease expires one second early; the WHERE clause forgets the
\* status; it names the wrong one.
StaleTooEarly(r) == run[r].status = "RUNNING" /\ run[r].startedAt <= now - Lease
StaleInAnyStatus(r) == run[r].startedAt < now - Lease
StaleIfQueued(r) == run[r].status = "QUEUED" /\ run[r].startedAt < now - Lease

Stale(r) == run[r].status = "RUNNING" /\ run[r].startedAt < now - Lease

RequeueStaleRuns ==
    run' = [r \in RunIds |->
              IF Stale(r) THEN [run[r] EXCEPT !.status = "FAILED"] ELSE run[r]]

BeginTick(t) ==
    /\ t \in Schedulers
    /\ thread[t].pc = "idle"
    /\ thread' = [thread EXCEPT ![t] = [Idle EXCEPT !.pc = "sched", !.todo = Jobs]]
    /\ UNCHANGED <<now, worker, conn>>

Tick(t) == BeginTick(t) /\ RequeueStaleRuns

\* The statement fails: the error is logged and the tick goes on.
TickWithoutRequeue(t) == BeginTick(t) /\ UNCHANGED run

ScheduleJob(t, j) ==
    /\ thread[t].pc = "sched"
    /\ j \in thread[t].todo
    /\ thread' = [thread EXCEPT ![t] =
                    [Idle EXCEPT !.pc = "conn", !.job = j,
                                 !.todo = thread[t].todo \ {j}]]
    /\ UNCHANGED <<now, run, worker, conn>>

-----------------------------------------------------------------------------
(* execute and finish, the worker goroutine of run r.                      *)

\* The context starts here; the goroutine reads its row.
Begin(r) ==
    /\ worker[r].pc = "launched"
    /\ worker' = [worker EXCEPT ![r].pc = "begun", ![r].limit = now + Timeout]
    /\ UNCHANGED <<now, run, thread, conn>>

MarkRunRunning(r) ==
    /\ worker[r].pc = "begun"
    /\ run' = [run EXCEPT ![r].status = "RUNNING", ![r].startedAt = now]
    /\ worker' = [worker EXCEPT ![r].pc = "conn"]
    /\ UNCHANGED <<now, thread, conn>>

\* GetSyncRun or MarkRunRunning fails: execute logs it and returns.
ExecuteAborts(r) ==
    /\ worker[r].pc \in {"launched", "begun"}
    /\ worker' = [worker EXCEPT ![r] = NoWorker]
    /\ UNCHANGED <<now, run, thread, conn>>

\* Every way into finish: its own context of Grace seconds starts.
ToFinish(r, code, cursor) ==
    worker' = [worker EXCEPT ![r].pc = "finish", ![r].limit = now + Grace,
                             ![r].code = code, ![r].cursor = cursor]

\* The connection is read again and the credential opened.  Enabled is not
\* checked again; an unreadable connection counts as not configured, and any
\* failure of the secret store as unauthorized.
OpenCredential(r) ==
    LET config == conn[ProviderOf[run[r].job]].config IN
    /\ worker[r].pc = "conn"
    /\ \/ ToFinish(r, "NOT_CONFIGURED", 0)
       \/ config # "none" /\ ToFinish(r, "UNAUTHORIZED", 0)
       \/ /\ config \in {"unbound", "ready"}
          /\ worker' = [worker EXCEPT ![r].pc = "sync", ![r].pos = run[r].cursor]
    /\ UNCHANGED <<now, run, thread, conn>>

\* The provider writes a batch and records how far it got.
Checkpoint(r) ==
    /\ worker[r].pc = "sync"
    /\ worker[r].pos < MaxCursor
    /\ worker' = [worker EXCEPT ![r].pos = @ + 1]
    /\ run' = [run EXCEPT ![r].cursor = worker[r].pos + 1]
    /\ UNCHANGED <<now, thread, conn>>

\* The provider returns: a success with no cursor, an error with none or with
\* the position reached.  A success after the deadline counts as a timeout.
SyncReturns(r) ==
    /\ worker[r].pc = "sync"
    /\ \E code \in Outcomes, c \in {0, worker[r].pos} :
        \/ (code = "" => c = 0) /\ ToFinish(r, code, c)
        \/ code = "" /\ now = worker[r].limit /\ ToFinish(r, "TRANSIENT", 0)
    /\ UNCHANGED <<now, run, thread, conn>>

\* Mutant: the error code is stored where the status belongs.
StatusIsCode(code) == IF code = "" THEN "SUCCEEDED" ELSE code

StatusOf(code) ==
    CASE code = "" -> "SUCCEEDED" [] code = "PARTIAL" -> "PARTIAL" [] OTHER -> "FAILED"

FinishRun(r) ==
    /\ worker[r].pc = "finish"
    /\ run' = [run EXCEPT ![r].status = StatusOf(worker[r].code),
                          ![r].cursor = worker[r].cursor]
    /\ worker' = [worker EXCEPT ![r].pc = "outcome"]
    /\ UNCHANGED <<now, thread, conn>>

FinishRunFails(r) ==
    /\ worker[r].pc = "finish"
    /\ worker' = [worker EXCEPT ![r].pc = "outcome"]
    /\ UNCHANGED <<now, run, thread, conn>>

UpdateConnectionOutcome(r) ==
    /\ worker[r].pc = "outcome"
    /\ conn' = [conn EXCEPT ![ProviderOf[run[r].job]].lastError =
                    IF worker[r].code = "PARTIAL" THEN "" ELSE worker[r].code]
    /\ worker' = [worker EXCEPT ![r] = NoWorker]
    /\ UNCHANGED <<now, run, thread>>

UpdateOutcomeFails(r) ==
    /\ worker[r].pc = "outcome"
    /\ worker' = [worker EXCEPT ![r] = NoWorker]
    /\ UNCHANGED <<now, run, thread, conn>>

Execute(r) ==
    \/ Begin(r) \/ MarkRunRunning(r) \/ ExecuteAborts(r)
    \/ OpenCredential(r) \/ Checkpoint(r) \/ SyncReturns(r)
    \/ FinishRun(r) \/ FinishRunFails(r)
    \/ UpdateConnectionOutcome(r) \/ UpdateOutcomeFails(r)

-----------------------------------------------------------------------------
(* The environment.                                                        *)

\* The handlers of internal/httpapi/connections.go, seen from the engine.
Configure(p, c) ==
    /\ conn[p].config # c
    /\ conn' = [conn EXCEPT ![p].config = c]
    /\ UNCHANGED <<now, run, worker, thread>>

\* A process dies with every goroutine it runs; only the database survives.
\* Until it is restarted it does nothing, like a restarted one nobody calls.
Crash(h) ==
    /\ \/ \E r \in RunIds : worker[r].host = h
       \/ \E t \in Threads : HostOf[t] = h /\ thread[t] # Idle
    /\ worker' = [r \in RunIds |-> IF worker[r].host = h THEN NoWorker ELSE worker[r]]
    /\ thread' = [t \in Threads |-> IF HostOf[t] = h THEN Idle ELSE thread[t]]
    /\ UNCHANGED <<now, run, conn>>

\* No context outlives its deadline, and no run is begun after the horizon: a
\* MaxTime of Horizon + Timeout + Lease + 1 lets every lease expire.
MayPass(r) ==
    CASE worker[r].pc = "none" -> TRUE
      [] worker[r].pc = "launched" -> now < Horizon
      [] OTHER -> now < worker[r].limit

Advance ==
    /\ now < MaxTime
    /\ \A r \in RunIds : MayPass(r)
    /\ now' = now + 1
    /\ UNCHANGED <<run, worker, thread, conn>>

Next ==
    \/ \E t \in Threads, j \in Jobs, k \in Keys \cup {Nil} : Request(t, j, k)
    \/ \E t \in Threads : Create(t)
    \/ \E t \in Threads : Tick(t) \/ TickWithoutRequeue(t)
    \/ \E t \in Threads, j \in Jobs : ScheduleJob(t, j)
    \/ \E r \in RunIds : Execute(r)
    \/ \E p \in Providers, c \in Configs : Configure(p, c)
    \/ \E h \in Replicas : Crash(h)
    \/ Advance

Spec == Init /\ [][Next]_vars

\* Goroutines that can run do run (a dead process is restarted), time passes,
\* and the requeue statement does not fail at every tick.
Fairness ==
    /\ \A t \in Threads : WF_vars(Create(t) \/ \E j \in Jobs : ScheduleJob(t, j))
    /\ \A t \in Threads : SF_vars(Tick(t))
    /\ \A r \in RunIds : WF_vars(Execute(r))
    /\ WF_vars(Advance)

FairSpec == Spec /\ Fairness

-----------------------------------------------------------------------------
(* Properties.                                                             *)

WorkerPCs == {"none", "launched", "begun", "conn", "sync", "finish", "outcome"}
ThreadPCs == {"idle", "conn", "cursor", "insert", "byKey", "active", "sched"}

RunRecords ==
    [status : Active \cup Terminal \cup {"NONE"}, job : Jobs \cup {Nil},
     key : Keys \cup RunIds \cup {Nil}, cursor : Cursors, startedAt : Nat,
     by : {"scheduler", "request", Nil}]
WorkerRecords ==
    [pc : WorkerPCs, host : Replicas \cup {Nil}, limit : Nat, pos : Cursors,
     code : Codes, cursor : Cursors]
ThreadRecords ==
    [pc : ThreadPCs, job : Jobs \cup {Nil}, key : Keys \cup {Nil}, cursor : Cursors,
     held : BOOLEAN, blind : BOOLEAN, todo : SUBSET Jobs]
ConnRecords == [config : ConfigStates, lastError : Codes]

\* Every variable keeps its type.
TypeOK ==
    /\ now \in Nat
    /\ run \in [RunIds -> RunRecords]
    /\ worker \in [RunIds -> WorkerRecords]
    /\ thread \in [Threads -> ThreadRecords]
    /\ conn \in [Providers -> ConnRecords]

\* A worker between its first statement and its FinishRun.
Executing(r) == worker[r].pc \in {"launched", "begun", "conn", "sync", "finish"}

\* The configuration under which the lease is safe: a run that outlives its
\* lease has no worker left.  The defaults (10m + 30s against 30m) satisfy it.
LeaseCoversTimeout == Timeout + Grace <= Lease

\* At most one goroutine works on a job at any time, over all replicas, ticks,
\* manual triggers, crashes and lease expiries (engine.go:283-285).
OneWorkerPerJob ==
    \A r, q \in RunIds :
        Executing(r) /\ Executing(q) /\ run[r].job = run[q].job => r = q

\* RequeueStaleRuns never fails a run whose worker is alive: the row of a live
\* worker is active until that worker finishes it (store.go:371-385).
LiveWorkerOwnsRun ==
    \A r \in RunIds :
        /\ worker[r].pc \in {"launched", "begun"} => run[r].status = "QUEUED"
        /\ worker[r].pc \in {"conn", "sync", "finish"} => run[r].status = "RUNNING"

\* Create answers t with the existing run r.
AnswersExisting(t, r) == FindByKey(t, r) \/ FindActive(t, r)

\* A client that repeats a request under a key some run already holds is
\* answered with that very run or an error, whatever else is active by then,
\* as long as the key lookup itself does not fail (store.go:273-281).
IdempotentReply ==
    [][\A t \in Threads, r \in RunIds :
        thread[t].held /\ ~thread[t].blind /\ AnswersExisting(t, r)
            => run[r].key = thread[t].key]_vars

\* The table behaves as RunLifecycle says: in particular an ended run is never
\* changed by a late worker, a requeue or a second start.
Lifecycle == INSTANCE RunLifecycle WITH
    status <- [r \in RunIds |-> run[r].status],
    job <- [r \in RunIds |-> run[r].job]
ImplementsLifecycle == Lifecycle!Spec

\* A run that was started ends, even when its worker crashes or cannot store
\* the outcome: "recover crashed runs" (engine.go:283, store.go:371-373).
StartedRunEnds ==
    \A r \in RunIds : run[r].status = "RUNNING" ~> run[r].status \in Terminal

\* "recover crashed runs" taken for every crash: a queued run leaves the queue
\* (engine.go:283).
QueuedRunLeaves ==
    \A r \in RunIds : run[r].status = "QUEUED" ~> run[r].status # "QUEUED"

Inserted(r) == run[r].status = "NONE" /\ run'[r].status = "QUEUED"

\* A run that does not start from nothing resumes where a partial run of its
\* job stopped, never at the checkpoint of a run that failed or was cut short
\* (store.go:503-504), even though cursor and row are separate statements.
ResumesFromPartial ==
    [][\A r \in RunIds : Inserted(r) /\ run'[r].cursor # 0 =>
        \E q \in RowsOf(run'[r].job) :
            run[q].status = "PARTIAL" /\ run[q].cursor = run'[r].cursor]_vars

=============================================================================
