-------------------------- MODULE SyncEngineProofs --------------------------
(***************************************************************************)
(* Proofs about SyncEngine for every set of runs, jobs, threads and        *)
(* replicas and every value of Timeout, Grace and Lease.                   *)
(***************************************************************************)
EXTENDS SyncEngine, TLAPS

-----------------------------------------------------------------------------
(* Type correctness.                                                       *)

\* The blank records of the model have their types.
LEMMA BlankTypes ==
    /\ NoRun \in RunRecords
    /\ NoWorker \in WorkerRecords
    /\ Idle \in ThreadRecords
    /\ 0 \in Cursors
BY TimesAssumption DEF NoRun, NoWorker, Idle, RunRecords, WorkerRecords, ThreadRecords,
    Active, Terminal, Codes, Cursors, WorkerPCs, ThreadPCs

\* The engine starts typed.
LEMMA TypeInit == Init => TypeOK
<1> SUFFICES ASSUME Init PROVE TypeOK
    OBVIOUS
<1>1. conn \in [Providers -> ConnRecords]
    BY InputsAssumption DEF Init, ConnRecords, ConfigStates, Codes
<1>2. QED
    BY <1>1, BlankTypes DEF Init, TypeOK

\* Moving a thread to another place keeps it typed.
LEMMA TypeMove ==
    ASSUME NEW T \in ThreadRecords, NEW pc \in ThreadPCs
    PROVE  [T EXCEPT !.pc = pc] \in ThreadRecords
BY DEF ThreadRecords

\* What Return leaves of a thread is typed.
LEMMA TypeReturn ==
    ASSUME TypeOK, NEW t \in Threads, Return(t)
    PROVE  thread' \in [Threads -> ThreadRecords]
<1> DEFINE T == [Idle EXCEPT !.pc = IF thread[t].todo = {} THEN "idle" ELSE "sched",
                             !.todo = thread[t].todo]
<1>1. T \in ThreadRecords
    BY BlankTypes DEF TypeOK, Idle, ThreadRecords, ThreadPCs
<1>2. thread' = [thread EXCEPT ![t] = T]
    BY DEF Return
<1>3. QED
    BY <1>1, <1>2 DEF TypeOK

\* A step of a goroutine inside Create keeps the types.
LEMMA TypeCreate ==
    ASSUME TypeOK, NEW t \in Threads, Create(t)
    PROVE  TypeOK'
<1>0. thread[t] \in ThreadRecords
    BY DEF TypeOK
<1>1. CASE CheckConnection(t)
    BY <1>0, <1>1, TypeMove DEF CheckConnection, TypeOK, ThreadPCs
<1>2. CASE NotConfigured(t)
    BY <1>2, TypeReturn DEF NotConfigured, TypeOK
<1>3. CASE ReadCursor(t)
    <2>1. PICK c \in ResumeCursors(thread[t].job) :
            thread' = [thread EXCEPT ![t].pc = "insert", ![t].cursor = c]
        BY <1>3 DEF ReadCursor
    <2>2. \A r \in RunIds : run[r].cursor \in Cursors
        BY DEF TypeOK, RunRecords
    <2>3. c \in Cursors
        BY <2>1, <2>2, BlankTypes DEF ResumeCursors, Latest, RowsOf, Rows
    <2>4. [thread[t] EXCEPT !.pc = "insert", !.cursor = c] \in ThreadRecords
        BY <1>0, <2>3 DEF ThreadRecords, ThreadPCs
    <2>5. QED
        BY <1>3, <2>1, <2>4 DEF ReadCursor, TypeOK
<1>4. CASE InsertRun(t)
    <2> DEFINE R(r) == [status |-> "QUEUED", job |-> thread[t].job,
                        key |-> IF thread[t].key = Nil THEN r ELSE thread[t].key,
                        cursor |-> thread[t].cursor, startedAt |-> now,
                        by |-> IF t \in Schedulers THEN "scheduler" ELSE "request"]
               W == [NoWorker EXCEPT !.pc = "launched", !.host = HostOf[t]]
    <2>1. PICK r \in RunIds \ Rows :
            run' = [run EXCEPT ![r] = R(r)] /\ worker' = [worker EXCEPT ![r] = W]
        BY <1>4 DEF InsertRun
    <2>2. R(r) \in RunRecords
        BY <1>0, <2>1 DEF TypeOK, ThreadRecords, RunRecords, Active
    <2>3. W \in WorkerRecords
        BY TopologyAssumption, BlankTypes DEF NoWorker, WorkerRecords, WorkerPCs
    <2>4. Return(t) /\ UNCHANGED <<now, conn>>
        BY <1>4 DEF InsertRun
    <2> HIDE DEF R, W
    <2>5. QED
        BY <2>1, <2>2, <2>3, <2>4, TypeReturn DEF TypeOK
<1>5. CASE InsertConflicts(t)
    BY <1>0, <1>5, TypeMove DEF InsertConflicts, TypeOK, ThreadPCs
<1>6. CASE FindByKeyMisses(t)
    BY <1>0, <1>6, TypeMove DEF FindByKeyMisses, TypeOK, ThreadPCs
<1>7. CASE FindActiveMisses(t)
    BY <1>7, TypeReturn DEF FindActiveMisses, TypeOK
<1>8. CASE CreateFails(t)
    <2>1. [thread[t] EXCEPT !.pc = "active", !.blind = TRUE] \in ThreadRecords
        BY <1>0 DEF ThreadRecords, ThreadPCs
    <2>2. QED
        BY <1>8, <2>1, TypeReturn DEF CreateFails, TypeOK
<1>9. CASE \E r \in RunIds : FindByKey(t, r) \/ FindActive(t, r)
    BY <1>9, TypeReturn DEF FindByKey, FindActive, TypeOK
<1>10. QED
    BY <1>1, <1>2, <1>3, <1>4, <1>5, <1>6, <1>7, <1>8, <1>9 DEF Create

\* Entering finish keeps the worker typed.
LEMMA TypeToFinish ==
    ASSUME TypeOK, NEW r \in RunIds, NEW code \in Codes, NEW c \in Cursors,
           ToFinish(r, code, c)
    PROVE  worker' \in [RunIds -> WorkerRecords]
<1> DEFINE W == [worker[r] EXCEPT !.pc = "finish", !.limit = now + Grace,
                                  !.code = code, !.cursor = c]
<1>1. now + Grace \in Nat /\ worker[r] \in WorkerRecords
    BY TimesAssumption DEF TypeOK
<1>2. W \in WorkerRecords
    BY <1>1 DEF WorkerRecords, WorkerPCs
<1>3. worker' = [worker EXCEPT ![r] = W]
    BY DEF ToFinish
<1>4. QED
    BY <1>2, <1>3 DEF TypeOK

\* A step of a worker goroutine keeps the types.
LEMMA TypeExecute ==
    ASSUME TypeOK, NEW r \in RunIds, Execute(r)
    PROVE  TypeOK'
<1>0. worker[r] \in WorkerRecords /\ run[r] \in RunRecords
    BY DEF TypeOK
<1>a. \A pc \in WorkerPCs : [worker[r] EXCEPT !.pc = pc] \in WorkerRecords
    BY <1>0 DEF WorkerRecords
<1>b. {"NOT_CONFIGURED", "UNAUTHORIZED", "TRANSIENT"} \subseteq Codes
    BY DEF Codes, FailureCodes
<1>1. CASE Begin(r)
    <2>1. now + Timeout \in Nat
        BY TimesAssumption DEF TypeOK
    <2>2. [worker[r] EXCEPT !.pc = "begun", !.limit = now + Timeout] \in WorkerRecords
        BY <1>0, <2>1 DEF WorkerRecords, WorkerPCs
    <2>3. QED
        BY <1>1, <2>2 DEF Begin, TypeOK
<1>2. CASE MarkRunRunning(r)
    <2>1. [run[r] EXCEPT !.status = "RUNNING", !.startedAt = now] \in RunRecords
        BY <1>0 DEF TypeOK, RunRecords, Active
    <2>2. QED
        BY <1>2, <1>a, <2>1 DEF MarkRunRunning, TypeOK, WorkerPCs
<1>3. CASE ExecuteAborts(r)
    BY <1>3, BlankTypes DEF ExecuteAborts, TypeOK
<1>4. CASE OpenCredential(r)
    <2>1. [worker[r] EXCEPT !.pc = "sync", !.pos = run[r].cursor] \in WorkerRecords
        BY <1>0 DEF WorkerRecords, RunRecords, WorkerPCs
    <2>2. worker' \in [RunIds -> WorkerRecords]
        BY <1>4, <1>b, <2>1, BlankTypes, TypeToFinish DEF OpenCredential, TypeOK
    <2>3. QED
        BY <1>4, <2>2 DEF OpenCredential, TypeOK
<1>5. CASE Checkpoint(r)
    <2>1. worker[r].pos + 1 \in Cursors
        BY <1>0, <1>5, TimesAssumption DEF Checkpoint, WorkerRecords, Cursors
    <2>2. [worker[r] EXCEPT !.pos = worker[r].pos + 1] \in WorkerRecords
        BY <1>0, <2>1 DEF WorkerRecords
    <2>3. [run[r] EXCEPT !.cursor = worker[r].pos + 1] \in RunRecords
        BY <1>0, <2>1 DEF RunRecords
    <2>4. QED
        BY <1>5, <2>2, <2>3 DEF Checkpoint, TypeOK
<1>6. CASE SyncReturns(r)
    <2>1. PICK code \in Outcomes, c \in {0, worker[r].pos} :
            ToFinish(r, code, c) \/ ToFinish(r, "TRANSIENT", 0)
        BY <1>6 DEF SyncReturns
    <2>2. code \in Codes
        BY <2>1, InputsAssumption DEF Codes, FailureCodes
    <2>3. c \in Cursors
        BY <1>0, <2>1, BlankTypes DEF WorkerRecords
    <2>4. worker' \in [RunIds -> WorkerRecords]
        BY <1>b, <2>1, <2>2, <2>3, BlankTypes, TypeToFinish
    <2>5. QED
        BY <1>6, <2>4 DEF SyncReturns, TypeOK
<1>7. CASE FinishRun(r)
    <2>1. [run[r] EXCEPT !.status = StatusOf(worker[r].code),
                         !.cursor = worker[r].cursor] \in RunRecords
        BY <1>0 DEF RunRecords, WorkerRecords, StatusOf, Terminal
    <2>2. QED
        BY <1>7, <1>a, <2>1 DEF FinishRun, TypeOK, WorkerPCs
<1>8. CASE FinishRunFails(r)
    BY <1>8, <1>a DEF FinishRunFails, TypeOK, WorkerPCs
<1>9. CASE UpdateConnectionOutcome(r)
    <2> DEFINE p == ProviderOf[run[r].job]
               code == IF worker[r].code = "PARTIAL" THEN "" ELSE worker[r].code
    <2>1. code \in Codes
        BY <1>0 DEF WorkerRecords, Codes
    <2>2. ASSUME p \in Providers PROVE [conn[p] EXCEPT !.lastError = code] \in ConnRecords
        BY <2>1, <2>2 DEF TypeOK, ConnRecords
    <2>3. conn' = [conn EXCEPT ![p].lastError = code]
        BY <1>9 DEF UpdateConnectionOutcome
    <2> HIDE DEF p, code
    <2>4. conn' \in [Providers -> ConnRecords]
        BY <2>2, <2>3 DEF TypeOK
    <2>5. QED
        BY <1>9, <2>4, BlankTypes DEF UpdateConnectionOutcome, TypeOK
<1>10. CASE UpdateOutcomeFails(r)
    BY <1>10, BlankTypes DEF UpdateOutcomeFails, TypeOK
<1>11. QED
    BY <1>1, <1>2, <1>3, <1>4, <1>5, <1>6, <1>7, <1>8, <1>9, <1>10 DEF Execute

\* The start of a tick keeps the thread typed.
LEMMA TypeTick ==
    ASSUME TypeOK, NEW t \in Threads, BeginTick(t)
    PROVE  thread' \in [Threads -> ThreadRecords] /\ UNCHANGED <<now, worker, conn>>
<1>1. [Idle EXCEPT !.pc = "sched", !.todo = Jobs] \in ThreadRecords
    BY BlankTypes DEF Idle, ThreadRecords, ThreadPCs
<1>2. QED
    BY <1>1 DEF BeginTick, TypeOK

\* Every step keeps the types.
LEMMA TypeNext == TypeOK /\ [Next]_vars => TypeOK'
<1> SUFFICES ASSUME TypeOK, [Next]_vars PROVE TypeOK'
    OBVIOUS
<1>1. ASSUME NEW t \in Threads, NEW j \in Jobs, NEW k \in Keys \cup {Nil}, Request(t, j, k)
      PROVE  TypeOK'
    <2>1. [Idle EXCEPT !.pc = "conn", !.job = j, !.key = k, !.held = Holders(k) # {}]
            \in ThreadRecords
        BY BlankTypes DEF Idle, ThreadRecords, ThreadPCs
    <2>2. QED
        BY <1>1, <2>1 DEF Request, TypeOK
<1>2. CASE \E t \in Threads : Create(t)
    BY <1>2, TypeCreate
<1>3. ASSUME NEW t \in Threads, Tick(t) PROVE TypeOK'
    <2>1. \A r \in RunIds : [run[r] EXCEPT !.status = "FAILED"] \in RunRecords
        BY DEF TypeOK, RunRecords, Terminal
    <2>2. run' \in [RunIds -> RunRecords]
        BY <1>3, <2>1 DEF Tick, RequeueStaleRuns, TypeOK
    <2>3. QED
        BY <1>3, <2>2, TypeTick DEF Tick, TypeOK
<1>4. CASE \E t \in Threads : TickWithoutRequeue(t)
    BY <1>4, TypeTick DEF TickWithoutRequeue, TypeOK
<1>5. ASSUME NEW t \in Threads, NEW j \in Jobs, ScheduleJob(t, j) PROVE TypeOK'
    <2>1. [Idle EXCEPT !.pc = "conn", !.job = j, !.todo = thread[t].todo \ {j}]
            \in ThreadRecords
        BY BlankTypes DEF TypeOK, Idle, ThreadRecords, ThreadPCs
    <2>2. QED
        BY <1>5, <2>1 DEF ScheduleJob, TypeOK
<1>6. CASE \E r \in RunIds : Execute(r)
    BY <1>6, TypeExecute
<1>7. ASSUME NEW p \in Providers, NEW c \in Configs, Configure(p, c) PROVE TypeOK'
    <2>1. [conn[p] EXCEPT !.config = c] \in ConnRecords
        BY InputsAssumption DEF TypeOK, ConnRecords, ConfigStates
    <2>2. QED
        BY <1>7, <2>1 DEF Configure, TypeOK
<1>8. CASE \E h \in Replicas : Crash(h)
    BY <1>8, BlankTypes DEF Crash, TypeOK
<1>9. CASE Advance
    BY <1>9 DEF Advance, TypeOK
<1>10. CASE UNCHANGED vars
    BY <1>10 DEF vars, TypeOK
<1>11. QED
    BY <1>1, <1>2, <1>3, <1>4, <1>5, <1>6, <1>7, <1>8, <1>9, <1>10 DEF Next

\* Type correctness of the engine.
THEOREM TypeCorrect == Spec => []TypeOK
BY TypeInit, TypeNext, PTL DEF Spec

-----------------------------------------------------------------------------
(* The inductive invariant.  OneWorkerPerJob and LiveWorkerOwnsRun are not   *)
(* inductive: a requeue could fail the run of a live worker.  Deadlines says *)
(* how far a live worker can lag behind the started_at of its row.           *)

\* The two unique indexes and the foreign facts every row carries.
SingleFlight ==
    \A r, q \in RunIds :
        /\ run[r].status \in Active /\ run[q].status \in Active
        /\ run[r].job = run[q].job
        => r = q

RowsHaveJobs == \A r \in RunIds : run[r].status # "NONE" => run[r].job \in Jobs

WorkersHaveRows ==
    \A r \in RunIds : worker[r].pc # "none" => run[r].status # "NONE"

\* The contexts: Timeout from the start of execute, Grace from that of finish.
Deadlines ==
    \A r \in RunIds :
        /\ worker[r].pc \in {"begun", "conn", "sync", "finish"} => now <= worker[r].limit
        /\ worker[r].pc = "begun" => worker[r].limit <= now + Timeout
        /\ worker[r].pc \in {"conn", "sync"} =>
                worker[r].limit <= run[r].startedAt + Timeout
        /\ worker[r].pc = "finish" =>
                worker[r].limit <= run[r].startedAt + Timeout + Grace

TableInv ==
    SingleFlight /\ RowsHaveJobs /\ WorkersHaveRows /\ LiveWorkerOwnsRun /\ Deadlines

Creating == {"conn", "cursor", "insert", "byKey", "active"}

\* A key that was held stays held, and a lookup that works finds its holder.
ThreadInv ==
    \A t \in Threads :
        /\ thread[t].pc \in Creating => thread[t].job \in Jobs
        /\ thread[t].held => Holders(thread[t].key) # {}
        /\ thread[t].held /\ thread[t].pc = "active" => thread[t].blind

Inv == TypeOK /\ TableInv /\ ThreadInv

\* The invariant holds initially.
LEMMA InvInit == Init => Inv
<1> SUFFICES ASSUME Init PROVE Inv
    OBVIOUS
<1>1. TableInv
    BY DEF Init, NoRun, NoWorker, TableInv, SingleFlight, RowsHaveJobs, WorkersHaveRows,
       LiveWorkerOwnsRun, Deadlines, Active
<1>2. ThreadInv
    BY DEF Init, Idle, ThreadInv, Creating
<1>3. QED
    BY <1>1, <1>2, TypeInit DEF Inv

\* Steps that touch neither the table, nor a worker, nor the clock keep TableInv.
LEMMA TableFrame ==
    ASSUME TableInv, UNCHANGED <<now, run, worker>>
    PROVE  TableInv'
BY DEF TableInv, SingleFlight, RowsHaveJobs, WorkersHaveRows, LiveWorkerOwnsRun, Deadlines

\* Rows are never deleted and never change their key: whoever relied on a held
\* key still may.
LEMMA ThreadFrame ==
    ASSUME ThreadInv, UNCHANGED thread,
           \A r \in RunIds : run[r].status # "NONE" =>
                                run'[r].status # "NONE" /\ run'[r].key = run[r].key
    PROVE  ThreadInv'
<1>1. \A k : Holders(k) # {} => Holders(k)' # {}
    BY DEF Holders, Rows
<1>2. QED
    BY <1>1 DEF ThreadInv

\* A thread that returns from Create holds no key and no job.
LEMMA ThreadReturn ==
    ASSUME TypeOK, ThreadInv, NEW t \in Threads, Return(t),
           \A r \in RunIds : run[r].status # "NONE" =>
                                run'[r].status # "NONE" /\ run'[r].key = run[r].key
    PROVE  ThreadInv'
<1>1. \A k : Holders(k) # {} => Holders(k)' # {}
    BY DEF Holders, Rows
<1>2. thread'[t].pc \in {"idle", "sched"} /\ ~thread'[t].held
    BY DEF TypeOK, Return, Idle
<1>3. \A u \in Threads : u # t => thread'[u] = thread[u]
    BY DEF TypeOK, Return
<1>4. QED
    BY <1>1, <1>2, <1>3 DEF ThreadInv, Creating

\* A step inside Create keeps the invariant.
LEMMA InvCreate ==
    ASSUME Inv, NEW t \in Threads, Create(t)
    PROVE  TableInv' /\ ThreadInv'
<1>0. TypeOK /\ TableInv /\ ThreadInv
    BY DEF Inv
<1>1. CASE CheckConnection(t)
    BY <1>0, <1>1, TableFrame DEF CheckConnection, ThreadInv, Creating, TypeOK, Holders, Rows
<1>2. CASE NotConfigured(t)
    BY <1>0, <1>2, TableFrame, ThreadReturn DEF NotConfigured
<1>3. CASE ReadCursor(t)
    BY <1>0, <1>3, TableFrame DEF ReadCursor, ThreadInv, Creating, TypeOK, Holders, Rows
<1>4. CASE InsertRun(t)
    <2>1. PICK r \in RunIds \ Rows :
            /\ run' = [run EXCEPT ![r] =
                [status |-> "QUEUED", job |-> thread[t].job,
                 key |-> IF thread[t].key = Nil THEN r ELSE thread[t].key,
                 cursor |-> thread[t].cursor, startedAt |-> now,
                 by |-> IF t \in Schedulers THEN "scheduler" ELSE "request"]]
            /\ worker' = [worker EXCEPT ![r] =
                [NoWorker EXCEPT !.pc = "launched", !.host = HostOf[t]]]
        BY <1>4 DEF InsertRun
    <2>2. run[r].status = "NONE" /\ worker[r].pc = "none"
        BY <1>0, <2>1 DEF Rows, TableInv, WorkersHaveRows
    <2>3. run'[r].status = "QUEUED" /\ run'[r].job = thread[t].job
          /\ worker'[r].pc = "launched"
        BY <1>0, <2>1 DEF TypeOK, NoWorker
    <2>4. \A q \in RunIds : q # r => run'[q] = run[q] /\ worker'[q] = worker[q]
        BY <1>0, <2>1 DEF TypeOK
    <2>5. thread[t].job \in Jobs
        BY <1>0, <1>4 DEF InsertRun, ThreadInv, Creating
    <2>6. \A q \in RunIds : run[q].job = thread[t].job => run[q].status \notin Active
        BY <1>0, <1>4 DEF InsertRun, Conflict, ActiveOf, RowsOf, Rows, Active
    <2>7. SingleFlight'
        BY <1>0, <2>2, <2>3, <2>4, <2>6 DEF TableInv, SingleFlight
    <2>8. RowsHaveJobs' /\ WorkersHaveRows' /\ LiveWorkerOwnsRun'
        BY <1>0, <2>3, <2>4, <2>5
        DEF TableInv, RowsHaveJobs, WorkersHaveRows, LiveWorkerOwnsRun
    <2>9. Deadlines'
        BY <1>0, <1>4, <2>3, <2>4 DEF InsertRun, TableInv, Deadlines
    <2>10. ThreadInv'
        BY <1>0, <1>4, <2>2, <2>4, ThreadReturn DEF InsertRun
    <2>11. QED
        BY <2>7, <2>8, <2>9, <2>10 DEF TableInv
<1>5. CASE InsertConflicts(t)
    BY <1>0, <1>5, TableFrame DEF InsertConflicts, ThreadInv, Creating, TypeOK, Holders, Rows
<1>6. CASE FindByKeyMisses(t)
    BY <1>0, <1>6, TableFrame DEF FindByKeyMisses, ThreadInv, Creating, TypeOK, Holders, Rows
<1>7. CASE FindActiveMisses(t)
    BY <1>0, <1>7, TableFrame, ThreadReturn DEF FindActiveMisses
<1>8. CASE CreateFails(t)
    <2>1. CASE Return(t)
        BY <1>0, <1>8, <2>1, TableFrame, ThreadReturn DEF CreateFails
    <2>2. CASE /\ thread[t].pc = "byKey"
               /\ thread' = [thread EXCEPT ![t].pc = "active", ![t].blind = TRUE]
        BY <1>0, <1>8, <2>2, TableFrame
        DEF CreateFails, ThreadInv, Creating, TypeOK, ThreadRecords, Holders, Rows
    <2>3. QED
        BY <1>8, <2>1, <2>2 DEF CreateFails
<1>9. CASE \E r \in RunIds : FindByKey(t, r) \/ FindActive(t, r)
    BY <1>0, <1>9, TableFrame, ThreadReturn DEF FindByKey, FindActive
<1>10. QED
    BY <1>1, <1>2, <1>3, <1>4, <1>5, <1>6, <1>7, <1>8, <1>9 DEF Create

\* Entering finish keeps the invariant: finish starts within Timeout of the
\* row's started_at, so it ends within Timeout + Grace.
LEMMA TableToFinish ==
    ASSUME TypeOK, TableInv, NEW r \in RunIds, NEW code, NEW c, ToFinish(r, code, c),
           worker[r].pc \in {"conn", "sync"}, UNCHANGED <<now, run>>
    PROVE  TableInv'
<1>1. worker'[r].pc = "finish" /\ worker'[r].limit = now + Grace
    BY DEF ToFinish, TypeOK, WorkerRecords
<1>2. \A q \in RunIds : q # r => worker'[q] = worker[q]
    BY DEF ToFinish, TypeOK
<1>3. now \in Nat /\ worker[r].limit \in Nat /\ run[r].startedAt \in Nat
    BY DEF TypeOK, WorkerRecords, RunRecords
<1>4. Deadlines'
    BY <1>1, <1>2, <1>3, TimesAssumption DEF TableInv, Deadlines
<1>5. QED
    BY <1>1, <1>2, <1>4
    DEF TableInv, SingleFlight, RowsHaveJobs, WorkersHaveRows, LiveWorkerOwnsRun

\* A worker that disappears takes only its own obligations with it.
LEMMA TableDrop ==
    ASSUME TableInv, UNCHANGED <<now, run>>,
           \A q \in RunIds : worker'[q] = worker[q] \/ worker'[q] = NoWorker
    PROVE  TableInv'
<1>1. NoWorker.pc = "none"
    BY DEF NoWorker
<1>2. QED
    BY <1>1 DEF TableInv, SingleFlight, RowsHaveJobs, WorkersHaveRows,
        LiveWorkerOwnsRun, Deadlines

\* A step of a worker keeps the invariant.
LEMMA InvExecute ==
    ASSUME Inv, NEW r \in RunIds, Execute(r)
    PROVE  TableInv' /\ ThreadInv'
<1>0. TypeOK /\ TableInv /\ ThreadInv
    BY DEF Inv
<1>t. now \in Nat /\ worker[r].limit \in Nat /\ run[r].startedAt \in Nat /\ Timeout \in Nat
    BY <1>0, TimesAssumption DEF TypeOK, WorkerRecords, RunRecords
<1>1. CASE Begin(r)
    <2>1. worker'[r].pc = "begun" /\ worker'[r].limit = now + Timeout
        BY <1>0, <1>1 DEF Begin, TypeOK, WorkerRecords
    <2>2. \A q \in RunIds : q # r => worker'[q] = worker[q]
        BY <1>0, <1>1 DEF Begin, TypeOK
    <2>3. /\ now <= now + Timeout /\ now + Timeout <= now + Timeout
          /\ now' = now /\ run' = run
        BY <1>1, <1>t DEF Begin
    <2>a. Deadlines'
        BY <1>0, <2>1, <2>2, <2>3 DEF TableInv, Deadlines
    <2>4. TableInv'
        BY <1>0, <1>1, <2>1, <2>2, <2>a
        DEF Begin, TableInv, SingleFlight, RowsHaveJobs, WorkersHaveRows, LiveWorkerOwnsRun
    <2>5. QED
        BY <1>0, <1>1, <2>4, ThreadFrame DEF Begin
<1>2. CASE MarkRunRunning(r)
    <2>1. /\ worker'[r].pc = "conn" /\ worker'[r].limit = worker[r].limit
          /\ run'[r].status = "RUNNING" /\ run'[r].startedAt = now
          /\ run'[r].job = run[r].job /\ run'[r].key = run[r].key
        BY <1>0, <1>2 DEF MarkRunRunning, TypeOK, WorkerRecords, RunRecords
    <2>2. \A q \in RunIds : q # r => worker'[q] = worker[q] /\ run'[q] = run[q]
        BY <1>0, <1>2 DEF MarkRunRunning, TypeOK
    <2>3. run[r].status = "QUEUED"
        BY <1>0, <1>2 DEF MarkRunRunning, TableInv, LiveWorkerOwnsRun
    <2>4. Deadlines'
        BY <1>0, <1>2, <1>t, <2>1, <2>2 DEF MarkRunRunning, TableInv, Deadlines
    <2>5. SingleFlight'
        BY <1>0, <2>1, <2>2, <2>3 DEF TableInv, SingleFlight, Active
    <2>6. RowsHaveJobs' /\ WorkersHaveRows' /\ LiveWorkerOwnsRun'
        BY <1>0, <2>1, <2>2, <2>3
        DEF TableInv, RowsHaveJobs, WorkersHaveRows, LiveWorkerOwnsRun
    <2>7. ThreadInv'
        BY <1>0, <1>2, <2>1, <2>2, ThreadFrame DEF MarkRunRunning
    <2>8. QED
        BY <2>4, <2>5, <2>6, <2>7 DEF TableInv
<1>3. CASE ExecuteAborts(r)
    <2>1. \A q \in RunIds : worker'[q] = worker[q] \/ worker'[q] = NoWorker
        BY <1>0, <1>3 DEF ExecuteAborts, TypeOK
    <2>2. QED
        BY <1>0, <1>3, <2>1, TableDrop, ThreadFrame DEF ExecuteAborts
<1>4. CASE OpenCredential(r)
    <2>1. CASE worker' = [worker EXCEPT ![r].pc = "sync", ![r].pos = run[r].cursor]
        <3>1. worker'[r].pc = "sync" /\ worker'[r].limit = worker[r].limit
            BY <1>0, <2>1 DEF TypeOK, WorkerRecords
        <3>2. \A q \in RunIds : q # r => worker'[q] = worker[q]
            BY <1>0, <2>1 DEF TypeOK
        <3>3. TableInv'
            BY <1>0, <1>4, <3>1, <3>2
            DEF OpenCredential, TableInv, SingleFlight, RowsHaveJobs, WorkersHaveRows,
                LiveWorkerOwnsRun, Deadlines
        <3>4. QED
            BY <1>0, <1>4, <3>3, ThreadFrame DEF OpenCredential
    <2>2. CASE \E code : ToFinish(r, code, 0)
        BY <1>0, <1>4, <2>2, TableToFinish, ThreadFrame DEF OpenCredential
    <2>3. QED
        BY <1>4, <2>1, <2>2 DEF OpenCredential
<1>5. CASE Checkpoint(r)
    <2>1. /\ worker'[r].pc = "sync" /\ worker'[r].limit = worker[r].limit
          /\ run'[r].status = run[r].status /\ run'[r].startedAt = run[r].startedAt
          /\ run'[r].job = run[r].job /\ run'[r].key = run[r].key
        BY <1>0, <1>5 DEF Checkpoint, TypeOK, WorkerRecords, RunRecords
    <2>2. \A q \in RunIds : q # r => worker'[q] = worker[q] /\ run'[q] = run[q]
        BY <1>0, <1>5 DEF Checkpoint, TypeOK
    <2>3. TableInv'
        BY <1>0, <1>5, <2>1, <2>2
        DEF Checkpoint, TableInv, SingleFlight, RowsHaveJobs, WorkersHaveRows,
            LiveWorkerOwnsRun, Deadlines
    <2>4. QED
        BY <1>0, <1>5, <2>1, <2>2, <2>3, ThreadFrame DEF Checkpoint
<1>6. CASE SyncReturns(r)
    BY <1>0, <1>6, TableToFinish, ThreadFrame DEF SyncReturns
<1>7. CASE FinishRun(r)
    <2>1. /\ worker'[r].pc = "outcome" /\ run'[r].status \in Terminal
          /\ run'[r].job = run[r].job /\ run'[r].key = run[r].key
        BY <1>0, <1>7 DEF FinishRun, TypeOK, WorkerRecords, RunRecords, StatusOf, Terminal
    <2>2. \A q \in RunIds : q # r => worker'[q] = worker[q] /\ run'[q] = run[q]
        BY <1>0, <1>7 DEF FinishRun, TypeOK
    <2>3. run[r].status = "RUNNING"
        BY <1>0, <1>7 DEF FinishRun, TableInv, LiveWorkerOwnsRun
    <2>4. SingleFlight' /\ RowsHaveJobs'
        BY <1>0, <2>1, <2>2, <2>3 DEF TableInv, SingleFlight, RowsHaveJobs, Active, Terminal
    <2>5. WorkersHaveRows' /\ LiveWorkerOwnsRun'
        BY <1>0, <2>1, <2>2 DEF TableInv, WorkersHaveRows, LiveWorkerOwnsRun, Terminal
    <2>6. Deadlines'
        BY <1>0, <1>7, <2>1, <2>2 DEF FinishRun, TableInv, Deadlines
    <2>7. ThreadInv'
        BY <1>0, <1>7, <2>1, <2>2, ThreadFrame DEF FinishRun, Terminal
    <2>8. QED
        BY <2>4, <2>5, <2>6, <2>7 DEF TableInv
<1>8. CASE FinishRunFails(r)
    <2>1. worker'[r].pc = "outcome"
        BY <1>0, <1>8 DEF FinishRunFails, TypeOK, WorkerRecords
    <2>2. \A q \in RunIds : q # r => worker'[q] = worker[q]
        BY <1>0, <1>8 DEF FinishRunFails, TypeOK
    <2>3. TableInv'
        BY <1>0, <1>8, <2>1, <2>2
        DEF FinishRunFails, TableInv, SingleFlight, RowsHaveJobs, WorkersHaveRows,
            LiveWorkerOwnsRun, Deadlines
    <2>4. QED
        BY <1>0, <1>8, <2>3, ThreadFrame DEF FinishRunFails
<1>9. CASE UpdateConnectionOutcome(r) \/ UpdateOutcomeFails(r)
    <2>1. \A q \in RunIds : worker'[q] = worker[q] \/ worker'[q] = NoWorker
        BY <1>0, <1>9 DEF UpdateConnectionOutcome, UpdateOutcomeFails, TypeOK
    <2>2. QED
        BY <1>0, <1>9, <2>1, TableDrop, ThreadFrame
        DEF UpdateConnectionOutcome, UpdateOutcomeFails
<1>10. QED
    BY <1>1, <1>2, <1>3, <1>4, <1>5, <1>6, <1>7, <1>8, <1>9 DEF Execute

\* The clock stops at every deadline, so it keeps Deadlines.
LEMMA InvAdvance ==
    ASSUME Inv, Advance
    PROVE  TableInv' /\ ThreadInv'
<1>0. TypeOK /\ TableInv /\ ThreadInv
    BY DEF Inv
<1>1. \A r \in RunIds : now \in Nat /\ worker[r].limit \in Nat /\ Timeout \in Nat
    BY <1>0, TimesAssumption DEF TypeOK, WorkerRecords
<1>2. \A r \in RunIds : worker[r].pc \in {"begun", "conn", "sync", "finish"} =>
                            now < worker[r].limit
    BY DEF Advance, MayPass
<1>3. Deadlines'
    BY <1>0, <1>1, <1>2 DEF Advance, TableInv, Deadlines
<1>4. TableInv'
    BY <1>0, <1>3
    DEF Advance, TableInv, SingleFlight, RowsHaveJobs, WorkersHaveRows, LiveWorkerOwnsRun
<1>5. QED
    BY <1>0, <1>4, ThreadFrame DEF Advance

\* With a lease that covers Timeout and Grace a requeue fails no live worker.
LEMMA StaleIsDead ==
    ASSUME LeaseCoversTimeout, TypeOK, TableInv, NEW r \in RunIds, Stale(r)
    PROVE  worker[r].pc \notin {"launched", "begun", "conn", "sync", "finish"}
<1>1. /\ now \in Nat /\ worker[r].limit \in Nat /\ run[r].startedAt \in Nat
      /\ Timeout \in Nat /\ Grace \in Nat /\ Lease \in Nat
    BY TimesAssumption DEF TypeOK, WorkerRecords, RunRecords
<1>2. run[r].status = "RUNNING" /\ run[r].startedAt < now - Lease
    BY DEF Stale
<1>3. worker[r].pc \notin {"launched", "begun"}
    BY <1>2 DEF TableInv, LiveWorkerOwnsRun
<1>4. worker[r].pc \notin {"conn", "sync", "finish"}
    BY <1>1, <1>2 DEF TableInv, Deadlines, LeaseCoversTimeout
<1>5. QED
    BY <1>3, <1>4

\* A tick keeps the invariant.
LEMMA InvTick ==
    ASSUME LeaseCoversTimeout, Inv, NEW t \in Threads, Tick(t)
    PROVE  TableInv' /\ ThreadInv'
<1>0. TypeOK /\ TableInv /\ ThreadInv
    BY DEF Inv
<1>1. \A r \in RunIds : run'[r] = IF Stale(r) THEN [run[r] EXCEPT !.status = "FAILED"]
                                              ELSE run[r]
    BY <1>0 DEF Tick, RequeueStaleRuns
<1>2. \A r \in RunIds : Stale(r) =>
            /\ run[r].status = "RUNNING" /\ run'[r].status = "FAILED"
            /\ run'[r].job = run[r].job /\ run'[r].key = run[r].key
            /\ run'[r].startedAt = run[r].startedAt
    BY <1>0, <1>1 DEF Stale, TypeOK, RunRecords
<1>3. \A r \in RunIds : ~Stale(r) => run'[r] = run[r]
    BY <1>1
<1>4. UNCHANGED <<now, worker>>
    BY DEF Tick, BeginTick
<1>5. SingleFlight'
    BY <1>0, <1>2, <1>3 DEF TableInv, SingleFlight, Active
<1>6. RowsHaveJobs' /\ WorkersHaveRows'
    BY <1>0, <1>2, <1>3, <1>4 DEF TableInv, RowsHaveJobs, WorkersHaveRows
<1>7. LiveWorkerOwnsRun' /\ Deadlines'
    BY <1>0, <1>3, <1>4, StaleIsDead DEF TableInv, LiveWorkerOwnsRun, Deadlines
<1>8. \A k : Holders(k) # {} => Holders(k)' # {}
    BY <1>2, <1>3 DEF Holders, Rows
<1>9. thread'[t].pc = "sched" /\ ~thread'[t].held
    BY <1>0 DEF TypeOK, Tick, BeginTick, Idle
<1>10. \A u \in Threads : u # t => thread'[u] = thread[u]
    BY <1>0 DEF TypeOK, Tick, BeginTick
<1>11. ThreadInv'
    BY <1>0, <1>8, <1>9, <1>10 DEF ThreadInv, Creating
<1>12. QED
    BY <1>5, <1>6, <1>7, <1>11 DEF TableInv

\* The invariant is inductive when the lease covers Timeout and Grace.
LEMMA InvNext ==
    ASSUME LeaseCoversTimeout
    PROVE  Inv /\ [Next]_vars => Inv'
<1> SUFFICES ASSUME Inv, [Next]_vars PROVE TableInv' /\ ThreadInv'
    BY TypeNext DEF Inv
<1>0. TypeOK /\ TableInv /\ ThreadInv
    BY DEF Inv
<1>1. ASSUME NEW t \in Threads, NEW j \in Jobs, NEW k \in Keys \cup {Nil}, Request(t, j, k)
      PROVE  TableInv' /\ ThreadInv'
    <2>1. /\ thread'[t].pc = "conn" /\ thread'[t].job = j /\ thread'[t].key = k
          /\ thread'[t].held = (Holders(k) # {})
        BY <1>0, <1>1 DEF Request, TypeOK, Idle
    <2>2. \A u \in Threads : u # t => thread'[u] = thread[u]
        BY <1>0, <1>1 DEF Request, TypeOK
    <2>3. \A x : Holders(x)' = Holders(x)
        BY <1>1 DEF Request, Holders, Rows
    <2>4. ThreadInv'
        BY <1>0, <2>1, <2>2, <2>3 DEF ThreadInv
    <2>5. QED
        BY <1>0, <1>1, <2>4, TableFrame DEF Request
<1>2. CASE \E t \in Threads : Create(t)
    BY <1>2, InvCreate
<1>3. CASE \E t \in Threads : Tick(t)
    BY <1>3, InvTick
<1>4. ASSUME NEW t \in Threads, TickWithoutRequeue(t) PROVE TableInv' /\ ThreadInv'
    BY <1>0, <1>4, TableFrame
    DEF TickWithoutRequeue, BeginTick, ThreadInv, Creating, TypeOK, Idle, Holders, Rows
<1>5. ASSUME NEW t \in Threads, NEW j \in Jobs, ScheduleJob(t, j)
      PROVE  TableInv' /\ ThreadInv'
    BY <1>0, <1>5, TableFrame
    DEF ScheduleJob, ThreadInv, Creating, TypeOK, Idle, Holders, Rows
<1>6. CASE \E r \in RunIds : Execute(r)
    BY <1>6, InvExecute
<1>7. CASE \E p \in Providers, c \in Configs : Configure(p, c)
    BY <1>0, <1>7, TableFrame, ThreadFrame DEF Configure
<1>8. ASSUME NEW h \in Replicas, Crash(h) PROVE TableInv' /\ ThreadInv'
    <2>1. \A q \in RunIds : worker'[q] = worker[q] \/ worker'[q] = NoWorker
        BY <1>0, <1>8 DEF Crash, TypeOK
    <2>2. ThreadInv'
        BY <1>0, <1>8 DEF Crash, ThreadInv, Creating, Idle, Holders, Rows
    <2>3. QED
        BY <1>0, <1>8, <2>1, <2>2, TableDrop DEF Crash
<1>9. CASE Advance
    BY <1>9, InvAdvance
<1>10. CASE UNCHANGED vars
    BY <1>0, <1>10, TableFrame, ThreadFrame DEF vars
<1>11. QED
    BY <1>1, <1>2, <1>3, <1>4, <1>5, <1>6, <1>7, <1>8, <1>9, <1>10 DEF Next

\* The invariant holds in every reachable state.
THEOREM Invariance ==
    ASSUME LeaseCoversTimeout
    PROVE  Spec => []Inv
BY InvInit, InvNext, PTL DEF Spec

-----------------------------------------------------------------------------
(* What follows from it.                                                    *)

\* No run of a live worker is requeued.
THEOREM LiveWorkersOwnTheirRuns ==
    ASSUME LeaseCoversTimeout
    PROVE  Spec => []LiveWorkerOwnsRun
<1>1. Inv => LiveWorkerOwnsRun
    BY DEF Inv, TableInv
<1>2. QED
    BY <1>1, Invariance, PTL

\* At most one worker per job, over all replicas.
THEOREM SingleWorker ==
    ASSUME LeaseCoversTimeout
    PROVE  Spec => []OneWorkerPerJob
<1>1. Inv => OneWorkerPerJob
    BY DEF Inv, TableInv, SingleFlight, LiveWorkerOwnsRun, OneWorkerPerJob, Executing, Active
<1>2. QED
    BY <1>1, Invariance, PTL

-----------------------------------------------------------------------------
(* The engine implements RunLifecycle.                                       *)

\* A step that leaves every row's status and job alone is a stuttering step.
LEMMA LifecycleStutter ==
    ASSUME \A r \in RunIds : run'[r].status = run[r].status /\ run'[r].job = run[r].job
    PROVE  UNCHANGED Lifecycle!vars
BY DEF Lifecycle!vars

\* InsertRun implements Enqueue.
LEMMA LifecycleInsert ==
    ASSUME Inv, NEW t \in Threads, InsertRun(t)
    PROVE  Lifecycle!Next
<1>1. PICK r \in RunIds \ Rows :
            run' = [run EXCEPT ![r] =
                [status |-> "QUEUED", job |-> thread[t].job,
                 key |-> IF thread[t].key = Nil THEN r ELSE thread[t].key,
                 cursor |-> thread[t].cursor, startedAt |-> now,
                 by |-> IF t \in Schedulers THEN "scheduler" ELSE "request"]]
    BY DEF InsertRun
<1>2. run[r].status = "NONE" /\ run'[r].status = "QUEUED" /\ run'[r].job = thread[t].job
    BY <1>1 DEF Rows, Inv, TypeOK
<1>3. \A q \in RunIds : q # r => run'[q] = run[q]
    BY <1>1 DEF Inv, TypeOK
<1>4. thread[t].job \in Jobs
    BY DEF InsertRun, Inv, ThreadInv, Creating
<1>5. \A q \in RunIds : run[q].job = thread[t].job => run[q].status \notin Lifecycle!Active
    BY DEF InsertRun, Conflict, ActiveOf, RowsOf, Rows, Active, Lifecycle!Active
<1>6. PICK j \in Jobs : j = thread[t].job
    BY <1>4
<1>7. Lifecycle!Enqueue(r, j)
    BY <1>2, <1>3, <1>5, <1>6 DEF Lifecycle!Enqueue
<1>8. QED
    BY <1>7 DEF Lifecycle!Next

\* MarkRunRunning implements Start.
LEMMA LifecycleStart ==
    ASSUME Inv, NEW r \in RunIds, MarkRunRunning(r)
    PROVE  Lifecycle!Next
<1>1. run[r].status = "QUEUED"
    BY DEF Inv, TableInv, LiveWorkerOwnsRun, MarkRunRunning
<1>2. run'[r].status = "RUNNING" /\ run'[r].job = run[r].job
    BY DEF Inv, TypeOK, RunRecords, MarkRunRunning
<1>3. \A q \in RunIds : q # r => run'[q] = run[q]
    BY DEF Inv, TypeOK, MarkRunRunning
<1>4. Lifecycle!Start(r)
    BY <1>1, <1>2, <1>3 DEF Lifecycle!Start
<1>5. QED
    BY <1>4 DEF Lifecycle!Next

\* FinishRun implements Finish.
LEMMA LifecycleFinish ==
    ASSUME Inv, NEW r \in RunIds, FinishRun(r)
    PROVE  Lifecycle!Next
<1>1. run[r].status = "RUNNING"
    BY DEF Inv, TableInv, LiveWorkerOwnsRun, FinishRun
<1>2. PICK s \in Lifecycle!Terminal : s = StatusOf(worker[r].code)
    BY DEF StatusOf, Lifecycle!Terminal
<1>3. run'[r].status = s /\ run'[r].job = run[r].job
    BY <1>2 DEF Inv, TypeOK, RunRecords, FinishRun
<1>4. \A q \in RunIds : q # r => run'[q] = run[q]
    BY DEF Inv, TypeOK, FinishRun
<1>5. Lifecycle!Finish(r, s)
    BY <1>1, <1>3, <1>4 DEF Lifecycle!Finish
<1>6. QED
    BY <1>2, <1>5 DEF Lifecycle!Next

\* RequeueStaleRuns implements Expire.
LEMMA LifecycleExpire ==
    ASSUME Inv, NEW t \in Threads, Tick(t)
    PROVE  Lifecycle!Next
<1>0. PICK S \in SUBSET RunIds : S = {r \in RunIds : Stale(r)}
    OBVIOUS
<1>1. \A r \in S : run[r].status = "RUNNING"
    BY <1>0 DEF Stale
<1>2. \A r \in RunIds :
        /\ run'[r].job = run[r].job
        /\ run'[r].status = IF r \in S THEN "FAILED" ELSE run[r].status
    BY <1>0 DEF Inv, TypeOK, RunRecords, Tick, RequeueStaleRuns
<1>3. Lifecycle!Expire(S)
    BY <1>1, <1>2 DEF Lifecycle!Expire
<1>4. QED
    BY <1>3 DEF Lifecycle!Next

\* Every step of the engine is a step or a stutter of RunLifecycle.
LEMMA LifecycleStep == Inv /\ [Next]_vars => [Lifecycle!Next]_(Lifecycle!vars)
<1> SUFFICES ASSUME Inv, [Next]_vars PROVE Lifecycle!Next \/ UNCHANGED Lifecycle!vars
    OBVIOUS
<1>1. CASE UNCHANGED run
    BY <1>1, LifecycleStutter
<1>2. CASE \E t \in Threads, j \in Jobs, k \in Keys \cup {Nil} : Request(t, j, k)
    BY <1>1, <1>2 DEF Request
<1>3. ASSUME NEW t \in Threads, Create(t)
      PROVE  Lifecycle!Next \/ UNCHANGED Lifecycle!vars
    <2>1. InsertRun(t) \/ UNCHANGED run
        BY <1>3 DEF Create, CheckConnection, NotConfigured, ReadCursor, InsertConflicts,
            FindByKeyMisses, FindActiveMisses, CreateFails, FindByKey, FindActive
    <2>2. QED
        BY <1>1, <2>1, LifecycleInsert
<1>4. CASE \E t \in Threads : Tick(t)
    BY <1>4, LifecycleExpire
<1>5. CASE \E t \in Threads : TickWithoutRequeue(t)
    BY <1>1, <1>5 DEF TickWithoutRequeue
<1>6. CASE \E t \in Threads, j \in Jobs : ScheduleJob(t, j)
    BY <1>1, <1>6 DEF ScheduleJob
<1>7. ASSUME NEW r \in RunIds, Execute(r)
      PROVE  Lifecycle!Next \/ UNCHANGED Lifecycle!vars
    <2>1. MarkRunRunning(r) \/ FinishRun(r) \/ Checkpoint(r) \/ UNCHANGED run
        BY <1>7 DEF Execute, Begin, ExecuteAborts, OpenCredential, SyncReturns,
            FinishRunFails, UpdateConnectionOutcome, UpdateOutcomeFails
    <2>2. ASSUME Checkpoint(r)
          PROVE  \A q \in RunIds : run'[q].status = run[q].status /\ run'[q].job = run[q].job
        BY <2>2 DEF Inv, TypeOK, RunRecords, Checkpoint
    <2>3. QED
        BY <1>1, <2>1, <2>2, LifecycleStart, LifecycleFinish, LifecycleStutter
<1>8. CASE \E p \in Providers, c \in Configs : Configure(p, c)
    BY <1>1, <1>8 DEF Configure
<1>9. CASE \E h \in Replicas : Crash(h)
    BY <1>1, <1>9 DEF Crash
<1>10. CASE Advance
    BY <1>1, <1>10 DEF Advance
<1>11. CASE UNCHANGED vars
    BY <1>1, <1>11 DEF vars
<1>12. QED
    BY <1>2, <1>3, <1>4, <1>5, <1>6, <1>7, <1>8, <1>9, <1>10, <1>11 DEF Next

\* The table of runs implements the life cycle its readers rely on.
THEOREM LifecycleImplemented ==
    ASSUME LeaseCoversTimeout
    PROVE  Spec => ImplementsLifecycle
<1>1. Init => Lifecycle!Init
    <2>1. NoRun.status = "NONE" /\ NoRun.job = Nil
        BY DEF NoRun
    <2>2. QED
        BY <2>1 DEF Init, Lifecycle!Init
<1>2. QED
    BY <1>1, LifecycleStep, Invariance, PTL DEF Spec, ImplementsLifecycle, Lifecycle!Spec

-----------------------------------------------------------------------------
(* What holds whatever the lease.  A worker that outlives its lease may find *)
(* its row FAILED, but never one that ended otherwise: PARTIAL rows stay as  *)
(* they are, and no row is ever deleted or gets another key.                 *)

\* The three statements of a worker write to its own row: a status, a start
\* time or a cursor.
LEMMA RowWrites ==
    ASSUME TypeOK, NEW q \in RunIds, MarkRunRunning(q) \/ Checkpoint(q) \/ FinishRun(q)
    PROVE  /\ \A r \in RunIds : r # q => run'[r] = run[r]
           /\ run'[q].key = run[q].key /\ run'[q].job = run[q].job
           /\ run'[q].status \in {"RUNNING", run[q].status} \cup Terminal
<1>0. run \in [RunIds -> RunRecords]
    BY DEF TypeOK
<1>1. CASE MarkRunRunning(q)
    BY <1>0, <1>1 DEF MarkRunRunning, RunRecords
<1>2. CASE Checkpoint(q)
    BY <1>0, <1>2 DEF Checkpoint, RunRecords
<1>3. CASE FinishRun(q)
    <2>1. StatusOf(worker[q].code) \in Terminal
        BY DEF StatusOf, Terminal
    <2>2. QED
        BY <1>0, <1>3, <2>1 DEF FinishRun, RunRecords
<1>4. QED
    BY <1>1, <1>2, <1>3

\* A row is never deleted and keeps its key.
LEMMA RowsKept ==
    ASSUME TypeOK, [Next]_vars, NEW r \in RunIds, run[r].status # "NONE"
    PROVE  run'[r].status # "NONE" /\ run'[r].key = run[r].key
<1>1. CASE UNCHANGED run
    BY <1>1
<1>2. ASSUME NEW t \in Threads, InsertRun(t)
      PROVE  run'[r].status # "NONE" /\ run'[r].key = run[r].key
    <2>1. PICK q \in RunIds \ Rows : \E R : run' = [run EXCEPT ![q] = R]
        BY <1>2 DEF InsertRun
    <2>2. r # q
        BY <2>1 DEF Rows
    <2>3. QED
        BY <2>1, <2>2 DEF TypeOK
<1>3. ASSUME NEW t \in Threads, Tick(t)
      PROVE  run'[r].status # "NONE" /\ run'[r].key = run[r].key
    BY <1>3 DEF Tick, RequeueStaleRuns, TypeOK, RunRecords
<1>4. ASSUME NEW q \in RunIds, MarkRunRunning(q) \/ Checkpoint(q) \/ FinishRun(q)
      PROVE  run'[r].status # "NONE" /\ run'[r].key = run[r].key
    BY <1>4, RowWrites DEF Terminal
<1>5. QED
    BY <1>1, <1>2, <1>3, <1>4
    DEF Next, vars, Request, Create, CheckConnection, NotConfigured, ReadCursor,
        InsertConflicts, FindByKeyMisses, FindActiveMisses, CreateFails, FindByKey,
        FindActive, TickWithoutRequeue, ScheduleJob, Execute, Begin, ExecuteAborts,
        OpenCredential, SyncReturns, FinishRunFails, UpdateConnectionOutcome,
        UpdateOutcomeFails, Configure, Crash, Advance

\* What the threads rely on is kept by every step.
LEMMA ThreadInvNext == TypeOK /\ ThreadInv /\ [Next]_vars => ThreadInv'
<1> SUFFICES ASSUME TypeOK, ThreadInv, [Next]_vars PROVE ThreadInv'
    OBVIOUS
<1>0. /\ \A r \in RunIds : run[r].status # "NONE" =>
                              run'[r].status # "NONE" /\ run'[r].key = run[r].key
      /\ \A k : Holders(k) # {} => Holders(k)' # {}
    <2>1. \A r \in RunIds : run[r].status # "NONE" =>
                              run'[r].status # "NONE" /\ run'[r].key = run[r].key
        BY RowsKept
    <2>2. QED
        BY <2>1 DEF Holders, Rows
<1>1. ASSUME NEW t \in Threads, Return(t) PROVE ThreadInv'
    BY <1>0, <1>1, ThreadReturn
<1>2. CASE UNCHANGED thread
    BY <1>0, <1>2, ThreadFrame
<1>3. ASSUME NEW t \in Threads, NEW j \in Jobs, NEW k \in Keys \cup {Nil}, Request(t, j, k)
      PROVE  ThreadInv'
    <2>1. /\ thread'[t].pc = "conn" /\ thread'[t].job = j /\ thread'[t].key = k
          /\ thread'[t].held = (Holders(k) # {})
          /\ \A u \in Threads : u # t => thread'[u] = thread[u]
        BY <1>3 DEF Request, TypeOK, Idle
    <2>2. QED
        BY <1>0, <2>1 DEF ThreadInv
<1>4. ASSUME NEW t \in Threads, BeginTick(t) \/ \E j \in Jobs : ScheduleJob(t, j)
      PROVE  ThreadInv'
    <2>1. /\ ~thread'[t].held /\ thread'[t].pc \in {"sched", "conn"}
          /\ thread'[t].pc = "conn" => thread'[t].job \in Jobs
          /\ \A u \in Threads : u # t => thread'[u] = thread[u]
        BY <1>4 DEF BeginTick, ScheduleJob, TypeOK, Idle
    <2>2. QED
        BY <1>0, <2>1 DEF ThreadInv, Creating
<1>5. ASSUME NEW t \in Threads,
             CheckConnection(t) \/ ReadCursor(t) \/ InsertConflicts(t) \/ FindByKeyMisses(t)
      PROVE  ThreadInv'
    <2>1. /\ thread'[t].job = thread[t].job /\ thread'[t].key = thread[t].key
          /\ thread'[t].held = thread[t].held
          /\ thread[t].pc \in Creating
          /\ thread'[t].pc = "active" => Holders(thread[t].key) = {}
          /\ \A u \in Threads : u # t => thread'[u] = thread[u]
        BY <1>5 DEF CheckConnection, ReadCursor, InsertConflicts, FindByKeyMisses, TypeOK,
                    ThreadRecords, Creating
    <2>2. QED
        BY <1>0, <2>1 DEF ThreadInv
<1>6. ASSUME NEW t \in Threads, thread[t].pc = "byKey",
             thread' = [thread EXCEPT ![t].pc = "active", ![t].blind = TRUE]
      PROVE  ThreadInv'
    <2>1. /\ thread'[t].job = thread[t].job /\ thread'[t].key = thread[t].key
          /\ thread'[t].held = thread[t].held /\ thread'[t].blind
          /\ \A u \in Threads : u # t => thread'[u] = thread[u]
        BY <1>6 DEF TypeOK, ThreadRecords
    <2>2. QED
        BY <1>0, <1>6, <2>1 DEF ThreadInv, Creating
<1>7. ASSUME NEW h \in Replicas, Crash(h) PROVE ThreadInv'
    BY <1>0, <1>7 DEF Crash, ThreadInv, Creating, Idle
<1>8. ASSUME NEW t \in Threads, Create(t) PROVE ThreadInv'
    BY <1>8, <1>1, <1>5, <1>6
    DEF Create, NotConfigured, InsertRun, FindActiveMisses, CreateFails, FindByKey, FindActive
<1>9. QED
    BY <1>2, <1>3, <1>4, <1>7, <1>8
    DEF Next, vars, Tick, TickWithoutRequeue, Execute, Begin, MarkRunRunning, ExecuteAborts,
        OpenCredential, Checkpoint, SyncReturns, FinishRun, FinishRunFails,
        UpdateConnectionOutcome, UpdateOutcomeFails, Configure, Advance

\* A retried key is answered with the run that holds it (store.go:273-281).
THEOREM RetriesAreAnswered == Spec => IdempotentReply
<1> DEFINE Answer == \A t \in Threads, r \in RunIds :
                        thread[t].held /\ ~thread[t].blind /\ AnswersExisting(t, r)
                            => run[r].key = thread[t].key
<1>1. Init => ThreadInv
    BY InvInit DEF Inv
<1>2. ThreadInv => Answer
    BY DEF ThreadInv, AnswersExisting, FindByKey, FindActive, Holders
<1>3. ThreadInv /\ [Next]_vars => [Answer]_vars
    BY <1>2
<1>4. Spec => []ThreadInv
    BY <1>1, ThreadInvNext, TypeCorrect, PTL DEF Spec
<1>5. QED
    BY <1>3, <1>4, PTL DEF Spec, IdempotentReply

\* The row of a worker is its own, or was failed when the lease ran out.
Owners ==
    \A r \in RunIds :
        /\ worker[r].pc \in {"launched", "begun"} => run[r].status = "QUEUED"
        /\ worker[r].pc \in {"conn", "sync", "finish"} => run[r].status \in {"RUNNING", "FAILED"}

\* A cursor read and not yet inserted is that of a PARTIAL run of the job.
CursorsRead ==
    \A t \in Threads : thread[t].pc = "insert" /\ thread[t].cursor # 0 =>
        \E q \in RunIds : /\ run[q].job = thread[t].job /\ run[q].status = "PARTIAL"
                          /\ run[q].cursor = thread[t].cursor

\* No worker writes to a PARTIAL row.
LEMMA PartialRowsStay ==
    ASSUME TypeOK, Owners, [Next]_vars, NEW q \in RunIds, run[q].status = "PARTIAL"
    PROVE  run'[q] = run[q]
<1>1. CASE UNCHANGED run
    BY <1>1
<1>2. ASSUME NEW t \in Threads, InsertRun(t) PROVE run'[q] = run[q]
    <2>1. PICK r \in RunIds \ Rows : \E R : run' = [run EXCEPT ![r] = R]
        BY <1>2 DEF InsertRun
    <2>2. QED
        BY <2>1 DEF Rows, TypeOK
<1>3. ASSUME NEW t \in Threads, Tick(t) PROVE run'[q] = run[q]
    BY <1>3 DEF Tick, RequeueStaleRuns, Stale
<1>4. ASSUME NEW r \in RunIds, MarkRunRunning(r) \/ Checkpoint(r) \/ FinishRun(r)
      PROVE  run'[q] = run[q]
    <2>1. r # q
        BY <1>4 DEF MarkRunRunning, Checkpoint, FinishRun, Owners
    <2>2. QED
        BY <1>4, <2>1, RowWrites
<1>5. QED
    BY <1>1, <1>2, <1>3, <1>4
    DEF Next, vars, Request, Create, CheckConnection, NotConfigured, ReadCursor,
        InsertConflicts, FindByKeyMisses, FindActiveMisses, CreateFails, FindByKey,
        FindActive, TickWithoutRequeue, ScheduleJob, Execute, Begin, ExecuteAborts,
        OpenCredential, SyncReturns, FinishRunFails, UpdateConnectionOutcome,
        UpdateOutcomeFails, Configure, Crash, Advance

\* Workers keep to their own rows.
LEMMA OwnersNext == TypeOK /\ Owners /\ [Next]_vars => Owners'
<1> SUFFICES ASSUME TypeOK, Owners, [Next]_vars PROVE Owners'
    OBVIOUS
<1>0. NoWorker.pc = "none"
    BY DEF NoWorker
<1>1. CASE UNCHANGED <<run, worker>>
    BY <1>1 DEF Owners
<1>2. ASSUME NEW t \in Threads, InsertRun(t) PROVE Owners'
    <2>1. PICK r \in RunIds \ Rows :
            /\ run' = [run EXCEPT ![r] =
                [status |-> "QUEUED", job |-> thread[t].job,
                 key |-> IF thread[t].key = Nil THEN r ELSE thread[t].key,
                 cursor |-> thread[t].cursor, startedAt |-> now,
                 by |-> IF t \in Schedulers THEN "scheduler" ELSE "request"]]
            /\ worker' = [worker EXCEPT ![r] =
                [NoWorker EXCEPT !.pc = "launched", !.host = HostOf[t]]]
        BY <1>2 DEF InsertRun
    <2>2. /\ run'[r].status = "QUEUED" /\ worker'[r].pc = "launched"
          /\ \A q \in RunIds : q # r => run'[q] = run[q] /\ worker'[q] = worker[q]
        BY <2>1 DEF TypeOK, NoWorker
    <2>3. QED
        BY <2>2 DEF Owners
<1>3. ASSUME NEW t \in Threads, Tick(t) PROVE Owners'
    <2>1. worker' = worker /\ \A r \in RunIds :
            run'[r].status = IF Stale(r) THEN "FAILED" ELSE run[r].status
        BY <1>3 DEF Tick, BeginTick, RequeueStaleRuns, TypeOK, RunRecords
    <2>2. QED
        BY <2>1 DEF Owners, Stale
<1>4. ASSUME NEW r \in RunIds, Execute(r) PROVE Owners'
    <2>0. \A q \in RunIds : q # r => run'[q] = run[q] /\ worker'[q] = worker[q]
        BY <1>4 DEF Execute, Begin, MarkRunRunning, ExecuteAborts, OpenCredential, ToFinish,
            Checkpoint, SyncReturns, FinishRun, FinishRunFails, UpdateConnectionOutcome,
            UpdateOutcomeFails, TypeOK
    <2>1. CASE ExecuteAborts(r) \/ UpdateConnectionOutcome(r) \/ UpdateOutcomeFails(r)
                \/ FinishRun(r) \/ FinishRunFails(r)
        <3>1. worker'[r].pc \in {"none", "outcome"}
            BY <2>1, <1>0 DEF ExecuteAborts, UpdateConnectionOutcome, UpdateOutcomeFails,
                FinishRun, FinishRunFails, TypeOK, WorkerRecords
        <3>2. QED
            BY <2>0, <3>1 DEF Owners
    <2>2. CASE Begin(r) \/ MarkRunRunning(r)
        BY <2>0, <2>2 DEF Begin, MarkRunRunning, Owners, TypeOK, WorkerRecords, RunRecords
    <2>3. CASE OpenCredential(r) \/ SyncReturns(r)
        <3>1. run' = run /\ worker[r].pc \in {"conn", "sync"}
            BY <2>3 DEF OpenCredential, SyncReturns
        <3>2. ASSUME NEW code, NEW c, ToFinish(r, code, c) PROVE worker'[r].pc = "finish"
            BY <3>2 DEF ToFinish, TypeOK, WorkerRecords
        <3>3. ASSUME worker' = [worker EXCEPT ![r].pc = "sync", ![r].pos = run[r].cursor]
              PROVE  worker'[r].pc = "sync"
            BY <3>3 DEF TypeOK, WorkerRecords
        <3>4. worker'[r].pc \in {"sync", "finish"}
            BY <2>3, <3>2, <3>3 DEF OpenCredential, SyncReturns
        <3>5. QED
            BY <2>0, <3>1, <3>4 DEF Owners
    <2>4. CASE Checkpoint(r)
        BY <2>0, <2>4 DEF Checkpoint, Owners, TypeOK, WorkerRecords, RunRecords
    <2>5. QED
        BY <1>4, <2>1, <2>2, <2>3, <2>4 DEF Execute
<1>5. ASSUME NEW h \in Replicas, Crash(h) PROVE Owners'
    BY <1>0, <1>5 DEF Crash, Owners
<1>6. QED
    BY <1>1, <1>2, <1>3, <1>4, <1>5
    DEF Next, vars, Request, Create, CheckConnection, NotConfigured, ReadCursor,
        InsertConflicts, FindByKeyMisses, FindActiveMisses, CreateFails, FindByKey,
        FindActive, TickWithoutRequeue, BeginTick, ScheduleJob, Configure, Advance

\* A cursor that was read stays that of a PARTIAL run until it is inserted.
LEMMA CursorsReadNext == TypeOK /\ Owners /\ CursorsRead /\ [Next]_vars => CursorsRead'
<1> SUFFICES ASSUME TypeOK, Owners, CursorsRead, [Next]_vars, NEW t \in Threads,
                    thread'[t].pc = "insert", thread'[t].cursor # 0
             PROVE  \E q \in RunIds : /\ run'[q].job = thread'[t].job
                                      /\ run'[q].status = "PARTIAL"
                                      /\ run'[q].cursor = thread'[t].cursor
    BY DEF CursorsRead
<1>1. ASSUME ReadCursor(t)
      PROVE  \E q \in RunIds : /\ run[q].job = thread'[t].job /\ run[q].status = "PARTIAL"
                               /\ run[q].cursor = thread'[t].cursor
    <2>1. PICK c \in ResumeCursors(thread[t].job) :
            thread' = [thread EXCEPT ![t].pc = "insert", ![t].cursor = c]
        BY <1>1 DEF ReadCursor
    <2>2. thread'[t].cursor = c /\ thread'[t].job = thread[t].job
        BY <2>1 DEF TypeOK, ThreadRecords
    <2>3. PICK r \in Latest(thread[t].job) :
            c = IF run[r].status = "PARTIAL" THEN run[r].cursor ELSE 0
        BY <2>1, <2>2 DEF ResumeCursors
    <2>4. QED
        BY <2>2, <2>3 DEF Latest, RowsOf, Rows
<1>2. \/ ReadCursor(t)
      \/ thread[t].pc = "insert" /\ thread'[t].job = thread[t].job
            /\ thread'[t].cursor = thread[t].cursor
    <2>0. Idle.pc = "idle"
        BY DEF Idle
    <2>1. ASSUME NEW u \in Threads, Return(u)
          PROVE  u # t /\ thread'[t] = thread[t]
        BY <2>1 DEF Return, TypeOK, Idle
    <2>2. ASSUME NEW u \in Threads, NEW j \in Jobs, NEW k \in Keys \cup {Nil}, Request(u, j, k)
          PROVE  thread'[t] = thread[t]
        BY <2>2 DEF Request, TypeOK, Idle
    <2>3. ASSUME NEW u \in Threads, BeginTick(u) \/ \E j \in Jobs : ScheduleJob(u, j)
          PROVE  thread'[t] = thread[t]
        BY <2>3 DEF BeginTick, ScheduleJob, TypeOK, Idle
    <2>4. ASSUME NEW u \in Threads, CheckConnection(u) \/ InsertConflicts(u) \/ FindByKeyMisses(u)
          PROVE  thread'[t] = thread[t]
        BY <2>4 DEF CheckConnection, InsertConflicts, FindByKeyMisses, TypeOK, ThreadRecords
    <2>5. ASSUME NEW u \in Threads,
                 thread' = [thread EXCEPT ![u].pc = "active", ![u].blind = TRUE]
          PROVE  thread'[t] = thread[t]
        BY <2>5 DEF TypeOK, ThreadRecords
    <2>6. ASSUME NEW u \in Threads, ReadCursor(u) PROVE u = t \/ thread'[t] = thread[t]
        BY <2>6 DEF ReadCursor, TypeOK
    <2>7. ASSUME NEW h \in Replicas, Crash(h) PROVE thread'[t] = thread[t]
        BY <2>0, <2>7 DEF Crash
    <2>8. ASSUME NEW u \in Threads, Create(u) PROVE ReadCursor(t) \/ thread'[t] = thread[t]
        BY <2>8, <2>1, <2>4, <2>5, <2>6
        DEF Create, NotConfigured, InsertRun, FindActiveMisses, CreateFails, FindByKey, FindActive
    <2>9. thread'[t] = thread[t] \/ ReadCursor(t)
        BY <2>2, <2>3, <2>7, <2>8
        DEF Next, vars, Tick, TickWithoutRequeue, Execute, Begin, MarkRunRunning,
            ExecuteAborts, OpenCredential, Checkpoint, SyncReturns, FinishRun,
            FinishRunFails, UpdateConnectionOutcome, UpdateOutcomeFails, Configure, Advance
    <2>10. QED
        BY <2>9
<1>3. PICK q \in RunIds : /\ run[q].job = thread'[t].job /\ run[q].status = "PARTIAL"
                          /\ run[q].cursor = thread'[t].cursor
    BY <1>1, <1>2 DEF CursorsRead
<1>4. run'[q] = run[q]
    BY <1>3, PartialRowsStay
<1>5. QED
    BY <1>3, <1>4

\* Only InsertRun makes a row, with the cursor its thread has read.
LEMMA InsertedFrom ==
    ASSUME TypeOK, [Next]_vars, NEW r \in RunIds, Owners, Inserted(r)
    PROVE  \E t \in Threads : /\ thread[t].pc = "insert"
                              /\ run'[r].job = thread[t].job
                              /\ run'[r].cursor = thread[t].cursor
<1>0. run[r].status = "NONE" /\ run'[r].status = "QUEUED"
    BY DEF Inserted
<1>1. ASSUME NEW t \in Threads, InsertRun(t)
      PROVE  /\ thread[t].pc = "insert" /\ run'[r].job = thread[t].job
             /\ run'[r].cursor = thread[t].cursor
    <2>1. PICK q \in RunIds \ Rows :
            run' = [run EXCEPT ![q] =
                [status |-> "QUEUED", job |-> thread[t].job,
                 key |-> IF thread[t].key = Nil THEN q ELSE thread[t].key,
                 cursor |-> thread[t].cursor, startedAt |-> now,
                 by |-> IF t \in Schedulers THEN "scheduler" ELSE "request"]]
        BY <1>1 DEF InsertRun
    <2>2. q = r
        BY <1>0, <2>1 DEF TypeOK
    <2>3. QED
        BY <1>1, <2>1, <2>2 DEF InsertRun, TypeOK
<1>2. ASSUME NEW t \in Threads, Tick(t) PROVE FALSE
    BY <1>0, <1>2 DEF Tick, RequeueStaleRuns, Stale
<1>3. ASSUME NEW q \in RunIds, MarkRunRunning(q) \/ Checkpoint(q) \/ FinishRun(q) PROVE FALSE
    BY <1>0, <1>3, RowWrites DEF Terminal
<1>4. QED
    BY <1>0, <1>1, <1>2, <1>3
    DEF Next, vars, Request, Create, CheckConnection, NotConfigured, ReadCursor,
        InsertConflicts, FindByKeyMisses, FindActiveMisses, CreateFails, FindByKey,
        FindActive, TickWithoutRequeue, ScheduleJob, Execute, Begin, ExecuteAborts,
        OpenCredential, SyncReturns, FinishRunFails, UpdateConnectionOutcome,
        UpdateOutcomeFails, Configure, Crash, Advance

\* A run that does not start from nothing goes on where a PARTIAL run of its job
\* stopped, although cursor and row are separate statements and whatever the
\* lease (store.go:503-521, engine.go:118-132).
THEOREM PartialRunsAreResumed == Spec => ResumesFromPartial
<1> DEFINE Resume ==
        \A r \in RunIds : Inserted(r) /\ run'[r].cursor # 0 =>
            \E q \in RowsOf(run'[r].job) :
                run[q].status = "PARTIAL" /\ run[q].cursor = run'[r].cursor
<1>1. Init => Owners /\ CursorsRead
    <2>1. NoWorker.pc = "none" /\ Idle.pc = "idle"
        BY DEF NoWorker, Idle
    <2>2. QED
        BY <2>1 DEF Init, Owners, CursorsRead
<1>2. TypeOK /\ Owners /\ CursorsRead /\ [Next]_vars => Resume
    <2> SUFFICES ASSUME TypeOK, Owners, CursorsRead, [Next]_vars, NEW r \in RunIds,
                        Inserted(r), run'[r].cursor # 0
                 PROVE  \E q \in RowsOf(run'[r].job) :
                            run[q].status = "PARTIAL" /\ run[q].cursor = run'[r].cursor
        OBVIOUS
    <2>1. PICK t \in Threads : /\ thread[t].pc = "insert" /\ run'[r].job = thread[t].job
                               /\ run'[r].cursor = thread[t].cursor
        BY InsertedFrom
    <2>2. PICK q \in RunIds : /\ run[q].job = thread[t].job /\ run[q].status = "PARTIAL"
                              /\ run[q].cursor = thread[t].cursor
        BY <2>1 DEF CursorsRead
    <2>3. q \in RowsOf(run'[r].job)
        BY <2>1, <2>2 DEF RowsOf, Rows
    <2>4. QED
        BY <2>1, <2>2, <2>3
<1>3. TypeOK /\ Owners /\ CursorsRead /\ [Next]_vars => [Resume]_vars
    BY <1>2
<1>4. Spec => [](TypeOK /\ Owners /\ CursorsRead)
    BY <1>1, TypeInit, TypeNext, OwnersNext, CursorsReadNext, PTL DEF Spec
<1> HIDE DEF Resume
<1>5. Spec => [][Resume]_vars
    BY <1>3, <1>4, PTL DEF Spec
<1>6. QED
    BY <1>5 DEF ResumesFromPartial, Resume

\* A row that ended stays ended, also when a worker outlives its lease, and no
\* statement but the INSERT makes a row active.
LEMMA EndedRowsStay ==
    ASSUME TypeOK, Owners, [Next]_vars, NEW q \in RunIds, run[q].status # "NONE"
    PROVE  /\ run[q].status \in Terminal => run'[q].status \in Terminal
           /\ run'[q].status \in Active => run[q].status \in Active
           /\ run'[q].job = run[q].job
<1>0. run[q].status \in Active \cup Terminal /\ Active \cap Terminal = {}
    BY DEF TypeOK, RunRecords, Active, Terminal
<1>1. CASE run'[q] = run[q]
    BY <1>1
<1>2. ASSUME NEW t \in Threads, InsertRun(t) PROVE run'[q] = run[q]
    <2>1. PICK r \in RunIds \ Rows : \E R : run' = [run EXCEPT ![r] = R]
        BY <1>2 DEF InsertRun
    <2>2. QED
        BY <2>1 DEF Rows, TypeOK
<1>3. ASSUME NEW t \in Threads, Tick(t)
      PROVE  run'[q] = run[q] \/ /\ run'[q].status = "FAILED" /\ run[q].status = "RUNNING"
                                 /\ run'[q].job = run[q].job
    BY <1>3 DEF Tick, RequeueStaleRuns, Stale, TypeOK, RunRecords
<1>4. ASSUME NEW r \in RunIds, MarkRunRunning(r) \/ Checkpoint(r) \/ FinishRun(r)
      PROVE  /\ run'[q].job = run[q].job
             /\ \/ run'[q].status = run[q].status
                \/ run[q].status = "QUEUED" /\ run'[q].status = "RUNNING"
                \/ run'[q].status \in Terminal
    <2>1. CASE r # q
        BY <1>4, <2>1, RowWrites
    <2>2. CASE MarkRunRunning(q)
        BY <2>2 DEF MarkRunRunning, Owners, TypeOK, RunRecords
    <2>3. CASE Checkpoint(q)
        BY <2>3 DEF Checkpoint, TypeOK, RunRecords
    <2>4. CASE FinishRun(q)
        <3>1. StatusOf(worker[q].code) \in Terminal
            BY DEF StatusOf, Terminal
        <3>2. QED
            BY <2>4, <3>1 DEF FinishRun, TypeOK, RunRecords
    <2>5. QED
        BY <1>4, <2>1, <2>2, <2>3, <2>4
<1>5. \/ run'[q] = run[q]
      \/ \E t \in Threads : InsertRun(t) \/ Tick(t)
      \/ \E r \in RunIds : MarkRunRunning(r) \/ Checkpoint(r) \/ FinishRun(r)
    BY DEF Next, vars, Request, Create, CheckConnection, NotConfigured, ReadCursor,
        InsertConflicts, FindByKeyMisses, FindActiveMisses, CreateFails, FindByKey,
        FindActive, TickWithoutRequeue, ScheduleJob, Execute, Begin, ExecuteAborts,
        OpenCredential, SyncReturns, FinishRunFails, UpdateConnectionOutcome,
        UpdateOutcomeFails, Configure, Crash, Advance
<1>6. QED
    BY <1>0, <1>1, <1>2, <1>3, <1>4, <1>5 DEF Active, Terminal

\* Without an INSERT no row appears.
LEMMA RowsAppear ==
    ASSUME TypeOK, Owners, [Next]_vars, NEW q \in RunIds, run[q].status = "NONE",
           \A t \in Threads : ~InsertRun(t)
    PROVE  run'[q].status = "NONE"
<1>1. ASSUME NEW t \in Threads, Tick(t) PROVE run'[q] = run[q]
    BY <1>1 DEF Tick, RequeueStaleRuns, Stale
<1>2. ASSUME NEW r \in RunIds, MarkRunRunning(r) \/ Checkpoint(r) \/ FinishRun(r)
      PROVE  r # q /\ run'[q] = run[q]
    <2>1. r # q
        BY <1>2 DEF MarkRunRunning, Checkpoint, FinishRun, Owners
    <2>2. QED
        BY <1>2, <2>1, RowWrites
<1>3. QED
    BY <1>1, <1>2
    DEF Next, vars, Request, Create, CheckConnection, NotConfigured, ReadCursor,
        InsertConflicts, FindByKeyMisses, FindActiveMisses, CreateFails, FindByKey,
        FindActive, TickWithoutRequeue, ScheduleJob, Execute, Begin, ExecuteAborts,
        OpenCredential, SyncReturns, FinishRunFails, UpdateConnectionOutcome,
        UpdateOutcomeFails, Configure, Crash, Advance

\* The partial index on active rows holds without being asked: the statements
\* that do not insert never make a second row of a job active.
LEMMA SingleFlightNext ==
    TypeOK /\ Owners /\ SingleFlight /\ [Next]_vars => SingleFlight'
<1> SUFFICES ASSUME TypeOK, Owners, SingleFlight, [Next]_vars PROVE SingleFlight'
    OBVIOUS
<1>0. Active = {"QUEUED", "RUNNING"} /\ "NONE" \notin Active
    BY DEF Active
<1>1. ASSUME NEW t \in Threads, InsertRun(t) PROVE SingleFlight'
    <2>1. PICK r \in RunIds \ Rows :
            run' = [run EXCEPT ![r] =
                [status |-> "QUEUED", job |-> thread[t].job,
                 key |-> IF thread[t].key = Nil THEN r ELSE thread[t].key,
                 cursor |-> thread[t].cursor, startedAt |-> now,
                 by |-> IF t \in Schedulers THEN "scheduler" ELSE "request"]]
        BY <1>1 DEF InsertRun
    <2>2. run'[r].job = thread[t].job /\ \A q \in RunIds : q # r => run'[q] = run[q]
        BY <2>1 DEF TypeOK
    <2>3. \A q \in RunIds : run[q].job = thread[t].job => run[q].status \notin Active
        BY <1>1, <1>0 DEF InsertRun, Conflict, ActiveOf, RowsOf, Rows
    <2>4. QED
        BY <2>2, <2>3 DEF SingleFlight
<1>2. CASE \A t \in Threads : ~InsertRun(t)
    <2>1. ASSUME NEW q \in RunIds, run'[q].status \in Active
          PROVE  run[q].status # "NONE"
        BY <1>0, <1>2, <2>1, RowsAppear
    <2>2. \A q \in RunIds : run'[q].status \in Active =>
                run[q].status \in Active /\ run'[q].job = run[q].job
        BY <2>1, EndedRowsStay
    <2>3. QED
        BY <2>2 DEF SingleFlight
<1>3. QED
    BY <1>1, <1>2

\* Whatever the lease and the timeout, there is at most one active run of a job
\* (the partial unique index of 0001_init.sql is never what stops a statement
\* other than the INSERT), and an ended run never becomes active again.
THEOREM SingleFlightWithoutLease ==
    Spec => /\ []SingleFlight
            /\ [][\A r \in RunIds : run[r].status \in Terminal => run'[r].status \in Terminal]_vars
<1> DEFINE Stay == \A r \in RunIds : run[r].status \in Terminal => run'[r].status \in Terminal
<1>1. Init => Owners /\ SingleFlight
    <2>1. NoWorker.pc = "none" /\ NoRun.status = "NONE"
        BY DEF NoWorker, NoRun
    <2>2. QED
        BY <2>1 DEF Init, Owners, SingleFlight, Active
<1>2. TypeOK /\ Owners /\ [Next]_vars => [Stay]_vars
    <2>1. "NONE" \notin Terminal
        BY DEF Terminal
    <2>2. QED
        BY <2>1, EndedRowsStay
<1>3. Spec => [](TypeOK /\ Owners /\ SingleFlight)
    BY <1>1, TypeInit, TypeNext, OwnersNext, SingleFlightNext, PTL DEF Spec
<1> HIDE DEF Stay
<1>4. Spec => []SingleFlight /\ [][Stay]_vars
    BY <1>2, <1>3, PTL DEF Spec
<1>5. QED
    BY <1>4 DEF Stay

=============================================================================
