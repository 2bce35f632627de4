# A formal model of seo-platform

TLA+ specifications of seo-platform: the sync engine and its table of runs, the
life cycle of provider credentials, the file secret store, the OAuth round trip,
the provider adapters, the report store with its two readers (a program that
uses the Go SDK, and the Console), and the way a process starts. TLC checks the
specifications on small instances; TLAPS proves all of their safety properties
for every value of the constants.

Paths below are relative to the repository. Each definition that models code is
listed with its file and lines under `map` in `PROJECT.json`.

## 1. Inventory of the system

| Component | State it keeps | Operations | Interacts through |
|---|---|---|---|
| Sync engine and scheduler (`internal/sync/engine.go`) | goroutines in `Create`, one `execute` goroutine per run | `Create`, `execute`, `finish`, `tick`, `Run` | the tables `sync_runs` and `provider_connections`, the secret store, providers |
| Run store (`internal/store/store.go`) | `sync_runs`, with a unique index on the idempotency key and a partial one for single flight | `CreateSyncRun`, `MarkRunRunning`, `FinishRun`, `SetRunCursor`, `ResumeCursor`, `RequeueStaleRuns` | shared by all replicas |
| Connection handlers (`internal/httpapi/connections.go`), `ImportConnection` (`platform/platform.go`) | a row of `provider_connections` per provider | set credential, set property, revoke, import, test, list | row, secret store, provider's `Test` and `DiscoverProperties` |
| Secret stores (`internal/secrets`) | encrypted files, or a map in memory | `Put`, `Open`, `Rotate`, `Revoke`, `Close` of a handle | a mutex; the file system |
| OAuth round trip (`internal/httpapi/oauth.go`, `internal/store/oauth.go`) | `oauth_states` | `oauthStart`, `oauthComplete`, clearing expired rows | the browser, the token endpoint, then the connection handlers |
| Provider adapters (`providers/...`) | none; what they collect during a `Sync` | `Sync` with paging, retries, two writes; URL inspection in batches | provider APIs, the sink (`report_rows`, checkpoints) |
| Report store (`internal/store/store.go`) | `report_rows` | `UpsertReportRows`, `ListReportDatasets`, `ListReportRowsPage` | adapters write, SDK and Console read over HTTP |
| Go SDK (`sdk/go/seo/client.go`) | none; its caller a cursor | `ReportRowsPage`, and one stateless request per other method | HTTP |
| Console (`console/src`) | React state: runs, datasets, selection, rows, error | `refresh` and its timer, the effect that loads rows, the choice of a dataset | several requests at a time over HTTP |
| Start-up (`cmd/seo-platform/main.go`, `platform/platform.go`, migrations) | the schema and its ledger, the site and connection rows, three key files | `run`, `platform.New`, `migrate`, the generated keys, `admin bootstrap` | database and data directory, shared by processes |
| HTTP server, auth, registry | configuration | routing, scope checks, one handler per request | HTTP |

What is hard here is what happens between two statements. Replicas, schedulers
and clients race on one table, and a run outlives the request that made it. A
process may die anywhere; the only recovery is a lease. Handlers read a row,
talk to a provider for seconds and then write it back. The browser delivers
callbacks twice, or late. Pages end on exact multiples of the page size. A
listing takes many calls while the table changes under it; the Console has
several calls in the air and takes their answers in any order. A process may be
stopped between any two files of its first start. These are listed with their lines under `hazards` in `PROJECT.json`, each with the
properties that would catch it, or a note why none does yet.

What makes each part correct:

* engine: one worker per job; a lease never expires under a live worker; a
  started run ends; a repeated key is answered with its own run; an ended run
  never changes; a run resumes only from a PARTIAL one;
* connections: only tested pairs are enabled; the row never references a dead
  secret; no secret is left without a reference; an import replaces nothing;
* secret store: operations are atomic, a tombstone is final, files are whole;
* OAuth: a state token works once, for its initiator, until it expires;
* adapters: behind a reported success every usable row is in the store, or a later
  one with its key is; a rejected credential
  is not tried again; `Sync` returns; no cursor skips a URL;
* readers: a listing returns every row once, and ends; what the Console shows
  fits together, and is up to date in the end;
* start-up: every migration takes effect once; keys fit what was stored under
  them; the administrator can get the token; a process serves in the end.

## 2. Modules

| Module | Models | Used by |
|---|---|---|
| `RunLifecycle` | abstract: the life of a row of `sync_runs` | refined by `SyncEngine` |
| `SyncEngine` | engine, scheduler and run store | `MC_SyncEngine`, `SyncEngineProofs` |
| `Connections` | handlers, import, the connection row, liveness of secrets | `MC_Connections`, `ConnectionsProofs` |
| `SecretMap` | abstract: `core.SecretStore`; also the memory store | refined by `SecretFile` |
| `SecretFile` | the file secret store | `SecretFileProofs` |
| `OAuthFlow` | the state token of an authorization | `MC_OAuthFlow`, `OAuthFlowProofs` |
| `ProviderSync` | `Sync` of the three adapters: paging, retries, writes | `ProviderSyncProofs` |
| `UrlInspection` | URL inspection over several runs, and whether it is scheduled | `MC_UrlInspection`, `UrlInspectionProofs` |
| `Reports` | the table of report rows, its writers and its queries | extended by `Listing` and `Console` |
| `Listing` | a program that lists a dataset through the SDK | `Readers` |
| `Console` | the state of the `SeoConsole` component | `Readers` |
| `Readers` | the composition: the store with one reader of either kind | `ReadersProofs` |
| `Startup` | migrations, rows, generated keys, `admin bootstrap` | `StartupProofs` |

How they fit together: `SyncEngine` treats a provider's `Sync` as one call with
any outcome; `ProviderSync` and `UrlInspection` open it up. `UrlInspection` has
one worker because `OneWorkerPerJob` holds. `Connections` treats `Put` and
`Revoke` as atomic because `SecretFile` implements `SecretMap`. The end of
`oauthComplete` is `SetCredential` of `Connections`. In `SyncEngine` the action
`Configure` stands for what the handlers of `Connections` do to a row.
`Reports` takes the writes of `ProviderSync` and `UrlInspection` as transactions
of any content at any moment. `Startup` ends where the engine and the handlers
begin, and `StoreIsReady` says with what.

### SyncEngine

`run` is the table, `worker[r]` the goroutine that executes run r, `thread` the
goroutines inside `Create` and the scheduler's tick, `conn` what the engine reads
and writes of a connection, `now` a clock in seconds. One SQL statement, or one
call to a provider, is one action; each may fail (`CreateFails`,
`ExecuteAborts`, `FinishRunFails`, ...). `Create` is `CheckConnection`,
`ReadCursor`, `InsertRun` or `InsertConflicts`, then `FindByKey` and
`FindActive`. `execute` is `Begin`, `MarkRunRunning`, `OpenCredential`,
`Checkpoint`, `SyncReturns`, `FinishRun`, `UpdateConnectionOutcome`. `Crash(h)`
ends every goroutine of a replica. A context deadline is a bound the clock does
not cross while the goroutine that owns the context is alive. Timestamps have
one second, so "the newest run" may be several; `ResumeCursors` is a set.

### Connections

`conn` is one row (reference, property, enabled), `secret` the state of every
reference, `handler` the requests in flight with what they read, `tested` a
history of the pairs a provider's `Test` accepted. A handler is a sequence of
accesses to the row or the secret store: `SetCredential`/`ImportConnection`,
`PutSecret`, `ValidateOk`, `Swap`, `Retire` or `Undo`; `SetProperty`,
`TestProperty`, `ConfigureProperty`; `RevokeConnection`, `KillSecret`,
`ClearConnection`. With `Faults` statements fail and the process crashes.

`lapses` is a history of what no handler makes good. `"overwrite"`: the two
statements that do not compare, `ConfigureProperty` and `ClearConnection`,
replaced a row that had changed since it was read. `"unfinished"`: a failure or
a crash cut a handler off while it owed a revocation or the clearing of the row.
`NoDanglingRef` and `NoOrphanSecret` say that nothing else loses a secret.

### SecretFile

`file` is the content of each `<id>.secret`, `lock` the mutex, `op` the call of
each goroutine including its temporary file, `handle` what it has opened. A
temporary file is torn until it is written and synced; `Rename` is the moment an
operation takes effect. Any read or write may fail, and `Crash` may come
between any two steps. Encryption appears only as the scope it binds.

### OAuthFlow, ProviderSync, UrlInspection

`OAuthFlow`: `row` is `oauth_states`, `request` the completions in flight;
`origin` and `exchanges` are history. `ConsumeOAuthState` is the
`DELETE ... RETURNING`, `ClearExpired` the statement after it.

`ProviderSync`: a plan is the list of requests a capability takes with the rule
of each: a complete answer (with or without retries), pages up to the Search
Console's cap per day, or pages up to GA4's `RowCount`, which may overstate. A call
succeeds, or fails in one of six ways, and is retried after a backoff; the deadline
may pass at any time. What comes between the answers and the store is modelled by
what it does to a row, its `kind`: an `"unfit"` row (keys, dimensions or the query
missing, a date outside the range) is dropped; a `"misdated"` one makes the Google
adapters fail before anything is written and is dropped by Bing's; a `"twin"` gets
the key of another row, as landing pages do in `safeLandingPage`. `Upsert` is the
transaction of a batch: of the rows with one key the last stays. Then come the two
writes; GA4's quality row is a second write without report rows. The next `Sync`
starts over the report the last one left.

`UrlInspection`: `last` is the newest row of the job, `w` the worker, `covered`
the URLs the current pass has dealt with. The sitemap changes between and during
runs; calls, writes and checkpoints fail; workers die and their lease expires.

### Reports, Listing, Console, Readers

`Reports`: `table[d][k]` is the number of the transaction that stored the row, 0
for none, and `version` counts the transactions. Keys are numbers in text order;
0 is the empty string, so that a row under it would be mistaken for "no cursor",
which is why `UpsertReportRows` refuses one. `ClampLimit`, `Fetched` (one row more
than the limit), `IsNextCursor` and `PageOf` are `ListReportRowsPage`.

`Listing`: one call of `ReportRowsPage` after the other with the cursor of the
answer before; a call fails and is repeated; a body over 4 MiB cannot be decoded,
now or on another attempt, and the listing stops there (what the caller makes of
the error is its own affair). `base` is the dataset at the beginning, a history variable.

`Console`: `refreshes` and `loads` are the calls under way. The requests of a
refresh are answered one by one, so its lists may differ in age; `RefreshApplies`
is `Promise.all` with its setters, the render and the effect that cancels the load
before it and sends another; `LoadArrives` looks at the flag `active`. A list of
runs is the version it was read at. Go encodes a nil slice as `null`, which is the
set `Null` here, and a render over it throws (`up` becomes FALSE).

`Readers` puts one reader at a time in front of the store: readers write nothing,
so two of them do not interact.

### Startup

`proc[p]` is a process with the step it is at, `cmd[a]` a call of
`admin bootstrap`. `applied` counts how often a script took effect, `ledger` is
`schema_migrations`; `masterFile`, `hashFile` and `tokenFile` are files, `sealed`
the keys credentials were stored under, `shown` the tokens printed. Random values
are numbered as they are drawn. The token and its hash have the same number. Each
statement and each rename is a step, and any of them may fail or be the last
(`StepFails`, `WriteTokenFails`, `Stop`, `CommandStops`). Three deployments:
`"generated"` (one process, keys in files), `"provided"` (processes that share a
database, keys from the environment) and `"embedded"` (`platform.New` in a host).
`lapses` names the three ways in which a token gets lost.

## 3. Runs

| Run | Instance | States | Shows |
|---|---|---|---|
| `engine_safety` | 2 replicas, scheduler and client, 2 runs of one job, one key, clock to 2 | 623K | types, `OneWorkerPerJob`, `LiveWorkerOwnsRun`, `IdempotentReply`, refinement of `RunLifecycle` |
| `engine_recovery` | one replica, 2 runs, checkpoints, connection configured or not, clock to 4, fair | 141K | `StartedRunEnds`, `ResumesFromPartial` |
| `connection_races` | 3 handlers, all operations, 3 references, a property, faults | 482K | types, `EnabledIsTested`, `EnabledHasProperty`, `ImportNeverReplaces`, `NoDanglingRef`, `NoOrphanSecret` |
| `secret_store` | 2 goroutines, 2 references, 2 scopes, 2 materials, fair | 240K | whole files, refinement of `SecretMap`, `OperationsReturn` |
| `oauth_state` | 2 tokens, 2 providers, 2 subjects, 2 concurrent completions, clock to 2 | 10K | `SingleUse`, `RedeemerIsInitiator`, `TokenSurvivesStrangers` |
| `provider_fetch` | 5 capabilities of 3 adapters, pages of 2, cap of 4, up to 5 rows per request, the third row of one request odd, 3 attempts, fair | 1104K | `ResultIsHonest`, `TotalsBeforeDetails`, `NoCallAfterDenial`, `SyncTerminates` |
| `inspection_passes` | sitemaps of 1 to 3 URLs, batches of 2, 2 edits, 3 faults, fair | 22K | `ResumePointIsCovered`, `PassIsComplete`, `PassesComplete` |
| `readers` | 2 datasets, 4 keys, limits 0, 1, 3 and 4 (default 2, largest 3), a write, a failing call, 2 refreshes and 2 loads at once, fair | 173K | types, `ListingIsExact`, `ScreenIsConsistent`, `ListingEnds`, `ConsoleCatchesUp` |
| `startup` | all deployments, 2 processes, 2 commands, 3 migrations, 2 providers, 3 faults, fair | 57K | types, `StoreIsReady`, `CredentialsStayReadable`, `ShownTokenWorks`, `NoLockout`, `StartCompletes` |
| `engine_queued` | one run, one replica | violated | a QUEUED run whose process died is never recovered |
| `connection_stale_property` | a rotation and a property change | violated | the retired reference is written back |
| `console_fresh_store` | a store without rows | violated | the first refresh takes the Console down |

The last three state what a comment, or the API description, says and TLC
refutes; each is a finding in `PROJECT.json` with the line quoted:

* `RequeueStaleRuns` looks at RUNNING rows only. A process that dies between the
  INSERT and `MarkRunRunning`, or whose `MarkRunRunning` fails, leaves a QUEUED
  row that blocks its job for ever.
* `setProperty` uses `ConfigureConnection` with the reference it read before the
  test, not the compare-and-swap.
* `ListReportDatasets` returns a nil slice for a store without rows, which is sent
  as `null`; `SeoConsole` indexes it and takes its length.

**What the model shows without a run.** Two more disagreements need no search.
`tick` calls `Create` for every capability whatever the last outcome was, while
`core/errors.go:23-24` says that an unauthorized provider is paused: in
`SyncEngine`, no guard of `ScheduleJob` mentions `lastError`. And the default
range of 30 days is wider than the one day URL inspection allows; `resolveRange`
rejects instead of clipping, so with the default `LookbackDays` the guard of
`ScheduledStart` in `UrlInspection` is never true.

**Bounds.** Two runs of one job are enough for every pair of rows the indexes,
the lease or `ResumeCursor` relate. The clock reaches past one timeout plus one
lease (`MaxTime = Horizon + Timeout + Lease + 1` where leases must expire), so
expiry really happens. Three handlers allow a rotation inside a rotation with an
onlooker; three references let each of them put one. `MaxRows = 5` with pages of 2 and a cap of 4 covers the empty result,
a partial page, exact multiples, exactly the cap and beyond; the odd row is the
third, so that it is on another page than the row whose key it shares. Batches of 2 over
up to 3 URLs give passes of one and of two runs and cursors beyond a shrunk
sitemap. Four keys with pages of 1, 2 and 3 give listings of one page, of several
and of an exact multiple, and a row above, between or below the cursor at the
write; the limits take the default, the largest and one beyond it, and a page of 3
rows is over the SDK's bound of 2. One write suffices because `base` compares with
a single earlier version; two refreshes and two loads are the least that overlap.
Three faults in `startup` are a stop, one in the restart after it, and one in the
command. `engine_safety` runs under a view without `lastError`, which no guard
reads.

**Deadlock** is not checked for `SyncEngine`, `Connections`, `Readers` and
`Startup`: with the clock at its bound, all references used, the listing at its
end, or the Console taken down, the instance rightly stops. Liveness is stated
instead.

**Fairness.** Goroutines that can run do run (weak fairness of every step of
`Create`, of the tick and of `execute`), since the Go scheduler is fair and a
dead process is restarted. Time passes. The tick is strongly fair: the requeue
statement may fail, but not at every tick. A provider call returns, because its
context has a deadline (weak fairness of `Step` in `ProviderSync`, of `Work` in
`UrlInspection`). Lock acquisition is strongly fair: `sync.Mutex` hands over to
a waiter after one millisecond. In `Readers` calls are answered, the caller goes
on with its loop and the timer keeps calling `refresh` (weak fairness). Applying a
refresh, and the answer to the load that is wanted and its arrival, are strongly
fair: every refresh cancels the load under way, and that some load completes
between two of them is true because `REFRESH_MS` is well above the time of a
request; with a server slower than the timer it would not be. In `Startup` a
process takes its steps, and one that exited is started again, by a service manager or
by hand. Nobody is assumed to send requests, edit a sitemap or fail.

**Mutants.** Every property of a passing run has a mutant: a plausible bug,
written just before the definition it replaces and marked `Mutant`, under which
TLC must find that property violated.

## 4. Proofs

The proof modules hold no assumptions other than the named `ASSUME`s on the
constants.

**SyncEngineProofs** (any runs, jobs, threads, replicas, times).
`TypeCorrect` is inductive by itself. `LiveWorkerOwnsRun` is not: nothing in it
stops `RequeueStaleRuns` from failing the row of a slow worker. The invariant
`Inv` adds `Deadlines`, which says how far a live worker may lag behind the
`started_at` of its row (Timeout, and Grace more in `finish`), and the facts the
unique indexes maintain. From `LeaseCoversTimeout`
(`Timeout + Grace <= Lease`; the defaults are 10m + 30s against 30m) follows
`StaleIsDead`: a row old enough to be requeued has no worker. Then come
`LiveWorkersOwnTheirRuns`, `SingleWorker` (single flight plus ownership) and
`LifecycleImplemented` (each action maps to a step of `RunLifecycle` or a
stutter). Without `LeaseCoversTimeout` these three are false, and the code does
not enforce it: `SEO_SYNC_TIMEOUT` is free and the lease is fixed.

What remains true whatever the lease rests on `Owners`: the row of a worker is
still QUEUED until it is marked, and then RUNNING or, at worst, FAILED by a
requeue; so a late worker never touches a row that ended in another way.
`RetriesAreAnswered` needs in addition that a held key stays held (`ThreadInv`),
`PartialRunsAreResumed` that a cursor read and not yet inserted is that of a
PARTIAL run (`CursorsRead`; PARTIAL rows never change). `SingleFlightWithoutLease`
says that no UPDATE makes a second run of a job active and that an ended run stays
ended: with a lease that is too short two workers may overlap, but the table keeps
its order.

**ConnectionsProofs** (any handlers, references, properties, with faults).
`Inv` adds `HandlerInv`: what a handler is about to write has been tested as a
whole. It yields `TypeCorrect`, `OnlyTestedPairsAreEnabled`,
`EnabledConnectionsAreComplete` and `ImportsNeverReplace`.
`InstalledSecretIsLive` and `NoSecretIsOrphaned` hold for all operations, with
failures and crashes. Neither is inductive, and the strengthening, as long as
`lapses` is empty, is an account of who is responsible for every live secret:
`Owned` (a reference that a handler has put and not installed belongs to it
alone), `Referenced` (the installed reference is live, or the revocation that
killed it is about to clear the row), `Accounted` (a live secret is installed or owed by some handler).

**SecretFileProofs** (any goroutines, references, scopes, materials). `Inv` is
mutual exclusion plus `WritesReady`: what a goroutine read under the mutex is
still in its file, and what it is about to write is what the abstract operation
would store. It yields `FilesAreWhole` and `StoreIsAtomic`: `Rename` is `Put`,
`Rotate` or `Revoke`, `Open` is `Open`, and all other steps stutter. From the
refinement follows what callers rely on, `RevocationIsFinal`. `MutexIsHandedBack`
is the safety half of `OperationsReturn`: the mutex is held only inside a call, and
every step brings that call closer to its end.

**ProviderSyncProofs** (any page size, cap, number of attempts, rows and odd rows).
`ResultIsHonest` speaks of the end of a `Sync`; the invariant follows it there.
`Place` ties `pc`, `req` and `attempt` together. `Fetched` is the heart: every
request that is behind has been fetched as far as the provider serves it (`Got`),
of the one under way everything up to `offset` has, and a partial result comes with
a day that reached the cap. `PageFacts` is the arithmetic of a page: one that is
complete, or the last before the cap, brings all that was missing. `UpsertHolds` is
what a write does: the store then holds each row of the batch or a later one with
its key (that there is a last one, `LastRow`, comes from the well-foundedness of the
naturals), and loses nothing of other requests. `Written` carries the rows into the
store with it. They yield `ResultsAreHonest`, and, as the totals are never
capped and are written first, `DetailsFollowTotals`. `Denied` (after a rejection
there is only the way out) yields `DenialEndsCalls`. `SyncIsBounded` is the safety
half of `SyncTerminates`: offsets are bounded although GA4's `RowCount` may
overstate, and every step moves on in the lexicographic order of requests, pages,
attempts and phases.

**OAuthFlowProofs** (any tokens, providers, sessions, completions). `SingleUse`
counts exchanges, which no guard looks at. `OnePlace` says where a token can be:
not issued, in the table, in exactly one request between the DELETE and the
exchange, or spent. It yields `TokensWorkOnce` and, with the request's match kept
beside it, `OnlyInitiatorsRedeem`; `TokensSurviveStrangers` is about single steps.

**UrlInspectionProofs** (any sitemaps, batch sizes, edits, faults). The properties
speak of the moment a run has ended; the invariant follows the worker to it.
`Position` says that what lies between its offset and where it is has been covered
or is among its rows, and that without an error these rows are stored before a
cursor is written; `Unedited`, that the worker's copy is the present sitemap and
what lies before its offset is covered; `Busy`, that its run is RUNNING. From
`BatchCovered` follow `ResumePointsAreCovered` and `PassesAreComplete`.
`PartialRunsMoveOn`: a PARTIAL run is a whole batch further than it started, so a
pass cannot stand still.

**ReadersProofs** (any datasets, keys, limits, writes, calls). First the query:
`PageIsUpperPart` and `PageFacts` show from facts about cardinality that a page is
the upper part of what lies below the cursor, cut exactly at the new cursor. Then
`ListingsAreExact` from `Collected` (what lies at or above the cursor and was there
at the start has been received once, nothing below it has) and `OnItsWay` (the
same for the page in flight, although the table may have changed since it was
read). `ScreensAreConsistent` rests on `Wanted`: an active load is for the
selected dataset and, once answered, at least as new as the runs shown, because
applying a refresh sends a new load after its lists were read. `CursorsGoDown` is
the safety half of `ListingEnds`: each page but the last moves the cursor strictly
down.

**StartupProofs** (any processes, commands, migrations, providers, faults).
`Migrated` says that the ledger is a prefix and holds what a process is past;
`Alone`, that generated keys are used by one process; `KeysAgree`, that whoever
holds a key holds the one in the file. `TokenInv` follows a token from the draft
through the hash to the file, the command and the screen. `DrawsBounded` counts
the random values against the faults, so that the numbering never runs out.
`NothingIsUndone` is why restarts get further: no stop leaves a file that a later
start refuses, and no key in use and no row is ever replaced or taken back.

**Only model-checked:** liveness (`StartedRunEnds`, `OperationsReturn`,
`SyncTerminates`, `PassesComplete`, `ListingEnds`, `ConsoleCatchesUp`,
`StartCompletes`): fairness and ENABLED are out of the prover's reach, and so is the
induction that turns a decreasing measure into an end. The measures themselves are
proved for `ProviderSync`, `SecretFile`, `UrlInspection`, `Listing` and, as far as
it concerns what a start leaves behind, `Startup`. Every invariant and every action
property a passing run checks has its theorem.

## 5. What is not modelled

* Audit rows (append-only, read by nothing), routing, scope checks, JSON, logs.
* `validateConfig`, the checks of the environment, the registry: they run before
  any state is touched, or once.
* The strings that dates, URLs and keys are made of: `ProviderSync` has which rows
  are dropped, refused or given a shared key, and not for which spelling.
* The dialogs of a provider card in the Console (local form state over one
  request each), its OAuth pages, and the rendering. The methods of the SDK other
  than `ReportRowsPage`: one stateless request each.
* Two first starts at once with generated keys: the code has no lock against them
  and the deployment is for one process; noted as a hazard.
* An outcome a run stores after the credential it used was replaced: engine and
  handlers are modelled apart, the next run corrects it; noted as a hazard.
* Loss of power: a rename is taken to be durable although the directory is not
  synced.
* The contract test kit and the deployment files hold no state.

## 6. Plan

Built in this order, the most important first: `SyncEngine` with `RunLifecycle`,
`Connections`, `UrlInspection`, `ProviderSync`, `OAuthFlow`, `SecretFile` with
`SecretMap`, then `Startup` and `Reports` with its readers; their proofs along
with them.

Next, theorems that no run's property states yet:

1. `SyncEngine`: the safety half of `StartedRunEnds`, that a RUNNING row has a
   worker within its deadlines or is one the next tick after its lease fails.
2. `Console`: that a refresh that is applied leaves exactly one load that is wanted,
   the safety half of `ConsoleCatchesUp`.
3. `Connections`: what a lapse can cost at most (one secret per lapse).
