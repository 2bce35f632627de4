------------------------------ MODULE Startup ------------------------------
(***************************************************************************)
(* How a process of the platform gets ready to serve, and what a fault on  *)
(* the way leaves behind: the migrations, the rows of the site and its     *)
(* connections, the generated master key, the generated API key and the    *)
(* command that shows it once.                                             *)
(*                                                                         *)
(* A deployment is one of                                                  *)
(*   "generated"  one standalone process at a time, its keys kept in files *)
(*   "provided"   standalone processes that share a database and take      *)
(*                their keys from the environment                          *)
(*   "embedded"   platform.New in a host that brings secrets and auth      *)
(* Every statement and every file operation is a step: a process can be    *)
(* stopped after each, each can fail, and the process then exits and is    *)
(* started again.                                                          *)
(***************************************************************************)
EXTENDS Integers, FiniteSets

CONSTANTS
    Deployments,    \* the deployments considered
    Procs, Cmds,    \* processes; calls of "seo-platform admin bootstrap"
    Migrations,     \* the number of migration files
    Providers,      \* the registered providers
    MaxFaults       \* stops and failing operations in a behaviour (bound)

ASSUME StartupAssumption ==
    /\ Deployments \subseteq {"generated", "provided", "embedded"}
    /\ Migrations \in Nat
    /\ MaxFaults \in Nat

VARIABLES
    deployment,     \* fixed for a behaviour
    proc,           \* proc[p]: a process and what it holds in memory
    cmd,            \* cmd[a]: a call of admin bootstrap
    applied,        \* applied[m]: how often the script of migration m took effect
    ledger,         \* schema_migrations
    site,           \* the row of the site is there
    connections,    \* providers that have a connection row
    masterFile, hashFile, tokenFile,    \* contents of the three files
    drawn,          \* random values drawn so far: value n is the n-th
    sealed,         \* master keys that stored credentials are encrypted under
    shown,          \* shown[n]: how often token n was printed
    faults,         \* stops and failures so far
    lapses          \* history: what cost the administrator the token

fileVars == <<masterFile, hashFile, tokenFile>>
dbVars == <<applied, ledger, site, connections>>
historyVars == <<sealed, shown, lapses>>
vars == <<deployment, proc, cmd, dbVars, fileVars, drawn, historyVars, faults>>

Absent == 0                 \* no such file, and no value in memory
Torn == -1                  \* a file whose contents do not parse
ProvidedKey == 1000         \* the key of the environment or of the host

Values == 1..2 * (MaxFaults + 1)
Contents == Values \cup {Absent}

Down == [pc |-> "down", next |-> 1, draft |-> Absent, key |-> Absent]

Steps == {"check", "apply", "site", "read_master", "write_master", "read_hash",
          "write_hash", "write_token", "connections"}

\* Every variable keeps its type; no file is ever torn, for a file gets its name
\* by a rename only (writeSecretFile), and the random values do not run out.
TypeOK ==
    /\ deployment \in Deployments
    /\ proc \in [Procs -> [pc : Steps \cup {"down", "serving"},
                           next : 1..Migrations + 1,
                           draft : Values \cup {Absent},
                           key : Values \cup {Absent, ProvidedKey}]]
    /\ cmd \in [Cmds -> [pc : {"idle", "read", "removed", "ended"},
                         token : Values \cup {Absent}]]
    /\ applied \in [1..Migrations -> Nat] /\ ledger \subseteq 1..Migrations
    /\ site \in BOOLEAN /\ connections \subseteq Providers
    /\ {masterFile, hashFile, tokenFile} \subseteq Contents
    /\ drawn \in 0..2 * (MaxFaults + 1)
    /\ sealed \subseteq Values \cup {ProvidedKey}
    /\ shown \in [Values -> Nat]
    /\ faults \in 0..MaxFaults
    /\ lapses \subseteq {"stop", "cleanup", "command"}

-----------------------------------------------------------------------------
Init ==
    /\ deployment \in Deployments
    /\ proc = [p \in Procs |-> Down]
    /\ cmd = [a \in Cmds |-> [pc |-> "idle", token |-> Absent]]
    /\ applied = [m \in 1..Migrations |-> 0] /\ ledger = {}
    /\ site = FALSE /\ connections = {}
    /\ masterFile = Absent /\ hashFile = Absent /\ tokenFile = Absent
    /\ drawn = 0
    /\ sealed = {} /\ shown = [n \in Values |-> 0]
    /\ faults = 0 /\ lapses = {}

Goto(p, step) == proc' = [proc EXCEPT ![p].pc = step]

Exit(p) == proc' = [proc EXCEPT ![p] = Down]

Fault == faults < MaxFaults /\ faults' = faults + 1

-----------------------------------------------------------------------------
(***************************************************************************)
(* The database.                                                           *)
(***************************************************************************)
\* run, or New, is called.  Generated keys are for one process at a time.
Start(p) ==
    /\ proc[p].pc = "down"
    /\ deployment = "generated" => \A q \in Procs : proc[q].pc = "down"
    /\ Goto(p, "check")
    /\ UNCHANGED <<deployment, cmd, dbVars, fileVars, drawn, historyVars, faults>>

\* SELECT COUNT(*) for the next migration; what is applied is skipped.
CheckMigration(p) ==
    /\ proc[p].pc = "check"
    /\ CASE proc[p].next > Migrations -> Goto(p, "site")
         [] proc[p].next \in ledger -> proc' = [proc EXCEPT ![p].next = @ + 1]
         [] OTHER -> Goto(p, "apply")
    /\ UNCHANGED <<deployment, cmd, dbVars, fileVars, drawn, historyVars, faults>>

\* Mutant: the script and its row in the ledger are committed one by one.
ApplyUnlogged(p) ==
    /\ proc[p].pc = "apply" /\ proc[p].next \notin ledger
    /\ applied' = [applied EXCEPT ![proc[p].next] = @ + 1]
    /\ \/ /\ ledger' = ledger \cup {proc[p].next}
          /\ proc' = [proc EXCEPT ![p].pc = "check", ![p].next = @ + 1]
          /\ UNCHANGED faults
       \/ UNCHANGED ledger /\ Exit(p) /\ Fault
    /\ UNCHANGED <<deployment, cmd, site, connections, fileVars, drawn, historyVars>>

\* One transaction runs the script and inserts the ledger's row.  When another
\* process has applied it since the check, the primary key rolls it back.
ApplyMigration(p) ==
    /\ proc[p].pc = "apply"
    /\ LET m == proc[p].next
       IN  IF m \in ledger
           THEN Exit(p) /\ UNCHANGED <<applied, ledger>>
           ELSE /\ applied' = [applied EXCEPT ![m] = @ + 1]
                /\ ledger' = ledger \cup {m}
                /\ proc' = [proc EXCEPT ![p].pc = "check", ![p].next = m + 1]
    /\ UNCHANGED <<deployment, cmd, site, connections, fileVars, drawn, historyVars, faults>>

\* Where run and New go on: keys come from files, from the environment or from
\* the host.
AfterSite(p) ==
    IF deployment = "generated"
    THEN Goto(p, "read_master")
    ELSE proc' = [proc EXCEPT ![p].pc = "connections", ![p].key = ProvidedKey]

EnsureSite(p) ==
    /\ proc[p].pc = "site"
    /\ site' = TRUE
    /\ AfterSite(p)
    /\ UNCHANGED <<deployment, cmd, applied, ledger, connections, fileVars, drawn,
                   historyVars, faults>>

\* One statement per provider, in the order of the names; the engine and the
\* listener follow the last.
EnsureConnection(p) ==
    /\ proc[p].pc = "connections"
    /\ \/ /\ \E provider \in Providers \ connections :
                connections' = connections \cup {provider}
          /\ UNCHANGED proc
       \/ /\ connections = Providers
          /\ Goto(p, "serving")
          /\ UNCHANGED connections
    /\ UNCHANGED <<deployment, cmd, applied, ledger, site, fileVars, drawn,
                   historyVars, faults>>

-----------------------------------------------------------------------------
(***************************************************************************)
(* The generated keys.  A file is written to a temporary file that is then *)
(* renamed over it: the draft stands for the temporary file, which a stop  *)
(* leaves behind without harm.                                             *)
(***************************************************************************)
\* A fresh random value for p's draft, to be written in step.
Draw(p, step) ==
    /\ drawn' = drawn + 1
    /\ proc' = [proc EXCEPT ![p].pc = step, ![p].draft = drawn + 1]

\* Mutant: a file that cannot be read is taken for one that is not there.
ReadOrReplaceMasterKey(p) ==
    /\ proc[p].pc = "read_master"
    /\ \/ Draw(p, "write_master") /\ Fault
       \/ /\ IF masterFile = Absent THEN Draw(p, "write_master")
             ELSE /\ proc' = [proc EXCEPT ![p].pc = "read_hash", ![p].key = masterFile]
                  /\ UNCHANGED drawn
          /\ UNCHANGED faults
    /\ UNCHANGED <<deployment, cmd, dbVars, fileVars, historyVars>>

\* loadOrCreateHexSecret: the file is used, created when there is none, and
\* refused when it does not parse.
ReadMasterKey(p) ==
    /\ proc[p].pc = "read_master"
    /\ CASE masterFile = Absent -> Draw(p, "write_master")
         [] masterFile = Torn -> Exit(p) /\ UNCHANGED drawn
         [] OTHER -> /\ proc' = [proc EXCEPT ![p].pc = "read_hash", ![p].key = masterFile]
                     /\ UNCHANGED drawn
    /\ UNCHANGED <<deployment, cmd, dbVars, fileVars, historyVars, faults>>

\* Mutant: the key file is written in place and may be cut off.
WriteMasterInPlace(p) ==
    /\ proc[p].pc = "write_master"
    /\ \/ /\ masterFile' = proc[p].draft
          /\ proc' = [proc EXCEPT ![p].pc = "read_hash", ![p].key = proc[p].draft]
          /\ UNCHANGED faults
       \/ masterFile' = Torn /\ Exit(p) /\ Fault
    /\ UNCHANGED <<deployment, cmd, dbVars, hashFile, tokenFile, drawn, historyVars>>

\* writeSecretFile ends with the rename.
WriteMasterKey(p) ==
    /\ proc[p].pc = "write_master"
    /\ masterFile' = proc[p].draft
    /\ proc' = [proc EXCEPT ![p].pc = "read_hash", ![p].key = proc[p].draft]
    /\ UNCHANGED <<deployment, cmd, dbVars, hashFile, tokenFile, drawn, historyVars,
                   faults>>

\* loadOrCreateBootstrapAPIKey: a hash that is there is used.
ReadHash(p) ==
    /\ proc[p].pc = "read_hash"
    /\ CASE hashFile = Absent -> Draw(p, "write_hash")
         [] hashFile = Torn -> Exit(p) /\ UNCHANGED drawn
         [] OTHER -> Goto(p, "connections") /\ UNCHANGED drawn
    /\ UNCHANGED <<deployment, cmd, dbVars, fileVars, historyVars, faults>>

WriteHash(p) ==
    /\ proc[p].pc = "write_hash"
    /\ hashFile' = proc[p].draft
    /\ Goto(p, "write_token")
    /\ UNCHANGED <<deployment, cmd, dbVars, masterFile, tokenFile, drawn, historyVars,
                   faults>>

\* Mutant: the token file is written in place, and a stop cuts it off.
WriteTokenInPlace(p) ==
    /\ proc[p].pc = "write_token"
    /\ \/ /\ tokenFile' = proc[p].draft
          /\ Goto(p, "connections") /\ UNCHANGED <<faults, lapses>>
       \/ /\ tokenFile' = Torn
          /\ Exit(p) /\ Fault /\ lapses' = lapses \cup {"stop"}
    /\ UNCHANGED <<deployment, cmd, dbVars, masterFile, hashFile, drawn, sealed, shown>>

WriteToken(p) ==
    /\ proc[p].pc = "write_token"
    /\ tokenFile' = proc[p].draft
    /\ Goto(p, "connections")
    /\ UNCHANGED <<deployment, cmd, dbVars, masterFile, hashFile, drawn, historyVars,
                   faults>>

\* Mutant: the hash of a token that was not written stays.
WriteTokenFailsLeavesHash(p) ==
    /\ proc[p].pc = "write_token"
    /\ Fault
    /\ Exit(p)
    /\ UNCHANGED <<deployment, cmd, dbVars, fileVars, drawn, historyVars>>

\* The token cannot be written: the hash is taken back, so that the next start
\* draws a new token, unless that fails as well, which nothing notices.
WriteTokenFails(p) ==
    /\ proc[p].pc = "write_token"
    /\ Fault
    /\ \/ hashFile' = Absent /\ UNCHANGED lapses
       \/ lapses' = lapses \cup {"cleanup"} /\ UNCHANGED hashFile
    /\ Exit(p)
    /\ UNCHANGED <<deployment, cmd, dbVars, masterFile, tokenFile, drawn, sealed, shown>>

-----------------------------------------------------------------------------
\* Any other statement or file operation fails: run and New return the error.
StepFails(p) ==
    /\ proc[p].pc \in Steps \ {"write_token"}
    /\ Fault
    /\ Exit(p)
    /\ UNCHANGED <<deployment, cmd, dbVars, fileVars, drawn, historyVars>>

\* The process is stopped or dies.  Between the hash and the token this costs
\* the administrator the token.
Stop(p) ==
    /\ proc[p].pc # "down"
    /\ Fault
    /\ Exit(p)
    /\ lapses' = lapses \cup IF proc[p].pc = "write_token" THEN {"stop"} ELSE {}
    /\ UNCHANGED <<deployment, cmd, dbVars, fileVars, drawn, sealed, shown>>

\* A serving process stores a credential.
StoreCredential(p) ==
    /\ proc[p].pc = "serving"
    /\ sealed' = sealed \cup {proc[p].key}
    /\ UNCHANGED <<deployment, proc, cmd, dbVars, fileVars, drawn, shown, lapses, faults>>

-----------------------------------------------------------------------------
(***************************************************************************)
(* seo-platform admin bootstrap.                                           *)
(***************************************************************************)
ReadToken(a) ==
    /\ cmd[a].pc = "idle"
    /\ cmd' = [cmd EXCEPT ![a] = IF tokenFile = Absent
                                 THEN [pc |-> "ended", token |-> Absent]
                                 ELSE [pc |-> "read", token |-> tokenFile]]
    /\ UNCHANGED <<deployment, proc, dbVars, fileVars, drawn, historyVars, faults>>

\* Mutant: the command does not mind a token that is gone already.
RemoveAnyToken(a) ==
    /\ cmd[a].pc = "read"
    /\ cmd' = [cmd EXCEPT ![a].pc = "removed"]
    /\ tokenFile' = Absent
    /\ UNCHANGED <<deployment, proc, dbVars, masterFile, hashFile, drawn, historyVars,
                   faults>>

\* os.Remove fails when another call removed the file first.
RemoveToken(a) ==
    /\ cmd[a].pc = "read"
    /\ cmd' = [cmd EXCEPT ![a].pc = IF tokenFile = Absent THEN "ended" ELSE "removed"]
    /\ tokenFile' = Absent
    /\ UNCHANGED <<deployment, proc, dbVars, masterFile, hashFile, drawn, historyVars,
                   faults>>

PrintToken(a) ==
    /\ cmd[a].pc = "removed"
    /\ cmd' = [cmd EXCEPT ![a].pc = "ended"]
    /\ shown' = [shown EXCEPT ![cmd[a].token] = @ + 1]
    /\ UNCHANGED <<deployment, proc, dbVars, fileVars, drawn, sealed, lapses, faults>>

\* The command dies, or its read or remove fails.
CommandStops(a) ==
    /\ cmd[a].pc \in {"idle", "read", "removed"}
    /\ Fault
    /\ cmd' = [cmd EXCEPT ![a].pc = "ended"]
    /\ lapses' = lapses \cup IF cmd[a].pc = "removed" THEN {"command"} ELSE {}
    /\ UNCHANGED <<deployment, proc, dbVars, fileVars, drawn, sealed, shown>>

-----------------------------------------------------------------------------
Advance(p) ==
    \/ CheckMigration(p) \/ ApplyMigration(p) \/ EnsureSite(p) \/ EnsureConnection(p)
    \/ ReadMasterKey(p) \/ WriteMasterKey(p)
    \/ ReadHash(p) \/ WriteHash(p) \/ WriteToken(p)

Next ==
    \/ \E p \in Procs :
          \/ Start(p)
          \/ Advance(p)
          \/ WriteTokenFails(p)
          \/ StepFails(p)
          \/ Stop(p)
          \/ StoreCredential(p)
    \/ \E a \in Cmds :
          \/ ReadToken(a)
          \/ RemoveToken(a)
          \/ PrintToken(a)
          \/ CommandStops(a)

\* A process takes its steps, and one that exited is started again.
Fairness == \A p \in Procs : WF_vars(Start(p)) /\ WF_vars(Advance(p))

Spec == Init /\ [][Next]_vars /\ Fairness

-----------------------------------------------------------------------------
\* The schema is what the ledger says, after any race and any stop: every
\* migration in it took effect once, in order, and no other did (migrate).  And
\* a process that serves has all of it, the row of its site and a connection
\* row for each provider (run, platform.New).
StoreIsReady ==
    /\ \A m \in 1..Migrations :
          /\ applied[m] = IF m \in ledger THEN 1 ELSE 0
          /\ m \in ledger => \A k \in 1..m : k \in ledger
    /\ (\E p \in Procs : proc[p].pc = "serving") =>
          ledger = 1..Migrations /\ site /\ connections = Providers

\* Credentials stay readable over restarts: they are encrypted under the key
\* the next start will use (loadOrCreateHexSecret).
CredentialsStayReadable ==
    \A key \in sealed : key = IF deployment = "generated" THEN masterFile ELSE ProvidedKey

\* A token is printed at most once, and one that was printed is the token the
\* server accepts (loadOrCreateBootstrapAPIKey, printBootstrapToken).
ShownTokenWorks ==
    \A n \in Values : shown[n] > 0 => shown[n] = 1 /\ hashFile = n

\* The server accepts no token the administrator cannot get: its token is in
\* the file, on its way there, or was shown, unless a stop between the two
\* files, a failed cleanup or a command that died lost it.
NoLockout ==
    hashFile # Absent /\ lapses = {} =>
        \/ tokenFile = hashFile
        \/ shown[hashFile] = 1
        \/ \E p \in Procs : proc[p].pc = "write_token" /\ proc[p].draft = hashFile
        \/ \E a \in Cmds : cmd[a].pc = "removed" /\ cmd[a].token = hashFile

\* When stops and failures have ended, a process serves for good, whatever they
\* left behind (run, writeSecretFile, migrate).
StartCompletes == <>[](\E p \in Procs : proc[p].pc = "serving")

=============================================================================
