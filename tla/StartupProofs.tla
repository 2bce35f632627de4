--------------------------- MODULE StartupProofs ---------------------------
(***************************************************************************)
(* What start-up leaves behind, for every number of processes, commands,   *)
(* migrations, providers and faults.                                       *)
(***************************************************************************)
EXTENDS Startup, TLAPS

KeySteps == {"read_master", "write_master", "read_hash", "write_hash", "write_token"}

Ready == {"connections", "serving"}

\* Generated keys are for one process at a time; without them no file is written.
Alone ==
    IF deployment = "generated"
    THEN \A p, q \in Procs : proc[p].pc # "down" /\ proc[q].pc # "down" => p = q
    ELSE \A p \in Procs : proc[p].pc \notin KeySteps

\* The ledger is a prefix that holds what a process is past.
Migrated ==
    /\ \A m \in 1..Migrations :
          /\ applied[m] = IF m \in ledger THEN 1 ELSE 0
          /\ m \in ledger => \A k \in 1..m : k \in ledger
    /\ \A p \in Procs :
          /\ \A k \in 1..Migrations : k < proc[p].next => k \in ledger
          /\ proc[p].pc = "apply" => proc[p].next =< Migrations
          /\ proc[p].pc = "apply" /\ deployment = "generated" =>
                proc[p].next \notin ledger
          /\ proc[p].pc \in KeySteps \cup Ready \cup {"site"} =>
                proc[p].next = Migrations + 1
          /\ proc[p].pc \in KeySteps \cup Ready => site
          /\ proc[p].pc = "serving" => connections = Providers

\* The values a process has drawn since it started.
Weight(step) ==
    CASE step \in {"write_master", "read_hash"} -> 1
      [] step \in {"write_hash", "write_token"} \cup Ready -> 2
      [] OTHER -> 0

\* At most two values for each fault and for the process that is up.
DrawsBounded ==
    IF deployment = "generated"
    THEN /\ (\A p \in Procs : proc[p].pc = "down") => drawn =< 2 * faults
         /\ \A p \in Procs : proc[p].pc # "down" => drawn =< 2 * faults + Weight(proc[p].pc)
    ELSE drawn = 0

CurrentKey == IF deployment = "generated" THEN masterFile ELSE ProvidedKey

\* Who has a key has the one the next start will use.
KeysAgree ==
    /\ masterFile # Torn
    /\ \A p \in Procs :
          /\ proc[p].pc \in {"read_hash", "write_hash", "write_token"} \cup Ready =>
                proc[p].key = CurrentKey /\ CurrentKey # Absent
          /\ proc[p].pc = "write_master" => masterFile = Absent /\ proc[p].draft \in Values
    /\ \A key \in sealed : key = CurrentKey

\* Nobody has seen the token yet.
Unread ==
    /\ tokenFile = Absent
    /\ \A a \in Cmds : cmd[a].pc \notin {"read", "removed"}
    /\ \A n \in Values : shown[n] = 0

\* The token is in one place, and it is the one the server accepts.
TokenInv ==
    /\ hashFile # Torn
    /\ hashFile = Absent => Unread
    /\ tokenFile \in {Absent, hashFile}
    /\ \A p \in Procs :
          /\ proc[p].pc = "write_hash" => hashFile = Absent /\ proc[p].draft \in Values
          /\ proc[p].pc = "write_token" => hashFile = proc[p].draft /\ Unread
    /\ \A a \in Cmds : cmd[a].pc \in {"read", "removed"} => cmd[a].token = hashFile
    /\ \A n \in Values : shown[n] > 0 => shown[n] = 1 /\ hashFile = n
    /\ tokenFile # Absent =>
          /\ \A a \in Cmds : cmd[a].pc # "removed"
          /\ \A n \in Values : shown[n] = 0
    /\ \A a \in Cmds : cmd[a].pc = "removed" =>
          /\ \A n \in Values : shown[n] = 0
          /\ \A b \in Cmds : cmd[b].pc = "removed" => a = b

Inv == TypeOK /\ Alone /\ Migrated /\ DrawsBounded /\ KeysAgree /\ TokenInv /\ NoLockout

-----------------------------------------------------------------------------
(***************************************************************************)
(* Types, and what the steps do to a process.                              *)
(***************************************************************************)
ProcRecords ==
    [pc : Steps \cup {"down", "serving"}, next : 1..Migrations + 1,
     draft : Values \cup {Absent}, key : Values \cup {Absent, ProvidedKey}]

CmdRecords == [pc : {"idle", "read", "removed", "ended"}, token : Values \cup {Absent}]

\* A process that is down is typed.
LEMMA DownType ==
    Down \in ProcRecords /\ Down.pc = "down" /\ Down.next = 1 /\ Down.draft = Absent
BY StartupAssumption DEF Down, ProcRecords

\* A value that is drawn within the bound is one of the values.
LEMMA ValuesRange ==
    /\ \A n \in Int : n \in Values <=> 1 =< n /\ n =< 2 * (MaxFaults + 1)
    /\ Absent \notin Values /\ Torn \notin Values /\ Torn # Absent /\ ProvidedKey # Absent
    /\ Values \subseteq Nat
BY StartupAssumption DEF Values, Absent, Torn, ProvidedKey

\* A process exits.
LEMMA ExitFacts ==
    ASSUME proc \in [Procs -> ProcRecords], NEW p \in Procs, Exit(p)
    PROVE  /\ proc' \in [Procs -> ProcRecords]
           /\ proc'[p] = Down /\ proc'[p].pc = "down" /\ proc'[p].next = 1
           /\ \A q \in Procs : q # p => proc'[q] = proc[q]
BY DownType DEF Exit

\* A process moves on.
LEMMA GotoFacts ==
    ASSUME proc \in [Procs -> ProcRecords], NEW p \in Procs,
           NEW step \in Steps \cup {"serving"}, Goto(p, step)
    PROVE  /\ proc' \in [Procs -> ProcRecords]
           /\ proc'[p].pc = step /\ proc'[p].next = proc[p].next
           /\ proc'[p].draft = proc[p].draft /\ proc'[p].key = proc[p].key
           /\ \A q \in Procs : q # p => proc'[q] = proc[q]
BY DEF Goto, ProcRecords

\* A process draws a value.
LEMMA DrawFacts ==
    ASSUME proc \in [Procs -> ProcRecords], NEW p \in Procs, NEW step \in Steps,
           drawn + 1 \in Values, Draw(p, step)
    PROVE  /\ proc' \in [Procs -> ProcRecords]
           /\ proc'[p].pc = step /\ proc'[p].next = proc[p].next
           /\ proc'[p].draft = drawn + 1 /\ proc'[p].key = proc[p].key
           /\ \A q \in Procs : q # p => proc'[q] = proc[q]
           /\ drawn' = drawn + 1
BY DEF Draw, ProcRecords

\* A process takes a key and moves on.
LEMMA TakeKeyFacts ==
    ASSUME proc \in [Procs -> ProcRecords], NEW p \in Procs, NEW step \in Steps,
           NEW k \in Values \cup {Absent, ProvidedKey},
           proc' = [proc EXCEPT ![p].pc = step, ![p].key = k]
    PROVE  /\ proc' \in [Procs -> ProcRecords]
           /\ proc'[p].pc = step /\ proc'[p].next = proc[p].next
           /\ proc'[p].draft = proc[p].draft /\ proc'[p].key = k
           /\ \A q \in Procs : q # p => proc'[q] = proc[q]
BY DEF ProcRecords

\* There is room for another value wherever one is drawn.
LEMMA RoomToDraw ==
    ASSUME TypeOK, Alone, DrawsBounded, NEW p \in Procs,
           proc[p].pc \in {"read_master", "read_hash"}
    PROVE  drawn + 1 \in Values /\ deployment = "generated"
<1>1. deployment = "generated"
  BY DEF Alone, KeySteps
<1>2. Weight(proc[p].pc) =< 1 /\ Weight(proc[p].pc) \in Nat
  BY DEF Weight, Ready
<1>3. drawn =< 2 * faults + Weight(proc[p].pc)
  BY <1>1 DEF DrawsBounded
<1>4. drawn \in Nat /\ faults \in Nat /\ faults =< MaxFaults /\ MaxFaults \in Nat
  BY StartupAssumption DEF TypeOK
<1>5. drawn + 1 =< 2 * (MaxFaults + 1)
  BY <1>2, <1>3, <1>4
<1> QED BY <1>1, <1>4, <1>5, ValuesRange

\* The types of the variables, one by one.
LEMMA Types ==
    TypeOK <=> /\ deployment \in Deployments
               /\ proc \in [Procs -> ProcRecords] /\ cmd \in [Cmds -> CmdRecords]
               /\ applied \in [1..Migrations -> Nat] /\ ledger \subseteq 1..Migrations
               /\ site \in BOOLEAN /\ connections \subseteq Providers
               /\ {masterFile, hashFile, tokenFile} \subseteq Contents
               /\ drawn \in 0..2 * (MaxFaults + 1)
               /\ sealed \subseteq Values \cup {ProvidedKey}
               /\ shown \in [Values -> Nat]
               /\ faults \in 0..MaxFaults
               /\ lapses \subseteq {"stop", "cleanup", "command"}
BY DEF TypeOK, ProcRecords, CmdRecords

\* The invariant holds initially.
LEMMA InvInit == Init => Inv
<1> SUFFICES ASSUME Init PROVE Inv
  OBVIOUS
<1>0. MaxFaults \in Nat /\ Migrations \in Nat
  BY StartupAssumption
<1>1. TypeOK
  <2>1. proc \in [Procs -> ProcRecords]
    BY DownType DEF Init
  <2>2. cmd \in [Cmds -> CmdRecords]
    BY DEF Init, CmdRecords
  <2>3. {masterFile, hashFile, tokenFile} \subseteq Contents
    BY DEF Init, Contents
  <2>4. drawn \in 0..2 * (MaxFaults + 1) /\ faults \in 0..MaxFaults
    BY <1>0 DEF Init
  <2>5. /\ applied \in [1..Migrations -> Nat] /\ ledger \subseteq 1..Migrations
        /\ site \in BOOLEAN /\ connections \subseteq Providers
        /\ sealed \subseteq Values \cup {ProvidedKey} /\ shown \in [Values -> Nat]
        /\ lapses \subseteq {"stop", "cleanup", "command"} /\ deployment \in Deployments
    BY DEF Init
  <2> QED BY <2>1, <2>2, <2>3, <2>4, <2>5, Types
<1>2. \A p \in Procs : proc[p].pc = "down" /\ proc[p].next = 1
  BY DownType DEF Init
<1>3. Alone /\ DrawsBounded
  BY <1>2 DEF Init, Alone, DrawsBounded, KeySteps
<1>4. Migrated
  BY <1>0, <1>2 DEF Init, Migrated, KeySteps, Ready
<1>5. KeysAgree
  BY <1>2, ValuesRange DEF Init, KeysAgree, Ready
<1>6. TokenInv /\ NoLockout
  BY <1>2, ValuesRange DEF Init, TokenInv, Unread, NoLockout
<1> QED BY <1>1, <1>3, <1>4, <1>5, <1>6 DEF Inv

-----------------------------------------------------------------------------
(***************************************************************************)
(* Every step keeps the invariant.                                         *)
(***************************************************************************)
\* What the parts of the invariant that do not speak of the migrations need of a
\* step that only moves a process without touching files, draws and commands.
LEMMA FilesQuiet ==
    ASSUME Inv, NEW p \in Procs, proc' \in [Procs -> ProcRecords],
           \A q \in Procs : q # p => proc'[q] = proc[q],
           proc'[p].pc \notin {"write_master", "read_hash", "write_hash", "write_token"},
           proc[p].pc # "write_token",
           proc'[p].pc \in Ready => proc'[p].key = CurrentKey /\ CurrentKey # Absent,
           UNCHANGED <<deployment, cmd, fileVars, drawn, historyVars>>
    PROVE  KeysAgree' /\ TokenInv' /\ NoLockout'
<1> USE DEF Inv
<1>0. UNCHANGED <<deployment, cmd, masterFile, hashFile, tokenFile, sealed, shown, lapses>>
  BY DEF fileVars, historyVars
<1>1. KeysAgree'
  BY <1>0 DEF KeysAgree, CurrentKey
<1>2. TokenInv'
  BY <1>0 DEF TokenInv, Unread
<1>3. NoLockout'
  BY <1>0 DEF NoLockout
<1> QED BY <1>1, <1>2, <1>3

\* A process starts.
LEMMA InvStart ==
    ASSUME Inv, NEW p \in Procs, Start(p)
    PROVE  Inv'
<1> USE DEF Inv
<1>0. /\ proc[p].pc = "down" /\ Goto(p, "check")
      /\ deployment = "generated" => \A q \in Procs : proc[q].pc = "down"
      /\ UNCHANGED <<deployment, cmd, dbVars, fileVars, drawn, historyVars, faults>>
  BY DEF Start
<1>1. /\ proc' \in [Procs -> ProcRecords]
      /\ proc'[p].pc = "check" /\ proc'[p].next = proc[p].next
      /\ \A q \in Procs : q # p => proc'[q] = proc[q]
  BY <1>0, Types, GotoFacts DEF Steps
<1>2. TypeOK'
  BY <1>0, <1>1, Types
     DEF TypeOK, ProcRecords, CmdRecords, dbVars, fileVars, historyVars
<1>3. Alone'
  BY <1>0, <1>1 DEF Alone, KeySteps
<1>4. Migrated'
  BY <1>0, <1>1 DEF Migrated, KeySteps, Ready, dbVars
<1>5. DrawsBounded'
  <2>1. faults \in Nat /\ drawn \in Nat /\ Weight("check") = 0
    BY StartupAssumption DEF TypeOK, Weight, Ready
  <2> QED BY <2>1, <1>0, <1>1 DEF DrawsBounded
<1>6. KeysAgree' /\ TokenInv' /\ NoLockout'
  BY <1>0, <1>1, FilesQuiet DEF Ready
<1> QED BY <1>2, <1>3, <1>4, <1>5, <1>6

\* A process looks up the next migration.
LEMMA InvCheckMigration ==
    ASSUME Inv, NEW p \in Procs, CheckMigration(p)
    PROVE  Inv'
<1> USE DEF Inv
<1>0. /\ proc[p].pc = "check"
      /\ UNCHANGED <<deployment, cmd, dbVars, fileVars, drawn, historyVars, faults>>
      /\ proc[p] \in ProcRecords /\ proc \in [Procs -> ProcRecords]
  BY Types DEF CheckMigration
<1>a. proc[p].next \in 1..Migrations + 1 /\ Migrations \in Nat
  BY <1>0, StartupAssumption DEF ProcRecords
<1>1. /\ proc' \in [Procs -> ProcRecords]
      /\ \A q \in Procs : q # p => proc'[q] = proc[q]
      /\ \/ /\ proc'[p].pc = "site" /\ proc'[p].next = proc[p].next
            /\ proc[p].next = Migrations + 1
         \/ /\ proc'[p].pc = "check" /\ proc'[p].next = proc[p].next + 1
            /\ proc[p].next \in ledger
         \/ /\ proc'[p].pc = "apply" /\ proc'[p].next = proc[p].next
            /\ proc[p].next =< Migrations /\ proc[p].next \notin ledger
  <2>1. CASE proc[p].next > Migrations
    <3>1. proc[p].next \notin ledger /\ proc[p].next = Migrations + 1
      BY <2>1, <1>a DEF TypeOK
    <3>2. Goto(p, "site")
      BY <2>1, <3>1 DEF CheckMigration
    <3> QED BY <3>1, <3>2, <1>0, GotoFacts DEF Steps
  <2>2. CASE ~ (proc[p].next > Migrations) /\ proc[p].next \in ledger
    <3>1. proc' = [proc EXCEPT ![p].next = @ + 1]
      BY <2>2 DEF CheckMigration
    <3>2. proc[p].next + 1 \in 1..Migrations + 1
      BY <2>2, <1>a
    <3> QED BY <3>1, <3>2, <2>2, <1>0, <1>a DEF ProcRecords, Steps
  <2>3. CASE ~ (proc[p].next > Migrations) /\ proc[p].next \notin ledger
    <3>1. Goto(p, "apply")
      BY <2>3 DEF CheckMigration
    <3> QED BY <3>1, <2>3, <1>0, <1>a, GotoFacts DEF Steps
  <2> QED BY <2>1, <2>2, <2>3
<1>2. TypeOK'
  BY <1>0, <1>1, Types
     DEF TypeOK, ProcRecords, CmdRecords, dbVars, fileVars, historyVars
<1>3. Alone'
  BY <1>0, <1>1 DEF Alone, KeySteps
<1>4. Migrated'
  <2>1. \A k \in 1..Migrations : k < proc'[p].next => k \in ledger
    BY <1>1, <1>a DEF Migrated
  <2> QED BY <2>1, <1>0, <1>1 DEF Migrated, KeySteps, Ready, dbVars
<1>5. DrawsBounded'
  <2>1. /\ Weight("check") = 0 /\ Weight("apply") = 0 /\ Weight("site") = 0
    BY DEF Weight, Ready
  <2> QED BY <2>1, <1>0, <1>1 DEF DrawsBounded
<1>6. KeysAgree' /\ TokenInv' /\ NoLockout'
  BY <1>0, <1>1, FilesQuiet DEF Ready
<1> QED BY <1>2, <1>3, <1>4, <1>5, <1>6

\* The weight of every step.
LEMMA Weights ==
    /\ Weight("check") = 0 /\ Weight("apply") = 0 /\ Weight("site") = 0
    /\ Weight("read_master") = 0 /\ Weight("write_master") = 1 /\ Weight("read_hash") = 1
    /\ Weight("write_hash") = 2 /\ Weight("write_token") = 2
    /\ Weight("connections") = 2 /\ Weight("serving") = 2
BY DEF Weight, Ready

\* A process that moves without drawing does not lose weight.
LEMMA DrawsQuiet ==
    ASSUME Inv, NEW p \in Procs, proc[p].pc # "down", proc'[p].pc # "down",
           \A q \in Procs : q # p => proc'[q] = proc[q],
           Weight(proc[p].pc) \in Nat, Weight(proc'[p].pc) \in Nat,
           Weight(proc[p].pc) =< Weight(proc'[p].pc),
           UNCHANGED <<deployment, drawn, faults>>
    PROVE  DrawsBounded'
<1>1. faults \in Nat /\ drawn \in Nat
  BY StartupAssumption DEF Inv, TypeOK
<1> QED BY <1>1 DEF Inv, DrawsBounded

\* One migration is applied, or the process finds it applied and exits.
LEMMA InvApplyMigration ==
    ASSUME Inv, NEW p \in Procs, ApplyMigration(p)
    PROVE  Inv'
<1> USE DEF Inv
<1> DEFINE m == proc[p].next
<1>0. /\ proc[p].pc = "apply" /\ m \in 1..Migrations /\ Migrations \in Nat
      /\ UNCHANGED <<deployment, cmd, site, connections, fileVars, drawn, historyVars, faults>>
      /\ proc \in [Procs -> ProcRecords]
  <2>1. proc \in [Procs -> ProcRecords]
    BY Types
  <2>2. m \in 1..Migrations + 1 /\ Migrations \in Nat
    BY <2>1, StartupAssumption DEF ProcRecords
  <2>3. proc[p].pc = "apply"
    BY DEF ApplyMigration
  <2>4. m =< Migrations
    BY <2>3 DEF Migrated
  <2> QED BY <2>1, <2>2, <2>3, <2>4 DEF ApplyMigration
<1>1. CASE m \in ledger
  <2>0. /\ Exit(p) /\ UNCHANGED <<applied, ledger>> /\ deployment # "generated"
    BY <1>0, <1>1 DEF ApplyMigration, Migrated
  <2>1. /\ proc' \in [Procs -> ProcRecords]
        /\ proc'[p].pc = "down" /\ proc'[p].next = 1
        /\ \A q \in Procs : q # p => proc'[q] = proc[q]
    BY <2>0, <1>0, ExitFacts
  <2>2. TypeOK'
    BY <1>0, <2>0, <2>1
       DEF TypeOK, ProcRecords, CmdRecords, dbVars, fileVars, historyVars
  <2>3. Alone' /\ DrawsBounded'
    BY <1>0, <2>0, <2>1 DEF Alone, DrawsBounded, KeySteps
  <2>4. Migrated'
    BY <1>0, <2>0, <2>1 DEF Migrated, KeySteps, Ready
  <2>5. KeysAgree' /\ TokenInv' /\ NoLockout'
    BY <1>0, <2>1, FilesQuiet DEF Ready
  <2> QED BY <2>2, <2>3, <2>4, <2>5
<1>2. CASE m \notin ledger
  <2>0. /\ applied' = [applied EXCEPT ![m] = @ + 1]
        /\ ledger' = ledger \cup {m}
        /\ proc' = [proc EXCEPT ![p].pc = "check", ![p].next = m + 1]
    BY <1>2 DEF ApplyMigration
  <2>1. /\ proc' \in [Procs -> ProcRecords]
        /\ proc'[p].pc = "check" /\ proc'[p].next = m + 1
        /\ \A q \in Procs : q # p => proc'[q] = proc[q]
    <3>1. m + 1 \in 1..Migrations + 1
      BY <1>0
    <3> QED BY <3>1, <2>0, <1>0 DEF ProcRecords, Steps
  <2> HIDE DEF m
  <2>2. applied \in [1..Migrations -> Nat] /\ applied' \in [1..Migrations -> Nat]
    BY <2>0, <1>0 DEF TypeOK
  <2>3. TypeOK'
    BY <1>0, <2>0, <2>1, <2>2
       DEF TypeOK, ProcRecords, CmdRecords, fileVars, historyVars
  <2>4. Alone'
    BY <1>0, <2>1 DEF Alone, KeySteps
  <2>5. DrawsBounded'
    BY <1>0, <2>1, Weights, DrawsQuiet
  <2>6. Migrated'
    <3>1. \A k \in 1..Migrations : k < m => k \in ledger
      BY DEF Migrated, m
    <3>2. ASSUME NEW k \in 1..Migrations
          PROVE  /\ applied'[k] = IF k \in ledger' THEN 1 ELSE 0
                 /\ k \in ledger' => \A j \in 1..k : j \in ledger'
      <4>1. CASE k = m
        <5>1. applied'[k] = 1 /\ k \in ledger'
          BY <4>1, <2>0, <2>2, <1>0, <1>2 DEF Migrated
        <5> QED BY <5>1, <4>1, <3>1, <2>0, <1>0
      <4>2. CASE k # m
        BY <4>2, <2>0, <2>2 DEF Migrated
      <4> QED BY <4>1, <4>2
    <3>3. ASSUME NEW q \in Procs
          PROVE  /\ \A k \in 1..Migrations : k < proc'[q].next => k \in ledger'
                 /\ proc'[q].pc = "apply" => proc'[q].next =< Migrations
                 /\ proc'[q].pc = "apply" /\ deployment' = "generated" =>
                        proc'[q].next \notin ledger'
                 /\ proc'[q].pc \in KeySteps \cup Ready \cup {"site"} =>
                        proc'[q].next = Migrations + 1
                 /\ proc'[q].pc \in KeySteps \cup Ready => site'
                 /\ proc'[q].pc = "serving" => connections' = Providers
      <4>1. CASE q = p
        BY <4>1, <3>1, <2>0, <2>1, <1>0 DEF KeySteps, Ready
      <4>2. CASE q # p
        <5>1. deployment = "generated" => proc[q].pc = "down"
          BY <4>2, <1>0 DEF Alone
        <5> QED BY <5>1, <4>2, <2>0, <2>1, <1>0 DEF Migrated
      <4> QED BY <4>1, <4>2
    <3> QED BY <3>2, <3>3 DEF Migrated
  <2>7. KeysAgree' /\ TokenInv' /\ NoLockout'
    BY <1>0, <2>1, FilesQuiet DEF Ready
  <2> QED BY <2>3, <2>4, <2>5, <2>6, <2>7
<1> QED BY <1>1, <1>2

\* The row of the site is there, and the process goes on to its keys.
LEMMA InvEnsureSite ==
    ASSUME Inv, NEW p \in Procs, EnsureSite(p)
    PROVE  Inv'
<1> USE DEF Inv
<1>0. /\ proc[p].pc = "site" /\ site' = TRUE /\ proc \in [Procs -> ProcRecords]
      /\ UNCHANGED <<deployment, cmd, applied, ledger, connections, fileVars, drawn,
                     historyVars, faults>>
  BY Types DEF EnsureSite
<1>1. /\ proc' \in [Procs -> ProcRecords] /\ proc'[p].next = proc[p].next
      /\ \A q \in Procs : q # p => proc'[q] = proc[q]
      /\ IF deployment = "generated" THEN proc'[p].pc = "read_master"
         ELSE proc'[p].pc = "connections" /\ proc'[p].key = ProvidedKey
  <2>1. CASE deployment = "generated"
    BY <2>1, <1>0, GotoFacts DEF EnsureSite, AfterSite, Steps
  <2>2. CASE deployment # "generated"
    <3>1. proc' = [proc EXCEPT ![p].pc = "connections", ![p].key = ProvidedKey]
      BY <2>2 DEF EnsureSite, AfterSite
    <3> QED BY <3>1, <2>2, <1>0, TakeKeyFacts DEF Steps
  <2> QED BY <2>1, <2>2
<1>2. TypeOK'
  BY <1>0, <1>1 DEF TypeOK, ProcRecords, CmdRecords, fileVars, historyVars
<1>3. Alone'
  BY <1>0, <1>1 DEF Alone, KeySteps
<1>4. Migrated'
  BY <1>0, <1>1 DEF Migrated, KeySteps, Ready
<1>5. DrawsBounded'
  BY <1>0, <1>1, Weights, DrawsQuiet
<1>6. KeysAgree' /\ TokenInv' /\ NoLockout'
  BY <1>0, <1>1, FilesQuiet, ValuesRange DEF Ready, CurrentKey
<1> QED BY <1>2, <1>3, <1>4, <1>5, <1>6

\* A connection row is there, or all of them are and the process serves.
LEMMA InvEnsureConnection ==
    ASSUME Inv, NEW p \in Procs, EnsureConnection(p)
    PROVE  Inv'
<1> USE DEF Inv
<1>0. /\ proc[p].pc = "connections" /\ proc \in [Procs -> ProcRecords]
      /\ UNCHANGED <<deployment, cmd, applied, ledger, site, fileVars, drawn,
                     historyVars, faults>>
      /\ connections \subseteq Providers
  BY Types DEF EnsureConnection
<1>1. /\ proc' \in [Procs -> ProcRecords]
      /\ proc'[p].pc \in Ready /\ proc'[p].next = proc[p].next
      /\ proc'[p].key = proc[p].key
      /\ \A q \in Procs : q # p => proc'[q] = proc[q]
      /\ connections \subseteq connections' /\ connections' \subseteq Providers
      /\ proc'[p].pc = "serving" => connections' = Providers
  <2>1. CASE UNCHANGED proc
    BY <2>1, <1>0 DEF EnsureConnection, Ready, Goto
  <2>2. CASE Goto(p, "serving") /\ connections = Providers /\ UNCHANGED connections
    BY <2>2, <1>0, GotoFacts DEF Ready
  <2> QED BY <2>1, <2>2 DEF EnsureConnection
<1>2. TypeOK'
  BY <1>0, <1>1 DEF TypeOK, ProcRecords, CmdRecords, fileVars, historyVars
<1>3. Alone'
  BY <1>0, <1>1 DEF Alone, KeySteps, Ready
<1>4. Migrated'
  BY <1>0, <1>1 DEF Migrated, KeySteps, Ready
<1>5. DrawsBounded'
  <2>1. Weight(proc'[p].pc) = 2 /\ proc'[p].pc # "down"
    BY <1>1, Weights DEF Ready
  <2> QED BY <2>1, <1>0, <1>1, Weights, DrawsQuiet
<1>6. KeysAgree' /\ TokenInv' /\ NoLockout'
  <2>1. proc'[p].key = CurrentKey /\ CurrentKey # Absent
    BY <1>0, <1>1 DEF KeysAgree, Ready
  <2> QED BY <2>1, <1>0, <1>1, FilesQuiet DEF Ready
<1> QED BY <1>2, <1>3, <1>4, <1>5, <1>6

\* While a process is at its keys all others are down.
LEMMA OthersDown ==
    ASSUME Inv, NEW p \in Procs, proc[p].pc \in KeySteps
    PROVE  deployment = "generated" /\ \A q \in Procs : q # p => proc[q].pc = "down"
BY DEF Inv, Alone, KeySteps

\* What a step of the keys does to the parts that speak of processes only.
LEMMA KeysQuiet ==
    ASSUME Inv, NEW p \in Procs, proc[p].pc \in KeySteps,
           proc'[p].pc \in KeySteps \cup {"connections"},
           proc'[p].next = proc[p].next,
           \A q \in Procs : q # p => proc'[q] = proc[q],
           UNCHANGED <<deployment, dbVars>>
    PROVE  Alone' /\ Migrated'
<1>1. Alone'
  BY DEF Inv, Alone, KeySteps, Ready
<1>2. Migrated'
  BY DEF Inv, Migrated, KeySteps, Ready, dbVars
<1> QED BY <1>1, <1>2

\* A draw adds one value and one to the weight.
LEMMA DrawsDrawn ==
    ASSUME Inv, NEW p \in Procs, proc[p].pc # "down", proc'[p].pc # "down",
           \A q \in Procs : q # p => proc'[q].pc = "down",
           Weight(proc[p].pc) \in Nat, Weight(proc'[p].pc) = Weight(proc[p].pc) + 1,
           drawn' = drawn + 1, deployment = "generated", UNCHANGED <<deployment, faults>>
    PROVE  DrawsBounded'
<1>1. faults \in Nat /\ drawn \in Nat
  BY StartupAssumption DEF Inv, TypeOK
<1>2. drawn =< 2 * faults + Weight(proc[p].pc)
  BY DEF Inv, DrawsBounded
<1> QED BY <1>1, <1>2 DEF DrawsBounded

\* The master key is read, or one is drawn.
LEMMA InvReadMasterKey ==
    ASSUME Inv, NEW p \in Procs, ReadMasterKey(p)
    PROVE  Inv'
<1> USE DEF Inv
<1>0. /\ proc[p].pc = "read_master" /\ proc \in [Procs -> ProcRecords]
      /\ UNCHANGED <<deployment, cmd, dbVars, fileVars, historyVars, faults>>
      /\ deployment = "generated" /\ \A q \in Procs : q # p => proc[q].pc = "down"
      /\ drawn + 1 \in Values /\ drawn \in Nat
  <2>1. proc[p].pc = "read_master"
    BY DEF ReadMasterKey
  <2>2. drawn + 1 \in Values
    BY <2>1, RoomToDraw
  <2>3. drawn \in Nat
    BY StartupAssumption DEF TypeOK
  <2>4. deployment = "generated" /\ \A q \in Procs : q # p => proc[q].pc = "down"
    BY <2>1, OthersDown DEF KeySteps
  <2> QED BY <2>1, <2>2, <2>3, <2>4, Types DEF ReadMasterKey
<1>1. CASE masterFile = Absent
  <2>0. Draw(p, "write_master")
    BY <1>1 DEF ReadMasterKey, Absent, Torn
  <2>1. /\ proc' \in [Procs -> ProcRecords]
        /\ proc'[p].pc = "write_master" /\ proc'[p].next = proc[p].next
        /\ proc'[p].draft = drawn + 1
        /\ \A q \in Procs : q # p => proc'[q] = proc[q]
        /\ drawn' = drawn + 1
    BY <2>0, <1>0, DrawFacts DEF Steps
  <2>2. drawn' \in 0..2 * (MaxFaults + 1)
    BY <2>1, <1>0, ValuesRange, StartupAssumption
  <2>3. TypeOK'
    BY <1>0, <2>1, <2>2
       DEF TypeOK, ProcRecords, CmdRecords, dbVars, fileVars, historyVars
  <2>4. Alone' /\ Migrated'
    BY <1>0, <2>1, KeysQuiet DEF KeySteps, Ready
  <2>5. DrawsBounded'
    BY <1>0, <2>1, Weights, DrawsDrawn
  <2>6. KeysAgree'
    BY <1>0, <1>1, <2>1 DEF KeysAgree, CurrentKey, Ready, fileVars, historyVars
  <2>7. TokenInv' /\ NoLockout'
    BY <1>0, <2>1 DEF TokenInv, Unread, NoLockout, fileVars, historyVars
  <2> QED BY <2>3, <2>4, <2>5, <2>6, <2>7
<1>2. CASE masterFile # Absent
  <2>0. /\ masterFile # Torn /\ masterFile \in Values \cup {Absent, ProvidedKey}
        /\ proc' = [proc EXCEPT ![p].pc = "read_hash", ![p].key = masterFile]
        /\ UNCHANGED drawn
    <3>1. masterFile # Torn
      BY DEF KeysAgree
    <3>2. masterFile \in Values
      BY <1>2, <3>1 DEF TypeOK, Contents
    <3> QED BY <1>2, <3>1, <3>2 DEF ReadMasterKey
  <2>1. /\ proc' \in [Procs -> ProcRecords]
        /\ proc'[p].pc = "read_hash" /\ proc'[p].next = proc[p].next
        /\ proc'[p].key = masterFile
        /\ \A q \in Procs : q # p => proc'[q] = proc[q]
    BY <2>0, <1>0, TakeKeyFacts DEF Steps
  <2>3. TypeOK'
    BY <1>0, <2>0, <2>1
       DEF TypeOK, ProcRecords, CmdRecords, dbVars, fileVars, historyVars
  <2>4. Alone' /\ Migrated'
    BY <1>0, <2>1, KeysQuiet DEF KeySteps, Ready
  <2>5. DrawsBounded'
    BY <1>0, <2>0, <2>1, Weights, DrawsQuiet
  <2>6. KeysAgree'
    BY <1>0, <1>2, <2>1 DEF KeysAgree, CurrentKey, Ready, fileVars, historyVars
  <2>7. TokenInv' /\ NoLockout'
    BY <1>0, <2>1 DEF TokenInv, Unread, NoLockout, fileVars, historyVars
  <2> QED BY <2>3, <2>4, <2>5, <2>6, <2>7
<1> QED BY <1>1, <1>2

\* A master key is written where there was none.
LEMMA InvWriteMasterKey ==
    ASSUME Inv, NEW p \in Procs, WriteMasterKey(p)
    PROVE  Inv'
<1> USE DEF Inv
<1>0. /\ proc[p].pc = "write_master" /\ proc \in [Procs -> ProcRecords]
      /\ masterFile = Absent /\ proc[p].draft \in Values /\ masterFile' = proc[p].draft
      /\ proc' = [proc EXCEPT ![p].pc = "read_hash", ![p].key = proc[p].draft]
      /\ UNCHANGED <<deployment, cmd, dbVars, hashFile, tokenFile, drawn, historyVars, faults>>
      /\ deployment = "generated" /\ \A q \in Procs : q # p => proc[q].pc = "down"
  BY Types, OthersDown DEF WriteMasterKey, KeySteps, KeysAgree
<1>1. /\ proc' \in [Procs -> ProcRecords]
      /\ proc'[p].pc = "read_hash" /\ proc'[p].next = proc[p].next
      /\ proc'[p].key = proc[p].draft
      /\ \A q \in Procs : q # p => proc'[q] = proc[q]
  <2>1. proc[p].draft \in Values \cup {Absent, ProvidedKey} /\ "read_hash" \in Steps
    BY <1>0 DEF Steps
  <2> QED BY <2>1, <1>0, TakeKeyFacts
<1>2. TypeOK'
  BY <1>0, <1>1
     DEF TypeOK, Contents, ProcRecords, CmdRecords, dbVars, historyVars
<1>3. Alone' /\ Migrated'
  BY <1>0, <1>1, KeysQuiet DEF KeySteps, Ready
<1>4. DrawsBounded'
  BY <1>0, <1>1, Weights, DrawsQuiet
<1>5. KeysAgree'
  <2>1. sealed = {}
    BY <1>0, ValuesRange DEF KeysAgree, CurrentKey, TypeOK
  <2> QED BY <2>1, <1>0, <1>1, ValuesRange DEF KeysAgree, CurrentKey, Ready, historyVars
<1>6. TokenInv' /\ NoLockout'
  BY <1>0, <1>1 DEF TokenInv, Unread, NoLockout, historyVars
<1> QED BY <1>2, <1>3, <1>4, <1>5, <1>6

\* The hash is found, or a token is drawn.
LEMMA InvReadHash ==
    ASSUME Inv, NEW p \in Procs, ReadHash(p)
    PROVE  Inv'
<1> USE DEF Inv
<1>0. /\ proc[p].pc = "read_hash" /\ proc \in [Procs -> ProcRecords]
      /\ UNCHANGED <<deployment, cmd, dbVars, fileVars, historyVars, faults>>
      /\ deployment = "generated" /\ \A q \in Procs : q # p => proc[q].pc = "down"
      /\ drawn + 1 \in Values /\ drawn \in Nat
      /\ proc[p].key = CurrentKey /\ CurrentKey # Absent
  <2>1. proc[p].pc = "read_hash"
    BY DEF ReadHash
  <2>2. drawn + 1 \in Values
    BY <2>1, RoomToDraw
  <2>3. drawn \in Nat
    BY StartupAssumption DEF TypeOK
  <2>4. deployment = "generated" /\ \A q \in Procs : q # p => proc[q].pc = "down"
    BY <2>1, OthersDown DEF KeySteps
  <2>5. proc[p].key = CurrentKey /\ CurrentKey # Absent
    BY <2>1 DEF KeysAgree
  <2> QED BY <2>1, <2>2, <2>3, <2>4, <2>5, Types DEF ReadHash
<1>1. CASE hashFile = Absent
  <2>0. Draw(p, "write_hash")
    BY <1>1 DEF ReadHash, Absent, Torn
  <2>1. /\ proc' \in [Procs -> ProcRecords]
        /\ proc'[p].pc = "write_hash" /\ proc'[p].next = proc[p].next
        /\ proc'[p].draft = drawn + 1 /\ proc'[p].key = proc[p].key
        /\ \A q \in Procs : q # p => proc'[q] = proc[q]
        /\ drawn' = drawn + 1
    BY <2>0, <1>0, DrawFacts DEF Steps
  <2>2. drawn' \in 0..2 * (MaxFaults + 1)
    BY <2>1, <1>0, ValuesRange, StartupAssumption
  <2>3. TypeOK'
    BY <1>0, <2>1, <2>2
       DEF TypeOK, ProcRecords, CmdRecords, dbVars, fileVars, historyVars
  <2>4. Alone' /\ Migrated'
    BY <1>0, <2>1, KeysQuiet DEF KeySteps, Ready
  <2>5. DrawsBounded'
    BY <1>0, <2>1, Weights, DrawsDrawn
  <2>6. KeysAgree'
    BY <1>0, <2>1 DEF KeysAgree, CurrentKey, Ready, fileVars, historyVars
  <2>7. TokenInv' /\ NoLockout'
    BY <1>0, <1>1, <2>1 DEF TokenInv, Unread, NoLockout, fileVars, historyVars
  <2> QED BY <2>3, <2>4, <2>5, <2>6, <2>7
<1>2. CASE hashFile # Absent
  <2>0. Goto(p, "connections") /\ UNCHANGED drawn
    BY <1>2 DEF ReadHash, TokenInv
  <2>1. /\ proc' \in [Procs -> ProcRecords]
        /\ proc'[p].pc = "connections" /\ proc'[p].next = proc[p].next
        /\ proc'[p].key = proc[p].key
        /\ \A q \in Procs : q # p => proc'[q] = proc[q]
    BY <2>0, <1>0, GotoFacts DEF Steps
  <2>3. TypeOK'
    BY <1>0, <2>0, <2>1
       DEF TypeOK, ProcRecords, CmdRecords, dbVars, fileVars, historyVars
  <2>4. Alone' /\ Migrated'
    BY <1>0, <2>1, KeysQuiet DEF KeySteps, Ready
  <2>5. DrawsBounded'
    BY <1>0, <2>0, <2>1, Weights, DrawsQuiet
  <2>6. KeysAgree' /\ TokenInv' /\ NoLockout'
    BY <1>0, <2>0, <2>1, FilesQuiet
  <2> QED BY <2>3, <2>4, <2>5, <2>6
<1> QED BY <1>1, <1>2

\* The hash is written: from here on the server will accept the draft.
LEMMA InvWriteHash ==
    ASSUME Inv, NEW p \in Procs, WriteHash(p)
    PROVE  Inv'
<1> USE DEF Inv
<1>0. /\ proc[p].pc = "write_hash" /\ proc \in [Procs -> ProcRecords]
      /\ hashFile = Absent /\ proc[p].draft \in Values /\ hashFile' = proc[p].draft
      /\ Goto(p, "write_token") /\ Unread
      /\ UNCHANGED <<deployment, cmd, dbVars, masterFile, tokenFile, drawn, historyVars, faults>>
      /\ deployment = "generated" /\ \A q \in Procs : q # p => proc[q].pc = "down"
      /\ proc[p].key = CurrentKey /\ CurrentKey # Absent
  BY Types, OthersDown DEF WriteHash, KeySteps, KeysAgree, TokenInv
<1>1. /\ proc' \in [Procs -> ProcRecords]
      /\ proc'[p].pc = "write_token" /\ proc'[p].next = proc[p].next
      /\ proc'[p].key = proc[p].key /\ proc'[p].draft = proc[p].draft
      /\ \A q \in Procs : q # p => proc'[q] = proc[q]
  BY <1>0, GotoFacts DEF Steps
<1>2. TypeOK'
  BY <1>0, <1>1
     DEF TypeOK, Contents, ProcRecords, CmdRecords, dbVars, historyVars
<1>3. Alone' /\ Migrated'
  BY <1>0, <1>1, KeysQuiet DEF KeySteps, Ready
<1>4. DrawsBounded'
  BY <1>0, <1>1, Weights, DrawsQuiet
<1>5. KeysAgree'
  BY <1>0, <1>1 DEF KeysAgree, CurrentKey, Ready, historyVars
<1>6. TokenInv' /\ NoLockout'
  <2>1. hashFile' # Absent /\ hashFile' # Torn
    BY <1>0, ValuesRange
  <2>2. NoLockout'
    BY <1>0, <1>1 DEF NoLockout
  <2> QED BY <2>1, <2>2, <1>0, <1>1 DEF TokenInv, Unread, historyVars
<1> QED BY <1>2, <1>3, <1>4, <1>5, <1>6

\* The token is written.
LEMMA InvWriteToken ==
    ASSUME Inv, NEW p \in Procs, WriteToken(p)
    PROVE  Inv'
<1> USE DEF Inv
<1>0. /\ proc[p].pc = "write_token" /\ proc \in [Procs -> ProcRecords]
      /\ hashFile = proc[p].draft /\ tokenFile' = hashFile
      /\ Goto(p, "connections") /\ Unread
      /\ UNCHANGED <<deployment, cmd, dbVars, masterFile, hashFile, drawn, historyVars, faults>>
      /\ deployment = "generated" /\ \A q \in Procs : q # p => proc[q].pc = "down"
      /\ proc[p].key = CurrentKey /\ CurrentKey # Absent
  BY Types, OthersDown DEF WriteToken, KeySteps, KeysAgree, TokenInv
<1>1. /\ proc' \in [Procs -> ProcRecords]
      /\ proc'[p].pc = "connections" /\ proc'[p].next = proc[p].next
      /\ proc'[p].key = proc[p].key
      /\ \A q \in Procs : q # p => proc'[q] = proc[q]
  BY <1>0, GotoFacts DEF Steps
<1>2. TypeOK'
  BY <1>0, <1>1
     DEF TypeOK, ProcRecords, CmdRecords, dbVars, historyVars
<1>3. Alone' /\ Migrated'
  BY <1>0, <1>1, KeysQuiet DEF KeySteps, Ready
<1>4. DrawsBounded'
  BY <1>0, <1>1, Weights, DrawsQuiet
<1>5. KeysAgree'
  BY <1>0, <1>1 DEF KeysAgree, CurrentKey, Ready, historyVars
<1>6. TokenInv' /\ NoLockout'
  BY <1>0, <1>1 DEF TokenInv, Unread, NoLockout, historyVars
<1> QED BY <1>2, <1>3, <1>4, <1>5, <1>6

\* A fault ends a process: it costs one fault and at most two draws.
LEMMA FaultExits ==
    ASSUME Inv, NEW p \in Procs, proc[p].pc # "down", Exit(p), Fault,
           UNCHANGED <<deployment, dbVars, masterFile, drawn, sealed>>
    PROVE  /\ proc' \in [Procs -> ProcRecords] /\ proc'[p].pc = "down"
           /\ \A q \in Procs : q # p => proc'[q] = proc[q]
           /\ faults' \in 0..MaxFaults
           /\ Alone' /\ Migrated' /\ DrawsBounded' /\ KeysAgree'
<1> USE DEF Inv
<1>1. /\ proc' \in [Procs -> ProcRecords]
      /\ proc'[p].pc = "down" /\ proc'[p].next = 1
      /\ \A q \in Procs : q # p => proc'[q] = proc[q]
  BY Types, ExitFacts
<1>2. /\ faults \in Nat /\ drawn \in Nat /\ faults' = faults + 1
      /\ faults' \in 0..MaxFaults
  BY StartupAssumption DEF TypeOK, Fault
<1>3. Alone'
  BY <1>1 DEF Alone, KeySteps
<1>4. Migrated'
  BY <1>1, StartupAssumption DEF Migrated, KeySteps, Ready, dbVars
<1>5. DrawsBounded'
  <2>1. CASE deployment = "generated"
    <3>1. proc \in [Procs -> ProcRecords]
      BY Types
    <3>2. proc[p].pc \in Steps \cup {"serving"}
      BY <3>1 DEF ProcRecords
    <3>3. Weight(proc[p].pc) \in 0..2
      BY <3>2, Weights DEF Steps
    <3>4. drawn =< 2 * faults + Weight(proc[p].pc)
      BY <2>1 DEF DrawsBounded
    <3>5. drawn =< 2 * faults'
      BY <3>3, <3>4, <1>2
    <3>6. \A q \in Procs : proc'[q].pc = "down"
      BY <1>1, <2>1 DEF Alone
    <3> QED BY <3>5, <3>6, <2>1 DEF DrawsBounded
  <2>2. CASE deployment # "generated"
    BY <2>2 DEF DrawsBounded
  <2> QED BY <2>1, <2>2
<1>6. KeysAgree'
  BY <1>1 DEF KeysAgree, CurrentKey, Ready
<1> QED BY <1>1, <1>2, <1>3, <1>4, <1>5, <1>6

\* The token cannot be written.
LEMMA InvWriteTokenFails ==
    ASSUME Inv, NEW p \in Procs, WriteTokenFails(p)
    PROVE  Inv'
<1> USE DEF Inv
<1>0. /\ proc[p].pc = "write_token" /\ Exit(p) /\ Fault /\ Unread
      /\ UNCHANGED <<deployment, cmd, dbVars, masterFile, tokenFile, drawn, sealed, shown>>
      /\ \/ hashFile' = Absent /\ UNCHANGED lapses
         \/ lapses' = lapses \cup {"cleanup"} /\ UNCHANGED hashFile
  BY DEF WriteTokenFails, TokenInv
<1>1. /\ proc' \in [Procs -> ProcRecords] /\ proc'[p].pc = "down"
      /\ \A q \in Procs : q # p => proc'[q] = proc[q]
      /\ faults' \in 0..MaxFaults
      /\ Alone' /\ Migrated' /\ DrawsBounded' /\ KeysAgree'
  BY <1>0, FaultExits
<1>2. TypeOK'
  <2>1. Absent \in Contents /\ hashFile \in Contents
    BY DEF TypeOK, Contents
  <2>2. hashFile' \in Contents
    BY <2>1, <1>0
  <2>3. lapses' \subseteq {"stop", "cleanup", "command"}
    BY <1>0 DEF TypeOK
  <2> QED BY <2>2, <2>3, <1>0, <1>1 DEF TypeOK, ProcRecords, CmdRecords, dbVars
<1>3. \A q \in Procs : q # p => proc[q].pc = "down"
  BY <1>0, OthersDown DEF KeySteps
<1>4. TokenInv'
  BY <1>0, <1>1, <1>3, ValuesRange DEF TokenInv, Unread
<1>5. NoLockout'
  BY <1>0 DEF NoLockout
<1> QED BY <1>1, <1>2, <1>4, <1>5

\* Another operation fails, or the process is stopped.
LEMMA InvStops ==
    ASSUME Inv, NEW p \in Procs, StepFails(p) \/ Stop(p)
    PROVE  Inv'
<1> USE DEF Inv
<1>0. /\ proc[p].pc # "down" /\ Exit(p) /\ Fault
      /\ UNCHANGED <<deployment, cmd, dbVars, fileVars, drawn, sealed, shown>>
      /\ lapses \subseteq lapses' /\ lapses' \subseteq lapses \cup {"stop"}
      /\ proc[p].pc = "write_token" => "stop" \in lapses'
  BY DEF StepFails, Stop, historyVars, Steps
<1>1. /\ proc' \in [Procs -> ProcRecords] /\ proc'[p].pc = "down"
      /\ \A q \in Procs : q # p => proc'[q] = proc[q]
      /\ faults' \in 0..MaxFaults
      /\ Alone' /\ Migrated' /\ DrawsBounded' /\ KeysAgree'
  BY <1>0, FaultExits DEF fileVars
<1>2. TypeOK'
  BY <1>0, <1>1 DEF TypeOK, ProcRecords, CmdRecords, dbVars, fileVars
<1>3. TokenInv'
  BY <1>0, <1>1 DEF TokenInv, Unread, fileVars
<1>4. NoLockout'
  <2>1. SUFFICES ASSUME hashFile # Absent, lapses' = {}
                 PROVE  \/ tokenFile = hashFile
                        \/ shown[hashFile] = 1
                        \/ \E q \in Procs : proc'[q].pc = "write_token"
                                            /\ proc'[q].draft = hashFile
                        \/ \E a \in Cmds : cmd[a].pc = "removed" /\ cmd[a].token = hashFile
    BY <1>0 DEF NoLockout, fileVars
  <2>2. lapses = {} /\ proc[p].pc # "write_token"
    BY <1>0, <2>1
  <2> QED BY <2>1, <2>2, <1>1 DEF NoLockout
<1> QED BY <1>1, <1>2, <1>3, <1>4

\* A credential is stored under the current key.
LEMMA InvStoreCredential ==
    ASSUME Inv, NEW p \in Procs, StoreCredential(p)
    PROVE  Inv'
<1> USE DEF Inv
<1>0. /\ proc[p].pc = "serving" /\ sealed' = sealed \cup {proc[p].key}
      /\ UNCHANGED <<deployment, proc, cmd, dbVars, fileVars, drawn, shown, lapses, faults>>
      /\ proc[p].key = CurrentKey /\ CurrentKey # Absent
  BY DEF StoreCredential, KeysAgree, Ready
<1>1. proc[p].key \in Values \cup {ProvidedKey}
  BY <1>0, Types DEF ProcRecords
<1>2. TypeOK'
  BY <1>0, <1>1 DEF TypeOK, dbVars, fileVars
<1>3. Alone' /\ DrawsBounded'
  BY <1>0 DEF Alone, DrawsBounded
<1>4. Migrated'
  BY <1>0 DEF Migrated, dbVars
<1>5. KeysAgree'
  BY <1>0 DEF KeysAgree, CurrentKey, fileVars
<1>6. TokenInv' /\ NoLockout'
  BY <1>0 DEF TokenInv, Unread, NoLockout, fileVars
<1> QED BY <1>2, <1>3, <1>4, <1>5, <1>6

\* The commands change neither processes nor the database nor keys.
LEMMA CommandsQuiet ==
    ASSUME Inv, UNCHANGED <<deployment, proc, dbVars, masterFile, drawn, sealed>>,
           faults' = faults \/ faults' = faults + 1
    PROVE  Alone' /\ Migrated' /\ DrawsBounded' /\ KeysAgree'
<1> USE DEF Inv
<1>1. Alone' /\ KeysAgree'
  BY DEF Alone, KeysAgree, CurrentKey
<1>2. Migrated'
  BY DEF Migrated, dbVars
<1>3. DrawsBounded'
  <2>1. faults \in Nat /\ drawn \in Nat
    BY StartupAssumption DEF TypeOK
  <2>2. \A p \in Procs : proc[p].pc # "down" => Weight(proc[p].pc) \in 0..2
    <3>1. \A p \in Procs : proc[p].pc \in Steps \cup {"down", "serving"}
      BY Types DEF ProcRecords
    <3> QED BY <3>1, Weights DEF Steps
  <2>3. faults' \in Nat /\ faults =< faults'
    <3>1. CASE faults' = faults
      BY <3>1, <2>1
    <3>2. CASE faults' = faults + 1
      BY <3>2, <2>1
    <3> QED BY <3>1, <3>2
  <2>4. ASSUME NEW p \in Procs, proc[p].pc # "down", deployment = "generated"
        PROVE  drawn =< 2 * faults' + Weight(proc[p].pc)
    <3>1. drawn =< 2 * faults + Weight(proc[p].pc) /\ Weight(proc[p].pc) \in Nat
      BY <2>4, <2>2 DEF DrawsBounded
    <3> QED BY <3>1, <2>1, <2>3
  <2>5. ASSUME \A p \in Procs : proc[p].pc = "down", deployment = "generated"
        PROVE  drawn =< 2 * faults'
    <3>1. drawn =< 2 * faults
      BY <2>5 DEF DrawsBounded
    <3>2. \A d, m, n \in Nat : d =< 2 * m /\ m =< n => d =< 2 * n
      OBVIOUS
    <3> HIDE DEF Inv
    <3> QED BY <3>1, <3>2, <2>1, <2>3
  <2> QED BY <2>4, <2>5 DEF DrawsBounded
<1> QED BY <1>1, <1>2, <1>3

\* A command reads the token file.
LEMMA InvReadToken ==
    ASSUME Inv, NEW a \in Cmds, ReadToken(a)
    PROVE  Inv'
<1> USE DEF Inv
<1>0. /\ UNCHANGED <<deployment, proc, dbVars, fileVars, drawn, historyVars, faults>>
      /\ cmd[a].pc = "idle" /\ cmd \in [Cmds -> CmdRecords]
  BY Types DEF ReadToken
<1>1. tokenFile \in Values \cup {Absent} /\ tokenFile \in {Absent, hashFile}
  BY ValuesRange DEF TokenInv, TypeOK, Contents
<1>2. /\ cmd' \in [Cmds -> CmdRecords]
      /\ \A b \in Cmds : b # a => cmd'[b] = cmd[b]
      /\ cmd'[a].pc \in {"read", "ended"}
      /\ cmd'[a].pc = "read" => cmd'[a].token = tokenFile /\ tokenFile # Absent
  BY <1>0, <1>1 DEF ReadToken, CmdRecords
<1>3. TypeOK'
  BY <1>0, <1>2 DEF TypeOK, ProcRecords, CmdRecords, dbVars, fileVars, historyVars
<1>4. Alone' /\ Migrated' /\ DrawsBounded' /\ KeysAgree'
  BY <1>0, CommandsQuiet DEF fileVars, historyVars
<1>5. TokenInv'
  BY <1>0, <1>1, <1>2 DEF TokenInv, Unread, fileVars, historyVars
<1>6. NoLockout'
  BY <1>0, <1>2 DEF NoLockout, fileVars, historyVars
<1> QED BY <1>3, <1>4, <1>5, <1>6

\* A command moves on and keeps its token.
LEMMA CmdFacts ==
    ASSUME cmd \in [Cmds -> CmdRecords], NEW a \in Cmds, NEW step \in {"removed", "ended"},
           cmd' = [cmd EXCEPT ![a].pc = step]
    PROVE  /\ cmd' \in [Cmds -> CmdRecords]
           /\ cmd'[a].pc = step /\ cmd'[a].token = cmd[a].token
           /\ \A b \in Cmds : b # a => cmd'[b] = cmd[b]
BY DEF CmdRecords

\* A command removes the token file, if nobody was faster.
LEMMA InvRemoveToken ==
    ASSUME Inv, NEW a \in Cmds, RemoveToken(a)
    PROVE  Inv'
<1> USE DEF Inv
<1>0. /\ UNCHANGED <<deployment, proc, dbVars, masterFile, hashFile, drawn, historyVars, faults>>
      /\ tokenFile' = Absent
      /\ cmd[a].pc = "read" /\ cmd \in [Cmds -> CmdRecords] /\ cmd[a].token = hashFile
      /\ hashFile # Absent
  BY Types DEF RemoveToken, TokenInv, Unread
<1>1. TypeOK' /\ \A b \in Cmds : b # a => cmd'[b] = cmd[b]
  <2>1. cmd' \in [Cmds -> CmdRecords] /\ \A b \in Cmds : b # a => cmd'[b] = cmd[b]
    BY <1>0, CmdFacts DEF RemoveToken
  <2> QED BY <2>1, <1>0
          DEF TypeOK, Contents, ProcRecords, CmdRecords, dbVars, historyVars
<1>2. Alone' /\ Migrated' /\ DrawsBounded' /\ KeysAgree'
  BY <1>0, CommandsQuiet DEF historyVars
<1>3. \A p \in Procs : proc[p].pc # "write_token"
  BY <1>0 DEF TokenInv, Unread
<1>4. CASE tokenFile = Absent
  <2>1. cmd'[a].pc = "ended" /\ cmd'[a].token = cmd[a].token
    BY <1>4, <1>0, CmdFacts DEF RemoveToken
  <2>2. TokenInv'
    BY <2>1, <1>0, <1>1, <1>3, <1>4 DEF TokenInv, Unread, historyVars
  <2>3. NoLockout'
    BY <2>1, <1>0, <1>1, <1>4 DEF NoLockout, historyVars
  <2> QED BY <2>2, <2>3, <1>1, <1>2
<1>5. CASE tokenFile # Absent
  <2>1. cmd'[a].pc = "removed" /\ cmd'[a].token = hashFile
    BY <1>5, <1>0, CmdFacts DEF RemoveToken
  <2>2. TokenInv'
    BY <2>1, <1>0, <1>1, <1>3, <1>5 DEF TokenInv, Unread, historyVars
  <2>3. NoLockout'
    BY <2>1, <1>0 DEF NoLockout, historyVars
  <2> QED BY <2>2, <2>3, <1>1, <1>2
<1> QED BY <1>4, <1>5

\* A command prints the token it removed.
LEMMA InvPrintToken ==
    ASSUME Inv, NEW a \in Cmds, PrintToken(a)
    PROVE  Inv'
<1> USE DEF Inv
<1>0. /\ UNCHANGED <<deployment, proc, dbVars, fileVars, drawn, sealed, lapses, faults>>
      /\ cmd[a].pc = "removed" /\ cmd \in [Cmds -> CmdRecords] /\ cmd[a].token = hashFile
      /\ cmd' = [cmd EXCEPT ![a].pc = "ended"]
      /\ shown' = [shown EXCEPT ![hashFile] = @ + 1]
      /\ hashFile # Absent /\ tokenFile = Absent
      /\ \A b \in Cmds : b # a => cmd[b].pc # "removed"
      /\ \A n \in Values : shown[n] = 0
      /\ shown \in [Values -> Nat]
  BY Types DEF PrintToken, TokenInv, Unread
<1>1. hashFile \in Values
  BY <1>0 DEF TokenInv, TypeOK, Contents
<1>2. /\ cmd' \in [Cmds -> CmdRecords] /\ cmd'[a].pc = "ended"
      /\ \A b \in Cmds : b # a => cmd'[b] = cmd[b]
  BY <1>0, CmdFacts
<1>3. /\ shown' \in [Values -> Nat] /\ shown'[hashFile] = 1
      /\ \A n \in Values : n # hashFile => shown'[n] = 0
  BY <1>0, <1>1
<1>4. TypeOK'
  BY <1>0, <1>2, <1>3 DEF TypeOK, ProcRecords, CmdRecords, dbVars, fileVars
<1>5. Alone' /\ Migrated' /\ DrawsBounded' /\ KeysAgree'
  BY <1>0, CommandsQuiet DEF fileVars
<1>6. \A p \in Procs : proc[p].pc # "write_token"
  BY <1>0 DEF TokenInv, Unread
<1>7. TokenInv'
  <2>1. UNCHANGED <<hashFile, tokenFile, proc>>
    BY <1>0 DEF fileVars
  <2>2. \A b \in Cmds : cmd'[b].pc # "removed"
    BY <1>0, <1>2
  <2>3. \A n \in Values : shown'[n] > 0 => shown'[n] = 1 /\ hashFile = n
    BY <1>3
  <2>4. \A b \in Cmds : cmd'[b].pc \in {"read", "removed"} => cmd'[b].token = hashFile
    BY <1>2 DEF TokenInv
  <2> QED BY <2>1, <2>2, <2>3, <2>4, <1>0, <1>6 DEF TokenInv
<1>8. NoLockout'
  BY <1>0, <1>3 DEF NoLockout, fileVars
<1> QED BY <1>4, <1>5, <1>7, <1>8

\* A command dies.
LEMMA InvCommandStops ==
    ASSUME Inv, NEW a \in Cmds, CommandStops(a)
    PROVE  Inv'
<1> USE DEF Inv
<1>0. /\ UNCHANGED <<deployment, proc, dbVars, fileVars, drawn, sealed, shown>>
      /\ cmd' = [cmd EXCEPT ![a].pc = "ended"] /\ cmd \in [Cmds -> CmdRecords]
      /\ lapses \subseteq lapses' /\ lapses' \subseteq lapses \cup {"command"}
      /\ cmd[a].pc = "removed" => "command" \in lapses'
      /\ faults' = faults + 1 /\ faults' \in 0..MaxFaults
  BY Types, StartupAssumption DEF CommandStops, Fault
<1>1. /\ cmd' \in [Cmds -> CmdRecords] /\ cmd'[a].pc = "ended"
      /\ \A b \in Cmds : b # a => cmd'[b] = cmd[b]
  BY <1>0, CmdFacts
<1>2. TypeOK'
  BY <1>0, <1>1 DEF TypeOK, ProcRecords, CmdRecords, dbVars, fileVars
<1>3. Alone' /\ Migrated' /\ DrawsBounded' /\ KeysAgree'
  BY <1>0, CommandsQuiet DEF fileVars
<1>4. TokenInv'
  BY <1>0, <1>1 DEF TokenInv, Unread, fileVars
<1>5. NoLockout'
  <2>1. lapses' = {} => lapses = {} /\ cmd[a].pc # "removed"
    BY <1>0
  <2> QED BY <2>1, <1>0, <1>1 DEF NoLockout, fileVars
<1> QED BY <1>2, <1>3, <1>4, <1>5

\* Every step of the system keeps the invariant.
LEMMA InvNext == Inv /\ [Next]_vars => Inv'
<1> SUFFICES ASSUME Inv, [Next]_vars PROVE Inv'
  OBVIOUS
<1>1. ASSUME NEW p \in Procs, Advance(p) PROVE Inv'
  BY <1>1, InvCheckMigration, InvApplyMigration, InvEnsureSite, InvEnsureConnection,
     InvReadMasterKey, InvWriteMasterKey, InvReadHash, InvWriteHash, InvWriteToken
     DEF Advance
<1>2. ASSUME NEW p \in Procs,
             \/ Start(p) \/ WriteTokenFails(p) \/ StepFails(p) \/ Stop(p)
             \/ StoreCredential(p)
      PROVE  Inv'
  BY <1>2, InvStart, InvWriteTokenFails, InvStops, InvStoreCredential
<1>3. ASSUME NEW a \in Cmds,
             ReadToken(a) \/ RemoveToken(a) \/ PrintToken(a) \/ CommandStops(a)
      PROVE  Inv'
  BY <1>3, InvReadToken, InvRemoveToken, InvPrintToken, InvCommandStops
<1>4. CASE UNCHANGED vars
  BY <1>4 DEF Inv, vars, dbVars, fileVars, historyVars, TypeOK, Alone, Migrated,
              DrawsBounded, KeysAgree, CurrentKey, TokenInv, Unread, NoLockout
<1> QED BY <1>1, <1>2, <1>3, <1>4 DEF Next

\* The invariant holds throughout.
LEMMA Invariance == Spec => []Inv
BY InvInit, InvNext, PTL DEF Spec

\* Every variable keeps its type; in particular no file is found torn after any
\* stop (writeSecretFile), and the values drawn stay within two for each process
\* that was started after a fault.
THEOREM TypeCorrect == Spec => []TypeOK
<1>1. Inv => TypeOK
  BY DEF Inv
<1> QED BY <1>1, Invariance, PTL

\* However many processes race and wherever they are stopped, the schema is what
\* the ledger says and a process serves only from a complete store.
THEOREM StoresAreReady == Spec => []StoreIsReady
<1>1. Inv => StoreIsReady
  <2>1. SUFFICES ASSUME Inv PROVE StoreIsReady
    OBVIOUS
  <2>2. ASSUME NEW p \in Procs, proc[p].pc = "serving"
        PROVE  ledger = 1..Migrations /\ site /\ connections = Providers
    <3>1. proc[p].next = Migrations + 1 /\ site /\ connections = Providers
      BY <2>1, <2>2 DEF Inv, Migrated, KeySteps, Ready
    <3>2. \A k \in 1..Migrations : k \in ledger
      BY <2>1, <3>1, StartupAssumption DEF Inv, Migrated
    <3>3. ledger \subseteq 1..Migrations
      BY <2>1 DEF Inv, TypeOK
    <3> QED BY <3>1, <3>2, <3>3
  <2> QED BY <2>1, <2>2 DEF Inv, Migrated, StoreIsReady
<1> QED BY <1>1, Invariance, PTL

\* Stored credentials are encrypted under the key the next start will use.
THEOREM CredentialsAreReadable == Spec => []CredentialsStayReadable
<1>1. Inv => CredentialsStayReadable
  BY DEF Inv, KeysAgree, CurrentKey, CredentialsStayReadable
<1> QED BY <1>1, Invariance, PTL

\* The administrator's token is printed at most once, and works.
THEOREM ShownTokensWork == Spec => []ShownTokenWorks
<1>1. Inv => ShownTokenWorks
  BY DEF Inv, TokenInv, ShownTokenWorks
<1> QED BY <1>1, Invariance, PTL

\* Without one of the three named lapses nobody is locked out.
THEOREM NobodyIsLockedOut == Spec => []NoLockout
<1>1. Inv => NoLockout
  BY DEF Inv
<1> QED BY <1>1, Invariance, PTL

-----------------------------------------------------------------------------
(***************************************************************************)
(* Why a restart gets further: no file refuses a later start, and what one *)
(* start has done the next ones keep.  That a start completes is fairness. *)
(***************************************************************************)
Parses == masterFile # Torn /\ hashFile # Torn

\* A hash is taken back only while nobody has its token.
Kept ==
    /\ ledger \subseteq ledger' /\ (site => site') /\ connections \subseteq connections'
    /\ masterFile # Absent => masterFile' = masterFile
    /\ hashFile # Absent => hashFile' = hashFile \/ (hashFile' = Absent /\ Unread)

\* A process writes a key only where there was none.
LEMMA StepKeeps == ASSUME Inv, [Next]_vars PROVE Kept
<1> USE DEF Inv, dbVars, fileVars
<1>1. ASSUME NEW p \in Procs, WriteMasterKey(p) PROVE Kept
  BY <1>1 DEF WriteMasterKey, KeysAgree, Kept
<1>2. ASSUME NEW p \in Procs, WriteHash(p) PROVE Kept
  BY <1>2 DEF WriteHash, TokenInv, Kept
<1>3. ASSUME NEW p \in Procs, WriteTokenFails(p) PROVE Kept
  BY <1>3 DEF WriteTokenFails, TokenInv, Kept
<1>4. ASSUME NEW p \in Procs, ApplyMigration(p) \/ EnsureSite(p) \/ EnsureConnection(p)
      PROVE  Kept
  <2>1. CASE ApplyMigration(p)
    BY <2>1 DEF ApplyMigration, Kept
  <2>2. CASE EnsureSite(p)
    BY <2>2 DEF EnsureSite, Kept
  <2>3. CASE EnsureConnection(p)
    BY <2>3 DEF EnsureConnection, Kept
  <2> QED BY <1>4, <2>1, <2>2, <2>3
<1>5. CASE UNCHANGED <<ledger, site, connections, masterFile, hashFile>>
  BY <1>5 DEF Kept
<1>6. ASSUME NEW p \in Procs,
             \/ Start(p) \/ CheckMigration(p) \/ ReadMasterKey(p) \/ ReadHash(p)
             \/ WriteToken(p) \/ StepFails(p) \/ Stop(p) \/ StoreCredential(p)
      PROVE  UNCHANGED <<ledger, site, connections, masterFile, hashFile>>
  BY <1>6 DEF Start, CheckMigration, ReadMasterKey, ReadHash, WriteToken, StepFails, Stop,
              StoreCredential
<1>7. ASSUME NEW a \in Cmds,
             ReadToken(a) \/ RemoveToken(a) \/ PrintToken(a) \/ CommandStops(a)
      PROVE  UNCHANGED <<ledger, site, connections, masterFile, hashFile>>
  BY <1>7 DEF ReadToken, RemoveToken, PrintToken, CommandStops
<1> QED BY <1>1, <1>2, <1>3, <1>4, <1>5, <1>6, <1>7 DEF Next, Advance, vars

\* No stop leaves a key file that a later start refuses; a master key is never
\* replaced, the accepted token only while nobody has seen it, and no migration,
\* site or connection row is ever undone (main.go: loadOrCreateHexSecret,
\* loadOrCreateBootstrapAPIKey, writeSecretFile; migrate).
THEOREM NothingIsUndone == Spec => []Parses /\ [][Kept]_vars
<1>1. Inv => Parses
  BY DEF Inv, KeysAgree, TokenInv, Parses
<1>2. Inv /\ [Next]_vars => [Kept]_vars
  BY StepKeeps
<1> QED BY <1>1, <1>2, Invariance, PTL DEF Spec

=============================================================================
