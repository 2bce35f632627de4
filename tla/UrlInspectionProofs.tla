------------------------ MODULE UrlInspectionProofs ------------------------
(***************************************************************************)
(* URL inspection over several runs, for every sitemap and batch size and  *)
(* any number of edits and faults.                                         *)
(***************************************************************************)
EXTENDS UrlInspection, TLAPS

Fetched == {"inspect", "write", "mark", "return"}   \* the sitemap is read

\* While a worker is there its run is RUNNING.
Busy == w.pc # "none" => last.status = "RUNNING"

\* Where the worker is in its copy of the sitemap, and what is still to be stored.
Position ==
    w.pc \in Fetched =>
        /\ w.offset =< w.next /\ w.next =< End
        /\ \A k \in 1 .. Len(w.urls) : w.offset < k /\ k =< w.next =>
                w.urls[k] \in covered \cup w.rows
        /\ w.pc # "inspect" /\ ~w.err => w.next = End
        /\ w.pc \in {"mark", "return"} /\ ~w.err => w.rows \subseteq covered

\* While the sitemap stays as it is, the worker has its sitemap and the runs
\* before it have covered what precedes its offset.
Unedited ==
    ~edited /\ w.pc # "none" =>
        /\ w.pc \in Fetched => w.urls = sitemap
        /\ w.offset =< Len(sitemap)
        /\ \A k \in 1 .. w.offset : sitemap[k] \in covered

Inv == TypeOK /\ Busy /\ Position /\ Unedited /\ ResumePointIsCovered /\ PassIsComplete

\* The blank worker is typed.
LEMMA NoWorkerType == NoWorker \in WorkerRecords /\ NoWorker.pc = "none"
<1>1. <<>> \in Seq(Urls)
  OBVIOUS
<1> QED BY <1>1 DEF NoWorker, WorkerRecords, PCs

\* The worker, field by field.
LEMMA WorkerFields ==
    ASSUME TypeOK
    PROVE  /\ w.pc \in PCs /\ w.offset \in Nat /\ w.urls \in Seq(Urls) /\ w.next \in Nat
           /\ w.rows \in SUBSET Urls /\ w.found \in Nat /\ w.err \in BOOLEAN
           /\ w = [pc |-> w.pc, offset |-> w.offset, urls |-> w.urls, next |-> w.next,
                   rows |-> w.rows, found |-> w.found, err |-> w.err]
           /\ last.cursor \in Nat /\ last.status \in Statuses
           /\ Len(w.urls) \in Nat /\ sitemap \in Seq(Urls) /\ Len(sitemap) \in Nat
           /\ Batch \in Nat
BY InspectionAssumption DEF TypeOK, WorkerRecords

\* The end of the batch lies in the sitemap.
LEMMA EndRange ==
    ASSUME TypeOK
    PROVE  End \in Nat /\ End =< Len(w.urls)
BY WorkerFields DEF End

\* The invariant holds initially.
LEMMA InvInit == Init => Inv
<1> SUFFICES ASSUME Init PROVE Inv
  OBVIOUS
<1>1. TypeOK
  BY NoWorkerType DEF Init, TypeOK, Statuses
<1>2. Busy /\ Position /\ Unedited /\ ResumePointIsCovered /\ PassIsComplete
  BY NoWorkerType
     DEF Init, Busy, Position, Unedited, Fetched, ResumePointIsCovered, PassIsComplete
<1> QED BY <1>1, <1>2 DEF Inv

\* A run that ends leaves no worker; only a success or a PARTIAL run owes more.
LEMMA InvFinish ==
    ASSUME Inv, NEW status \in Statuses, NEW cursor \in Nat, Finish(status, cursor),
           UNCHANGED <<sitemap, report, edits, covered, edited>>, faults' \in Nat,
           status = "PARTIAL" /\ ~edited =>
              cursor =< Len(sitemap) /\ \A k \in 1 .. cursor : sitemap[k] \in covered,
           status = "SUCCEEDED" /\ ~edited =>
              \A k \in 1 .. Len(sitemap) : sitemap[k] \in covered
    PROVE  Inv'
<1>1. w' = NoWorker /\ last' = [status |-> status, cursor |-> cursor]
  BY DEF Finish
<1>2. TypeOK'
  BY <1>1, NoWorkerType DEF Inv, TypeOK
<1>3. Busy' /\ Position' /\ Unedited'
  BY <1>1, NoWorkerType DEF Busy, Position, Unedited, Fetched
<1>4. ResumePointIsCovered' /\ PassIsComplete'
  BY <1>1 DEF ResumePointIsCovered, PassIsComplete
<1> QED BY <1>2, <1>3, <1>4 DEF Inv

\* A run starts, over or where a PARTIAL one ended.
LEMMA InvStart == ASSUME Inv, Start PROVE Inv'
<1> USE DEF Inv
<1> DEFINE c == IF last.status = "PARTIAL" THEN last.cursor ELSE 0
<1>0. /\ last' = [status |-> "RUNNING", cursor |-> c]
      /\ w' = [NoWorker EXCEPT !.pc = "sitemap", !.offset = c]
      /\ covered' = IF c = 0 THEN {} ELSE covered
      /\ edited' = IF c = 0 THEN FALSE ELSE edited
      /\ UNCHANGED <<sitemap, report, edits, faults>>
  BY DEF Start
<1>1. c \in Nat /\ sitemap \in Seq(Urls) /\ Len(sitemap) \in Nat
  BY WorkerFields
<1>2. ~edited' => c =< Len(sitemap) /\ \A k \in 1 .. c : sitemap[k] \in covered'
  <2>1. CASE c = 0
    BY <2>1, <1>1
  <2>2. CASE c # 0
    BY <2>2, <1>0 DEF ResumePointIsCovered
  <2> QED BY <2>1, <2>2
<1> HIDE DEF c
<1>3. w' \in WorkerRecords /\ w'.pc = "sitemap" /\ w'.offset = c
  BY <1>0, <1>1, NoWorkerType DEF NoWorker, WorkerRecords, PCs
<1>4. TypeOK'
  BY <1>0, <1>1, <1>3 DEF TypeOK, Statuses
<1>5. Busy' /\ Position' /\ ResumePointIsCovered' /\ PassIsComplete'
  BY <1>0, <1>3 DEF Busy, Position, Fetched, ResumePointIsCovered, PassIsComplete
<1>6. Unedited'
  BY <1>0, <1>2, <1>3 DEF Unedited, Fetched
<1> QED BY <1>4, <1>5, <1>6

\* The sitemap is read, or it has shrunk below the cursor.
LEMMA InvFetchSitemap == ASSUME Inv, FetchSitemap PROVE Inv'
<1> USE DEF Inv
<1>0. w.pc = "sitemap" /\ UNCHANGED <<sitemap, report, edits, faults, covered, edited>>
  BY DEF FetchSitemap
<1>1. CASE Finish("FAILED", 0)
  <2>1. faults' \in Nat
    BY <1>0 DEF TypeOK
  <2> QED BY <1>1, <1>0, <2>1, InvFinish DEF Statuses
<1>2. CASE /\ w.offset <= Len(sitemap) /\ UNCHANGED last
           /\ w' = [w EXCEPT !.pc = "inspect", !.urls = sitemap, !.next = w.offset]
  <2>0. w.offset \in Nat /\ sitemap \in Seq(Urls) /\ Len(sitemap) \in Nat /\ Batch \in Nat
    BY WorkerFields
  <2>1. /\ w' \in WorkerRecords /\ w'.pc = "inspect" /\ w'.urls = sitemap
        /\ w'.next = w.offset /\ w'.offset = w.offset
    BY <1>2, <2>0 DEF TypeOK, WorkerRecords, PCs
  <2>2. TypeOK'
    BY <2>1, <1>0, <1>2 DEF TypeOK
  <2>3. w'.next =< End'
    BY <2>0, <2>1, <1>2 DEF End
  <2>4. Position'
    BY <2>0, <2>1, <2>3 DEF Position, Fetched
  <2>5. Unedited' /\ Busy' /\ ResumePointIsCovered' /\ PassIsComplete'
    BY <2>1, <1>0, <1>2 DEF Unedited, Busy, ResumePointIsCovered, PassIsComplete
  <2> QED BY <2>2, <2>4, <2>5
<1> QED BY <1>1, <1>2 DEF FetchSitemap

\* One URL is inspected: its row is to be stored, or there is nothing to store.
LEMMA InvInspect == ASSUME Inv, Inspect \/ InspectEmpty PROVE Inv'
<1> USE DEF Inv
<1> DEFINE url == w.urls[w.next + 1]
<1>0. /\ w.pc = "inspect" /\ w.next < End
      /\ UNCHANGED <<sitemap, last, report, edits, faults, edited>>
      /\ w.next \in Nat /\ w.offset \in Nat /\ w.urls \in Seq(Urls)
      /\ Len(w.urls) \in Nat /\ End \in Nat /\ End =< Len(w.urls)
      /\ w.offset =< w.next
  BY WorkerFields, EndRange DEF Inspect, InspectEmpty, Position, Fetched
<1>1. w.next + 1 \in 1 .. Len(w.urls) /\ url \in Urls
  BY <1>0
<1> HIDE DEF url
<1>2. /\ w' \in WorkerRecords /\ w'.pc = "inspect" /\ w'.next = w.next + 1
      /\ w'.offset = w.offset /\ w'.urls = w.urls
      /\ w.rows \subseteq w'.rows
      /\ covered \subseteq covered' /\ covered' \in SUBSET Urls
      /\ url \in covered' \cup w'.rows
  <2>1. CASE Inspect
    <3>1. w' = [w EXCEPT !.next = @ + 1, !.rows = @ \cup {url}, !.found = @ + 1]
      BY <2>1 DEF Inspect, url
    <3>2. covered' = covered
      BY <2>1 DEF Inspect
    <3>3. w.rows \in SUBSET Urls /\ w.found \in Nat
      BY WorkerFields
    <3>4. w.rows \cup {url} \in SUBSET Urls /\ w.found + 1 \in Nat /\ w.next + 1 \in Nat
      BY <3>3, <1>0, <1>1
    <3>5. w' = [pc |-> w.pc, offset |-> w.offset, urls |-> w.urls, next |-> w.next + 1,
                rows |-> w.rows \cup {url}, found |-> w.found + 1, err |-> w.err]
      BY <3>1, WorkerFields
    <3>6. w' \in WorkerRecords
      BY <3>4, <3>5, WorkerFields DEF WorkerRecords
    <3>7. /\ w'.pc = "inspect" /\ w'.next = w.next + 1 /\ w'.offset = w.offset
          /\ w'.urls = w.urls /\ w'.rows = w.rows \cup {url}
      BY <3>5, <1>0
    <3>8. covered \in SUBSET Urls
      BY DEF TypeOK
    <3> QED BY <3>2, <3>6, <3>7, <3>8
  <2>2. CASE InspectEmpty
    <3>1. w' = [w EXCEPT !.next = @ + 1] /\ covered' = covered \cup {url}
      BY <2>2 DEF InspectEmpty, url
    <3> QED BY <3>1, <1>0, <1>1 DEF TypeOK, WorkerRecords
  <2> QED BY <2>1, <2>2
<1>3. TypeOK'
  BY <1>0, <1>2 DEF TypeOK
<1>4. End' = End
  BY <1>2 DEF End
<1>5. Position'
  <2>1. ASSUME NEW k \in 1 .. Len(w'.urls), w'.offset < k, k =< w'.next
        PROVE  w'.urls[k] \in covered' \cup w'.rows
    <3>1. k =< w.next \/ k = w.next + 1
      BY <2>1, <1>0, <1>2
    <3>2. CASE k =< w.next
      <4>1. w.urls[k] \in covered \cup w.rows
        BY <3>2, <2>1, <1>0, <1>2 DEF Position, Fetched
      <4> QED BY <4>1, <1>2
    <3>3. CASE k = w.next + 1
      BY <3>3, <1>2 DEF url
    <3> QED BY <3>1, <3>2, <3>3
  <2>2. w'.offset =< w'.next /\ w'.next =< End'
    BY <1>0, <1>2, <1>4
  <2> QED BY <2>1, <2>2, <1>2 DEF Position
<1>6. Unedited' /\ Busy' /\ ResumePointIsCovered' /\ PassIsComplete'
  BY <1>0, <1>2
     DEF Unedited, Busy, ResumePointIsCovered, PassIsComplete, Fetched
<1> QED BY <1>3, <1>5, <1>6

\* The worker goes on without touching what is covered.
LEMMA InvMove ==
    ASSUME Inv, NEW pc \in {"write", "mark", "return"}, w.pc \in Fetched, w'.pc = pc,
           w' \in WorkerRecords, w'.offset = w.offset, w'.urls = w.urls,
           w'.next = w.next, w'.rows = w.rows,
           w'.err \/ (w.next = End /\ (pc # "write" => w.rows \subseteq covered')),
           covered \subseteq covered', covered' \in SUBSET Urls,
           last' \in [status : Statuses, cursor : Nat], last'.status = last.status,
           report' \in SUBSET Urls, faults' \in Nat, UNCHANGED <<sitemap, edits, edited>>
    PROVE  Inv'
<1> USE DEF Inv
<1>0. last.status = "RUNNING"
  BY DEF Busy, Fetched
<1>1. TypeOK'
  BY DEF TypeOK
<1>2. End' = End
  BY DEF End
<1>3. Position'
  BY <1>2 DEF Position, Fetched
<1>4. Unedited'
  BY DEF Unedited, Fetched
<1>5. Busy' /\ ResumePointIsCovered' /\ PassIsComplete'
  BY <1>0 DEF Busy, ResumePointIsCovered, PassIsComplete
<1> QED BY <1>1, <1>3, <1>4, <1>5

\* What the worker knows once its batch is behind it without an error.
LEMMA BatchCovered ==
    ASSUME Inv, w.pc \in {"mark", "return"}, ~w.err, ~edited
    PROVE  /\ w.urls = sitemap /\ End \in Nat /\ End =< Len(sitemap)
           /\ \A k \in 1 .. End : sitemap[k] \in covered
<1> USE DEF Inv
<1>0. /\ w.urls = sitemap /\ w.offset \in Nat /\ Len(sitemap) \in Nat
      /\ End \in Nat /\ End =< Len(sitemap) /\ w.next = End /\ w.rows \subseteq covered
  BY WorkerFields, EndRange DEF Unedited, Position, Fetched
<1>1. ASSUME NEW k \in 1 .. End PROVE sitemap[k] \in covered
  <2>1. CASE k =< w.offset
    <3>1. k \in 1 .. w.offset
      BY <2>1, <1>0
    <3> QED BY <3>1 DEF Unedited
  <2>2. CASE w.offset < k
    <3>1. k \in 1 .. Len(w.urls) /\ k =< w.next
      BY <1>0
    <3>2. w.urls[k] \in covered \cup w.rows
      BY <2>2, <3>1 DEF Position, Fetched
    <3> QED BY <3>2, <1>0
  <2> QED BY <1>0, <2>1, <2>2
<1> QED BY <1>0, <1>1

\* The cursor a run leaves behind is a position.
LEMMA NextCursorType == ASSUME TypeOK PROVE NextCursor \in Nat
BY WorkerFields, EndRange DEF NextCursor

\* A failing call counts.
LEMMA FaultType == ASSUME TypeOK, Fault PROVE faults' \in Nat
BY DEF TypeOK, Fault

\* The steps that take the worker from its batch to its checkpoint.
LEMMA InvWorker ==
    ASSUME Inv, \/ InspectFails \/ BatchDone \/ Write \/ WriteFails
                \/ Checkpoint \/ CheckpointFails
    PROVE  Inv'
<1> USE DEF Inv
<1>0. /\ report \in SUBSET Urls /\ covered \in SUBSET Urls /\ faults \in Nat
      /\ last \in [status : Statuses, cursor : Nat] /\ w \in WorkerRecords
      /\ w.rows \in SUBSET Urls
  BY WorkerFields DEF TypeOK
<1>1. CASE InspectFails
  <2>1. /\ w' \in WorkerRecords /\ w'.pc = "write" /\ w'.err /\ w'.offset = w.offset
        /\ w'.urls = w.urls /\ w'.next = w.next /\ w'.rows = w.rows
    BY <1>1, <1>0 DEF InspectFails, WorkerRecords, PCs
  <2>2. faults' \in Nat
    BY <1>1, FaultType DEF InspectFails
  <2> QED BY <2>1, <2>2, <1>1, <1>0, InvMove DEF InspectFails, Fetched
<1>2. CASE BatchDone
  <2>1. /\ w' \in WorkerRecords /\ w'.pc = "write" /\ w'.offset = w.offset
        /\ w'.urls = w.urls /\ w'.next = w.next /\ w'.rows = w.rows
    BY <1>2, <1>0 DEF BatchDone, WorkerRecords, PCs
  <2> QED BY <2>1, <1>2, <1>0, InvMove DEF BatchDone, Fetched
<1>3. CASE Write
  <2>1. /\ w' \in WorkerRecords /\ w'.pc = "mark" /\ w'.offset = w.offset
        /\ w'.urls = w.urls /\ w'.next = w.next /\ w'.rows = w.rows /\ w'.err = w.err
    BY <1>3, <1>0 DEF Write, WorkerRecords, PCs
  <2>2. w.pc = "write" /\ (~w.err => w.next = End)
    BY <1>3 DEF Write, Position, Fetched
  <2>3. report' \in SUBSET Urls /\ covered' \in SUBSET Urls /\ w.rows \subseteq covered'
        /\ covered \subseteq covered'
    BY <1>3, <1>0 DEF Write
  <2> QED BY <2>1, <2>2, <2>3, <1>3, <1>0, InvMove DEF Write, Fetched
<1>4. CASE WriteFails
  <2>1. faults' \in Nat
    BY <1>4, FaultType DEF WriteFails
  <2>2. CASE w.err
    <3>1. /\ w' \in WorkerRecords /\ w'.pc = "mark" /\ w'.offset = w.offset /\ w'.err
          /\ w'.urls = w.urls /\ w'.next = w.next /\ w'.rows = w.rows /\ UNCHANGED last
      BY <1>4, <2>2, <1>0 DEF WriteFails, WorkerRecords, PCs
    <3> QED BY <3>1, <2>1, <1>4, <1>0, InvMove DEF WriteFails, Fetched
  <2>3. CASE ~w.err
    BY <2>1, <2>3, <1>4, InvFinish DEF WriteFails, Statuses
  <2> QED BY <2>2, <2>3
<1>5. CASE Checkpoint
  <2>1. /\ w' \in WorkerRecords /\ w'.pc = "return" /\ w'.offset = w.offset
        /\ w'.urls = w.urls /\ w'.next = w.next /\ w'.rows = w.rows /\ w'.err = w.err
    BY <1>5, <1>0 DEF Checkpoint, WorkerRecords, PCs
  <2>2. w.pc = "mark" /\ (~w.err => w.next = End /\ w.rows \subseteq covered)
    BY <1>5 DEF Checkpoint, Position, Fetched
  <2>3. last' \in [status : Statuses, cursor : Nat] /\ last'.status = last.status
    BY <1>5, <1>0, NextCursorType DEF Checkpoint
  <2> QED BY <2>1, <2>2, <2>3, <1>5, <1>0, InvMove DEF Checkpoint, Fetched
<1>6. CASE CheckpointFails
  <2>1. faults' \in Nat
    BY <1>6, FaultType DEF CheckpointFails
  <2>2. CASE w.err
    <3>1. /\ w' \in WorkerRecords /\ w'.pc = "return" /\ w'.offset = w.offset /\ w'.err
          /\ w'.urls = w.urls /\ w'.next = w.next /\ w'.rows = w.rows /\ UNCHANGED last
      BY <1>6, <2>2, <1>0 DEF CheckpointFails, WorkerRecords, PCs
    <3> QED BY <3>1, <2>1, <1>6, <1>0, InvMove DEF CheckpointFails, Fetched
  <2>3. CASE ~w.err
    BY <2>1, <2>3, <1>6, InvFinish DEF CheckpointFails, Statuses
  <2> QED BY <2>2, <2>3
<1> QED BY <1>1, <1>2, <1>3, <1>4, <1>5, <1>6

\* The steps with which a run ends.
LEMMA InvEnd ==
    ASSUME Inv, PassDone \/ Return \/ FetchSitemapFails
    PROVE  Inv'
<1> USE DEF Inv
<1>1. CASE PassDone
  <2>1. faults' \in Nat
    BY <1>1 DEF PassDone, TypeOK
  <2>2. ~edited => \A k \in 1 .. Len(sitemap) : sitemap[k] \in covered
    BY <1>1, BatchCovered DEF PassDone
  <2>3. Finish("SUCCEEDED", 0) /\ UNCHANGED <<sitemap, report, edits, covered, edited>>
    BY <1>1 DEF PassDone
  <2> QED BY <2>1, <2>2, <2>3, InvFinish DEF Statuses
<1>2. CASE Return
  <2>1. faults' \in Nat
    BY <1>2 DEF Return, TypeOK
  <2> DEFINE status == IF w.err THEN "FAILED" ELSE "PARTIAL"
  <2>2. status = "PARTIAL" /\ ~edited =>
           /\ NextCursor =< Len(sitemap)
           /\ \A k \in 1 .. NextCursor : sitemap[k] \in covered
    BY <1>2, BatchCovered DEF Return, NextCursor
  <2>3. /\ Finish(status, NextCursor) /\ UNCHANGED <<sitemap, report, edits, covered, edited>>
        /\ status \in Statuses /\ status # "SUCCEEDED" /\ NextCursor \in Nat
    BY <1>2, NextCursorType DEF Return, Statuses
  <2> HIDE DEF status
  <2> QED BY <2>1, <2>2, <2>3, InvFinish
<1>3. CASE FetchSitemapFails
  <2>1. faults' \in Nat
    BY <1>3, FaultType DEF FetchSitemapFails
  <2> QED BY <2>1, <1>3, InvFinish DEF FetchSitemapFails, Statuses
<1> QED BY <1>1, <1>2, <1>3

\* Dead workers, expired leases and edits.
LEMMA InvEnvironment ==
    ASSUME Inv, Die \/ Expire \/ Edit
    PROVE  Inv'
<1> USE DEF Inv
<1>1. CASE Die
  <2>1. faults' \in Nat /\ last.status = "RUNNING" /\ w' = NoWorker
        /\ UNCHANGED <<sitemap, last, report, edits, covered, edited>>
    BY <1>1, FaultType DEF Die, Busy
  <2>2. TypeOK'
    BY <2>1, NoWorkerType DEF TypeOK
  <2> QED BY <2>1, <2>2, NoWorkerType
          DEF Busy, Position, Unedited, Fetched, ResumePointIsCovered, PassIsComplete
<1>2. CASE Expire
  <2>1. last' \in [status : Statuses, cursor : Nat] /\ last'.status = "FAILED"
    BY <1>2 DEF Expire, TypeOK, Statuses
  <2>2. TypeOK'
    BY <1>2, <2>1 DEF Expire, TypeOK
  <2>3. w'.pc = "none"
    BY <1>2 DEF Expire
  <2> QED BY <2>1, <2>2, <2>3
          DEF Busy, Position, Unedited, Fetched, ResumePointIsCovered, PassIsComplete
<1>3. CASE Edit
  <2>1. TypeOK'
    BY <1>3 DEF Edit, TypeOK
  <2>2. Busy' /\ Unedited' /\ ResumePointIsCovered' /\ PassIsComplete'
    BY <1>3 DEF Edit, Busy, Unedited, ResumePointIsCovered, PassIsComplete
  <2>3. Position'
    BY <1>3 DEF Edit, Position, End
  <2> QED BY <2>1, <2>2, <2>3
<1> QED BY <1>1, <1>2, <1>3

\* Every step preserves the invariant.
LEMMA InvNext == Inv /\ [Next]_vars => Inv'
<1> SUFFICES ASSUME Inv, [Next]_vars PROVE Inv'
  OBVIOUS
<1>1. CASE ScheduledStart \/ ManualStart
  BY <1>1, InvStart DEF ScheduledStart, ManualStart
<1>2. CASE Work
  BY <1>2, InvFetchSitemap, InvInspect, InvWorker, InvEnd, InvEnvironment DEF Work
<1>3. CASE FetchSitemapFails \/ InspectFails \/ WriteFails \/ CheckpointFails \/ Die \/ Edit
  BY <1>3, InvWorker, InvEnd, InvEnvironment
<1>4. CASE UNCHANGED vars
  BY <1>4 DEF vars, Inv, TypeOK, Busy, Position, Unedited, ResumePointIsCovered,
              PassIsComplete, End
<1> QED BY <1>1, <1>2, <1>3, <1>4 DEF Next

\* The invariant holds throughout.
LEMMA Invariance == Spec => []Inv
BY InvInit, InvNext, PTL DEF Spec

\* The state of a pass keeps its type, for all sitemaps, batches and bounds.
THEOREM TypeCorrect == Spec => []TypeOK
<1>1. Inv => TypeOK
  BY DEF Inv
<1> QED BY Invariance, <1>1, PTL

\* The cursor a PARTIAL run leaves never passes a URL whose row was not stored
\* (searchconsole.go:324-360, store.go:503-521).
THEOREM ResumePointsAreCovered == Spec => []ResumePointIsCovered
<1>1. Inv => ResumePointIsCovered
  BY DEF Inv
<1> QED BY Invariance, <1>1, PTL

\* A pass that ends in a success has been over the whole sitemap, over however
\* many runs, failures and crashes (searchconsole.go:353-363).
THEOREM PassesAreComplete == Spec => []PassIsComplete
<1>1. Inv => PassIsComplete
  BY DEF Inv
<1> QED BY Invariance, <1>1, PTL

-----------------------------------------------------------------------------
(* Why a pass over an unchanging sitemap takes finitely many runs: each one *)
(* that does not end it is a whole batch further.                           *)

\* A worker returns without an error only where URLs are left.
More == w.pc = "return" /\ ~w.err => End < Len(w.urls)

\* A run becomes PARTIAL a batch after where it started, before the end.
MovesOn ==
    last'.status = "PARTIAL" /\ last.status # "PARTIAL" =>
        last'.cursor = w.offset + Batch /\ last'.cursor < Len(w.urls)

\* The worker gets to its return through a checkpoint, or with an error.
LEMMA MoreNext == Inv /\ More /\ [Next]_vars => More'
<1> SUFFICES ASSUME Inv, More, [Next]_vars PROVE More'
  OBVIOUS
<1> USE DEF Inv
<1>1. CASE w' = w
  BY <1>1 DEF More, End
<1>2. CASE w'.pc # "return"
  BY <1>2 DEF More
<1>3. CASE w'.err
  BY <1>3 DEF More
<1>4. CASE Checkpoint
  <2>1. /\ w'.err = w.err /\ w'.offset = w.offset /\ w'.urls = w.urls
        /\ w.err \/ End < Len(w.urls)
    BY <1>4, WorkerFields DEF Checkpoint
  <2> QED BY <2>1 DEF More, End
<1>5. CASE ~Checkpoint
  <2>1. ASSUME NEW status, NEW cursor, Finish(status, cursor) PROVE w'.pc # "return"
    BY <2>1, NoWorkerType DEF Finish
  <2>2. CASE ScheduledStart \/ ManualStart \/ Die
    BY <2>2, <1>2, NoWorkerType DEF ScheduledStart, ManualStart, Start, Die, NoWorker
  <2>3. CASE FetchSitemap \/ FetchSitemapFails \/ PassDone \/ Return
    BY <2>1, <2>3, <1>2, WorkerFields DEF FetchSitemap, FetchSitemapFails, PassDone, Return
  <2>4. CASE Inspect \/ InspectEmpty \/ BatchDone \/ Write \/ InspectFails
    BY <2>4, <1>2, WorkerFields DEF Inspect, InspectEmpty, BatchDone, Write, InspectFails
  <2>5. CASE WriteFails \/ CheckpointFails
    BY <2>1, <2>5, <1>2, <1>3, WorkerFields DEF WriteFails, CheckpointFails
  <2> QED BY <1>1, <1>5, <2>2, <2>3, <2>4, <2>5 DEF Next, Work, Expire, Edit, vars
<1> QED BY <1>4, <1>5

\* Only a worker that returns leaves a PARTIAL run.
LEMMA StepMovesOn == ASSUME Inv, More, [Next]_vars PROVE MovesOn
<1> USE DEF Inv
<1>1. CASE Return
  <2>1. w.pc = "return" /\ last'.cursor = NextCursor
        /\ last'.status = IF w.err THEN "FAILED" ELSE "PARTIAL"
    BY <1>1 DEF Return, Finish
  <2>2. CASE w.err
    BY <2>1, <2>2 DEF MovesOn
  <2>3. CASE ~w.err
    <3>1. last'.cursor = End /\ End < Len(w.urls)
      BY <2>1, <2>3 DEF NextCursor, More
    <3>2. End = w.offset + Batch
      BY <3>1, WorkerFields DEF End
    <3> QED BY <3>1, <3>2 DEF MovesOn
  <2> QED BY <2>2, <2>3
<1>2. CASE ~Return
  <2>1. \/ last'.status \in {"FAILED", "SUCCEEDED", "RUNNING"}
        \/ last'.status = last.status
    <3>0. last \in [status : Statuses, cursor : Nat]
      BY DEF TypeOK
    <3>1. CASE ScheduledStart \/ ManualStart
      <4>1. PICK c : last' = [status |-> "RUNNING", cursor |-> c]
        BY <3>1 DEF ScheduledStart, ManualStart, Start
      <4> QED BY <4>1
    <3>2. CASE Checkpoint \/ Expire
      BY <3>0, <3>2 DEF Checkpoint, Expire
    <3>3. CASE FetchSitemap \/ FetchSitemapFails \/ PassDone \/ WriteFails \/ CheckpointFails
      BY <3>3 DEF FetchSitemap, FetchSitemapFails, PassDone, WriteFails, CheckpointFails, Finish
    <3> QED BY <1>2, <3>1, <3>2, <3>3
            DEF Next, Work, Inspect, InspectEmpty, BatchDone, Write, InspectFails, Die, Edit,
                vars
  <2> QED BY <2>1 DEF MovesOn
<1> QED BY <1>1, <1>2

\* A run that reports PARTIAL is a whole batch further than it started and short
\* of the end of the sitemap it read, so a pass takes at most Len / Batch + 1 runs
\* that end well, and no run resumes where the one before it did
\* (searchconsole.go:324-363).
THEOREM PartialRunsMoveOn == Spec => [][MovesOn]_vars
<1>1. Init => More
  BY NoWorkerType DEF Init, More
<1>2. Inv /\ More /\ [Next]_vars => [MovesOn]_vars
  BY StepMovesOn
<1> QED BY <1>1, <1>2, MoreNext, Invariance, PTL DEF Spec

=============================================================================
