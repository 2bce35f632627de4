--------------------------- MODULE UrlInspection ---------------------------
(***************************************************************************)
(* URL inspection (syncURLInspection in providers/searchconsole): the one  *)
(* capability that works through its input in batches over several runs.   *)
(* A run fetches the sitemap, inspects up to Batch URLs from the cursor of *)
(* the run before, stores the rows, checkpoints and, while URLs remain,    *)
(* ends PARTIAL so that the next run goes on.  A pass is the sequence of   *)
(* runs from an empty cursor to a success.                                 *)
(*                                                                         *)
(* Runs of one job do not overlap (OneWorkerPerJob of SyncEngine), so one  *)
(* worker and the newest row of sync_runs are enough here.                 *)
(***************************************************************************)
EXTENDS Integers, Sequences

CONSTANTS
    Urls,           \* URLs of the site
    Sitemaps,       \* what sitemapURLs may return: no URL twice, never empty
    Batch,          \* inspectionBatch
    LookbackDays,   \* Config.LookbackDays, the width of a default range
    MaxRangeDays,   \* of the capability's descriptor
    MaxEdits,       \* how often the sitemap changes (bound)
    MaxFaults       \* how many calls fail or workers die (bound)

ASSUME InspectionAssumption ==
    /\ Batch \in Nat \ {0}
    /\ Sitemaps \subseteq Seq(Urls) \ {<<>>}
    /\ LookbackDays \in Nat /\ MaxRangeDays \in Nat
    /\ MaxEdits \in Nat /\ MaxFaults \in Nat

VARIABLES
    sitemap,    \* the sitemap as it is now
    last,       \* status and cursor of the newest run
    w,          \* the worker
    report,     \* URLs with a row in the dataset url_inspection
    edits, faults,
    covered,    \* history: URLs this pass has stored, or got an empty answer for
    edited      \* history: the sitemap has changed during this pass

vars == <<sitemap, last, w, report, edits, faults, covered, edited>>

-----------------------------------------------------------------------------
\* offset: the cursor the run started from; next: URLs done; rows: URLs with an
\* answer to store, found of them; err: an inspection failed.
NoWorker == [pc |-> "none", offset |-> 0, urls |-> <<>>, next |-> 0, rows |-> {},
             found |-> 0, err |-> FALSE]

Init ==
    /\ sitemap \in Sitemaps
    /\ last = [status |-> "NONE", cursor |-> 0]
    /\ w = NoWorker
    /\ report = {}
    /\ edits = 0 /\ faults = 0
    /\ covered = {} /\ edited = FALSE

End == IF w.offset + Batch < Len(w.urls) THEN w.offset + Batch ELSE Len(w.urls)

Fault == faults < MaxFaults /\ faults' = faults + 1

\* The run ends with this row; its worker is done.
Finish(status, cursor) ==
    /\ last' = [status |-> status, cursor |-> cursor]
    /\ w' = NoWorker

-----------------------------------------------------------------------------
(* Create and ResumeCursor.                                                *)

\* Mutant: the status of the newest run is not looked at.
StartFromAnyRun ==
    /\ last.status # "RUNNING"
    /\ last' = [status |-> "RUNNING", cursor |-> last.cursor]
    /\ w' = [NoWorker EXCEPT !.pc = "sitemap", !.offset = last.cursor]
    /\ covered' = IF last.cursor = 0 THEN {} ELSE covered
    /\ edited' = IF last.cursor = 0 THEN FALSE ELSE edited
    /\ UNCHANGED <<sitemap, report, edits, faults>>

\* A pass starts over unless the newest run is PARTIAL.
Start ==
    LET c == IF last.status = "PARTIAL" THEN last.cursor ELSE 0 IN
    /\ last.status # "RUNNING"
    /\ last' = [status |-> "RUNNING", cursor |-> c]
    /\ w' = [NoWorker EXCEPT !.pc = "sitemap", !.offset = c]
    /\ covered' = IF c = 0 THEN {} ELSE covered
    /\ edited' = IF c = 0 THEN FALSE ELSE edited
    /\ UNCHANGED <<sitemap, report, edits, faults>>

\* The scheduler asks for the default range of LookbackDays, which resolveRange
\* rejects when it is wider than the capability allows.
ScheduledStart == LookbackDays <= MaxRangeDays /\ Start

\* An administrator asks for a range that is accepted.
ManualStart == Start

-----------------------------------------------------------------------------
(* syncURLInspection.                                                      *)

\* Mutant: a cursor beyond the sitemap is kept for the next run.
FetchSitemapKeepsCursor ==
    /\ w.pc = "sitemap"
    /\ \/ /\ w.offset <= Len(sitemap)
          /\ w' = [w EXCEPT !.pc = "inspect", !.urls = sitemap, !.next = w.offset]
          /\ UNCHANGED last
       \/ w.offset > Len(sitemap) /\ Finish("PARTIAL", w.offset)
    /\ UNCHANGED <<sitemap, report, edits, faults, covered, edited>>

FetchSitemap ==
    /\ w.pc = "sitemap"
    /\ \/ /\ w.offset <= Len(sitemap)
          /\ w' = [w EXCEPT !.pc = "inspect", !.urls = sitemap, !.next = w.offset]
          /\ UNCHANGED last
       \/ w.offset > Len(sitemap) /\ Finish("FAILED", 0)
    /\ UNCHANGED <<sitemap, report, edits, faults, covered, edited>>

FetchSitemapFails ==
    /\ w.pc = "sitemap"
    /\ Fault
    /\ Finish("FAILED", 0)
    /\ UNCHANGED <<sitemap, report, edits, covered, edited>>

Inspect ==
    /\ w.pc = "inspect" /\ w.next < End
    /\ w' = [w EXCEPT !.next = @ + 1, !.rows = @ \cup {w.urls[w.next + 1]},
                      !.found = @ + 1]
    /\ UNCHANGED <<sitemap, last, report, edits, faults, covered, edited>>

\* The answer has no index status: the URL is skipped.
InspectEmpty ==
    /\ w.pc = "inspect" /\ w.next < End
    /\ w' = [w EXCEPT !.next = @ + 1]
    /\ covered' = covered \cup {w.urls[w.next + 1]}
    /\ UNCHANGED <<sitemap, last, report, edits, faults, edited>>

InspectFails ==
    /\ w.pc = "inspect" /\ w.next < End
    /\ Fault
    /\ w' = [w EXCEPT !.pc = "write", !.err = TRUE]
    /\ UNCHANGED <<sitemap, last, report, edits, covered, edited>>

BatchDone ==
    /\ w.pc = "inspect" /\ w.next = End
    /\ w' = [w EXCEPT !.pc = "write"]
    /\ UNCHANGED <<sitemap, last, report, edits, faults, covered, edited>>

Write ==
    /\ w.pc = "write"
    /\ report' = report \cup w.rows
    /\ covered' = covered \cup w.rows
    /\ w' = [w EXCEPT !.pc = "mark"]
    /\ UNCHANGED <<sitemap, last, edits, faults, edited>>

\* After a failed inspection the result of the write is ignored.
WriteFails ==
    /\ w.pc = "write" /\ w.rows # {}
    /\ Fault
    /\ IF w.err THEN w' = [w EXCEPT !.pc = "mark"] /\ UNCHANGED last
       ELSE Finish("FAILED", 0)
    /\ UNCHANGED <<sitemap, report, edits, covered, edited>>

\* Mutants: off by one, either way.
NextCursorOneBack == IF w.err THEN w.offset + w.found - 1 ELSE End
NextCursorOneAhead == IF w.err THEN w.offset + w.found ELSE End + 1

\* Where the next run is to go on.
NextCursor == IF w.err THEN w.offset + w.found ELSE End

Checkpoint ==
    /\ w.pc = "mark"
    /\ w.err \/ End < Len(w.urls)
    /\ last' = [last EXCEPT !.cursor = NextCursor]
    /\ w' = [w EXCEPT !.pc = "return"]
    /\ UNCHANGED <<sitemap, report, edits, faults, covered, edited>>

\* Also a success that comes after the deadline of the run.
CheckpointFails ==
    /\ w.pc = "mark"
    /\ Fault
    /\ IF w.err THEN w' = [w EXCEPT !.pc = "return"] /\ UNCHANGED last
       ELSE Finish("FAILED", 0)
    /\ UNCHANGED <<sitemap, report, edits, covered, edited>>

PassDone ==
    /\ w.pc = "mark"
    /\ ~w.err /\ End = Len(w.urls)
    /\ Finish("SUCCEEDED", 0)
    /\ UNCHANGED <<sitemap, report, edits, faults, covered, edited>>

Return ==
    /\ w.pc = "return"
    /\ Finish(IF w.err THEN "FAILED" ELSE "PARTIAL", NextCursor)
    /\ UNCHANGED <<sitemap, report, edits, faults, covered, edited>>

-----------------------------------------------------------------------------
(* The environment.                                                        *)

\* The worker dies or cannot store its outcome: the row stays RUNNING ...
Die ==
    /\ w.pc # "none"
    /\ Fault
    /\ w' = NoWorker
    /\ UNCHANGED <<sitemap, last, report, edits, covered, edited>>

\* ... until its lease expires, and keeps its checkpoint.
Expire ==
    /\ w.pc = "none" /\ last.status = "RUNNING"
    /\ last' = [last EXCEPT !.status = "FAILED"]
    /\ UNCHANGED <<sitemap, w, report, edits, faults, covered, edited>>

Edit ==
    /\ edits < MaxEdits
    /\ sitemap' \in Sitemaps \ {sitemap}
    /\ edits' = edits + 1
    /\ edited' = TRUE
    /\ UNCHANGED <<last, w, report, faults, covered>>

Work ==
    \/ FetchSitemap \/ Inspect \/ InspectEmpty \/ BatchDone
    \/ Write \/ Checkpoint \/ PassDone \/ Return \/ Expire

Next ==
    \/ ScheduledStart \/ ManualStart \/ Work
    \/ FetchSitemapFails \/ InspectFails \/ WriteFails \/ CheckpointFails
    \/ Die \/ Edit

Spec == Init /\ [][Next]_vars

\* The scheduler ticks, a worker works, a lease expires; nobody has to edit,
\* fail or request a run by hand.
FairSpec == Spec /\ WF_vars(ScheduledStart) /\ WF_vars(Work)

-----------------------------------------------------------------------------
(* Properties.                                                             *)

Statuses == {"NONE", "RUNNING", "SUCCEEDED", "PARTIAL", "FAILED"}
PCs == {"none", "sitemap", "inspect", "write", "mark", "return"}
WorkerRecords ==
    [pc : PCs, offset : Nat, urls : Seq(Urls), next : Nat, rows : SUBSET Urls,
     found : Nat, err : BOOLEAN]

\* Every variable keeps its type.
TypeOK ==
    /\ sitemap \in Sitemaps
    /\ last \in [status : Statuses, cursor : Nat]
    /\ w \in WorkerRecords
    /\ report \in SUBSET Urls /\ covered \in SUBSET Urls
    /\ edits \in Nat /\ faults \in Nat /\ edited \in BOOLEAN

\* The URLs before the cursor a run will resume from are really behind it:
\* empty answers, failed inspections, failed writes, crashes and restarts never
\* move a cursor past a URL whose row was not stored
\* (searchconsole.go:324-360, store.go:503-521).
ResumePointIsCovered ==
    last.status = "PARTIAL" /\ ~edited =>
        last.cursor <= Len(sitemap) /\ \A k \in 1 .. last.cursor : sitemap[k] \in covered

\* A pass that ends in a success has been over every URL of the sitemap, over
\* however many runs it took (searchconsole.go:353-363).
PassIsComplete ==
    last.status = "SUCCEEDED" /\ ~edited =>
        \A k \in 1 .. Len(sitemap) : sitemap[k] \in covered

\* Once nothing fails any more, passes complete: neither a cursor beyond a
\* sitemap that shrank nor the leftovers of a crash block the job for good
\* (searchconsole.go:319-323).
PassesComplete == []<>(last.status = "SUCCEEDED")

=============================================================================
