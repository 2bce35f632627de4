------------------------------ MODULE Console ------------------------------
(***************************************************************************)
(* The SeoConsole component while sync runs write: refresh, called by the  *)
(* timer, by triggerSync and after each change of a connection; the effect *)
(* that loads the rows of the selected dataset; and the user's choice of a *)
(* dataset.  Each refresh sends its requests together and the server       *)
(* answers each at its own moment, so calls overlap, the lists of one      *)
(* refresh may come from different versions of the store, and answers      *)
(* arrive in any order.  The state setters of one callback make one render *)
(* and the effect runs after it: each callback is one action.              *)
(*                                                                         *)
(* A list of runs is the version of the store it was read at: a run is     *)
(* shown as finished only after its rows were committed.                   *)
(***************************************************************************)
EXTENDS Reports

CONSTANTS
    Calls,          \* refreshes, and loads, that may be under way at once (bound)
    MaxFailedCalls  \* requests of the console that fail in a behaviour (bound)

ASSUME ConsoleAssumption == MaxFailedCalls \in Nat

None == 0           \* no dataset selected, the empty string

Null == {None}      \* the JSON null the server sends for an empty list

VARIABLES
    up,             \* the component is rendered
    runs,           \* the list of runs shown
    datasets,       \* the list of datasets shown
    selected,       \* selectedDataset
    rows,           \* reportRows: their dataset and the version they were read at
    error,          \* an error is shown
    refreshes,      \* refreshes[c]: a refresh under way
    loads,          \* loads[c]: a call of listReportRows under way
    failed          \* failed requests so far

consoleVars == <<up, runs, datasets, selected, rows, error, refreshes, loads, failed>>

Versions == 0..MaxWrites + 1

NoRefresh == [state |-> "none", runs |-> 0, datasets |-> {}]
NoLoad == [state |-> "none", of |-> None, at |-> 0, active |-> FALSE]
NoReportRows == [of |-> None, at |-> 0]

ConsoleTypeOK ==
    /\ up \in BOOLEAN
    /\ runs \in Versions
    /\ datasets \in (SUBSET Datasets) \cup {Null}
    /\ selected \in Datasets \cup {None}
    /\ rows \in [of : Datasets \cup {None}, at : Versions]
    /\ error \in BOOLEAN
    /\ refreshes \in [Calls -> [state : {"none", "sent"}, runs : Versions,
                                datasets : (SUBSET Datasets) \cup {Null}]]
    /\ loads \in [Calls -> [state : {"none", "sent", "answered"},
                            of : Datasets \cup {None}, at : Versions,
                            active : BOOLEAN]]
    /\ failed \in 0..MaxFailedCalls

-----------------------------------------------------------------------------
ConsoleInit ==
    /\ up = TRUE
    /\ runs = 0
    /\ datasets = {}
    /\ selected = None
    /\ rows = NoReportRows
    /\ error = FALSE
    /\ refreshes = [c \in Calls |-> NoRefresh]
    /\ loads = [c \in Calls |-> NoLoad]
    /\ failed = 0

\* What the server sends: Go encodes a nil slice as null.
DatasetsReply == IF ListReportDatasets = {} THEN Null ELSE ListReportDatasets

Fails == failed < MaxFailedCalls /\ failed' = failed + 1

\* The effect on [client, selectedDataset, runs]: its cleanup deactivates the
\* load before it, and it sends a new one.
StartLoad(d) ==
    \E c \in Calls :
        /\ loads[c] = NoLoad
        /\ loads' = [e \in Calls |->
                        IF e = c
                        THEN [state |-> "sent", of |-> d, at |-> 0, active |-> TRUE]
                        ELSE [loads[e] EXCEPT !.active = FALSE]]

-----------------------------------------------------------------------------
\* Mutant: without the timer, refresh is called on mount only.
RefreshOnMount(c) ==
    /\ up /\ runs = 0
    /\ refreshes[c] = NoRefresh
    /\ refreshes' = [refreshes EXCEPT ![c].state = "sent"]
    /\ UNCHANGED <<up, runs, datasets, selected, rows, error, loads, failed>>

\* refresh is called: on mount, by the timer, after createSyncRun succeeded and
\* after a change of a connection.
StartRefresh(c) ==
    /\ up
    /\ refreshes[c] = NoRefresh
    /\ refreshes' = [refreshes EXCEPT ![c].state = "sent"]
    /\ UNCHANGED <<up, runs, datasets, selected, rows, error, loads, failed>>

\* The server answers listSyncRuns.
ServerListsRuns(c) ==
    /\ refreshes[c].state = "sent" /\ refreshes[c].runs = 0
    /\ refreshes' = [refreshes EXCEPT ![c].runs = version]
    /\ UNCHANGED <<up, runs, datasets, selected, rows, error, loads, failed>>

\* The server answers listReportDatasets.
ServerListsDatasets(c) ==
    /\ refreshes[c].state = "sent" /\ refreshes[c].datasets = {}
    /\ refreshes' = [refreshes EXCEPT ![c].datasets = DatasetsReply]
    /\ UNCHANGED <<up, runs, datasets, selected, rows, error, loads, failed>>

\* The updater of setSelectedDataset: the current one, or the first.
NextSelection(ds) ==
    IF selected \in ds THEN selected ELSE CHOOSE d \in ds : \A e \in ds : d =< e

\* Promise.all is fulfilled.  The runs are a new array, so the effect runs even
\* when they and the selection are the same.  A null list has no elements to index and no
\* length: the render throws, and React unmounts the tree.
RefreshApplies(c) ==
    /\ up
    /\ refreshes[c].runs # 0 /\ refreshes[c].datasets # {}
    /\ refreshes' = [refreshes EXCEPT ![c] = NoRefresh]
    /\ runs' = refreshes[c].runs
    /\ datasets' = refreshes[c].datasets
    /\ error' = FALSE
    /\ IF datasets' = Null
       THEN up' = FALSE /\ UNCHANGED <<selected, loads>>
       ELSE /\ selected' = NextSelection(datasets')
            /\ StartLoad(selected')
            /\ UNCHANGED up
    /\ UNCHANGED <<rows, failed>>

\* A request of the refresh fails: the first failure is shown, the other
\* answers are dropped.
RefreshFails(c) ==
    /\ up
    /\ refreshes[c].state = "sent"
    /\ Fails
    /\ refreshes' = [refreshes EXCEPT ![c] = NoRefresh]
    /\ error' = TRUE
    /\ UNCHANGED <<up, runs, datasets, selected, rows, loads>>

\* createSyncRun fails in triggerSync.
TriggerSyncFails ==
    /\ up
    /\ Fails
    /\ error' = TRUE
    /\ UNCHANGED <<up, runs, datasets, selected, rows, refreshes, loads>>

\* The user picks another dataset of the list.
SelectDataset(d) ==
    /\ up
    /\ d \in datasets \ {selected}
    /\ selected' = d
    /\ StartLoad(d)
    /\ UNCHANGED <<up, runs, datasets, rows, error, refreshes, failed>>

\* The server answers listReportRows.
ServerListsRows(c) ==
    /\ loads[c].state = "sent"
    /\ loads' = [loads EXCEPT ![c].state = "answered", ![c].at = version]
    /\ UNCHANGED <<up, runs, datasets, selected, rows, error, refreshes, failed>>

\* Mutant: an answer is shown whether or not it is still wanted.
ShowAnyLoad(c) ==
    /\ up
    /\ loads[c].state = "answered"
    /\ rows' = [of |-> loads[c].of, at |-> loads[c].at]
    /\ loads' = [loads EXCEPT ![c] = NoLoad]
    /\ UNCHANGED <<up, runs, datasets, selected, error, refreshes, failed>>

\* The answer arrives, and is shown while its load is active.
LoadArrives(c) ==
    /\ up
    /\ loads[c].state = "answered"
    /\ rows' = IF loads[c].active THEN [of |-> loads[c].of, at |-> loads[c].at] ELSE rows
    /\ loads' = [loads EXCEPT ![c] = NoLoad]
    /\ UNCHANGED <<up, runs, datasets, selected, error, refreshes, failed>>

LoadFails(c) ==
    /\ up
    /\ loads[c].state # "none"
    /\ Fails
    /\ error' = (error \/ loads[c].active)
    /\ loads' = [loads EXCEPT ![c] = NoLoad]
    /\ UNCHANGED <<up, runs, datasets, selected, rows, refreshes>>

ConsoleNext ==
    \/ \E c \in Calls :
          \/ StartRefresh(c)
          \/ ServerListsRuns(c)
          \/ ServerListsDatasets(c)
          \/ RefreshApplies(c)
          \/ RefreshFails(c)
          \/ ServerListsRows(c)
          \/ LoadArrives(c)
          \/ LoadFails(c)
    \/ \E d \in Datasets : SelectDataset(d)
    \/ TriggerSyncFails

-----------------------------------------------------------------------------
\* Nothing that would replace or complete what is shown is under way or failed.
Settled == up /\ ~error /\ \A c \in Calls : ~loads[c].active

\* Once the console has settled, what it shows fits together, whichever answers
\* overlapped and whichever came last: the selected dataset is one the menu
\* offers, the rows are those of that dataset, and they are at least as new as
\* the runs, so a run shown as finished has its rows shown (refresh, the flag
\* active and the dependencies of the effect in SeoConsole).
ScreenIsConsistent ==
    Settled /\ runs # 0 =>
        selected \in datasets /\ rows.of = selected /\ rows.at >= runs

\* The console never leaves the page: api/openapi.yaml gives report-datasets an
\* array, and the component has a text for an empty one.
ConsoleStaysUp == up

\* When writes and failures have stopped, the console shows the latest runs,
\* datasets and rows for good, without an error, and time and again the rows of
\* the dataset that is selected (refresh, its timer, and the effect).
CatchesUp ==
    /\ <>[](/\ runs = version /\ datasets = ListReportDatasets
            /\ rows.at = version /\ ~error)
    /\ []<>(rows.of = selected)

=============================================================================
