------------------------------ MODULE Readers ------------------------------
(***************************************************************************)
(* The report store with one of its two kinds of reader: a program that    *)
(* lists a dataset through the SDK, or a browser that shows the console.   *)
(* Readers change nothing in the store, so they do not meet each other and *)
(* one at a time covers them all.  The console looks at whether a dataset  *)
(* has rows and at when it was read, not at which: in front of a console   *)
(* every batch has all keys.                                               *)
(***************************************************************************)
EXTENDS Listing, Console

VARIABLE reader

vars == <<table, version, reader, listingVars, consoleVars>>

ReadersTypeOK ==
    /\ ReportsTypeOK
    /\ ListingTypeOK
    /\ ConsoleTypeOK

Init ==
    /\ ReportsInit
    /\ ListingInit
    /\ ConsoleInit
    /\ reader \in {"sdk", "console"}

Next ==
    \/ /\ reader = "sdk"
       /\ SyncRunWrites
       /\ UNCHANGED <<reader, listingVars, consoleVars>>
    \/ /\ reader = "console"
       /\ \E d \in Datasets : UpsertReportRows(d, Keys)
       /\ UNCHANGED <<reader, listingVars, consoleVars>>
    \/ /\ reader = "sdk"
       /\ ListingNext
       /\ UNCHANGED <<reportVars, reader, consoleVars>>
    \/ /\ reader = "console"
       /\ ConsoleNext
       /\ UNCHANGED <<reportVars, reader, listingVars>>

\* Calls come to an end and the caller goes on with its loop.
SdkFairness ==
    WF_vars(/\ reader = "sdk"
            /\ CallReportRowsPage \/ ServerAnswers \/ ReceivePage \/ BodyTooLarge
            /\ UNCHANGED <<reportVars, reader, consoleVars>>)

\* The timer keeps calling refresh and the server answers.  A refresh that is
\* applied cancels the load under way: that some load is answered and arrives
\* before the next one is applied is what a REFRESH_MS well above the time of a
\* request gives.
ConsoleFairness ==
    LET Step(A(_)) == /\ reader = "console"
                      /\ \E c \in Calls : A(c)
                      /\ UNCHANGED <<reportVars, reader, listingVars>>
        ServerLists(c) == ServerListsRuns(c) \/ ServerListsDatasets(c)
        LoadEnds(c) == ServerListsRows(c) \/ LoadArrives(c)
        ActiveLoadAnswered(c) == loads[c].active /\ ServerListsRows(c)
        ActiveLoadArrives(c) == loads[c].active /\ LoadArrives(c)
    IN  /\ WF_vars(Step(StartRefresh))
        /\ WF_vars(Step(ServerLists))
        /\ WF_vars(Step(LoadEnds))
        /\ SF_vars(Step(RefreshApplies))
        /\ SF_vars(Step(ActiveLoadAnswered))
        /\ SF_vars(Step(ActiveLoadArrives))

Spec == Init /\ [][Next]_vars /\ SdkFairness /\ ConsoleFairness

-----------------------------------------------------------------------------
\* A listing that started comes to its end: the last page or a body the SDK
\* cannot take (the cursor of ListReportRowsPage moves on with every page).
ListingEnds == pc = "ready" ~> pc \in {"done", "undecodable"}

\* A console in front of a store that has rows catches up.
ConsoleCatchesUp == reader = "console" => CatchesUp

=============================================================================
