------------------------------ MODULE Listing ------------------------------
(***************************************************************************)
(* A program lists a whole dataset through the Go SDK while sync runs keep *)
(* writing: Client.ReportRowsPage is called again with the cursor of the   *)
(* answer before, unchanged, until that cursor is empty.  A call may fail  *)
(* on the way and is repeated with the same cursor.  A body over the SDK's *)
(* limit fails to decode, and would each time: there the listing stops.    *)
(* The loop is the caller's, and so is what it makes of that error; the    *)
(* calls under it are the SDK's and the server's.                          *)
(***************************************************************************)
EXTENDS Reports

CONSTANTS
    Limits,         \* limits a caller asks for
    MaxBodyRows,    \* rows of a page that fit the SDK's 4 MiB
    MaxFailures     \* failed calls in a behaviour (bound)

ASSUME ListingAssumption ==
    Limits \subseteq Int /\ MaxBodyRows \in Nat /\ MaxFailures \in Nat

VARIABLES
    pc,         \* where the caller is
    want,       \* the dataset and the limit of the listing
    cursor,     \* the cursor of the next call
    page,       \* the answer on its way
    got,        \* got[k]: the rows received for key k
    fresh,      \* fresh[k]: the data last received for key k
    base,       \* history: the dataset's rows when the listing started
    failures    \* failed calls so far

listingVars == <<pc, want, cursor, page, got, fresh, base, failures>>

NoPage == [keys |-> {}, data |-> [k \in RowKeys |-> 0], next |-> EmptyKey]

ListingTypeOK ==
    /\ pc \in {"idle", "ready", "sent", "answered", "done", "undecodable"}
    /\ want \in [dataset : Datasets \cup {0}, limit : Limits \cup {0}]
    /\ cursor \in RowKeys
    /\ page \in [keys : SUBSET RowKeys, data : [RowKeys -> 0..MaxWrites + 1],
                 next : RowKeys]
    /\ Cardinality(page.keys) =< MaxLimit
    /\ got \in [RowKeys -> Nat]
    /\ fresh \in [RowKeys -> 0..MaxWrites + 1]
    /\ base \in [RowKeys -> 0..MaxWrites + 1]
    /\ failures \in 0..MaxFailures

-----------------------------------------------------------------------------
ListingInit ==
    /\ pc = "idle"
    /\ want = [dataset |-> 0, limit |-> 0]
    /\ cursor = EmptyKey
    /\ page = NoPage
    /\ got = [k \in RowKeys |-> 0]
    /\ fresh = [k \in RowKeys |-> 0]
    /\ base = [k \in RowKeys |-> 0]
    /\ failures = 0

StartListing(d, limit) ==
    /\ pc = "idle"
    /\ pc' = "ready"
    /\ want' = [dataset |-> d, limit |-> limit]
    /\ base' = table[d]
    /\ UNCHANGED <<cursor, page, got, fresh, failures>>

\* The request leaves with the bearer token, the limit when it is positive and
\* the cursor when there is one.
CallReportRowsPage ==
    /\ pc = "ready"
    /\ pc' = "sent"
    /\ UNCHANGED <<want, cursor, page, got, fresh, base, failures>>

\* The server runs the query and answers.
ServerAnswers ==
    /\ pc = "sent"
    /\ pc' = "answered"
    /\ \E next \in RowKeys :
          /\ IsNextCursor(Fetched(want.dataset, want.limit, cursor),
                          ClampLimit(want.limit), next)
          /\ page' = PageOf(want.dataset, want.limit, cursor, next)
    /\ UNCHANGED <<want, cursor, got, fresh, base, failures>>

\* The request or its answer is lost, or the server answers with an error.
CallFails ==
    /\ pc \in {"sent", "answered"}
    /\ failures < MaxFailures
    /\ failures' = failures + 1
    /\ pc' = "ready"
    /\ page' = NoPage
    /\ UNCHANGED <<want, cursor, got, fresh, base>>

\* ReportRowsPage returns the rows and the next cursor.
ReceivePage ==
    /\ pc = "answered"
    /\ Cardinality(page.keys) =< MaxBodyRows
    /\ got' = [k \in RowKeys |-> got[k] + IF k \in page.keys THEN 1 ELSE 0]
    /\ fresh' = [k \in RowKeys |-> IF k \in page.keys THEN page.data[k] ELSE fresh[k]]
    /\ cursor' = page.next
    /\ pc' = IF page.next = EmptyKey THEN "done" ELSE "ready"
    /\ page' = NoPage
    /\ UNCHANGED <<want, base, failures>>

\* Mutant: the cut body is taken for a failure that passes, and asked for again.
RetryTooLarge ==
    /\ pc = "answered"
    /\ Cardinality(page.keys) > MaxBodyRows
    /\ pc' = "ready"
    /\ page' = NoPage
    /\ UNCHANGED <<want, cursor, got, fresh, base, failures>>

\* The body is cut off at the limit and does not decode: ReportRowsPage returns
\* the error, and without a page there is no cursor to go on with.
BodyTooLarge ==
    /\ pc = "answered"
    /\ Cardinality(page.keys) > MaxBodyRows
    /\ pc' = "undecodable"
    /\ page' = NoPage
    /\ UNCHANGED <<want, cursor, got, fresh, base, failures>>

ListingNext ==
    \/ \E d \in Datasets, limit \in Limits : StartListing(d, limit)
    \/ CallReportRowsPage
    \/ ServerAnswers
    \/ CallFails
    \/ ReceivePage
    \/ BodyTooLarge

-----------------------------------------------------------------------------
\* A listing is exact, whatever is inserted or updated between its pages and
\* however often a call is repeated: no row is returned twice, and one that
\* ended has returned every row that was there when it started, with data at
\* least as new as it was then (ListReportRowsPage, Client.ReportRowsPage).
ListingIsExact ==
    /\ \A k \in RowKeys : got[k] =< 1
    /\ pc = "done" => \A k \in RowKeys : base[k] # 0 => got[k] = 1 /\ fresh[k] >= base[k]

=============================================================================
