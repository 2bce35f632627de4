---------------------------- MODULE ProviderSync ----------------------------
(***************************************************************************)
(* One provider's Sync for a date range, as the three adapters implement   *)
(* it: every request of the plan is fetched page by page, a failed call is *)
(* retried with backoff, and only then the rows are written, first dataset *)
(* first, each in one transaction.  Rows the adapter has no use for are    *)
(* dropped on the way, and rows that share a key replace each other.  Runs *)
(* follow each other; the report is what they leave behind.                *)
(*                                                                         *)
(* The adapters differ in their plans: the requests a capability takes and *)
(* the rule by which each of them is made.                                 *)
(***************************************************************************)
EXTENDS Integers, Sequences, FiniteSets

CONSTANTS
    PageSize,       \* rows per page
    DetailCap,      \* rows the Search Console serves per day
    Attempts,       \* calls per page, 3 in the code
    MaxRows,        \* rows a request has upstream (bound)
    MaxAnswer,      \* rows of an answer that is not paged (bound)
    OddRows,        \* positions at which a row may be odd (bound)
    MaxOdd          \* odd rows upstream (bound)

ASSUME PagingAssumption ==
    /\ PageSize \in Nat \ {0} /\ DetailCap \in Nat \ {0}
    /\ Attempts \in Nat \ {0} /\ MaxRows \in Nat /\ MaxAnswer \in Nat
    /\ OddRows \subseteq Nat \ {0} /\ MaxOdd \in Nat

VARIABLES
    plan,       \* what is synced: the rules of its requests
    size,       \* rows upstream, per request
    kind,       \* what is odd about a row upstream
    surplus,    \* by how much GA4's RowCount overstates them
    pc, req, offset, attempt,       \* where Sync is
    rows, partial,                  \* what it has collected
    err,        \* how the last call failed
    late,       \* the context's deadline has passed
    code,       \* the error code Sync returned, "" for none
    report,     \* rows in the store
    denied      \* history: the provider has rejected the credential in this Sync

vars == <<plan, size, kind, surplus, pc, req, offset, attempt, rows, partial, err, late,
          code, report, denied>>

-----------------------------------------------------------------------------
\* "single": the answer is complete (Search Console daily rows).  "once": it is,
\* and the call is not retried (Search Console sitemaps).  "capped": paged up to
\* DetailCap (Search Console details, one request per day).  "counted": paged up
\* to RowCount (GA4).  "bing": complete, with Bing's own client.
SearchPerformance == <<"single", "capped", "capped">>
SearchSitemaps == <<"once">>
Analytics == <<"counted">>
BingSearch == <<"bing", "bing", "bing">>
BingList == <<"bing">>          \* crawl statistics, or sitemaps
Plans == {SearchPerformance, SearchSitemaps, Analytics, BingSearch, BingList}
Unpaged == {"single", "once", "bing"}

\* "unfit": keys, dimensions or the query are missing, or the date lies outside
\* the range.  "misdated": the date does not parse.  "twin": the adapter makes of
\* it the key of the request's first row.
Kinds == {"plain", "unfit", "misdated", "twin"}

Init ==
    /\ plan \in Plans
    /\ size \in [1 .. Len(plan) -> 0 .. MaxRows]
    /\ \A i \in 1 .. Len(plan) : plan[i] \in Unpaged => size[i] <= MaxAnswer
    /\ kind \in [(1 .. Len(plan)) \X OddRows -> Kinds]
    /\ \A x \in DOMAIN kind : kind[x] # "plain" => x[2] <= size[x[1]]
    /\ Cardinality({x \in DOMAIN kind : kind[x] # "plain"}) <= MaxOdd
    /\ surplus \in IF plan = Analytics THEN {0, 1} ELSE {0}
    /\ pc = "done" /\ req = 1 /\ offset = 0 /\ attempt = 0
    /\ rows = {} /\ partial = FALSE /\ err = "none" /\ late = FALSE
    /\ code = "TRANSIENT" /\ report = {} /\ denied = FALSE

Upstream(i) == {i} \X (1 .. size[i])

Begin(step, c) ==
    /\ pc = "done"
    /\ pc' = step /\ req' = 1 /\ offset' = 0 /\ attempt' = 0
    /\ rows' = {} /\ partial' = FALSE /\ err' = "none" /\ late' = FALSE
    /\ code' = c /\ denied' = FALSE
    /\ UNCHANGED <<plan, size, kind, surplus, report>>

Start == Begin("call", "none")

\* No client can be made of the credential, no property is chosen, or the
\* capability is unknown: Sync returns before its first call.
Refusals == {"UNAUTHORIZED", "INTERNAL", "NOT_CONFIGURED", "UNSUPPORTED"}
Refuse == \E c \in Refusals : Begin("done", c)

Result(c) ==
    /\ pc' = "done" /\ code' = c
    /\ UNCHANGED <<plan, size, kind, surplus, req, offset, attempt, rows, partial, err,
                   late, report, denied>>

-----------------------------------------------------------------------------
(* fetch, fetchDetails, runPagedReport and get.                            *)

Page ==
    IF plan[req] \in Unpaged THEN Upstream(req)
    ELSE {x \in Upstream(req) : offset < x[2] /\ x[2] <= offset + PageSize}

PageLen ==
    IF offset + PageSize <= size[req] THEN PageSize
    ELSE IF offset <= size[req] THEN size[req] - offset ELSE 0

\* Mutant: a full page is taken for the last one.
CompleteOnFullPage ==
    CASE plan[req] \in Unpaged -> TRUE
      [] plan[req] = "capped" -> PageLen <= PageSize
      [] plan[req] = "counted" -> offset + PageLen >= size[req] + surplus

\* What the page just read says about the request.
Complete ==
    CASE plan[req] \in Unpaged -> TRUE
      [] plan[req] = "capped" -> PageLen < PageSize
      [] plan[req] = "counted" ->
            offset + PageLen >= size[req] + surplus \/ PageLen = 0

Capped == plan[req] = "capped" /\ ~Complete /\ offset + PageSize >= DetailCap

\* Mutant: the offset of the next page is not advanced.
PageOkSameOffset ==
    /\ pc = "call" /\ ~late
    /\ rows' = rows \cup Page
    /\ partial' = (partial \/ Capped)
    /\ attempt' = 0
    /\ IF Complete \/ Capped
       THEN /\ offset' = 0
            /\ req' = req + 1
            /\ pc' = IF req = Len(plan) THEN "first" ELSE "call"
       ELSE UNCHANGED <<offset, req, pc>>
    /\ UNCHANGED <<plan, size, kind, surplus, err, late, code, report, denied>>

PageOk ==
    /\ pc = "call" /\ ~late
    /\ rows' = rows \cup Page
    /\ partial' = (partial \/ Capped)
    /\ attempt' = 0
    /\ IF Complete \/ Capped
       THEN /\ offset' = 0
            /\ req' = req + 1
            /\ pc' = IF req = Len(plan) THEN "first" ELSE "call"
       ELSE offset' = offset + PageSize /\ UNCHANGED <<req, pc>>
    /\ UNCHANGED <<plan, size, kind, surplus, err, late, code, report, denied>>

\* "denied": HTTP 401 or 403, or the token endpoint refuses the refresh token.
\* "refresh": it fails in another way.  "quota": 429.  "down": 5xx, or the
\* client's own timeout.  "timeout": the deadline.  "broken": any other status, a
\* refused connection, bad JSON.
CallErrors == {"denied", "refresh", "quota", "down", "timeout", "broken"}

CallFails(e) ==
    /\ pc = "call"
    /\ e = "timeout" <=> late
    /\ e = "refresh" => plan[req] # "bing"
    /\ pc' = "failed" /\ err' = e
    /\ attempt' = attempt + 1
    /\ denied' = (denied \/ e = "denied")
    /\ UNCHANGED <<plan, size, kind, surplus, req, offset, rows, partial, late, code,
                   report>>

\* Mutant: every failure is retried.
RetryableAlways(e) == TRUE

\* Bing retries whatever is not an HTTP status below 500.
Retryable(e) ==
    /\ plan[req] # "once"
    /\ e \in {"quota", "down", "timeout"} \/ (e = "broken" /\ plan[req] = "bing")

Classify(e) ==
    CASE e = "denied" -> "UNAUTHORIZED"
      [] e = "quota" -> "RATE_LIMITED"
      [] e \in {"refresh", "down", "timeout"} -> "TRANSIENT"
      [] e = "broken" -> "INTERNAL"

GiveUp == pc = "failed" /\ ~Retryable(err) /\ Result(Classify(err))

BackOff ==
    /\ pc = "failed" /\ Retryable(err)
    /\ pc' = "backoff"
    /\ UNCHANGED <<plan, size, kind, surplus, req, offset, attempt, rows, partial, err,
                   late, code, report, denied>>

\* Mutant: one attempt too many.
RetryOneMore ==
    /\ pc = "backoff" /\ attempt <= Attempts
    /\ pc' = "call"
    /\ UNCHANGED <<plan, size, kind, surplus, req, offset, attempt, rows, partial, err,
                   late, code, report, denied>>

Retry ==
    /\ pc = "backoff" /\ attempt < Attempts
    /\ pc' = "call"
    /\ UNCHANGED <<plan, size, kind, surplus, req, offset, attempt, rows, partial, err,
                   late, code, report, denied>>

\* The last backoff ends, or the deadline ends an earlier one.
RetriesExhausted ==
    /\ pc = "backoff"
    /\ \/ attempt = Attempts /\ Result(Classify(err))
       \/ late /\ Result("TRANSIENT")

DeadlinePasses ==
    /\ pc # "done" /\ ~late
    /\ late' = TRUE
    /\ UNCHANGED <<plan, size, kind, surplus, pc, req, offset, attempt, rows, partial,
                   err, code, report, denied>>

-----------------------------------------------------------------------------
(* From rows to the store: rows are dropped or refused, the others are      *)
(* handed to sink.Write, the first dataset, then the second (the details,   *)
(* or the quality flags of GA4).  An empty batch is not written.            *)

Kind(x) == IF x[2] \in OddRows THEN kind[x] ELSE "plain"

\* Sitemaps of the Search Console have neither a date nor a condition.
Used(x) == plan[x[1]] = "once" \/ Kind(x) \notin {"unfit", "misdated"}

\* The Google adapters refuse a date that Bing's drops.
Malformed(x) == Kind(x) = "misdated" /\ plan[x[1]] \in {"single", "capped", "counted"}

Key(x) == IF Kind(x) = "twin" THEN <<x[1], 1>> ELSE x

Totals == {x \in rows : x[1] = 1}
Details == {x \in rows : x[1] # 1}

Batch(s) == {x \in s : Used(x)}

\* INSERT ... ON CONFLICT DO UPDATE, row by row: the last row of a key stays.
Upsert(s) ==
    {x \in report : \A y \in Batch(s) : Key(y) # Key(x)}
        \cup {x \in Batch(s) : \A y \in Batch(s) : Key(y) = Key(x) => y[2] <= x[2]}

DateRefused ==
    /\ pc = "first" /\ \E x \in rows : Malformed(x)
    /\ Result("INTERNAL")

\* Mutant: the details are written first.
WriteFirstDetails ==
    /\ pc = "first" /\ (~late \/ Batch(Details) = {})
    /\ \A x \in rows : ~Malformed(x)
    /\ report' = Upsert(Details)
    /\ pc' = "second"
    /\ UNCHANGED <<plan, size, kind, surplus, req, offset, attempt, rows, partial, err,
                   late, code, denied>>

WriteFirst ==
    /\ pc = "first" /\ (~late \/ Batch(Totals) = {})
    /\ \A x \in rows : ~Malformed(x)
    /\ report' = Upsert(Totals)
    /\ pc' = "second"
    /\ UNCHANGED <<plan, size, kind, surplus, req, offset, attempt, rows, partial, err,
                   late, code, denied>>

WriteSecond ==
    /\ pc = "second" /\ (~late \/ (Batch(Details) = {} /\ plan # Analytics))
    /\ report' = Upsert(Details)
    /\ pc' = "return"
    /\ UNCHANGED <<plan, size, kind, surplus, req, offset, attempt, rows, partial, err,
                   late, code, denied>>

\* The transaction of a batch is rolled back.
WriteFails ==
    /\ \/ pc = "first" /\ Batch(Totals) # {}
       \/ pc = "second" /\ (Batch(Details) # {} \/ plan = Analytics)
    /\ \A x \in rows : ~Malformed(x)
    /\ Result("INTERNAL")

\* A success after the deadline is turned into a timeout by execute.
Return ==
    /\ pc = "return"
    /\ Result(IF partial THEN "PARTIAL" ELSE IF late THEN "TRANSIENT" ELSE "")

\* The process dies; the lease of the run expires.
Crash == pc # "done" /\ Result("TRANSIENT")

Step ==
    \/ PageOk \/ (\E e \in CallErrors : CallFails(e))
    \/ GiveUp \/ BackOff \/ Retry \/ RetriesExhausted
    \/ DateRefused \/ WriteFirst \/ WriteSecond \/ WriteFails \/ Return

Next == Start \/ Refuse \/ Step \/ DeadlinePasses \/ Crash

Spec == Init /\ [][Next]_vars

\* Every call returns: its context has a deadline.
FairSpec == Spec /\ WF_vars(Step)

-----------------------------------------------------------------------------
(* Properties.                                                             *)

Rows == (1 .. 3) \X (1 .. MaxRows)
PCs == {"done", "call", "failed", "backoff", "first", "second", "return"}
ErrorCodes ==
    {"", "none", "PARTIAL", "TRANSIENT", "RATE_LIMITED"} \cup Refusals

\* Every variable keeps its type; a page is never asked for more than Attempts
\* times.
TypeOK ==
    /\ plan \in Plans /\ size \in [1 .. Len(plan) -> 0 .. MaxRows] /\ surplus \in {0, 1}
    /\ kind \in [(1 .. Len(plan)) \X OddRows -> Kinds]
    /\ pc \in PCs /\ req \in 1 .. Len(plan) + 1 /\ offset \in Nat
    /\ attempt \in 0 .. Attempts
    /\ rows \subseteq Rows /\ report \subseteq Rows
    /\ partial \in BOOLEAN /\ late \in BOOLEAN /\ denied \in BOOLEAN
    /\ err \in CallErrors \cup {"none"} /\ code \in ErrorCodes

\* The store holds x, or a later row of the same answer that replaced it.
Held(x) == \E y \in report : Key(y) = Key(x) /\ x[2] <= y[2]

\* Behind a reported success every row upstream was fetched, none had a date the
\* adapter refuses, and each one it has a use for reached the store, where only
\* a later row with its key may have replaced it; behind PARTIAL the same holds
\* of every row the provider serves, and a day really reached the cap: page
\* boundaries, exact multiples of the page size, dropped rows, shared keys,
\* retries and crashed predecessors included (searchconsole.go:388-409,
\* ga4.go:328-344, bing.go:183-213, store.go:399-413).
ResultIsHonest ==
    LET Served(i) == {x \in Upstream(i) :
                          code = "PARTIAL" /\ plan[i] = "capped" => x[2] <= DetailCap}
    IN  /\ code \in {"", "PARTIAL"} =>
            \A i \in 1 .. Len(plan) : \A x \in Served(i) :
                ~Malformed(x) /\ (Used(x) => Held(x))
        /\ code = "PARTIAL" =>
            \E i \in 1 .. Len(plan) : plan[i] = "capped" /\ size[i] >= DetailCap

\* Details are never visible without the daily totals of the same Sync, even
\* when a write fails or the process dies between the two transactions
\* (searchconsole.go:221-230, bing.go:216-225).
TotalsBeforeDetails ==
    (\E x \in report : x[1] > 1) => \A x \in Upstream(1) : Used(x) => Held(x)

\* "instead of hammering the provider" (core/errors.go:22-24): once a credential
\* was rejected, this Sync calls the provider no more.
NoCallAfterDenial ==
    [][denied /\ code = "none" => UNCHANGED <<req, offset, attempt, rows>>]_vars

\* Sync returns, whatever the provider answers: no page is read for ever.
SyncTerminates == []<>(pc = "done")

=============================================================================
