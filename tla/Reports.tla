------------------------------ MODULE Reports ------------------------------
(***************************************************************************)
(* The report store: the table report_rows of one site, the transactions   *)
(* of the sync runs that fill it and the queries that read it.  Its        *)
(* readers, Listing and Console, extend this module.                       *)
(*                                                                         *)
(* Row keys are numbers in the order of SQLite's text comparison; 0 is the *)
(* empty string, which the API uses for "no cursor".  The data of a row is *)
(* the number of the transaction that stored it; 0 stands for no row.      *)
(***************************************************************************)
EXTENDS Integers, FiniteSets

CONSTANTS
    Datasets,       \* dataset names, positive numbers in text order
    Keys,           \* row keys, positive numbers
    Seeded,         \* datasets that hold a row when the behaviour starts
    DefaultLimit,   \* rows of a page whose limit is missing or unusable (100)
    MaxLimit,       \* the largest usable limit (1000)
    MaxWrites       \* transactions in a behaviour (bound)

ASSUME ReportsAssumption ==
    /\ Datasets \subseteq Nat \ {0} /\ IsFiniteSet(Datasets)
    /\ Keys \subseteq Nat \ {0} /\ IsFiniteSet(Keys)
    /\ Seeded \subseteq Datasets
    /\ MaxLimit \in Nat /\ DefaultLimit \in 1..MaxLimit /\ MaxWrites \in Nat

EmptyKey == 0

RowKeys == Keys \cup {EmptyKey}

VARIABLES
    table,      \* table[d][k]: the data of a row, 0 when there is none
    version     \* transactions committed so far

reportVars == <<table, version>>

ReportsTypeOK ==
    /\ table \in [Datasets -> [RowKeys -> 0..MaxWrites + 1]]
    /\ version \in 1..MaxWrites + 1

-----------------------------------------------------------------------------
\* Transaction 1 is the history before the behaviour: it left every key of
\* the seeded datasets but the largest.
ReportsInit ==
    /\ table = [d \in Datasets |-> [k \in RowKeys |->
                    IF /\ d \in Seeded /\ k \in Keys
                       /\ \E j \in Keys : k < j
                    THEN 1 ELSE 0]]
    /\ version = 1

Commit(d, batch) ==
    /\ version' = version + 1
    /\ table' = [table EXCEPT ![d] =
                    [k \in RowKeys |-> IF k \in batch THEN version + 1 ELSE @[k]]]

\* One batch is one transaction, and a row without _key rolls all of it back.
UpsertReportRows(d, batch) ==
    /\ version =< MaxWrites
    /\ EmptyKey \notin batch
    /\ Commit(d, batch)

\* The sync runs of all providers, seen from the store.
SyncRunWrites ==
    \E d \in Datasets : \E batch \in SUBSET RowKeys \ {{}} : UpsertReportRows(d, batch)

-----------------------------------------------------------------------------
\* SELECT DISTINCT dataset
ListReportDatasets == {d \in Datasets : \E k \in RowKeys : table[d][k] # 0}

\* Mutant: no upper bound.
DefaultOnly(limit) == IF limit =< 0 THEN DefaultLimit ELSE limit

ClampLimit(limit) == IF limit =< 0 \/ limit > MaxLimit THEN DefaultLimit ELSE limit

\* The n largest members of S.
Top(S, n) == {k \in S : Cardinality({j \in S : j > k}) < n}

\* The keys the query leaves after a cursor; the empty cursor asks for all.
KeysAfter(d, after) ==
    {k \in RowKeys : table[d][k] # 0 /\ (after # EmptyKey => k < after)}

\* Mutant: the cursor is the extra row that was fetched to see if there is more.
CursorPastPage(rows, limit, next) ==
    IF Cardinality(rows) > limit
    THEN next \in rows /\ Cardinality({k \in rows : k > next}) = limit
    ELSE next = EmptyKey

\* next is the cursor for a query that returned rows: the key of its row number
\* limit, counted from the largest, when one more than the limit was found.
IsNextCursor(rows, limit, next) ==
    IF Cardinality(rows) > limit
    THEN next \in rows /\ Cardinality({k \in rows : k > next}) = limit - 1
    ELSE next = EmptyKey

\* The query takes one row more than the limit.
Fetched(d, limit, after) == Top(KeysAfter(d, after), ClampLimit(limit) + 1)

\* The extra row is cut off.
PageOf(d, limit, after, next) ==
    LET keys == Top(Fetched(d, limit, after), ClampLimit(limit))
    IN  [keys |-> keys,
         data |-> [k \in RowKeys |-> IF k \in keys THEN table[d][k] ELSE 0],
         next |-> next]

=============================================================================
