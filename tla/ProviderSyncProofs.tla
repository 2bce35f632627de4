------------------------- MODULE ProviderSyncProofs -------------------------
(***************************************************************************)
(* One provider's Sync, for every page size, cap, number of attempts and   *)
(* rows upstream.                                                          *)
(***************************************************************************)
EXTENDS ProviderSync, WellFoundedInduction, TLAPS

Fetching == {"call", "failed", "backoff"}
Writing == {"first", "second", "return"}

\* Where Sync is.  It has a result exactly when it is not under way.
Place ==
    /\ pc \in Fetching => req \in 1 .. Len(plan)
    /\ pc \in Writing => req = Len(plan) + 1
    /\ pc = "call" => attempt < Attempts
    /\ pc \in {"failed", "backoff"} => err \in CallErrors
    /\ pc = "done" <=> code # "none"

\* A rejected credential leads to the end without another call.
Denied == denied => pc = "done" \/ (pc = "failed" /\ err = "denied")

\* Everything the provider serves of request i is among the rows; only a capped
\* request of a partial result may lack rows, those beyond the cap.
Got(i) ==
    \A k \in 1 .. size[i] :
        k =< DetailCap \/ plan[i] # "capped" \/ ~partial => <<i, k>> \in rows

Reached == \E i \in 1 .. Len(plan) : plan[i] = "capped" /\ size[i] >= DetailCap

Fetched ==
    /\ pc # "done" => \A i \in 1 .. Len(plan) : i < req => Got(i)
    /\ pc \in Fetching => \A k \in 1 .. size[req] : k =< offset => <<req, k>> \in rows
    /\ partial => Reached

\* What is in the store while the rows are written.
AllHeld(s) == \A x \in s : Used(x) => Held(x)

Written ==
    /\ pc \in {"second", "return"} => \A x \in rows : ~Malformed(x)
    /\ pc = "second" => AllHeld(Totals)
    /\ pc = "return" => AllHeld(rows)

Inv ==
    TypeOK /\ Place /\ Denied /\ Fetched /\ Written /\ ResultIsHonest /\ TotalsBeforeDetails

-----------------------------------------------------------------------------
(* Plans and pages.                                                        *)

\* A plan has up to three requests, and its first is never capped.
LEMMA PlanFacts ==
    ASSUME plan \in Plans
    PROVE  /\ Len(plan) \in 1 .. 3
           /\ plan[1] # "capped"
           /\ \A i \in 1 .. Len(plan) : plan[i] \in Unpaged \cup {"capped", "counted"}
<1> USE DEF Unpaged
<1>1. CASE plan = SearchPerformance
  BY <1>1 DEF SearchPerformance
<1>2. CASE plan = Analytics
  BY <1>2 DEF Analytics
<1>3. CASE plan = BingSearch
  BY <1>3 DEF BingSearch
<1>4. CASE plan = SearchSitemaps \/ plan = BingList
  BY <1>4 DEF SearchSitemaps, BingList
<1> QED BY <1>1, <1>2, <1>3, <1>4 DEF Plans

\* The state, field by field.
LEMMA Types ==
    ASSUME TypeOK
    PROVE  /\ Len(plan) \in 1 .. 3 /\ offset \in Nat /\ surplus \in Nat
           /\ PageSize \in Nat /\ PageSize > 0 /\ DetailCap \in Nat
           /\ Attempts \in Nat /\ Attempts > 0 /\ MaxRows \in Nat
           /\ \A i \in 1 .. Len(plan) : size[i] \in Nat /\ size[i] =< MaxRows
BY PlanFacts, PagingAssumption DEF TypeOK

\* Upstream rows are rows.
LEMMA UpstreamRows ==
    ASSUME TypeOK, NEW i \in 1 .. Len(plan)
    PROVE  /\ Upstream(i) \subseteq Rows
           /\ \A k \in 1 .. size[i] : <<i, k>> \in Upstream(i)
           /\ \A x \in Upstream(i) : x[1] = i /\ x[2] \in 1 .. size[i]
<1>1. Len(plan) \in 1 .. 3 /\ size[i] \in Nat /\ size[i] =< MaxRows /\ MaxRows \in Nat
  BY Types
<1>2. i \in 1 .. 3
  <2>1. PICK n \in 1 .. 3 : Len(plan) = n
    BY <1>1
  <2>2. i \in 1 .. n
    BY <2>1
  <2> QED BY <2>2
<1>3. 1 .. size[i] \subseteq 1 .. MaxRows
  BY <1>1
<1> QED BY <1>2, <1>3 DEF Upstream, Rows

\* A page that is complete, or the last before the cap, brings the rows that
\* were missing; any other page brings all up to its end.
LEMMA PageFacts ==
    ASSUME TypeOK, req \in 1 .. Len(plan),
           \A k \in 1 .. size[req] : k =< offset => <<req, k>> \in rows,
           NEW k \in 1 .. size[req]
    PROVE  /\ Complete => <<req, k>> \in rows \cup Page
           /\ k =< offset + PageSize => <<req, k>> \in rows \cup Page
           /\ Capped /\ k =< DetailCap => <<req, k>> \in rows \cup Page
           /\ Capped => plan[req] = "capped" /\ size[req] >= DetailCap
<1>0. /\ size[req] \in Nat /\ offset \in Nat /\ PageSize \in Nat /\ PageSize > 0
      /\ DetailCap \in Nat /\ surplus \in Nat
      /\ plan[req] \in Unpaged \cup {"capped", "counted"}
  BY Types, PlanFacts DEF TypeOK
<1>1. <<req, k>> \in Upstream(req) /\ <<req, k>>[2] = k
  BY UpstreamRows
<1>2. k =< offset + PageSize => <<req, k>> \in rows \cup Page
  <2>1. CASE k =< offset
    BY <2>1
  <2>2. CASE offset < k
    BY <2>2, <1>1 DEF Page
  <2> QED BY <2>1, <2>2, <1>0
<1>3. Complete => <<req, k>> \in rows \cup Page
  <2>1. CASE plan[req] \in Unpaged
    BY <2>1, <1>1 DEF Page
  <2>2. CASE plan[req] = "capped"
    <3>1. Complete => size[req] < offset + PageSize
      BY <2>2, <1>0 DEF Complete, PageLen, Unpaged
    <3> QED BY <3>1, <1>0, <1>2
  <2>3. CASE plan[req] = "counted"
    <3>1. Complete => size[req] =< offset + PageSize
      BY <2>3, <1>0 DEF Complete, PageLen, Unpaged
    <3> QED BY <3>1, <1>0, <1>2
  <2> QED BY <2>1, <2>2, <2>3, <1>0
<1>4. Capped => /\ plan[req] = "capped" /\ DetailCap =< offset + PageSize
                /\ size[req] >= offset + PageSize
  BY <1>0 DEF Capped, Complete, PageLen, Unpaged
<1> QED BY <1>0, <1>2, <1>3, <1>4

-----------------------------------------------------------------------------
(* Keys and the store.                                                     *)

\* A key belongs to the request of its row.
LEMMA KeyRequest ==
    ASSUME NEW x \in Rows
    PROVE  Key(x)[1] = x[1]
BY DEF Key, Rows

\* Among rows with one key there is a last one.
LEMMA LastRow ==
    ASSUME NEW T, T \subseteq Rows, T # {}
    PROVE  \E x \in T : \A y \in T : y[2] =< x[2]
<1> DEFINE D == {MaxRows - x[2] : x \in T}
           Less == OpToRel(<, Nat)
<1>0. MaxRows \in Nat /\ \A x \in T : x[2] \in 1 .. MaxRows
  BY PagingAssumption DEF Rows
<1>1. D \subseteq Nat /\ D # {}
  BY <1>0
<1>2. \E d \in D : \A e \in D : ~(<<e, d>> \in Less)
  <2>1. IsWellFoundedOn(Less, Nat)
    BY NatLessThanWellFounded
  <2> HIDE DEF D, Less
  <2> QED BY <2>1, <1>1, WFMin
<1>3. \A d, e \in Nat : e < d => <<e, d>> \in Less
  BY DEF OpToRel
<1> HIDE DEF Less
<1>4. PICK d \in D : \A e \in D : ~(e < d)
  <2>1. PICK d \in D : \A e \in D : ~(<<e, d>> \in Less)
    BY <1>2
  <2> QED BY <2>1, <1>1, <1>3
<1>5. PICK x \in T : d = MaxRows - x[2]
  OBVIOUS
<1>6. ASSUME NEW y \in T PROVE y[2] =< x[2]
  <2>1. ~(MaxRows - y[2] < MaxRows - x[2])
    BY <1>4, <1>5
  <2> QED BY <2>1, <1>0
<1> QED BY <1>6

\* After a write the store holds every row of the batch, and what it held of
\* other requests.
LEMMA UpsertHolds ==
    ASSUME NEW s, s \subseteq Rows, report \subseteq Rows,
           report' = Upsert(s), UNCHANGED <<plan, kind>>
    PROVE  /\ AllHeld(s)'
           /\ \A x \in Rows : Held(x) /\ (\A y \in s : y[1] # x[1]) => Held(x)'
           /\ report' \subseteq report \cup s
<1>0. \A x : Key(x)' = Key(x) /\ Used(x)' = Used(x)
  BY DEF Key, Used, Kind
<1>1. ASSUME NEW x \in s, Used(x) PROVE Held(x)'
  <2> DEFINE T == {y \in Batch(s) : Key(y) = Key(x)}
  <2>1. T \subseteq Rows /\ x \in T
    BY <1>1 DEF Batch
  <2>2. PICK z \in T : \A y \in T : y[2] =< z[2]
    BY <2>1, LastRow
  <2>3. z \in report'
    BY <2>2 DEF Upsert
  <2> QED BY <1>0, <2>1, <2>2, <2>3 DEF Held
<1>2. ASSUME NEW x \in Rows, Held(x), \A y \in s : y[1] # x[1] PROVE Held(x)'
  <2>1. PICK z \in report : Key(z) = Key(x) /\ x[2] =< z[2]
    BY <1>2 DEF Held
  <2>2. \A y \in Batch(s) : Key(y) # Key(z)
    BY <1>2, <2>1, KeyRequest DEF Batch
  <2>3. z \in report'
    BY <2>2 DEF Upsert
  <2> QED BY <1>0, <2>1, <2>3 DEF Held
<1>3. report' \subseteq report \cup s
  BY DEF Upsert, Batch
<1> QED BY <1>0, <1>1, <1>2, <1>3 DEF AllHeld

\* What the properties say depends on nothing but these.
LEMMA SameStore ==
    ASSUME UNCHANGED <<plan, size, kind, report>>
    PROVE  /\ \A x : /\ Held(x)' = Held(x) /\ Used(x)' = Used(x)
                     /\ Malformed(x)' = Malformed(x)
           /\ \A i : Upstream(i)' = Upstream(i)
           /\ TotalsBeforeDetails => TotalsBeforeDetails'
           /\ code' \notin {"", "PARTIAL"} => ResultIsHonest'
<1>1. \A x : /\ Held(x)' = Held(x) /\ Used(x)' = Used(x)
             /\ Malformed(x)' = Malformed(x)
  BY DEF Held, Used, Malformed, Key, Kind
<1>2. \A i : Upstream(i)' = Upstream(i)
  BY DEF Upstream
<1>3. TotalsBeforeDetails => TotalsBeforeDetails'
  BY <1>1, <1>2 DEF TotalsBeforeDetails
<1>4. code' \notin {"", "PARTIAL"} => ResultIsHonest'
  BY DEF ResultIsHonest
<1> QED BY <1>1, <1>2, <1>3, <1>4

-----------------------------------------------------------------------------
\* The invariant holds initially.
LEMMA InvInit == Init => Inv
<1> SUFFICES ASSUME Init PROVE Inv
  OBVIOUS
<1>1. TypeOK
  <2>1. plan \in Plans /\ surplus \in {0, 1} /\ 1 \in 1 .. Len(plan) + 1
    BY PlanFacts DEF Init
  <2>2. size \in [1 .. Len(plan) -> 0 .. MaxRows] /\ 0 \in 0 .. Attempts
    BY PagingAssumption DEF Init
  <2>3. pc \in PCs /\ code \in ErrorCodes /\ rows \subseteq Rows /\ report \subseteq Rows
    BY DEF Init, PCs, ErrorCodes
  <2>4. kind \in [(1 .. Len(plan)) \X OddRows -> Kinds]
    BY DEF Init
  <2> QED BY <2>1, <2>2, <2>3, <2>4 DEF Init, TypeOK
<1>2. Place /\ Denied /\ Fetched /\ Written
  BY DEF Init, Place, Denied, Fetched, Written, Fetching, Writing
<1>3. ResultIsHonest /\ TotalsBeforeDetails
  BY DEF Init, ResultIsHonest, TotalsBeforeDetails
<1> QED BY <1>1, <1>2, <1>3 DEF Inv

\* The next Sync begins, or is refused.
LEMMA InvBegin == ASSUME Inv, Start \/ Refuse PROVE Inv'
<1> USE DEF Inv
<1>0. Len(plan) \in 1 .. 3 /\ Attempts \in Nat /\ Attempts > 0
  BY Types
<1>1. PICK step, c : /\ Begin(step, c)
                     /\ \/ step = "call" /\ c = "none"
                        \/ step = "done" /\ c \in Refusals
  BY DEF Start, Refuse
<1>2. TypeOK'
  <2>1. 1 \in 1 .. Len(plan) + 1 /\ 0 \in 0 .. Attempts
    BY <1>0
  <2>2. step \in PCs /\ c \in ErrorCodes
    BY <1>1 DEF PCs, ErrorCodes
  <2> QED BY <1>1, <2>1, <2>2 DEF Begin, TypeOK
<1>3. Place' /\ Denied' /\ Written'
  <2>1. c \in Refusals => c # "none"
    BY DEF Refusals
  <2> QED BY <1>0, <1>1, <2>1 DEF Begin, Place, Denied, Written, Fetching, Writing
<1>4. Fetched'
  BY <1>0, <1>1 DEF Begin, Fetched, Fetching, TypeOK
<1>5. ResultIsHonest' /\ TotalsBeforeDetails'
  <2>1. c \notin {"", "PARTIAL"}
    BY <1>1 DEF Refusals
  <2> QED BY <1>1, <2>1, SameStore DEF Begin
<1> QED BY <1>2, <1>3, <1>4, <1>5

\* A result that claims no success ends a Sync anywhere.
LEMMA InvResult ==
    ASSUME Inv, NEW c \in {"TRANSIENT", "UNAUTHORIZED", "RATE_LIMITED", "INTERNAL"}, Result(c)
    PROVE  Inv'
<1> USE DEF Inv
<1>1. TypeOK'
  BY DEF Result, TypeOK, PCs, ErrorCodes, Refusals
<1>2. Place' /\ Denied' /\ Written' /\ Fetched'
  BY DEF Result, Place, Denied, Written, Fetched, Reached, Fetching, Writing
<1>3. ResultIsHonest' /\ TotalsBeforeDetails'
  BY SameStore DEF Result
<1> QED BY <1>1, <1>2, <1>3

\* Steps between two calls.
LEMMA InvBetween ==
    ASSUME Inv, BackOff \/ Retry \/ DeadlinePasses \/ (\E e \in CallErrors : CallFails(e))
    PROVE  Inv'
<1> USE DEF Inv
<1>0. /\ UNCHANGED <<plan, size, kind, surplus, req, offset, rows, partial, code, report>>
      /\ pc' = pc \/ (pc \in Fetching /\ pc' \in Fetching)
      /\ Attempts \in Nat /\ attempt \in Nat /\ attempt =< Attempts
  BY Types DEF BackOff, Retry, DeadlinePasses, CallFails, Fetching, TypeOK
<1>a. code' = "none"
  BY <1>0 DEF Place, BackOff, Retry, DeadlinePasses, CallFails
<1>1. TypeOK'
  <2>1. attempt' \in 0 .. Attempts
    BY <1>0 DEF BackOff, Retry, DeadlinePasses, CallFails, Place
  <2>2. /\ pc' \in PCs /\ late' \in BOOLEAN /\ denied' \in BOOLEAN
        /\ err' \in CallErrors \cup {"none"}
    BY DEF BackOff, Retry, DeadlinePasses, CallFails, TypeOK, PCs
  <2> QED BY <1>0, <2>1, <2>2 DEF TypeOK
<1>2. Place'
  BY <1>0 DEF BackOff, Retry, DeadlinePasses, CallFails, Place, Fetching, Writing
<1>3. Denied'
  BY DEF BackOff, Retry, DeadlinePasses, CallFails, Denied, Retryable
<1>4. Fetched' /\ Written'
  <2>1. pc = pc' \/ (pc \in Fetching /\ pc' \in Fetching)
    BY <1>0
  <2>2. Fetched'
    BY <1>0 DEF Fetched, Got, Reached, Fetching
  <2>3. Written'
    BY <1>0, <2>1, SameStore DEF Written, AllHeld, Totals, Fetching
  <2> QED BY <2>2, <2>3
<1>5. ResultIsHonest' /\ TotalsBeforeDetails'
  BY <1>0, <1>a, SameStore
<1> QED BY <1>1, <1>2, <1>3, <1>4, <1>5

\* A page arrives.
LEMMA InvPageOk == ASSUME Inv, PageOk PROVE Inv'
<1> USE DEF Inv
<1>0. /\ pc = "call" /\ req \in 1 .. Len(plan) /\ Len(plan) \in 1 .. 3
      /\ UNCHANGED <<plan, size, kind, surplus, err, late, code, report, denied>>
      /\ rows' = rows \cup Page /\ partial' = (partial \/ Capped)
      /\ offset \in Nat /\ PageSize \in Nat /\ attempt' = 0
      /\ size[req] \in Nat /\ Attempts \in Nat /\ Attempts > 0
  BY Types DEF PageOk, Place, Fetching
<1>1. Page \subseteq Rows
  BY <1>0, UpstreamRows DEF Page
<1>2. \A k \in 1 .. size[req] : k =< offset => <<req, k>> \in rows
  BY <1>0 DEF Fetched, Fetching
<1>3. \/ /\ Complete \/ Capped
         /\ offset' = 0 /\ req' = req + 1
         /\ pc' = IF req = Len(plan) THEN "first" ELSE "call"
      \/ ~Complete /\ ~Capped /\ offset' = offset + PageSize /\ UNCHANGED <<req, pc>>
  BY DEF PageOk
<1>4. TypeOK'
  <2>1. /\ req' \in 1 .. Len(plan) + 1 /\ offset' \in Nat /\ pc' \in PCs
        /\ attempt' \in 0 .. Attempts
    BY <1>0, <1>3 DEF PCs
  <2>2. rows' \subseteq Rows /\ partial' \in BOOLEAN
    BY <1>0, <1>1 DEF TypeOK, Capped
  <2> QED BY <1>0, <2>1, <2>2 DEF TypeOK
<1>5. Place' /\ Denied' /\ Written'
  BY <1>0, <1>3 DEF Place, Denied, Written, Fetching, Writing
<1>6. ASSUME NEW i \in 1 .. Len(plan), Got(i) PROVE Got(i)'
  BY <1>0, <1>6 DEF Got
<1>7. partial' => Reached'
  <2>1. CASE partial
    BY <1>0, <2>1 DEF Fetched, Reached
  <2>2. CASE Capped
    <3>1. plan[req] = "capped" /\ size[req] >= DetailCap
      <4>1. DetailCap \in Nat /\ plan[req] = "capped" /\ offset + PageSize >= DetailCap
            /\ PageLen >= PageSize
        BY <2>2, <1>0, Types DEF Capped, Complete, PageLen, Unpaged
      <4>2. size[req] >= offset + PageSize
        BY <4>1, <1>0, Types DEF PageLen
      <4> QED BY <4>1, <4>2, <1>0
    <3> QED BY <1>0, <3>1 DEF Reached
  <2> QED BY <1>0, <2>1, <2>2
<1>8. Fetched'
  <2>1. CASE Complete \/ Capped
    <3>1. ASSUME NEW i \in 1 .. Len(plan), i = req PROVE Got(i)'
      <4> SUFFICES ASSUME NEW k \in 1 .. size[req],
                          k =< DetailCap \/ plan[req] # "capped" \/ ~partial'
                   PROVE  <<req, k>> \in rows'
        BY <1>0, <3>1 DEF Got
      <4>1. CASE Complete
        BY <4>1, <1>0, <1>2, PageFacts
      <4>2. CASE Capped
        <5>1. plan[req] = "capped" /\ partial'
          BY <4>2, <1>0 DEF Capped
        <5> QED BY <5>1, <4>2, <1>0, <1>2, PageFacts
      <4> QED BY <2>1, <4>1, <4>2
    <3>2. \A i \in 1 .. Len(plan) : i < req => Got(i)'
      BY <1>0, <1>6 DEF Fetched
    <3>3. \A i \in 1 .. Len(plan) : i < req + 1 => i = req \/ i < req
      BY <1>0
    <3>4. ASSUME NEW i \in 1 .. Len(plan), i < req' PROVE Got(i)'
      <4>1. i = req \/ i < req
        BY <2>1, <1>0, <1>3, <3>4
      <4> QED BY <3>1, <3>2, <4>1
    <3>5. pc' \in Fetching => \A k \in 1 .. size'[req'] : k =< offset' => <<req', k>> \in rows'
      BY <2>1, <1>3
    <3> QED BY <1>0, <1>7, <3>4, <3>5 DEF Fetched
  <2>2. CASE ~Complete /\ ~Capped
    <3>1. \A i \in 1 .. Len(plan) : i < req' => Got(i)'
      BY <2>2, <1>0, <1>3, <1>6 DEF Fetched
    <3>2. \A k \in 1 .. size[req] : k =< offset + PageSize => <<req, k>> \in rows'
      BY <1>0, <1>2, PageFacts
    <3>3. req' = req /\ offset' = offset + PageSize
      BY <2>2, <1>3
    <3> QED BY <1>0, <1>7, <3>1, <3>2, <3>3 DEF Fetched
  <2> QED BY <2>1, <2>2
<1>9. ResultIsHonest' /\ TotalsBeforeDetails'
  <2>1. code' = "none"
    BY <1>0 DEF Place
  <2> QED BY <1>0, <2>1, SameStore
<1> QED BY <1>4, <1>5, <1>8, <1>9

\* Once all requests are behind, the rows hold the totals.
LEMMA TotalsAreThere ==
    ASSUME Inv, pc \in Writing
    PROVE  Upstream(1) \subseteq rows
<1> USE DEF Inv
<1>1. 1 \in 1 .. Len(plan) /\ 1 < req /\ plan[1] # "capped" /\ pc # "done"
  BY Types, PlanFacts DEF Place, TypeOK, Writing
<1>2. Got(1)
  BY <1>1 DEF Fetched
<1> QED BY <1>1, <1>2 DEF Got, Upstream

\* The two writes.
LEMMA InvWrite == ASSUME Inv, WriteFirst \/ WriteSecond PROVE Inv'
<1> USE DEF Inv
<1>0. /\ UNCHANGED <<plan, size, kind, surplus, req, offset, attempt, rows, partial, err,
                     late, code, denied>>
      /\ pc \in Writing /\ pc' \in Writing /\ rows \subseteq Rows /\ report \subseteq Rows
      /\ Upstream(1)' = Upstream(1) /\ Totals' = Totals /\ Details' = Details
      /\ Totals \subseteq Rows /\ Details \subseteq Rows
      /\ \A x : Used(x)' = Used(x) /\ Malformed(x)' = Malformed(x)
  BY DEF WriteFirst, WriteSecond, Writing, Upstream, Totals, Details, TypeOK, Used,
     Malformed, Kind
<1>a. /\ WriteFirst => AllHeld(Totals)' /\ pc' = "second"
      /\ WriteSecond => AllHeld(rows)' /\ pc' = "return" /\ AllHeld(Totals)'
      /\ report' \subseteq Rows
  <2>1. CASE WriteFirst
    BY <2>1, <1>0, UpsertHolds DEF WriteFirst, WriteSecond
  <2>2. CASE WriteSecond
    <3>1. AllHeld(Totals) /\ report' = Upsert(Details) /\ pc = "second" /\ pc' = "return"
      BY <2>2 DEF WriteSecond, Written
    <3>2. AllHeld(Details)' /\ report' \subseteq report \cup Details
      BY <3>1, <1>0, UpsertHolds
    <3>3. ASSUME NEW x \in Totals, Used(x) PROVE Held(x)'
      <4>1. Held(x) /\ x \in Rows /\ \A y \in Details : y[1] # x[1]
        BY <3>1, <3>3, <1>0 DEF AllHeld, Totals, Details
      <4> QED BY <4>1, <3>1, <1>0, UpsertHolds
    <3>4. AllHeld(Totals)'
      BY <3>3, <1>0 DEF AllHeld
    <3>5. \A x \in rows : x \in Totals \/ x \in Details
      BY DEF Totals, Details
    <3>6. AllHeld(rows)'
      BY <3>2, <3>4, <3>5, <1>0 DEF AllHeld
    <3>7. ~WriteFirst
      BY <3>1 DEF WriteFirst
    <3> QED BY <3>1, <3>2, <3>4, <3>6, <3>7, <1>0
  <2> QED BY <2>1, <2>2
<1>1. TypeOK'
  BY <1>0, <1>a DEF TypeOK, PCs, Writing
<1>2. Place' /\ Denied'
  BY <1>0 DEF Place, Denied, Writing, Fetching
<1>3. Fetched'
  BY <1>0 DEF Fetched, Got, Reached, Writing, Fetching
<1>4. Written'
  <2>1. \A x \in rows : ~Malformed(x)
    BY DEF WriteFirst, WriteSecond, Written
  <2> QED BY <1>0, <1>a, <2>1 DEF Written
<1>5. ResultIsHonest'
  <2>1. code' = "none"
    BY <1>0 DEF Place, Writing
  <2> QED BY <2>1 DEF ResultIsHonest
<1>6. TotalsBeforeDetails'
  <2>1. Upstream(1) \subseteq Totals
    BY <1>0, TotalsAreThere DEF Totals, Upstream
  <2>2. AllHeld(Totals)'
    BY <1>a
  <2> QED BY <1>0, <2>1, <2>2 DEF AllHeld, TotalsBeforeDetails
<1> QED BY <1>1, <1>2, <1>3, <1>4, <1>5, <1>6

\* Sync returns what it has.
LEMMA InvReturn == ASSUME Inv, Return PROVE Inv'
<1> USE DEF Inv
<1>0. /\ pc = "return" /\ pc' = "done"
      /\ code' = IF partial THEN "PARTIAL" ELSE IF late THEN "TRANSIENT" ELSE ""
      /\ UNCHANGED <<plan, size, kind, surplus, req, offset, attempt, rows, partial, err,
                     late, report, denied>>
  BY DEF Return, Result
<1>1. TypeOK'
  BY <1>0 DEF TypeOK, PCs, ErrorCodes
<1>2. Place' /\ Denied' /\ Written' /\ Fetched'
  BY <1>0 DEF Place, Denied, Written, Fetched, Reached, Fetching, Writing
<1>3. TotalsBeforeDetails'
  BY <1>0, SameStore
<1>4. \A i \in 1 .. Len(plan) : \A k \in 1 .. size[i] :
          k =< DetailCap \/ plan[i] # "capped" \/ ~partial =>
              ~Malformed(<<i, k>>) /\ (Used(<<i, k>>) => Held(<<i, k>>))
  <2>0. req = Len(plan) + 1 /\ Len(plan) \in 1 .. 3
    BY <1>0, Types DEF Place, Writing
  <2>1. ASSUME NEW i \in 1 .. Len(plan) PROVE Got(i)
    <3>1. i < req
      BY <2>0
    <3> QED BY <1>0, <3>1 DEF Fetched
  <2> QED BY <1>0, <2>1 DEF Got, Written, AllHeld
<1>5. ResultIsHonest'
  <2>1. code' = "" => ~partial
    BY <1>0
  <2>2. code' = "PARTIAL" => partial
    BY <1>0
  <2>3. code' = "PARTIAL" => Reached
    BY <2>2 DEF Fetched
  <2>4. ASSUME code' \in {"", "PARTIAL"}, NEW i \in 1 .. Len(plan), NEW x \in Upstream(i),
               code' = "PARTIAL" /\ plan[i] = "capped" => x[2] =< DetailCap
        PROVE  ~Malformed(x) /\ (Used(x) => Held(x))
    <3>1. PICK k \in 1 .. size[i] : x = <<i, k>>
      BY DEF Upstream
    <3>2. k =< DetailCap \/ plan[i] # "capped" \/ ~partial
      BY <3>1, <2>4, <2>1
    <3> QED BY <3>1, <3>2, <1>4
  <2>5. /\ \A x : Held(x)' = Held(x) /\ Used(x)' = Used(x) /\ Malformed(x)' = Malformed(x)
        /\ \A i : Upstream(i)' = Upstream(i)
    BY <1>0, SameStore
  <2> QED BY <1>0, <2>3, <2>4, <2>5 DEF ResultIsHonest, Reached
<1> QED BY <1>1, <1>2, <1>3, <1>5

\* Every step preserves the invariant.
LEMMA InvNext == Inv /\ [Next]_vars => Inv'
<1> SUFFICES ASSUME Inv, [Next]_vars PROVE Inv'
  OBVIOUS
<1>1. CASE Start \/ Refuse
  BY <1>1, InvBegin
<1>2. CASE PageOk
  BY <1>2, InvPageOk
<1>3. CASE BackOff \/ Retry \/ DeadlinePasses \/ (\E e \in CallErrors : CallFails(e))
  BY <1>3, InvBetween
<1>4. CASE GiveUp \/ RetriesExhausted \/ DateRefused \/ WriteFails \/ Crash
  <2>1. pc \in {"failed", "backoff"} =>
            Classify(err) \in {"TRANSIENT", "UNAUTHORIZED", "RATE_LIMITED", "INTERNAL"}
    BY DEF Inv, Place, CallErrors, Classify
  <2> QED BY <1>4, <2>1, InvResult DEF GiveUp, RetriesExhausted, DateRefused, WriteFails, Crash
<1>5. CASE WriteFirst \/ WriteSecond
  BY <1>5, InvWrite
<1>6. CASE Return
  BY <1>6, InvReturn
<1>7. CASE UNCHANGED vars
  <2> USE DEF Inv
  <2>1. TypeOK' /\ Place' /\ Denied'
    BY <1>7 DEF vars, TypeOK, Place, Denied
  <2>2. Fetched' /\ Written'
    BY <1>7, SameStore DEF vars, Fetched, Got, Reached, Written, AllHeld, Totals
  <2>3. ResultIsHonest' /\ TotalsBeforeDetails'
    <3>1. ResultIsHonest' = ResultIsHonest
      BY <1>7, SameStore DEF vars, ResultIsHonest
    <3> QED BY <1>7, <3>1, SameStore DEF vars
  <2> QED BY <2>1, <2>2, <2>3
<1> QED BY <1>1, <1>2, <1>3, <1>4, <1>5, <1>6, <1>7 DEF Next, Step

\* The invariant holds throughout.
LEMMA Invariance == Spec => []Inv
BY InvInit, InvNext, PTL DEF Spec

-----------------------------------------------------------------------------
\* The state of a Sync keeps its type; no page is asked for more often than
\* Attempts times.
THEOREM TypeCorrect == Spec => []TypeOK
<1>1. Inv => TypeOK
  BY DEF Inv
<1> QED BY Invariance, <1>1, PTL

\* A reported success has fetched every row upstream, and a PARTIAL result every
\* row the provider serves; each one the adapter has a use for is in the store, or
\* a later row with its key is (searchconsole.go:388-409, ga4.go:328-344,
\* bing.go:183-213, store.go:399-413).
THEOREM ResultsAreHonest == Spec => []ResultIsHonest
<1>1. Inv => ResultIsHonest
  BY DEF Inv
<1> QED BY Invariance, <1>1, PTL

\* Details are never in the store without the totals
\* (searchconsole.go:221-230, bing.go:216-225).
THEOREM DetailsFollowTotals == Spec => []TotalsBeforeDetails
<1>1. Inv => TotalsBeforeDetails
  BY DEF Inv
<1> QED BY Invariance, <1>1, PTL

\* No call follows a rejected credential (core/errors.go:22-24).
THEOREM DenialEndsCalls == Spec => NoCallAfterDenial
<1> DEFINE Quiet == denied /\ code = "none" => UNCHANGED <<req, offset, attempt, rows>>
<1>1. Inv /\ [Next]_vars => [Quiet]_vars
  <2> SUFFICES ASSUME Inv, Next, denied, code = "none"
               PROVE  UNCHANGED <<req, offset, attempt, rows>>
    OBVIOUS
  <2>1. pc = "failed" /\ err = "denied"
    BY DEF Inv, Place, Denied
  <2>2. ~Retryable(err)
    BY <2>1 DEF Retryable
  <2> QED BY <2>1, <2>2
          DEF Next, Step, Start, Refuse, Begin, PageOk, CallFails, GiveUp, BackOff, Retry,
              RetriesExhausted, DateRefused, WriteFirst, WriteSecond, WriteFails, Return, Crash,
              DeadlinePasses, Result
<1> QED BY <1>1, Invariance, PTL DEF Spec, NoCallAfterDenial

-----------------------------------------------------------------------------
(* Why a Sync is finite, for every instance: what is left of it is bounded, *)
(* and every step of it uses some of that up.  That such a Sync ends is     *)
(* then a matter of fairness, which TLC checks as SyncTerminates.           *)

\* Pages end near the last row upstream, whatever RowCount says.
OffsetBounded == offset < MaxRows + PageSize

\* Steps until the next call, page or result.
Left(p) ==
    CASE p \in {"failed", "first"} -> 3
      [] p \in {"backoff", "second"} -> 2
      [] p \in {"call", "return"} -> 1
      [] p = "done" -> 0

\* The next request, or the next page of this one, or the next attempt, or less
\* left to do.
Advances ==
    \/ req' > req
    \/ req' = req /\ offset' > offset
    \/ UNCHANGED <<req, offset>> /\ attempt' > attempt
    \/ UNCHANGED <<req, offset, attempt>> /\ Left(pc') < Left(pc)

\* Each page starts before the last row upstream, or ends the request.
LEMMA OffsetBoundedNext == Inv /\ OffsetBounded /\ [Next]_vars => OffsetBounded'
<1> SUFFICES ASSUME Inv, OffsetBounded, [Next]_vars PROVE OffsetBounded'
  OBVIOUS
<1>1. /\ MaxRows \in Nat /\ PageSize \in Nat /\ PageSize > 0 /\ offset \in Nat
      /\ surplus \in Nat
  BY Types DEF Inv
<1>2. CASE PageOk
  <2>0. req \in 1 .. Len(plan) /\ plan \in Plans
    BY <1>2 DEF Inv, TypeOK, PageOk, Place, Fetching
  <2>1. /\ size[req] \in Nat /\ size[req] =< MaxRows
        /\ plan[req] \in Unpaged \cup {"capped", "counted"}
    BY <2>0, Types, PlanFacts DEF Inv
  <2>2. ~Complete => offset < size[req]
    <3>1. PageLen > 0 => offset < size[req]
      BY <1>1, <2>1 DEF PageLen
    <3>2. PageLen >= 0
      BY <1>1, <2>1 DEF PageLen
    <3>3. PageLen \in Int
      BY <1>1, <2>1 DEF PageLen
    <3>4. ~Complete => PageLen > 0
      <4>1. CASE plan[req] \in Unpaged
        BY <4>1 DEF Complete, Unpaged
      <4>2. CASE plan[req] = "capped"
        BY <4>2, <1>1, <3>3 DEF Complete, Unpaged
      <4>3. CASE plan[req] = "counted"
        BY <4>3, <3>2, <3>3 DEF Complete, Unpaged
      <4> QED BY <2>1, <4>1, <4>2, <4>3
    <3> QED BY <3>1, <3>4
  <2>3. offset' = 0 \/ (~Complete /\ offset' = offset + PageSize)
    BY <1>2 DEF PageOk
  <2> QED BY <1>1, <2>1, <2>2, <2>3 DEF OffsetBounded
<1>3. CASE ~PageOk
  <2>1. offset' = 0 \/ offset' = offset
    BY <1>3 DEF Next, Step, vars, Start, Refuse, Begin, CallFails, GiveUp, BackOff, Retry,
       RetriesExhausted, DateRefused, WriteFirst, WriteSecond, WriteFails, Return, Crash,
       DeadlinePasses, Result
  <2> QED BY <1>1, <2>1 DEF OffsetBounded
<1> QED BY <1>2, <1>3

\* Every step uses something up.
LEMMA StepAdvances == ASSUME Inv, Step \/ Crash PROVE Advances
<1>0. /\ req \in Nat /\ offset \in Nat /\ attempt \in Nat /\ PageSize \in Nat
      /\ PageSize > 0 /\ pc \in PCs
  <2>1. Len(plan) \in 1 .. 3 /\ req \in 1 .. Len(plan) + 1 /\ attempt \in 0 .. Attempts
    BY Types DEF Inv, TypeOK
  <2> QED BY <2>1, Types DEF Inv, TypeOK
<1>1. CASE PageOk
  BY <1>0, <1>1 DEF PageOk, Advances
<1>2. CASE \E e \in CallErrors : CallFails(e)
  BY <1>0, <1>2 DEF CallFails, Advances
<1>3. ASSUME NEW c, Result(c), pc # "done" PROVE Advances
  BY <1>0, <1>3 DEF Result, Advances, Left, PCs
<1>4. CASE BackOff \/ Retry \/ WriteFirst \/ WriteSecond
  BY <1>4 DEF BackOff, Retry, WriteFirst, WriteSecond, Advances, Left
<1>5. CASE GiveUp \/ RetriesExhausted \/ DateRefused \/ WriteFails \/ Return \/ Crash
  BY <1>3, <1>5 DEF GiveUp, RetriesExhausted, DateRefused, WriteFails, Return, Crash
<1> QED BY <1>1, <1>2, <1>4, <1>5 DEF Step

\* No page is read for ever: the offset stays bounded although RowCount
\* overstates, and every step of a Sync moves on in the order of requests,
\* pages, attempts and phases (searchconsole.go:388-409, ga4.go:328-344).
THEOREM SyncIsBounded ==
    Spec => []OffsetBounded /\ [][Step \/ Crash => Advances]_vars
<1>1. Init => OffsetBounded
  BY PagingAssumption DEF Init, OffsetBounded
<1>2. Inv /\ [Next]_vars => [Step \/ Crash => Advances]_vars
  BY StepAdvances
<1> QED BY <1>1, <1>2, OffsetBoundedNext, Invariance, PTL DEF Spec

=============================================================================
