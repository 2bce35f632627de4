--------------------------- MODULE ReadersProofs ---------------------------
(***************************************************************************)
(* What the readers of the report store can rely on, for every dataset,    *)
(* limit, number of writes, failures and overlapping calls.                *)
(***************************************************************************)
EXTENDS Readers, FiniteSetTheorems, WellFoundedInduction, TLAPS

-----------------------------------------------------------------------------
(***************************************************************************)
(* Sets of numbers, and the page cut out of one by Top.                    *)
(***************************************************************************)
\* A nonempty set of natural numbers has a least element.
LEMMA LeastNatural ==
    ASSUME NEW S, S \subseteq Nat, S # {}
    PROVE  \E x \in S : \A y \in S : x =< y
<1>1. \E x \in S : \A y \in S : ~ (<<y, x>> \in OpToRel(<, Nat))
  BY NatLessThanWellFounded, WFMin
<1>2. PICK x \in S : \A y \in S : ~ (<<y, x>> \in OpToRel(<, Nat))
  BY <1>1
<1>3. \A y \in S : x =< y
  <2>1. SUFFICES ASSUME NEW y \in S, y < x PROVE FALSE
    OBVIOUS
  <2>2. <<y, x>> \in OpToRel(<, Nat)
    BY <2>1 DEF OpToRel
  <2> QED BY <2>2, <1>2
<1> QED BY <1>3

Above(S, k) == {j \in S : j > k}

\* Of two members of a finite set the larger has fewer members above it.
LEMMA FewerAbove ==
    ASSUME NEW S, S \subseteq Nat, IsFiniteSet(S), NEW k \in Nat, NEW j \in S, j > k
    PROVE  /\ Cardinality(Above(S, j)) \in Nat
           /\ Cardinality(Above(S, k)) \in Nat
           /\ Cardinality(Above(S, j)) < Cardinality(Above(S, k))
<1>1. IsFiniteSet(Above(S, k)) /\ IsFiniteSet(Above(S, j))
  BY FS_Subset DEF Above
<1>2. Above(S, j) \in SUBSET (Above(S, k) \ {j})
  <2>1. SUFFICES ASSUME NEW i \in Above(S, j) PROVE i \in Above(S, k) /\ i # j
    OBVIOUS
  <2>2. i \in S /\ i \in Nat /\ j \in Nat /\ i > j
    BY DEF Above
  <2>3. i > k /\ i # j
    BY <2>2
  <2> QED BY <2>2, <2>3 DEF Above
<1>3. j \in Above(S, k)
  BY DEF Above
<1>4. /\ IsFiniteSet(Above(S, k) \ {j})
      /\ Cardinality(Above(S, k) \ {j}) = Cardinality(Above(S, k)) - 1
  BY <1>1, <1>3, FS_RemoveElement
<1>5. Cardinality(Above(S, j)) =< Cardinality(Above(S, k) \ {j})
  BY <1>2, <1>4, FS_Subset
<1>6. Cardinality(Above(S, k)) \in Nat /\ Cardinality(Above(S, j)) \in Nat
  BY <1>1, FS_CardinalityType
<1> QED BY <1>4, <1>5, <1>6

\* Top takes a set from above.
LEMMA TopFromAbove ==
    ASSUME NEW S, S \subseteq Nat, IsFiniteSet(S), NEW n \in Nat,
           NEW k \in Top(S, n), NEW j \in S, j >= k
    PROVE  j \in Top(S, n)
<1>0. k \in S /\ Cardinality(Above(S, k)) < n
  BY DEF Top, Above
<1>1. CASE j = k
  BY <1>1, <1>0
<1>2. CASE j > k
  <2>1. /\ Cardinality(Above(S, j)) \in Nat
        /\ Cardinality(Above(S, k)) \in Nat
        /\ Cardinality(Above(S, j)) < Cardinality(Above(S, k))
    BY <1>2, <1>0, FewerAbove
  <2>2. Cardinality(Above(S, j)) < n
    BY <2>1, <1>0
  <2> QED BY <2>2 DEF Top, Above
<1> QED BY <1>0, <1>1, <1>2

\* Top is all of a set that has no more than n members among the first n + 1.
LEMMA TopIsAll ==
    ASSUME NEW S, S \subseteq Nat, IsFiniteSet(S), NEW n \in Nat,
           Cardinality(Top(S, n + 1)) =< n
    PROVE  Top(S, n + 1) = S /\ Top(Top(S, n + 1), n) = S
<1> DEFINE Rest == S \ Top(S, n + 1)
           Counts == {Cardinality(Above(S, k)) : k \in Rest}
<1>0. \A k \in S : Cardinality(Above(S, k)) \in Nat
  BY FS_Subset, FS_CardinalityType DEF Above
<1>1. Rest = {}
  <2>1. SUFFICES ASSUME Rest # {} PROVE FALSE
    OBVIOUS
  <2>2. Counts \subseteq Nat /\ Counts # {}
    BY <1>0, <2>1
  <2>3. PICK m \in Counts : \A c \in Counts : m =< c
    <3> HIDE DEF Counts
    <3> QED BY <2>2, LeastNatural
  <2>4. PICK k \in Rest : m = Cardinality(Above(S, k))
    BY <2>3
  <2>5. Above(S, k) \in SUBSET Top(S, n + 1)
    <3>1. SUFFICES ASSUME NEW j \in S, j > k, j \in Rest PROVE FALSE
      BY DEF Above
    <3>2. /\ Cardinality(Above(S, j)) < Cardinality(Above(S, k))
          /\ Cardinality(Above(S, j)) \in Nat /\ Cardinality(Above(S, k)) \in Nat
      BY <3>1, FewerAbove
    <3>3. Cardinality(Above(S, j)) \in Counts
      BY <3>1
    <3> QED BY <3>2, <3>3, <2>3, <2>4
  <2>6. IsFiniteSet(Top(S, n + 1))
    BY FS_Subset DEF Top
  <2>7. Cardinality(Above(S, k)) =< Cardinality(Top(S, n + 1))
    BY <2>5, <2>6, FS_Subset
  <2>8. Cardinality(Above(S, k)) =< n
    BY <2>7, <1>0, <2>4, <2>6, FS_CardinalityType
  <2>9. k \in Top(S, n + 1)
    BY <2>8, <1>0 DEF Top, Above
  <2> QED BY <2>9
<1>2. Top(S, n + 1) = S
  BY <1>1 DEF Top
<1>3. ASSUME NEW k \in S PROVE k \in Top(S, n)
  <2>1. Above(S, k) \in SUBSET (S \ {k})
    BY DEF Above
  <2>2. /\ IsFiniteSet(S \ {k})
        /\ Cardinality(S \ {k}) = Cardinality(S) - 1
    BY FS_RemoveElement
  <2>3. Cardinality(Above(S, k)) =< Cardinality(S) - 1
    BY <2>1, <2>2, FS_Subset
  <2>4. Cardinality(Above(S, k)) < n
    BY <2>3, <1>0, <1>2, FS_CardinalityType
  <2> QED BY <2>4 DEF Top, Above
<1>4. Top(S, n) = S
  BY <1>3 DEF Top
<1> QED BY <1>2, <1>4

\* Top(S, n) has at most n members.
LEMMA TopIsSmall ==
    ASSUME NEW S, S \subseteq Nat, IsFiniteSet(S), NEW n \in Nat
    PROVE  Cardinality(Top(S, n)) \in Nat /\ Cardinality(Top(S, n)) =< n
<1> DEFINE T == Top(S, n)
<1>0. T \in SUBSET S /\ IsFiniteSet(T) /\ Cardinality(T) \in Nat
  BY FS_Subset, FS_CardinalityType DEF Top
<1>1. CASE T = {}
  BY <1>1, FS_EmptySet
<1>2. CASE T # {}
  <2>1. PICK k \in T : \A j \in T : k =< j
    <3> HIDE DEF T
    <3>1. T \subseteq Nat
      BY <1>0
    <3> QED BY <1>2, <3>1, LeastNatural
  <2>2. k \in S /\ Cardinality(Above(S, k)) < n
    BY <2>1 DEF Top, Above
  <2>3. T \ {k} \in SUBSET Above(S, k)
    <3>1. SUFFICES ASSUME NEW j \in T, j # k PROVE j \in Above(S, k)
      OBVIOUS
    <3>2. j \in S /\ j \in Nat /\ k \in Nat /\ k =< j
      BY <1>0, <2>1, <2>2
    <3>3. j > k
      BY <3>1, <3>2
    <3> QED BY <3>2, <3>3 DEF Above
  <2>4. IsFiniteSet(Above(S, k)) /\ Cardinality(Above(S, k)) \in Nat
    BY FS_Subset, FS_CardinalityType DEF Above
  <2>5. Cardinality(T \ {k}) =< Cardinality(Above(S, k))
    BY <2>3, <2>4, FS_Subset
  <2>6. Cardinality(T \ {k}) = Cardinality(T) - 1
    BY <1>0, <2>1, FS_RemoveElement
  <2> QED BY <2>2, <2>4, <2>5, <2>6, <1>0
<1> QED BY <1>1, <1>2

-----------------------------------------------------------------------------
(***************************************************************************)
(* The page the server cuts out of the keys after a cursor.                *)
(***************************************************************************)
\* A usable limit is positive and no larger than MaxLimit.
LEMMA LimitRange ==
    ASSUME NEW limit \in Int
    PROVE  ClampLimit(limit) \in Nat /\ ClampLimit(limit) \in 1..MaxLimit
BY ReportsAssumption DEF ClampLimit

\* The members of S from next on, all of them when next is the empty key.
UpperPart(S, next) == {k \in S : next # EmptyKey => k >= next}

\* A page is the upper part of the keys after its cursor, down to the cursor it
\* hands out, and all of them when it hands out none.
LEMMA PageIsUpperPart ==
    ASSUME NEW S, S \subseteq Nat \ {0}, IsFiniteSet(S), NEW n \in Nat \ {0}, NEW next,
           IsNextCursor(Top(S, n + 1), n, next)
    PROVE  /\ next # EmptyKey => next \in S
           /\ Top(Top(S, n + 1), n) = UpperPart(S, next)
<1> DEFINE F == Top(S, n + 1)
<1>0. /\ F \in SUBSET S /\ F \subseteq Nat /\ IsFiniteSet(F) /\ Cardinality(F) \in Nat
      /\ n \in Nat /\ n + 1 \in Nat /\ S \subseteq Nat
  <2>1. F \in SUBSET S /\ S \subseteq Nat
    BY DEF Top
  <2>2. IsFiniteSet(F)
    <3> HIDE DEF F
    <3> QED BY <2>1, FS_Subset
  <2>3. Cardinality(F) \in Nat
    <3> HIDE DEF F
    <3> QED BY <2>2, FS_CardinalityType
  <2>4. n \in Nat /\ n + 1 \in Nat
    OBVIOUS
  <2> HIDE DEF F
  <2> QED BY <2>1, <2>2, <2>3, <2>4
<1>1. CASE ~ (Cardinality(F) > n)
  <2>1. next = EmptyKey
    BY <1>1 DEF IsNextCursor
  <2>2. Cardinality(F) =< n
    BY <1>1, <1>0
  <2>3. Top(F, n) = S
    BY <2>2, <1>0, TopIsAll
  <2> QED BY <2>1, <2>3 DEF UpperPart
<1>2. CASE Cardinality(F) > n
  <2>1. next \in F /\ Cardinality(Above(F, next)) = n - 1
    BY <1>2 DEF IsNextCursor, Above
  <2>2. next \in S /\ next \in Nat /\ next # EmptyKey
    BY <2>1, <1>0 DEF EmptyKey
  <2>3. next \in Top(F, n)
    BY <2>1 DEF Top, Above
  <2>4. ASSUME NEW k \in S, k >= next PROVE k \in Top(F, n)
    <3> HIDE DEF F
    <3>1. k \in Top(S, n + 1)
      BY <2>4, <2>1, <1>0, TopFromAbove DEF F
    <3> QED BY <3>1, <2>4, <2>3, <1>0, TopFromAbove DEF F
  <2>5. ASSUME NEW k \in Top(F, n) PROVE k \in S /\ k >= next
    <3>1. k \in F /\ k \in S /\ k \in Nat /\ Cardinality(Above(F, k)) < n
      BY <1>0 DEF Top, Above
    <3>2. ASSUME next > k PROVE FALSE
      <4> HIDE DEF F
      <4>1. /\ Cardinality(Above(F, next)) < Cardinality(Above(F, k))
            /\ Cardinality(Above(F, k)) \in Nat
        BY <3>1, <3>2, <2>1, <1>0, FewerAbove
      <4> QED BY <4>1, <3>1, <2>1
    <3> QED BY <3>1, <3>2, <2>2
  <2> QED BY <2>2, <2>4, <2>5 DEF UpperPart
<1> QED BY <1>1, <1>2

\* The keys after a cursor are keys of rows, and finitely many.
LEMMA KeysAfterType ==
    ASSUME NEW d \in Datasets, NEW after, table[d][EmptyKey] = 0
    PROVE  /\ KeysAfter(d, after) \subseteq RowKeys
           /\ KeysAfter(d, after) \subseteq Nat \ {0}
           /\ IsFiniteSet(KeysAfter(d, after))
<1>1. KeysAfter(d, after) \in SUBSET Keys
  BY DEF KeysAfter, RowKeys
<1>2. IsFiniteSet(KeysAfter(d, after))
  BY <1>1, ReportsAssumption, FS_Subset
<1> QED BY <1>1, <1>2, ReportsAssumption DEF RowKeys

\* What a page holds, in terms of the table.
LEMMA PageFacts ==
    ASSUME NEW d \in Datasets, NEW limit \in Int, NEW after \in RowKeys, NEW next \in RowKeys,
           table[d][EmptyKey] = 0,
           IsNextCursor(Fetched(d, limit, after), ClampLimit(limit), next)
    PROVE  LET p == PageOf(d, limit, after, next)
           IN  /\ p.next = next
               /\ p.keys = UpperPart(KeysAfter(d, after), next)
               /\ p.data = [k \in RowKeys |-> IF k \in p.keys THEN table[d][k] ELSE 0]
               /\ next # EmptyKey => next \in KeysAfter(d, after)
               /\ Cardinality(p.keys) =< MaxLimit
<1> DEFINE S == KeysAfter(d, after)
           n == ClampLimit(limit)
<1>1. S \subseteq Nat \ {0} /\ S \subseteq Nat /\ IsFiniteSet(S)
  BY KeysAfterType
<1>2. n \in Nat \ {0} /\ n \in Nat /\ n =< MaxLimit /\ MaxLimit \in Nat /\ n + 1 \in Nat
  BY LimitRange, ReportsAssumption
<1>3. /\ next # EmptyKey => next \in S
      /\ Top(Top(S, n + 1), n) = UpperPart(S, next)
  <2>1. IsNextCursor(Top(S, n + 1), n, next)
    BY DEF Fetched
  <2> HIDE DEF S, n
  <2> QED BY <2>1, <1>1, <1>2, PageIsUpperPart
<1>4. Cardinality(Top(Top(S, n + 1), n)) =< MaxLimit
  <2> DEFINE F == Top(S, n + 1)
  <2> HIDE DEF S, n
  <2>1. F \in SUBSET S
    BY DEF Top
  <2> HIDE DEF F
  <2>2. F \subseteq Nat /\ IsFiniteSet(F)
    BY <2>1, <1>1, FS_Subset
  <2>3. Cardinality(Top(F, n)) \in Nat /\ Cardinality(Top(F, n)) =< n
    BY <2>2, <1>2, TopIsSmall
  <2> QED BY <2>3, <1>2 DEF F
<1> QED BY <1>3, <1>4 DEF PageOf, Fetched

-----------------------------------------------------------------------------
(***************************************************************************)
(* The listing.  The keys a listing is through with are those from its     *)
(* cursor on; a page on its way is what lies between its cursor and the    *)
(* next one.  Writes only ever replace data by newer data.                 *)
(***************************************************************************)
Seen(k) == pc = "done" \/ (cursor # EmptyKey /\ k >= cursor)

StoreInv ==
    \A d \in Datasets :
        /\ table[d][EmptyKey] = 0
        /\ \A k \in RowKeys : table[d][k] =< version

Started ==
    IF pc = "idle"
    THEN cursor = EmptyKey /\ \A k \in RowKeys : got[k] = 0 /\ base[k] = 0
    ELSE /\ want.dataset \in Datasets /\ want.limit \in Limits
         /\ \A k \in RowKeys : base[k] =< table[want.dataset][k]

Collected ==
    \A k \in RowKeys :
        /\ got[k] = 0 \/ (got[k] = 1 /\ Seen(k))
        /\ base[k] # 0 /\ Seen(k) => got[k] = 1 /\ fresh[k] >= base[k]

OnItsWay ==
    pc = "answered" =>
        /\ page.next # EmptyKey /\ cursor # EmptyKey => page.next < cursor
        /\ \A k \in page.keys :
              /\ cursor # EmptyKey => k < cursor
              /\ page.next # EmptyKey => k >= page.next
              /\ page.data[k] >= base[k]
        /\ \A k \in RowKeys :
              /\ base[k] # 0
              /\ cursor # EmptyKey => k < cursor
              /\ page.next # EmptyKey => k >= page.next
              => k \in page.keys

ListInv == ReportsTypeOK /\ ListingTypeOK /\ StoreInv /\ Started /\ Collected /\ OnItsWay

\* Keys are natural numbers.
LEMMA KeyType == RowKeys \subseteq Nat /\ EmptyKey = 0 /\ EmptyKey \in RowKeys
BY ReportsAssumption DEF RowKeys, EmptyKey

\* The blank page is typed.
LEMMA NoPageType ==
    /\ NoPage \in [keys : SUBSET RowKeys, data : [RowKeys -> 0..MaxWrites + 1],
                   next : RowKeys]
    /\ Cardinality(NoPage.keys) =< MaxLimit
<1>1. MaxWrites \in Nat /\ MaxLimit \in Nat
  BY ReportsAssumption
<1>2. Cardinality({}) = 0
  BY FS_EmptySet
<1>3. NoPage.keys = {}
  BY DEF NoPage
<1>4. NoPage \in [keys : SUBSET RowKeys, data : [RowKeys -> 0..MaxWrites + 1],
                  next : RowKeys]
  BY <1>1, KeyType DEF NoPage
<1> QED BY <1>1, <1>2, <1>3, <1>4

\* The invariant holds initially.
LEMMA ListInvInit == Init => ListInv
<1> SUFFICES ASSUME Init PROVE ListInv
  OBVIOUS
<1> USE DEF Init, ReportsInit, ListingInit
<1>0. MaxWrites \in Nat /\ RowKeys \subseteq Nat /\ EmptyKey = 0 /\ EmptyKey \in RowKeys
  BY ReportsAssumption, KeyType
<1>1. ReportsTypeOK
  BY <1>0 DEF ReportsTypeOK
<1>2. ListingTypeOK
  BY <1>0, NoPageType, ListingAssumption DEF ListingTypeOK
<1>3. StoreInv
  BY <1>0, ReportsAssumption DEF StoreInv
<1>4. Started /\ Collected /\ OnItsWay
  BY DEF Started, Collected, OnItsWay, Seen
<1> QED BY <1>1, <1>2, <1>3, <1>4 DEF ListInv

\* A transaction keeps the invariant: it replaces data by newer data.
LEMMA ListInvWrite ==
    ASSUME ListInv, NEW d \in Datasets, NEW batch \in SUBSET RowKeys,
           UpsertReportRows(d, batch), UNCHANGED listingVars
    PROVE  ListInv'
<1> USE DEF ListInv
<1>0. /\ MaxWrites \in Nat /\ version \in Nat /\ version =< MaxWrites
      /\ table \in [Datasets -> [RowKeys -> 0..MaxWrites + 1]]
      /\ EmptyKey \notin batch /\ EmptyKey \in RowKeys /\ version' = version + 1
  BY ReportsAssumption, KeyType DEF ReportsTypeOK, UpsertReportRows, Commit
<1>1. /\ table' \in [Datasets -> [RowKeys -> 0..MaxWrites + 1]]
      /\ \A e \in Datasets, k \in RowKeys :
            table'[e][k] = IF e = d /\ k \in batch THEN version + 1 ELSE table[e][k]
  BY <1>0 DEF UpsertReportRows, Commit
<1>2. \A e \in Datasets, k \in RowKeys :
          table[e][k] \in Nat /\ table[e][k] =< version /\ table[e][k] =< table'[e][k]
  BY <1>0, <1>1 DEF StoreInv
<1>3. ReportsTypeOK'
  BY <1>0, <1>1 DEF ReportsTypeOK
<1>4. ListingTypeOK' /\ Collected' /\ OnItsWay'
  BY DEF listingVars, ListingTypeOK, Collected, OnItsWay, Seen
<1>5. StoreInv'
  BY <1>0, <1>1, <1>2 DEF StoreInv
<1>6. Started'
  <2>1. base \in [RowKeys -> Nat]
    BY <1>0 DEF ListingTypeOK
  <2> QED BY <2>1, <1>1, <1>2, <1>0 DEF Started, listingVars
<1> QED BY <1>3, <1>4, <1>5, <1>6

\* An answer of the server is the part of the table after the cursor.
LEMMA ListInvAnswer ==
    ASSUME ListInv, ServerAnswers, UNCHANGED reportVars
    PROVE  ListInv'
<1> USE DEF ListInv
<1>0. /\ want.dataset \in Datasets /\ want.limit \in Int /\ cursor \in RowKeys
      /\ table[want.dataset][EmptyKey] = 0
      /\ \A k \in RowKeys : base[k] =< table[want.dataset][k]
      /\ pc = "sent" /\ pc' = "answered"
      /\ UNCHANGED <<table, version, want, cursor, got, fresh, base, failures>>
      /\ table \in [Datasets -> [RowKeys -> 0..MaxWrites + 1]]
      /\ base \in [RowKeys -> 0..MaxWrites + 1]
      /\ MaxWrites \in Nat
  BY ReportsAssumption, ListingAssumption
     DEF ServerAnswers, Started, StoreInv, ListingTypeOK, ReportsTypeOK, reportVars
<1>1. PICK next \in RowKeys :
          /\ IsNextCursor(Fetched(want.dataset, want.limit, cursor),
                          ClampLimit(want.limit), next)
          /\ page' = PageOf(want.dataset, want.limit, cursor, next)
  BY DEF ServerAnswers
<1> DEFINE S == KeysAfter(want.dataset, cursor)
<1>2. /\ page'.next = next
      /\ page'.keys = UpperPart(S, next)
      /\ page'.data = [k \in RowKeys |->
                          IF k \in page'.keys THEN table[want.dataset][k] ELSE 0]
      /\ next # EmptyKey => next \in S
      /\ Cardinality(page'.keys) =< MaxLimit
  BY <1>0, <1>1, PageFacts
<1>3. S \subseteq RowKeys
  BY <1>0, KeysAfterType
<1>4. ListingTypeOK'
  <2>1. page'.keys \in SUBSET RowKeys
    BY <1>2, <1>3 DEF UpperPart
  <2>2. page'.data \in [RowKeys -> 0..MaxWrites + 1]
    BY <1>2, <1>0
  <2>3. page' \in [keys : SUBSET RowKeys, data : [RowKeys -> 0..MaxWrites + 1],
                   next : RowKeys]
    BY <2>1, <2>2, <1>1, <1>2 DEF PageOf
  <2> QED BY <2>3, <1>0, <1>2 DEF ListingTypeOK
<1>5. OnItsWay'
  <2>1. \A k \in RowKeys : table[want.dataset][k] \in Nat /\ base[k] \in Nat
    BY <1>0
  <2>2. \A k \in RowKeys : k \in S <=> /\ table[want.dataset][k] # 0
                                       /\ cursor # EmptyKey => k < cursor
    BY DEF KeysAfter
  <2>3. \A k : k \in page'.keys <=> k \in S /\ (next # EmptyKey => k >= next)
    BY <1>2 DEF UpperPart
  <2>4. ASSUME NEW k \in page'.keys
        PROVE  /\ cursor # EmptyKey => k < cursor
               /\ page'.next # EmptyKey => k >= page'.next
               /\ page'.data[k] >= base[k]
    <3> HIDE DEF S
    <3>1. k \in S /\ k \in RowKeys
      BY <2>3, <1>3
    <3>2. page'.data[k] = table[want.dataset][k]
      BY <3>1, <1>2
    <3>3. page'.data[k] >= base[k]
      BY <3>1, <3>2, <2>1, <1>0
    <3> QED BY <3>1, <3>3, <2>2, <2>3, <1>2
  <2>5. ASSUME NEW k \in RowKeys, base[k] # 0,
               cursor # EmptyKey => k < cursor,
               page'.next # EmptyKey => k >= page'.next
        PROVE  k \in page'.keys
    <3>1. table[want.dataset][k] # 0
      BY <2>5, <2>1, <1>0
    <3> HIDE DEF S
    <3> QED BY <3>1, <2>5, <2>2, <2>3, <1>2
  <2>6. next # EmptyKey /\ cursor # EmptyKey => next < cursor
    BY <1>2, <2>2, <1>1
  <2> QED BY <2>4, <2>5, <2>6, <1>2, <1>0 DEF OnItsWay
<1>6. ReportsTypeOK' /\ StoreInv' /\ Started' /\ Collected'
  BY <1>0 DEF ReportsTypeOK, StoreInv, Started, Collected, Seen
<1> QED BY <1>4, <1>5, <1>6

\* A page that is received joins what the listing is through with.
LEMMA ListInvReceive ==
    ASSUME ListInv, ReceivePage, UNCHANGED reportVars
    PROVE  ListInv'
<1> USE DEF ListInv
<1>0. /\ pc = "answered"
      /\ got' = [k \in RowKeys |-> got[k] + IF k \in page.keys THEN 1 ELSE 0]
      /\ fresh' = [k \in RowKeys |-> IF k \in page.keys THEN page.data[k] ELSE fresh[k]]
      /\ cursor' = page.next
      /\ pc' = IF page.next = EmptyKey THEN "done" ELSE "ready"
      /\ page' = NoPage
      /\ UNCHANGED <<table, version, want, base, failures>>
  BY DEF ReceivePage, reportVars
<1>1. /\ MaxWrites \in Nat /\ RowKeys \subseteq Nat /\ EmptyKey = 0
      /\ cursor \in RowKeys /\ page.next \in RowKeys /\ page.keys \subseteq RowKeys
      /\ page.data \in [RowKeys -> 0..MaxWrites + 1]
      /\ got \in [RowKeys -> Nat] /\ fresh \in [RowKeys -> 0..MaxWrites + 1]
      /\ base \in [RowKeys -> 0..MaxWrites + 1]
  BY ReportsAssumption, KeyType DEF ListingTypeOK
<1>2. ListingTypeOK'
  <2>1. got' \in [RowKeys -> Nat] /\ fresh' \in [RowKeys -> 0..MaxWrites + 1]
    BY <1>0, <1>1
  <2>2. cursor' \in RowKeys /\ pc' \in {"done", "ready"}
    BY <1>0, <1>1
  <2> QED BY <2>1, <2>2, <1>0, NoPageType DEF ListingTypeOK
<1>3. ASSUME NEW k \in RowKeys
      PROVE  /\ got'[k] = 0 \/ (got'[k] = 1 /\ Seen(k)')
             /\ base'[k] # 0 /\ Seen(k)' => got'[k] = 1 /\ fresh'[k] >= base'[k]
  <2>0. /\ k \in Nat /\ cursor \in Nat /\ page.next \in Nat
        /\ got[k] \in Nat /\ base[k] \in Nat /\ fresh[k] \in Nat
        /\ base'[k] = base[k]
        /\ ~ Seen(k) <=> (cursor # EmptyKey => k < cursor)
        /\ Seen(k)' <=> (page.next # EmptyKey => k >= page.next)
    <3>1. /\ k \in Nat /\ cursor \in Nat /\ page.next \in Nat
          /\ got[k] \in Nat /\ base[k] \in Nat /\ fresh[k] \in Nat
      <4>1. k \in Nat /\ cursor \in Nat /\ page.next \in Nat
        BY <1>1
      <4>2. got[k] \in Nat
        BY <1>1
      <4>3. \A n \in 0..MaxWrites + 1 : n \in Nat
        BY <1>1
      <4>4. base[k] \in 0..MaxWrites + 1 /\ fresh[k] \in 0..MaxWrites + 1
        BY <1>1
      <4> QED BY <4>1, <4>2, <4>3, <4>4
    <3>2. base'[k] = base[k]
      BY <1>0
    <3>3. ~ Seen(k) <=> (cursor # EmptyKey => k < cursor)
      BY <3>1, <1>0 DEF Seen
    <3>4. CASE page.next = EmptyKey
      BY <3>1, <3>2, <3>3, <3>4, <1>0 DEF Seen
    <3>5. CASE page.next # EmptyKey
      BY <3>1, <3>2, <3>3, <3>5, <1>0 DEF Seen
    <3> QED BY <3>4, <3>5
  <2>1. CASE k \in page.keys
    <3>1. ~ Seen(k) /\ Seen(k)' /\ page.data[k] >= base[k]
      BY <2>0, <2>1, <1>0 DEF OnItsWay
    <3>2. got[k] = 0
      BY <3>1 DEF Collected
    <3>3. got'[k] = 1 /\ fresh'[k] = page.data[k]
      BY <3>2, <2>1, <1>0
    <3> QED BY <3>1, <3>3, <2>0
  <2>2. CASE k \notin page.keys
    <3>1. got'[k] = got[k] /\ fresh'[k] = fresh[k]
      BY <2>2, <2>0, <1>0
    <3>2. Seen(k) => Seen(k)'
      BY <2>0, <1>0 DEF OnItsWay, Seen
    <3>3. base[k] # 0 /\ Seen(k)' => Seen(k)
      BY <2>0, <2>2, <1>0 DEF OnItsWay
    <3>4. /\ got[k] = 0 \/ (got[k] = 1 /\ Seen(k))
          /\ base[k] # 0 /\ Seen(k) => got[k] = 1 /\ fresh[k] >= base[k]
      BY DEF Collected
    <3> QED BY <3>1, <3>2, <3>3, <3>4, <2>0
  <2> QED BY <2>1, <2>2
<1>4. Collected'
  BY <1>3 DEF Collected
<1>5. ReportsTypeOK' /\ StoreInv' /\ Started' /\ OnItsWay'
  BY <1>0 DEF ReportsTypeOK, StoreInv, Started, OnItsWay
<1> QED BY <1>2, <1>4, <1>5

\* Every step of the caller keeps the invariant.
LEMMA ListInvStep ==
    ASSUME ListInv, ListingNext, UNCHANGED reportVars
    PROVE  ListInv'
<1> USE DEF ListInv
<1>1. ASSUME NEW d \in Datasets, NEW limit \in Limits, StartListing(d, limit)
      PROVE  ListInv'
  <2>0. /\ pc = "idle" /\ pc' = "ready" /\ base' = table[d]
        /\ want' = [dataset |-> d, limit |-> limit]
        /\ UNCHANGED <<table, version, cursor, page, got, fresh, failures>>
    BY <1>1 DEF StartListing, reportVars
  <2>1. table[d] \in [RowKeys -> 0..MaxWrites + 1] /\ MaxWrites \in Nat
    BY ReportsAssumption DEF ReportsTypeOK
  <2>2. ListingTypeOK'
    BY <2>0, <2>1 DEF ListingTypeOK
  <2>3. Started'
    BY <2>0, <2>1 DEF Started
  <2>4. Collected'
    BY <2>0 DEF Collected, Started, Seen
  <2>5. ReportsTypeOK' /\ StoreInv' /\ OnItsWay'
    BY <2>0 DEF ReportsTypeOK, StoreInv, OnItsWay
  <2> QED BY <2>2, <2>3, <2>4, <2>5
<1>2. CASE CallReportRowsPage
  BY <1>2 DEF CallReportRowsPage, reportVars, ReportsTypeOK, ListingTypeOK, StoreInv,
              Started, Collected, OnItsWay, Seen
<1>3. CASE ServerAnswers
  BY <1>3, ListInvAnswer
<1>4. CASE CallFails \/ BodyTooLarge
  <2>0. /\ pc \in {"sent", "answered"} /\ pc' \in {"ready", "undecodable"} /\ page' = NoPage
        /\ failures' \in 0..MaxFailures
        /\ UNCHANGED <<table, version, want, cursor, got, fresh, base>>
    BY <1>4, ListingAssumption DEF CallFails, BodyTooLarge, reportVars, ListingTypeOK
  <2>1. ListingTypeOK'
    BY <2>0, NoPageType DEF ListingTypeOK
  <2>2. Started' /\ Collected' /\ OnItsWay'
    BY <2>0 DEF Started, Collected, OnItsWay, Seen
  <2>3. ReportsTypeOK' /\ StoreInv'
    BY <2>0 DEF ReportsTypeOK, StoreInv
  <2> QED BY <2>1, <2>2, <2>3
<1>5. CASE ReceivePage
  BY <1>5, ListInvReceive
<1> QED BY <1>1, <1>2, <1>3, <1>4, <1>5 DEF ListingNext

\* Every step of the system keeps the invariant.
LEMMA ListInvNext == ListInv /\ [Next]_vars => ListInv'
<1> SUFFICES ASSUME ListInv, [Next]_vars PROVE ListInv'
  OBVIOUS
<1>1. CASE UNCHANGED <<reportVars, listingVars>>
  BY <1>1 DEF ListInv, reportVars, listingVars, ReportsTypeOK, ListingTypeOK, StoreInv,
              Started, Collected, OnItsWay, Seen
<1>2. CASE SyncRunWrites /\ UNCHANGED listingVars
  BY <1>2, ListInvWrite DEF SyncRunWrites
<1>3. ASSUME NEW d \in Datasets, UpsertReportRows(d, Keys), UNCHANGED listingVars
      PROVE  ListInv'
  <2>1. Keys \in SUBSET RowKeys
    BY DEF RowKeys
  <2> QED BY <1>3, <2>1, ListInvWrite
<1>4. CASE ListingNext /\ UNCHANGED reportVars
  BY <1>4, ListInvStep
<1> QED BY <1>1, <1>2, <1>3, <1>4 DEF Next, vars, reportVars

\* A listing returns no row twice and, when it ended, every row that was there
\* when it started, at least as new, for every limit, page size and number of
\* writes and failures (ListReportRowsPage, Client.ReportRowsPage).
THEOREM ListingsAreExact == Spec => []ListingIsExact
<1>1. ListInv => ListingIsExact
  BY KeyType DEF ListInv, Collected, Seen, ListingIsExact
<1> QED BY <1>1, ListInvInit, ListInvNext, PTL DEF Spec

\* A page is the last one or moves the cursor down, past all rows it brought.
Descends ==
    ReceivePage =>
        \/ pc' = "done"
        \/ /\ cursor' \in Keys /\ (cursor # EmptyKey => cursor' < cursor)
           /\ \A k \in page.keys : k >= cursor'

\* No listing walks in circles: every page that is not the last leaves less below
\* its cursor than the page before, whatever is written meanwhile and however
\* often a call is repeated (store.go, ListReportRowsPage; client.go,
\* ReportRowsPage).  With finitely many keys this bounds the calls of a listing.
THEOREM CursorsGoDown == Spec => [][Descends]_vars
<1>1. ListInv /\ [Next]_vars => [Descends]_vars
  <2> SUFFICES ASSUME ListInv, ReceivePage, pc' # "done"
               PROVE  /\ cursor' \in Keys /\ (cursor # EmptyKey => cursor' < cursor)
                      /\ \A k \in page.keys : k >= cursor'
    BY DEF Descends
  <2>1. pc = "answered" /\ cursor' = page.next /\ page.next # EmptyKey
    BY DEF ReceivePage
  <2>2. page.next \in RowKeys
    BY DEF ListInv, ListingTypeOK
  <2> QED BY <2>1, <2>2 DEF ListInv, OnItsWay, RowKeys
<1> QED BY <1>1, ListInvInit, ListInvNext, PTL DEF Spec

-----------------------------------------------------------------------------
(***************************************************************************)
(* The console.  The load that is wanted is of the selected dataset, and   *)
(* its answer is read after the runs that are shown.                       *)
(***************************************************************************)
NoneActive == \A c \in Calls : ~loads[c].active

Wanted ==
    \A c \in Calls :
        up /\ loads[c].active => /\ loads[c].state # "none"
                                 /\ loads[c].of = selected
                                 /\ loads[c].state = "answered" => loads[c].at >= runs

NotAhead == runs =< version /\ \A c \in Calls : refreshes[c].runs =< version

Shown ==
    up /\ runs # 0 =>
        /\ selected \in datasets
        /\ ~error /\ NoneActive => rows.of = selected /\ rows.at >= runs

ScreenInv == ReportsTypeOK /\ ConsoleTypeOK /\ Wanted /\ NotAhead /\ Shown

DatasetLists == (SUBSET Datasets) \cup {Null}

RefreshRecords == [state : {"none", "sent"}, runs : Versions, datasets : DatasetLists]

LoadRecords == [state : {"none", "sent", "answered"}, of : Datasets \cup {None},
                at : Versions, active : BOOLEAN]

\* The blank calls are typed.
LEMMA BlankTypes ==
    /\ NoRefresh \in RefreshRecords /\ NoRefresh.runs = 0
    /\ NoLoad \in LoadRecords /\ NoLoad.active = FALSE /\ NoLoad.state = "none"
    /\ NoReportRows \in [of : Datasets \cup {None}, at : Versions]
    /\ 0 \in Versions /\ Versions \subseteq Nat
BY ReportsAssumption
   DEF NoRefresh, NoLoad, NoReportRows, RefreshRecords, LoadRecords, DatasetLists, Versions

\* The invariant holds initially.
LEMMA ScreenInvInit == Init => ScreenInv
<1> SUFFICES ASSUME Init PROVE ScreenInv
  OBVIOUS
<1>1. ReportsTypeOK
  BY ListInvInit DEF ListInv
<1>2. ConsoleTypeOK
  <2>1. failed \in 0..MaxFailedCalls
    BY ConsoleAssumption DEF Init, ConsoleInit
  <2> QED BY <2>1, BlankTypes
          DEF Init, ConsoleInit, ConsoleTypeOK, RefreshRecords, LoadRecords, DatasetLists
<1>3. Wanted /\ NotAhead /\ Shown
  BY BlankTypes DEF Init, ConsoleInit, ReportsInit, Wanted, NotAhead, Shown
<1> QED BY <1>1, <1>2, <1>3 DEF ScreenInv

\* The types of the variables of the console, one by one.
LEMMA ConsoleTypes ==
    ConsoleTypeOK <=> /\ up \in BOOLEAN /\ runs \in Versions
                      /\ datasets \in DatasetLists
                      /\ selected \in Datasets \cup {None}
                      /\ rows \in [of : Datasets \cup {None}, at : Versions]
                      /\ error \in BOOLEAN
                      /\ refreshes \in [Calls -> RefreshRecords]
                      /\ loads \in [Calls -> LoadRecords]
                      /\ failed \in 0..MaxFailedCalls
BY DEF ConsoleTypeOK, RefreshRecords, LoadRecords, DatasetLists

\* A call that is counted as failed stays within the bound.
LEMMA FailedType ==
    ASSUME failed \in 0..MaxFailedCalls, Fails
    PROVE  failed' \in 0..MaxFailedCalls
BY ConsoleAssumption DEF Fails

\* A new load is the only one that is wanted.
LEMMA StartLoadFacts ==
    ASSUME NEW d \in Datasets, loads \in [Calls -> LoadRecords], StartLoad(d)
    PROVE  /\ loads' \in [Calls -> LoadRecords]
           /\ \A c \in Calls : loads'[c].active => /\ loads'[c].state = "sent"
                                                   /\ loads'[c].of = d
           /\ \E c \in Calls : loads'[c].active
<1>1. PICK c \in Calls :
          loads' = [e \in Calls |->
                        IF e = c
                        THEN [state |-> "sent", of |-> d, at |-> 0, active |-> TRUE]
                        ELSE [loads[e] EXCEPT !.active = FALSE]]
  BY DEF StartLoad
<1>2. loads'[c] = [state |-> "sent", of |-> d, at |-> 0, active |-> TRUE]
  BY <1>1
<1>3. loads'[c] \in LoadRecords
  BY <1>2, BlankTypes DEF LoadRecords
<1>4. ASSUME NEW e \in Calls, e # c
      PROVE  loads'[e] \in LoadRecords /\ loads'[e].active = FALSE
  <2>1. loads'[e] = [loads[e] EXCEPT !.active = FALSE]
    BY <1>1, <1>4
  <2>2. loads[e] \in LoadRecords
    OBVIOUS
  <2> QED BY <2>1, <2>2 DEF LoadRecords
<1>5. loads' \in [Calls -> LoadRecords]
  <2>1. \A e \in Calls : loads'[e] \in LoadRecords
    BY <1>3, <1>4
  <2>2. loads' = [e \in Calls |-> loads'[e]]
    BY <1>1
  <2> QED BY <2>1, <2>2
<1>6. loads'[c].state = "sent" /\ loads'[c].of = d /\ loads'[c].active
  BY <1>2
<1>7. \A e \in Calls : e # c => ~ loads'[e].active
  BY <1>4
<1>8. \A e \in Calls : loads'[e].active => loads'[e].state = "sent" /\ loads'[e].of = d
  BY <1>6, <1>7
<1> QED BY <1>5, <1>6, <1>8

\* The selection after a refresh is one of the datasets it brought.
LEMMA SelectionOffered ==
    ASSUME NEW ds \in SUBSET Datasets, ds # {}
    PROVE  NextSelection(ds) \in ds
<1>1. CASE selected \in ds
  BY <1>1 DEF NextSelection
<1>2. CASE selected \notin ds
  <2>1. ds \subseteq Nat
    BY ReportsAssumption
  <2>2. \E d \in ds : \A e \in ds : d =< e
    BY <2>1, LeastNatural
  <2>3. (CHOOSE d \in ds : \A e \in ds : d =< e) \in ds
    BY <2>2, Zenon
  <2> QED BY <1>2, <2>3 DEF NextSelection
<1> QED BY <1>1, <1>2

\* Every callback and every answer of the server keeps the invariant.
LEMMA ScreenInvStep ==
    ASSUME ScreenInv, ConsoleNext, UNCHANGED reportVars
    PROVE  ScreenInv'
<1>0. /\ up \in BOOLEAN /\ runs \in Versions /\ datasets \in DatasetLists
      /\ selected \in Datasets \cup {None}
      /\ rows \in [of : Datasets \cup {None}, at : Versions]
      /\ error \in BOOLEAN
      /\ refreshes \in [Calls -> RefreshRecords] /\ loads \in [Calls -> LoadRecords]
      /\ failed \in 0..MaxFailedCalls
      /\ UNCHANGED <<table, version>> /\ ReportsTypeOK'
      /\ version \in Versions /\ Versions \subseteq Nat
  BY ConsoleTypes, ReportsAssumption DEF ScreenInv, reportVars, ReportsTypeOK, Versions
<1>1. Wanted /\ NotAhead /\ Shown
  BY DEF ScreenInv
<1>2. ASSUME NEW c \in Calls, StartRefresh(c) PROVE ScreenInv'
  <2>0. /\ refreshes' = [refreshes EXCEPT ![c].state = "sent"]
        /\ UNCHANGED <<up, runs, datasets, selected, rows, error, loads, failed>>
    BY <1>2 DEF StartRefresh
  <2>1. /\ refreshes' \in [Calls -> RefreshRecords]
        /\ \A e \in Calls : refreshes'[e].runs = refreshes[e].runs
    BY <2>0, <1>0 DEF RefreshRecords
  <2>2. NotAhead'
    BY <2>0, <2>1, <1>0, <1>1 DEF NotAhead
  <2>3. Wanted' /\ Shown'
    BY <2>0, <1>1 DEF Wanted, Shown, NoneActive
  <2>4. ConsoleTypeOK'
    BY <2>0, <2>1, <1>0 DEF ConsoleTypeOK, RefreshRecords, LoadRecords, DatasetLists
  <2> QED BY <2>2, <2>3, <2>4, <1>0 DEF ScreenInv
<1>3. ASSUME NEW c \in Calls, ServerListsRuns(c) \/ ServerListsDatasets(c)
      PROVE  ScreenInv'
  <2>0. UNCHANGED <<up, runs, datasets, selected, rows, error, loads, failed>>
    BY <1>3 DEF ServerListsRuns, ServerListsDatasets
  <2>1. DatasetsReply \in DatasetLists
    BY DEF DatasetsReply, DatasetLists, ListReportDatasets
  <2>2. /\ refreshes' \in [Calls -> RefreshRecords]
        /\ \A e \in Calls : refreshes'[e].runs \in {refreshes[e].runs, version}
    BY <1>3, <2>1, <1>0 DEF ServerListsRuns, ServerListsDatasets, RefreshRecords
  <2>3. NotAhead'
    BY <2>0, <2>2, <1>0, <1>1 DEF NotAhead
  <2>4. Wanted' /\ Shown'
    BY <2>0, <1>1 DEF Wanted, Shown, NoneActive
  <2>5. ConsoleTypeOK'
    BY <2>0, <2>2, <1>0 DEF ConsoleTypeOK, RefreshRecords, LoadRecords, DatasetLists
  <2> QED BY <2>3, <2>4, <2>5, <1>0 DEF ScreenInv
<1>4. ASSUME NEW c \in Calls, RefreshApplies(c) PROVE ScreenInv'
  <2>0. /\ refreshes' = [refreshes EXCEPT ![c] = NoRefresh]
        /\ runs' = refreshes[c].runs /\ datasets' = refreshes[c].datasets
        /\ refreshes[c].datasets # {}
        /\ error' = FALSE /\ rows' = rows /\ failed' = failed
    BY <1>4 DEF RefreshApplies
  <2>1. /\ refreshes' \in [Calls -> RefreshRecords]
        /\ \A e \in Calls : refreshes'[e].runs \in {refreshes[e].runs, 0}
        /\ runs' \in Versions /\ datasets' \in DatasetLists
    BY <2>0, <1>0, BlankTypes DEF RefreshRecords
  <2>2. NotAhead'
    BY <2>0, <2>1, <1>0, <1>1 DEF NotAhead
  <2>3. CASE datasets' = Null
    <3>0. up' = FALSE /\ UNCHANGED <<selected, loads>>
      BY <1>4, <2>3 DEF RefreshApplies
    <3>1. Wanted' /\ Shown'
      BY <3>0 DEF Wanted, Shown
    <3>2. ConsoleTypeOK'
      BY <2>0, <2>1, <3>0, <1>0
         DEF ConsoleTypeOK, RefreshRecords, LoadRecords, DatasetLists
    <3> QED BY <2>2, <3>1, <3>2, <1>0 DEF ScreenInv
  <2>4. CASE datasets' # Null
    <3>0. /\ selected' = NextSelection(datasets') /\ StartLoad(selected') /\ up' = up
      BY <1>4, <2>4 DEF RefreshApplies
    <3>1. datasets' \in SUBSET Datasets /\ datasets' # {}
      BY <2>0, <2>1, <2>4 DEF DatasetLists
    <3>2. selected' \in datasets' /\ selected' \in Datasets
      BY <3>0, <3>1, SelectionOffered
    <3>3. /\ loads' \in [Calls -> LoadRecords]
          /\ \A e \in Calls : loads'[e].active => /\ loads'[e].state = "sent"
                                                  /\ loads'[e].of = selected'
          /\ \E e \in Calls : loads'[e].active
      BY <3>0, <3>2, <1>0, StartLoadFacts
    <3>4. Wanted' /\ Shown'
      BY <3>2, <3>3 DEF Wanted, Shown, NoneActive
    <3>5. ConsoleTypeOK'
      BY <2>0, <2>1, <3>0, <3>2, <3>3, <1>0
         DEF ConsoleTypeOK, RefreshRecords, LoadRecords, DatasetLists
    <3> QED BY <2>2, <3>4, <3>5, <1>0 DEF ScreenInv
  <2> QED BY <2>3, <2>4
<1>5. ASSUME NEW c \in Calls, RefreshFails(c) PROVE ScreenInv'
  <2>0. /\ refreshes' = [refreshes EXCEPT ![c] = NoRefresh] /\ error' = TRUE
        /\ UNCHANGED <<up, runs, datasets, selected, rows, loads>>
        /\ failed' \in 0..MaxFailedCalls
    BY <1>5, <1>0, FailedType DEF RefreshFails
  <2>1. /\ refreshes' \in [Calls -> RefreshRecords]
        /\ \A e \in Calls : refreshes'[e].runs \in {refreshes[e].runs, 0}
    BY <2>0, <1>0, BlankTypes DEF RefreshRecords
  <2>2. NotAhead'
    BY <2>0, <2>1, <1>0, <1>1 DEF NotAhead
  <2>3. Wanted' /\ Shown'
    BY <2>0, <1>1 DEF Wanted, Shown
  <2>4. ConsoleTypeOK'
    BY <2>0, <2>1, <1>0 DEF ConsoleTypeOK, RefreshRecords, LoadRecords, DatasetLists
  <2> QED BY <2>2, <2>3, <2>4, <1>0 DEF ScreenInv
<1>6. CASE TriggerSyncFails
  <2>0. /\ error' = TRUE /\ failed' \in 0..MaxFailedCalls
        /\ UNCHANGED <<up, runs, datasets, selected, rows, refreshes, loads>>
    BY <1>6, <1>0, FailedType DEF TriggerSyncFails
  <2>1. Wanted' /\ Shown' /\ NotAhead'
    BY <2>0, <1>0, <1>1 DEF Wanted, Shown, NotAhead
  <2>2. ConsoleTypeOK'
    BY <2>0, <1>0 DEF ConsoleTypeOK, RefreshRecords, LoadRecords, DatasetLists
  <2> QED BY <2>1, <2>2, <1>0 DEF ScreenInv
<1>7. ASSUME NEW d \in Datasets, SelectDataset(d) PROVE ScreenInv'
  <2>0. /\ d \in datasets /\ selected' = d /\ StartLoad(d)
        /\ UNCHANGED <<up, runs, datasets, rows, error, refreshes, failed>>
    BY <1>7 DEF SelectDataset
  <2>1. /\ loads' \in [Calls -> LoadRecords]
        /\ \A e \in Calls : loads'[e].active => /\ loads'[e].state = "sent"
                                                /\ loads'[e].of = d
        /\ \E e \in Calls : loads'[e].active
    BY <2>0, <1>0, StartLoadFacts
  <2>2. Wanted' /\ Shown' /\ NotAhead'
    BY <2>0, <2>1, <1>0, <1>1 DEF Wanted, Shown, NoneActive, NotAhead
  <2>3. ConsoleTypeOK'
    BY <2>0, <2>1, <1>0 DEF ConsoleTypeOK, RefreshRecords, LoadRecords, DatasetLists
  <2> QED BY <2>2, <2>3, <1>0 DEF ScreenInv
<1>8. ASSUME NEW c \in Calls, ServerListsRows(c) PROVE ScreenInv'
  <2>0. /\ loads[c].state = "sent"
        /\ loads' = [loads EXCEPT ![c].state = "answered", ![c].at = version]
        /\ UNCHANGED <<up, runs, datasets, selected, rows, error, refreshes, failed>>
    BY <1>8 DEF ServerListsRows
  <2>1. /\ loads' \in [Calls -> LoadRecords]
        /\ \A e \in Calls : loads'[e].active = loads[e].active /\ loads'[e].of = loads[e].of
        /\ \A e \in Calls : e # c => loads'[e] = loads[e]
        /\ loads'[c].state = "answered" /\ loads'[c].at = version
    BY <2>0, <1>0 DEF LoadRecords
  <2>2. version >= runs
    BY <1>0, <1>1 DEF NotAhead
  <2>3. Wanted' /\ Shown' /\ NotAhead'
    BY <2>0, <2>1, <2>2, <1>0, <1>1 DEF Wanted, Shown, NoneActive, NotAhead
  <2>4. ConsoleTypeOK'
    BY <2>0, <2>1, <1>0 DEF ConsoleTypeOK, RefreshRecords, LoadRecords, DatasetLists
  <2> QED BY <2>3, <2>4, <1>0 DEF ScreenInv
<1>9. ASSUME NEW c \in Calls, LoadArrives(c) \/ LoadFails(c) PROVE ScreenInv'
  <2>0. /\ loads' = [loads EXCEPT ![c] = NoLoad]
        /\ UNCHANGED <<up, runs, datasets, selected, refreshes>>
    BY <1>9 DEF LoadArrives, LoadFails
  <2>1. /\ loads' \in [Calls -> LoadRecords]
        /\ loads'[c].active = FALSE
        /\ \A e \in Calls : e # c => loads'[e] = loads[e]
    BY <2>0, <1>0, BlankTypes
  <2>2. Wanted' /\ NotAhead'
    BY <2>0, <2>1, <1>0, <1>1 DEF Wanted, NotAhead
  <2>3. /\ rows' \in [of : Datasets \cup {None}, at : Versions]
        /\ error' \in BOOLEAN /\ failed' \in 0..MaxFailedCalls
    <3>1. loads[c] \in LoadRecords
      BY <1>0
    <3> QED BY <3>1, <1>9, <1>0, FailedType DEF LoadArrives, LoadFails, LoadRecords
  <2>4. Shown'
    <3>1. CASE loads[c].active
      <4>1. error' \/ (rows'.of = selected' /\ rows'.at >= runs')
        <5>1. up
          BY <1>9 DEF LoadArrives, LoadFails
        <5>2. /\ loads[c].of = selected
              /\ loads[c].state = "answered" => loads[c].at >= runs
          BY <5>1, <3>1, <1>1 DEF Wanted
        <5>3. CASE LoadArrives(c)
          <6>1. loads[c].state = "answered"
            BY <5>3 DEF LoadArrives
          <6>2. rows' = [of |-> loads[c].of, at |-> loads[c].at]
            BY <5>3, <3>1 DEF LoadArrives
          <6> QED BY <6>1, <6>2, <5>2, <2>0
        <5>4. CASE LoadFails(c)
          BY <5>4, <3>1 DEF LoadFails
        <5> QED BY <5>3, <5>4, <1>9
      <4> QED BY <4>1, <2>0, <1>1 DEF Shown
    <3>2. CASE ~ loads[c].active
      <4>1. rows' = rows /\ error' = error
        BY <3>2, <1>9, <1>0 DEF LoadArrives, LoadFails
      <4>2. NoneActive' => NoneActive
        BY <3>2, <2>1 DEF NoneActive
      <4> QED BY <4>1, <4>2, <2>0, <1>1 DEF Shown
    <3> QED BY <3>1, <3>2
  <2>5. ConsoleTypeOK'
    BY <2>0, <2>1, <2>3, <1>0 DEF ConsoleTypeOK, RefreshRecords, LoadRecords, DatasetLists
  <2> QED BY <2>2, <2>4, <2>5, <1>0 DEF ScreenInv
<1> QED BY <1>2, <1>3, <1>4, <1>5, <1>6, <1>7, <1>8, <1>9 DEF ConsoleNext

\* Every step of the system keeps the invariant.
LEMMA ScreenInvNext == ListInv /\ ScreenInv /\ [Next]_vars => ScreenInv'
<1> SUFFICES ASSUME ListInv, ScreenInv, [Next]_vars PROVE ScreenInv'
  OBVIOUS
<1>0. ReportsTypeOK'
  BY ListInvNext DEF ListInv
<1>1. CASE UNCHANGED consoleVars /\ version' \in Nat /\ version' >= version
  <2>1. ConsoleTypeOK' /\ Wanted' /\ Shown'
    BY <1>1 DEF ScreenInv, consoleVars, ConsoleTypeOK, Wanted, Shown, NoneActive
  <2>2. NotAhead'
    <3>1. runs \in Nat /\ version \in Nat /\ \A c \in Calls : refreshes[c].runs \in Nat
      BY ReportsAssumption DEF ScreenInv, ConsoleTypeOK, ReportsTypeOK, Versions
    <3> QED BY <3>1, <1>1 DEF ScreenInv, NotAhead, consoleVars
  <2> QED BY <2>1, <2>2, <1>0 DEF ScreenInv
<1>2. CASE ConsoleNext /\ UNCHANGED reportVars
  BY <1>2, ScreenInvStep
<1>3. version \in Nat
  BY ReportsAssumption DEF ListInv, ReportsTypeOK
<1> QED BY <1>1, <1>2, <1>3
        DEF Next, vars, reportVars, SyncRunWrites, UpsertReportRows, Commit

\* Every variable keeps its type, for every instance.
THEOREM TypeCorrect == Spec => []ReadersTypeOK
<1>1. ListInv /\ ScreenInv => ReadersTypeOK
  BY DEF ListInv, ScreenInv, ReadersTypeOK
<1> QED BY <1>1, ListInvInit, ListInvNext, ScreenInvInit, ScreenInvNext, PTL DEF Spec

\* What a settled console shows fits together, for any number of overlapping
\* refreshes and loads (SeoConsole).
THEOREM ScreensAreConsistent == Spec => []ScreenIsConsistent
<1>1. ScreenInv => ScreenIsConsistent
  BY DEF ScreenInv, Shown, NoneActive, Settled, ScreenIsConsistent
<1> QED BY <1>1, ListInvInit, ListInvNext, ScreenInvInit, ScreenInvNext, PTL DEF Spec

=============================================================================
