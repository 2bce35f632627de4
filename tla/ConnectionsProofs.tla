------------------------- MODULE ConnectionsProofs -------------------------
(***************************************************************************)
(* Proofs about Connections for every set of references, properties and    *)
(* concurrent handlers.                                                    *)
(***************************************************************************)
EXTENDS Connections, TLAPS

Holding == {"validate", "swap", "undo"}         \* new is a reference
Reading == {"test", "configure", "kill", "retire"}  \* prev is a reference

-----------------------------------------------------------------------------
(* All operations, with faults.  What a handler is about to write has been  *)
(* tested as a whole: that is what makes EnabledIsTested inductive.         *)

HandlerInv ==
    \A h \in Handlers :
        /\ handler[h].pc \in Holding => handler[h].new \in Refs
        /\ handler[h].pc \in Reading => handler[h].prev \in Refs
        /\ handler[h].pc \in {"test", "configure"} => handler[h].property \in Properties
        /\ handler[h].pc = "swap" /\ handler[h].property # Nil =>
                <<handler[h].new, handler[h].property>> \in tested
        /\ handler[h].pc = "configure" =>
                <<handler[h].prev, handler[h].property>> \in tested
        /\ handler[h].op = "import" /\ handler[h].pc = "swap" => handler[h].prev = Nil
        /\ handler[h].op = "import" /\ handler[h].pc \in {"put", "validate"} =>
                handler[h].prev = Nil

Inv == TypeOK /\ HandlerInv /\ EnabledIsTested /\ EnabledHasProperty

\* The blank handler is typed.
LEMMA IdleType == Idle \in HandlerRecords /\ Idle.pc = "idle"
BY DEF Idle, HandlerRecords, PCs

\* The invariant holds initially.
LEMMA InvInit == Init => Inv
<1> SUFFICES ASSUME Init PROVE Inv
    OBVIOUS
<1>1. TypeOK
    BY IdleType DEF Init, TypeOK, Disconnected, ConnRecords
<1>2. HandlerInv
    BY IdleType DEF Init, HandlerInv, Holding, Reading
<1>3. EnabledIsTested /\ EnabledHasProperty
    BY DEF Init, Disconnected, EnabledIsTested, EnabledHasProperty
<1>4. QED
    BY <1>1, <1>2, <1>3 DEF Inv

\* A handler that returns leaves the other handlers as they are.
LEMMA ReturnKeeps ==
    ASSUME TypeOK, HandlerInv, NEW h \in Handlers, Return(h), tested \subseteq tested'
    PROVE  handler' \in [Handlers -> HandlerRecords] /\ HandlerInv'
<1>1. handler' \in [Handlers -> HandlerRecords]
    BY IdleType DEF Return, TypeOK
<1>2. handler'[h].pc = "idle" /\ \A g \in Handlers : g # h => handler'[g] = handler[g]
    BY IdleType DEF Return, TypeOK
<1>3. HandlerInv'
    BY <1>2 DEF HandlerInv, Holding, Reading
<1>4. QED
    BY <1>1, <1>3

\* What Goto changes.
LEMMA GotoFields ==
    ASSUME TypeOK, NEW h \in Handlers, NEW pc \in PCs, Goto(h, pc)
    PROVE  /\ handler' \in [Handlers -> HandlerRecords]
           /\ handler'[h].pc = pc /\ handler'[h].op = handler[h].op
           /\ handler'[h].prev = handler[h].prev /\ handler'[h].new = handler[h].new
           /\ handler'[h].property = handler[h].property
           /\ \A g \in Handlers : g # h => handler'[g] = handler[g]
<1>1. [handler[h] EXCEPT !.pc = pc] \in HandlerRecords
    BY DEF TypeOK, HandlerRecords
<1>2. handler' = [handler EXCEPT ![h] = [handler[h] EXCEPT !.pc = pc]]
    BY DEF Goto
<1>3. handler[h] \in HandlerRecords
    BY DEF TypeOK
<1>4. QED
    BY <1>1, <1>2, <1>3 DEF TypeOK, HandlerRecords

\* The read that opens a handler keeps the invariant: what the handler takes
\* along fits the place it goes to.
LEMMA EntersKeeps ==
    ASSUME Inv, NEW h \in Handlers, NEW op \in {"set", "property", "revoke", "import"},
           NEW pc \in {"put", "test", "kill", "clear"}, NEW p \in Properties \cup {Nil},
           Enters(h, op, pc, p),
           pc \in {"test", "kill"} => conn.ref # Nil,
           pc = "test" => p # Nil,
           op = "import" => conn.ref = Nil
    PROVE  Inv'
<1> DEFINE H == [pc |-> pc, op |-> op, prev |-> conn.ref, new |-> Nil, property |-> p]
<1>1. H \in HandlerRecords
    BY DEF Enters, Inv, TypeOK, ConnRecords, HandlerRecords, PCs
<1>2. handler' = [handler EXCEPT ![h] = H] /\ UNCHANGED <<conn, secret, tested, lapses>>
    BY DEF Enters
<1>3. H.pc = pc /\ H.op = op /\ H.prev = conn.ref /\ H.property = p
    OBVIOUS
<1>4. conn.ref \in Refs \cup {Nil}
    BY DEF Inv, TypeOK, ConnRecords
<1> HIDE DEF H
<1>5. handler'[h] = H /\ \A g \in Handlers : g # h => handler'[g] = handler[g]
    BY <1>2 DEF Inv, TypeOK
<1>6. HandlerInv'
    BY <1>2, <1>3, <1>4, <1>5 DEF Inv, HandlerInv, Holding, Reading
<1>7. TypeOK'
    BY <1>1, <1>2 DEF Inv, TypeOK
<1>8. QED
    BY <1>2, <1>6, <1>7 DEF Inv, EnabledIsTested, EnabledHasProperty

\* Every step of a handler keeps the invariant.
LEMMA InvStep ==
    ASSUME Inv, NEW h \in Handlers, Step(h)
    PROVE  Inv'
<1>0. TypeOK /\ HandlerInv /\ EnabledIsTested /\ EnabledHasProperty
    BY DEF Inv
<1>a. handler[h] \in HandlerRecords /\ conn \in ConnRecords
    BY <1>0 DEF TypeOK
<1>1. CASE SetCredential(h)
    <2>1. PICK p \in Properties \cup {Nil} : p = conn.property
        BY <1>a DEF ConnRecords
    <2>2. QED
        BY <1>1, <2>1, EntersKeeps DEF SetCredential
<1>2. CASE RevokeConnection(h)
    <2>1. CASE conn.ref = Nil
        BY <1>2, <2>1, EntersKeeps DEF RevokeConnection
    <2>2. CASE conn.ref # Nil
        BY <1>2, <2>2, EntersKeeps DEF RevokeConnection
    <2>3. QED
        BY <2>1, <2>2
<1>3. ASSUME NEW p \in Properties, SetProperty(h, p) PROVE Inv'
    BY <1>3, EntersKeeps, NilAssumption DEF SetProperty
<1>4. ASSUME NEW p \in Properties \cup {Nil}, ImportConnection(h, p) PROVE Inv'
    BY <1>4, EntersKeeps DEF ImportConnection
<1>5. CASE PutSecret(h)
    <2>1. PICK x \in Refs :
            /\ secret' = [secret EXCEPT ![x] = "live"]
            /\ handler' = [handler EXCEPT ![h].pc = "validate", ![h].new = x]
        BY <1>5 DEF PutSecret
    <2>2. /\ handler' \in [Handlers -> HandlerRecords]
          /\ handler'[h].pc = "validate" /\ handler'[h].new = x
          /\ handler'[h].op = handler[h].op /\ handler'[h].prev = handler[h].prev
          /\ \A g \in Handlers : g # h => handler'[g] = handler[g]
        BY <1>0, <1>a, <2>1 DEF TypeOK, HandlerRecords, PCs
    <2>3. HandlerInv'
        BY <1>0, <1>5, <2>2 DEF PutSecret, HandlerInv, Holding, Reading
    <2>4. TypeOK'
        BY <1>0, <1>5, <2>1, <2>2 DEF PutSecret, TypeOK
    <2>5. QED
        BY <1>0, <1>5, <2>3, <2>4 DEF PutSecret, Inv, EnabledIsTested, EnabledHasProperty
<1>6. CASE ValidateOk(h)
    <2>1. handler[h].new \in Refs
        BY <1>0, <1>6 DEF ValidateOk, HandlerInv, Holding
    <2>2. tested \subseteq tested' /\ tested' \subseteq Refs \X Properties
        BY <1>0, <1>6, <1>a, <2>1 DEF ValidateOk, TypeOK, HandlerRecords
    <2>3. handler[h].property # Nil => <<handler[h].new, handler[h].property>> \in tested'
        BY <1>6 DEF ValidateOk
    <2>4. HandlerInv' /\ TypeOK'
        BY <1>0, <1>6, <2>1, <2>2, <2>3, GotoFields
        DEF ValidateOk, HandlerInv, Holding, Reading, PCs, TypeOK
    <2>5. QED
        BY <1>0, <1>6, <2>2, <2>4
        DEF ValidateOk, Inv, EnabledIsTested, EnabledHasProperty
<1>7. CASE ValidateFails(h)
    <2>1. HandlerInv' /\ TypeOK'
        BY <1>0, <1>7, GotoFields DEF ValidateFails, HandlerInv, Holding, Reading, PCs, TypeOK
    <2>2. QED
        BY <1>0, <1>7, <2>1 DEF ValidateFails, Inv, EnabledIsTested, EnabledHasProperty
<1>8. CASE Swap(h)
    <2>1. handler[h].new \in Refs /\ handler[h].new # Nil
        BY <1>0, <1>8, NilAssumption DEF Swap, HandlerInv, Holding
    <2>2. /\ conn'.ref = handler[h].new /\ conn'.property = handler[h].property
          /\ conn'.enabled = (handler[h].property # Nil) /\ conn' \in ConnRecords
        BY <1>8, <1>a, <2>1 DEF Swap, ConnRecords, HandlerRecords
    <2>3. EnabledIsTested' /\ EnabledHasProperty'
        BY <1>0, <1>8, <2>1, <2>2
        DEF Swap, HandlerInv, EnabledIsTested, EnabledHasProperty
    <2>4. CASE handler[h].prev = Nil
        BY <1>0, <1>8, <2>2, <2>3, <2>4, ReturnKeeps DEF Swap, Inv, TypeOK
    <2>5. CASE handler[h].prev # Nil
        <3>1. Goto(h, "retire") /\ handler[h].prev \in Refs
            BY <1>8, <1>a, <2>5 DEF Swap, HandlerRecords
        <3>2. HandlerInv' /\ TypeOK'
            BY <1>0, <1>8, <2>2, <3>1, GotoFields
            DEF Swap, HandlerInv, Holding, Reading, PCs, TypeOK
        <3>3. QED
            BY <2>3, <3>2 DEF Inv
    <2>6. QED
        BY <2>4, <2>5
<1>9. CASE SwapFails(h)
    <2>1. HandlerInv' /\ TypeOK'
        BY <1>0, <1>9, GotoFields DEF SwapFails, HandlerInv, Holding, Reading, PCs, TypeOK
    <2>2. QED
        BY <1>0, <1>9, <2>1 DEF SwapFails, Inv, EnabledIsTested, EnabledHasProperty
<1>10. CASE Undo(h) \/ Retire(h)
    <2>1. Return(h) /\ UNCHANGED <<conn, tested, lapses>>
        BY <1>10 DEF Undo, Retire
    <2>2. secret' \in [Refs -> {"absent", "live", "revoked"}]
        BY <1>0, <1>10 DEF Undo, Retire, TypeOK
    <2>3. QED
        BY <1>0, <2>1, <2>2, ReturnKeeps DEF Inv, TypeOK, EnabledIsTested, EnabledHasProperty
<1>11. CASE TestProperty(h)
    <2>1. handler[h].prev \in Refs /\ handler[h].property \in Properties
        BY <1>0, <1>11 DEF TestProperty, HandlerInv, Reading
    <2>2. /\ tested \subseteq tested' /\ tested' \subseteq Refs \X Properties
          /\ <<handler[h].prev, handler[h].property>> \in tested'
        BY <1>0, <1>11, <2>1 DEF TestProperty, TypeOK
    <2>3. HandlerInv' /\ TypeOK'
        BY <1>0, <1>11, <2>1, <2>2, GotoFields
        DEF TestProperty, HandlerInv, Holding, Reading, PCs, TypeOK
    <2>4. QED
        BY <1>0, <1>11, <2>2, <2>3
        DEF TestProperty, Inv, EnabledIsTested, EnabledHasProperty
<1>12. CASE ConfigureProperty(h)
    <2>1. handler[h].prev \in Refs /\ handler[h].property \in Properties
          /\ <<handler[h].prev, handler[h].property>> \in tested
        BY <1>0, <1>12 DEF ConfigureProperty, HandlerInv, Reading
    <2>2. /\ conn'.ref = handler[h].prev /\ conn'.property = handler[h].property
          /\ conn'.enabled = TRUE /\ conn' \in ConnRecords
        BY <1>12, <2>1 DEF ConfigureProperty, ConnRecords
    <2>3. EnabledIsTested' /\ EnabledHasProperty'
        BY <1>12, <2>1, <2>2, NilAssumption
        DEF ConfigureProperty, EnabledIsTested, EnabledHasProperty
    <2>4. QED
        BY <1>0, <1>12, <2>2, <2>3, ReturnKeeps DEF ConfigureProperty, Notes, Inv, TypeOK
<1>13. CASE KillSecret(h)
    <2>1. Goto(h, "clear") /\ "clear" \in PCs /\ UNCHANGED <<conn, tested, lapses>>
        BY <1>13 DEF KillSecret, PCs
    <2>2. HandlerInv'
        BY <1>0, <2>1, GotoFields DEF HandlerInv, Holding, Reading
    <2>3. secret' \in [Refs -> {"absent", "live", "revoked"}]
        BY <1>0, <1>13 DEF KillSecret, TypeOK
    <2>4. TypeOK'
        BY <1>0, <2>1, <2>3, GotoFields DEF TypeOK
    <2>5. QED
        BY <1>0, <1>13, <2>2, <2>4 DEF KillSecret, Inv, EnabledIsTested, EnabledHasProperty
<1>14. CASE ClearConnection(h)
    <2>1. conn' \in ConnRecords /\ EnabledIsTested' /\ EnabledHasProperty'
        BY <1>14
        DEF ClearConnection, Disconnected, ConnRecords, EnabledIsTested, EnabledHasProperty
    <2>2. QED
        BY <1>0, <1>14, <2>1, ReturnKeeps DEF ClearConnection, Notes, Inv, TypeOK
<1>15. CASE Fails(h) \/ TestPropertyFails(h)
    BY <1>0, <1>15, ReturnKeeps
    DEF Fails, Notes, TestPropertyFails, Inv, TypeOK, EnabledIsTested, EnabledHasProperty
<1>16. QED
    BY <1>1, <1>2, <1>3, <1>4, <1>5, <1>6, <1>7, <1>8, <1>9, <1>10, <1>11, <1>12, <1>13,
       <1>14, <1>15 DEF Step

\* The invariant is inductive.
LEMMA InvNext == Inv /\ [Next]_vars => Inv'
<1> SUFFICES ASSUME Inv, [Next]_vars PROVE Inv'
    OBVIOUS
<1>1. CASE \E h \in Handlers : Step(h)
    BY <1>1, InvStep
<1>2. CASE Crash
    <2>1. handler' \in [Handlers -> HandlerRecords] /\ HandlerInv'
        BY <1>2, IdleType DEF Crash, HandlerInv, Holding, Reading
    <2>2. QED
        BY <1>2, <2>1 DEF Crash, Notes, Inv, TypeOK, EnabledIsTested, EnabledHasProperty
<1>3. CASE UNCHANGED vars
    BY <1>3 DEF vars, Inv, TypeOK, HandlerInv, EnabledIsTested, EnabledHasProperty
<1>4. QED
    BY <1>1, <1>2, <1>3 DEF Next

\* The invariant holds in every reachable state.
THEOREM Invariance == Spec => []Inv
BY InvInit, InvNext, PTL DEF Spec

\* Type correctness.
THEOREM TypeCorrect == Spec => []TypeOK
BY Invariance, PTL DEF Inv

\* Only tested pairs of credential and property are ever enabled.
THEOREM OnlyTestedPairsAreEnabled == Spec => []EnabledIsTested
BY Invariance, PTL DEF Inv

\* An enabled connection is a complete one.
THEOREM EnabledConnectionsAreComplete == Spec => []EnabledHasProperty
BY Invariance, PTL DEF Inv

\* A step of one handler changes no other handler.
LEMMA StepIsLocal ==
    ASSUME TypeOK, NEW h \in Handlers, Step(h)
    PROVE  \A g \in Handlers : g # h => handler'[g] = handler[g]
BY DEF Step, SetCredential, RevokeConnection, SetProperty, ImportConnection, Enters,
    PutSecret, ValidateOk, ValidateFails, Swap, SwapFails, Undo, Retire, TestProperty,
    TestPropertyFails, ConfigureProperty, KillSecret, ClearConnection, Fails, Goto, Return,
    TypeOK

\* A handler about to swap either swaps, which needs the reference it read, or
\* leaves the row alone.
LEMMA SwapOrKeep ==
    ASSUME NEW h \in Handlers, Step(h), handler[h].pc = "swap"
    PROVE  conn.ref = handler[h].prev \/ conn' = conn
BY DEF Step, SetCredential, RevokeConnection, SetProperty, ImportConnection, Enters,
    PutSecret, ValidateOk, ValidateFails, Swap, SwapFails, Undo, Retire, TestProperty,
    TestPropertyFails, ConfigureProperty, KillSecret, ClearConnection, Fails

\* An import never replaces a credential.
THEOREM ImportsNeverReplace == Spec => ImportNeverReplaces
<1> DEFINE Keeps == \A h \in Handlers :
                handler[h].op = "import" /\ handler[h].pc = "swap" /\ conn'.ref # conn.ref
                    /\ handler'[h] # handler[h] => conn.ref = Nil
<1>1. ASSUME Inv, Next PROVE Keeps
    <2> SUFFICES ASSUME NEW h \in Handlers, handler[h].op = "import",
                        handler[h].pc = "swap", conn'.ref # conn.ref,
                        handler'[h] # handler[h]
                 PROVE  conn.ref = Nil
        OBVIOUS
    <2>1. handler[h].prev = Nil
        BY <1>1 DEF Inv, HandlerInv
    <2>2. CASE Step(h)
        BY <2>1, <2>2, SwapOrKeep
    <2>3. CASE \E g \in Handlers : g # h /\ Step(g)
        BY <1>1, <2>3, StepIsLocal DEF Inv
    <2>4. CASE Crash
        BY <2>4 DEF Crash
    <2>5. QED
        BY <1>1, <2>2, <2>3, <2>4 DEF Next
<1>2. Inv /\ [Next]_vars => [Keeps]_vars
    BY <1>1
<1>3. QED
    BY <1>2, Invariance, PTL DEF Spec, ImportNeverReplaces

-----------------------------------------------------------------------------
(* Who owns which secret.  As long as no handler overwrote a row it had not *)
(* read and none was cut off, a new secret belongs to the handler that put  *)
(* it, and a reference that was replaced never returns to the row.          *)

Owned ==
    /\ \A h \in Handlers : handler[h].pc \in Holding =>
            secret[handler[h].new] = "live" /\ handler[h].new # conn.ref
    /\ \A h, g \in Handlers : handler[h].pc \in Holding /\ handler[g].pc \in Holding
            /\ handler[h].new = handler[g].new => h = g
    /\ \A h, g \in Handlers : handler[h].pc # "idle" /\ handler[g].pc \in Holding =>
            handler[h].prev # handler[g].new
    /\ \A h \in Handlers : handler[h].pc # "idle" /\ handler[h].prev # Nil =>
            secret[handler[h].prev] # "absent"
    /\ \A h \in Handlers : handler[h].pc = "retire" => handler[h].prev # conn.ref
    /\ \A h \in Handlers : handler[h].pc = "clear" /\ handler[h].prev # Nil =>
            secret[handler[h].prev] = "revoked"

\* The two properties without their exception, and without InFlight.
Referenced ==
    conn.ref # Nil =>
        \/ secret[conn.ref] = "live"
        \/ \E h \in Handlers : handler[h].pc = "clear" /\ handler[h].prev = conn.ref
Accounted ==
    \A x \in Refs : secret[x] = "live" =>
        \/ x = conn.ref
        \/ \E h \in Handlers : \/ handler[h].pc \in Holding /\ handler[h].new = x
                               \/ handler[h].pc = "retire" /\ handler[h].prev = x

Sound == Owned /\ Referenced /\ Accounted
OwnInv == Inv /\ (lapses = {} => Sound)

\* What Sound implies.
LEMMA SoundSuffices ==
    ASSUME lapses = {} => Sound
    PROVE  NoDanglingRef /\ NoOrphanSecret
<1>1. NoDanglingRef
    BY DEF Sound, Referenced, NoDanglingRef
<1>2. ASSUME NEW h \in Handlers, NEW x,
             \/ handler[h].pc \in Holding /\ handler[h].new = x
             \/ handler[h].pc = "retire" /\ handler[h].prev = x
      PROVE  x \in InFlight(h)
    BY <1>2 DEF InFlight, Holding
<1>3. NoOrphanSecret
    BY <1>2 DEF Sound, Accounted, NoOrphanSecret
<1>4. QED
    BY <1>1, <1>3

\* The history of lapses only grows.
LEMMA LapsesGrow ==
    ASSUME Next
    PROVE  lapses \subseteq lapses'
BY DEF Next, Step, SetCredential, RevokeConnection, SetProperty, ImportConnection, Enters,
    PutSecret, ValidateOk, ValidateFails, Swap, SwapFails, Undo, Retire, TestProperty,
    TestPropertyFails, ConfigureProperty, KillSecret, ClearConnection, Fails, Crash, Notes

\* The reference in the row was put before.
LEMMA RowRefExists ==
    ASSUME Inv, Sound
    PROVE  conn.ref \in Refs \cup {Nil} /\ (conn.ref # Nil => secret[conn.ref] # "absent")
BY DEF Inv, TypeOK, ConnRecords, Sound, Referenced, Owned

\* A handler that neither gains nor drops a duty disturbs nothing.
LEMMA QuietStep ==
    ASSUME Inv, Sound, NEW h \in Handlers, secret' = secret, conn'.ref = conn.ref,
           \A g \in Handlers : g # h => handler'[g] = handler[g],
           handler[h].pc \notin Owing,
           handler'[h].pc \notin Owing \/ (handler'[h].pc = "clear" /\ handler'[h].prev = Nil),
           \/ handler'[h].pc = "idle"
           \/ handler'[h].prev = conn.ref
           \/ handler'[h].prev = handler[h].prev /\ handler[h].pc # "idle"
    PROVE  Sound'
<1>1. conn.ref \in Refs \cup {Nil} /\ (conn.ref # Nil => secret[conn.ref] # "absent")
    BY RowRefExists
<1>2. handler'[h].pc \notin Holding /\ handler[h].pc \notin Holding
      /\ handler[h].pc # "retire" /\ handler'[h].pc # "retire" /\ handler[h].pc # "clear"
    BY DEF Owing, Holding
<1>3. Owned'
    <2>1. \A g \in Handlers : handler'[g].pc \in Holding \cup {"retire"} =>
                g # h /\ handler'[g] = handler[g]
        BY <1>2
    <2>2. \A g \in Handlers : handler'[g].pc = "clear" /\ handler'[g].prev # Nil =>
                g # h /\ handler'[g] = handler[g]
        BY DEF Owing
    <2>3. \A g, k \in Handlers : handler'[g].pc # "idle" /\ handler'[k].pc \in Holding =>
                handler'[g].prev # handler'[k].new
        BY <2>1 DEF Sound, Owned
    <2>4. \A g \in Handlers : handler'[g].pc # "idle" /\ handler'[g].prev # Nil =>
                secret[handler'[g].prev] # "absent"
        BY <1>1 DEF Sound, Owned
    <2>5. QED
        BY <2>1, <2>2, <2>3, <2>4 DEF Sound, Owned
<1>4. Referenced'
    BY <1>2 DEF Sound, Referenced
<1>5. Accounted'
    BY <1>2 DEF Sound, Accounted
<1>6. QED
    BY <1>3, <1>4, <1>5 DEF Sound

\* A step of a handler without a lapse keeps Sound.
LEMMA SoundStep ==
    ASSUME Inv, Sound, NEW h \in Handlers, Step(h), lapses' = {}
    PROVE  Sound'
<1>0. TypeOK /\ HandlerInv /\ Owned /\ Referenced /\ Accounted
    BY DEF Inv, Sound
<1>a. handler[h] \in HandlerRecords /\ conn \in ConnRecords
    BY <1>0 DEF TypeOK
<1>b. \A g \in Handlers : g # h => handler'[g] = handler[g]
    BY <1>0, StepIsLocal
<1>c. conn.ref \in Refs \cup {Nil} /\ (conn.ref # Nil => secret[conn.ref] # "absent")
    BY RowRefExists
<1>d. \A g \in Handlers : handler[g].pc \in Holding => handler[g].new \in Refs
    BY <1>0 DEF HandlerInv
<1>e. \A g \in Handlers : handler[g].prev \in Refs \cup {Nil}
    BY <1>0 DEF TypeOK, HandlerRecords
<1>1. CASE \/ SetCredential(h) \/ RevokeConnection(h)
           \/ \E p \in Properties : SetProperty(h, p)
           \/ \E p \in Properties \cup {Nil} : ImportConnection(h, p)
    <2>1. PICK op, pc, p : Enters(h, op, pc, p) /\ pc \in {"put", "test", "kill", "clear"}
                /\ (pc = "clear" => conn.ref = Nil)
        BY <1>1 DEF SetCredential, RevokeConnection, SetProperty, ImportConnection
    <2>2. /\ handler[h].pc = "idle" /\ handler'[h].pc = pc /\ handler'[h].prev = conn.ref
          /\ secret' = secret /\ conn' = conn
        BY <1>0, <2>1 DEF Enters, TypeOK
    <2>3. QED
        BY <1>b, <2>1, <2>2, QuietStep DEF Owing
<1>2. CASE \/ TestProperty(h) \/ TestPropertyFails(h) \/ ConfigureProperty(h) \/ Fails(h)
    <2>1. CASE TestProperty(h)
        <3>1. /\ handler[h].pc = "test" /\ handler'[h].pc = "configure"
              /\ handler'[h].prev = handler[h].prev /\ secret' = secret /\ conn' = conn
            BY <1>0, <1>a, <2>1 DEF TestProperty, Goto, TypeOK, HandlerRecords
        <3>2. QED
            BY <1>b, <3>1, QuietStep DEF Owing
    <2>2. CASE TestPropertyFails(h) \/ ConfigureProperty(h) \/ Fails(h)
        <3>1. handler'[h].pc = "idle" /\ secret' = secret
            BY <1>0, <2>2, IdleType
            DEF TestPropertyFails, ConfigureProperty, Fails, Return, TypeOK
        <3>2. handler[h].pc \notin Owing /\ conn'.ref = conn.ref
            BY <2>2 DEF TestPropertyFails, ConfigureProperty, Fails, Notes, Owing
        <3>3. QED
            BY <1>b, <3>1, <3>2, QuietStep DEF Owing
    <2>3. QED
        BY <1>2, <2>1, <2>2
<1>3. CASE PutSecret(h)
    <2>1. PICK x \in Refs :
            /\ secret[x] = "absent"
            /\ secret' = [secret EXCEPT ![x] = "live"]
            /\ handler' = [handler EXCEPT ![h].pc = "validate", ![h].new = x]
        BY <1>3 DEF PutSecret
    <2>2. /\ handler'[h].pc = "validate" /\ handler'[h].new = x
          /\ handler'[h].prev = handler[h].prev /\ handler[h].pc = "put" /\ conn' = conn
        BY <1>0, <1>3, <1>a, <2>1 DEF PutSecret, TypeOK, HandlerRecords
    <2>3. secret'[x] = "live" /\ \A y \in Refs : y # x => secret'[y] = secret[y]
        BY <1>0, <2>1 DEF TypeOK
    <2>4. x # Nil /\ x # conn.ref
        BY <1>c, <2>1, NilAssumption
    <2>5. \A g \in Handlers : /\ handler[g].pc \in Holding => handler[g].new \in Refs \ {x}
                              /\ handler[g].pc # "idle" => handler[g].prev # x
        BY <1>0, <1>d, <2>1, <2>4 DEF Owned
    <2>6. Owned'
        BY <1>0, <1>b, <1>d, <1>e, <2>2, <2>3, <2>4, <2>5 DEF Owned, Holding
    <2>7. Referenced'
        BY <1>0, <1>b, <1>c, <2>2, <2>3, <2>4 DEF Referenced
    <2>8. Accounted'
        BY <1>0, <1>b, <2>2, <2>3 DEF Accounted, Holding
    <2>9. QED
        BY <2>6, <2>7, <2>8 DEF Sound
<1>4. CASE ValidateOk(h) \/ ValidateFails(h) \/ SwapFails(h)
    <2>1. PICK pc \in {"swap", "undo"} : Goto(h, pc)
        BY <1>4 DEF ValidateOk, ValidateFails, SwapFails
    <2>2. /\ handler'[h].pc = pc /\ handler'[h].new = handler[h].new
          /\ handler'[h].prev = handler[h].prev
        BY <1>0, <1>a, <2>1 DEF Goto, TypeOK, HandlerRecords
    <2>3. handler[h].pc \in {"validate", "swap"} /\ UNCHANGED <<conn, secret>>
        BY <1>4 DEF ValidateOk, ValidateFails, SwapFails
    <2>4. Owned'
        BY <1>0, <1>b, <2>2, <2>3 DEF Owned, Holding
    <2>5. Referenced'
        BY <1>0, <1>b, <2>2, <2>3 DEF Referenced
    <2>6. Accounted'
        BY <1>0, <1>b, <2>2, <2>3 DEF Accounted, Holding
    <2>7. QED
        BY <2>4, <2>5, <2>6 DEF Sound
<1>5. CASE Swap(h)
    <2>1. /\ handler[h].pc = "swap" /\ conn.ref = handler[h].prev
          /\ conn'.ref = handler[h].new /\ secret' = secret
        BY <1>5 DEF Swap
    <2>2. secret[handler[h].new] = "live" /\ handler[h].new # conn.ref
        BY <1>0, <2>1 DEF Owned, Holding
    <2>3. \/ handler'[h].pc = "idle" /\ handler[h].prev = Nil
          \/ /\ handler'[h].pc = "retire" /\ handler'[h].prev = handler[h].prev
             /\ handler[h].prev # Nil
        BY <1>0, <1>5, <1>a, IdleType DEF Swap, Return, Goto, TypeOK, HandlerRecords
    <2>4. \A g \in Handlers : handler[g].pc \in Holding /\ g # h =>
                handler[g].new # handler[h].new /\ handler[g].new # handler[h].prev
        BY <1>0, <2>1 DEF Owned, Holding
    <2>5. \A g \in Handlers : handler[g].pc = "retire" => handler[g].prev # handler[h].new
        BY <1>0, <2>1 DEF Owned, Holding
    <2>6. Owned'
        BY <1>0, <1>b, <1>c, <2>1, <2>2, <2>3, <2>4, <2>5 DEF Owned, Holding
    <2>7. Referenced'
        BY <2>1, <2>2 DEF Referenced
    <2>8. Accounted'
        BY <1>0, <1>b, <2>1, <2>3, NilAssumption DEF Accounted, Holding
    <2>9. QED
        BY <2>6, <2>7, <2>8 DEF Sound
<1>6. CASE Undo(h) \/ Retire(h)
    <2>1. PICK x \in Refs : /\ secret' = [secret EXCEPT ![x] = "revoked"]
                            /\ \/ handler[h].pc = "undo" /\ x = handler[h].new
                               \/ handler[h].pc = "retire" /\ x = handler[h].prev
        BY <1>0, <1>6 DEF Undo, Retire, HandlerInv, Holding, Reading
    <2>2. handler'[h].pc = "idle" /\ conn' = conn
        BY <1>0, <1>6, IdleType DEF Undo, Retire, Return, TypeOK
    <2>3. secret'[x] = "revoked" /\ \A y \in Refs : y # x => secret'[y] = secret[y]
        BY <1>0, <2>1 DEF TypeOK
    <2>4. x # conn.ref /\ \A g \in Handlers : handler[g].pc \in Holding /\ g # h =>
                            handler[g].new # x
        BY <1>0, <2>1 DEF Owned, Holding
    <2>5. Owned'
        BY <1>0, <1>b, <1>d, <1>e, <2>2, <2>3, <2>4 DEF Owned, Holding
    <2>6. Referenced'
        BY <1>0, <1>b, <1>c, <2>1, <2>2, <2>3, <2>4 DEF Referenced
    <2>7. Accounted'
        BY <1>0, <1>b, <2>1, <2>2, <2>3 DEF Accounted, Holding
    <2>8. QED
        BY <2>5, <2>6, <2>7 DEF Sound
<1>7. CASE KillSecret(h)
    <2>1. PICK x \in Refs : x = handler[h].prev /\ secret' = [secret EXCEPT ![x] = "revoked"]
        BY <1>0, <1>7 DEF KillSecret, HandlerInv, Reading
    <2>2. /\ handler[h].pc = "kill" /\ handler'[h].pc = "clear"
          /\ handler'[h].prev = x /\ conn' = conn
        BY <1>0, <1>7, <1>a, <2>1 DEF KillSecret, Goto, TypeOK, HandlerRecords
    <2>3. secret'[x] = "revoked" /\ \A y \in Refs : y # x => secret'[y] = secret[y]
        BY <1>0, <2>1 DEF TypeOK
    <2>4. \A g \in Handlers : handler[g].pc \in Holding => handler[g].new # x
        BY <1>0, <2>1, <2>2 DEF Owned
    <2>5. Owned'
        BY <1>0, <1>b, <1>d, <1>e, <2>1, <2>2, <2>3, <2>4 DEF Owned, Holding
    <2>6. Referenced'
        BY <1>0, <1>b, <1>c, <2>2, <2>3 DEF Referenced
    <2>7. Accounted'
        BY <1>0, <1>b, <2>2, <2>3 DEF Accounted, Holding
    <2>8. QED
        BY <2>5, <2>6, <2>7 DEF Sound
<1>8. CASE ClearConnection(h)
    <2>1. /\ handler[h].pc = "clear" /\ handler'[h].pc = "idle" /\ secret' = secret
          /\ conn'.ref = Nil /\ conn.ref \in {handler[h].prev, Nil}
        BY <1>0, <1>8, IdleType DEF ClearConnection, Return, Disconnected, Notes, TypeOK
    <2>2. conn.ref # Nil => secret[conn.ref] = "revoked"
        BY <1>0, <2>1 DEF Owned
    <2>3. \A g \in Handlers : handler[g].pc = "retire" => handler[g].prev # Nil
        BY <1>0, NilAssumption DEF HandlerInv, Reading
    <2>4. Owned'
        BY <1>0, <1>b, <1>d, <2>1, <2>3, NilAssumption DEF Owned, Holding
    <2>5. Referenced'
        BY <2>1 DEF Referenced
    <2>6. Accounted'
        BY <1>0, <1>b, <2>1, <2>2, NilAssumption DEF Accounted, Holding
    <2>7. QED
        BY <2>4, <2>5, <2>6 DEF Sound
<1>9. QED
    BY <1>1, <1>2, <1>3, <1>4, <1>5, <1>6, <1>7, <1>8 DEF Step

\* The ownership invariant holds in every reachable state.
LEMMA Ownership == Spec => []OwnInv
<1>1. Init => OwnInv
    <2> SUFFICES ASSUME Init PROVE Sound
        BY InvInit DEF OwnInv
    <2>1. \A h \in Handlers : handler[h].pc = "idle"
        BY IdleType DEF Init
    <2>2. QED
        BY <2>1 DEF Init, Disconnected, Sound, Owned, Referenced, Accounted, Holding
<1>2. OwnInv /\ [Next]_vars => OwnInv'
    <2> SUFFICES ASSUME OwnInv, [Next]_vars, lapses' = {} PROVE Sound'
        BY InvNext DEF OwnInv
    <2>1. CASE \E h \in Handlers : Step(h)
        <3>1. lapses = {}
            BY <2>1, LapsesGrow DEF Next
        <3>2. QED
            BY <2>1, <3>1, SoundStep DEF OwnInv
    <2>2. CASE Crash
        <3>1. /\ \A h \in Handlers : handler'[h].pc = "idle" /\ handler[h].pc \notin Owing
              /\ lapses = {} /\ UNCHANGED <<conn, secret>>
            BY <2>2, IdleType DEF Crash, Notes
        <3>2. QED
            BY <3>1 DEF OwnInv, Sound, Owned, Referenced, Accounted, Holding, Owing
    <2>3. CASE UNCHANGED vars
        BY <2>3 DEF vars, OwnInv, Sound, Owned, Referenced, Accounted
    <2>4. QED
        BY <2>1, <2>2, <2>3 DEF Next
<1>3. QED
    BY <1>1, <1>2, PTL DEF Spec

\* Whatever handlers run and whatever fails, the row references a live secret
\* unless a handler overwrote a changed row or was cut off (store.go:170-172,
\* connections.go:98-112, 218, 285).
THEOREM InstalledSecretIsLive == Spec => []NoDanglingRef
<1>1. OwnInv => NoDanglingRef
    BY SoundSuffices DEF OwnInv
<1>2. QED
    BY <1>1, Ownership, PTL

\* With the same exceptions no secret stays alive that nothing references and
\* nobody will revoke.
THEOREM NoSecretIsOrphaned == Spec => []NoOrphanSecret
<1>1. OwnInv => NoOrphanSecret
    BY SoundSuffices DEF OwnInv
<1>2. QED
    BY <1>1, Ownership, PTL

=============================================================================
