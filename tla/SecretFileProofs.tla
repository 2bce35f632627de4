-------------------------- MODULE SecretFileProofs --------------------------
(***************************************************************************)
(* Proofs about SecretFile, for any numbers of goroutines, references,     *)
(* scopes and materials: the files are never torn and the store implements *)
(* SecretMap.  The argument is the mutex: past Lock a goroutine is alone,  *)
(* so what it read from its file is still there when it renames.           *)
(***************************************************************************)
EXTENDS SecretFile, TLAPS

Critical == {"load", "create", "write", "rename"}
Writing == {"create", "write", "rename"}

\* Whoever is past Lock holds the mutex.
Exclusive == \A c \in Clients : op[c].pc \in Critical => lock = c

\* A call has its arguments, and its goroutine no handle.
CallOK ==
    \A c \in Clients : op[c].pc # "idle" =>
        /\ op[c].id \in Ids /\ op[c].scope \in Scopes /\ op[c].material \in Materials
        /\ handle[c] = Nil

\* The payload about to be written is what the abstract operation would store,
\* and the file is still one the operation applies to.
ReadyFor(c, kind, entry, data) ==
    op[c].kind = kind => entry /\ op[c].data = data

Ready(c) ==
    /\ op[c].kind # "open"
    /\ ReadyFor(c, "put", Loaded(c) = Absent,
                Payload(op[c].scope, op[c].material, FALSE))
    /\ ReadyFor(c, "rotate", ~Loaded(c).revoked /\ Loaded(c).scope = op[c].scope,
                Payload(op[c].scope, op[c].material, FALSE))
    /\ ReadyFor(c, "revoke", Loaded(c).scope = op[c].scope,
                Payload(op[c].scope, Nil, TRUE))

WritesReady ==
    \A c \in Clients :
        /\ op[c].pc \in Writing => Ready(c)
        /\ op[c].pc = "rename" => op[c].temp = op[c].data

Inv == TypeOK /\ Exclusive /\ CallOK /\ WritesReady

-----------------------------------------------------------------------------
(* What is whole and what is not.                                          *)

\* Every payload an operation seals is of its type and is not the torn file.
LEMMA SealedPayload ==
    ASSUME NEW s \in Scopes, NEW m \in Materials \cup {Nil}, NEW r \in BOOLEAN
    PROVE  Payload(s, m, r) \in PayloadRecords \ {Torn}
BY SecretAssumption DEF Payload, PayloadRecords, Torn

\* Rotation replaces the material of a payload and nothing else.
LEMMA RotatedPayload ==
    ASSUME NEW p \in PayloadRecords, NEW m, p.revoked = FALSE
    PROVE  Payload(p.scope, m, FALSE) = [p EXCEPT !.material = m]
<1> DEFINE q == [p EXCEPT !.material = m]
<1>1. /\ DOMAIN q = {"scope", "material", "revoked"}
      /\ q = [x \in DOMAIN q |-> q[x]]
  BY DEF PayloadRecords
<1>2. q.scope = p.scope /\ q.material = m /\ q.revoked = FALSE
  BY DEF PayloadRecords
<1> HIDE DEF q
<1>3. q = Payload(p.scope, m, FALSE)
  BY <1>1, <1>2 DEF Payload
<1> QED BY <1>3 DEF q

\* The constant records have their types.
LEMMA ConstantTypes ==
    /\ Absent \in PayloadRecords \ {Torn}
    /\ Torn \in PayloadRecords
    /\ Idle \in OpRecords /\ Idle.pc = "idle"
BY DEF Absent, Torn, Payload, PayloadRecords, Idle, OpRecords

\* A payload that waits to be written may be written.
LEMMA ReadyIsWhole ==
    ASSUME Inv, NEW c \in Clients, op[c].pc \in Writing
    PROVE  op[c].data \in PayloadRecords \ {Torn}
<1>1. op[c].scope \in Scopes /\ op[c].material \in Materials
  BY DEF Inv, CallOK, Writing
<1>2. Ready(c) /\ op[c].kind \in {"rotate", "revoke", "put"}
  BY DEF Inv, WritesReady, Ready, TypeOK, OpRecords
<1>3. op[c].data = Payload(op[c].scope, op[c].material, FALSE)
        \/ op[c].data = Payload(op[c].scope, Nil, TRUE)
  BY <1>2 DEF Ready, ReadyFor
<1> QED BY <1>1, <1>3, SealedPayload

-----------------------------------------------------------------------------
(* The invariant.                                                          *)

\* The invariant holds initially.
LEMMA InvInit == Init => Inv
BY ConstantTypes DEF Init, Inv, TypeOK, Exclusive, CallOK, WritesReady, Critical, Writing

\* A step that returns from a call and touches no file.
LEMMA ReturnKeepsInv ==
    ASSUME Inv, NEW c \in Clients, op[c].pc \in Critical, Return(c),
           UNCHANGED file,
           handle' \in [Clients -> Materials \cup {Nil}],
           \A d \in Clients \ {c} : handle'[d] = handle[d]
    PROVE  Inv'
<1>1. op' \in [Clients -> OpRecords] /\ op'[c].pc = "idle" /\ lock' = Nil
  BY ConstantTypes DEF Inv, TypeOK, Return
<1>2. \A d \in Clients \ {c} : op'[d] = op[d] /\ op'[d].pc \notin Critical
  BY SecretAssumption DEF Inv, TypeOK, Exclusive, Return
<1>3. TypeOK'
  BY <1>1 DEF Inv, TypeOK
<1>4. Exclusive' /\ CallOK' /\ WritesReady'
  BY <1>1, <1>2 DEF Inv, Exclusive, CallOK, WritesReady, Critical, Writing
<1> QED BY <1>3, <1>4 DEF Inv

\* Sealing leaves a payload that is ready to be written.
LEMMA SealKeepsInv ==
    ASSUME Inv, NEW c \in Clients, op[c].pc = "load", NEW i \in Ids,
           NEW data \in PayloadRecords, Seal(c, i, data), Ready(c)'
    PROVE  Inv'
<1> DEFINE new == [op[c] EXCEPT !.pc = "create", !.id = i, !.data = data]
<1>0. op[c] \in OpRecords /\ op' = [op EXCEPT ![c] = new]
  BY DEF Inv, TypeOK, Seal
<1>1. op' \in [Clients -> OpRecords]
  <2>1. new \in OpRecords
    BY <1>0 DEF OpRecords
  <2> HIDE DEF new
  <2> QED BY <1>0, <2>1 DEF Inv, TypeOK
<1>2. /\ op'[c].pc = "create" /\ op'[c].id = i
      /\ op'[c].scope = op[c].scope /\ op'[c].material = op[c].material
  BY <1>0 DEF Inv, TypeOK, OpRecords
<1>3. \A d \in Clients \ {c} : op'[d] = op[d]
  BY DEF Inv, TypeOK, Seal
<1>4. UNCHANGED <<file, lock, handle>>
  BY DEF Seal
<1>5. TypeOK'
  BY <1>1, <1>4 DEF Inv, TypeOK
<1>6. Exclusive' /\ CallOK'
  BY <1>2, <1>3, <1>4 DEF Inv, Exclusive, CallOK, Critical
<1>7. WritesReady'
  <2> SUFFICES ASSUME NEW d \in Clients
               PROVE  (/\ op[d].pc \in Writing => Ready(d)
                       /\ op[d].pc = "rename" => op[d].temp = op[d].data)'
    BY DEF WritesReady
  <2>1. CASE d = c
    BY <1>2, <2>1
  <2>2. CASE d # c
    BY <1>3, <1>4, <2>2 DEF Inv, WritesReady, Ready, ReadyFor, Loaded
  <2> QED BY <2>1, <2>2
<1> QED BY <1>5, <1>6, <1>7 DEF Inv

\* A step that only moves one call along, and changes no more than its
\* temporary file.
LEMMA MoveKeepsInv ==
    ASSUME Inv, NEW c \in Clients, NEW pc \in Writing, NEW temp \in PayloadRecords,
           op[c].pc \in Writing,
           op' = [op EXCEPT ![c] = [@ EXCEPT !.pc = pc, !.temp = temp]],
           pc = "rename" => temp = op[c].data,
           UNCHANGED <<file, lock, handle>>
    PROVE  Inv'
<1> DEFINE new == [op[c] EXCEPT !.pc = pc, !.temp = temp]
<1>0. op[c] \in OpRecords /\ op' = [op EXCEPT ![c] = new]
  BY DEF Inv, TypeOK
<1>1. op' \in [Clients -> OpRecords]
  <2>1. new \in OpRecords
    BY <1>0 DEF OpRecords, Writing
  <2> HIDE DEF new
  <2> QED BY <1>0, <2>1 DEF Inv, TypeOK
<1>2. /\ op'[c].pc = pc /\ op'[c].temp = temp
      /\ op'[c].id = op[c].id /\ op'[c].scope = op[c].scope
      /\ op'[c].kind = op[c].kind /\ op'[c].material = op[c].material
      /\ op'[c].data = op[c].data
  BY <1>0 DEF Inv, TypeOK, OpRecords
<1>3. \A d \in Clients \ {c} : op'[d] = op[d]
  BY DEF Inv, TypeOK
<1>4. TypeOK'
  BY <1>1 DEF Inv, TypeOK
<1>5. Exclusive' /\ CallOK'
  BY <1>2, <1>3 DEF Inv, Exclusive, CallOK, Critical, Writing
<1>6. WritesReady'
  <2> SUFFICES ASSUME NEW d \in Clients
               PROVE  (/\ op[d].pc \in Writing => Ready(d)
                       /\ op[d].pc = "rename" => op[d].temp = op[d].data)'
    BY DEF WritesReady
  <2>1. CASE d = c
    <3>1. Ready(c)
      BY DEF Inv, WritesReady
    <3>2. Ready(c)'
      BY <1>2, <3>1 DEF Ready, ReadyFor, Loaded
    <3> QED BY <1>2, <2>1, <3>2
  <2>2. CASE d # c
    BY <1>3, <2>2 DEF Inv, WritesReady, Ready, ReadyFor, Loaded
  <2> QED BY <2>1, <2>2
<1> QED BY <1>4, <1>5, <1>6 DEF Inv

\* A new call has its arguments and is outside the mutex.
LEMMA CallKeepsInv ==
    ASSUME Inv, NEW c \in Clients, Calls(c)
    PROVE  Inv'
<1> PICK kind \in {"open", "rotate", "revoke", "put"}, i \in Ids, scope \in Scopes,
         m \in Materials : Call(c, kind, i, scope, m)
  BY DEF Calls
<1> DEFINE new == [Idle EXCEPT !.pc = "lock", !.kind = kind, !.id = i,
                               !.scope = scope, !.material = m]
<1>1. /\ new \in OpRecords /\ new.pc = "lock"
      /\ new.id \in Ids /\ new.scope \in Scopes /\ new.material \in Materials
  BY ConstantTypes DEF OpRecords, Idle
<1>2. op' = [op EXCEPT ![c] = new] /\ handle[c] = Nil /\ UNCHANGED <<file, lock, handle>>
  BY DEF Call
<1> HIDE DEF new
<1>3. op'[c] = new /\ \A d \in Clients \ {c} : op'[d] = op[d]
  BY <1>2 DEF Inv, TypeOK
<1>4. TypeOK'
  BY <1>1, <1>2 DEF Inv, TypeOK
<1>5. Exclusive' /\ CallOK'
  BY <1>1, <1>2, <1>3 DEF Inv, Exclusive, CallOK, Critical
<1>6. WritesReady'
  <2> SUFFICES ASSUME NEW d \in Clients
               PROVE  (/\ op[d].pc \in Writing => Ready(d)
                       /\ op[d].pc = "rename" => op[d].temp = op[d].data)'
    BY DEF WritesReady
  <2>1. CASE d = c
    BY <1>1, <1>3, <2>1 DEF Writing
  <2>2. CASE d # c
    <3>1. op'[d] = op[d] /\ file' = file
      BY <1>2, <1>3, <2>2
    <3> QED BY <3>1 DEF Inv, WritesReady, Ready, ReadyFor, Loaded
  <2> QED BY <2>1, <2>2
<1> QED BY <1>4, <1>5, <1>6 DEF Inv

\* Whoever takes the mutex is alone: it was free.
LEMMA LockKeepsInv ==
    ASSUME Inv, NEW c \in Clients, Lock(c)
    PROVE  Inv'
<1>1. /\ op[c].pc = "lock" /\ lock = Nil /\ lock' = c
      /\ op' = [op EXCEPT ![c].pc = "load"] /\ UNCHANGED <<file, handle>>
  BY DEF Lock
<1>2. op' \in [Clients -> OpRecords] /\ op'[c].pc = "load"
  BY <1>1 DEF Inv, TypeOK, OpRecords
<1>3. /\ op'[c].id = op[c].id /\ op'[c].scope = op[c].scope
      /\ op'[c].material = op[c].material
  BY <1>1 DEF Inv, TypeOK, OpRecords
<1>4. \A d \in Clients \ {c} : op'[d] = op[d] /\ op'[d].pc \notin Critical
  BY <1>1, SecretAssumption DEF Inv, TypeOK, Exclusive
<1>5. TypeOK'
  BY <1>1, <1>2 DEF Inv, TypeOK
<1>6. Exclusive' /\ CallOK'
  BY <1>1, <1>2, <1>3, <1>4 DEF Inv, Exclusive, CallOK
<1>7. WritesReady'
  BY <1>2, <1>4 DEF WritesReady, Critical, Writing
<1> QED BY <1>5, <1>6, <1>7 DEF Inv

\* The rename installs a whole file; everyone else is outside the mutex.
LEMMA RenameKeepsInv ==
    ASSUME Inv, NEW c \in Clients, Rename(c)
    PROVE  Inv'
<1>1. /\ op[c].pc = "rename" /\ Return(c) /\ handle' = handle
      /\ file' = [file EXCEPT ![op[c].id] = op[c].temp]
  BY DEF Rename
<1>2. op[c].temp \in PayloadRecords \ {Torn} /\ op[c].id \in Ids
  BY <1>1, ReadyIsWhole DEF Inv, WritesReady, Writing, CallOK
<1>3. op' \in [Clients -> OpRecords] /\ op'[c].pc = "idle" /\ lock' = Nil
  BY <1>1, ConstantTypes DEF Inv, TypeOK, Return
<1>4. \A d \in Clients \ {c} : op'[d] = op[d] /\ op'[d].pc \notin Critical
  BY <1>1, SecretAssumption DEF Inv, TypeOK, Exclusive, Return, Critical
<1>5. TypeOK'
  BY <1>1, <1>2, <1>3 DEF Inv, TypeOK
<1>6. Exclusive' /\ CallOK' /\ WritesReady'
  BY <1>1, <1>3, <1>4 DEF Inv, Exclusive, CallOK, WritesReady, Critical, Writing
<1> QED BY <1>5, <1>6 DEF Inv

\* Every step keeps the invariant.
LEMMA InvStep == Inv /\ [Next]_vars => Inv'
<1> SUFFICES ASSUME Inv, [Next]_vars PROVE Inv'
  OBVIOUS
<1>1. CASE UNCHANGED vars
  BY <1>1 DEF vars, Inv, TypeOK, Exclusive, CallOK, WritesReady, Ready, ReadyFor, Loaded
<1>2. CASE Crash
  BY <1>2, ConstantTypes DEF Crash, Inv, TypeOK, Exclusive, CallOK, WritesReady,
     Critical, Writing
<1>3. ASSUME NEW c \in Clients, Calls(c) PROVE Inv'
  BY <1>3, CallKeepsInv
<1>4. ASSUME NEW c \in Clients, Lock(c) PROVE Inv'
  BY <1>4, LockKeepsInv
<1>5. ASSUME NEW c \in Clients, Put(c) PROVE Inv'
  <2>1. PICK i \in Ids : file[i] = Absent
                         /\ Seal(c, i, Payload(op[c].scope, op[c].material, FALSE))
    BY <1>5 DEF Put
  <2>2. /\ op[c].scope \in Scopes /\ op[c].material \in Materials
        /\ op[c].pc = "load" /\ op[c].kind = "put"
    BY <1>5 DEF Put, At, Inv, CallOK
  <2>3. Ready(c)'
    BY <2>1, <2>2 DEF Seal, Ready, ReadyFor, Loaded, Inv, TypeOK, OpRecords
  <2> QED BY <2>1, <2>2, <2>3, SealedPayload, SealKeepsInv
<1>6. ASSUME NEW c \in Clients, Open(c) PROVE Inv'
  <2>1. op[c].id \in Ids
    BY <1>6 DEF Open, At, Inv, CallOK
  <2>2. Loaded(c).material \in Materials \cup {Nil}
    BY <2>1 DEF Loaded, Inv, TypeOK, PayloadRecords
  <2>3. handle' \in [Clients -> Materials \cup {Nil}]
    BY <1>6, <2>2 DEF Open, Inv, TypeOK
  <2>4. \A d \in Clients \ {c} : handle'[d] = handle[d]
    BY <1>6 DEF Open, Inv, TypeOK
  <2> QED BY <1>6, <2>3, <2>4, ReturnKeepsInv DEF Open, At, Critical
<1>7. ASSUME NEW c \in Clients, Rotate(c) PROVE Inv'
  <2>1. /\ Seal(c, op[c].id, Payload(Loaded(c).scope, op[c].material, FALSE))
        /\ Loaded(c).scope = op[c].scope /\ ~Loaded(c).revoked
        /\ op[c].pc = "load" /\ op[c].kind = "rotate"
    BY <1>7 DEF Rotate, At, Usable
  <2>2. /\ op[c].id \in Ids /\ op[c].scope \in Scopes /\ op[c].material \in Materials
    BY <2>1 DEF Inv, CallOK
  <2>3. Ready(c)'
    BY <2>1, <2>2 DEF Seal, Ready, ReadyFor, Loaded, Inv, TypeOK, OpRecords
  <2> QED BY <2>1, <2>2, <2>3, SealedPayload, SealKeepsInv
<1>8. ASSUME NEW c \in Clients, Revoke(c) PROVE Inv'
  <2>1. /\ Seal(c, op[c].id, Payload(Loaded(c).scope, Nil, TRUE))
        /\ Loaded(c).scope = op[c].scope
        /\ op[c].pc = "load" /\ op[c].kind = "revoke"
    BY <1>8 DEF Revoke, At
  <2>2. /\ op[c].id \in Ids /\ op[c].scope \in Scopes /\ op[c].material \in Materials
    BY <2>1 DEF Inv, CallOK
  <2>3. Ready(c)'
    BY <2>1, <2>2 DEF Seal, Ready, ReadyFor, Loaded, Inv, TypeOK, OpRecords
  <2> QED BY <2>1, <2>2, <2>3, SealedPayload, SealKeepsInv
<1>9. ASSUME NEW c \in Clients, Refuse(c) \/ WriteFails(c) PROVE Inv'
  BY <1>9, ReturnKeepsInv DEF Refuse, WriteFails, Critical, Inv, TypeOK
<1>10. ASSUME NEW c \in Clients, CreateTemp(c) PROVE Inv'
  BY <1>10, MoveKeepsInv, ConstantTypes DEF CreateTemp, Writing
<1>11. ASSUME NEW c \in Clients, WriteTemp(c) PROVE Inv'
  <2>1. op[c].data \in PayloadRecords
    BY <1>11, ReadyIsWhole DEF WriteTemp, Writing
  <2> QED BY <1>11, <2>1, MoveKeepsInv DEF WriteTemp, Writing
<1>12. ASSUME NEW c \in Clients, Rename(c) PROVE Inv'
  BY <1>12, RenameKeepsInv
<1>13. ASSUME NEW c \in Clients, Close(c) PROVE Inv'
  BY <1>13 DEF Close, Inv, TypeOK, Exclusive, CallOK, WritesReady, Ready, ReadyFor, Loaded
<1> QED
  BY <1>1, <1>2, <1>3, <1>4, <1>5, <1>6, <1>7, <1>8, <1>9, <1>10, <1>11, <1>12, <1>13
  DEF Next, Step

\* Credential files are never found half written, for any number of goroutines.
THEOREM FilesAreWhole == Spec => []TypeOK
<1>1. Inv => TypeOK
  BY DEF Inv
<1> QED BY <1>1, InvInit, InvStep, PTL DEF Spec

-----------------------------------------------------------------------------
(* The refinement.                                                         *)

\* The rename is the moment at which Put, Rotate and Revoke happen.
LEMMA RenameRefines ==
    ASSUME Inv, NEW c \in Clients, Rename(c)
    PROVE  SecretMapSpec!Next
<1> DEFINE i == op[c].id
           scope == op[c].scope
<1>1. i \in Ids /\ scope \in Scopes /\ op[c].material \in Materials
  BY DEF Rename, Inv, CallOK
<1>2. file' = [file EXCEPT ![i] = op[c].data] /\ UNCHANGED handle
  BY DEF Rename, Inv, WritesReady
<1>3. Ready(c) /\ op[c].kind \in {"rotate", "revoke", "put"}
  BY DEF Rename, Inv, WritesReady, Writing, Ready, TypeOK, OpRecords
<1>4. CASE op[c].kind = "put"
  <2>1. SecretMapSpec!Put(i, scope, op[c].material)
    BY <1>2, <1>3, <1>4 DEF Ready, ReadyFor, Loaded, Payload, Absent,
       SecretMapSpec!Put, SecretMapSpec!Entry, SecretMapSpec!Absent
  <2> QED BY <1>1, <2>1 DEF SecretMapSpec!Next
<1>5. CASE op[c].kind = "rotate"
  <2>1. file[i] \in PayloadRecords
    BY <1>1 DEF Inv, TypeOK
  <2>2. /\ file[i].scope = scope /\ file[i].revoked = FALSE
        /\ op[c].data = Payload(scope, op[c].material, FALSE)
    BY <1>3, <1>5, <2>1 DEF Ready, ReadyFor, Loaded, PayloadRecords
  <2>3. op[c].data = [file[i] EXCEPT !.material = op[c].material]
    BY <2>1, <2>2, RotatedPayload
  <2>4. SecretMapSpec!Rotate(i, scope, op[c].material)
    BY <1>2, <2>2, <2>3 DEF SecretMapSpec!Rotate, SecretMapSpec!Usable
  <2> QED BY <1>1, <2>4 DEF SecretMapSpec!Next
<1>6. CASE op[c].kind = "revoke"
  <2>1. SecretMapSpec!Revoke(i, scope)
    BY <1>2, <1>3, <1>6 DEF Ready, ReadyFor, Loaded, Payload,
       SecretMapSpec!Revoke, SecretMapSpec!Entry
  <2> QED BY <1>1, <2>1 DEF SecretMapSpec!Next
<1> QED BY <1>3, <1>4, <1>5, <1>6

\* Every step of the store is a step of the map, or changes nothing it shows.
LEMMA StepRefines ==
    Inv /\ [Next]_vars => [SecretMapSpec!Next]_(SecretMapSpec!vars)
<1> SUFFICES ASSUME Inv, [Next]_vars
             PROVE  SecretMapSpec!Next \/ UNCHANGED <<file, handle>>
  BY DEF SecretMapSpec!vars
<1>1. CASE UNCHANGED vars
  BY <1>1 DEF vars
<1>2. CASE Crash
  <2>1. SecretMapSpec!Close(Clients)
    BY <1>2 DEF Crash, SecretMapSpec!Close
  <2> QED BY <2>1 DEF SecretMapSpec!Next
<1>3. ASSUME NEW c \in Clients, Close(c) PROVE SecretMapSpec!Next
  <2>1. handle' = [d \in Clients |-> IF d \in {c} THEN Nil ELSE handle[d]]
    BY <1>3 DEF Close, Inv, TypeOK
  <2>2. SecretMapSpec!Close({c})
    BY <1>3, <2>1 DEF Close, SecretMapSpec!Close
  <2> QED BY <2>2 DEF SecretMapSpec!Next
<1>4. ASSUME NEW c \in Clients, Open(c) PROVE SecretMapSpec!Next
  <2>1. op[c].id \in Ids /\ op[c].scope \in Scopes /\ handle[c] = Nil
    BY <1>4 DEF Open, At, Inv, CallOK
  <2>2. SecretMapSpec!Open(c, op[c].id, op[c].scope)
    BY <1>4, <2>1 DEF Open, Usable, Loaded, SecretMapSpec!Open, SecretMapSpec!Usable
  <2> QED BY <2>1, <2>2 DEF SecretMapSpec!Next
<1>5. ASSUME NEW c \in Clients, Rename(c) PROVE SecretMapSpec!Next
  BY <1>5, RenameRefines
<1>6. ASSUME NEW c \in Clients,
             \/ Calls(c) \/ Lock(c) \/ Put(c) \/ Rotate(c) \/ Revoke(c) \/ Refuse(c)
             \/ CreateTemp(c) \/ WriteTemp(c) \/ WriteFails(c)
      PROVE  UNCHANGED <<file, handle>>
  BY <1>6 DEF Calls, Call, Lock, Put, Rotate, Revoke, Refuse, Seal, CreateTemp,
     WriteTemp, WriteFails
<1> QED BY <1>1, <1>2, <1>3, <1>4, <1>5, <1>6 DEF Next, Step

\* The file store implements the atomic map of core.SecretStore, for any number
\* of goroutines and with a failure or a crash at any step.
THEOREM StoreIsAtomic == Spec => ImplementsSecretMap
<1>1. Init => SecretMapSpec!Init
  BY DEF Init, Absent, Payload, SecretMapSpec!Init, SecretMapSpec!Absent, SecretMapSpec!Entry
<1> QED BY <1>1, InvInit, InvStep, StepRefines, PTL
        DEF Spec, ImplementsSecretMap, SecretMapSpec!Spec

-----------------------------------------------------------------------------
(* What the map promises, for the file store.                              *)

\* A tombstone holds no material.
Blank == \A i \in Ids : file[i].revoked => file[i].material = Nil

\* A reference is never given to another scope, and never revived.
Final ==
    \A i \in Ids : /\ file[i].revoked => file'[i].revoked
                   /\ file[i].scope # Nil => file'[i].scope = file[i].scope

\* Each operation of the map keeps to it.
LEMMA MapIsFinal ==
    ASSUME TypeOK, Blank, [SecretMapSpec!Next]_(SecretMapSpec!vars)
    PROVE  Blank' /\ Final
<1> USE DEF SecretMapSpec!Entry, SecretMapSpec!Absent
<1>0. file \in [Ids -> PayloadRecords]
  BY DEF TypeOK
<1>1. CASE UNCHANGED file
  BY <1>1 DEF Blank, Final
<1>2. ASSUME NEW i \in Ids, NEW e, file' = [file EXCEPT ![i] = e],
             e.revoked => e.material = Nil,
             file[i].revoked => e.revoked,
             file[i].scope # Nil => e.scope = file[i].scope
      PROVE  Blank' /\ Final
  BY <1>0, <1>2 DEF Blank, Final
<1>3. ASSUME NEW i \in Ids, NEW scope, NEW m, SecretMapSpec!Put(i, scope, m)
      PROVE  Blank' /\ Final
  <2> DEFINE e == SecretMapSpec!Entry(scope, m, FALSE)
  <2>1. e.revoked = FALSE
    OBVIOUS
  <2>2. file[i].revoked = FALSE /\ file[i].scope = Nil /\ file' = [file EXCEPT ![i] = e]
    BY <1>3 DEF SecretMapSpec!Put
  <2> HIDE DEF e
  <2> QED BY <1>2, <2>1, <2>2
<1>4. ASSUME NEW i \in Ids, NEW scope, NEW m, SecretMapSpec!Rotate(i, scope, m)
      PROVE  Blank' /\ Final
  <2> DEFINE e == [file[i] EXCEPT !.material = m]
  <2>1. e.revoked = file[i].revoked /\ e.scope = file[i].scope
    BY <1>0 DEF PayloadRecords
  <2>2. ~file[i].revoked /\ file' = [file EXCEPT ![i] = e]
    BY <1>4 DEF SecretMapSpec!Rotate, SecretMapSpec!Usable
  <2> HIDE DEF e
  <2> QED BY <1>2, <2>1, <2>2
<1>5. ASSUME NEW i \in Ids, NEW scope, SecretMapSpec!Revoke(i, scope)
      PROVE  Blank' /\ Final
  BY <1>2, <1>5 DEF SecretMapSpec!Revoke
<1> QED BY <1>1, <1>3, <1>4, <1>5
        DEF SecretMapSpec!Next, SecretMapSpec!Open, SecretMapSpec!Close, SecretMapSpec!vars

\* A revoked credential is gone from the disk and never comes back, whatever
\* overlaps the revocation, fails or crashes; a reference keeps its scope
\* (core/secrets.go:57-60, file.go:195-211).
THEOREM RevocationIsFinal == Spec => []Blank /\ [][Final]_vars
<1>1. Init => Blank
  BY DEF Init, Blank, Absent, Payload
<1>2. Inv /\ Blank /\ [Next]_vars => Blank' /\ [Final]_vars
  BY StepRefines, MapIsFinal DEF Inv
<1> QED BY <1>1, <1>2, InvInit, InvStep, PTL DEF Spec

-----------------------------------------------------------------------------
(* Why calls return.  The mutex is held by a goroutine that is on its way, *)
(* and its way is short; that it takes it is fairness, which TLC checks.   *)

\* Nobody keeps the mutex after a return.
Held == lock # Nil => lock \in Clients /\ op[lock].pc \in Critical

\* Steps until the mutex is released.
Left(p) ==
    CASE p = "load" -> 4 [] p = "create" -> 3 [] p = "write" -> 2 [] p = "rename" -> 1
      [] p = "idle" -> 0

\* Every step of every operation is within the mutex or hands it back.
LEMMA HeldNext == Inv /\ Held /\ [Next]_vars => Held'
<1> SUFFICES ASSUME Inv, Held, [Next]_vars PROVE Held'
  OBVIOUS
<1>1. CASE UNCHANGED <<lock, op>>
  BY <1>1 DEF Held
<1>2. CASE lock' = Nil
  BY <1>2 DEF Held
<1>3. ASSUME NEW c \in Clients, Calls(c) PROVE Held'
  <2>1. UNCHANGED lock /\ op[c] = Idle /\ \A d \in Clients \ {c} : op'[d] = op[d]
    <3>1. UNCHANGED lock /\ op[c] = Idle /\ \E o : op' = [op EXCEPT ![c] = o]
      BY <1>3 DEF Calls, Call
    <3> QED BY <3>1 DEF Inv, TypeOK
  <2>2. lock # c
    BY <2>1, SecretAssumption DEF Held, Idle, Critical
  <2> QED BY <2>1, <2>2 DEF Held
<1>4. ASSUME NEW c \in Clients, op'[c].pc \in Critical, lock' = c PROVE Held'
  BY <1>4 DEF Held
<1>5. ASSUME NEW c \in Clients, Lock(c) PROVE Held'
  BY <1>4, <1>5 DEF Lock, Inv, TypeOK, OpRecords, Critical
<1>6. ASSUME NEW c \in Clients,
             Put(c) \/ Rotate(c) \/ Revoke(c) \/ CreateTemp(c) \/ WriteTemp(c)
      PROVE  Held'
  <2>1. UNCHANGED lock /\ op[c].pc \in Critical /\ op'[c].pc \in Critical
    <3>1. CASE Put(c) \/ Rotate(c) \/ Revoke(c)
      BY <3>1 DEF Put, Rotate, Revoke, Seal, At, Critical, Inv, TypeOK, OpRecords
    <3>2. CASE CreateTemp(c) \/ WriteTemp(c)
      BY <3>2 DEF CreateTemp, WriteTemp, Critical, Inv, TypeOK, OpRecords
    <3> QED BY <1>6, <3>1, <3>2
  <2> QED BY <1>4, <2>1 DEF Inv, Exclusive
<1> QED BY <1>1, <1>2, <1>3, <1>5, <1>6
        DEF Next, Step, vars, Open, Refuse, Rename, WriteFails, Return, Close, Crash

\* A step of a call is one fewer until its return.
LEMMA StepIsForward ==
    ASSUME Inv, NEW c \in Clients, Step(c)
    PROVE  Left(op'[c].pc) < Left(op[c].pc)
<1>0. Idle.pc = "idle"
  BY DEF Idle
<1>1. CASE Put(c) \/ Rotate(c) \/ Revoke(c)
  <2>1. op[c].pc = "load" /\ op'[c].pc = "create"
    BY <1>1 DEF Put, Rotate, Revoke, Seal, At, Inv, TypeOK, OpRecords
  <2> QED BY <2>1 DEF Left
<1>2. CASE CreateTemp(c) \/ WriteTemp(c)
  <2>1. \/ op[c].pc = "create" /\ op'[c].pc = "write"
        \/ op[c].pc = "write" /\ op'[c].pc = "rename"
    BY <1>2 DEF CreateTemp, WriteTemp, Inv, TypeOK, OpRecords
  <2> QED BY <2>1 DEF Left
<1>3. CASE Open(c) \/ Refuse(c) \/ Rename(c) \/ WriteFails(c)
  <2>1. op[c].pc \in Critical /\ op'[c].pc = "idle"
    BY <1>0, <1>3 DEF Open, Refuse, Rename, WriteFails, Return, At, Critical, Inv, TypeOK
  <2> QED BY <2>1 DEF Left, Critical
<1> QED BY <1>1, <1>2, <1>3 DEF Step

\* No path of any operation keeps the mutex (file.go:141-211): it is held only by
\* a goroutine inside a call, and every step takes that call closer to its end.
THEOREM MutexIsHandedBack ==
    Spec => []Held /\ [][\A c \in Clients : Step(c) => Left(op'[c].pc) < Left(op[c].pc)]_vars
<1>1. Init => Held
  BY DEF Init, Held
<1>2. Inv /\ [Next]_vars
        => [\A c \in Clients : Step(c) => Left(op'[c].pc) < Left(op[c].pc)]_vars
  BY StepIsForward
<1> QED BY <1>1, <1>2, HeldNext, InvInit, InvStep, PTL DEF Spec

=============================================================================
