----------------------------- MODULE SecretFile -----------------------------
(***************************************************************************)
(* The file secret store (internal/secrets/file.go): one encrypted file per*)
(* reference.  Every operation takes the mutex, reads the file, decides,   *)
(* writes a temporary file, syncs it and renames it over the old one.  Any *)
(* of these calls may fail, and the process may die between any two.       *)
(*                                                                         *)
(* Sealing is abstracted to what opening it needs: the right scope.  A     *)
(* temporary file left behind by a crash is never read again, so it is     *)
(* forgotten.  A rename that returned is taken to survive the crash of the *)
(* process; the loss of power is not modelled.                             *)
(***************************************************************************)
EXTENDS Naturals

CONSTANTS
    Ids,            \* references uuid.NewString may return
    Scopes, Materials,
    Clients,        \* goroutines that use the store
    Nil

ASSUME SecretAssumption == Nil \notin Ids \cup Scopes \cup Materials \cup Clients

VARIABLES
    file,       \* the contents of <id>.secret
    lock,       \* the goroutine that holds File.mu
    op,         \* the call every goroutine is in
    handle      \* the material of the handle it holds

vars == <<file, lock, op, handle>>

-----------------------------------------------------------------------------
Payload(scope, material, revoked) ==
    [scope |-> scope, material |-> material, revoked |-> revoked]

Absent == Payload(Nil, Nil, FALSE)
\* A file that was created and not yet completely written.
Torn == Payload(Nil, Nil, TRUE)

Idle == [pc |-> "idle", kind |-> "open", id |-> Nil, scope |-> Nil,
         material |-> Nil, data |-> Absent, temp |-> Absent]

Init ==
    /\ file = [i \in Ids |-> Absent]
    /\ lock = Nil
    /\ op = [c \in Clients |-> Idle]
    /\ handle = [c \in Clients |-> Nil]

\* A handle is closed before its goroutine makes another call.
Call(c, kind, i, scope, m) ==
    /\ op[c] = Idle /\ handle[c] = Nil
    /\ op' = [op EXCEPT ![c] = [Idle EXCEPT !.pc = "lock", !.kind = kind, !.id = i,
                                            !.scope = scope, !.material = m]]
    /\ UNCHANGED <<file, lock, handle>>

\* Mutant: the mutex is not waited for.
LockIgnored(c) ==
    /\ op[c].pc = "lock"
    /\ lock' = c
    /\ op' = [op EXCEPT ![c].pc = "load"]
    /\ UNCHANGED <<file, handle>>

Lock(c) ==
    /\ op[c].pc = "lock" /\ lock = Nil
    /\ lock' = c
    /\ op' = [op EXCEPT ![c].pc = "load"]
    /\ UNCHANGED <<file, handle>>

\* The deferred Unlock.
Return(c) ==
    /\ lock' = Nil
    /\ op' = [op EXCEPT ![c] = Idle]

-----------------------------------------------------------------------------
(* What an operation does between reading the file and writing it.         *)

At(c, pc, kind) == op[c].pc = pc /\ op[c].kind = kind
Loaded(c) == file[op[c].id]
Readable(c) == Loaded(c) \notin {Absent, Torn}
Usable(c) == Readable(c) /\ ~Loaded(c).revoked /\ Loaded(c).scope = op[c].scope

\* The sealed payload is ready to be written.
Seal(c, i, data) ==
    /\ op' = [op EXCEPT ![c] = [@ EXCEPT !.pc = "create", !.id = i, !.data = data]]
    /\ UNCHANGED <<file, lock, handle>>

Put(c) ==
    /\ At(c, "load", "put")
    /\ \E i \in Ids :
        /\ file[i] = Absent
        /\ Seal(c, i, Payload(op[c].scope, op[c].material, FALSE))

Open(c) ==
    /\ At(c, "load", "open")
    /\ Usable(c)
    /\ handle' = [handle EXCEPT ![c] = Loaded(c).material]
    /\ Return(c)
    /\ UNCHANGED file

Rotate(c) ==
    /\ At(c, "load", "rotate")
    /\ Usable(c)
    /\ Seal(c, op[c].id, Payload(Loaded(c).scope, op[c].material, FALSE))

Revoke(c) ==
    /\ At(c, "load", "revoke")
    /\ Readable(c) /\ Loaded(c).scope = op[c].scope
    /\ Seal(c, op[c].id, Payload(Loaded(c).scope, Nil, TRUE))

\* Mutant: an early return without the deferred Unlock.
RefuseKeepsLock(c) ==
    /\ op[c].pc = "load"
    /\ op' = [op EXCEPT ![c] = Idle]
    /\ UNCHANGED <<file, lock, handle>>

\* The payload cannot be sealed, the file cannot be read (for Revoke: taken for
\* "already gone"), or the call is not entitled to it.
Refuse(c) ==
    /\ op[c].pc = "load"
    /\ Return(c)
    /\ UNCHANGED <<file, handle>>

-----------------------------------------------------------------------------
(* write.                                                                  *)

\* Mutant: the file itself is created, not a temporary one.
CreateInPlace(c) ==
    /\ op[c].pc = "create"
    /\ file' = [file EXCEPT ![op[c].id] = Torn]
    /\ op' = [op EXCEPT ![c] = [@ EXCEPT !.pc = "write", !.temp = Torn]]
    /\ UNCHANGED <<lock, handle>>

CreateTemp(c) ==
    /\ op[c].pc = "create"
    /\ op' = [op EXCEPT ![c] = [@ EXCEPT !.pc = "write", !.temp = Torn]]
    /\ UNCHANGED <<file, lock, handle>>

\* Write, Sync and Close: the temporary file is whole and on disk.
WriteTemp(c) ==
    /\ op[c].pc = "write"
    /\ op' = [op EXCEPT ![c] = [@ EXCEPT !.pc = "rename", !.temp = op[c].data]]
    /\ UNCHANGED <<file, lock, handle>>

Rename(c) ==
    /\ op[c].pc = "rename"
    /\ file' = [file EXCEPT ![op[c].id] = op[c].temp]
    /\ Return(c)
    /\ UNCHANGED handle

\* One of the calls of write fails; the temporary file is removed.
WriteFails(c) ==
    /\ op[c].pc \in {"create", "write", "rename"}
    /\ Return(c)
    /\ UNCHANGED <<file, handle>>

-----------------------------------------------------------------------------
Close(c) ==
    /\ handle[c] # Nil
    /\ handle' = [handle EXCEPT ![c] = Nil]
    /\ UNCHANGED <<file, lock, op>>

\* The process dies and is started again.
Crash ==
    /\ lock' = Nil
    /\ op' = [c \in Clients |-> Idle]
    /\ handle' = [c \in Clients |-> Nil]
    /\ UNCHANGED file

Calls(c) ==
    \E kind \in {"open", "rotate", "revoke", "put"}, i \in Ids, scope \in Scopes,
       m \in Materials : Call(c, kind, i, scope, m)

Step(c) ==
    \/ Put(c) \/ Open(c) \/ Rotate(c) \/ Revoke(c) \/ Refuse(c)
    \/ CreateTemp(c) \/ WriteTemp(c) \/ Rename(c) \/ WriteFails(c)

Next ==
    \/ \E c \in Clients : Calls(c) \/ Lock(c) \/ Step(c) \/ Close(c)
    \/ Crash

Spec == Init /\ [][Next]_vars

\* A goroutine in a call is scheduled, and sync.Mutex starves nobody.
FairSpec == Spec /\ \A c \in Clients : WF_vars(Step(c)) /\ SF_vars(Lock(c))

-----------------------------------------------------------------------------
(* Properties.                                                             *)

PayloadRecords ==
    [scope : Scopes \cup {Nil}, material : Materials \cup {Nil}, revoked : BOOLEAN]
OpRecords ==
    [pc : {"idle", "lock", "load", "create", "write", "rename"},
     kind : {"open", "rotate", "revoke", "put"}, id : Ids \cup {Nil},
     scope : Scopes \cup {Nil}, material : Materials \cup {Nil},
     data : PayloadRecords, temp : PayloadRecords]

\* Every variable keeps its type, and no credential file is ever found half
\* written: a crash or a failed write leaves the old file (file.go:116-139).
TypeOK ==
    /\ file \in [Ids -> PayloadRecords \ {Torn}]
    /\ lock \in Clients \cup {Nil}
    /\ op \in [Clients -> OpRecords]
    /\ handle \in [Clients -> Materials \cup {Nil}]

\* The store behaves like a map with atomic operations, whatever the goroutines
\* do at once, whichever call fails and wherever the process dies: a Rotate that
\* overlaps a Revoke never brings the credential back, a handle never carries
\* material of another scope or of a tombstone, and no reference is handed out
\* twice (file.go:141-211, core/secrets.go:57-60).
SecretMapSpec == INSTANCE SecretMap WITH secret <- file
ImplementsSecretMap == SecretMapSpec!Spec

\* Every call returns: no path of any operation keeps the mutex
\* (file.go:141-211).
OperationsReturn == \A c \in Clients : op[c].pc # "idle" ~> op[c].pc = "idle"
=============================================================================
