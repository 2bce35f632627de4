---------------------------- MODULE Connections ----------------------------
(***************************************************************************)
(* The credential life cycle of one provider connection: the handlers of   *)
(* internal/httpapi/connections.go and the tail of oauth.go, and the host's*)
(* ImportConnection (platform/platform.go), over the provider_connections  *)
(* row and the secret store.                                               *)
(*                                                                         *)
(* Handlers run concurrently; each reads the row once, talks to the secret *)
(* store and to the provider, and writes the row at the end.  One action   *)
(* is one access to the row or to the secret store.                        *)
(***************************************************************************)
EXTENDS FiniteSets

CONSTANTS
    Refs,           \* opaque references the secret store hands out
    Properties,     \* property references of the provider
    Handlers,       \* concurrent requests
    Ops,            \* the operations the instance exercises
    Faults,         \* whether statements may fail and the process may crash
    Nil             \* the empty reference, the empty property

ASSUME OpsAssumption == Ops \subseteq {"set", "property", "revoke", "import"}
ASSUME FaultsAssumption == Faults \in BOOLEAN
ASSUME NilAssumption == Nil \notin Refs \cup Properties

VARIABLES
    conn,       \* the row: credential_ref, property_reference, enabled
    secret,     \* secret[x]: "absent", "live" or "revoked" (a tombstone)
    handler,    \* the requests in flight
    tested,     \* history: the pairs a provider's Test has accepted
    lapses      \* history: what went wrong that no handler makes good

vars == <<conn, secret, handler, tested, lapses>>

-----------------------------------------------------------------------------
Disconnected == [ref |-> Nil, property |-> Nil, enabled |-> FALSE]

\* prev: the reference read from the row; new: the one Put returned;
\* property: what the handler will write.
Idle == [pc |-> "idle", op |-> Nil, prev |-> Nil, new |-> Nil, property |-> Nil]

Init ==
    /\ conn = Disconnected
    /\ secret = [x \in Refs |-> "absent"]
    /\ handler = [h \in Handlers |-> Idle]
    /\ tested = {}
    /\ lapses = {}

Goto(h, pc) == handler' = [handler EXCEPT ![h].pc = pc]
Return(h) == handler' = [handler EXCEPT ![h] = Idle]
Enters(h, op, pc, property) ==
    /\ handler[h].pc = "idle"
    /\ op \in Ops
    /\ handler' = [handler EXCEPT ![h] =
                    [pc |-> pc, op |-> op, prev |-> conn.ref, new |-> Nil,
                     property |-> property]]
    /\ UNCHANGED <<conn, secret, tested, lapses>>

Notes(cause, holds) == lapses' = IF holds THEN lapses \cup {cause} ELSE lapses

-----------------------------------------------------------------------------
(* The reads that open each handler.                                       *)

\* setCredential, and oauthComplete once its code is exchanged.
SetCredential(h) == Enters(h, "set", "put", conn.property)

\* An import does nothing when a credential is already there.
ImportConnection(h, p) == conn.ref = Nil /\ Enters(h, "import", "put", p)

SetProperty(h, p) == conn.ref # Nil /\ Enters(h, "property", "test", p)

RevokeConnection(h) ==
    Enters(h, "revoke", IF conn.ref = Nil THEN "clear" ELSE "kill", Nil)

-----------------------------------------------------------------------------
(* finishCredentialUpdate and the body of ImportConnection.                *)

PutSecret(h) ==
    /\ handler[h].pc = "put"
    /\ \E x \in Refs :
        /\ secret[x] = "absent"
        /\ secret' = [secret EXCEPT ![x] = "live"]
        /\ handler' = [handler EXCEPT ![h].pc = "validate", ![h].new = x]
    /\ UNCHANGED <<conn, tested, lapses>>

\* Mutants: an empty property is tested too; the old secret is revoked before
\* the row is swapped.
ValidateEmptyProperty(h) ==
    /\ handler[h].pc = "validate"
    /\ Goto(h, "swap")
    /\ tested' = tested \cup {<<handler[h].new, handler[h].property>>}
    /\ UNCHANGED <<conn, secret, lapses>>

ValidateRevokesOld(h) ==
    /\ handler[h].pc = "validate"
    /\ Goto(h, "swap")
    /\ secret' = [x \in Refs |-> IF x = handler[h].prev THEN "revoked" ELSE secret[x]]
    /\ UNCHANGED <<conn, tested, lapses>>

\* Discovery with the new secret, then a test of the property if there is one.
ValidateOk(h) ==
    /\ handler[h].pc = "validate"
    /\ Goto(h, "swap")
    /\ tested' = IF handler[h].property = Nil THEN tested
                 ELSE tested \cup {<<handler[h].new, handler[h].property>>}
    /\ UNCHANGED <<conn, secret, lapses>>

ValidateFails(h) ==
    /\ handler[h].pc = "validate"
    /\ Goto(h, "undo")
    /\ UNCHANGED <<conn, secret, tested, lapses>>

\* Mutants: no comparison; the row keeps its property and its flag; the row is
\* always enabled.
SwapUnconditionally(h) ==
    /\ handler[h].pc = "swap"
    /\ conn' = [ref |-> handler[h].new, property |-> handler[h].property,
                enabled |-> handler[h].property # Nil]
    /\ IF handler[h].prev = Nil THEN Return(h) ELSE Goto(h, "retire")
    /\ UNCHANGED <<secret, tested, lapses>>

SwapReferenceOnly(h) ==
    /\ handler[h].pc = "swap"
    /\ conn.ref = handler[h].prev
    /\ conn' = [conn EXCEPT !.ref = handler[h].new]
    /\ IF handler[h].prev = Nil THEN Return(h) ELSE Goto(h, "retire")
    /\ UNCHANGED <<secret, tested, lapses>>

SwapAlwaysEnables(h) ==
    /\ handler[h].pc = "swap"
    /\ conn.ref = handler[h].prev
    /\ conn' = [ref |-> handler[h].new, property |-> handler[h].property, enabled |-> TRUE]
    /\ IF handler[h].prev = Nil THEN Return(h) ELSE Goto(h, "retire")
    /\ UNCHANGED <<secret, tested, lapses>>

\* ConfigureConnectionCAS: only the reference is compared.
Swap(h) ==
    /\ handler[h].pc = "swap"
    /\ conn.ref = handler[h].prev
    /\ conn' = [ref |-> handler[h].new, property |-> handler[h].property,
                enabled |-> handler[h].property # Nil]
    /\ IF handler[h].prev = Nil THEN Return(h) ELSE Goto(h, "retire")
    /\ UNCHANGED <<secret, tested, lapses>>

SwapFails(h) ==
    /\ handler[h].pc = "swap"
    /\ Faults \/ conn.ref # handler[h].prev
    /\ Goto(h, "undo")
    /\ UNCHANGED <<conn, secret, tested, lapses>>

\* The secret that was not installed is revoked ...
Undo(h) ==
    /\ handler[h].pc = "undo"
    /\ secret' = [secret EXCEPT ![handler[h].new] = "revoked"]
    /\ Return(h)
    /\ UNCHANGED <<conn, tested, lapses>>

\* ... and after a swap the one that was replaced.
Retire(h) ==
    /\ handler[h].pc = "retire"
    /\ secret' = [secret EXCEPT ![handler[h].prev] = "revoked"]
    /\ Return(h)
    /\ UNCHANGED <<conn, tested, lapses>>

-----------------------------------------------------------------------------
(* setProperty: the reference read at the start is written back.           *)

TestProperty(h) ==
    /\ handler[h].pc = "test"
    /\ secret[handler[h].prev] = "live"
    /\ tested' = tested \cup {<<handler[h].prev, handler[h].property>>}
    /\ Goto(h, "configure")
    /\ UNCHANGED <<conn, secret, lapses>>

\* The secret cannot be opened, or the provider rejects the property.
TestPropertyFails(h) ==
    /\ handler[h].pc = "test"
    /\ Return(h)
    /\ UNCHANGED <<conn, secret, tested, lapses>>

ConfigureProperty(h) ==
    /\ handler[h].pc = "configure"
    /\ conn' = [ref |-> handler[h].prev, property |-> handler[h].property,
                enabled |-> TRUE]
    /\ Notes("overwrite", conn.ref # handler[h].prev)
    /\ Return(h)
    /\ UNCHANGED <<secret, tested>>

-----------------------------------------------------------------------------
(* revokeConnection: the secret dies first, then the row is cleared.       *)

KillSecret(h) ==
    /\ handler[h].pc = "kill"
    /\ secret' = [secret EXCEPT ![handler[h].prev] = "revoked"]
    /\ Goto(h, "clear")
    /\ UNCHANGED <<conn, tested, lapses>>

ClearConnection(h) ==
    /\ handler[h].pc = "clear"
    /\ conn' = Disconnected
    /\ Notes("overwrite", conn.ref \notin {handler[h].prev, Nil})
    /\ Return(h)
    /\ UNCHANGED <<secret, tested>>

-----------------------------------------------------------------------------
\* A handler here still has a secret to install or revoke, or a row to clear.
Owing == {"validate", "swap", "undo", "retire", "clear"}

\* A store or secret-store call fails where nothing is left to undo, or where
\* the failure to revoke is only logged.
Fails(h) ==
    /\ Faults
    /\ handler[h].pc \in {"put", "undo", "retire", "configure", "kill", "clear"}
    /\ Notes("unfinished", handler[h].pc \in Owing)
    /\ Return(h)
    /\ UNCHANGED <<conn, secret, tested>>

\* The process dies: the row and the secrets survive, the requests do not.
Crash ==
    /\ Faults
    /\ \E h \in Handlers : handler[h].pc # "idle"
    /\ handler' = [h \in Handlers |-> Idle]
    /\ Notes("unfinished", \E h \in Handlers : handler[h].pc \in Owing)
    /\ UNCHANGED <<conn, secret, tested>>

Step(h) ==
    \/ SetCredential(h) \/ RevokeConnection(h)
    \/ \E p \in Properties : SetProperty(h, p)
    \/ \E p \in Properties \cup {Nil} : ImportConnection(h, p)
    \/ PutSecret(h) \/ ValidateOk(h) \/ ValidateFails(h)
    \/ Swap(h) \/ SwapFails(h) \/ Undo(h) \/ Retire(h)
    \/ TestProperty(h) \/ TestPropertyFails(h) \/ ConfigureProperty(h)
    \/ KillSecret(h) \/ ClearConnection(h)
    \/ Fails(h)

Next == (\E h \in Handlers : Step(h)) \/ Crash

Spec == Init /\ [][Next]_vars

-----------------------------------------------------------------------------
(* Properties.                                                             *)

PCs == {"idle", "put", "validate", "swap", "undo", "retire", "test", "configure",
        "kill", "clear"}
ConnRecords ==
    [ref : Refs \cup {Nil}, property : Properties \cup {Nil}, enabled : BOOLEAN]
HandlerRecords ==
    [pc : PCs, op : Ops \cup {Nil}, prev : Refs \cup {Nil}, new : Refs \cup {Nil},
     property : Properties \cup {Nil}]

\* Every variable keeps its type.
TypeOK ==
    /\ conn \in ConnRecords
    /\ secret \in [Refs -> {"absent", "live", "revoked"}]
    /\ handler \in [Handlers -> HandlerRecords]
    /\ tested \subseteq Refs \X Properties
    /\ lapses \subseteq {"overwrite", "unfinished"}

\* The scheduler only ever runs a credential against a property it was tested
\* with, however rotations, property changes, imports, revocations and crashes
\* interleave: nobody enables a pair nobody tested (connections.go:80-97, 211-218).
EnabledIsTested == conn.enabled => <<conn.ref, conn.property>> \in tested

\* A connection is enabled exactly when it has a property, and has a property
\* only with a credential (connections.go:96, platform.go:266-269).
EnabledHasProperty ==
    /\ conn.enabled <=> conn.property # Nil
    /\ conn.property # Nil => conn.ref # Nil

\* "ImportConnection never replaces an existing credential" (platform.go:200).
ImportNeverReplaces ==
    [][\A h \in Handlers :
        handler[h].op = "import" /\ handler[h].pc = "swap" /\ conn'.ref # conn.ref
            /\ handler'[h] # handler[h] => conn.ref = Nil]_vars

\* The compare-and-swap "prevents concurrent reconfiguration from revoking the
\* credential another administrator just installed" (store.go:171-172): the
\* credential the row references can be opened.
InstalledSecretLives == conn.ref # Nil => secret[conn.ref] = "live"

\* Over all handlers, with failures and crashes, the row references a live
\* secret or a revocation is about to clear it, unless a handler overwrote a row
\* that had changed since it read it (connections.go:218, 285) or was cut off
\* before it was through (connections.go:110-112).
NoDanglingRef ==
    lapses = {} /\ conn.ref # Nil =>
        \/ secret[conn.ref] = "live"
        \/ \E h \in Handlers : handler[h].pc = "clear" /\ handler[h].prev = conn.ref

\* The secrets a handler in flight is going to install or revoke.
InFlight(h) ==
    CASE handler[h].pc \in {"validate", "swap", "undo"} -> {handler[h].new}
      [] handler[h].pc = "retire" -> {handler[h].prev}
      [] OTHER -> {}

\* With the same two exceptions no credential material outlives its use: a live
\* secret is the installed one or is about to be installed or revoked.
NoOrphanSecret ==
    lapses = {} =>
        \A x \in Refs : secret[x] = "live" =>
            x = conn.ref \/ \E h \in Handlers : x \in InFlight(h)

=============================================================================
