----------------------------- MODULE SecretMap -----------------------------
(***************************************************************************)
(* What a core.SecretStore promises (core/secrets.go): a map from          *)
(* references to scoped material in which Put, Open, Rotate and Revoke are *)
(* atomic, a tombstone is final and a handle carries what was current when *)
(* it was opened.  Memory (internal/secrets/memory.go) is this map under a *)
(* mutex; SecretFile is shown to implement it.                             *)
(***************************************************************************)
CONSTANTS Ids, Scopes, Materials, Clients, Nil

VARIABLES
    secret,     \* the entry of every reference
    handle      \* the material of the handle a client holds

vars == <<secret, handle>>

-----------------------------------------------------------------------------
Entry(scope, material, revoked) ==
    [scope |-> scope, material |-> material, revoked |-> revoked]

Absent == Entry(Nil, Nil, FALSE)

Init ==
    /\ secret = [i \in Ids |-> Absent]
    /\ handle = [c \in Clients |-> Nil]

\* Open and Rotate ask for a live entry of the caller's scope.
Usable(i, scope) == ~secret[i].revoked /\ secret[i].scope = scope

Put(i, scope, m) ==
    /\ secret[i] = Absent
    /\ secret' = [secret EXCEPT ![i] = Entry(scope, m, FALSE)]
    /\ UNCHANGED handle

Open(c, i, scope) ==
    /\ handle[c] = Nil
    /\ Usable(i, scope)
    /\ handle' = [handle EXCEPT ![c] = secret[i].material]
    /\ UNCHANGED secret

Rotate(i, scope, m) ==
    /\ Usable(i, scope)
    /\ secret' = [secret EXCEPT ![i].material = m]
    /\ UNCHANGED handle

\* The material is dropped, the tombstone stays.
Revoke(i, scope) ==
    /\ secret[i].scope = scope
    /\ secret' = [secret EXCEPT ![i] = Entry(scope, Nil, TRUE)]
    /\ UNCHANGED handle

\* Handles are closed by their holders, or go with their process.
Close(C) ==
    /\ handle' = [c \in Clients |-> IF c \in C THEN Nil ELSE handle[c]]
    /\ UNCHANGED secret

Next ==
    \/ \E i \in Ids, scope \in Scopes :
        \/ \E m \in Materials : Put(i, scope, m) \/ Rotate(i, scope, m)
        \/ \E c \in Clients : Open(c, i, scope)
        \/ Revoke(i, scope)
    \/ \E C \in SUBSET Clients : Close(C)

Spec == Init /\ [][Next]_vars
=============================================================================
