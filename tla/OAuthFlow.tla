----------------------------- MODULE OAuthFlow -----------------------------
(***************************************************************************)
(* The OAuth round trip (internal/httpapi/oauth.go) over the table         *)
(* oauth_states (internal/store/oauth.go).  oauthStart stores a fresh state*)
(* token; the browser comes back, perhaps twice, late, in another session  *)
(* or for another provider, and oauthComplete consumes the token, clears   *)
(* expired ones, exchanges the code and hands the credential to the        *)
(* connection (SetCredential of Connections).                              *)
(***************************************************************************)
EXTENDS Integers

CONSTANTS
    Tokens,         \* state tokens randomToken may return
    Providers, Subjects,
    Requests,       \* concurrent oauthComplete requests
    TTL,            \* oauthStateTTL, 10 minutes
    MaxTime,        \* last instant of the clock (bound)
    Nil

ASSUME OAuthAssumption ==
    /\ TTL \in Nat /\ MaxTime \in Nat
    /\ Nil \notin Tokens \cup Providers \cup Subjects

VARIABLES
    now,        \* the clock, in seconds
    row,        \* the table oauth_states
    request,    \* the completions in flight
    origin,     \* history: who started a token, for which provider, until when
    exchanges   \* history: how often a token led to a code exchange

vars == <<now, row, request, origin, exchanges>>

-----------------------------------------------------------------------------
NoRow == [provider |-> Nil, subject |-> Nil, expires |-> 0]
Idle == [pc |-> "idle", token |-> Nil, provider |-> Nil, subject |-> Nil]

Init ==
    /\ now = 0
    /\ row = [s \in Tokens |-> NoRow]
    /\ request = [c \in Requests |-> Idle]
    /\ origin = [s \in Tokens |-> NoRow]
    /\ exchanges = [s \in Tokens |-> 0]

Pending(s) == row[s] # NoRow

\* The token is random: never one that was used before.
OAuthStart(s, p, u) ==
    /\ now + TTL <= MaxTime
    /\ origin[s] = NoRow
    /\ row' = [row EXCEPT ![s] = [provider |-> p, subject |-> u, expires |-> now + TTL]]
    /\ origin' = [origin EXCEPT ![s] = row'[s]]
    /\ UNCHANGED <<now, request, exchanges>>

\* The browser comes back with a token, in some session, for some provider.
OAuthComplete(c, s, p, u) ==
    /\ request[c].pc = "idle"
    /\ request' = [request EXCEPT ![c] =
                    [pc |-> "consume", token |-> s, provider |-> p, subject |-> u]]
    /\ UNCHANGED <<now, row, origin, exchanges>>

Return(c) == request' = [request EXCEPT ![c] = Idle]
Goto(c, pc) == request' = [request EXCEPT ![c].pc = pc]

\* Mutant: the DELETE looks at the token alone, and the rest is checked later.
MatchesTokenOnly(c) == Pending(request[c].token) /\ row[request[c].token].expires > now

\* The WHERE clause of the DELETE.
Matches(c) ==
    LET q == request[c] IN
    /\ Pending(q.token)
    /\ row[q.token].provider = q.provider
    /\ row[q.token].subject = q.subject
    /\ row[q.token].expires > now

\* Mutant: the row is read but not deleted.
ReadOAuthState(c) ==
    /\ request[c].pc = "consume"
    /\ Matches(c)
    /\ Goto(c, "clear")
    /\ UNCHANGED <<now, row, origin, exchanges>>

\* Mutant: the row is blanked instead of deleted.
BlankOAuthState(c) ==
    /\ request[c].pc = "consume"
    /\ Matches(c)
    /\ row' = [row EXCEPT ![request[c].token].subject = Nil]
    /\ Goto(c, "clear")
    /\ UNCHANGED <<now, origin, exchanges>>

\* DELETE ... RETURNING: found and deleted in one statement.
ConsumeOAuthState(c) ==
    /\ request[c].pc = "consume"
    /\ Matches(c)
    /\ row' = [row EXCEPT ![request[c].token] = NoRow]
    /\ Goto(c, "clear")
    /\ UNCHANGED <<now, origin, exchanges>>

\* The token does not match, or the statement fails.
ConsumeFails(c) ==
    /\ request[c].pc = "consume"
    /\ Return(c)
    /\ UNCHANGED <<now, row, origin, exchanges>>

\* Mutant: rows that have not expired are cleared.
ExpiredWrongly(s) == Pending(s) /\ row[s].expires >= now

Expired(s) == Pending(s) /\ row[s].expires <= now

\* Expired rows are cleared on the way; whether that works is ignored.
ClearExpired(c) ==
    /\ request[c].pc = "clear"
    /\ row' \in {row, [s \in Tokens |-> IF Expired(s) THEN NoRow ELSE row[s]]}
    /\ Goto(c, "exchange")
    /\ UNCHANGED <<now, origin, exchanges>>

\* The code is sent to the token endpoint with the verifier of the row.
Exchange(c) ==
    /\ request[c].pc = "exchange"
    /\ exchanges' = [exchanges EXCEPT ![request[c].token] = @ + 1]
    /\ Return(c)
    /\ UNCHANGED <<now, row, origin>>

\* The process dies with its requests.
Crash ==
    /\ \E c \in Requests : request[c].pc # "idle"
    /\ request' = [c \in Requests |-> Idle]
    /\ UNCHANGED <<now, row, origin, exchanges>>

Advance ==
    /\ now < MaxTime
    /\ now' = now + 1
    /\ UNCHANGED <<row, request, origin, exchanges>>

Next ==
    \/ \E s \in Tokens, p \in Providers, u \in Subjects : OAuthStart(s, p, u)
    \/ \E c \in Requests, s \in Tokens, p \in Providers, u \in Subjects :
            OAuthComplete(c, s, p, u)
    \/ \E c \in Requests :
            ConsumeOAuthState(c) \/ ConsumeFails(c) \/ ClearExpired(c) \/ Exchange(c)
    \/ Crash \/ Advance

Spec == Init /\ [][Next]_vars

-----------------------------------------------------------------------------
(* Properties.                                                             *)

RowRecords ==
    [provider : Providers \cup {Nil}, subject : Subjects \cup {Nil}, expires : Nat]
RequestRecords ==
    [pc : {"idle", "consume", "clear", "exchange"}, token : Tokens \cup {Nil},
     provider : Providers \cup {Nil}, subject : Subjects \cup {Nil}]

\* Every variable keeps its type, and a row stays as it was created until it is
\* deleted.
TypeOK ==
    /\ now \in Nat
    /\ row \in [Tokens -> RowRecords] /\ origin \in [Tokens -> RowRecords]
    /\ \A s \in Tokens : row[s] \in {NoRow, origin[s]}
    /\ request \in [Requests -> RequestRecords]
    /\ exchanges \in [Tokens -> Nat]

\* "single-use" (docs/architecture.md:29): a token leads to at most one code
\* exchange, however often and concurrently the browser comes back
\* (store/oauth.go:35-36).
SingleUse == \A s \in Tokens : exchanges[s] <= 1

\* "bound to provider, site, initiating subject" (docs/architecture.md:29-30):
\* past the consumption of a token only its initiator goes on, for the provider
\* it was started for (httpapi/oauth.go:155-159).
RedeemerIsInitiator ==
    \A c \in Requests : request[c].pc \in {"clear", "exchange"} =>
        /\ origin[request[c].token].provider = request[c].provider
        /\ origin[request[c].token].subject = request[c].subject

\* A token lives until its initiator redeems it or it expires: a request of
\* another session or provider, or the clearing of old rows, never takes away
\* an authorization someone else is in the middle of (store/oauth.go:38-54).
TokenSurvivesStrangers ==
    [][\A s \in Tokens : Pending(s) /\ row'[s] = NoRow =>
        \/ row[s].expires <= now
        \/ \E c \in Requests :
            /\ request[c].token = s
            /\ request[c].provider = row[s].provider
            /\ request[c].subject = row[s].subject
            /\ request'[c].pc = "clear"]_vars
=============================================================================
