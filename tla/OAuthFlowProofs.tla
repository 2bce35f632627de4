-------------------------- MODULE OAuthFlowProofs --------------------------
(***************************************************************************)
(* The state token of an authorization, for every number of tokens,        *)
(* sessions and concurrent completions.                                    *)
(***************************************************************************)
EXTENDS OAuthFlow, TLAPS

Past == {"clear", "exchange"}       \* the token is consumed, the code not sent

\* A token is unused, in the table, in one request past its consumption, or
\* spent: one of these at a time.
OnePlace ==
    /\ \A s \in Tokens :
          /\ exchanges[s] =< 1
          /\ row[s] # NoRow \/ origin[s] = NoRow => exchanges[s] = 0
    /\ \A c \in Requests :
          /\ request[c].pc # "idle" => request[c].token \in Tokens
          /\ request[c].pc \in Past =>
                /\ row[request[c].token] = NoRow /\ origin[request[c].token] # NoRow
                /\ exchanges[request[c].token] = 0
    /\ \A c, d \in Requests :
          /\ request[c].pc \in Past /\ request[d].pc \in Past
          /\ request[c].token = request[d].token
          => c = d

Inv == TypeOK /\ OnePlace /\ RedeemerIsInitiator

\* The blank row and the blank request are typed.
LEMMA BlankTypes ==
    /\ NoRow \in RowRecords /\ NoRow.provider = Nil
    /\ Idle \in RequestRecords /\ Idle.pc = "idle"
BY DEF NoRow, Idle, RowRecords, RequestRecords

\* A request moves on, or returns.
LEMMA GotoFacts ==
    ASSUME request \in [Requests -> RequestRecords], NEW c \in Requests,
           NEW pc \in {"clear", "exchange"}, Goto(c, pc)
    PROVE  /\ request' \in [Requests -> RequestRecords]
           /\ request'[c].pc = pc /\ request'[c].token = request[c].token
           /\ request'[c].provider = request[c].provider
           /\ request'[c].subject = request[c].subject
           /\ \A d \in Requests : d # c => request'[d] = request[d]
BY DEF Goto, RequestRecords

LEMMA ReturnFacts ==
    ASSUME request \in [Requests -> RequestRecords], NEW c \in Requests, Return(c)
    PROVE  /\ request' \in [Requests -> RequestRecords] /\ request'[c].pc = "idle"
           /\ \A d \in Requests : d # c => request'[d] = request[d]
BY BlankTypes DEF Return

\* The invariant holds initially.
LEMMA InvInit == Init => Inv
<1> SUFFICES ASSUME Init PROVE Inv
  OBVIOUS
<1>1. TypeOK
  BY BlankTypes DEF Init, TypeOK
<1>2. OnePlace /\ RedeemerIsInitiator
  BY BlankTypes DEF Init, OnePlace, Past, RedeemerIsInitiator
<1> QED BY <1>1, <1>2 DEF Inv

\* A fresh token enters the table.
LEMMA InvStart ==
    ASSUME Inv, NEW s \in Tokens, NEW p \in Providers, NEW u \in Subjects,
           OAuthStart(s, p, u)
    PROVE  Inv'
<1> USE DEF Inv
<1> DEFINE new == [provider |-> p, subject |-> u, expires |-> now + TTL]
<1>0. /\ origin[s] = NoRow /\ row' = [row EXCEPT ![s] = new]
      /\ origin' = [origin EXCEPT ![s] = row'[s]]
      /\ UNCHANGED <<now, request, exchanges>>
      /\ row \in [Tokens -> RowRecords] /\ origin \in [Tokens -> RowRecords]
  BY DEF OAuthStart, TypeOK
<1>1. new \in RowRecords /\ new # NoRow
  <2>1. now + TTL \in Nat
    BY OAuthAssumption DEF TypeOK
  <2>2. new.provider # Nil
    BY OAuthAssumption
  <2> QED BY <2>1, <2>2, BlankTypes DEF RowRecords
<1> HIDE DEF new
<1>2. /\ row'[s] = new /\ origin'[s] = new
      /\ \A t \in Tokens : t # s => row'[t] = row[t] /\ origin'[t] = origin[t]
      /\ row' \in [Tokens -> RowRecords] /\ origin' \in [Tokens -> RowRecords]
  BY <1>0, <1>1
<1>3. TypeOK'
  BY <1>0, <1>2 DEF TypeOK
<1>4. \A c \in Requests : request[c].pc \in Past => request[c].token # s
  BY <1>0 DEF OnePlace
<1>5. OnePlace'
  BY <1>0, <1>2, <1>4 DEF OnePlace, Past
<1>6. RedeemerIsInitiator'
  BY <1>0, <1>2, <1>4 DEF RedeemerIsInitiator, OnePlace, Past
<1> QED BY <1>3, <1>5, <1>6

\* A completion arrives.
LEMMA InvComplete ==
    ASSUME Inv, NEW c \in Requests, NEW s \in Tokens, NEW p \in Providers,
           NEW u \in Subjects, OAuthComplete(c, s, p, u)
    PROVE  Inv'
<1> USE DEF Inv
<1>1. /\ request' \in [Requests -> RequestRecords]
      /\ request'[c].pc = "consume" /\ request'[c].token = s
      /\ \A d \in Requests : d # c => request'[d] = request[d]
      /\ UNCHANGED <<now, row, origin, exchanges>>
  BY DEF OAuthComplete, TypeOK, RequestRecords
<1>2. TypeOK'
  BY <1>1 DEF TypeOK
<1>3. OnePlace' /\ RedeemerIsInitiator'
  BY <1>1 DEF OnePlace, Past, RedeemerIsInitiator
<1> QED BY <1>2, <1>3

\* A token leaves the table and enters one request.
LEMMA InvConsume ==
    ASSUME Inv, NEW c \in Requests, ConsumeOAuthState(c)
    PROVE  Inv'
<1> USE DEF Inv
<1> DEFINE s == request[c].token
<1>0. /\ s \in Tokens /\ row[s] # NoRow /\ row[s] = origin[s]
      /\ row[s].provider = request[c].provider /\ row[s].subject = request[c].subject
      /\ row' = [row EXCEPT ![s] = NoRow] /\ Goto(c, "clear")
      /\ UNCHANGED <<now, origin, exchanges>> /\ request[c].pc = "consume"
      /\ row \in [Tokens -> RowRecords] /\ request \in [Requests -> RequestRecords]
  BY DEF ConsumeOAuthState, Matches, Pending, OnePlace, TypeOK
<1>1. /\ request' \in [Requests -> RequestRecords]
      /\ request'[c].pc = "clear" /\ request'[c].token = s
      /\ request'[c].provider = request[c].provider
      /\ request'[c].subject = request[c].subject
      /\ \A d \in Requests : d # c => request'[d] = request[d]
  BY <1>0, GotoFacts
<1> HIDE DEF s
<1>2. /\ row'[s] = NoRow /\ row' \in [Tokens -> RowRecords]
      /\ \A t \in Tokens : t # s => row'[t] = row[t]
  BY <1>0, BlankTypes
<1>3. TypeOK'
  BY <1>0, <1>1, <1>2 DEF TypeOK
<1>4. exchanges[s] = 0 /\ \A d \in Requests : request[d].pc \in Past => request[d].token # s
  BY <1>0 DEF OnePlace
<1>5. OnePlace'
  BY <1>0, <1>1, <1>2, <1>4 DEF OnePlace, Past
<1>6. RedeemerIsInitiator'
  BY <1>0, <1>1 DEF RedeemerIsInitiator
<1> QED BY <1>3, <1>5, <1>6

\* Requests that return take no token along.
LEMMA InvReturn ==
    ASSUME Inv, request' \in [Requests -> RequestRecords],
           \A c \in Requests : request'[c].pc = "idle" \/ request'[c] = request[c],
           UNCHANGED <<row, origin, exchanges>>, now' \in Nat
    PROVE  Inv'
<1> USE DEF Inv
<1>1. TypeOK'
  BY DEF TypeOK
<1>2. OnePlace' /\ RedeemerIsInitiator'
  BY DEF OnePlace, Past, RedeemerIsInitiator
<1> QED BY <1>1, <1>2

\* Expired rows leave the table.
LEMMA InvClear ==
    ASSUME Inv, NEW c \in Requests, ClearExpired(c)
    PROVE  Inv'
<1> USE DEF Inv
<1>0. /\ request[c].pc = "clear" /\ Goto(c, "exchange")
      /\ row' \in {row, [s \in Tokens |-> IF Expired(s) THEN NoRow ELSE row[s]]}
      /\ UNCHANGED <<now, origin, exchanges>>
      /\ row \in [Tokens -> RowRecords] /\ request \in [Requests -> RequestRecords]
  BY DEF ClearExpired, TypeOK
<1>1. /\ request' \in [Requests -> RequestRecords]
      /\ request'[c].pc = "exchange" /\ request'[c].token = request[c].token
      /\ request'[c].provider = request[c].provider
      /\ request'[c].subject = request[c].subject
      /\ \A d \in Requests : d # c => request'[d] = request[d]
  BY <1>0, GotoFacts
<1>2. /\ row' \in [Tokens -> RowRecords]
      /\ \A s \in Tokens : row'[s] \in {row[s], NoRow}
  BY <1>0, BlankTypes
<1>3. TypeOK'
  BY <1>0, <1>1, <1>2 DEF TypeOK
<1>4. OnePlace'
  BY <1>0, <1>1, <1>2 DEF OnePlace, Past
<1>5. RedeemerIsInitiator'
  BY <1>0, <1>1 DEF RedeemerIsInitiator
<1> QED BY <1>3, <1>4, <1>5

\* The code is exchanged and the token is spent.
LEMMA InvExchange ==
    ASSUME Inv, NEW c \in Requests, Exchange(c)
    PROVE  Inv'
<1> USE DEF Inv
<1> DEFINE s == request[c].token
<1>0. /\ request[c].pc = "exchange" /\ Return(c)
      /\ exchanges' = [exchanges EXCEPT ![s] = @ + 1]
      /\ UNCHANGED <<now, row, origin>> /\ request \in [Requests -> RequestRecords]
      /\ exchanges \in [Tokens -> Nat]
  BY DEF Exchange, TypeOK
<1>1. /\ s \in Tokens /\ exchanges[s] = 0 /\ row[s] = NoRow /\ origin[s] # NoRow
      /\ \A d \in Requests : d # c /\ request[d].pc \in Past => request[d].token # s
  BY <1>0 DEF OnePlace, Past
<1>2. /\ request' \in [Requests -> RequestRecords] /\ request'[c].pc = "idle"
      /\ \A d \in Requests : d # c => request'[d] = request[d]
  BY <1>0, ReturnFacts
<1> HIDE DEF s
<1>3. /\ exchanges' \in [Tokens -> Nat] /\ exchanges'[s] = 1
      /\ \A t \in Tokens : t # s => exchanges'[t] = exchanges[t]
  BY <1>0, <1>1
<1>4. TypeOK'
  BY <1>0, <1>2, <1>3 DEF TypeOK
<1>5. OnePlace'
  BY <1>0, <1>1, <1>2, <1>3 DEF OnePlace, Past
<1>6. RedeemerIsInitiator'
  BY <1>0, <1>2 DEF RedeemerIsInitiator
<1> QED BY <1>4, <1>5, <1>6

\* Every step of the system keeps the invariant.
LEMMA InvNext == Inv /\ [Next]_vars => Inv'
<1> SUFFICES ASSUME Inv, [Next]_vars PROVE Inv'
  OBVIOUS
<1>0. request \in [Requests -> RequestRecords] /\ now \in Nat
  BY DEF Inv, TypeOK
<1>1. ASSUME NEW c \in Requests, ConsumeFails(c) PROVE Inv'
  BY <1>0, <1>1, InvReturn, ReturnFacts DEF ConsumeFails
<1>2. CASE Crash
  BY <1>0, <1>2, InvReturn, BlankTypes DEF Crash
<1>3. CASE Advance \/ UNCHANGED vars
  BY <1>0, <1>3, InvReturn DEF Advance, vars
<1> QED BY <1>1, <1>2, <1>3, InvStart, InvComplete, InvConsume, InvClear, InvExchange
        DEF Next

\* The invariant holds throughout.
LEMMA Invariance == Spec => []Inv
BY InvInit, InvNext, PTL DEF Spec

\* Every variable keeps its type, and rows stay as they were created.
THEOREM TypeCorrect == Spec => []TypeOK
<1>1. Inv => TypeOK
  BY DEF Inv
<1> QED BY <1>1, Invariance, PTL

\* A token leads to at most one code exchange, however many completions carry it
\* (ConsumeOAuthState).
THEOREM TokensWorkOnce == Spec => []SingleUse
<1>1. Inv => SingleUse
  BY DEF Inv, OnePlace, SingleUse
<1> QED BY <1>1, Invariance, PTL

\* Only the session that started an authorization gets past the consumption, and
\* only for the provider it was started for (ConsumeOAuthState).
THEOREM OnlyInitiatorsRedeem == Spec => []RedeemerIsInitiator
<1>1. Inv => RedeemerIsInitiator
  BY DEF Inv
<1> QED BY <1>1, Invariance, PTL

\* What takes a row away: its initiator, or time.
LEMMA StrangersKeepRows ==
    ASSUME Inv, [Next]_vars, NEW s \in Tokens, row[s] # NoRow, row'[s] = NoRow
    PROVE  \/ row[s].expires <= now
           \/ \E c \in Requests :
                 /\ request[c].token = s
                 /\ request[c].provider = row[s].provider
                 /\ request[c].subject = row[s].subject
                 /\ request'[c].pc = "clear"
<1>0. /\ row \in [Tokens -> RowRecords] /\ origin \in [Tokens -> RowRecords]
      /\ row[s] = origin[s] /\ request \in [Requests -> RequestRecords]
  BY DEF Inv, TypeOK
<1>1. ASSUME NEW t \in Tokens, NEW p \in Providers, NEW u \in Subjects, OAuthStart(t, p, u)
      PROVE  FALSE
  <2>1. t # s /\ row' = [row EXCEPT ![t] = [provider |-> p, subject |-> u,
                                            expires |-> now + TTL]]
    BY <1>0, <1>1 DEF OAuthStart
  <2> QED BY <2>1, <1>0
<1>2. ASSUME NEW c \in Requests, ConsumeOAuthState(c)
      PROVE  /\ request[c].token = s
             /\ request[c].provider = row[s].provider
             /\ request[c].subject = row[s].subject
             /\ request'[c].pc = "clear"
  <2>1. /\ row' = [row EXCEPT ![request[c].token] = NoRow] /\ Goto(c, "clear")
        /\ row[request[c].token].provider = request[c].provider
        /\ row[request[c].token].subject = request[c].subject
    BY <1>2 DEF ConsumeOAuthState, Matches
  <2>2. request[c].token = s
    BY <2>1, <1>0
  <2>3. request'[c].pc = "clear"
    BY <2>1, <1>0, GotoFacts
  <2> QED BY <2>1, <2>2, <2>3
<1>3. ASSUME NEW c \in Requests, ClearExpired(c)
      PROVE  row[s].expires <= now
  <2>1. row'[s] = row[s] \/ row'[s] = IF Expired(s) THEN NoRow ELSE row[s]
    BY <1>3 DEF ClearExpired
  <2> QED BY <2>1 DEF Expired
<1>4. \/ \E t \in Tokens, p \in Providers, u \in Subjects : OAuthStart(t, p, u)
      \/ \E c \in Requests : ConsumeOAuthState(c) \/ ClearExpired(c)
  BY DEF Next, vars, OAuthComplete, ConsumeFails, Exchange, Crash, Advance
<1> QED BY <1>1, <1>2, <1>3, <1>4

\* A token lives until its initiator redeems it or it expires.
THEOREM TokensSurviveStrangers == Spec => TokenSurvivesStrangers
<1>1. Inv /\ [Next]_vars =>
          [\A s \in Tokens : Pending(s) /\ row'[s] = NoRow =>
              \/ row[s].expires <= now
              \/ \E c \in Requests :
                  /\ request[c].token = s
                  /\ request[c].provider = row[s].provider
                  /\ request[c].subject = row[s].subject
                  /\ request'[c].pc = "clear"]_vars
  BY StrangersKeepRows DEF Pending
<1> QED BY <1>1, Invariance, PTL DEF Spec, TokenSurvivesStrangers

=============================================================================
