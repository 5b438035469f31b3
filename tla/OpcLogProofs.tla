------------------------------ MODULE OpcLogProofs ------------------------------
(***************************************************************************)
(* Theorems about OpcLog: types, the maps that share a ClientSession, what *)
(* a client is reported as, the order of its connections, the downtime     *)
(* between them, and what is listed.                                       *)
(***************************************************************************)
EXTENDS OpcLog, FiniteSetTheorems, TLAPS

ClientType(g) ==
    [token : 0 .. g, connectedAt : Nat, disconnectedAt : Nat, active : BOOLEAN,
     past : Seq(SpanType)]

-----------------------------------------------------------------------------
(* The invariant, part by part.                                            *)

(* A request under way is the one its address waits for, and its client    *)
(* has no session; a token leads to a client that has appeared.            *)
OneRequest == \A d, e \in Addresses : asking[d] # Nobody /\ asking[d] = asking[e] => d = e
Waiting ==
    \A d \in Addresses : asking[d] # Nobody =>
        /\ pending[d] = asking[d] /\ Known(asking[d])
        /\ client[asking[d]].token = NoToken /\ current[asking[d]] = NoToken
Found == \A t \in Tokens : sessions[t] # Nobody => t <= granted /\ Known(sessions[t])
Held ==
    \A a \in Applications : client[a].token # NoToken => sessions[client[a].token] = a
Reported(a) ==
    /\ client[a].active <=> current[a] # NoToken
    /\ client[a].active => client[a].token = current[a] /\ sessions[current[a]] = a
(* Nothing lies after the last record, and a client that never asked has   *)
(* no history.                                                             *)
Timely(a) ==
    /\ client[a].connectedAt <= now /\ client[a].disconnectedAt <= now /\ offSince[a] <= now
    /\ ~Known(a) => client[a].disconnectedAt = 0 /\ client[a].past = <<>>
InOrder(spans) ==
    \A i \in DOMAIN spans :
        /\ spans[i].disconnectedAt # 0 => spans[i].connectedAt < spans[i].disconnectedAt
        /\ i < Len(spans) =>
              /\ spans[i].connectedAt < spans[i + 1].connectedAt
              /\ spans[i].disconnectedAt < spans[i + 1].connectedAt
Ordered(a) == InOrder(Spans(a))
Handshakes == OneRequest /\ Waiting /\ Found /\ Held /\ OneKeyPerClient
Inv ==
    /\ TypeOK /\ Handshakes
    /\ \A a \in Applications : Reported(a) /\ Timely(a) /\ Ordered(a)

-----------------------------------------------------------------------------
(* What the steps do to a client.                                          *)

LEMMA ClientFields ==
    ASSUME TypeOK, NEW a \in Applications
    PROVE  /\ client[a] \in ClientType(granted) /\ client[a].token \in 0 .. granted
           /\ client[a].connectedAt \in Nat /\ client[a].disconnectedAt \in Nat
           /\ client[a].active \in BOOLEAN /\ client[a].past \in Seq(SpanType)
    BY DEF TypeOK, ClientType

LEMMA RecordRead == TypeOK /\ NextRecord => now \in Nat /\ now' = now + 1 /\ now' \in 0 .. MaxRecords
    BY OpcLogAssumption DEF TypeOK, NextRecord

(* A request begins a new connection and keeps the one before.             *)
LEMMA Requested ==
    ASSUME TypeOK, NEW a \in Applications, NEW d \in Addresses, CreateSessionRequest(a, d)
    PROVE  /\ \A b \in Applications \ {a} : client'[b] = client[b]
           /\ Known(a) =>
                client'[a] = [token |-> NoToken, connectedAt |-> now', disconnectedAt |-> 0,
                              active |-> FALSE, past |-> Append(client[a].past, Span(client[a]))]
           /\ ~Known(a) =>
                client'[a] = [token |-> client[a].token, connectedAt |-> now',
                              disconnectedAt |-> client[a].disconnectedAt,
                              active |-> client[a].active, past |-> client[a].past]
    <1>1. client[a] \in ClientType(granted)
        BY ClientFields
    <1>2. client' = [client EXCEPT ![a] = IF Known(a) THEN Reconnected(client[a])
                                          ELSE Appeared(client[a])]
        BY DEF CreateSessionRequest, TypeOK
    <1>3. \A b \in Applications \ {a} : client'[b] = client[b]
        BY <1>2 DEF TypeOK
    <1>4. CASE Known(a)
        <2>1. client'[a] = Reconnected(client[a])
            BY <1>2, <1>4 DEF TypeOK
        <2>2. QED
            BY <1>1, <1>3, <1>4, <2>1 DEF Reconnected, ClientType
    <1>5. CASE ~Known(a)
        <2>1. client'[a] = Appeared(client[a])
            BY <1>2, <1>5 DEF TypeOK
        <2>2. QED
            BY <1>1, <1>3, <1>5, <2>1 DEF Appeared, ClientType
    <1>6. QED
        BY <1>4, <1>5

(* A response gives the client its token.                                  *)
LEMMA Responded ==
    ASSUME TypeOK, NEW d \in Addresses, CreateSessionResponse(d), NEW a \in Applications
    PROVE  client'[a] = IF a = pending[d]
                        THEN [client[a] EXCEPT !.token = granted', !.active = TRUE]
                        ELSE client[a]
    <1>1. CASE pending[d] = Nobody
        BY <1>1, OpcLogAssumption DEF CreateSessionResponse
    <1>2. CASE pending[d] # Nobody
        <2>1. client' = [client EXCEPT ![pending[d]] = [client[pending[d]] EXCEPT !.token = granted',
                                                                             !.active = TRUE]]
            BY <1>2 DEF CreateSessionResponse, TypeOK
        <2>2. QED
            BY <2>1 DEF TypeOK
    <1>3. QED
        BY <1>1, <1>2

(* The end of a connection is noted once it is logged.                     *)
EndsAt(c, after) ==
    /\ after.token = c.token /\ after.connectedAt = c.connectedAt /\ after.past = c.past
    /\ after.disconnectedAt \in {c.disconnectedAt, now'}
    /\ after.active = FALSE

(* Whatever a record of a session does, it does to the client under its    *)
(* token, and ends its connection.                                         *)
EndOf(t) == ActivateSessionRejected(t) \/ ServiceFault(t) \/ CloseSession(t)

LEMMA Ended ==
    ASSUME TypeOK, NEW t \in Tokens, EndOf(t), NEW a \in Applications
    PROVE  /\ a # sessions[t] => client'[a] = client[a]
           /\ a = sessions[t] => EndsAt(client[a], client'[a]) \/ client'[a] = client[a]
           /\ a = sessions[t] => ~client'[a].active
           /\ client'[a] \in ClientType(granted)
    <1>0. NextRecord
        BY DEF EndOf, ActivateSessionRejected, ServiceFault, CloseSession
    <1>1. client[a] \in ClientType(granted) /\ now' \in Nat
        BY <1>0, ClientFields, RecordRead
    <1> USE DEF TypeOK, EndsAt, ClientType
    <1>2. /\ client[a].token \in 0 .. granted /\ client[a].connectedAt \in Nat
          /\ client[a].disconnectedAt \in Nat /\ client[a].past \in Seq(SpanType)
        BY ClientFields
    <1>3. client'[a] \in {client[a], [client[a] EXCEPT !.active = FALSE], Disconnected(client[a])}
        BY DEF EndOf, ActivateSessionRejected, ServiceFault, CloseSession
    <1>4. a # sessions[t] => client'[a] = client[a]
        BY DEF EndOf, ActivateSessionRejected, ServiceFault, CloseSession
    <1>5. a = sessions[t] =>
            \/ client'[a] = client[a] /\ ~client[a].active
            \/ client'[a] \in {[client[a] EXCEPT !.active = FALSE], Disconnected(client[a])}
        BY DEF EndOf, ActivateSessionRejected, ServiceFault, CloseSession
    <1>6. ASSUME NEW c \in {[client[a] EXCEPT !.active = FALSE], Disconnected(client[a])}
          PROVE  EndsAt(client[a], c) /\ c \in ClientType(granted)
        <2>1. CASE c = [client[a] EXCEPT !.active = FALSE]
            BY <1>1, <1>2, <2>1
        <2>2. CASE c = Disconnected(client[a])
            BY <1>1, <1>2, <2>2 DEF Disconnected
        <2>3. QED
            BY <2>1, <2>2
    <1>7. QED
        BY <1>1, <1>3, <1>4, <1>5, <1>6

-----------------------------------------------------------------------------
(* Types.                                                                  *)

LEMMA TypeRequest ==
    ASSUME Inv, NEW a \in Applications, NEW d \in Addresses, CreateSessionRequest(a, d)
    PROVE  TypeOK'
    <1> USE DEF Inv
    <1>1. now \in Nat /\ now' = now + 1 /\ now' \in 0 .. MaxRecords
        BY RecordRead DEF CreateSessionRequest
    <1>2. granted' = granted /\ UNCHANGED <<tagged, carried>>
        BY DEF CreateSessionRequest, Request, actives
    <1>3. asking' \in [Addresses -> Clients] /\ pending' \in [Addresses -> Clients]
        BY DEF TypeOK, CreateSessionRequest, Request, Clients
    <1>4. current' \in [Applications -> 0 .. granted]
        BY DEF TypeOK, CreateSessionRequest, Request, NoToken
    <1>5. offSince' \in [Applications -> Nat]
        BY <1>1 DEF TypeOK, CreateSessionRequest, Request
    <1>6. offline' \in [Applications -> Nat]
        <2>1. offline[a] \in Nat /\ offSince[a] \in Nat /\ offSince[a] <= now
            BY DEF TypeOK, Timely
        <2>2. offline[a] + now' - offSince[a] \in Nat
            BY <1>1, <2>1
        <2>3. QED
            BY <2>1, <2>2 DEF TypeOK, CreateSessionRequest, Request
    <1>7. sessions' \in [Tokens -> Clients]
        BY DEF TypeOK, CreateSessionRequest, OldKeyDropped, Clients
    <1>8. client' \in [Applications -> ClientType(granted)]
        <2>1. client'[a] \in ClientType(granted)
            <3>1. NoToken \in 0 .. granted
                BY DEF TypeOK, NoToken
            <3>2. Append(client[a].past, Span(client[a])) \in Seq(SpanType)
                BY ClientFields DEF Span, SpanType
            <3>3. \E n \in 0 .. granted, e \in Nat, x \in BOOLEAN, h \in Seq(SpanType) :
                    client'[a] = [token |-> n, connectedAt |-> now', disconnectedAt |-> e,
                                  active |-> x, past |-> h]
                <4>1. CASE Known(a)
                    BY <3>1, <3>2, <4>1, Requested
                <4>2. CASE ~Known(a)
                    BY <4>2, Requested, ClientFields
                <4>3. QED
                    BY <4>1, <4>2
            <3>4. QED
                BY <1>1, <3>3 DEF ClientType
        <2>2. \A b \in Applications : client'[b] \in ClientType(granted)
            BY <2>1, Requested, ClientFields
        <2>3. client' = [b \in Applications |-> client'[b]]
            BY DEF TypeOK, CreateSessionRequest
        <2>4. QED
            BY <2>2, <2>3
    <1>9. QED
        BY <1>1, <1>2, <1>3, <1>4, <1>5, <1>6, <1>7, <1>8 DEF TypeOK, ClientType

LEMMA TypeResponse ==
    ASSUME Inv, NEW d \in Addresses, CreateSessionResponse(d)
    PROVE  TypeOK'
    <1> USE DEF Inv
    <1>1. now' \in 0 .. MaxRecords
        BY RecordRead DEF CreateSessionResponse
    <1>2. /\ granted \in Nat /\ granted' = granted + 1
          /\ granted' \in 0 .. MaxTokens /\ granted' \in Tokens
        BY OpcLogAssumption DEF CreateSessionResponse, TypeOK, Tokens
    <1>3. UNCHANGED <<offSince, offline, tagged, carried>>
        BY DEF CreateSessionResponse, actives
    <1>4. asking' \in [Addresses -> Clients] /\ pending' \in [Addresses -> Clients]
        BY DEF TypeOK, CreateSessionResponse, Answered, Clients
    <1>5. current' \in [Applications -> 0 .. granted']
        <2>1. 0 .. granted \subseteq 0 .. granted' /\ granted' \in 0 .. granted'
            BY <1>2
        <2>2. current' = [current EXCEPT ![asking[d]] = granted']
            BY DEF CreateSessionResponse
        <2>3. QED
            BY <2>1, <2>2 DEF TypeOK
    <1>6. sessions' \in [Tokens -> Clients]
        <2>1. pending[d] \in Clients
            BY DEF TypeOK
        <2>2. QED
            BY <2>1 DEF TypeOK, CreateSessionResponse
    <1>7. client' \in [Applications -> ClientType(granted')]
        <2>1. ASSUME NEW a \in Applications PROVE client'[a] \in ClientType(granted')
            <3>1. client[a] \in ClientType(granted) /\ client[a].token \in 0 .. granted'
                BY <1>2, ClientFields
            <3>2. granted' \in 0 .. granted'
                BY <1>2
            <3>3. QED
                BY <3>1, <3>2, Responded DEF ClientType
        <2>2. client' = [a \in Applications |-> client'[a]]
            BY DEF TypeOK, CreateSessionResponse
        <2>3. QED
            BY <2>1, <2>2
    <1>8. QED
        BY <1>1, <1>2, <1>3, <1>4, <1>5, <1>6, <1>7 DEF TypeOK, ClientType

LEMMA TypeEnd ==
    ASSUME Inv, NEW t \in Tokens, EndOf(t)
    PROVE  TypeOK'
    <1> USE DEF Inv
    <1>1. NextRecord /\ Ends(t) /\ UNCHANGED <<sessions, pending>>
        BY DEF EndOf, ActivateSessionRejected, ServiceFault, CloseSession
    <1>2. now \in Nat /\ now' = now + 1 /\ now' \in 0 .. MaxRecords
        BY <1>1, RecordRead
    <1>3. UNCHANGED <<granted, asking, offline>>
        BY <1>1 DEF Ends
    <1>4. current' \in [Applications -> 0 .. granted] /\ offSince' \in [Applications -> Nat]
        BY <1>1, <1>2 DEF TypeOK, Ends, NoToken
    <1>5. /\ tagged' \in [Tokens -> {"unseen", "active", "inactive"}]
          /\ carried' \subseteq Tokens
        BY DEF TypeOK, EndOf, ActivateSessionRejected, ServiceFault, CloseSession, Mentions, Seen
    <1>6. client' \in [Applications -> ClientType(granted)]
        <2>1. client' = [a \in Applications |-> client'[a]]
            BY DEF EndOf, ActivateSessionRejected, ServiceFault, CloseSession
        <2>2. QED
            BY <2>1, Ended
    <1>7. QED
        BY <1>1, <1>2, <1>3, <1>4, <1>5, <1>6 DEF TypeOK, ClientType

(* A record that only mentions a session, a rejected request, or none.     *)
Passes ==
    /\ now' = now \/ now' = now + 1
    /\ asking' = asking \/ \E d \in Addresses : asking' = [asking EXCEPT ![d] = Nobody]
    /\ \A d \in Addresses : pending'[d] = pending[d] \/ asking'[d] = Nobody
    /\ UNCHANGED <<granted, current, offSince, offline, client, sessions>>

LEMMA TypePasses ==
    ASSUME Inv, \/ UNCHANGED vars
                \/ \E t \in Tokens : Used(t)
                \/ \E d \in Addresses : CreateSessionRejected(d)
    PROVE  TypeOK' /\ Passes
    <1> USE DEF Inv
    <1>1. CASE UNCHANGED vars
        BY <1>1 DEF TypeOK, Passes, vars, world, handshakes, actives
    <1>2. ASSUME NEW t \in Tokens, Used(t) PROVE TypeOK' /\ Passes
        <2>1. now' = now + 1 /\ now' \in 0 .. MaxRecords
            BY <1>2, RecordRead DEF Used
        <2>2. /\ tagged' \in [Tokens -> {"unseen", "active", "inactive"}]
              /\ carried' \subseteq Tokens
            BY <1>2 DEF Used, Mentions, Seen, TypeOK
        <2>3. UNCHANGED <<world, handshakes>>
            BY <1>2 DEF Used
        <2>4. QED
            BY <2>1, <2>2, <2>3 DEF TypeOK, Passes, world, handshakes
    <1>3. ASSUME NEW d \in Addresses, CreateSessionRejected(d) PROVE TypeOK' /\ Passes
        <2>1. now' = now + 1 /\ now' \in 0 .. MaxRecords
            BY <1>3, RecordRead DEF CreateSessionRejected
        <2>2. asking' = [asking EXCEPT ![d] = Nobody] /\ pending' = [pending EXCEPT ![d] = Nobody]
            BY <1>3 DEF CreateSessionRejected, Answered
        <2>3. UNCHANGED <<granted, current, offSince, offline, client, sessions, tagged, carried>>
            BY <1>3 DEF CreateSessionRejected, actives
        <2>4. asking' \in [Addresses -> Clients] /\ pending' \in [Addresses -> Clients]
            BY <2>2 DEF TypeOK, Clients
        <2>5. Passes
            BY <2>1, <2>2, <2>3 DEF Passes, TypeOK
        <2>6. TypeOK'
            BY <2>1, <2>3, <2>4 DEF TypeOK
        <2>7. QED
            BY <2>5, <2>6
    <1>4. QED
        BY <1>1, <1>2, <1>3

-----------------------------------------------------------------------------
(* The maps that share a client.                                           *)

LEMMA TokenOf ==
    ASSUME Inv, NEW a \in Applications
    PROVE  /\ client[a].token \in Tokens \cup {NoToken} /\ current[a] \in Tokens \cup {NoToken}
           /\ NoToken \notin Tokens /\ a # Nobody
    <1>1. granted \in 0 .. MaxTokens /\ current[a] \in 0 .. granted
        BY DEF Inv, TypeOK
    <1>2. client[a].token \in 0 .. granted
        BY ClientFields DEF Inv
    <1>3. QED
        BY <1>1, <1>2, OpcLogAssumption DEF Tokens, NoToken

LEMMA RequestHandshakes ==
    ASSUME Inv, NEW a \in Applications, NEW d \in Addresses, CreateSessionRequest(a, d)
    PROVE  Handshakes' /\ \A b \in Applications : Reported(b)'
    <1> USE DEF Inv, Handshakes
    <1>1. now' # 0 /\ a # Nobody /\ granted' = granted
        BY RecordRead, OpcLogAssumption DEF CreateSessionRequest, Request
    <1>2. \A e \in Addresses : asking'[e] = IF e = d THEN a
                                            ELSE IF asking[e] = a THEN Nobody ELSE asking[e]
        BY DEF CreateSessionRequest, Request
    <1>3. \A e \in Addresses : pending'[e] = IF e = d THEN a ELSE pending[e]
        BY DEF CreateSessionRequest, TypeOK
    <1>4. \A b \in Applications : current'[b] = IF b = a THEN NoToken ELSE current[b]
        BY DEF CreateSessionRequest, Request, TypeOK
    <1>5. \A t \in Tokens : sessions'[t] = IF t = client[a].token THEN Nobody ELSE sessions[t]
        BY DEF CreateSessionRequest, OldKeyDropped
    <1>6. \A t \in Tokens : sessions[t] = a => Known(a) /\ client[a].token = t
        BY <1>1 DEF Found, OneKeyPerClient
    <1>7. ~Known(a) => client[a].token = NoToken /\ ~client[a].active
        BY <1>6, TokenOf DEF Held, Reported
    <1>8. client'[a].token = NoToken /\ client'[a].connectedAt = now' /\ ~client'[a].active
        <2>1. CASE Known(a)
            <3>1. client'[a] = [token |-> NoToken, connectedAt |-> now', disconnectedAt |-> 0,
                                active |-> FALSE, past |-> Append(client[a].past, Span(client[a]))]
                BY <2>1, Requested
            <3>2. QED
                BY <3>1
        <2>2. CASE ~Known(a)
            <3>1. client'[a] = [token |-> client[a].token, connectedAt |-> now',
                                disconnectedAt |-> client[a].disconnectedAt,
                                active |-> client[a].active, past |-> client[a].past]
                BY <2>2, Requested
            <3>2. QED
                BY <1>7, <2>2, <3>1
        <2>3. QED
            BY <2>1, <2>2
    <1>9. \A b \in Applications \ {a} : client'[b] = client[b]
        BY Requested
    <1>10. Known(a)' /\ \A b \in Applications : Known(b) => Known(b)'
        BY <1>1, <1>8, <1>9 DEF Known
    <1>11. \A t \in Tokens : sessions'[t] # a /\ (sessions'[t] # Nobody => sessions'[t] = sessions[t])
        BY <1>1, <1>5, <1>6
    <1>12. \A b \in Applications \ {a} : \A t \in Tokens : sessions[t] = b => sessions'[t] = b
        <2> SUFFICES ASSUME NEW b \in Applications \ {a}, NEW t \in Tokens, sessions[t] = b
                     PROVE  t # client[a].token
            BY <1>5
        <2>1. QED
            BY TokenOf DEF Held
    <1>13. OneRequest'
        BY <1>1, <1>2 DEF OneRequest
    <1>14. Waiting'
        <2> SUFFICES ASSUME NEW e \in Addresses, asking'[e] # Nobody
                     PROVE  /\ pending'[e] = asking'[e] /\ client'[asking'[e]].connectedAt # 0
                            /\ client'[asking'[e]].token = NoToken
                            /\ current'[asking'[e]] = NoToken
            BY DEF Waiting, Known
        <2>1. CASE e = d
            BY <1>1, <1>2, <1>3, <1>4, <1>8, <2>1
        <2>2. CASE e # d
            <3>1. asking'[e] = asking[e] /\ asking[e] \in Applications \ {a}
                BY <1>2, <2>2 DEF TypeOK, Clients
            <3>2. QED
                BY <1>3, <1>4, <1>9, <2>2, <3>1 DEF Waiting, Known
        <2>3. QED
            BY <2>1, <2>2
    <1>15. Found' /\ OneKeyPerClient'
        <2> SUFFICES ASSUME NEW t \in Tokens, sessions'[t] # Nobody
                     PROVE  /\ t <= granted' /\ client'[sessions'[t]].connectedAt # 0
                            /\ client'[sessions'[t]].token = t
            BY DEF Found, OneKeyPerClient, Known
        <2>1. sessions'[t] = sessions[t] /\ sessions[t] \in Applications \ {a}
            BY <1>11 DEF TypeOK, Clients
        <2>2. t <= granted /\ Known(sessions[t]) /\ client[sessions[t]].token = t
            BY <2>1 DEF Found, OneKeyPerClient
        <2>3. QED
            BY <1>1, <1>9, <2>1, <2>2 DEF Known
    <1>16. Held'
        BY <1>8, <1>9, <1>12, TokenOf DEF Held
    <1>17. \A b \in Applications : Reported(b)'
        BY <1>4, <1>8, <1>9, <1>12, TokenOf DEF Reported
    <1>18. QED
        BY <1>13, <1>14, <1>15, <1>16, <1>17

LEMMA ResponseHandshakes ==
    ASSUME Inv, NEW d \in Addresses, CreateSessionResponse(d)
    PROVE  Handshakes' /\ \A b \in Applications : Reported(b)'
    <1> USE DEF Inv, Handshakes
    <1> DEFINE p == asking[d]
    <1>1. p \in Applications /\ p # Nobody /\ pending[d] = p
        BY OpcLogAssumption DEF CreateSessionResponse, Answered, Waiting, TypeOK, Clients
    <1>2. Known(p) /\ client[p].token = NoToken /\ current[p] = NoToken
        BY <1>1 DEF Waiting
    <1>3. /\ granted \in Nat /\ granted' = granted + 1 /\ granted' \in Tokens
          /\ granted' # NoToken
        BY OpcLogAssumption DEF CreateSessionResponse, TypeOK, Tokens, NoToken
    <1>4. /\ \A e \in Addresses : asking'[e] = IF e = d THEN Nobody ELSE asking[e]
          /\ \A e \in Addresses : pending'[e] = IF e = d THEN Nobody ELSE pending[e]
        BY DEF CreateSessionResponse, Answered, TypeOK
    <1>5. \A b \in Applications : current'[b] = IF b = p THEN granted' ELSE current[b]
        BY DEF CreateSessionResponse, TypeOK
    <1>6. \A t \in Tokens : sessions'[t] = IF t = granted' THEN p ELSE sessions[t]
        BY <1>1 DEF CreateSessionResponse, TypeOK
    <1>7. sessions[granted'] = Nobody
        BY <1>3 DEF Found
    <1>8. client'[p] = [client[p] EXCEPT !.token = granted', !.active = TRUE]
        BY <1>1, Responded
    <1>9. /\ client'[p].token = granted' /\ client'[p].active
          /\ client'[p].connectedAt = client[p].connectedAt
        BY <1>1, <1>8, ClientFields DEF ClientType
    <1>10. \A b \in Applications \ {p} : client'[b] = client[b]
        BY <1>1, Responded
    <1>11. \A b \in Applications : Known(b) => client'[b].connectedAt # 0
        BY <1>9, <1>10 DEF Known
    <1>12. \A t \in Tokens : sessions[t] # p
        BY <1>1, <1>2, TokenOf DEF OneKeyPerClient
    <1>13. OneRequest'
        BY <1>4 DEF OneRequest
    <1>14. Waiting'
        <2> SUFFICES ASSUME NEW e \in Addresses, asking'[e] # Nobody
                     PROVE  /\ pending'[e] = asking'[e] /\ client'[asking'[e]].connectedAt # 0
                            /\ client'[asking'[e]].token = NoToken
                            /\ current'[asking'[e]] = NoToken
            BY DEF Waiting, Known
        <2>1. e # d /\ asking'[e] = asking[e] /\ asking[e] \in Applications
            BY <1>4 DEF TypeOK, Clients
        <2>2. asking[e] # p
            BY <1>1, <2>1 DEF OneRequest
        <2>3. QED
            BY <1>4, <1>5, <1>10, <2>1, <2>2 DEF Waiting, Known
    <1>15. Found' /\ OneKeyPerClient'
        <2> SUFFICES ASSUME NEW t \in Tokens, sessions'[t] # Nobody
                     PROVE  /\ t <= granted' /\ client'[sessions'[t]].connectedAt # 0
                            /\ client'[sessions'[t]].token = t
            BY DEF Found, OneKeyPerClient, Known
        <2>1. CASE t = granted'
            BY <1>1, <1>2, <1>3, <1>6, <1>9, <1>11, <2>1
        <2>2. CASE t # granted'
            <3>1. sessions'[t] = sessions[t] /\ sessions[t] \in Applications \ {p}
                BY <1>6, <1>12, <2>2 DEF TypeOK, Clients
            <3>2. t <= granted /\ Known(sessions[t]) /\ client[sessions[t]].token = t
                BY <3>1 DEF Found, OneKeyPerClient
            <3>3. t <= granted'
                BY <1>3, <3>2 DEF Tokens
            <3>4. QED
                BY <1>10, <3>1, <3>2, <3>3 DEF Known
        <2>3. QED
            BY <2>1, <2>2
    <1>16. Held'
        <2> SUFFICES ASSUME NEW b \in Applications, client'[b].token # NoToken
                     PROVE  sessions'[client'[b].token] = b
            BY DEF Held
        <2>1. CASE b = p
            BY <1>3, <1>6, <1>9, <2>1
        <2>2. CASE b # p
            <3>1. client'[b] = client[b] /\ client[b].token \in Tokens
                BY <1>10, <2>2, TokenOf
            <3>2. sessions[client[b].token] = b /\ b # Nobody
                BY <3>1, TokenOf DEF Held
            <3>3. QED
                BY <1>6, <1>7, <3>1, <3>2
        <2>3. QED
            BY <2>1, <2>2
    <1>17. ASSUME NEW b \in Applications PROVE Reported(b)'
        <2>1. CASE b = p
            BY <1>3, <1>5, <1>6, <1>9, <2>1 DEF Reported
        <2>2. CASE b # p
            <3>1. client'[b] = client[b] /\ current'[b] = current[b]
                BY <1>5, <1>10, <2>2
            <3>2. client[b].active => current[b] \in Tokens /\ sessions[current[b]] = b /\ b # Nobody
                BY TokenOf DEF Reported
            <3>3. client[b].active => sessions'[current[b]] = b
                BY <1>6, <1>7, <3>2
            <3>4. QED
                BY <3>1, <3>3 DEF Reported
        <2>3. QED
            BY <2>1, <2>2
    <1>18. QED
        BY <1>13, <1>14, <1>15, <1>16, <1>17

LEMMA EndHandshakes ==
    ASSUME Inv, NEW t \in Tokens, EndOf(t)
    PROVE  Handshakes' /\ \A b \in Applications : Reported(b)'
    <1> USE DEF Inv, Handshakes
    <1>1. Ends(t) /\ UNCHANGED <<sessions, pending>>
        BY DEF EndOf, ActivateSessionRejected, ServiceFault, CloseSession
    <1>2. granted' = granted /\ asking' = asking
        BY <1>1 DEF Ends
    <1>3. \A b \in Applications : current'[b] = IF current[b] = t THEN NoToken ELSE current[b]
        BY <1>1 DEF Ends
    <1>4. \A b \in Applications : /\ client'[b].token = client[b].token
                                  /\ client'[b].connectedAt = client[b].connectedAt
        BY Ended DEF EndsAt
    <1>5. OneRequest' /\ Found' /\ Held' /\ OneKeyPerClient'
        <2>1. \A u \in Tokens : sessions[u] # Nobody => sessions[u] \in Applications
            BY DEF TypeOK, Clients
        <2>2. QED
            BY <1>1, <1>2, <1>4, <2>1 DEF OneRequest, Found, Held, OneKeyPerClient, Known
    <1>6. Waiting'
        <2>1. \A e \in Addresses : asking[e] # Nobody => asking[e] \in Applications
            BY DEF TypeOK, Clients
        <2>2. QED
            BY <1>1, <1>2, <1>3, <1>4, <2>1 DEF Waiting, Known
    <1>7. ASSUME NEW b \in Applications PROVE Reported(b)'
        <2>1. CASE b = sessions[t]
            <3>1. client[b].token = t /\ ~client'[b].active
                BY <2>1, TokenOf, Ended DEF OneKeyPerClient
            <3>2. current'[b] = NoToken
                BY <1>3, <3>1, TokenOf DEF Reported
            <3>3. QED
                BY <3>1, <3>2 DEF Reported
        <2>2. CASE b # sessions[t]
            <3>1. client'[b] = client[b]
                BY <2>2, Ended
            <3>2. current[b] # t
                BY <2>2, TokenOf DEF Reported
            <3>3. QED
                BY <1>1, <1>3, <3>1, <3>2 DEF Reported
        <2>3. QED
            BY <2>1, <2>2
    <1>8. QED
        BY <1>5, <1>6, <1>7

LEMMA PassesHandshakes ==
    ASSUME Inv, Passes
    PROVE  Handshakes' /\ \A b \in Applications : Reported(b)'
    <1> USE DEF Inv, Handshakes, Passes
    <1>1. Found' /\ Held' /\ OneKeyPerClient' /\ \A b \in Applications : Reported(b)'
        BY DEF Found, Held, OneKeyPerClient, Reported, Known
    <1>2. \A e \in Addresses : asking'[e] \in {asking[e], Nobody}
        BY DEF TypeOK
    <1>3. OneRequest'
        BY <1>2 DEF OneRequest
    <1>4. Waiting'
        BY <1>2 DEF Waiting, Known
    <1>5. QED
        BY <1>1, <1>3, <1>4

-----------------------------------------------------------------------------
(* Connections in order.                                                   *)

(* A client that keeps its spans keeps their order.                        *)
LEMMA SpansKept ==
    ASSUME Inv, NEW a \in Applications, now' >= now, offSince'[a] \in {offSince[a], now'},
           now' \in Nat, client'[a] = client[a]
    PROVE  Timely(a)' /\ Ordered(a)'
    <1> USE DEF Inv
    <1>1. client[a].connectedAt \in Nat /\ client[a].disconnectedAt \in Nat
        BY ClientFields
    <1>2. now \in Nat /\ offSince[a] \in Nat
        BY DEF TypeOK
    <1>3. Timely(a)'
        BY <1>1, <1>2 DEF Timely, Known
    <1>4. Spans(a)' = Spans(a)
        BY DEF Spans, Span
    <1>5. Ordered(a)'
        BY <1>4 DEF Ordered
    <1>6. QED
        BY <1>3, <1>5

(* The last span of a client.                                              *)
LEMMA SpansOf ==
    ASSUME NEW g, NEW c \in ClientType(g)
    PROVE  LET l == Append(c.past, Span(c)) n == Len(c.past) IN
           /\ n \in Nat /\ l \in Seq(SpanType) /\ Len(l) = n + 1
           /\ \A i \in 1 .. n : l[i] = c.past[i]
           /\ l[n + 1].connectedAt = c.connectedAt /\ l[n + 1].disconnectedAt = c.disconnectedAt
    <1>1. c.past \in Seq(SpanType) /\ Span(c) \in SpanType
        BY DEF Span, SpanType, ClientType
    <1>2. Span(c).connectedAt = c.connectedAt /\ Span(c).disconnectedAt = c.disconnectedAt
        BY DEF Span
    <1>3. QED
        BY <1>1, <1>2

(* Of two lists of spans, the later one with the end of the last.          *)
LEMMA OrderEnd ==
    ASSUME NEW p \in Seq(SpanType), NEW q \in Seq(SpanType), NEW n \in Nat, NEW time \in Nat,
           Len(p) = n + 1, Len(q) = n + 1, \A i \in 1 .. n : q[i] = p[i],
           q[n + 1].connectedAt = p[n + 1].connectedAt, p[n + 1].connectedAt < time,
           q[n + 1].disconnectedAt \in {p[n + 1].disconnectedAt, time}, InOrder(p)
    PROVE  InOrder(q)
    <1> SUFFICES ASSUME NEW i \in 1 .. n + 1
                 PROVE  /\ q[i].disconnectedAt # 0 => q[i].connectedAt < q[i].disconnectedAt
                        /\ i < n + 1 => /\ q[i].connectedAt < q[i + 1].connectedAt
                                        /\ q[i].disconnectedAt < q[i + 1].connectedAt
        BY DEF InOrder
    <1>1. /\ p[i].disconnectedAt # 0 => p[i].connectedAt < p[i].disconnectedAt
          /\ i < n + 1 => /\ p[i].connectedAt < p[i + 1].connectedAt
                          /\ p[i].disconnectedAt < p[i + 1].connectedAt
        BY DEF InOrder
    <1>2. CASE i = n + 1
        BY <1>1, <1>2
    <1>3. CASE i \in 1 .. n
        <2>1. i + 1 \in 1 .. n + 1 /\ i < n + 1
            BY <1>3
        <2>2. q[i + 1].connectedAt = p[i + 1].connectedAt
            BY <2>1
        <2>3. QED
            BY <1>1, <1>3, <2>1, <2>2
    <1>4. QED
        BY <1>2, <1>3

(* One span more, that begins after the last.                              *)
LEMMA OrderGrow ==
    ASSUME NEW p \in Seq(SpanType), NEW q \in Seq(SpanType), NEW m \in Nat \ {0}, NEW time \in Nat,
           Len(p) = m, Len(q) = m + 1, \A i \in 1 .. m : q[i] = p[i],
           q[m + 1].connectedAt = time, q[m + 1].disconnectedAt = 0,
           p[m].connectedAt < time, p[m].disconnectedAt < time, InOrder(p)
    PROVE  InOrder(q)
    <1> SUFFICES ASSUME NEW i \in 1 .. m + 1
                 PROVE  /\ q[i].disconnectedAt # 0 => q[i].connectedAt < q[i].disconnectedAt
                        /\ i < m + 1 => /\ q[i].connectedAt < q[i + 1].connectedAt
                                        /\ q[i].disconnectedAt < q[i + 1].connectedAt
        BY DEF InOrder
    <1>1. CASE i = m + 1
        BY <1>1
    <1>2. CASE i \in 1 .. m
        <2>1. /\ p[i].disconnectedAt # 0 => p[i].connectedAt < p[i].disconnectedAt
              /\ i < m => /\ p[i].connectedAt < p[i + 1].connectedAt
                          /\ p[i].disconnectedAt < p[i + 1].connectedAt
            BY <1>2 DEF InOrder
        <2>2. CASE i = m
            BY <2>1, <2>2
        <2>3. CASE i < m
            <3>1. i + 1 \in 1 .. m
                BY <1>2, <2>3
            <3>2. QED
                BY <1>2, <2>1, <2>3, <3>1
        <2>4. QED
            BY <1>2, <2>2, <2>3
    <1>3. QED
        BY <1>1, <1>2

LEMMA SpansEnd ==
    ASSUME Inv, TypeOK', NEW a \in Applications, now' = now + 1, Known(a),
           offSince'[a] \in {offSince[a], now'}, EndsAt(client[a], client'[a])
    PROVE  Timely(a)' /\ Ordered(a)'
    <1> USE DEF Inv
    <1>1. /\ client[a].connectedAt \in Nat /\ client[a].disconnectedAt \in Nat
          /\ client[a].connectedAt <= now /\ client[a].disconnectedAt <= now
          /\ now \in Nat /\ now' \in Nat /\ offSince[a] \in Nat /\ offSince[a] <= now
        BY ClientFields DEF Timely, TypeOK
    <1>2. Timely(a)'
        BY <1>1 DEF Timely, Known, EndsAt
    <1>3. client[a] \in ClientType(granted) /\ client'[a] \in ClientType(granted')
        BY DEF TypeOK, ClientType
    <1> DEFINE n == Len(client[a].past)
    <1> DEFINE p == Append(client[a].past, Span(client[a]))
    <1> DEFINE q == Append(client'[a].past, Span(client'[a]))
    <1>4. /\ n \in Nat /\ p \in Seq(SpanType) /\ Len(p) = n + 1
          /\ \A i \in 1 .. n : p[i] = client[a].past[i]
          /\ p[n + 1].connectedAt = client[a].connectedAt
          /\ p[n + 1].disconnectedAt = client[a].disconnectedAt
        BY <1>3, SpansOf
    <1>5. /\ q \in Seq(SpanType) /\ Len(q) = n + 1
          /\ \A i \in 1 .. n : q[i] = client[a].past[i]
          /\ q[n + 1].connectedAt = client[a].connectedAt
          /\ q[n + 1].disconnectedAt \in {client[a].disconnectedAt, now'}
        BY <1>3, SpansOf DEF EndsAt
    <1>6. client[a].connectedAt < now'
        BY <1>1
    <1>7. InOrder(p)
        BY DEF Ordered, Spans
    <1> HIDE DEF n, p, q
    <1>8. /\ n \in Nat /\ now' \in Nat
          /\ p \in Seq(SpanType) /\ Len(p) = n + 1
          /\ q \in Seq(SpanType) /\ Len(q) = n + 1
        BY <1>1, <1>4, <1>5
    <1>9. \A i \in 1 .. n : q[i] = p[i]
        BY <1>4, <1>5
    <1>10. /\ q[n + 1].connectedAt = p[n + 1].connectedAt
           /\ p[n + 1].connectedAt < now'
           /\ q[n + 1].disconnectedAt \in {p[n + 1].disconnectedAt, now'}
        BY <1>4, <1>5, <1>6
    <1>11. InOrder(q)
        BY <1>7, <1>8, <1>9, <1>10, OrderEnd
    <1>12. QED
        BY <1>2, <1>11 DEF Ordered, Spans, q

LEMMA SpansGrow ==
    ASSUME Inv, TypeOK', NEW a \in Applications, NEW d \in Addresses, CreateSessionRequest(a, d)
    PROVE  Timely(a)' /\ Ordered(a)'
    <1> USE DEF Inv
    <1>1. now \in Nat /\ now' = now + 1 /\ now' \in Nat /\ now' # 0
        BY RecordRead DEF CreateSessionRequest
    <1>2. /\ client[a].connectedAt \in Nat /\ client[a].disconnectedAt \in Nat
          /\ client[a].connectedAt < now' /\ client[a].disconnectedAt < now'
        BY <1>1, ClientFields DEF Timely
    <1>3. offSince'[a] = now'
        BY DEF CreateSessionRequest, Request, TypeOK
    <1>4. client[a] \in ClientType(granted) /\ client'[a] \in ClientType(granted')
        BY DEF TypeOK, ClientType
    <1> DEFINE q == Append(client'[a].past, Span(client'[a]))
    <1>5. CASE ~Known(a)
        <2>1. client'[a] = [token |-> client[a].token, connectedAt |-> now',
                            disconnectedAt |-> client[a].disconnectedAt,
                            active |-> client[a].active, past |-> client[a].past]
            BY <1>5, Requested
        <2>2. client[a].past = <<>> /\ client[a].disconnectedAt = 0
            BY <1>5 DEF Timely
        <2>3. /\ client'[a].past = <<>> /\ client'[a].disconnectedAt = 0
              /\ client'[a].connectedAt = now'
            BY <2>1, <2>2
        <2>4. Timely(a)'
            BY <1>1, <1>3, <2>3 DEF Timely, Known
        <2>5. q \in Seq(SpanType) /\ Len(q) = 1 /\ q[1].disconnectedAt = 0
            BY <1>4, <2>3, SpansOf
        <2> HIDE DEF q
        <2>6. InOrder(q)
            BY <2>5 DEF InOrder
        <2>7. QED
            BY <2>4, <2>6 DEF Ordered, Spans, q
    <1>6. CASE Known(a)
        <2> DEFINE p == Append(client[a].past, Span(client[a]))
        <2> DEFINE m == Len(p)
        <2>1. client'[a] = [token |-> NoToken, connectedAt |-> now', disconnectedAt |-> 0,
                            active |-> FALSE, past |-> p]
            BY <1>6, Requested
        <2>2. /\ client'[a].past = p /\ client'[a].disconnectedAt = 0
              /\ client'[a].connectedAt = now'
            BY <2>1
        <2>3. Timely(a)'
            BY <1>1, <1>3, <2>2 DEF Timely, Known
        <2>4. /\ m \in Nat \ {0} /\ p \in Seq(SpanType)
              /\ p[m].connectedAt = client[a].connectedAt
              /\ p[m].disconnectedAt = client[a].disconnectedAt
            BY <1>4, SpansOf
        <2>5. InOrder(p)
            BY DEF Ordered, Spans
        <2> HIDE DEF p
        <2>6. /\ q \in Seq(SpanType) /\ Len(q) = m + 1 /\ \A i \in 1 .. m : q[i] = p[i]
              /\ q[m + 1].connectedAt = now' /\ q[m + 1].disconnectedAt = 0
            BY <1>4, <2>2, SpansOf
        <2> HIDE DEF m, q
        <2>7. p[m].connectedAt < now' /\ p[m].disconnectedAt < now'
            BY <1>2, <2>4
        <2>8. Len(p) = m
            BY DEF m
        <2>9. InOrder(q)
            BY <1>1, <2>4, <2>5, <2>6, <2>7, <2>8, OrderGrow
        <2>10. QED
            BY <2>3, <2>9 DEF Ordered, Spans, q
    <1>7. QED
        BY <1>5, <1>6

-----------------------------------------------------------------------------
(* The invariant.                                                          *)

LEMMA InvInit == Init => Inv
    <1> SUFFICES ASSUME Init PROVE Inv
        OBVIOUS
    <1> USE DEF Init, NoToken
    <1>1. TypeOK
        <2>1. /\ now \in 0 .. MaxRecords /\ granted \in 0 .. MaxTokens
              /\ current \in [Applications -> 0 .. granted]
              /\ offSince \in [Applications -> Nat] /\ offline \in [Applications -> Nat]
            BY OpcLogAssumption
        <2>2. /\ asking \in [Addresses -> Clients] /\ pending \in [Addresses -> Clients]
              /\ sessions \in [Tokens -> Clients]
            BY DEF Clients
        <2>3. /\ tagged \in [Tokens -> {"unseen", "active", "inactive"}]
              /\ carried \subseteq Tokens
            OBVIOUS
        <2>4. [token |-> NoToken, connectedAt |-> 0, disconnectedAt |-> 0, active |-> FALSE,
               past |-> <<>>] \in ClientType(granted)
            BY DEF ClientType
        <2>5. client \in [Applications -> ClientType(granted)]
            BY <2>4
        <2>6. QED
            BY <2>1, <2>2, <2>3, <2>5 DEF TypeOK, ClientType
    <1>2. \A a \in Applications : /\ client[a].token = NoToken /\ client[a].connectedAt = 0
                                  /\ client[a].disconnectedAt = 0 /\ ~client[a].active
                                  /\ client[a].past = <<>>
        OBVIOUS
    <1>3. Handshakes
        BY <1>2 DEF Handshakes, OneRequest, Waiting, Found, Held, OneKeyPerClient
    <1>4. ASSUME NEW a \in Applications PROVE Reported(a) /\ Timely(a) /\ Ordered(a)
        <2>1. Reported(a) /\ Timely(a)
            BY <1>2 DEF Reported, Timely, Known
        <2>2. client[a] \in ClientType(granted)
            BY <1>1 DEF TypeOK, ClientType
        <2> DEFINE q == Append(client[a].past, Span(client[a]))
        <2>3. q \in Seq(SpanType) /\ Len(q) = 1 /\ q[1].disconnectedAt = 0
            BY <1>2, <2>2, SpansOf
        <2> HIDE DEF q
        <2>4. InOrder(q)
            BY <2>3 DEF InOrder
        <2>5. QED
            BY <2>1, <2>4 DEF Ordered, Spans, q
    <1>5. QED
        BY <1>1, <1>3, <1>4 DEF Inv

LEMMA InvNext == Inv /\ [Next]_vars => Inv'
    <1> SUFFICES ASSUME Inv, [Next]_vars PROVE Inv'
        OBVIOUS
    <1>1. now \in Nat
        BY DEF Inv, TypeOK
    <1>2. ASSUME NEW a \in Applications, NEW d \in Addresses, CreateSessionRequest(a, d)
          PROVE  Inv'
        <2>1. TypeOK'
            BY <1>2, TypeRequest
        <2>2. \A b \in Applications \ {a} : offSince'[b] = offSince[b]
            BY <1>2 DEF Inv, TypeOK, CreateSessionRequest, Request
        <2>3. now' = now + 1
            BY <1>2, RecordRead DEF Inv, CreateSessionRequest
        <2>4. \A b \in Applications \ {a} : Timely(b)' /\ Ordered(b)'
            <3> SUFFICES ASSUME NEW b \in Applications \ {a} PROVE Timely(b)' /\ Ordered(b)'
                OBVIOUS
            <3>1. client'[b] = client[b]
                BY <1>2, Requested DEF Inv
            <3>2. QED
                BY <1>1, <2>2, <2>3, <3>1, SpansKept
        <2>5. QED
            BY <1>2, <2>1, <2>4, RequestHandshakes, SpansGrow DEF Inv
    <1>3. ASSUME NEW d \in Addresses, CreateSessionResponse(d)
          PROVE  Inv'
        <2>1. TypeOK' /\ Handshakes' /\ \A b \in Applications : Reported(b)'
            BY <1>3, TypeResponse, ResponseHandshakes
        <2>2. now' = now + 1 /\ offSince' = offSince
            BY <1>3, RecordRead DEF Inv, CreateSessionResponse
        <2>3. ASSUME NEW a \in Applications PROVE Timely(a)' /\ Ordered(a)'
            <3>1. /\ client'[a].connectedAt = client[a].connectedAt
                  /\ client'[a].disconnectedAt = client[a].disconnectedAt
                  /\ client'[a].past = client[a].past
                <4>1. client'[a] \in {client[a], [client[a] EXCEPT !.token = granted', !.active = TRUE]}
                    BY <1>3, Responded DEF Inv
                <4>2. client[a] \in ClientType(granted)
                    BY ClientFields DEF Inv
                <4>3. QED
                    BY <4>1, <4>2 DEF ClientType
            <3>2. Timely(a) /\ Ordered(a) /\ offSince[a] \in Nat
                BY DEF Inv, TypeOK
            <3>3. client[a].connectedAt \in Nat /\ client[a].disconnectedAt \in Nat
                BY ClientFields DEF Inv
            <3>4. Timely(a)'
                BY <1>1, <2>2, <3>1, <3>2, <3>3 DEF Timely, Known
            <3>5. Spans(a)' = Spans(a)
                BY <3>1 DEF Spans, Span
            <3>6. QED
                BY <3>2, <3>4, <3>5 DEF Ordered
        <2>4. QED
            BY <2>1, <2>3 DEF Inv
    <1>4. ASSUME NEW t \in Tokens, EndOf(t)
          PROVE  Inv'
        <2>1. TypeOK' /\ Handshakes' /\ \A b \in Applications : Reported(b)'
            BY <1>4, TypeEnd, EndHandshakes
        <2>2. NextRecord /\ Ends(t)
            BY <1>4 DEF EndOf, ActivateSessionRejected, ServiceFault, CloseSession
        <2>3. now' = now + 1 /\ \A a \in Applications : offSince'[a] \in {offSince[a], now'}
            BY <2>2, RecordRead DEF Inv, Ends
        <2>4. ASSUME NEW a \in Applications PROVE Timely(a)' /\ Ordered(a)'
            <3>1. CASE client'[a] = client[a]
                BY <1>1, <2>3, <3>1, SpansKept
            <3>2. CASE a = sessions[t] /\ EndsAt(client[a], client'[a])
                <4>1. Known(a)
                    BY <3>2, TokenOf DEF Inv, Handshakes, Found
                <4>2. QED
                    BY <2>1, <2>3, <3>2, <4>1, SpansEnd
            <3>3. QED
                BY <1>4, <3>1, <3>2, Ended DEF Inv
        <2>5. QED
            BY <2>1, <2>4 DEF Inv
    <1>5. CASE \/ UNCHANGED vars
               \/ \E t \in Tokens : Used(t)
               \/ \E d \in Addresses : CreateSessionRejected(d)
        <2>1. TypeOK' /\ Passes
            BY <1>5, TypePasses
        <2>2. ASSUME NEW a \in Applications PROVE Timely(a)' /\ Ordered(a)'
            BY <1>1, <2>1, SpansKept DEF Passes
        <2>3. QED
            BY <2>1, <2>2, PassesHandshakes DEF Inv
    <1>6. QED
        BY <1>2, <1>3, <1>4, <1>5 DEF Next, EndOf

LEMMA Invariant == Spec => []Inv
    BY InvInit, InvNext, PTL DEF Spec

(* For any number of applications, addresses and records every variable    *)
(* keeps its type: no token that was not granted, no span in the future.   *)
THEOREM TypeCorrect == Spec => []TypeOK
    <1>1. Inv => TypeOK
        BY DEF Inv
    <1>2. QED
        BY <1>1, Invariant, PTL

(* The objects that three maps share stay one per application: a token     *)
(* leads to a client that has it, so no client is found under two.         *)
THEOREM ClientsHaveOneKey == Spec => []OneKeyPerClient
    <1>1. Inv => OneKeyPerClient
        BY DEF Inv, Handshakes
    <1>2. QED
        BY <1>1, Invariant, PTL

(* A client is reported active while it has the session of its last good   *)
(* response, whatever is logged of the sessions it left.                   *)
THEOREM ActiveClientsHaveSessions == Spec => []ActiveIsCurrent
    <1>1. Inv => ActiveIsCurrent
        BY DEF Inv, Reported, ActiveIsCurrent
    <1>2. QED
        BY <1>1, Invariant, PTL

(* However often a client reconnects, its connections follow one another.  *)
THEOREM ConnectionsInOrder == Spec => []SpansInOrder
    <1>1. Inv => SpansInOrder
        BY DEF Inv, Ordered, InOrder, SpansInOrder
    <1>2. QED
        BY <1>1, Invariant, PTL

-----------------------------------------------------------------------------
(* The sum of the gaps.  No induction over the spans is needed: a step     *)
(* leaves the gaps before the last as they are, so the bound on the sum is *)
(* itself carried from state to state.                                     *)

IsTotal(f, n, spans) ==
    f = [i \in 0 .. n |-> IF i = 0 THEN 0 ELSE f[i - 1] + GapToNext(spans, i)]
AtMost(n, spans, bound) ==
    /\ \E f : IsTotal(f, n, spans)
    /\ \A f : IsTotal(f, n, spans) => f[n] \in Nat /\ f[n] <= bound

LEMMA SumKept ==
    ASSUME NEW n \in Nat, NEW p, NEW q, NEW b \in Nat, NEW c \in Nat, b <= c,
           \A i \in 1 .. n : GapToNext(q, i) = GapToNext(p, i), AtMost(n, p, b)
    PROVE  AtMost(n, q, c)
    <1>1. ASSUME NEW f PROVE IsTotal(f, n, q) <=> IsTotal(f, n, p)
        <2>1. \A i \in 0 .. n : i # 0 => i \in 1 .. n
            OBVIOUS
        <2>2. [i \in 0 .. n |-> IF i = 0 THEN 0 ELSE f[i - 1] + GapToNext(q, i)]
              = [i \in 0 .. n |-> IF i = 0 THEN 0 ELSE f[i - 1] + GapToNext(p, i)]
            BY <2>1
        <2>3. QED
            BY <2>2 DEF IsTotal
    <1>2. QED
        BY <1>1 DEF AtMost

LEMMA SumGrows ==
    ASSUME NEW n \in Nat, NEW p, NEW q, NEW b \in Nat, NEW gap \in Nat,
           \A i \in 1 .. n : GapToNext(q, i) = GapToNext(p, i),
           GapToNext(q, n + 1) = gap, AtMost(n, p, b)
    PROVE  AtMost(n + 1, q, b + gap)
    <1>1. PICK f : IsTotal(f, n, p)
        BY DEF AtMost
    <1> DEFINE h == [i \in 0 .. n + 1 |-> IF i = n + 1 THEN f[n] + gap ELSE f[i]]
    <1>2. ASSUME NEW i \in 0 .. n + 1
          PROVE  h[i] = IF i = 0 THEN 0 ELSE h[i - 1] + GapToNext(q, i)
        <2>1. \A k \in 0 .. n : f[k] = IF k = 0 THEN 0 ELSE f[k - 1] + GapToNext(p, k)
            BY <1>1 DEF IsTotal
        <2>2. CASE i = 0
            BY <2>1, <2>2
        <2>3. CASE i \in 1 .. n
            <3>1. i \in 0 .. n /\ i - 1 \in 0 .. n /\ i # n + 1 /\ i - 1 # n + 1 /\ i # 0
                BY <2>3
            <3>2. h[i] = f[i] /\ h[i - 1] = f[i - 1]
                BY <3>1
            <3>3. QED
                BY <2>1, <2>3, <3>1, <3>2
        <2>4. CASE i = n + 1
            <3>1. n \in 0 .. n + 1 /\ n # n + 1 /\ i - 1 = n /\ i # 0
                BY <2>4
            <3>2. h[i] = f[n] + gap /\ h[i - 1] = f[n]
                BY <2>4, <3>1
            <3>3. QED
                BY <2>4, <3>1, <3>2
        <2>5. QED
            BY <2>2, <2>3, <2>4
    <1>3. IsTotal(h, n + 1, q)
        <2>1. h = [i \in 0 .. n + 1 |-> h[i]]
            OBVIOUS
        <2> HIDE DEF h
        <2>2. QED
            BY <1>2, <2>1 DEF IsTotal
    <1>4. ASSUME NEW g, IsTotal(g, n + 1, q)
          PROVE  g[n + 1] \in Nat /\ g[n + 1] <= b + gap
        <2> DEFINE r == [i \in 0 .. n |-> g[i]]
        <2>1. \A i \in 0 .. n + 1 : g[i] = IF i = 0 THEN 0 ELSE g[i - 1] + GapToNext(q, i)
            BY <1>4 DEF IsTotal
        <2>2. ASSUME NEW i \in 0 .. n
              PROVE  r[i] = IF i = 0 THEN 0 ELSE r[i - 1] + GapToNext(p, i)
            <3>1. CASE i = 0
                BY <2>1, <3>1
            <3>2. CASE i \in 1 .. n
                <4>1. i \in 0 .. n + 1 /\ i - 1 \in 0 .. n /\ i # 0
                    BY <3>2
                <4>2. r[i] = g[i] /\ r[i - 1] = g[i - 1]
                    BY <4>1
                <4>3. QED
                    BY <2>1, <3>2, <4>1, <4>2
            <3>3. QED
                BY <3>1, <3>2
        <2>3. IsTotal(r, n, p)
            <3>1. r = [i \in 0 .. n |-> r[i]]
                OBVIOUS
            <3> HIDE DEF r
            <3>2. QED
                BY <2>2, <3>1 DEF IsTotal
        <2>4. r[n] \in Nat /\ r[n] <= b
            BY <2>3 DEF AtMost
        <2>5. n \in 0 .. n /\ n + 1 \in 0 .. n + 1 /\ n + 1 # 0 /\ (n + 1) - 1 = n
            OBVIOUS
        <2>6. g[n + 1] = r[n] + gap
            BY <2>1, <2>5
        <2> HIDE DEF r
        <2>7. QED
            BY <2>4, <2>6
    <1>5. QED
        BY <1>3, <1>4 DEF AtMost

(* An end is logged only of a session that the client has no more.         *)
Off(a) ==
    client[a].disconnectedAt # 0 =>
        /\ client[a].token # NoToken /\ current[a] = NoToken
        /\ offSince[a] <= client[a].disconnectedAt
Bounded(a) == AtMost(Len(client[a].past), Spans(a), offline[a])
Down == \A a \in Applications : Off(a) /\ Bounded(a)

(* Only a request adds a span; other records leave the closed ones alone.  *)
LEMMA ClosedKept ==
    ASSUME TypeOK, TypeOK', NEW a \in Applications, Bounded(a), offline'[a] = offline[a],
           client'[a].past = client[a].past,
           client'[a].connectedAt = client[a].connectedAt
    PROVE  Bounded(a)'
    <1> DEFINE n == Len(client[a].past)
    <1> DEFINE p == Append(client[a].past, Span(client[a]))
    <1> DEFINE q == Append(client'[a].past, Span(client'[a]))
    <1>1. client[a] \in ClientType(granted) /\ client'[a] \in ClientType(granted')
        BY DEF TypeOK, ClientType
    <1>2. /\ n \in Nat /\ Len(p) = n + 1 /\ p \in Seq(SpanType)
          /\ \A i \in 1 .. n : p[i] = client[a].past[i]
          /\ p[n + 1].connectedAt = client[a].connectedAt
        BY <1>1, SpansOf
    <1>3. /\ Len(q) = n + 1 /\ q \in Seq(SpanType)
          /\ \A i \in 1 .. n : q[i] = client[a].past[i]
          /\ q[n + 1].connectedAt = client[a].connectedAt
        BY <1>1, SpansOf
    <1>4. offline[a] \in Nat /\ offline'[a] = offline[a]
        BY DEF TypeOK
    <1>5. AtMost(n, p, offline[a])
        BY DEF Bounded, Spans
    <1> HIDE DEF n, p, q
    <1>6. ASSUME NEW i \in 1 .. n PROVE GapToNext(q, i) = GapToNext(p, i)
        <2>1. q[i] = p[i]
            BY <1>2, <1>3
        <2>2. q[i + 1].connectedAt = p[i + 1].connectedAt
            <3>1. i = n \/ i + 1 \in 1 .. n
                BY <1>2
            <3>2. QED
                BY <1>2, <1>3, <3>1
        <2>3. QED
            BY <2>1, <2>2 DEF GapToNext
    <1>7. AtMost(n, q, offline[a])
        BY <1>2, <1>4, <1>5, <1>6, SumKept
    <1>8. QED
        BY <1>4, <1>7 DEF Bounded, Spans, n, q

LEMMA DownKept ==
    ASSUME Inv, Inv', NEW a \in Applications, Off(a), Bounded(a), client'[a] = client[a],
           offline' = offline, current'[a] = current[a], offSince'[a] = offSince[a]
    PROVE  Off(a)' /\ Bounded(a)'
    <1>1. TypeOK /\ TypeOK'
        BY DEF Inv
    <1>2. QED
        BY <1>1, ClosedKept DEF Off

LEMMA DownEnd ==
    ASSUME Inv, Inv', NEW t \in Tokens, EndOf(t), NEW a \in Applications, Off(a), Bounded(a)
    PROVE  Off(a)' /\ Bounded(a)'
    <1>1. NextRecord /\ Ends(t)
        BY DEF EndOf, ActivateSessionRejected, ServiceFault, CloseSession
    <1>2. now \in Nat /\ now' = now + 1
        BY <1>1, RecordRead DEF Inv
    <1>3. /\ current'[a] = IF current[a] = t THEN NoToken ELSE current[a]
          /\ offSince'[a] = IF current[a] = t THEN now' ELSE offSince[a]
          /\ offline' = offline
        BY <1>1 DEF Ends
    <1>4. client'[a] = client[a] \/ EndsAt(client[a], client'[a])
        BY Ended DEF Inv
    <1>5. Bounded(a)'
        BY <1>3, <1>4, ClosedKept DEF Inv, EndsAt
    <1>6. CASE client'[a].disconnectedAt = client[a].disconnectedAt
        <2>1. client'[a].token = client[a].token
            BY <1>4 DEF EndsAt
        <2>2. current[a] = NoToken => current'[a] = NoToken /\ offSince'[a] = offSince[a]
            BY <1>3, TokenOf
        <2>3. QED
            BY <1>5, <1>6, <2>1, <2>2 DEF Off
    <1>7. CASE client'[a].disconnectedAt # client[a].disconnectedAt
        <2>1. EndsAt(client[a], client'[a]) /\ a = sessions[t]
            BY <1>4, <1>7, Ended DEF Inv
        <2>2. client'[a].disconnectedAt = now' /\ client'[a].token = client[a].token
            BY <1>7, <2>1 DEF EndsAt
        <2>3. client[a].token = t /\ t # NoToken
            BY <2>1, TokenOf DEF Inv, Handshakes, OneKeyPerClient
        <2>4. current[a] = t \/ current[a] = NoToken
            BY <2>3 DEF Inv, Reported
        <2>5. offSince[a] \in Nat /\ offSince[a] <= now
            BY DEF Inv, TypeOK, Timely
        <2>6. current'[a] = NoToken
            BY <1>3, <2>4
        <2>7. offSince'[a] <= now'
            BY <1>2, <1>3, <2>5
        <2>8. QED
            BY <1>5, <2>2, <2>3, <2>6, <2>7 DEF Off
    <1>8. QED
        BY <1>6, <1>7

LEMMA DownResponse ==
    ASSUME Inv, Inv', NEW d \in Addresses, CreateSessionResponse(d),
           NEW a \in Applications, Off(a), Bounded(a)
    PROVE  Off(a)' /\ Bounded(a)'
    <1> DEFINE p == asking[d]
    <1>1. p \in Applications /\ pending[d] = p /\ client[p].token = NoToken
        BY OpcLogAssumption
        DEF CreateSessionResponse, Answered, Inv, Handshakes, Waiting, TypeOK, Clients
    <1>2. offline' = offline /\ offSince' = offSince
        BY DEF CreateSessionResponse
    <1>3. a # p => current'[a] = current[a]
        BY <1>1 DEF Inv, TypeOK, CreateSessionResponse
    <1>4. CASE a # p
        <2>1. client'[a] = client[a]
            BY <1>1, <1>4, Responded DEF Inv
        <2>2. QED
            BY <1>2, <1>3, <1>4, <2>1, DownKept
    <1>5. CASE a = p
        <2>1. client'[a] = [client[a] EXCEPT !.token = granted', !.active = TRUE]
            BY <1>1, <1>5, Responded DEF Inv
        <2>2. /\ client'[a].past = client[a].past
              /\ client'[a].connectedAt = client[a].connectedAt
              /\ client'[a].disconnectedAt = client[a].disconnectedAt
            BY <2>1, ClientFields DEF Inv, ClientType
        <2>3. client[a].disconnectedAt = 0
            BY <1>1, <1>5 DEF Off
        <2>4. QED
            BY <1>2, <2>2, <2>3, ClosedKept DEF Inv, Off
    <1>6. QED
        BY <1>4, <1>5

(* A request adds the gap since the last logged end to the sum, and the    *)
(* time since the session was gone to `offline`, which is no shorter.      *)
LEMMA DownRequest ==
    ASSUME Inv, Inv', NEW a \in Applications, NEW d \in Addresses, CreateSessionRequest(a, d),
           Off(a), Bounded(a)
    PROVE  Off(a)' /\ Bounded(a)'
    <1>1. now \in Nat /\ now' = now + 1
        BY RecordRead DEF Inv, CreateSessionRequest
    <1>2. offline'[a] = IF Known(a) /\ current[a] = NoToken
                        THEN offline[a] + now' - offSince[a] ELSE offline[a]
        BY DEF Inv, TypeOK, CreateSessionRequest, Request
    <1>3. /\ offline[a] \in Nat /\ offSince[a] \in Nat /\ offSince[a] <= now
          /\ offline'[a] \in Nat
        BY DEF Inv, TypeOK, Timely
    <1>4. client[a] \in ClientType(granted) /\ client'[a] \in ClientType(granted')
        BY DEF Inv, TypeOK, ClientType
    <1> DEFINE q == Append(client'[a].past, Span(client'[a]))
    <1> DEFINE p == Append(client[a].past, Span(client[a]))
    <1> DEFINE n == Len(client[a].past)
    <1>5. AtMost(n, p, offline[a]) /\ n \in Nat
        BY <1>4, SpansOf DEF Bounded, Spans
    <1>6. CASE ~Known(a)
        <2>1. client'[a] = [token |-> client[a].token, connectedAt |-> now',
                            disconnectedAt |-> client[a].disconnectedAt,
                            active |-> client[a].active, past |-> client[a].past]
            BY <1>6, Requested DEF Inv
        <2>2. client[a].past = <<>> /\ client[a].disconnectedAt = 0
            BY <1>6 DEF Inv, Timely
        <2>3. client'[a].past = <<>> /\ client'[a].disconnectedAt = 0
            BY <2>1, <2>2
        <2>4. n = 0 /\ Len(client'[a].past) = 0
            BY <2>2, <2>3
        <2>5. offline'[a] = offline[a]
            BY <1>2, <1>6
        <2> HIDE DEF p, q, n
        <2>6. \A i \in 1 .. 0 : GapToNext(q, i) = GapToNext(p, i)
            OBVIOUS
        <2>7. AtMost(0, p, offline[a])
            BY <1>5, <2>4
        <2>8. AtMost(0, q, offline[a])
            BY <1>3, <2>6, <2>7, SumKept
        <2>9. QED
            BY <2>3, <2>4, <2>5, <2>8 DEF Off, Bounded, Spans, q
    <1>7. CASE Known(a)
        <2>1. client'[a] = [token |-> NoToken, connectedAt |-> now', disconnectedAt |-> 0,
                            active |-> FALSE, past |-> p]
            BY <1>7, Requested DEF Inv
        <2>2. client'[a].past = p /\ client'[a].disconnectedAt = 0 /\ client'[a].connectedAt = now'
            BY <2>1
        <2>3. /\ p \in Seq(SpanType) /\ Len(p) = n + 1
              /\ p[n + 1].disconnectedAt = client[a].disconnectedAt
            BY <1>4, SpansOf
        <2>4. /\ q \in Seq(SpanType) /\ Len(q) = n + 2
              /\ \A i \in 1 .. n + 1 : q[i] = p[i]
              /\ q[n + 2].connectedAt = now'
            <3>1. /\ q \in Seq(SpanType) /\ Len(q) = Len(client'[a].past) + 1
                  /\ \A i \in 1 .. Len(client'[a].past) : q[i] = client'[a].past[i]
                  /\ q[Len(client'[a].past) + 1].connectedAt = client'[a].connectedAt
                BY <1>4, SpansOf
            <3>2. Len(client'[a].past) = n + 1 /\ (n + 1) + 1 = n + 2
                BY <1>5, <2>2, <2>3
            <3> HIDE DEF q, p, n
            <3>3. QED
                BY <2>2, <3>1, <3>2
        <2> DEFINE gap == GapToNext(q, n + 1)
        <2> DEFINE off == client[a].disconnectedAt
        <2>5. off \in Nat /\ off <= now
            BY <1>7, ClientFields DEF Inv, Timely
        <2>6. off # 0 => current[a] = NoToken /\ offSince[a] <= off
            BY DEF Off
        <2> HIDE DEF p, q, n, off
        <2>7. n + 1 \in 1 .. n + 1 /\ (n + 1) + 1 = n + 2
            BY <1>5
        <2>8. gap = IF off \in 1 .. now' THEN now' - off ELSE 0
            <3>1. q[n + 1].disconnectedAt = off
                BY <2>3, <2>4, <2>7 DEF off
            <3>2. q[(n + 1) + 1].connectedAt = now'
                BY <2>4, <2>7
            <3>3. QED
                BY <3>1, <3>2 DEF GapToNext
        <2> HIDE DEF gap
        <2>9. gap \in Nat /\ offline[a] + gap <= offline'[a]
            BY <1>1, <1>2, <1>3, <1>7, <2>5, <2>6, <2>8
        <2>10. ASSUME NEW i \in 1 .. n PROVE GapToNext(q, i) = GapToNext(p, i)
            <3>1. i \in 1 .. n + 1 /\ i + 1 \in 1 .. n + 1
                BY <1>5
            <3>2. q[i] = p[i] /\ q[i + 1] = p[i + 1]
                BY <2>4, <3>1
            <3>3. QED
                BY <3>2 DEF GapToNext
        <2>11. AtMost(n + 1, q, offline[a] + gap)
            BY <1>3, <1>5, <2>9, <2>10, SumGrows DEF gap
        <2>12. AtMost(n + 1, q, offline'[a])
            BY <1>3, <1>5, <2>9, <2>11, SumKept
        <2>13. Len(client'[a].past) = n + 1
            BY <2>2, <2>3
        <2>14. QED
            BY <2>2, <2>12, <2>13 DEF Off, Bounded, Spans, q
    <1>8. QED
        BY <1>6, <1>7

LEMMA DownInit == Init => Down
    <1> SUFFICES ASSUME Init, NEW a \in Applications PROVE Off(a) /\ Bounded(a)
        BY DEF Down
    <1>1. client[a].disconnectedAt = 0 /\ client[a].past = <<>> /\ offline[a] = 0
        BY DEF Init
    <1> DEFINE f == [i \in 0 .. 0 |-> 0]
    <1>2. IsTotal(f, 0, Spans(a))
        <2>1. f = [i \in 0 .. 0 |-> IF i = 0 THEN 0 ELSE f[i - 1] + GapToNext(Spans(a), i)]
            OBVIOUS
        <2>2. QED
            BY <2>1 DEF IsTotal
    <1>3. \A g : IsTotal(g, 0, Spans(a)) => g[0] = 0
        BY DEF IsTotal
    <1>4. AtMost(0, Spans(a), 0)
        BY <1>2, <1>3 DEF AtMost
    <1>5. QED
        BY <1>1, <1>4 DEF Off, Bounded

LEMMA DownNext == Inv /\ Inv' /\ Down /\ [Next]_vars => Down'
    <1> SUFFICES ASSUME Inv, Inv', Down, [Next]_vars, NEW b \in Applications
                 PROVE  Off(b)' /\ Bounded(b)'
        BY DEF Down
    <1>1. Off(b) /\ Bounded(b)
        BY DEF Down
    <1>2. ASSUME NEW a \in Applications, NEW d \in Addresses, CreateSessionRequest(a, d)
          PROVE  Off(b)' /\ Bounded(b)'
        <2>1. CASE b = a
            BY <1>1, <1>2, <2>1, DownRequest
        <2>2. CASE b # a
            <3>1. client'[b] = client[b]
                BY <1>2, <2>2, Requested DEF Inv
            <3>2. /\ current'[b] = current[b] /\ offSince'[b] = offSince[b]
                  /\ offline'[b] = offline[b]
                BY <1>2, <2>2 DEF Inv, TypeOK, CreateSessionRequest, Request
            <3>3. QED
                BY <1>1, <3>1, <3>2, ClosedKept DEF Inv, Off
        <2>3. QED
            BY <2>1, <2>2
    <1>3. ASSUME NEW d \in Addresses, CreateSessionResponse(d) PROVE Off(b)' /\ Bounded(b)'
        BY <1>1, <1>3, DownResponse
    <1>4. ASSUME NEW t \in Tokens, EndOf(t) PROVE Off(b)' /\ Bounded(b)'
        BY <1>1, <1>4, DownEnd
    <1>5. CASE \/ UNCHANGED vars
               \/ \E t \in Tokens : Used(t)
               \/ \E d \in Addresses : CreateSessionRejected(d)
        <2>1. UNCHANGED <<current, offSince, offline, client>>
            BY <1>5 DEF vars, world, handshakes, Used, CreateSessionRejected
        <2>2. QED
            BY <1>1, <2>1, DownKept
    <1>6. QED
        BY <1>2, <1>3, <1>4, <1>5 DEF Next, EndOf

LEMMA DownSum == Inv /\ Down => DowntimeNotOverstated
    <1> SUFFICES ASSUME Inv, Down, NEW a \in Applications
                 PROVE  total_downtime_seconds(a) <= offline[a]
        BY DEF DowntimeNotOverstated
    <1> DEFINE n == Len(client[a].past)
    <1> DEFINE total == CHOOSE f : IsTotal(f, n, Spans(a))
    <1>1. AtMost(n, Spans(a), offline[a])
        BY DEF Down, Bounded
    <1>2. IsTotal(total, n, Spans(a))
        BY <1>1 DEF AtMost
    <1>3. total_downtime_seconds(a) = total[n]
        BY DEF total_downtime_seconds, IsTotal
    <1>4. QED
        BY <1>1, <1>2, <1>3 DEF AtMost

(* However ends of sessions are logged late, twice or not at all, the      *)
(* downtime of a client is never more than the time it had no session.     *)
THEOREM DowntimeIsReal == Spec => []DowntimeNotOverstated
    <1>1. QED
        BY DownInit, DownNext, DownSum, Invariant, PTL DEF Spec

-----------------------------------------------------------------------------
(* What build_sessions lists.                                              *)

LEMMA RichOf ==
    ASSUME NEW a
    PROVE  /\ Rich("tag", a).of = a /\ Rich("token", a).of = a
           /\ Rich("tag", a).kind = "tag" /\ Rich("token", a).kind = "token"
           /\ Rich("tag", a).session = client[a].token
           /\ Rich("token", a).session = client[a].token
    BY DEF Rich, Entry

Alone(t) == \A b \in OfHandshakes : client[b].token = t => ~Joined(b)
BareOf(t) == Entry("tag", t, Nobody, tagged[t] = "active")

LEMMA OfBare ==
    ASSUME NEW t
    PROVE  BareOf(t).of = Nobody /\ BareOf(t).kind = "tag" /\ BareOf(t).session = t
    BY DEF BareOf, Entry

(* A client that some tag stands for is one whose token that tag carried.  *)
LEMMA TaggedIsJoined ==
    ASSUME NEW a \in OfHandshakes
    PROVE  NotTagged(a) <=> ~Joined(a)
    <1>1. CASE Joined(a)
        <2>1. Rich("tag", a) \in ByTag
            BY <1>1 DEF ByTag
        <2>2. QED
            BY <1>1, <2>1, RichOf DEF NotTagged
    <1>2. CASE ~Joined(a)
        BY <1>2, RichOf DEF NotTagged, ByTag
    <1>3. QED
        BY <1>1, <1>2

(* The entries of build_sessions, by the client they stand for.            *)
LEMMA Entries ==
    ASSUME NEW e, e \in build_sessions
    PROVE  \/ \E b \in OfHandshakes : Joined(b) /\ e = Rich("tag", b)
           \/ \E b \in OfHandshakes : ~Joined(b) /\ e = Rich("token", b)
           \/ \E t \in Tokens : Alone(t) /\ e = BareOf(t)
    <1>1. CASE e \in ByTag
        BY <1>1 DEF ByTag
    <1>2. CASE e \in Bare
        BY <1>2 DEF Bare, BareOf, Alone
    <1>3. CASE e \in ByToken
        BY <1>3, TaggedIsJoined DEF ByToken
    <1>4. QED
        BY <1>1, <1>2, <1>3 DEF build_sessions

(* A token is one client's.                                                *)
LEMMA OneClientPerToken ==
    ASSUME Inv, NEW a \in OfHandshakes, NEW b \in OfHandshakes, client[a].token = client[b].token
    PROVE  a = b
    BY DEF OfHandshakes, Inv, Handshakes, OneKeyPerClient

(* Of two entries for one session one is bare, the other its client's, and *)
(* the client was not joined.                                              *)
LEMMA SessionsDiffer ==
    ASSUME Inv, NEW e \in build_sessions, NEW f \in build_sessions, e.session = f.session
    PROVE  e = f \/ (e.kind # f.kind /\ e.session \notin carried)
    <1>1. ASSUME NEW b \in OfHandshakes, Joined(b), e = Rich("tag", b) \/ f = Rich("tag", b)
          PROVE  e = f
        <2>1. \A c \in OfHandshakes : client[c].token = client[b].token => c = b
            BY OneClientPerToken
        <2>2. ~Alone(client[b].token)
            BY <1>1 DEF Alone
        <2>3. QED
            BY <1>1, <2>1, <2>2, Entries, RichOf, OfBare
    <1>2. ASSUME NEW b \in OfHandshakes, ~Joined(b), e = Rich("token", b) \/ f = Rich("token", b)
          PROVE  e = f \/ (e.kind # f.kind /\ e.session \notin carried)
        <2>1. \A c \in OfHandshakes : client[c].token = client[b].token => c = b
            BY OneClientPerToken
        <2>2. e.session = client[b].token /\ e.session \notin carried
            BY <1>2, RichOf DEF Joined
        <2>3. ASSUME NEW g \in build_sessions, g.session = client[b].token
              PROVE  g = Rich("token", b) \/ g.kind = "tag"
            <3>1. CASE \E c \in OfHandshakes : g = Rich("token", c)
                BY <2>1, <2>3, <3>1, RichOf
            <3>2. CASE \E c \in OfHandshakes : g = Rich("tag", c)
                BY <3>2, RichOf
            <3>3. CASE \E t \in Tokens : g = BareOf(t)
                BY <3>3, OfBare
            <3>4. QED
                BY <3>1, <3>2, <3>3, Entries
        <2>4. /\ e = Rich("token", b) \/ e.kind = "tag"
              /\ f = Rich("token", b) \/ f.kind = "tag"
            BY <2>2, <2>3
        <2>5. "tag" # "token"
            OBVIOUS
        <2>6. QED
            BY <1>2, <2>2, <2>4, <2>5, RichOf
    <1>3. ASSUME NEW t \in Tokens, NEW u \in Tokens, e = BareOf(t), f = BareOf(u)
          PROVE  e = f
        BY <1>3, OfBare
    <1>4. QED
        BY <1>1, <1>2, <1>3, Entries

LEMMA ListedInv == Inv => ListedOnce
    <1> SUFFICES ASSUME Inv PROVE ListedOnce
        OBVIOUS
    <1>1. ASSUME NEW a \in OfHandshakes
          PROVE  Cardinality({e \in build_sessions : e.of = a}) = 1
        <2>1. a # Nobody
            BY DEF OfHandshakes
        <2>2. CASE Joined(a)
            <3>1. Rich("tag", a) \in build_sessions
                BY <2>2 DEF ByTag, build_sessions
            <3>2. ASSUME NEW e, e \in build_sessions, e.of = a PROVE e = Rich("tag", a)
                BY <2>1, <2>2, <3>2, Entries, RichOf, OfBare
            <3>3. {e \in build_sessions : e.of = a} = {Rich("tag", a)}
                BY <3>1, <3>2, RichOf
            <3>4. QED
                BY <3>3, FS_Singleton
        <2>3. CASE ~Joined(a)
            <3>1. Rich("token", a) \in build_sessions
                BY <2>3, TaggedIsJoined DEF ByToken, build_sessions
            <3>2. ASSUME NEW e, e \in build_sessions, e.of = a PROVE e = Rich("token", a)
                BY <2>1, <2>3, <3>2, Entries, RichOf, OfBare
            <3>3. {e \in build_sessions : e.of = a} = {Rich("token", a)}
                BY <3>1, <3>2, RichOf
            <3>4. QED
                BY <3>3, FS_Singleton
        <2>4. QED
            BY <2>2, <2>3
    <1>2. ASSUME NEW t \in Tokens, tagged[t] # "unseen"
          PROVE  \E e \in build_sessions : e.kind = "tag" /\ e.session = t
        <2>1. CASE ~Alone(t)
            <3>1. PICK b \in OfHandshakes : client[b].token = t /\ Joined(b)
                BY <2>1 DEF Alone
            <3>2. Rich("tag", b) \in build_sessions
                BY <3>1 DEF ByTag, build_sessions
            <3>3. QED
                BY <3>1, <3>2, RichOf
        <2>2. CASE Alone(t)
            <3>1. BareOf(t) \in build_sessions
                BY <1>2, <2>2 DEF Bare, BareOf, Alone, build_sessions
            <3>2. QED
                BY <3>1, OfBare
        <2>3. QED
            BY <2>1, <2>2
    <1>3. QED
        BY <1>1, <1>2, SessionsDiffer DEF ListedOnce

(* Whatever the handshakes and the tags know of a session, its client is   *)
(* in what build_sessions returns once, no tag is left out, no entry takes *)
(* the place of another, and a session is in two of them only if its token *)
(* is in no record of its tag.                                             *)
THEOREM ListedOnceEach == Spec => []ListedOnce
    <1>1. QED
        BY ListedInv, Invariant, PTL

=============================================================================
