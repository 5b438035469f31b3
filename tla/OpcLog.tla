-------------------------------- MODULE OpcLog --------------------------------
(***************************************************************************)
(* What lib/opc_parser.py makes of a server's log of OPC UA services:      *)
(* build_client_map follows the clients through handshakes and ends of     *)
(* sessions, build_active_map the sessions by the tag of their records,    *)
(* build_sessions joins the two.                                           *)
(*                                                                         *)
(* A step is one record, taken by both loops, and its timestamp the number *)
(* of the record.  An application name has one ClientSession for good      *)
(* (by_app_name), so the name stands for the object that `sessions` and    *)
(* `pending` share.  Names, URIs, reasons and last_seen are left out.      *)
(*                                                                         *)
(* The observers current, offSince and offline are what the log says, read *)
(* without the parser.  One reading they share with it: a fault, whatever  *)
(* request it answers, ends the session of its tag.                        *)
(***************************************************************************)
EXTENDS Integers, Sequences, FiniteSets, FiniteSetsExt

CONSTANTS
    Applications,  \* application names in CreateSessionRequests
    Nobody,        \* no application
    Addresses,     \* tags of handshakes, which build_active_map skips
    MaxTokens,     \* bound: sessions the server grants
    MaxRecords     \* bound: records of the log

ASSUME OpcLogAssumption ==
    /\ Nobody \notin Applications
    /\ MaxTokens \in Nat /\ MaxRecords \in Nat

Tokens == 1 .. MaxTokens
NoToken == 0

VARIABLES
    now,       \* records read so far, the timestamp of the last
    granted,   \* tokens the server has granted, 1 .. granted
    asking,    \* per address: the application that waits for a response
    current,   \* per application: the session it has, as the log tells it
    offSince,  \* per application without one: since when
    offline,   \* per application: time without session up to its last request
    client,    \* per application: its ClientSession
    sessions,  \* sessions of build_client_map, by token
    pending,   \* pending of build_client_map, by address
    tagged,    \* sessions of build_active_map: "unseen", "active", "inactive"
    carried    \* its sessions with a token: some record of the tag carried it

world == <<granted, asking, current, offSince, offline>>
handshakes == <<client, sessions, pending>>
actives == <<tagged, carried>>
vars == <<now, world, handshakes, actives>>

Clients == Applications \cup {Nobody}
Known(a) == client[a].connectedAt # 0

Init ==
    /\ now = 0 /\ granted = 0
    /\ asking = [d \in Addresses |-> Nobody]
    /\ current = [a \in Applications |-> NoToken]
    /\ offSince = [a \in Applications |-> 0]
    /\ offline = [a \in Applications |-> 0]
    /\ client = [a \in Applications |-> [token |-> NoToken, connectedAt |-> 0,
                     disconnectedAt |-> 0, active |-> FALSE, past |-> <<>>]]
    /\ sessions = [t \in Tokens |-> Nobody]
    /\ pending = [d \in Addresses |-> Nobody]
    /\ tagged = [t \in Tokens |-> "unseen"] /\ carried = {}

NextRecord == now < MaxRecords /\ now' = now + 1

-----------------------------------------------------------------------------
(* CreateSessionRequest.                                                   *)

(* _push_reconnect, or a new ClientSession.                                *)
Span(c) == [connectedAt |-> c.connectedAt, disconnectedAt |-> c.disconnectedAt]
KeepsEnd(c) ==
    [c EXCEPT !.token = NoToken, !.connectedAt = now', !.active = FALSE,
              !.past = Append(@, Span(c))]
StaysActive(c) ==
    [c EXCEPT !.token = NoToken, !.connectedAt = now', !.disconnectedAt = 0,
              !.past = Append(@, Span(c))]
ItselfKept(c) ==
    [c EXCEPT !.token = NoToken, !.connectedAt = now', !.active = FALSE,
              !.disconnectedAt = 0, !.past = Append(@, c)]
Reconnected(c) ==
    [c EXCEPT !.token = NoToken, !.connectedAt = now', !.active = FALSE,
              !.disconnectedAt = 0, !.past = Append(@, Span(c))]
Appeared(c) == [c EXCEPT !.connectedAt = now']

OldKeyKept(a) == sessions
OldKeyDropped(a) == [t \in Tokens |-> IF t = client[a].token THEN Nobody ELSE sessions[t]]

(* An application has one connection: asking again, it has given up what   *)
(* it had, and an address that is asked again answers no earlier request.  *)
Request(a, d) ==
    /\ asking' = [e \in Addresses |-> IF e = d THEN a
                                      ELSE IF asking[e] = a THEN Nobody ELSE asking[e]]
    /\ current' = [current EXCEPT ![a] = NoToken]
    /\ offline' = [offline EXCEPT ![a] =
                      IF Known(a) /\ current[a] = NoToken THEN @ + now' - offSince[a] ELSE @]
    /\ offSince' = [offSince EXCEPT ![a] = now']
    /\ UNCHANGED granted

CreateSessionRequest(a, d) ==
    /\ NextRecord
    /\ Request(a, d)
    /\ client' = [client EXCEPT ![a] = IF Known(a) THEN Reconnected(@) ELSE Appeared(@)]
    /\ sessions' = OldKeyDropped(a)
    /\ pending' = [pending EXCEPT ![d] = a]
    /\ UNCHANGED actives

-----------------------------------------------------------------------------
(* CreateSessionResponse.                                                  *)

Answered(d) == asking[d] # Nobody /\ asking' = [asking EXCEPT ![d] = Nobody]

CreateSessionResponse(d) ==
    /\ NextRecord /\ Answered(d)
    /\ granted < MaxTokens /\ granted' = granted + 1
    /\ current' = [current EXCEPT ![asking[d]] = granted']
    /\ pending' = [pending EXCEPT ![d] = Nobody]
    /\ IF pending[d] = Nobody THEN UNCHANGED <<client, sessions>>
       ELSE /\ client' = [client EXCEPT ![pending[d]].token = granted', ![pending[d]].active = TRUE]
            /\ sessions' = [sessions EXCEPT ![granted'] = pending[d]]
    /\ UNCHANGED <<offSince, offline, actives>>

CreateSessionRejected(d) ==
    /\ NextRecord /\ Answered(d)
    /\ pending' = [pending EXCEPT ![d] = Nobody]
    /\ UNCHANGED <<granted, current, offSince, offline, client, sessions, actives>>

-----------------------------------------------------------------------------
(* Records of a session, tagged with its token; also of one its client has *)
(* left, which the server ends later.                                      *)

Ends(t) ==
    /\ current' = [a \in Applications |-> IF current[a] = t THEN NoToken ELSE current[a]]
    /\ offSince' = [a \in Applications |-> IF current[a] = t THEN now' ELSE offSince[a]]
    /\ UNCHANGED <<granted, asking, offline>>

Seen(t) == IF tagged[t] = "unseen" THEN "active" ELSE tagged[t]
Mentions(t, state) ==
    /\ tagged' = [tagged EXCEPT ![t] = state]
    /\ carried' \in {carried, carried \cup {t}}

(* Any request or good response.                                           *)
Used(t) ==
    /\ NextRecord /\ t <= granted
    /\ Mentions(t, Seen(t))
    /\ UNCHANGED <<world, handshakes>>

ActivateSessionRejected(t) ==
    /\ NextRecord /\ t <= granted /\ Ends(t)
    /\ Mentions(t, Seen(t))
    /\ client' = [a \in Applications |-> IF a = sessions[t]
                      THEN [client[a] EXCEPT !.active = FALSE] ELSE client[a]]
    /\ UNCHANGED <<sessions, pending>>

Disconnected(c) == [c EXCEPT !.active = FALSE, !.disconnectedAt = now']

ServiceFault(t) ==
    /\ NextRecord /\ t <= granted /\ Ends(t)
    /\ Mentions(t, "inactive")
    /\ client' = [a \in Applications |-> IF a = sessions[t] /\ client[a].active
                      THEN Disconnected(client[a]) ELSE client[a]]
    /\ UNCHANGED <<sessions, pending>>

CloseSession(t) ==
    /\ NextRecord /\ t <= granted /\ Ends(t)
    /\ Mentions(t, "inactive")
    /\ client' = [a \in Applications |-> IF a = sessions[t]
                      THEN Disconnected(client[a]) ELSE client[a]]
    /\ UNCHANGED <<sessions, pending>>

Next ==
    \/ \E d \in Addresses :
        \/ \E a \in Applications : CreateSessionRequest(a, d)
        \/ CreateSessionResponse(d) \/ CreateSessionRejected(d)
    \/ \E t \in Tokens :
        Used(t) \/ ActivateSessionRejected(t) \/ ServiceFault(t) \/ CloseSession(t)

Spec == Init /\ [][Next]_vars

-----------------------------------------------------------------------------
(* What the functions return.                                              *)

Spans(a) == Append(client[a].past, Span(client[a]))
GapFromStart(spans, i) ==
    spans[i + 1].connectedAt - Max({spans[i].connectedAt, spans[i].disconnectedAt})
GapToNext(spans, i) ==
    IF spans[i].disconnectedAt \in 1 .. spans[i + 1].connectedAt
    THEN spans[i + 1].connectedAt - spans[i].disconnectedAt ELSE 0
total_downtime_seconds(a) ==
    LET gaps == Len(client[a].past)
        total[i \in 0 .. gaps] == IF i = 0 THEN 0 ELSE total[i - 1] + GapToNext(Spans(a), i)
    IN  total[gaps]

(* build_sessions: under every tag the client with the token that its      *)
(* records carried, else the bare session; then, under their tokens, the   *)
(* clients that no tag stands for.                                         *)
OfHandshakes == {sessions[t] : t \in Tokens} \ {Nobody}
Entry(kind, t, a, on) == [kind |-> kind, session |-> t, of |-> a, active |-> on]
Rich(kind, a) == Entry(kind, client[a].token, a, client[a].active)
Joined(a) == client[a].token \in carried
ByTag == {Rich("tag", a) : a \in {b \in OfHandshakes : Joined(b)}}
Bare ==
    {Entry("tag", t, Nobody, tagged[t] = "active") : t \in {u \in Tokens :
        tagged[u] # "unseen" /\ \A b \in OfHandshakes : client[b].token = u => ~Joined(b)}}
Anybody(a) == TRUE
NotTagged(a) == \A entry \in ByTag : entry.of # a
ByToken == {Rich("token", a) : a \in {b \in OfHandshakes : NotTagged(b)}}
build_sessions == ByTag \cup Bare \cup ByToken

-----------------------------------------------------------------------------
(* Every variable has its type.                                            *)
SpanType == [connectedAt : Nat, disconnectedAt : Nat]
TypeOK ==
    /\ now \in 0 .. MaxRecords /\ granted \in 0 .. MaxTokens
    /\ asking \in [Addresses -> Clients] /\ pending \in [Addresses -> Clients]
    /\ current \in [Applications -> 0 .. granted]
    /\ offSince \in [Applications -> Nat] /\ offline \in [Applications -> Nat]
    /\ client \in [Applications -> [token : 0 .. granted, connectedAt : Nat,
                      disconnectedAt : Nat, active : BOOLEAN, past : Seq(SpanType)]]
    /\ sessions \in [Tokens -> Clients]
    /\ tagged \in [Tokens -> {"unseen", "active", "inactive"}]
    /\ carried \subseteq Tokens

(* A client is reported active exactly while it has the session of its     *)
(* last good response, and is found under that session's token: records of *)
(* sessions it left, ended late, change nothing.  (A fault counts as the   *)
(* end of its session.)                                                    *)
ActiveIsCurrent ==
    \A a \in Applications :
        /\ client[a].active <=> current[a] # NoToken
        /\ client[a].active => client[a].token = current[a] /\ sessions[current[a]] = a

(* One ClientSession object is in three maps and keeps its name's history: *)
(* no client is under two tokens, nor under one that is not its own.       *)
OneKeyPerClient ==
    \A t \in Tokens : sessions[t] # Nobody => client[sessions[t]].token = t

(* The connections of a client follow one another: each ends, if its end   *)
(* was logged, after it began and before the next one was asked for.       *)
SpansInOrder ==
    \A a \in Applications : \A i \in DOMAIN Spans(a) :
        LET s == Spans(a)[i] IN
        /\ s.disconnectedAt # 0 => s.connectedAt < s.disconnectedAt
        /\ i < Len(Spans(a)) =>
              /\ s.connectedAt < Spans(a)[i + 1].connectedAt
              /\ s.disconnectedAt < Spans(a)[i + 1].connectedAt

(* total_downtime_seconds never claims more than the client was without a  *)
(* session; less, where an end was not logged or an attempt failed.  (A    *)
(* fault counts as the end of its session.)                                *)
DowntimeNotOverstated ==
    \A a \in Applications : Known(a) => total_downtime_seconds(a) <= offline[a]

(* build_sessions lists every client of a handshake once, and every        *)
(* session the log mentions under its tag.  No two entries want the same   *)
(* key of the dict, and a session is in two, bare and as its client's,     *)
(* only if no record of its tag ever carried its token.                    *)
ListedOnce ==
    /\ \A a \in OfHandshakes : Cardinality({e \in build_sessions : e.of = a}) = 1
    /\ \A t \in Tokens : tagged[t] # "unseen" =>
            \E e \in build_sessions : e.kind = "tag" /\ e.session = t
    /\ \A e, f \in build_sessions : e.session = f.session =>
            e = f \/ (e.kind # f.kind /\ e.session \notin carried)

=============================================================================
