------------------------------- MODULE Heartbeat -------------------------------
(***************************************************************************)
(* One heartbeat pair (lib/heartbeat.py): a program whose handler owns the *)
(* heartbeat and sends it, one whose handler echoes it, and the two tags   *)
(* of the OPC UA server through which they see each other.  Either program *)
(* loses its session and starts another whenever it likes.                 *)
(*                                                                         *)
(* Time is counted in beats.  A carrier is a value together with its age:  *)
(* the beats sent since the one that wrote it.  The code carries the value *)
(* alone; the age tells which beat an answer really answers.               *)
(***************************************************************************)
EXTENDS Integers, Sequences

CONSTANTS
    MaxHeartbeat,  \* MAX_HEARTBEAT_NUMBER
    MaxRtts,       \* MAX_BUFFERED_RTTS
    StaleAfter,    \* stale_after, in beats
    MaxLag,        \* bound: carriers under way when the sender wakes
    MaxFaults      \* bound: faults in all

ASSUME HeartbeatAssumption ==
    /\ MaxHeartbeat \in Nat \ {0}
    /\ MaxRtts \in Nat \ {0}
    /\ StaleAfter \in Nat \ {0}
    /\ MaxLag \in {0, 1}
    /\ MaxFaults \in Nat

Values == 0 .. MaxHeartbeat
Tags == {"send", "receive"}
Listener(t) == IF t = "send" THEN "echo" ELSE "owner"

(* Ages beyond a whole lap of the heartbeat are all one.                   *)
Never == -1
MaxAge == 2 * MaxHeartbeat + 1
Ages == 0 .. MaxAge
Carriers == [val : Values, age : Ages]

(* How long a pair may take to get over a fault, with answers MaxLag late. *)
Recovery == 2 * MaxLag + 3

Longer(n, max) == IF n \in {Never, max} THEN n ELSE n + 1

VARIABLES
    link,        \* each program's session: "down", "up", or "cut" unnoticed
    sender,      \* the await at which the task of run stands
    heartbeat,   \* _heartbeat
    increasing,  \* _increasing
    sentAt,      \* _sent_at_map, as the age of each entry
    silence,     \* beats since _last_received_at
    rtts,        \* how many round trips _rtts holds
    answering,   \* what echo_value is writing
    tag,         \* what the server's tags hold
    item,        \* a subscription's queue of one in the server
    wire,        \* notifications sent and not handled
    told,        \* observer: on_stale was called on this beat
    trip,        \* observer: what the last notification of this beat measured
    calm,        \* observer: beats since anything failed or started
    faults       \* how many faults struck

owner == <<sender, heartbeat, increasing, sentAt, silence, rtts>>
server == <<tag, item, wire>>
observed == <<told, trip, calm>>
vars == <<link, owner, answering, server, observed, faults>>

Fault ==
    /\ faults < MaxFaults
    /\ faults' = faults + 1

-----------------------------------------------------------------------------
(* The server.  A write that changes a tag replaces what its subscription  *)
(* has not sent yet; a new subscription starts with the current value.     *)
(* The tags are integers, which write_value passes on as they are.         *)
Write(t, c) ==
    /\ tag' = [tag EXCEPT ![t] = c]
    /\ item' = IF c.val # tag[t].val /\ link[Listener(t)] = "up"
               THEN [item EXCEPT ![t] = <<c>>] ELSE item
    /\ UNCHANGED wire

Keep == UNCHANGED server

(* A cancelled or failed write may have reached the server.                *)
MayWrite(t, c) == Keep \/ Write(t, c)

Publish(t) ==
    /\ link[Listener(t)] = "up" /\ item[t] # <<>>
    /\ wire' = [wire EXCEPT ![t] = @ \o item[t]]
    /\ item' = [item EXCEPT ![t] = <<>>]
    /\ UNCHANGED <<link, owner, answering, tag, observed, faults>>

Subscribe(t) ==
    /\ item' = [item EXCEPT ![t] = <<tag[t]>>]
    /\ wire' = [wire EXCEPT ![t] = <<>>]
    /\ UNCHANGED tag

(* When the sender wakes (HEARTBEAT_INTERVAL_SECONDS) the server has       *)
(* published all changes (every 500 ms), and at most MaxLag of them are    *)
(* still under way to programs that can be reached.  Where the count turns *)
(* a value comes back after two beats, so MaxLag is less than two.         *)
Reached == {t \in Tags : link[Listener(t)] = "up"}
Load(t) ==
    IF t \notin Reached THEN 0
    ELSE Len(wire[t]) + (IF t = "send" THEN Len(answering) ELSE 0)
Timely ==
    /\ \A t \in Reached : item[t] = <<>>
    /\ Load("send") + Load("receive") <= MaxLag
-----------------------------------------------------------------------------
Init ==
    /\ link = [p \in {"owner", "echo"} |-> "down"]
    /\ sender = "off"
    /\ heartbeat = 0 /\ increasing = TRUE
    /\ sentAt = [v \in Values |-> Never]
    /\ silence = Never
    /\ rtts = 0
    /\ answering = <<>>
    /\ tag = [t \in Tags |-> [val |-> 0, age |-> MaxAge]]
    /\ item = [t \in Tags |-> <<>>] /\ wire = [t \in Tags |-> <<>>]
    /\ told = FALSE /\ trip = "none" /\ calm = 0
    /\ faults = 0

Disturbed == calm' = 0

(* A new session makes a new handler, subscribes it and, unless it echoes, *)
(* starts its task.                                                        *)
StartOwner ==
    /\ link["owner"] = "down"
    /\ link' = [link EXCEPT !["owner"] = "up"]
    /\ sender' = "starting"
    /\ heartbeat' = 0 /\ increasing' = TRUE
    /\ sentAt' = [v \in Values |-> Never]
    /\ silence' = Never
    /\ rtts' = 0
    /\ Subscribe("receive")
    /\ Disturbed /\ told' = FALSE /\ trip' = "none"
    /\ UNCHANGED <<answering, faults>>

StartEcho ==
    /\ link["echo"] = "down"
    /\ link' = [link EXCEPT !["echo"] = "up"]
    /\ Subscribe("send")
    /\ Disturbed
    /\ UNCHANGED <<owner, answering, told, trip, faults>>

-----------------------------------------------------------------------------
(* run.  A beat counts up to the maximum and down to 0 again, and notes    *)
(* when it was sent before it is written.                                  *)
NeverTurns == increasing
Turned ==
    IF heartbeat = MaxHeartbeat /\ increasing THEN FALSE
    ELSE IF heartbeat = 0 /\ ~increasing THEN TRUE
    ELSE increasing
StaysAtMax == IF heartbeat < MaxHeartbeat THEN heartbeat + 1 ELSE heartbeat
Updated == heartbeat + (IF Turned THEN 1 ELSE -1)

Aged(c) == [c EXCEPT !.age = Longer(@, MaxAge)]
AgedAll(s) == [i \in DOMAIN s |-> Aged(s[i])]

NotedOnce(v) == IF sentAt[v] = Never THEN 0 ELSE Longer(sentAt[v], MaxAge)
Noted(v) == 0

Beat ==
    /\ sender = "starting" \/ (sender = "asleep" /\ Timely)
    /\ sender' = "sending"
    /\ increasing' = Turned
    /\ heartbeat' = Updated
    /\ sentAt' = [v \in Values |->
           IF v = Updated THEN Noted(v) ELSE Longer(sentAt[v], MaxAge)]
    /\ silence' = IF sender = "asleep" THEN Longer(silence, StaleAfter + 1) ELSE silence
    /\ tag' = [t \in Tags |-> Aged(tag[t])]
    /\ item' = [t \in Tags |-> AgedAll(item[t])]
    /\ wire' = [t \in Tags |-> AgedAll(wire[t])]
    /\ answering' = AgedAll(answering)
    /\ calm' = IF \A p \in DOMAIN link : link[p] = "up"
               THEN Longer(calm, Recovery + 1) ELSE 0
    /\ told' = FALSE /\ trip' = "none"
    /\ UNCHANGED <<link, rtts, faults>>

Sent == [val |-> heartbeat, age |-> 0]

Written ==
    /\ sender = "sending" /\ link["owner"] = "up"
    /\ Write("send", Sent)
    /\ sender' = "checking"
    /\ UNCHANGED <<link, heartbeat, increasing, sentAt, silence, rtts, answering, observed, faults>>

(* A request may take many beats to fail.                                  *)
SendFails ==
    /\ sender = "sending"
    /\ IF link["owner"] = "up" THEN Fault /\ MayWrite("send", Sent)
                               ELSE Keep /\ UNCHANGED faults
    /\ sender' = "checking"
    /\ silence' \in {silence, Longer(silence, StaleAfter + 1)}
    /\ Disturbed
    /\ UNCHANGED <<link, heartbeat, increasing, sentAt, rtts, answering, told, trip>>

(* is_stale.  After exactly StaleAfter sleeps the time elapsed may be on   *)
(* either side of the limit.  Only the ingestor's on_stale can fail; it    *)
(* ends the task.                                                          *)
StaleOnce(stale) == stale = (silence = StaleAfter)
IsStale(stale) ==
    /\ stale => silence >= StaleAfter
    /\ silence > StaleAfter => stale

Check ==
    /\ sender = "checking"
    /\ told' \in BOOLEAN /\ IsStale(told')
    /\ \/ sender' = "asleep" /\ UNCHANGED faults
       \/ told' /\ sender' = "dead" /\ Fault
    /\ UNCHANGED <<link, heartbeat, increasing, sentAt, silence, rtts, answering,
                   server, trip, calm>>

-----------------------------------------------------------------------------
(* datachange_notification of the owner: any value ends the silence, one   *)
(* that was sent and not answered is a round trip.                         *)
FirstOnly == IF silence = Never THEN 0 ELSE silence
SilenceEnds == 0

Receive ==
    /\ link["owner"] # "down" /\ wire["receive"] # <<>>
    /\ LET c == Head(wire["receive"]) IN
       /\ silence' = SilenceEnds
       /\ IF sentAt[c.val] # Never
          THEN /\ sentAt' = [sentAt EXCEPT ![c.val] = Never]
               /\ rtts' = IF rtts < MaxRtts THEN rtts + 1 ELSE rtts
               /\ trip' = IF sentAt[c.val] = c.age THEN "true" ELSE "false"
          ELSE UNCHANGED <<sentAt, rtts, trip>>
    /\ wire' = [wire EXCEPT !["receive"] = Tail(@)]
    /\ UNCHANGED <<link, sender, heartbeat, increasing, answering, tag, item, told, calm, faults>>

(* The agent publishes its round trips; the collector never drains them.   *)
Drain ==
    /\ link["owner"] = "up" /\ rtts > 0
    /\ rtts' = 0
    /\ UNCHANGED <<link, sender, heartbeat, increasing, sentAt, silence, answering,
                   server, observed, faults>>

(* datachange_notification of the echo, which asyncua awaits before the    *)
(* next one.                                                               *)
TakeBeat ==
    /\ link["echo"] # "down" /\ wire["send"] # <<>> /\ answering = <<>>
    /\ answering' = <<Head(wire["send"])>>
    /\ wire' = [wire EXCEPT !["send"] = Tail(@)]
    /\ UNCHANGED <<link, owner, tag, item, observed, faults>>

Answer ==
    /\ link["echo"] = "up" /\ answering # <<>>
    /\ Write("receive", answering[1])
    /\ answering' = <<>>
    /\ UNCHANGED <<link, owner, observed, faults>>

AnswerFails ==
    /\ answering # <<>>
    /\ IF link["echo"] = "up" THEN Fault /\ MayWrite("receive", answering[1])
                              ELSE Keep /\ UNCHANGED faults
    /\ answering' = <<>>
    /\ Disturbed
    /\ UNCHANGED <<link, owner, told, trip>>

-----------------------------------------------------------------------------
(* The connection of one program is lost.                                  *)
Cut(p) ==
    /\ link[p] = "up" /\ Fault
    /\ link' = [link EXCEPT ![p] = "cut"]
    /\ Disturbed
    /\ UNCHANGED <<owner, answering, server, told, trip>>

(* The session ends: stop cancels the task, then deletes the subscription. *)
(* A session also ends while its connection works.  That a cancelled write *)
(* reached the server is the case of a session that ends right after it.   *)
Ends(p) ==
    /\ link[p] # "down"
    /\ IF link[p] = "up" THEN Fault ELSE UNCHANGED faults
    /\ link' = [link EXCEPT ![p] = "down"]
    /\ Disturbed

Unsubscribed(t) ==
    /\ item' = [item EXCEPT ![t] = <<>>]
    /\ wire' = [wire EXCEPT ![t] = <<>>]

EndOwner ==
    /\ Ends("owner")
    /\ sender' = "off"
    /\ Unsubscribed("receive")
    /\ UNCHANGED <<heartbeat, increasing, sentAt, silence, rtts, answering, tag, told, trip>>

EndEcho ==
    /\ Ends("echo")
    /\ answering' = <<>>
    /\ Unsubscribed("send")
    /\ UNCHANGED <<owner, tag, told, trip>>

-----------------------------------------------------------------------------
Sender == Beat \/ Written \/ SendFails \/ Check
Echo == TakeBeat \/ Answer \/ AnswerFails

Next ==
    \/ StartOwner \/ StartEcho
    \/ Sender \/ Receive \/ Drain \/ Echo
    \/ \E t \in Tags : Publish(t)
    \/ \E p \in DOMAIN link : Cut(p)
    \/ EndOwner \/ EndEcho

Spec == Init /\ [][Next]_vars

(* Sleeps and requests end, the server publishes and notifications are     *)
(* handled.  Neither program need ever start a session.                    *)
Fairness ==
    /\ WF_vars(Sender) /\ WF_vars(Receive) /\ WF_vars(Echo)
    /\ \A t \in Tags : WF_vars(Publish(t))

FairSpec == Spec /\ Fairness

-----------------------------------------------------------------------------
(* Every variable keeps to its set: the heartbeat to 0 .. MaxHeartbeat,    *)
(* the buffer of round trips to its size.                                  *)
TypeOK ==
    /\ link \in [{"owner", "echo"} -> {"down", "up", "cut"}]
    /\ sender \in {"off", "starting", "sending", "checking", "asleep", "dead"}
    /\ heartbeat \in Values /\ increasing \in BOOLEAN
    /\ sentAt \in [Values -> Ages \cup {Never}]
    /\ silence \in 0 .. (StaleAfter + 1) \cup {Never}
    /\ rtts \in 0 .. MaxRtts
    /\ answering \in Seq(Carriers) /\ Len(answering) <= 1
    /\ tag \in [Tags -> Carriers]
    /\ item \in [Tags -> Seq(Carriers)] /\ \A t \in Tags : Len(item[t]) <= 1
    /\ wire \in [Tags -> Seq(Carriers)]
    /\ told \in BOOLEAN /\ trip \in {"none", "true", "false"}
    /\ calm \in 0 .. Recovery + 1
    /\ faults \in 0 .. MaxFaults

(* on_stale is called "while the echo is stale" (heartbeat.py 172), never  *)
(* of a pair that works: not once both programs were up and nothing failed *)
(* for Recovery beats, provided stale_after is more than 2 * MaxLag + 1.   *)
NoFalseAlarm == told => calm <= Recovery \/ StaleAfter <= 2 * MaxLag + 1

(* "`value` was written to the send tag and its echo came back `rtt_ms`    *)
(* later" (models.py 112): in a pair that works, a round trip is measured  *)
(* against the very beat that its echo answers.                            *)
TripsTrue == trip = "false" => calm <= Recovery

(* An echo that stays away is told again and again (heartbeat.py 172), as  *)
(* long as the sender runs: because the other program stays gone or cut    *)
(* off, or because the own connection is lost.                             *)
StaleTold ==
    \/ <>[](link["owner"] = "up" /\ link["echo"] # "up" /\ sender # "dead")
    \/ <>[](link["owner"] = "cut" /\ silence # Never /\ sender # "dead")
    => []<>told

(* After any number of reconnects a pair whose sessions both last measures *)
(* true round trips again and again, whatever the tags held.               *)
Beats ==
    <>[]((\A p \in DOMAIN link : link[p] = "up") /\ sender # "dead")
    => []<>(trip = "true")
=============================================================================
