---------------------------- MODULE IngestorSession ----------------------------
(***************************************************************************)
(* The coroutine that serves one server: ingestor/src/main.py main and     *)
(* _run_session, the health monitor (ingestor/src/jobs.py), the            *)
(* subscriptions it watches (lib/subscription.py), the heartbeat's sender  *)
(* task (lib/heartbeat.py) and the rows it writes about itself             *)
(* (ingestor/src/db.py log_status, log_event).                             *)
(*                                                                         *)
(* An action is what the coroutine does between two awaits.  Database      *)
(* calls are synchronous: each belongs to an action and may fail in it.    *)
(* What the notifications carry is the matter of Ingest.                   *)
(***************************************************************************)
EXTENDS Integers, Sequences, FiniteSets, FiniteSetsExt

CONSTANTS
    Subscriptions,  \* number of NodeSubscriptions, in the order of the list
    MaxFaults       \* bound: faults of each kind

FaultKinds == {"refused", "link", "ended", "silence", "db", "connection", "crash"}
Subs == 1 .. Subscriptions

ASSUME SessionAssumption ==
    /\ Subscriptions \in Nat \ {0}
    /\ MaxFaults \in [FaultKinds -> Nat]

VARIABLES
    at,          \* the await at which the coroutine stands
    why,         \* the exception on its way to main: "none", "error", "cancel"
    session,     \* how many sessions were opened
    started,     \* parts of this session started: two heartbeats, then Subs
    link,        \* the OPC UA connection works
    failed,      \* subscriptions with a _failed_status
    silent,      \* subscriptions without a change for stale_after_seconds
    wasStale,    \* _was_stale
    silences,    \* how often each subscription fell silent
    senders,     \* sessions whose heartbeat sender task is alive
    shutdown,    \* asyncio.run has cancelled the coroutine
    broken,      \* the psycopg connection is unusable
    activeLog,   \* event column of active_log
    warnings,    \* SUBSCRIPTION rows of ingestor_logs, by subscription
    faults       \* how often each fault struck

connection == <<session, started, link>>
health == <<failed, silent, wasStale, silences>>
db == <<broken, activeLog, warnings>>
vars == <<at, why, connection, health, senders, shutdown, db, faults>>

Setup == {"connecting", "starting"}
Teardown == {"stopping", "halting", "flushing"}
Open == {"starting", "running"} \cup Teardown

Spend(kind) ==
    /\ faults[kind] < MaxFaults[kind]
    /\ faults' = [faults EXCEPT ![kind] = @ + 1]

(* A transaction of log_status or log_event; nothing reopens a broken      *)
(* connection.                                                             *)
Written == ~broken /\ UNCHANGED faults
NotWritten == IF broken THEN UNCHANGED faults ELSE Spend("db")

Init ==
    /\ at = "connecting"
    /\ why = "none"
    /\ session = 0
    /\ started = 0
    /\ link = FALSE
    /\ failed = {}
    /\ silent = {}
    /\ wasStale = {}
    /\ silences = [s \in Subs |-> 0]
    /\ senders = {}
    /\ shutdown = FALSE
    /\ broken = FALSE
    /\ activeLog = <<>>
    /\ warnings = [s \in Subs |-> 0]
    /\ faults = [kind \in FaultKinds |-> 0]

-----------------------------------------------------------------------------
(* Opening a session.                                                      *)

(* Setup, connect or reading the host name fails.                          *)
ConnectFails ==
    /\ at = "connecting" /\ Spend("refused")
    /\ at' = "closing" /\ why' = "error"
    /\ UNCHANGED <<connection, health, senders, shutdown, db>>

(* Connected: log_status("active"), a handler object and a list of new     *)
(* subscriptions per session.                                              *)
Connect ==
    /\ at = "connecting" /\ Written
    /\ at' = "starting"
    /\ session' = session + 1
    /\ started' = 0
    /\ link' = TRUE
    /\ failed' = {} /\ silent' = {} /\ wasStale' = {}
    /\ activeLog' = Append(activeLog, "active")
    /\ UNCHANGED <<why, silences, senders, shutdown, broken, warnings>>

ConnectUnlogged ==
    /\ at = "connecting" /\ NotWritten
    /\ at' = "closing" /\ why' = "error"
    /\ UNCHANGED <<connection, health, senders, shutdown, db>>

(* The collector's heartbeat, the agent's, then the subscriptions in turn; *)
(* the first also creates the task that sends.                             *)
AllStartedLate == started = 2 + Subscriptions
AllStarted == started' = 2 + Subscriptions

StartNext ==
    /\ at = "starting" /\ link
    /\ started' = started + 1
    /\ senders' = IF started = 0 THEN senders \cup {session} ELSE senders
    /\ at' = IF AllStarted THEN "running" ELSE "starting"
    /\ UNCHANGED <<why, session, link, health, shutdown, db, faults>>

(* The server refuses it, or the connection is gone.                       *)
StartFails ==
    /\ at = "starting"
    /\ IF link THEN Spend("refused") ELSE UNCHANGED faults
    /\ at' = "stopping" /\ why' = "error"
    /\ UNCHANGED <<connection, health, senders, shutdown, db>>

-----------------------------------------------------------------------------
(* monitor_subscriptions: asks each subscription in turn.  An ended one    *)
(* raises; one that has just gone silent writes a warning.                 *)
Asked == IF failed = {} THEN Subs ELSE 1 .. Min(failed) - 1
BecameStale(s) == s \in silent /\ s \notin wasStale
NeverStale(asked) == wasStale
StaleAfter(asked) == (wasStale \ asked) \cup (silent \cap asked)

Warned(asked) ==
    [s \in Subs |-> IF s \in asked /\ BecameStale(s) THEN warnings[s] + 1 ELSE warnings[s]]

EndsUnlessIgnored == FALSE
EndsSession == failed # {}

Monitor ==
    /\ at = "running"
    /\ IF \E s \in Asked : BecameStale(s) THEN Written ELSE UNCHANGED faults
    /\ warnings' = Warned(Asked)
    /\ wasStale' = StaleAfter(Asked)
    /\ IF EndsSession THEN at' = "stopping" /\ why' = "error" ELSE UNCHANGED <<at, why>>
    /\ UNCHANGED <<connection, failed, silent, silences, senders, shutdown, broken,
                   activeLog>>

(* The warning about s cannot be written: the exception ends the session,  *)
(* and the subscriptions after s are not asked.                            *)
MonitorFails(s) ==
    /\ at = "running"
    /\ s \in Asked /\ BecameStale(s)
    /\ broken => \A u \in Asked : BecameStale(u) => s <= u
    /\ NotWritten
    /\ warnings' = Warned(1 .. s - 1)
    /\ wasStale' = StaleAfter(1 .. s)
    /\ at' = "stopping" /\ why' = "error"
    /\ UNCHANGED <<connection, failed, silent, silences, senders, shutdown, broken,
                   activeLog>>

(* The heartbeat is stale and on_stale cannot write its warning: the       *)
(* exception ends the sender task, and nobody awaits it.                   *)
SenderDies(n) ==
    /\ n \in senders
    /\ NotWritten
    /\ senders' = senders \ {n}
    /\ UNCHANGED <<at, why, connection, health, shutdown, db>>

-----------------------------------------------------------------------------
(* The finally of _run_session.  Deleting a subscription may fail; neither *)
(* gather nor stop() lets that through.  A heartbeat's stop() cancels the  *)
(* sender before it deletes the subscription, which raises on a dead       *)
(* connection.                                                             *)
CancelledAfterDelete == IF link THEN senders \ {session} ELSE senders
Cancelled == senders \ {session}

StopSubscriptions ==
    /\ at = "stopping"
    /\ at' = "halting"
    /\ senders' = Cancelled
    /\ UNCHANGED <<why, connection, health, shutdown, db, faults>>

HaltHeartbeats ==
    /\ at = "halting"
    /\ at' = "flushing"
    /\ UNCHANGED <<why, connection, health, senders, shutdown, db, faults>>

FinalFlush ==
    /\ at = "flushing"
    /\ at' = "closing"
    /\ UNCHANGED <<why, connection, health, senders, shutdown, db, faults>>

(* The client disconnects and the exception arrives in main: a             *)
(* cancellation is recorded and ends the coroutine, any other error is     *)
(* recorded and slept over.                                                *)
HandledAlike == "asleep"
AfterHandling == IF why = "cancel" THEN "ended" ELSE "asleep"
StatusRowSkipped == IF why = "cancel" THEN activeLog ELSE Append(activeLog, "inactive")
StatusRow == Append(activeLog, "inactive")

Handle ==
    /\ at = "closing" /\ Written
    /\ at' = AfterHandling
    /\ why' = "none"
    /\ link' = FALSE
    /\ activeLog' = StatusRow
    /\ UNCHANGED <<session, started, health, senders, shutdown, broken, warnings>>

(* log_event or log_status fails in the handler: the exception leaves main *)
(* and run_all does not start it again.                                    *)
HandleFails ==
    /\ at = "closing" /\ NotWritten
    /\ at' = "ended"
    /\ why' = "none"
    /\ link' = FALSE
    /\ UNCHANGED <<session, started, health, senders, shutdown, db>>

Retry ==
    /\ at = "asleep"
    /\ at' = "connecting"
    /\ UNCHANGED <<why, connection, health, senders, shutdown, db, faults>>

-----------------------------------------------------------------------------
(* asyncio.run cancels the coroutine at its await.  In the handler's sleep *)
(* main ends at once, during the teardown the rest of it is skipped.       *)
Shutdown ==
    /\ ~shutdown /\ at # "ended"
    /\ shutdown' = TRUE
    /\ at' = CASE at \in {"starting", "running"} -> "stopping"
               [] at = "asleep" -> "ended"
               [] OTHER -> "closing"
    /\ why' = IF at = "asleep" THEN "none" ELSE "cancel"
    /\ UNCHANGED <<connection, health, senders, db, faults>>

(* The process is killed and started again.                                *)
Crash ==
    /\ Spend("crash")
    /\ at' = "connecting" /\ why' = "none"
    /\ started' = 0 /\ link' = FALSE
    /\ failed' = {} /\ silent' = {} /\ wasStale' = {}
    /\ senders' = {}
    /\ shutdown' = FALSE
    /\ broken' = FALSE
    /\ UNCHANGED <<session, silences, activeLog, warnings>>

-----------------------------------------------------------------------------
(* The OPC UA server and asyncua.                                          *)
Subscribed == {s \in Subs : at \in Open /\ s + 2 <= started}

LoseLink ==
    /\ link /\ at \in Open /\ Spend("link")
    /\ link' = FALSE
    /\ UNCHANGED <<at, why, session, started, health, senders, shutdown, db>>

(* asyncua tells the subscriptions of a lost connection.                   *)
Inform ==
    /\ ~link /\ ~(Subscribed \subseteq failed)
    /\ failed' = failed \cup Subscribed
    /\ UNCHANGED <<at, why, connection, silent, wasStale, silences, senders, shutdown,
                   db, faults>>

EndSubscription(s) ==
    /\ s \in Subscribed \ failed /\ Spend("ended")
    /\ failed' = failed \cup {s}
    /\ UNCHANGED <<at, why, connection, silent, wasStale, silences, senders, shutdown, db>>

FallSilent(s) ==
    /\ s \in Subscribed \ silent /\ Spend("silence")
    /\ silent' = silent \cup {s}
    /\ silences' = [silences EXCEPT ![s] = @ + 1]
    /\ UNCHANGED <<at, why, connection, failed, wasStale, senders, shutdown, db>>

Speak(s) ==
    /\ s \in Subscribed \cap silent /\ link
    /\ silent' = silent \ {s}
    /\ UNCHANGED <<at, why, connection, failed, wasStale, silences, senders, shutdown,
                   db, faults>>

BreakDatabase ==
    /\ ~broken /\ Spend("connection")
    /\ broken' = TRUE
    /\ UNCHANGED <<at, why, connection, health, senders, shutdown, activeLog, warnings>>

-----------------------------------------------------------------------------
Connecting == Connect \/ ConnectFails \/ ConnectUnlogged
Starting == StartNext \/ StartFails
Watching == Monitor \/ \E s \in Subs : MonitorFails(s)
Stopping == StopSubscriptions \/ HaltHeartbeats \/ FinalFlush
Handling == Handle \/ HandleFails
Coroutine == Connecting \/ Starting \/ Watching \/ Stopping \/ Handling \/ Retry
Environment ==
    \/ LoseLink \/ Inform \/ BreakDatabase
    \/ \E s \in Subs : EndSubscription(s) \/ FallSilent(s) \/ Speak(s)

Next ==
    \/ Coroutine
    \/ \E n \in senders : SenderDies(n)
    \/ Environment
    \/ Shutdown \/ Crash

Spec == Init /\ [][Next]_vars

(* The event loop resumes the coroutine, its sleeps and its requests end,  *)
(* and asyncua reports a connection that is lost.                          *)
FairSpec == Spec /\ WF_vars(Coroutine) /\ WF_vars(Inform)
-----------------------------------------------------------------------------
(* Every variable keeps to its set.                                        *)
TypeOK ==
    /\ at \in Setup \cup {"running"} \cup Teardown \cup {"closing", "asleep", "ended"}
    /\ why \in {"none", "error", "cancel"}
    /\ session \in Nat
    /\ started \in 0 .. Subscriptions + 2
    /\ link \in BOOLEAN
    /\ failed \subseteq Subs /\ silent \subseteq Subs /\ wasStale \subseteq Subs
    /\ senders \subseteq 1 .. session
    /\ shutdown \in BOOLEAN
    /\ broken \in BOOLEAN
    /\ activeLog \in Seq({"active", "inactive"})
    /\ warnings \in [Subs -> Nat] /\ silences \in [Subs -> Nat]
    /\ faults \in [FaultKinds -> Nat]

LastRow(event) == activeLog # <<>> /\ activeLog[Len(activeLog)] = event

(* The last row of active_log tells whether there is a session (db.py      *)
(* 187-189), although the row is written at one end of a session and the   *)
(* exceptions that end it come from anywhere: "active" while one is open,  *)
(* "inactive" while main sleeps and after a shutdown, if the row could be  *)
(* written.                                                                *)
LogTellsState ==
    /\ at \in Open => LastRow("active")
    /\ at = "asleep" => LastRow("inactive")
    /\ at = "ended" /\ faults["db"] = 0 /\ faults["connection"] = 0
         => LastRow("inactive")

(* No heartbeat task is left running into the next session (heartbeat.py   *)
(* 72-73), whatever interrupts the start or the teardown.                  *)
OneSender ==
    /\ senders \subseteq {session}
    /\ at \in {"connecting", "asleep"} => senders = {}

(* A subscription that goes silent is reported once each time (subscription*)
(* .py 128-147), though the monitor asks every few seconds, other          *)
(* subscriptions fail and sessions change.                                 *)
WarnedOncePerSilence ==
    \A s \in Subs : warnings[s] <= silences[s]

(* "Records when the ingestor's OPC UA session became active or went       *)
(* inactive" (README.md 262): the rows of active_log pair up, whatever     *)
(* ends a session or interrupts what ends it.  Between two "active" rows   *)
(* the end of the first was recorded, unless the process was killed; and   *)
(* after a shutdown nothing begins.                                        *)
Phase ==
    CASE at \in Open -> "open"
      [] at = "closing" -> "untold"
      [] at = "ended" -> "over"
      [] OTHER -> "away"
History == INSTANCE ConnectionHistory WITH
    phase <- Phase, ordered <- shutdown, rows <- activeLog
HistorySpec == History!Spec

(* Once nothing goes wrong any more the server is watched again, on a      *)
(* working connection and by subscriptions the server has not ended,       *)
(* unless the coroutine is over (main.py 52-68, jobs.py 25-28).            *)
Recovers ==
    <>[](at = "ended" \/ (at = "running" /\ link /\ failed = {}))

(* No handler swallows a shutdown (main.py 55-58).                         *)
ShutdownEnds == shutdown ~> (at = "ended" \/ ~shutdown)

(* "If a connection drops, the ingestor logs an `inactive` event, waits    *)
(* and retries" (README.md 125): only a shutdown ends the coroutine.       *)
RetriesUntilShutdown == at = "ended" => shutdown
=============================================================================
