------------------------- MODULE IngestorSessionProofs -------------------------
(***************************************************************************)
(* For any number of subscriptions and any faults: active_log tells        *)
(* whether there is a session, no sender task outlives its session, a      *)
(* silence is reported once, and sessions are recorded as                  *)
(* ConnectionHistory has them.                                             *)
(***************************************************************************)
EXTENDS IngestorSession, TLAPS

USE SessionAssumption

(* An exception is on its way from the moment the session ends until main  *)
(* handles it.                                                             *)
Raised == why # "none" <=> at \in Teardown \cup {"closing"}

(* The sender is gone once the heartbeats are being stopped; only a        *)
(* cancelled teardown leaves it behind, and then main ends.                *)
Halted ==
    /\ senders \subseteq {session}
    /\ at \in {"connecting", "halting", "flushing", "asleep"} => senders = {}
    /\ at = "closing" /\ why = "error" => senders = {}

(* A session is numbered, and starting while a part has not been started.  *)
Opened == at = "starting" => session > 0 /\ started < Subscriptions + 2

(* Whatever failed in the database is counted.                             *)
Counted == broken => faults["connection"] > 0

IInv == TypeOK /\ Raised /\ Opened /\ Halted /\ Counted /\ LogTellsState

LEMMA SpendCounts ==
    ASSUME TypeOK, NEW kind \in FaultKinds, Spend(kind)
    PROVE  /\ faults' \in [FaultKinds -> Nat]
           /\ faults'[kind] > 0
           /\ \A k \in FaultKinds : faults'[k] >= faults[k]
BY DEF TypeOK, Spend

(* A row appended is the last one.                                         *)
LEMMA LastAppended ==
    ASSUME activeLog \in Seq({"active", "inactive"}), NEW event \in {"active", "inactive"},
           activeLog' = Append(activeLog, event)
    PROVE  activeLog' \in Seq({"active", "inactive"}) /\ LastRow(event)'
BY DEF LastRow

LEMMA LastKept ==
    ASSUME UNCHANGED activeLog
    PROVE  \A event : LastRow(event)' <=> LastRow(event)
BY DEF LastRow

LEMMA InitIInv == Init => IInv
<1>. SUFFICES ASSUME Init PROVE IInv
  OBVIOUS
<1>1. TypeOK
  <2>1. warnings \in [Subs -> Nat] /\ silences \in [Subs -> Nat] /\ faults \in [FaultKinds -> Nat]
    BY DEF Init
  <2>2. activeLog \in Seq({"active", "inactive"})
    BY DEF Init
  <2>3. started \in 0 .. Subscriptions + 2
    BY DEF Init
  <2>. QED
    BY <2>1, <2>2, <2>3 DEF Init, TypeOK, Setup
<1>2. Raised /\ Opened /\ Halted /\ Counted
  BY DEF Init, Raised, Opened, Halted, Counted, Teardown
<1>3. LogTellsState
  BY DEF Init, LogTellsState, Open, Teardown
<1>. QED
  BY <1>1, <1>2, <1>3 DEF IInv

-----------------------------------------------------------------------------
(* Faults are counted, and a database that fails is a fault.               *)

LEMMA NextFaults ==
    ASSUME IInv, [Next]_vars
    PROVE  /\ faults' \in [FaultKinds -> Nat]
           /\ \A k \in FaultKinds : faults'[k] >= faults[k]
           /\ Counted'
<1>. USE DEF FaultKinds, connection, health, db
<1>0. faults \in [FaultKinds -> Nat] /\ broken \in BOOLEAN
  BY DEF IInv, TypeOK
<1>. DEFINE Goal == /\ faults' \in [FaultKinds -> Nat]
                    /\ \A k \in FaultKinds : faults'[k] >= faults[k]
                    /\ Counted'
<1>1. ASSUME UNCHANGED <<faults, broken>> PROVE Goal
  BY <1>0, <1>1 DEF IInv, Counted
<1>2. ASSUME NEW kind \in FaultKinds, Spend(kind), UNCHANGED broken PROVE Goal
  BY <1>0, <1>2, SpendCounts DEF IInv, Counted
<1>3. ASSUME Written \/ NotWritten, UNCHANGED broken PROVE Goal
  BY <1>1, <1>2, <1>3 DEF Written, NotWritten
<1>4. CASE BreakDatabase \/ Crash
  BY <1>0, <1>4, SpendCounts DEF IInv, BreakDatabase, Crash, Counted
<1>5. CASE Connecting \/ Starting
  BY <1>1, <1>2, <1>3, <1>5 DEF Connecting, Connect, ConnectFails, ConnectUnlogged,
                                Starting, StartNext, StartFails
<1>6. CASE Watching
  BY <1>1, <1>3, <1>6 DEF Watching, Monitor, MonitorFails
<1>7. CASE Stopping \/ Handling \/ Retry \/ Shutdown
  BY <1>1, <1>3, <1>7 DEF Stopping, StopSubscriptions, HaltHeartbeats, FinalFlush,
                          Handling, Handle, HandleFails, Retry, Shutdown
<1>8. CASE \E n \in senders : SenderDies(n)
  BY <1>3, <1>8 DEF SenderDies
<1>9. CASE \/ LoseLink \/ Inform
           \/ \E s \in Subs : EndSubscription(s) \/ FallSilent(s) \/ Speak(s)
  BY <1>1, <1>2, <1>9 DEF LoseLink, Inform, EndSubscription, FallSilent, Speak
<1>10. CASE UNCHANGED vars
  BY <1>1, <1>10 DEF vars
<1>. QED
  BY <1>4, <1>5, <1>6, <1>7, <1>8, <1>9, <1>10 DEF Next, Coroutine, Environment

-----------------------------------------------------------------------------
(* Types.                                                                  *)

LEMMA WarnedType ==
    ASSUME warnings \in [Subs -> Nat], NEW asked
    PROVE  Warned(asked) \in [Subs -> Nat]
BY DEF Warned

LEMMA StaleType ==
    ASSUME wasStale \subseteq Subs, silent \subseteq Subs, NEW asked
    PROVE  StaleAfter(asked) \subseteq Subs
BY DEF StaleAfter

LEMMA NextType == IInv /\ [Next]_vars => TypeOK'
<1>. SUFFICES ASSUME IInv, [Next]_vars PROVE TypeOK'
  OBVIOUS
<1>. USE DEF connection, health, db, Setup, Teardown, TypeOK
<1>0. TypeOK /\ Opened /\ faults' \in [FaultKinds -> Nat]
  BY NextFaults DEF IInv
<1>1. CASE Connect
  BY <1>0, <1>1, LastAppended DEF Connect
<1>2. CASE ConnectFails \/ ConnectUnlogged
  BY <1>0, <1>2 DEF ConnectFails, ConnectUnlogged
<1>3. CASE StartNext
  BY <1>0, <1>3 DEF StartNext, AllStarted, Opened
<1>4. CASE StartFails
  BY <1>0, <1>4 DEF StartFails
<1>5. CASE Watching
  BY <1>0, <1>5, WarnedType, StaleType DEF Watching, Monitor, MonitorFails
<1>6. CASE Stopping \/ Retry
  BY <1>0, <1>6 DEF Stopping, StopSubscriptions, HaltHeartbeats, FinalFlush, Retry,
                    Cancelled
<1>7. CASE Handling
  BY <1>0, <1>7, LastAppended DEF Handling, Handle, HandleFails, AfterHandling, StatusRow
<1>8. CASE Shutdown
  BY <1>0, <1>8 DEF Shutdown
<1>9. CASE Crash
  <2>1. started' \in 0 .. Subscriptions + 2 /\ senders' \subseteq 1 .. session'
    BY <1>9 DEF Crash
  <2>. QED
    BY <1>0, <1>9, <2>1 DEF Crash
<1>10. CASE \E n \in senders : SenderDies(n)
  BY <1>0, <1>10 DEF SenderDies
<1>11. CASE Environment
  <2>1. Subscribed \subseteq Subs
    BY DEF Subscribed
  <2>2. CASE LoseLink \/ Inform \/ BreakDatabase
    BY <1>0, <2>1, <2>2 DEF LoseLink, Inform, BreakDatabase
  <2>3. CASE \E s \in Subs : EndSubscription(s) \/ FallSilent(s) \/ Speak(s)
    <3>1. silences' \in [Subs -> Nat]
      <4>1. \/ UNCHANGED silences
            \/ \E s \in Subs : silences' = [silences EXCEPT ![s] = silences[s] + 1]
        BY <2>3 DEF EndSubscription, FallSilent, Speak
      <4>2. silences \in [Subs -> Nat] /\ \A s \in Subs : silences[s] + 1 \in Nat
        BY <1>0
      <4>. HIDE DEF TypeOK
      <4>. QED
        BY <4>1, <4>2
    <3>. QED
      BY <1>0, <2>3, <3>1 DEF EndSubscription, FallSilent, Speak
  <2>. QED
    BY <1>11, <2>2, <2>3 DEF Environment
<1>12. CASE UNCHANGED vars
  BY <1>0, <1>12 DEF vars
<1>. QED
  BY <1>1, <1>2, <1>3, <1>4, <1>5, <1>6, <1>7, <1>8, <1>9, <1>10, <1>11, <1>12
     DEF Next, Coroutine, Connecting, Starting

-----------------------------------------------------------------------------
(* Control: exceptions, senders and rows move together.                    *)

LEMMA NextControl ==
    IInv /\ [Next]_vars => Raised' /\ Opened' /\ Halted' /\ LogTellsState'
<1>. DEFINE Goal == Raised' /\ Opened' /\ Halted' /\ LogTellsState'
<1>. SUFFICES ASSUME IInv, [Next]_vars PROVE Goal
  OBVIOUS
<1>. USE DEF connection, health, db, Setup, Teardown, Open
<1>0. /\ TypeOK /\ Raised /\ Opened /\ Halted /\ Counted /\ LogTellsState
      /\ faults' \in [FaultKinds -> Nat]
      /\ \A k \in FaultKinds : faults'[k] >= faults[k]
  BY NextFaults DEF IInv
(* With the log as it is, the coroutine stays, goes on to close or to stop. *)
<1>1. ASSUME UNCHANGED activeLog,
             at' = "ended" => at \in {"ended", "asleep"} \/ faults'["db"] > 0
                                                       \/ faults'["connection"] > 0,
             at' \in Open => at \in Open,
             at' = "asleep" => at = "asleep"
      PROVE  LogTellsState'
  <2>1. \A k \in {"db", "connection"} : faults'[k] = 0 => faults[k] = 0
    <3>1. \A k \in FaultKinds : faults[k] \in Nat /\ faults'[k] \in Nat
      BY <1>0 DEF TypeOK
    <3>2. "db" \in FaultKinds /\ "connection" \in FaultKinds
      BY DEF FaultKinds
    <3>. QED
      BY <1>0, <3>1, <3>2
  <2>. QED
    BY <1>0, <1>1, <2>1, LastKept DEF LogTellsState, TypeOK
<1>2. CASE Connect
  <2>1. LastRow("active")'
    BY <1>0, <1>2, LastAppended DEF TypeOK, Connect
  <2>2. LogTellsState'
    BY <1>2, <2>1 DEF LogTellsState, Connect
  <2>. QED
    BY <1>0, <1>2, <2>2 DEF Connect, TypeOK, Raised, Opened, Halted
<1>3. CASE ConnectFails \/ ConnectUnlogged \/ StartNext \/ StartFails
  <2>1. LogTellsState'
    BY <1>1, <1>3 DEF ConnectFails, ConnectUnlogged, StartNext, StartFails
  <2>2. Raised' /\ Halted'
    BY <1>0, <1>3 DEF ConnectFails, ConnectUnlogged, StartNext, StartFails, Raised, Halted
  <2>3. Opened'
    BY <1>0, <1>3 DEF ConnectFails, ConnectUnlogged, StartNext, StartFails, Opened,
                      AllStarted, TypeOK
  <2>. QED
    BY <2>1, <2>2, <2>3
<1>4. CASE Watching
  <2>1. LogTellsState'
    BY <1>1, <1>4 DEF Watching, Monitor, MonitorFails
  <2>. QED
    BY <1>0, <1>4, <2>1 DEF Watching, Monitor, MonitorFails, Raised, Opened, Halted
<1>5. CASE Stopping \/ Retry
  <2>1. LogTellsState'
    BY <1>1, <1>5 DEF Stopping, StopSubscriptions, HaltHeartbeats, FinalFlush, Retry
  <2>. QED
    BY <1>0, <1>5, <2>1 DEF Stopping, StopSubscriptions, HaltHeartbeats, FinalFlush, Retry,
         Cancelled, Raised, Opened, Halted
<1>6. CASE Handle
  <2>1. LastRow("inactive")'
    BY <1>0, <1>6, LastAppended DEF TypeOK, Handle, StatusRow
  <2>2. at' \in {"ended", "asleep"}
    BY <1>6 DEF Handle, AfterHandling
  <2>3. LogTellsState'
    BY <2>1, <2>2 DEF LogTellsState
  <2>. QED
    BY <1>0, <1>6, <2>2, <2>3 DEF Handle, AfterHandling, TypeOK, Raised, Opened, Halted
<1>7. CASE HandleFails
  <2>1. faults'["db"] > 0 \/ faults'["connection"] > 0
    BY <1>0, <1>7, SpendCounts DEF HandleFails, NotWritten, Counted, FaultKinds
  <2>2. LogTellsState'
    BY <1>1, <1>7, <2>1 DEF HandleFails
  <2>. QED
    BY <1>0, <1>7, <2>2 DEF HandleFails, Raised, Opened, Halted
<1>8. CASE Shutdown
  <2>1. LogTellsState'
    BY <1>1, <1>8 DEF Shutdown
  <2>. QED
    BY <1>0, <1>8, <2>1 DEF Shutdown, TypeOK, Raised, Opened, Halted
<1>9. CASE Crash
  <2>1. LogTellsState'
    BY <1>1, <1>9 DEF Crash
  <2>. QED
    BY <1>0, <1>9, <2>1 DEF Crash, Raised, Opened, Halted
<1>10. CASE \E n \in senders : SenderDies(n)
  <2>1. LogTellsState'
    BY <1>0, <1>1, <1>10 DEF SenderDies
  <2>. QED
    BY <1>0, <1>10, <2>1 DEF SenderDies, Raised, Opened, Halted
<1>11. CASE Environment \/ UNCHANGED vars
  <2>1. UNCHANGED <<at, why, session, started, senders, activeLog>>
    BY <1>11 DEF Environment, LoseLink, Inform, BreakDatabase, EndSubscription,
                 FallSilent, Speak, vars
  <2>2. LogTellsState'
    BY <1>1, <2>1
  <2>. QED
    BY <1>0, <2>1, <2>2 DEF Raised, Opened, Halted
<1>. QED
  BY <1>2, <1>3, <1>4, <1>5, <1>6, <1>7, <1>8, <1>9, <1>10, <1>11
     DEF Next, Coroutine, Connecting, Starting, Handling

LEMMA Invariant == Spec => []IInv
<1>1. IInv /\ [Next]_vars => IInv'
  BY NextType, NextControl, NextFaults DEF IInv
<1>. QED
  BY <1>1, InitIInv, PTL DEF Spec

-----------------------------------------------------------------------------
(* Every variable keeps to its set: in particular no sender belongs to a   *)
(* session that was not opened.                                            *)
THEOREM TypeCorrect == Spec => []TypeOK
<1>1. IInv => TypeOK
  BY DEF IInv
<1>. QED
  BY <1>1, Invariant, PTL

(* The last row of active_log tells whether there is a session, at every   *)
(* await of main and _run_session and whatever ends the session.           *)
THEOREM StatusTold == Spec => []LogTellsState
<1>1. IInv => LogTellsState
  BY DEF IInv
<1>. QED
  BY <1>1, Invariant, PTL

(* The sender task of a session is gone before the next session starts     *)
(* (SystemHeartbeatHandler.stop cancels it first).                         *)
THEOREM SenderStopped == Spec => []OneSender
<1>1. IInv => OneSender
  BY DEF IInv, Halted, OneSender
<1>. QED
  BY <1>1, Invariant, PTL

-----------------------------------------------------------------------------
(* Silences: one that is still to be reported counts as a warning.         *)
Unreported(s) == IF s \in silent \ wasStale THEN 1 ELSE 0
ReportedOnce == \A s \in Subs : warnings[s] + Unreported(s) <= silences[s]

(* The monitor asks s: whatever was unreported becomes the warning.        *)
LEMMA AskedReported ==
    ASSUME TypeOK, ReportedOnce, NEW asked, NEW s \in Subs, s \in asked,
           warnings'[s] = Warned(asked)[s] \/ warnings'[s] = warnings[s],
           s \in wasStale' <=> s \in StaleAfter(asked),
           UNCHANGED <<silent, silences>>
    PROVE  warnings'[s] + Unreported(s)' <= silences'[s]
<1>1. s \in wasStale' <=> s \in silent
  BY DEF StaleAfter
<1>2. Unreported(s)' = 0
  BY <1>1 DEF Unreported
<1>3. warnings'[s] = warnings[s] \/ (warnings'[s] = warnings[s] + 1 /\ Unreported(s) = 1)
  BY DEF Warned, BecameStale, Unreported
<1>4. /\ warnings[s] \in Nat /\ silences[s] \in Nat
      /\ warnings[s] + Unreported(s) <= silences[s] /\ Unreported(s) \in {0, 1}
  BY DEF TypeOK, ReportedOnce, Unreported
<1>. QED
  BY <1>2, <1>3, <1>4

(* A step that does not ask s.                                             *)
LEMMA StillReported ==
    ASSUME TypeOK, ReportedOnce, NEW s \in Subs,
           warnings'[s] = warnings[s], silences'[s] = silences[s],
           s \in silent' \ wasStale' => s \in silent \ wasStale
    PROVE  warnings'[s] + Unreported(s)' <= silences'[s]
<1>1. /\ warnings[s] \in Nat /\ silences[s] \in Nat
      /\ warnings[s] + Unreported(s) <= silences[s] /\ Unreported(s) \in {0, 1}
  BY DEF TypeOK, ReportedOnce, Unreported
<1>2. Unreported(s)' = 0 \/ Unreported(s)' = Unreported(s)
  BY DEF Unreported
<1>. QED
  BY <1>1, <1>2

LEMMA NextReported == TypeOK /\ ReportedOnce /\ [Next]_vars => ReportedOnce'
<1>. SUFFICES ASSUME TypeOK, ReportedOnce, [Next]_vars, NEW s \in Subs
              PROVE  warnings'[s] + Unreported(s)' <= silences'[s]
  BY DEF ReportedOnce
<1>. USE DEF connection, health, db
<1>1. CASE Monitor
  <2>1. /\ warnings' = Warned(Asked) /\ wasStale' = StaleAfter(Asked)
        /\ UNCHANGED <<silent, silences>>
    BY <1>1 DEF Monitor
  <2>2. CASE s \in Asked
    BY <2>1, <2>2, AskedReported
  <2>3. CASE s \notin Asked
    <3>1. warnings'[s] = warnings[s] /\ (s \in wasStale' <=> s \in wasStale)
      BY <2>1, <2>3 DEF Warned, StaleAfter
    <3>. QED
      BY <2>1, <3>1, StillReported
  <2>. QED
    BY <2>2, <2>3
<1>2. ASSUME NEW u \in Subs, MonitorFails(u)
      PROVE  warnings'[s] + Unreported(s)' <= silences'[s]
  <2>1. /\ warnings' = Warned(1 .. u - 1) /\ wasStale' = StaleAfter(1 .. u)
        /\ UNCHANGED <<silent, silences>>
    BY <1>2 DEF MonitorFails
  <2>2. CASE s \in 1 .. u
    <3>1. warnings'[s] = Warned(1 .. u)[s] \/ warnings'[s] = warnings[s]
      BY <2>1, <2>2 DEF Warned
    <3>. QED
      BY <2>1, <2>2, <3>1, AskedReported
  <2>3. CASE s \notin 1 .. u
    <3>1. s \notin 1 .. u - 1
      BY <2>3 DEF Subs
    <3>2. warnings'[s] = warnings[s] /\ (s \in wasStale' <=> s \in wasStale)
      BY <2>1, <2>3, <3>1 DEF Warned, StaleAfter
    <3>. QED
      BY <2>1, <3>2, StillReported
  <2>. QED
    BY <2>2, <2>3
<1>3. ASSUME NEW u \in Subs, FallSilent(u)
      PROVE  warnings'[s] + Unreported(s)' <= silences'[s]
  <2>1. /\ silences' = [silences EXCEPT ![u] = silences[u] + 1]
        /\ silent' = silent \cup {u} /\ u \notin silent
        /\ UNCHANGED <<wasStale, warnings>>
    BY <1>3 DEF FallSilent
  <2>2. CASE s = u
    <3>1. silences'[s] = silences[s] + 1 /\ Unreported(s) = 0
      BY <2>1, <2>2 DEF TypeOK, Unreported
    <3>2. Unreported(s)' \in {0, 1}
      BY DEF Unreported
    <3>3. /\ warnings[s] \in Nat /\ silences[s] \in Nat /\ warnings'[s] = warnings[s]
          /\ warnings[s] + Unreported(s) <= silences[s]
      BY <2>1 DEF TypeOK, ReportedOnce
    <3>. QED
      BY <3>1, <3>2, <3>3
  <2>3. CASE s # u
    <3>1. silences'[s] = silences[s]
      BY <2>1, <2>3 DEF TypeOK
    <3>. QED
      BY <2>1, <2>3, <3>1, StillReported
  <2>. QED
    BY <2>2, <2>3
<1>4. ASSUME UNCHANGED <<warnings, silences>>,
             silent' = {} \/ (silent' \subseteq silent /\ UNCHANGED wasStale)
      PROVE  warnings'[s] + Unreported(s)' <= silences'[s]
  BY <1>4, StillReported
<1>5. CASE \/ Connecting \/ Starting \/ Stopping \/ Handling \/ Retry
  BY <1>4, <1>5 DEF Connecting, Connect, ConnectFails, ConnectUnlogged, Starting,
       StartNext, StartFails, Stopping, StopSubscriptions, HaltHeartbeats, FinalFlush,
       Handling, Handle, HandleFails, Retry
<1>6. CASE \/ Shutdown \/ Crash \/ \E n \in senders : SenderDies(n)
  BY <1>4, <1>6 DEF Shutdown, Crash, SenderDies
<1>7. CASE \/ LoseLink \/ Inform \/ BreakDatabase \/ UNCHANGED vars
           \/ \E u \in Subs : EndSubscription(u) \/ Speak(u)
  BY <1>4, <1>7 DEF LoseLink, Inform, BreakDatabase, EndSubscription, Speak, vars
<1>. QED
  BY <1>1, <1>2, <1>3, <1>5, <1>6, <1>7 DEF Next, Coroutine, Watching, Environment

(* A silence of a subscription is reported at most once (check_health      *)
(* remembers it in _was_stale), whatever fails in between: the warning     *)
(* itself, another subscription, the session or the process.               *)
THEOREM SilenceReportedOnce == Spec => []WarnedOncePerSilence
<1>1. Init => ReportedOnce
  BY DEF Init, ReportedOnce, Unreported
<1>2. TypeOK /\ ReportedOnce => WarnedOncePerSilence
  <2>. SUFFICES ASSUME TypeOK, ReportedOnce, NEW s \in Subs
                PROVE  warnings[s] <= silences[s]
    BY DEF WarnedOncePerSilence
  <2>1. /\ warnings[s] \in Nat /\ silences[s] \in Nat
        /\ warnings[s] + Unreported(s) <= silences[s] /\ Unreported(s) \in {0, 1}
    BY DEF TypeOK, ReportedOnce, Unreported
  <2>. QED
    BY <2>1
<1>. QED
  BY <1>1, <1>2, NextReported, TypeCorrect, PTL DEF Spec

-----------------------------------------------------------------------------
(* The history.  A cancellation is on its way from the shutdown until main *)
(* ends, and nothing else overtakes it.                                    *)
Cancelling == why = "cancel" <=> shutdown /\ at # "ended"

HistoryStep == [History!Next]_(History!historyVars)

LEMMA HistoryDefs ==
    /\ History!historyVars = <<Phase, shutdown, activeLog>>
    /\ History!historyVars' = <<Phase', shutdown', activeLog'>>
BY DEF History!historyVars

(* Where the coroutine stands, as the history sees it.                     *)
LEMMA PhaseOf ==
    /\ at \in {"starting", "running", "stopping", "halting", "flushing"} => Phase = "open"
    /\ at = "closing" => Phase = "untold"
    /\ at = "ended" => Phase = "over"
    /\ at \in {"connecting", "asleep"} => Phase = "away"
BY DEF Phase, Open, Teardown

LEMMA PhaseNext ==
    /\ at' \in {"starting", "running", "stopping", "halting", "flushing"} => Phase' = "open"
    /\ at' = "closing" => Phase' = "untold"
    /\ at' = "ended" => Phase' = "over"
    /\ at' \in {"connecting", "asleep"} => Phase' = "away"
BY DEF Phase, Open, Teardown

(* Within a session, and between two of them, the history stands still.    *)
LEMMA HistoryStands ==
    ASSUME Phase' = Phase, UNCHANGED <<shutdown, activeLog>>
    PROVE  HistoryStep
BY HistoryDefs DEF HistoryStep

LEMMA HistoryMoves ==
    ASSUME TypeOK, Raised, Cancelling, [Next]_vars
    PROVE  HistoryStep /\ Cancelling'
<1> USE DEF Cancelling
<1>1. at # "ended" /\ at \notin Teardown \cup {"closing"} => ~shutdown
  BY DEF Raised
<1>2. CASE Connect
  <2>1. Phase = "away" /\ Phase' = "open" /\ ~shutdown
    BY <1>1, <1>2, PhaseOf, PhaseNext DEF Connect, Teardown
  <2>2. History!Begin
    BY <1>2, <2>1 DEF Connect, History!Begin
  <2>. QED
    BY <1>2, <2>2 DEF Connect, HistoryStep, History!Next
<1>3. CASE ConnectFails \/ ConnectUnlogged
  <2>1. Phase = "away" /\ Phase' = "untold" /\ ~shutdown
    BY <1>1, <1>3, PhaseOf, PhaseNext DEF ConnectFails, ConnectUnlogged, Teardown
  <2>2. History!End
    BY <1>3, <2>1 DEF ConnectFails, ConnectUnlogged, db, History!End
  <2>. QED
    BY <1>1, <1>3, <2>2 DEF ConnectFails, ConnectUnlogged, Teardown, HistoryStep, History!Next
<1>4. CASE Starting \/ Watching \/ StopSubscriptions \/ HaltHeartbeats
  <2>1. Phase = "open" /\ Phase' = "open"
    BY <1>4, PhaseOf, PhaseNext
       DEF Starting, StartNext, StartFails, Watching, Monitor, MonitorFails,
           StopSubscriptions, HaltHeartbeats
  <2>2. UNCHANGED <<shutdown, activeLog>>
    BY <1>4 DEF Starting, StartNext, StartFails, Watching, Monitor, MonitorFails,
                StopSubscriptions, HaltHeartbeats, db
  <2>3. Cancelling'
    BY <1>1, <1>4 DEF Starting, StartNext, StartFails, Watching, Monitor, MonitorFails,
                      StopSubscriptions, HaltHeartbeats, Teardown
  <2>. QED
    BY <2>1, <2>2, <2>3, HistoryStands
<1>5. CASE FinalFlush
  <2>1. Phase = "open" /\ Phase' = "untold"
    BY <1>5, PhaseOf, PhaseNext DEF FinalFlush
  <2>2. History!End
    BY <1>5, <2>1 DEF FinalFlush, db, History!End
  <2>. QED
    BY <1>5, <2>2 DEF FinalFlush, HistoryStep, History!Next
<1>6. CASE Handle
  <2>1. Phase = "untold" /\ Phase' = IF shutdown THEN "over" ELSE "away"
    BY <1>6, PhaseOf, PhaseNext DEF Handle, AfterHandling
  <2>2. History!Tell
    BY <1>6, <2>1 DEF Handle, StatusRow, History!Tell
  <2>. QED
    BY <1>6, <2>2 DEF Handle, AfterHandling, HistoryStep, History!Next
<1>7. CASE HandleFails
  <2>1. Phase = "untold" /\ Phase' = "over"
    BY <1>7, PhaseOf, PhaseNext DEF HandleFails
  <2>2. History!GiveUp
    BY <1>7, <2>1 DEF HandleFails, db, History!GiveUp
  <2>. QED
    BY <1>7, <2>2 DEF HandleFails, HistoryStep, History!Next
<1>8. CASE Shutdown
  <2>1. /\ Phase # "over"
        /\ Phase' \in IF Phase = "away" THEN {"untold", "over"} ELSE {Phase, "untold"}
    BY <1>8, PhaseOf, PhaseNext DEF Shutdown, TypeOK, Setup, Teardown
  <2>2. History!Stop
    BY <1>8, <2>1 DEF Shutdown, db, History!Stop
  <2>3. Cancelling'
    BY <1>8 DEF Shutdown
  <2>. QED
    BY <2>2, <2>3 DEF HistoryStep, History!Next
<1>9. CASE Crash
  <2>1. Phase' = "away"
    BY <1>9, PhaseNext DEF Crash
  <2>2. History!Kill
    BY <1>9, <2>1 DEF Crash, History!Kill
  <2>. QED
    BY <1>9, <2>2 DEF Crash, HistoryStep, History!Next
<1>10. CASE \/ Retry \/ Environment \/ UNCHANGED vars
            \/ \E n \in senders : SenderDies(n)
  <2>1. /\ UNCHANGED <<why, shutdown, activeLog>>
        /\ at' = at \/ (at = "asleep" /\ at' = "connecting")
    <3>1. CASE Retry \/ UNCHANGED vars \/ \E n \in senders : SenderDies(n)
      BY <3>1 DEF Retry, SenderDies, vars, db
    <3>2. CASE Environment
      BY <3>2 DEF Environment, LoseLink, Inform, BreakDatabase, EndSubscription, FallSilent,
                  Speak, db
    <3>. QED
      BY <1>10, <3>1, <3>2
  <2>2. Phase' = Phase
    BY <2>1, PhaseOf, PhaseNext DEF Phase
  <2>. QED
    BY <2>1, <2>2, HistoryStands
<1>. QED
  BY <1>2, <1>3, <1>4, <1>5, <1>6, <1>7, <1>8, <1>9, <1>10
     DEF Next, Coroutine, Connecting, Stopping, Handling

(* The rows of active_log pair up for any number of subscriptions, and     *)
(* whatever fails, is cancelled or is killed at whichever await: a session *)
(* that follows another begins after the end of that one was recorded,     *)
(* unless the process was killed, and none begins after a shutdown.        *)
THEOREM HistoryIsKept == Spec => HistorySpec
<1>1. Init => History!Init /\ Cancelling
  BY PhaseOf DEF Init, History!Init, Cancelling
<1>2. IInv /\ Cancelling /\ [Next]_vars => HistoryStep /\ Cancelling'
  BY HistoryMoves DEF IInv
<1>. QED
  BY <1>1, <1>2, Invariant, PTL DEF Spec, HistorySpec, History!Spec, HistoryStep
=============================================================================
