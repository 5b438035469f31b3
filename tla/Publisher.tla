------------------------------ MODULE Publisher ------------------------------
(***************************************************************************)
(* The extractor of one host: the session loop (extractor/src/main.py),    *)
(* the publish cycle (publish.py) with the failures its monitor counts     *)
(* (lib/monitor.py), and the buffer of log records (lib/logging.py) that   *)
(* one unit of the cycle drains and every failure fills.                   *)
(*                                                                         *)
(* A record is the number of its emission; records after MaxRecords are    *)
(* not traced.                                                             *)
(***************************************************************************)
EXTENDS Integers, Sequences, FiniteSets

CONSTANTS
    Plain,        \* the host name and the enabled metrics that drain nothing
    Faulty,       \* those of them that may fail again and again
    Errors,       \* the "errors" metric
    Limit,        \* MAX_CONSECUTIVE_METRIC_FAILURES
    BufferSize,   \* MAX_BUFFERED_ERRORS
    PublishSize,  \* MAX_ERRORS_PER_PUBLISH
    MaxRecords,   \* bound: records traced
    MaxFaults     \* bound: faults of each kind

Units == Plain \cup {Errors}
FaultKinds == {"unit", "link", "refused", "warning", "crash"}

ASSUME PublisherAssumption ==
    /\ Errors \notin Plain
    /\ Faulty \subseteq Plain
    /\ Limit \in Nat \ {0}
    /\ BufferSize \in Nat \ {0}
    /\ PublishSize \in Nat \ {0}
    /\ MaxRecords \in Nat
    /\ MaxFaults \in [FaultKinds -> Nat]

VARIABLES
    main,       \* the await at which main stands
    link,       \* the OPC UA connection works
    task,       \* what each unit of the cycle's TaskGroup waits for
    failures,   \* OPCUAMonitor.consecutive_failures
    buffer,     \* ErrorBufferHandler._errors
    payload,    \* records in the hands of publish_metric
    stray,      \* a cancelled drain still runs in its thread
    published,  \* observer: records the node held, in order
    emitted,    \* observer: records logged
    offline,    \* observer: those logged without a connection
    evicted,    \* observer: records a full buffer dropped
    discarded,  \* observer: records drained and given up, or lost in a restart
    age,        \* observer: cycles of this session since each unit succeeded
    faults      \* how often each fault struck

cycle == <<task, failures, age>>
observed == <<published, emitted, offline, evicted, discarded>>
vars == <<main, link, cycle, buffer, payload, stray, observed, faults>>

Records(s) == {s[i] : i \in DOMAIN s}

Spend(kind) ==
    /\ faults[kind] < MaxFaults[kind]
    /\ faults' = [faults EXCEPT ![kind] = @ + 1]

-----------------------------------------------------------------------------
(* ErrorBufferHandler.  emit appends; a full deque drops its oldest.       *)
Full == Len(buffer) = BufferSize
Unbounded(s) == s
Bounded(s) == IF Len(s) > BufferSize THEN Tail(s) ELSE s

Emit(connected) ==
    IF emitted < MaxRecords
    THEN /\ emitted' = emitted + 1
         /\ buffer' = Bounded(Append(buffer, emitted + 1))
         /\ evicted' = IF Full THEN evicted \cup {Head(buffer)} ELSE evicted
         /\ offline' = IF connected THEN offline ELSE offline \cup {emitted + 1}
    ELSE UNCHANGED <<emitted, buffer, evicted, offline>>

Lose(records) == discarded' = discarded \cup records

(* drain takes one publish worth of records, oldest first.  Its pops are   *)
(* one step: a record logged between them comes after those counted.       *)
FullBatchOnly == IF Len(buffer) < PublishSize THEN 0 ELSE PublishSize
DrainCount == IF Len(buffer) < PublishSize THEN Len(buffer) ELSE PublishSize
NewestTaken == SubSeq(buffer, Len(buffer) - DrainCount + 1, Len(buffer))
Drained == SubSeq(buffer, 1, DrainCount)
OneTooFew == SubSeq(buffer, DrainCount + 2, Len(buffer))
Remaining == SubSeq(buffer, DrainCount + 1, Len(buffer))

-----------------------------------------------------------------------------
Init ==
    /\ main = "connecting"
    /\ link = FALSE
    /\ task = [u \in Units |-> "done"]
    /\ failures = [u \in Units |-> 0]
    /\ buffer = <<>>
    /\ payload = <<>>
    /\ stray = FALSE
    /\ published = <<>>
    /\ emitted = 0
    /\ offline = {}
    /\ evicted = {} /\ discarded = {}
    /\ age = [u \in Units |-> 0]
    /\ faults = [kind \in FaultKinds |-> 0]

(* Setup, connect or the start of a heartbeat fails; main logs it.         *)
ConnectFails ==
    /\ main = "connecting" /\ Spend("refused")
    /\ main' = "asleep"
    /\ Emit(FALSE)
    /\ UNCHANGED <<link, cycle, payload, stray, published, discarded>>

(* A new monitor and the first cycle.                                      *)
Connect ==
    /\ main = "connecting"
    /\ main' = "cycle"
    /\ link' = TRUE
    /\ task' = [u \in Units |-> "gathering"]
    /\ failures' = [u \in Units |-> 0]
    /\ age' = [u \in Units |-> 1]
    /\ UNCHANGED <<buffer, payload, stray, observed, faults>>

(* The cycle is over when all its units are; the next one follows.         *)
EndCycle ==
    /\ main = "cycle" /\ \A u \in Units : task[u] = "done"
    /\ main' = "waiting"
    /\ UNCHANGED <<link, cycle, buffer, payload, stray, observed, faults>>

NextCycle ==
    /\ main = "waiting"
    /\ main' = "cycle"
    /\ task' = [u \in Units |-> "gathering"]
    /\ age' = [u \in Units |-> age[u] + 1]
    /\ UNCHANGED <<link, failures, buffer, payload, stray, observed, faults>>

-----------------------------------------------------------------------------
(* safe_handle(publish_metric): gather in a thread, then write.            *)
CountKept(u) == failures
OnSuccess(u) == [failures EXCEPT ![u] = 0]

Succeed(u) ==
    /\ task' = [task EXCEPT ![u] = "done"]
    /\ failures' = OnSuccess(u)
    /\ age' = [age EXCEPT ![u] = 0]

Gathered(u) ==
    /\ task[u] = "gathering" /\ u \in Plain
    /\ task' = [task EXCEPT ![u] = "writing"]
    /\ UNCHANGED <<main, link, failures, age, buffer, payload, stray, observed, faults>>

(* The getter has nothing: no write, and a success.                        *)
NothingNew(u) ==
    /\ \/ task[u] = "gathering" /\ u \in Plain
       \/ task[u] = "drained" /\ payload = <<>>
    /\ Succeed(u)
    /\ UNCHANGED <<main, link, buffer, payload, stray, observed, faults>>

Drain ==
    /\ task[Errors] = "gathering"
    /\ task' = [task EXCEPT ![Errors] = "drained"]
    /\ payload' = Drained
    /\ buffer' = Remaining
    /\ UNCHANGED <<main, link, failures, age, stray, observed, faults>>

WriteErrors ==
    /\ task[Errors] = "drained" /\ payload # <<>>
    /\ task' = [task EXCEPT ![Errors] = "writing"]
    /\ UNCHANGED <<main, link, failures, age, buffer, payload, stray, observed, faults>>

(* What the errors unit carries when u ends: its payload, or nothing.      *)
CarriedBy(u) == IF u = Errors THEN payload ELSE <<>>
LeftWith(u) == IF u = Errors THEN <<>> ELSE payload

Written(u) ==
    /\ task[u] = "writing" /\ link
    /\ Succeed(u)
    /\ published' = published \o CarriedBy(u)
    /\ payload' = LeftWith(u)
    /\ UNCHANGED <<main, link, buffer, stray, emitted, offline, evicted, discarded, faults>>

(* Records given up by publish_metric.  A write that was sent may reach    *)
(* the node although nobody waits for its answer.                          *)
GiveUp(records) ==
    \E done \in IF task[Errors] = "writing" THEN {<<>>, records} ELSE {<<>>} :
        /\ published' = published \o done
        /\ Lose(Records(records) \ Records(done))

(* The TaskGroup cancels the units that are not done; a drain that runs    *)
(* already goes on.                                                        *)
Abort ==
    /\ main' = "stopping"
    /\ task' = [u \in Units |-> "done"]
    /\ payload' = <<>>
    /\ stray' \in {FALSE, task[Errors] = "gathering"}

(* The unit fails with anything but a ConnectionError, in its getter or    *)
(* because the server answers with an error or not in time: the failure is *)
(* logged and counted.                                                     *)
TooManyOffByOne(u) == failures[u] + 2 >= Limit
AnyFailure(u) == TRUE
TooMany(u) == failures[u] + 1 >= Limit

Fail(u) ==
    /\ task[u] = "writing" \/ (task[u] = "gathering" /\ u \in Plain)
    /\ IF u \in Faulty \/ ~link THEN UNCHANGED faults ELSE Spend("unit")
    /\ failures' = [failures EXCEPT ![u] = @ + 1]
    /\ Emit(TRUE)
    /\ GiveUp(IF TooMany(u) THEN payload ELSE CarriedBy(u))
    /\ IF TooMany(u)
       THEN Abort
       ELSE /\ task' = [task EXCEPT ![u] = "done"]
            /\ payload' = LeftWith(u)
            /\ UNCHANGED <<main, stray>>
    /\ UNCHANGED <<link, age>>

(* A write on a dead connection raises ConnectionError, which safe_handle  *)
(* passes on.                                                              *)
FailConnection(u) ==
    /\ task[u] = "writing" /\ ~link
    /\ GiveUp(payload)
    /\ Abort
    /\ UNCHANGED <<link, failures, age, buffer, evicted, emitted, offline, faults>>

StrayDrain ==
    /\ stray
    /\ stray' = FALSE
    /\ Lose(Records(Drained))
    /\ buffer' = Remaining
    /\ UNCHANGED <<main, link, cycle, payload, published, emitted, offline, evicted, faults>>

-----------------------------------------------------------------------------
(* The heartbeats are stopped, the client disconnects, main logs why.  A   *)
(* stray drain, a matter of microseconds, is over by then.                 *)
EndSession ==
    /\ main = "stopping" /\ ~stray
    /\ main' = "asleep"
    /\ link' = FALSE
    /\ Emit(FALSE)
    /\ UNCHANGED <<cycle, payload, stray, published, discarded, faults>>

Retry ==
    /\ main = "asleep"
    /\ main' = "connecting"
    /\ UNCHANGED <<link, cycle, buffer, payload, stray, observed, faults>>

LoseLink ==
    /\ link /\ Spend("link")
    /\ link' = FALSE
    /\ UNCHANGED <<main, cycle, buffer, payload, stray, observed>>

(* A warning of the heartbeats, of a getter or of asyncua.                 *)
Warn ==
    /\ Spend("warning")
    /\ Emit(main \notin {"connecting", "asleep"})
    /\ UNCHANGED <<main, link, cycle, payload, stray, published, discarded>>

Crash ==
    /\ Spend("crash")
    /\ main' = "connecting"
    /\ link' = FALSE
    /\ task' = [u \in Units |-> "done"]
    /\ buffer' = <<>> /\ payload' = <<>> /\ stray' = FALSE
    /\ Lose(Records(buffer) \cup Records(payload))
    /\ UNCHANGED <<failures, age, published, emitted, offline, evicted>>

-----------------------------------------------------------------------------
Session == ConnectFails \/ Connect \/ EndCycle \/ NextCycle \/ EndSession \/ Retry
Unit(u) == Gathered(u) \/ NothingNew(u) \/ Written(u) \/ Fail(u) \/ FailConnection(u)
ErrorsUnit == Drain \/ WriteErrors \/ Unit(Errors)

Next ==
    \/ Session
    \/ \E u \in Plain : Unit(u)
    \/ ErrorsUnit
    \/ StrayDrain \/ LoseLink \/ Warn \/ Crash

Spec == Init /\ [][Next]_vars

(* Threads end, requests are answered or time out, sleeps end.             *)
Fairness ==
    /\ WF_vars(Session) /\ WF_vars(ErrorsUnit) /\ WF_vars(StrayDrain)
    /\ \A u \in Plain : WF_vars(Unit(u))

FairSpec == Spec /\ Fairness
-----------------------------------------------------------------------------
(* Every variable keeps to its set and the buffer to its size.             *)
TypeOK ==
    /\ main \in {"connecting", "cycle", "waiting", "stopping", "asleep"}
    /\ link \in BOOLEAN
    /\ task \in [Units -> {"gathering", "drained", "writing", "done"}]
    /\ failures \in [Units -> 0 .. Limit]
    /\ buffer \in Seq(1 .. emitted) /\ Len(buffer) <= BufferSize
    /\ payload \in Seq(1 .. emitted)
    /\ stray \in BOOLEAN
    /\ published \in Seq(1 .. emitted)
    /\ emitted \in 0 .. MaxRecords
    /\ offline \subseteq 1 .. emitted
    /\ evicted \subseteq 1 .. emitted /\ discarded \subseteq 1 .. emitted
    /\ age \in [Units -> Nat]
    /\ faults \in [FaultKinds -> Nat]

Increasing(s) == \A i, j \in DOMAIN s : i < j => s[i] < s[j]

(* Records reach the node once and in the order they were logged, and the  *)
(* buffer drops the oldest (logging.py 42-43, 70), though failed writes,   *)
(* cancelled cycles and drains of earlier sessions interfere.              *)
OldestFirst ==
    /\ Increasing(published \o payload \o buffer)
    /\ \A e \in evicted, r \in Records(buffer) : e < r

(* Every record logged is in the buffer, about to be written, on the node  *)
(* or lost for a cause: dropped by a full buffer, by a publish that failed *)
(* or was cancelled, or by a restart.                                      *)
EveryRecordAccounted ==
    \A r \in 1 .. emitted :
        \/ r \in Records(buffer) \cup Records(payload) \cup Records(published)
        \/ r \in evicted \cup discarded

(* "The same metric failing too many cycles in a row ... ends the session" *)
(* (main.py 109-110): the session of a working connection ends only then,  *)
(* and no unit is tried after Limit failures in a row.                     *)
EndsAfterFailuresInARow ==
    [][/\ main = "cycle" /\ main' = "stopping" /\ link => \E u \in Units : age[u] = Limit
       /\ main = "cycle" => \A u \in Units : age[u] <= Limit]_vars

(* One failing metric does not stop the others (main.py 109): however      *)
(* often the faulty ones fail, the others complete a cycle again and again.*)
OthersPublished ==
    \A u \in Units \ Faulty : []<>(main = "waiting" /\ failures[u] = 0)

(* Once logged, a record does not wait for ever in the buffer.             *)
RecordsLeave == \A r \in 1 .. MaxRecords : []<>(r \notin Records(buffer))

(* "Errors logged while disconnected must survive the reconnect so they    *)
(* can be published afterwards" (publish.py 55-56).                        *)
OfflineErrorsSurvive == offline \cap discarded = {}
=============================================================================
