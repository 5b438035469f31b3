# A TLA+ model of KepServerLogger

KepServerLogger moves measurements from Windows hosts that run KEPServer into
TimescaleDB. An **extractor** on each host writes metrics into string nodes of
the local KEPServer; one central **ingestor** subscribes to those nodes and to
the plant's tags on every server, buffers what it is notified of and writes it
to one database per server. This directory holds TLA+ modules translated from
the Python source, the TLC runs that check them and proofs checked by TLAPS.
Paths below are relative to `src/`.

## Inventory

| Component | State | Operations | Talks to | What must hold |
|---|---|---|---|---|
| Ingest buffer, `ingestor/src/ingest.py` | `_queue`, `_pending`, `_last_timestamp`, `_awaiting_first` | `on_metric`, `on_tag`, `add_model`, `new_session`, `run`, `flush` | subscriptions call it; hands batches to a worker thread | no decoded row is forgotten, doubled or reordered out of the bound's reach; a resent value is not stored twice |
| Database layer, `lib/database.py`, `ingestor/src/db.py` | one connection, one `RLock` | `insert_many`, `log_status`, `log_event`, `initialize`, `close` | event loop and worker threads share it | a transaction is its caller's own and all or nothing, conflicts are skipped, what is reported written is |
| Session lifecycle, `ingestor/src/main.py`, `jobs.py` | one coroutine and one session per server, on one loop | connect, log status, start heartbeats and subscriptions, run, tear down, retry, shut down | everything above | each session's end is recorded, a failed session is followed by another, servers do not disturb each other |
| Subscriptions, `lib/subscription.py` | last receive time, failed status, stale flag | `start`, `stop`, two notification handlers, `check_health` | asyncua; the ingest buffer | an ended subscription ends the session, a silent one does not |
| Heartbeat, `lib/heartbeat.py` | counter, sent-at map, RTT deque, receive time | `start`, `stop`, `run`, notification, `echo_value`, `drain_rtts` | two tags per pair; on the collector's side the ingest buffer | an RTT belongs to the value it names; the sender survives failures |
| Extractor publisher, `extractor/src/main.py`, `publish.py`, `lib/monitor.py` | failure counters, error buffer | publish cycle, `safe_handle`, `drain`, reconnect | metric readers, metric nodes | one failing metric does not stop the others, three failures in a row reconnect |
| Metrics and models, `lib/metrics.py`, `lib/models.py` | none | `encode`, `decode` | both sides | what is encoded is decoded |
| Log buffer, `lib/logging.py` | bounded deque | `emit`, `drain` | publisher | oldest dropped first |
| OPC UA client, settings, servers, tag extraction, metric readers, certificate generator | none that later steps depend on | | | not modelled, see `PROJECT.json` |
| OPC log parser, `lib/opc_parser.py` | maps of sessions while a log is read; imported by neither program | `build_client_map`, `build_active_map`, `build_sessions`, `total_downtime_seconds` | log files of an OPC UA server | who is connected, since when, and how long it was not |

Hard behaviours: a flush that is cancelled while its worker thread runs on; an
event loop and threads that share one connection; a connection that breaks
before, during or after a commit; a close under a running thread; one server's
lock, threads and failures against another's service; sessions that come and go while the buffer
lives on; values that every new subscription repeats; restarts that forget;
bounds that evict; calls to the database from handlers of the event loop that
may fail or block. `PROJECT.json` lists them as hazards with the properties
that cover them.

## Modules

| Module | What it is |
|---|---|
| `Ingest` | the ingest buffer of one server with its transaction, its worker threads and the session that drives it |
| `RowLedger` | what the ingestor owes a decoded row: held, then written or lost; `Ingest` implements it |
| `IngestorSession` | the coroutine that serves one server: `main`, `_run_session`, health monitor, sender task, the rows it writes about itself |
| `ConnectionHistory` | what a reader of `active_log` may conclude; `IngestorSession` implements it |
| `Servers` | all servers of one ingestor: their coroutines on one event loop, their locks and connections, the pool of writer threads, the shutdown |
| `AtomicStore` | what those who write to a database may take for granted; `Servers` implements it |
| `Heartbeat` | one heartbeat pair: sender, echo, the two tags, the sessions of both programs |
| `Publisher` | the extractor: session loop, publish cycle, failure counts, buffer of log records |
| `OpcLog` | what the log parser makes of the records of a server, next to what the records mean |
| `MCIngest`, `MCIngestorSession`, `MCServers`, `MCPublisher` | small instances for TLC |
| `IngestProofs`, `IngestBounds`, `IngestRepeats` | theorems about `Ingest`: types, accounting of rows and implementation of `RowLedger`; memory and eviction; first values and repeats |
| `IngestorSessionProofs`, `ServersProofs`, `PublisherProofs`, `HeartbeatProofs`, `OpcLogProofs` | theorems about the other five |

`Ingest` sees a session as a beginning and an end, `IngestorSession` sees the
buffer as a flush that never raises, and `Servers` sees of both what takes the
loop, a lock or a thread; `Publisher`'s node is the one whose changes
`Ingest` is notified of. The interfaces are narrow enough to check each module
alone; composing them is part of the plan.

### Ingest

A row is a key (a metric, a tag, or the collector's own round trips), the number
of the publication it belongs to, which part of it it is and the number of the
arrival that brought it; its contents are left out. `node` is what the extractor last wrote, `fresh` the
metrics whose value the current subscriptions have not reported, so that a new
session repeats every current value once and a value overwritten in between is
never seen. `queue`, `pending`, `lastTimestamp`, `awaitingFirst` are the fields
of the class. `flush` is where the coroutine stands: while it decodes, the event
loop runs nothing else, so every action of the loop is guarded by `LoopFree` and
`DropItem`, `SkipResent`, `KeepRows` each take one item; `BeginWrite` swaps
`_pending` for an empty dict and awaits the thread. `writer` is that thread:
queued in the executor, running, or finished with a result the loop has not seen
yet. A session's end cancels the flush: a queued thread never runs, a running
one moves to `orphans`, the result of a finished one is discarded. `conn` is the
psycopg connection, which only a restart opens again.

The remaining variables observe: `decoded`, `lost` (by cause) and `suppressed`
appear in no guard. `faults` counts what went wrong and keeps each kind within
`MaxFaults`: a rolled back transaction, a broken connection, a restart, a
publishing clock that does not move forward (a failover to another host), a
status that turns bad and good again. A payload has `Window` rows. For a metric
whose table has no primary key they are the parts of one reading: the interfaces
of a network reading, the services of a list, one row of CPU usage. Their number
is fixed, the largest there is; a shorter list only fills the buffers less. For a
metric with a primary key they are the last publications, which each payload
repeats, as the events metric does; the records of a payload of errors are
publications of one row, of which the node is seen only with the last.

| Action | Code |
|---|---|
| `Publish` | `publish_metric`, a successful write of the node |
| `NewSession` | `new_session` and the subscriptions of `_run_session` |
| `NotifyMetric`, `NotifyBadStatus`, `NotifyTag` | `on_metric`, `on_tag` with `_put` |
| `AddModel` | `add_model` |
| `Tick`, `FinalFlush` | `run`; the `finally` of `_run_session` |
| `DropItem`, `SkipResent`, `KeepRows` | `_decode_queued`, `_add_metric`, `_add_tag` |
| `BeginWrite`, `FlushDone`, `FlushFailed` | `flush`, `_requeue` |
| `StartWrite`, `Commit`, `Rollback`, `LostAck`, `OrphanCommit`, `OrphanFail` | `insert_many` in `transaction()`, in a worker thread |
| `EndSession`, `Crash` | the end of the TaskGroup; a killed process |

Left out: a graceful shutdown that cancels the last flush itself, the size of
the executor's pool, and that `log_status` and `log_event` share the connection's
lock, which are the matter of `Servers`.

### IngestorSession

An action is what the coroutine does between two awaits; `at` says at which it
stands: `connecting` (setup, connect, reading the host name), `starting` (the
heartbeats and subscriptions one after the other, counted by `started`),
`running` (the TaskGroup), `stopping`, `halting`, `flushing` (the `finally`),
`closing` (disconnect and the way to `main`'s handlers), `asleep` (the handler's
sleep), `ended`. `why` is the exception on its way. Database calls are
synchronous, so they belong to an action and fail in it (`NotWritten`), once per
fault or for ever after the connection broke. `activeLog` and `warnings` are the
rows written; `senders` the sessions whose sender task is alive; `failed`,
`silent` and `wasStale` the state of the subscriptions, `silences` how often each
fell silent.

| Action | Code |
|---|---|
| `Connect`, `ConnectFails`, `ConnectUnlogged` | `_run_session` 109-149 |
| `StartNext`, `StartFails` | 150-158, `SystemHeartbeatHandler.start`, `NodeSubscription.start` |
| `Monitor`, `MonitorFails` | `monitor_subscriptions`, `check_health`, `log_event` |
| `SenderDies` | `run`, when `on_stale` raises |
| `StopSubscriptions`, `HaltHeartbeats`, `FinalFlush` | the `finally` of `_run_session` |
| `Handle`, `HandleFails`, `Retry` | the handlers of `main` |
| `Shutdown`, `Crash` | a cancellation at any await; a killed process |
| `EndSubscription`, `FallSilent`, `Speak`, `LoseLink`, `Inform`, `BreakDatabase` | the server, asyncua, psycopg |

`ConnectionHistory` is what the rows of `active_log` promise (`README.md:262`): one `active`
row per session, and between two of them the end of the first, unless the
process was killed; a failed attempt is recorded as an end too. After a shutdown
nothing begins.

A shutdown during the teardown skips the rest of it: the sender task then
outlives the coroutine, which `OneSender` admits because `main` ends.

### Servers

Here a database call takes time. `at` says for each server at which await, or
after which call, its `main` stands; `stage[s][o]` where the transaction of `o`
stands, `Loop` for a call of the event loop and `b` for the thread of the
server's `b`-th batch: `queued` in the executor, `waiting` for the lock, `inside`,
`aborting`, then `ok` or `failed`. Between two awaits the loop runs one coroutine
and its database calls with it, so every step of a coroutine needs `LoopFree`: no
server's call is under way. `pool` is the executor's queue, which all servers
share, `lock`, `conn` and `tx` the `RLock`, the connection and the rows of its
open transaction, `tables` what is committed (of the loop's rows the latest).
A cancelled flush leaves its thread running; `cancel` holds the servers that a
shutdown has still to reach. `struck` observes whose tag file or database has failed.

`AtomicStore` says what the callers see of this: a write that was asked for takes
effect in one step, at most once, before its answer; a refused one not afterwards
(it may have before, when the commit was not heard); one that is turned away from
not at all if it was not begun. The mapping in `Servers` makes everything from
`queued` to `aborting` one `asked`, and a write part of the store when all its rows
are committed. Writes of the loop repeat, so what an earlier one left counts no
more when the next begins.

| Action | Code |
|---|---|
| `Initialize`, `SetupFails` | `main` up to its loop: `get_channel_tags`, `initialize`, `connect` |
| `Connected`, `Refused`, `Activated` | `_run_session` up to its TaskGroup, `log_status` |
| `Tick`, `FinalFlush`, `Resume` | `run`, `flush` |
| `Warn`, `Warned`, `WarningFailed` | `monitor_subscriptions`, `log_event` |
| `SessionEnds`, `Handle`, `ErrorLogged`, `Recorded`, `Retry` | the end of a session and the handlers of `main` |
| `Ends` | the `raise` of the handler or a failure in it, `close` |
| `Shutdown`, `CancelIdle`, `CancelRunning`, `CancelElsewhere` | `asyncio.run`, `run_all`'s `gather`, a cancellation at each kind of await |
| `StartThread` | the executor |
| `Acquire`, `Execute`, `Commit`, `CommitUnheard`, `Fails`, `Rollback` | `transaction`, `execute`, `execute_many` |
| `BreakConnection` | the database |

Left out: `initialize` is one step, since it precedes every other use of the
connection (`gather` starts every `main` before one of them is resumed); warnings
spend the budget of disturbances; the heartbeats' `on_stale` is a `log_event` on the
loop like the monitor's and has no action of its own.

### Publisher

`main` is where the extractor's loop stands, `task` what each unit of a cycle
(the host name, each metric, and the errors metric `Errors`) waits for.
`Drain` is `ErrorBufferHandler.drain` in its worker thread: it takes the oldest
records out of `buffer` into `payload`. A unit that fails is logged, which fills
the buffer, and counted; `Abort` is the TaskGroup cancelling the others, whose
drain may go on as `stray`. A write that was sent may reach the node although it
is reported as failed or cancelled (`GiveUp`). `age` observes how many cycles of
this session each unit has gone without success, independently of the monitor's
counter; `published`, `offline`, `evicted`, `discarded` observe the records.

| Action | Code |
|---|---|
| `Connect`, `ConnectFails`, `EndSession`, `Retry` | `main`, `_run_session` |
| `EndCycle`, `NextCycle` | `_publish_forever` |
| `Gathered`, `NothingNew`, `Drain`, `WriteErrors`, `Written` | `publish_metric`, `as_async_getter` |
| `Fail`, `FailConnection` | `safe_handle`, `OPCUAMonitor` |
| `StrayDrain` | a thread whose awaiting task was cancelled |
| `Warn` | a warning of the heartbeats, a getter or asyncua |
| `LoseLink`, `Crash` | the server; a killed process |

Left out: the extractor's heartbeats, which are `Heartbeat`'s (their failing start is `ConnectFails`,
their warnings are `Warn`), what the metrics contain, and log records after the
first `MaxRecords`, which are neither traced nor take room in the buffer.

### Heartbeat

Each of the two pairs consists of a program that owns the heartbeat (`echo=False`)
and one that echoes it; the module models one. `link` is the session of each:
`down`, `up`, or `cut` when its connection is lost and it has not noticed. The
server keeps the last value of both tags; a subscription holds one unsent change
(`item`, asyncua's default queue of one) and `wire` the notifications sent. A
write that changes nothing notifies nobody, a new subscription reports the
current value. `sender` is where `run` stands, `sentAt` is `_sent_at_map`,
`silence` the time since `_last_received_at`.

Time is counted in beats. Between two beats lie `HEARTBEAT_INTERVAL_SECONDS`, ten
times the publishing interval, so when the sender wakes the server has published
every change, and at most `MaxLag` (0 or 1) carriers are still under way (`Timely`). This
timing is an assumption about the environment; programs that cannot be reached
are not bound by it. Since beats and wall clock do not coincide, `is_stale` may
answer either way after exactly `StaleAfter` sleeps. Every value carries the age
of the beat that wrote it, which the code does not see: a round trip is true if
the entry it pops is as old as the value that came back.

| Action | Code |
|---|---|
| `StartOwner`, `StartEcho`, `EndOwner`, `EndEcho` | `start`, `stop` and the sessions that call them |
| `Beat`, `Written`, `SendFails`, `Check` | `run`, `send_heartbeat`, `_update_heartbeat`, `is_stale` |
| `Receive`, `Drain` | `datachange_notification` of the owner, `drain_rtts` |
| `TakeBeat`, `Answer`, `AnswerFails` | `datachange_notification` and `echo_value` of the echo |
| `Publish`, `Cut` | the server |

Left out: what is only logged (`_last_received_value`, slow echoes), clocks that
are set back while `is_stale` compares them, and the thread in which `drain_rtts`
runs (it counts before it pops, and a full deque does not shrink under it).

### OpcLog

A step reads one record, as both loops do, and its number is its timestamp.
`client`, `sessions` and `pending` are `build_client_map`'s; an application name has
one `ClientSession` for good (`by_app_name`), so the maps hold names. `tagged` is
`build_active_map`'s `sessions`, and `carried` those of them whose `auth_token` is
known, because some record of the tag carried the token: any record may or may
not, and `build_sessions` joins a session to its client only then.
`build_sessions` and `total_downtime_seconds` are functions of these. The other variables say what the log means, without the
parser: `asking` and `current` who waits for a session and who has one, `offline`
how long it had none.

| Action | Code |
|---|---|
| `CreateSessionRequest` | `build_client_map` 203-222 with `_push_reconnect` |
| `CreateSessionResponse`, `CreateSessionRejected` | 224-239 |
| `ActivateSessionRejected`, `ServiceFault`, `CloseSession` | 249-271, `build_active_map` 295-319 |
| `Used` | every other record of a session |

What is assumed of a log: one handshake at a time per address and per
application, session records tagged with the session's token, tokens that
are not used again, timestamps that increase, and that a `ServiceFault` ends the
session of its tag whatever request it answers. The last is the parser's own
reading (`opc_parser.py:256-263`), which `current` and `offSince` share: were a
fault to leave its session alive, the parser would call a connected client
inactive and count time it was connected as downtime. Left out: cutting the file into
records, names, URIs, user names, reasons, `activated_at` and `last_seen`.

## Runs

| Run | Question | Instance |
|---|---|---|
| `ingest_rows` | is any decoded row doubled, invented or forgotten; are the oldest evicted, do the buffers stay bounded; is `RowLedger` implemented | a windowed metric with a primary key, a tag without, queue 1, bound 1, 2 publications, 3 arrivals; one rollback, one broken connection, one restart |
| `ingest_sessions` | are resent values stored once, only decoded ones skipped, and does every decoded row leave the buffers | one metric whose readings have two rows, bound 3, 2 publications, 3 arrivals, a rollback, a restart, a status flip, a clock that goes back |
| `session` | does `active_log` tell the truth and do its rows pair up, does a sender outlive its session, is a silence reported once, does the session come back, does a shutdown end it | 2 subscriptions, one fault of each of seven kinds, a shutdown |
| `servers` | do a server's lock, threads, failures and end stay its own; is a batch whole and a reported row written; is the whole an atomic store to its callers; is every server served, does a server end only for its own tag file or database, does a shutdown end them all | 2 servers with 2 and 1 batches of 2 tables, 2 threads, any two disturbances |
| `publisher` | are log records published once, in order, and none forgotten; do sessions end for the documented reason only; does a failing metric stop the others | a metric that may always fail next to the errors one, limit 3, buffer 3, batches of 2, 4 records, one fault of each of five kinds |
| `heartbeat` | is a working pair ever called stale or a round trip measured against the wrong beat; is an echo that is away or cut off told of, for as long as it is; do round trips come back | a lap of four beats, answers up to one beat late, `stale_after` of four beats, any two faults |
| `opclog` | who is connected, found where, in which order, offline how long, listed how often | 2 applications, 2 addresses, 3 sessions, all logs of 8 records |
| `ingest_cancelled` | does the end of a session lose rows | violated |
| `ingest_outage` | are rows written after the connection broke once | violated |
| `session_given_up` | is a server tried again until a shutdown | violated |
| `servers_blocked` | is receiving kept from waiting for the database | violated |
| `publisher_offline` | are records logged while disconnected published | violated |

Bounds. In `Ingest` two arrivals suffice for a batch in flight and newer rows
next to it, which is where requeue, cancellation and orphans interact; sessions
are not bounded, so two orphans coexist. Eviction needs one more row than the
bound of a table: with bound 1 a batch of one row and one newer row overflow it,
and a windowed metric brings two rows at once; the full queue drops with queue 1.
In `ingest_sessions` two queued readings have four rows, one more than the bound,
so a failed write may keep a reading in part. `AtMostOnce` needs a stored value,
a reconnect that repeats it and each of the faults that may repeat it again. In `IngestorSession` two subscriptions
are the least for one to fail before or behind one that is silent, and one fault
of each kind lets any two meet, also across sessions. In `Publisher` one record
more than the buffer holds makes it overflow, and a buffer larger than a batch
tells the oldest records from the newest; the limit is the program's own. The
model's metric that may always fail is bounded by nothing. In `Heartbeat` a count
to two is the shortest lap in which a value is passed upwards and downwards; two
faults let an end of either session meet a failed write, a loss or another end. In `Servers`
an abandoned thread and the one of the last flush fill the pool of two, so a
third batch, the other server's, waits for them; two disturbances let a session
end, break or block while another server fails or the process stops. In `OpcLog`
three sessions let a client reconnect and an old session end late while another
client takes a session at the same address.

Fairness. `Ingest`: the event loop takes its enabled flush steps, `main` opens a
session after `RECONNECT_DELAY`, threads start and their transactions end;
notifications, faults and ends of sessions are not fair, so `Settles` holds
although sessions may end over and over. `IngestorSession`: the event loop
resumes the coroutine (every await has a timeout or is a sleep) and asyncua
reports a lost connection. `Publisher`: `main`, every unit of a cycle and the
threads make progress, since requests, getters and sleeps end. `Heartbeat`: the
same for the sender, the notification handlers and the server's publishing;
nothing makes a program start a session again, so either may stay away for ever,
and nothing makes a lost connection be noticed. `Servers`: every
callback of the loop has its turn, calls to a database end (psycopg raises when a
connection is gone) and the executor takes what is queued; a session need not
end, nor a batch be there. Disturbances are bounded, so weak fairness of each
server's coroutine is enough. `OpcLog` has none: a log may end anywhere.

What the violated runs show:

* `ingest_cancelled`: `flush` catches `Exception`, and a cancelled flush raises
  `CancelledError`. The batch it had swapped out is requeued by nobody. If the
  thread has not started it never runs; if its transaction fails the rows are
  gone; `ingest.py:9-11` promises that they are written in the next session.
* `ingest_outage`: `connect()` is called at start-up only. After the connection
  breaks every tick requeues the rows (`README.md:512`: "keeps the rows and
  retries every second") and no retry can succeed until the process restarts,
  which forgets them.
* `session_given_up`: the `except` handler of `main` writes two rows itself. If
  the database fails there the exception leaves the loop, `run_all`'s `gather`
  keeps it until every other server has ended, and this server is never tried
  again (`README.md:125`: "waits ... and retries").
* `servers_blocked`: `log_status` and `log_event` run on the event loop and wait for
  the lock that the server's writer thread holds from its first statement to its
  commit. Meanwhile no notification of any server is taken from its socket and
  no heartbeat answered, against `README.md:122` and `README.md:63`.
* `publisher_offline`: `drain` takes records out of the process-wide buffer
  before they are written. When the write fails, another unit's failure cancels
  the cycle, or the drain's thread outlives its cancelled task, they are gone
  (`publish.py:55-56`: they "must survive the reconnect").

What `heartbeat` shows besides passing: after a reconnect of either program the
pair needs up to `Recovery = 2 * MaxLag + 3` beats, because tags keep the values of
earlier sessions. Within that time the echo may be called stale though both
programs work, and the first notification of a session, a value of the session
before, may be measured as a round trip of a beat just sent, against the words of
`models.py:112`; the two invariants hold from then on. They need answers that are
less than two beats (ten seconds) late (`MaxLag` 0 or 1), since a value comes back
after two beats where the count turns; a request may take `OPCUA_REQUEST_TIMEOUT_SECONDS`,
30 seconds, and a very late answer is measured as a short round trip.
`NoFalseAlarm` needs `stale_after` above `2 * MaxLag + 1` beats. With the default polling interval of one
second (`settings.py:17`) it is one beat, so a working pair may be called stale on
any beat even if no answer is late; with ten seconds, as in `docs/`, it is ten.
`NoFalseAlarm` exempts such limits, so the default is described here and checked
nowhere. `StaleTold` is about both ways to lose an echo: its program is down or cut
off while the sender's session lasts, or the sender's own connection is gone after
a first notification; either may last for ever.

Seen while modelling, without a run. In the ingestor: `_last_timestamp` compares
clocks, so a host that takes over with its clock behind has its first value
skipped as "already stored" (`ingest.py:140`) though it never was decoded;
`on_stale` writes a row outside the `try` of `SystemHeartbeatHandler.run`, so if
that fails the task ends unnoticed and the session goes on without heartbeats
(`heartbeat.py:172`: "until cancelled"); the delay before a retry is always
`RECONNECT_DELAY`, where `README.md:125` describes exponential backoff; each
failed attempt adds another `inactive` row, where `README.md:321` has one per
change of state; a warning about a silent subscription that cannot be written
ends the session, which `subscription.py:132` excludes. In the log parser: two
programs of one application name share one `ClientSession` and end each other's;
a client whose last attempt failed is missing from `build_client_map` with its
history; `activated_at` and `username` of the session before survive a reconnect; a
session whose client left without closing it stays active in `build_active_map`;
a rejected activation ends the session without a `disconnected_at`, so its gap
is not counted as downtime; a fault that answers one request only is taken for
the end of its session; a session none of whose records carries its token is
listed twice, bare under its tag and as its client's under its token, which
`ListedOnce` states as the only such case.

## Proofs

Every theorem holds for all values of the constants; the only assumptions are
those of the six modules (`IngestAssumption`, `SessionAssumption`,
`ServersAssumption`, `PublisherAssumption`, `HeartbeatAssumption`,
`OpcLogAssumption`): keys and units are distinct and have tables, bounds and
sizes are positive, budgets of faults are numbers, and answers are late by
`MaxLag`, 0 or 1, beats.

* `IngestProofs.TypeCorrect`. Payloads are rows of real publications because one
  that repeats is clipped to the publications there have been; requeueing keeps
  sequences of rows because truncation is a subsequence.
* `IngestProofs.RowsAccounted` and `RowsNotDoubled`. `EveryRowAccounted` is
  not inductive: a row might be decoded twice from one arrival, or be in the
  buffer and in a thread at once. The invariant adds that queued items and rows
  carry distinct arrivals below `arrivals`, that no queued item is decoded yet,
  that the places that hold a row (pending, batch in flight, orphans, tables) are
  disjoint without repetition, and that a finished batch is in the tables.
* `IngestProofs.IngestImplementsLedger`. Each step of `Ingest` moves rows in
  one of three ways (taken in, written, given up) or not at all; each way is a
  step of `RowLedger` under the mapping of `Ingest`.
* `IngestBounds.MemoryStaysFlat`. What a table may hold depends on the phase of
  the flush (`Room`): `PendingMax` rows while idle, one payload of as many rows as
  its metric's readings have more for each item already decoded, and pending rows
  and a batch never together.
* `IngestBounds.OldestGoFirst`. Arrivals increase along the queue and are above
  those of every decoded row of a table it feeds (`QueueOrdered`), so rows are
  appended in order and a requeue cuts the older end (`RowsOrdered`).
* `IngestRepeats.SkippedWasDecoded`. While the publishing clock moves forward a
  publication is its timestamp and the queue repeats publications in order
  (`InOrder`), so a first value no newer than `lastTimestamp` is the one it stands
  for, and that one was decoded (`Remembered`).
* `IngestRepeats.StoredOnce`. What is counted is not the arrivals whose rows are in the
  tables but all that may put rows there (`Load`): arrivals decoded, good
  items in the queue, and the current value while a new subscription has
  still to report it. `Standing` says how large that may be: at most what the
  restarts and status changes excuse, and one more only while the metric's first
  value is awaited, nothing older of it lies ahead (`Ahead`) and it was seen under
  its timestamp, since then the first one decoded is skipped. It rests on an empty queue between
  sessions (`Drained`) and on timestamps that belong to publications (`Stamped`).
* `IngestorSessionProofs.TypeCorrect`, `StatusTold` and `SenderStopped`. The invariant ties the
  exception to the await (`Raised`), the sender to the phase of the teardown
  (`Halted`) and a broken connection to its fault (`Counted`).
* `IngestorSessionProofs.SilenceReportedOnce`. A silence that `check_health` has yet
  to remember counts as its warning (`ReportedOnce`): whatever fails while the
  subscriptions are asked, it is remembered or still owed, never both.
* `IngestorSessionProofs.HistoryIsKept`. Each action is a step of `ConnectionHistory` or none,
  given that a cancellation is on its way exactly from the shutdown until `main`
  ends (`Cancelling`): no other exception overtakes it.
* `PublisherProofs.TypeCorrect`, `RecordsAccounted`, `RecordsInOrder`. Records
  only move from buffer to payload to node; the invariant states that each of
  the three is increasing and older than the next (`Ordered`), that a payload
  exists only between drain and write, and that in a running session no count
  has reached the limit (`Control`).
* `PublisherProofs.EndsOnlyForFailures`. In a session a unit has gone as
  many cycles without success as its count of failures says, and one more while a
  cycle waits for it (`Aged`), so a count at its limit means that many in a row.
* `HeartbeatProofs.TypeCorrect`. The heartbeat stays in its range because it
  turns at both ends; a server's queue never holds more than one change.
* `HeartbeatProofs.TripsAreTrue` and `AlarmsAreTrue`. Ages never increase along the way of a
  carrier, so nothing overtakes (`InOrder`); and each beat of a working pair adds to what is
  known of it (`Settled`): after one, what is as young as the last beat carries
  it; after two, what is one beat old carries the beat before; after three, the
  echo has answered that one or is about to; after four, nothing older is under
  way. From there a value that comes back finds its own beat in `sentAt`, and the
  silence is no longer than the place of the last answer allows. Both theorems are
  about a pair whose programs have been up and undisturbed for `Recovery` beats and
  whose answers are at most `MaxLag` late, the second about a `stale_after` above
  `2 * MaxLag + 1`; they say nothing of other times.
* `ServersProofs.TypeCorrect`, `TransactionsAreOwn`, `BatchesAreWhole`,
  `CallersAreToldTheTruth`, `ServersEndAlone`. A batch in progress is partly in `tx` and
  a closed connection still has threads that use it, so none of these is inductive.
  The invariant says per server (`Safe`) who holds the lock (`Holder`), that the open
  transaction is a prefix of the holder's statements or empty on a dead
  connection (`Own`, `Progress`), that nothing of a batch is committed before its
  commit (`Whole`, `Fresh`, with batches `Numbered`), and that `ok` means
  committed (`Truthful`). Steps outside of transactions are `Quiet`: they leave these
  alone except for what they abandon or close. `ServersEndAlone` needs only that a
  broken connection, a failed call and an exception of a handler each have a
  struck database behind them (`Lone`), and an end at start-up a struck tag file or database.
* `ServersProofs.ServersImplementStore`. Every step of `Servers` is of one of a few kinds
  (`Kind`) by what it does to stages, tables and numbers: a call, a batch handed
  over, an answer heard, a flush abandoned, a thread begun, a step of a
  transaction, or none of these. Each kind is a step of `AtomicStore` or none. Besides `Safe` this
  needs that no row of a write is in the tables before its commit (`Untouched`);
  the commit alone adds them, and adds all (`FullTransaction`).
* `OpcLogProofs.TypeCorrect`, `ClientsHaveOneKey`, `ActiveClientsHaveSessions`,
  `ConnectionsInOrder`. The invariant (`Handshakes`) ties the three maps: a request under
  way is the one its address waits for and its client has no token (`OneRequest`,
  `Waiting`), a token that leads to a client is that client's (`Found`, `Held`); and per client that
  nothing lies after the last record (`Timely`) and its spans are in order.
* `OpcLogProofs.DowntimeIsReal` and `ListedOnceEach`. Downtime is a sum over a list that grows; a
  record leaves all gaps but the last as they are, so the bound on the sum is
  carried from state to state (`Bounded`, with `Off`: an end is noted only of a
  session that is over) and needs no induction over the list. That nothing is listed twice
  follows from the maps: no token leads to two clients, and entries of one kind
  differ in their key; of two kinds a session has entries only if no record of its
  tag carried its token (`carried`).

With these every invariant and every refinement the passing runs check is
proved. Model-checked only: the liveness properties (`Settles`, `Recovers`,
`ShutdownEnds`, `OthersPublished`, `RecordsLeave`, `StaleTold`, `Beats`,
`AllServed`), which with fairness and ENABLED are out of the prover's reach.

## Not modelled

Settings, servers, tag extraction and channels are read once at start-up and are
constants afterwards. The metric readers ask the operating system and keep no
state (`services.py` closes the handles it opens on every path); of the certificate generator only files
remain. The schema, hypertables and retention policies belong to the database.
`lib/opcua_client.py`'s coercions are the identity for what the programs write, strings to
string nodes. `lib/models.py` coerces and formats fields; what of that can matter
to a row, its timestamp cut to seconds, is in the plan.

## Plan

1. `Pipeline`: `Publisher`'s node, a subscription's queue and the ingest buffer
   composed: what reaches the database of what was published, with the
   timestamps cut to seconds (`models.py`) and the conflict rule.
2. Proofs about `Pipeline`: what of a publication may be in the database, from the
   theorems about its two ends.
