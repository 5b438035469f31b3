-------------------------------- MODULE Ingest --------------------------------
(***************************************************************************)
(* One server's path from OPC UA notification to database row:             *)
(* ingestor/src/ingest.py with the transaction it runs in a worker thread  *)
(* (ingestor/src/db.py insert_many, lib/database.py transaction) and the   *)
(* session that starts, cancels and finally flushes it                     *)
(* (ingestor/src/main.py _run_session).                                    *)
(*                                                                         *)
(* Event loop, worker threads, OPC UA server and database interleave; the  *)
(* event loop itself is one thread, so while `flush = "decoding"` nothing  *)
(* else of the loop moves.  A row is its key, the publication it belongs   *)
(* to, which part of that it is (the interface, the service) and the       *)
(* arrival that brought it; its contents are left out.                     *)
(***************************************************************************)
EXTENDS Integers, Sequences, FiniteSets, Functions

CONSTANTS
    Metrics,      \* metrics of settings.json, each a node with its own payload
    Tags,         \* tag nodes, each notification one row
    Collector,    \* key of the round-trip rows the ingestor measures itself
    Table,        \* the table of each key
    Idempotent,   \* metrics whose table ignores a row it already has
    Window,       \* rows of a metric's payload: the parts of one reading or,
                  \* where Idempotent, the last publications, the newest last
    QueueMax,     \* QUEUE_MAX_ITEMS
    PendingMax,   \* MAX_PENDING_ROWS_PER_TABLE
    MaxPublish,   \* bound: publications of one metric
    MaxArrivals,  \* bound: notifications and measured round trips
    MaxFaults     \* bound: faults of each kind

Keys == Metrics \cup Tags \cup {Collector}
Tables == {Table[k] : k \in Keys}
FaultKinds == {"rollback", "connection", "crash", "clock", "requality"}
Causes == {"evicted", "cancelled", "crashed"}

ASSUME IngestAssumption ==
    /\ Collector \notin Metrics \cup Tags
    /\ Metrics \cap Tags = {}
    /\ Table \in [Keys -> {Table[k] : k \in Keys}]
    /\ Idempotent \subseteq Metrics
    /\ Window \in [Metrics -> Nat \ {0}]
    /\ QueueMax \in Nat \ {0} /\ PendingMax \in Nat \ {0}
    /\ MaxPublish \in Nat /\ MaxArrivals \in Nat
    /\ MaxFaults \in [FaultKinds -> Nat]

Row  == [key : Keys, id : Nat \ {0}, part : Nat \ {0}, at : Nat \ {0}]
Item == [key : Metrics \cup Tags, id : Nat, ts : Nat, at : Nat \ {0}, ok : BOOLEAN]

VARIABLES
    node,           \* per metric: last publication and its newest timestamp
    fresh,          \* metrics whose value this session has not been notified
    session,        \* "down", "up", "stopping", "closing" (the last flush)
    queue,          \* _queue
    pending,        \* _pending
    lastTimestamp,  \* _last_timestamp, 0 when absent
    awaitingFirst,  \* _awaiting_first
    flush,          \* "idle", "decoding", "writing" (awaiting the thread)
    batch,          \* the rows handed to the thread
    writer,         \* "none", "queued", "running", "ok", "failed"
    orphans,        \* batches whose thread outlived the cancelled flush
    conn,           \* the psycopg connection works
    stored,         \* rows of the database
    arrivals,       \* how many rows or items arrived, numbers them
    faults,         \* how often each fault struck
    decoded,        \* every row ever decoded
    lost,           \* rows given up, by cause
    suppressed      \* first values skipped as already stored

plant  == <<node, fresh>>
buffer == <<queue, pending, lastTimestamp, awaitingFirst>>
thread == <<batch, writer, orphans>>
database == <<conn, stored>>
history == <<arrivals, faults, decoded, lost, suppressed>>
vars == <<plant, session, flush, buffer, thread, database, history>>

Empty == [t \in Tables |-> <<>>]
Rows(f) == UNION {Range(f[t]) : t \in Tables}
Max2(m, n) == IF m >= n THEN m ELSE n
Min2(m, n) == IF m <= n THEN m ELSE n

(* A table with a primary key holds a part of a publication once.          *)
Keyed(r) == \E k \in Idempotent : Table[r.key] = Table[k]
Conflict(r, s) == Keyed(r) /\ r.key = s.key /\ r.id = s.id /\ r.part = s.part

(* INSERT ... ON CONFLICT DO NOTHING, in the order the rows arrived; and   *)
(* what a rolled back transaction leaves.                                  *)
InsertedAll(rows) == stored \cup rows
Inserted(rows) ==
    stored \cup {r \in rows :
        /\ ~\E s \in stored : Conflict(r, s)
        /\ ~\E s \in rows : Conflict(r, s) /\ s.at < r.at}
NotRolledBack(rows) == Inserted(rows)
RolledBack(rows) == stored

Spend(kind) ==
    /\ faults[kind] < MaxFaults[kind]
    /\ faults' = [faults EXCEPT ![kind] = @ + 1]

Lose(cause, rows) == lost' = [lost EXCEPT ![cause] = @ \cup (rows \ stored)]

LoopFree == flush # "decoding"
Connected == session \in {"up", "stopping"}

Init ==
    /\ node = [k \in Metrics |-> [id |-> 0, ts |-> 0]]
    /\ fresh = {}
    /\ session = "down"
    /\ queue = <<>>
    /\ pending = Empty
    /\ lastTimestamp = [k \in Metrics |-> 0]
    /\ awaitingFirst = {}
    /\ flush = "idle"
    /\ batch = Empty
    /\ writer = "none"
    /\ orphans = {}
    /\ conn = TRUE
    /\ stored = {}
    /\ arrivals = 0
    /\ faults = [kind \in FaultKinds |-> 0]
    /\ decoded = {}
    /\ lost = [c \in Causes |-> {}]
    /\ suppressed = {}

-----------------------------------------------------------------------------
(* The extractor writes a metric's node.  `ts` follows the host's clock:   *)
(* after a failover the other host's may be behind the last one's.         *)
Publish(k, ts) ==
    /\ node[k].id < MaxPublish
    /\ \/ ts = node[k].ts + 1 /\ UNCHANGED faults
       \/ ts \in 1 .. node[k].ts /\ Spend("clock")
    /\ node' = [node EXCEPT ![k] = [id |-> @.id + 1, ts |-> ts]]
    /\ fresh' = fresh \cup {k}
    /\ UNCHANGED <<session, flush, buffer, thread, database,
                   arrivals, decoded, lost, suppressed>>

(* new_session, then subscriptions that deliver each current value once.   *)
NewSession ==
    /\ session = "down"
    /\ session' = "up"
    /\ awaitingFirst' = Metrics
    /\ fresh' = Metrics
    /\ UNCHANGED <<node, flush, queue, pending, lastTimestamp, thread,
                   database, history>>

-----------------------------------------------------------------------------
(* on_metric and on_tag: enqueue, dropping the oldest when full.           *)
Enqueued(item) == Append(IF Len(queue) = QueueMax THEN Tail(queue) ELSE queue, item)

Put(item) ==
    /\ Connected /\ LoopFree
    /\ arrivals < MaxArrivals
    /\ queue' = Enqueued(item)
    /\ arrivals' = item.at
    /\ UNCHANGED <<node, session, flush, pending, lastTimestamp, awaitingFirst,
                   thread, database, decoded, lost, suppressed>>

ItemOf(k, ok) == [key |-> k, id |-> node[k].id, ts |-> node[k].ts,
                  at |-> arrivals + 1, ok |-> ok]

NotifyMetric(k) ==
    /\ k \in fresh
    /\ Put(ItemOf(k, TRUE))
    /\ fresh' = fresh \ {k}
    /\ UNCHANGED faults

(* The node turns bad and good again: the bad value cannot be decoded and  *)
(* the good one notifies the same publication once more.                   *)
NotifyBadStatus(k) ==
    /\ Spend("requality")
    /\ Put(ItemOf(k, FALSE))
    /\ fresh' = fresh \cup {k}

NotifyTag(t, ok) ==
    /\ Put([key |-> t, id |-> arrivals + 1, ts |-> 0, at |-> arrivals + 1, ok |-> ok])
    /\ UNCHANGED <<fresh, faults>>

(* add_model: a measured round trip goes straight to the pending rows.     *)
AddModel ==
    LET row == [key |-> Collector, id |-> arrivals + 1, part |-> 1, at |-> arrivals + 1] IN
    /\ Connected /\ LoopFree
    /\ arrivals < MaxArrivals
    /\ arrivals' = arrivals + 1
    /\ pending' = [pending EXCEPT ![Table[Collector]] = Append(@, row)]
    /\ decoded' = decoded \cup {row}
    /\ UNCHANGED <<plant, session, flush, queue, lastTimestamp, awaitingFirst,
                   thread, database, faults, lost, suppressed>>

-----------------------------------------------------------------------------
(* flush: decode the whole queue, item by item, without yielding.          *)
TickIfQueued ==
    /\ session = "up" /\ flush = "idle" /\ queue # <<>>
    /\ flush' = "decoding"
    /\ UNCHANGED <<plant, session, buffer, thread, database, history>>
Tick ==
    /\ session = "up" /\ flush = "idle"
    /\ flush' = "decoding"
    /\ UNCHANGED <<plant, session, buffer, thread, database, history>>

Decodes(item) == item.ok /\ item.id > 0  \* an empty node carries nothing

(* The payload of a metric: one reading in all its parts, or the last      *)
(* publications, the oldest first, fewer while there are not as many.      *)
WindowSize(item) == IF item.key \in Tags THEN 1 ELSE Window[item.key]
PayloadSize(item) ==
    IF item.key \in Idempotent THEN Min2(item.id, Window[item.key]) ELSE WindowSize(item)
Payload(item) ==
    [i \in 1 .. PayloadSize(item) |->
        IF item.key \in Idempotent
        THEN [key |-> item.key, id |-> item.id - PayloadSize(item) + i,
              part |-> 1, at |-> item.at]
        ELSE [key |-> item.key, id |-> item.id, part |-> i, at |-> item.at]]

(* The value a new subscription repeats: no newer than the last decoded.   *)
IsResentStrict(item) ==
    /\ item.key \in awaitingFirst \ Idempotent
    /\ lastTimestamp[item.key] # 0
    /\ item.ts < lastTimestamp[item.key]
IsFirst(item) ==
    /\ item.key \in awaitingFirst \ Idempotent
    /\ lastTimestamp[item.key] # 0
IsResent(item) ==
    /\ item.key \in awaitingFirst \ Idempotent
    /\ lastTimestamp[item.key] # 0
    /\ item.ts <= lastTimestamp[item.key]

Dequeue(item) ==
    /\ flush = "decoding" /\ queue # <<>>
    /\ item = Head(queue)
    /\ queue' = Tail(queue)
    /\ UNCHANGED <<plant, session, flush, thread, database, arrivals, faults, lost>>

DropItem ==
    LET item == Head(queue) IN
    /\ Dequeue(item)
    /\ ~Decodes(item)
    /\ UNCHANGED <<pending, lastTimestamp, awaitingFirst, decoded, suppressed>>

SkipResent ==
    LET item == Head(queue) IN
    /\ Dequeue(item)
    /\ Decodes(item) /\ IsResent(item)
    /\ awaitingFirst' = awaitingFirst \ {item.key}
    /\ suppressed' = suppressed \cup {[key |-> item.key, id |-> item.id]}
    /\ UNCHANGED <<pending, lastTimestamp, decoded>>

KeepRows ==
    LET item == Head(queue) IN
    /\ Dequeue(item)
    /\ Decodes(item) /\ ~IsResent(item)
    /\ awaitingFirst' = awaitingFirst \ {item.key}
    /\ lastTimestamp' = IF item.key \in Metrics
                        THEN [lastTimestamp EXCEPT ![item.key] = Max2(@, item.ts)]
                        ELSE lastTimestamp
    /\ pending' = [pending EXCEPT ![Table[item.key]] = @ \o Payload(item)]
    /\ decoded' = decoded \cup Range(Payload(item))
    /\ UNCHANGED suppressed

(* The last flush returns: the session is over.                            *)
Returned == IF session = "closing" THEN "down" ELSE session

(* Nothing pending: return.  Otherwise swap the rows out and await the     *)
(* thread.                                                                 *)
BeginWrite ==
    /\ flush = "decoding" /\ queue = <<>>
    /\ IF pending = Empty
       THEN /\ flush' = "idle"
            /\ session' = Returned
            /\ UNCHANGED <<batch, writer>>
       ELSE /\ flush' = "writing"
            /\ batch' = pending
            /\ writer' = "queued"
            /\ UNCHANGED session
    /\ pending' = Empty
    /\ UNCHANGED <<plant, queue, lastTimestamp, awaitingFirst, orphans,
                   database, history>>

FlushDone ==
    /\ flush = "writing" /\ writer = "ok"
    /\ flush' = "idle"
    /\ session' = Returned
    /\ writer' = "none"
    /\ batch' = Empty
    /\ UNCHANGED <<plant, buffer, orphans, database, history>>

(* _requeue: the failed rows go before the newer ones; beyond PendingMax   *)
(* the oldest of a table are given up.                                     *)
Excess(rows) == IF Len(rows) > PendingMax THEN Len(rows) - PendingMax ELSE 0
OldestKept(rows) == SubSeq(rows, 1, Min2(Len(rows), PendingMax))
Untruncated(rows) == rows
Newest(rows) == SubSeq(rows, Excess(rows) + 1, Len(rows))
Merged(t) == batch[t] \o pending[t]
Evicted(t) == IF batch[t] = <<>> THEN {} ELSE Range(Merged(t)) \ Range(Newest(Merged(t)))
RequeuedOverNewer(t) == IF batch[t] = <<>> THEN pending[t] ELSE Newest(batch[t])
Requeued(t) == IF batch[t] = <<>> THEN pending[t] ELSE Newest(Merged(t))

FlushFailed ==
    /\ flush = "writing" /\ writer = "failed"
    /\ flush' = "idle"
    /\ session' = Returned
    /\ writer' = "none"
    /\ pending' = [t \in Tables |-> Requeued(t)]
    /\ Lose("evicted", UNION {Evicted(t) : t \in Tables})
    /\ batch' = Empty
    /\ UNCHANGED <<plant, queue, lastTimestamp, awaitingFirst, orphans,
                   database, arrivals, faults, decoded, suppressed>>

-----------------------------------------------------------------------------
(* insert_many in the worker thread: one transaction.                      *)
StartWrite ==
    /\ writer = "queued"
    /\ writer' = "running"
    /\ UNCHANGED <<plant, session, flush, buffer, batch, orphans, database, history>>

Commit ==
    /\ writer = "running" /\ conn
    /\ writer' = "ok"
    /\ stored' = Inserted(Rows(batch))
    /\ UNCHANGED <<plant, session, flush, buffer, batch, orphans, conn, history>>

(* An error rolls the transaction back; without a connection every         *)
(* transaction fails, and nothing opens another one.                       *)
Rollback ==
    /\ writer = "running"
    /\ IF conn THEN Spend("rollback") ELSE UNCHANGED faults
    /\ writer' = "failed"
    /\ stored' = RolledBack(Rows(batch))
    /\ UNCHANGED <<plant, session, flush, buffer, batch, orphans, conn,
                   arrivals, decoded, lost, suppressed>>

(* The connection breaks between the commit and its acknowledgement.       *)
LostAck ==
    /\ writer = "running" /\ conn
    /\ Spend("connection")
    /\ writer' = "failed"
    /\ stored' = Inserted(Rows(batch))
    /\ conn' = FALSE
    /\ UNCHANGED <<plant, session, flush, buffer, batch, orphans,
                   arrivals, decoded, lost, suppressed>>

LoseConnection ==
    /\ conn /\ Spend("connection")
    /\ conn' = FALSE
    /\ UNCHANGED <<plant, session, flush, buffer, thread, stored,
                   arrivals, decoded, lost, suppressed>>

(* The thread of a cancelled flush runs on; nobody requeues its rows.      *)
OrphanCommit(b) ==
    /\ b \in orphans /\ conn
    /\ orphans' = orphans \ {b}
    /\ stored' = Inserted(Rows(b))
    /\ UNCHANGED <<plant, session, flush, buffer, batch, writer, conn, history>>

OrphanFail(b) ==
    /\ b \in orphans
    /\ IF conn THEN Spend("rollback") ELSE UNCHANGED faults
    /\ orphans' = orphans \ {b}
    /\ Lose("cancelled", Rows(b))
    /\ UNCHANGED <<plant, session, flush, buffer, batch, writer, database,
                   arrivals, decoded, suppressed>>

-----------------------------------------------------------------------------
(* The session ends: the TaskGroup cancels run(), and with it a flush that *)
(* awaits its thread.  A thread not yet started never runs; a running one  *)
(* is left behind; the result of a finished one is discarded.              *)
EndSession ==
    /\ session = "up" /\ LoopFree
    /\ session' = "stopping"
    /\ flush' = "idle"
    /\ writer' = "none"
    /\ batch' = Empty
    /\ orphans' = IF writer = "running" THEN orphans \cup {batch} ELSE orphans
    /\ IF writer \in {"queued", "failed"}
       THEN Lose("cancelled", Rows(batch))
       ELSE UNCHANGED lost
    /\ UNCHANGED <<plant, buffer, database, arrivals, faults, decoded, suppressed>>

(* The subscriptions are stopped: the last flush of _run_session.          *)
FinalFlush ==
    /\ session = "stopping"
    /\ session' = "closing"
    /\ flush' = "decoding"
    /\ UNCHANGED <<plant, buffer, thread, database, history>>

Writing == IF writer \in {"queued", "running", "failed"} THEN Rows(batch) ELSE {}
Orphaned == UNION {Rows(b) : b \in orphans}
Unwritten == Rows(pending) \cup Writing \cup Orphaned

(* The process is killed and started again: initialize() reconnects to the *)
(* database, an open transaction is rolled back, memory is gone.           *)
Crash ==
    /\ Spend("crash")
    /\ session' = "down"
    /\ flush' = "idle"
    /\ queue' = <<>>
    /\ pending' = Empty
    /\ lastTimestamp' = [k \in Metrics |-> 0]
    /\ awaitingFirst' = {}
    /\ batch' = Empty
    /\ writer' = "none"
    /\ orphans' = {}
    /\ conn' = TRUE
    /\ Lose("crashed", Unwritten)
    /\ UNCHANGED <<plant, stored, arrivals, decoded, suppressed>>

-----------------------------------------------------------------------------
Extractor == \E k \in Metrics : \E ts \in 1 .. MaxPublish : Publish(k, ts)
Notification ==
    \/ \E k \in Metrics : NotifyMetric(k) \/ NotifyBadStatus(k)
    \/ \E t \in Tags, ok \in BOOLEAN : NotifyTag(t, ok)
    \/ AddModel
Flushing ==
    \/ Tick \/ FinalFlush
    \/ DropItem \/ SkipResent \/ KeepRows
    \/ BeginWrite \/ FlushDone \/ FlushFailed
Writer == Commit \/ Rollback \/ LostAck
Orphan == \E b \in orphans : OrphanCommit(b) \/ OrphanFail(b)

Next ==
    \/ Extractor \/ Notification
    \/ NewSession \/ EndSession
    \/ Flushing
    \/ StartWrite \/ Writer \/ Orphan
    \/ LoseConnection \/ Crash

Spec == Init /\ [][Next]_vars

(* The event loop and the executor's threads keep running, main() opens a  *)
(* session after RECONNECT_DELAY, and a transaction ends.  Nothing is fair *)
(* about notifications, faults or the end of a session.                    *)
Fairness ==
    /\ WF_vars(Flushing) /\ WF_vars(NewSession)
    /\ WF_vars(StartWrite) /\ WF_vars(Writer) /\ WF_vars(Orphan)

FairSpec == Spec /\ Fairness
-----------------------------------------------------------------------------
(* Every variable keeps to its set.                                        *)
Batches == [Tables -> Seq(Row)]
TypeOK ==
    /\ node \in [Metrics -> [id : Nat, ts : Nat]]
    /\ fresh \subseteq Metrics
    /\ session \in {"down", "up", "stopping", "closing"}
    /\ queue \in Seq(Item)
    /\ pending \in Batches
    /\ lastTimestamp \in [Metrics -> Nat]
    /\ awaitingFirst \subseteq Metrics
    /\ flush \in {"idle", "decoding", "writing"}
    /\ batch \in Batches
    /\ writer \in {"none", "queued", "running", "ok", "failed"}
    /\ orphans \subseteq Batches
    /\ conn \in BOOLEAN
    /\ stored \subseteq Row
    /\ arrivals \in Nat
    /\ faults \in [FaultKinds -> Nat]
    /\ decoded \subseteq Row
    /\ lost \in [Causes -> SUBSET Row]
    /\ suppressed \subseteq [key : Metrics, id : Nat]

Lost == UNION {lost[c] : c \in Causes}
Saved(r) == r \in stored \/ \E s \in stored : Conflict(r, s)

(* Whatever is cancelled, retried or restarted, a decoded row is still     *)
(* held, or in the database (itself or the row it repeats), or known to be *)
(* lost; and only decoded rows are ever held, written or lost (the swap,   *)
(* the requeue and the cancelled flush of ingest.py 89-113).               *)
EveryRowAccounted ==
    /\ decoded = Unwritten \cup Lost \cup {r \in decoded : Saved(r)}
    /\ stored \subseteq decoded

(* No row has two holders, so no retry can write it twice: pending rows,   *)
(* the batch being written and the orphans are disjoint; while the         *)
(* connection works none of them is in the database yet; what was lost     *)
(* does not come back.                                                     *)
NoRowTwice ==
    /\ \A t \in Tables : IsInjective(batch[t] \o pending[t])
    /\ \A b \in orphans : Rows(b) \cap (Rows(pending) \cup Rows(batch)) = {}
    /\ \A b, c \in orphans : b # c => Rows(b) \cap Rows(c) = {}
    /\ conn => Unwritten \cap stored = {}
    /\ Lost \cap (Unwritten \cup stored) = {}

(* A reading of a metric whose table has no primary key is stored from one *)
(* arrival only, however often the session is reopened and repeats it      *)
(* (ingest.py 135-140); a restart of the process, which forgets what was   *)
(* stored, and a status that turns bad and good again may each repeat one. *)
AtMostOnce ==
    \A k \in Metrics \ Idempotent, i \in 1 .. MaxPublish :
        Cardinality({r.at : r \in {s \in stored : s.key = k /\ s.id = i}})
            <= 1 + faults["crash"] + faults["requality"]

(* As long as the publishing clock moves forward, a first value is skipped *)
(* only if that very publication was decoded before (ingest.py 139-140).   *)
SuppressedWasDecoded ==
    faults["clock"] = 0 =>
        \A v \in suppressed : \E r \in decoded : r.key = v.key /\ r.id = v.id

(* "The oldest data goes first" (ingest.py 26): a row evicted from a table *)
(* arrived no later than every row of that table the ingestor still holds. *)
(* The collector's own rows skip the queue, so its table is left aside.    *)
OldestEvictedFirst ==
    \A r \in lost["evicted"], s \in Rows(pending) \cup Writing :
        Table[r.key] = Table[s.key] /\ Table[r.key] # Table[Collector]
            => r.at <= s.at

(* "Bounds that keep memory flat" (ingest.py 26): what the buffers hold of *)
(* a table fed by the queue never exceeds the requeue bound and one queue. *)
Weight(k) == IF k \in Metrics THEN Window[k] ELSE 1
MemoryFlat ==
    \A t \in Tables \ {Table[Collector]} : \E k \in Keys :
        /\ Table[k] = t
        /\ Len(batch[t]) + Len(pending[t]) <= PendingMax + QueueMax * Weight(k)

(* Ingest implements the ledger.                                           *)
Ledger == INSTANCE RowLedger WITH
    held <- Unwritten \ stored, lost <- Lost, Conflict <- Conflict
LedgerSpec == Ledger!Spec

(* A decoded row does not stay unwritten for ever: it is stored or given   *)
(* up, sessions coming and going, writes failing now and then.             *)
Settles ==
    \A n \in 1 .. MaxArrivals :
        (\E r \in Unwritten : r.at = n) ~> (\A r \in Unwritten : r.at # n)

(* "rows that were decoded but not yet written when a session dropped are  *)
(* still written once the next one is up" (ingest.py 9-11): the end of a   *)
(* session loses none.                                                     *)
RowsSurviveReconnect == lost["cancelled"] = {}
=============================================================================
