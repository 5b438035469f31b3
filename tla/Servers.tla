-------------------------------- MODULE Servers --------------------------------
(***************************************************************************)
(* The servers of one ingestor process: run_all and main                   *)
(* (ingestor/src/main.py) on the one event loop, each with a connection    *)
(* and a lock (lib/database.py), and the pool of worker threads in which   *)
(* the flushes of all of them write (ingestor/src/ingest.py flush).        *)
(*                                                                         *)
(* log_status and log_event (ingestor/src/db.py) run on the event loop:    *)
(* from their first step to their last no coroutine moves and nothing is   *)
(* received, for no server.  Which rows a flush writes is the matter of    *)
(* Ingest, the reasons for which a session ends of IngestorSession.        *)
(***************************************************************************)
EXTENDS Integers, Sequences, FiniteSets

CONSTANTS
    Servers,     \* servers of servers.json
    Workers,     \* threads of the loop's executor
    BatchTables, \* tables a batch has rows for, one statement each
    MaxBatches,  \* bound: batches handed over by each server
    MaxFaults    \* bound: disturbances, of all kinds and servers together

ASSUME ServersAssumption ==
    /\ Workers \in Nat \ {0}
    /\ BatchTables \in Nat \ {0}
    /\ MaxBatches \in [Servers -> Nat]
    /\ MaxFaults \in Nat

(* Who may hold a server's lock: the event loop or the thread of a batch.  *)
Free == -1
Loop == 0
Batches == UNION {1 .. MaxBatches[s] : s \in Servers}
Owners == {Loop} \cup Batches

VARIABLES
    at,        \* the await, or call, at which main stands, per server
    why,       \* the exception on its way to main: "none", "error", "cancel"
    flush,     \* the batch whose write the coroutine awaits, 0 if none
    batches,   \* how many batches were handed over
    shutdown,  \* asyncio.run has cancelled run_all
    cancel,    \* servers whose coroutine is still to be told
    stage,     \* per server and owner: where its transaction stands
    done,      \* per server and owner: statements executed in it
    pool,      \* batches submitted to the executor, <<server, batch>>
    lock,      \* _lock of each server
    conn,      \* _conn: "none", "open", "broken"
    tx,        \* rows executed in the connection's open transaction
    tables,    \* rows committed, of the loop's only its latest
    struck,    \* observer: servers whose tag file or database has failed
    faults     \* how many disturbances there were

loopVars == <<at, why, flush, batches, shutdown, cancel>>
threads == <<stage, done, pool>>
databases == <<lock, conn, tx, tables>>
vars == <<loopVars, threads, databases, struck, faults>>

Size(o) == IF o = Loop THEN 1 ELSE BatchTables
Rows(o) == {o} \X (1 .. Size(o))
Threads ==
    {job \in Servers \X Batches : stage[job[1]][job[2]] \in {"waiting", "inside", "aborting"}}

Spend ==
    /\ faults < MaxFaults
    /\ faults' = faults + 1

(* Between two awaits the loop belongs to one coroutine; a database call   *)
(* keeps it.  gather starts every main before any is resumed.              *)
LoopFree == \A s \in Servers : stage[s][Loop] = "idle"
Turn(s) == LoopFree /\ (at[s] = "initial" \/ \A r \in Servers : at[r] # "initial")
Resumes(s, phase) == Turn(s) /\ s \notin cancel /\ at[s] = phase

Init ==
    /\ at = [s \in Servers |-> "initial"]
    /\ why = [s \in Servers |-> "none"]
    /\ flush = [s \in Servers |-> 0]
    /\ batches = [s \in Servers |-> 0]
    /\ shutdown = FALSE
    /\ cancel = {}
    /\ stage = [s \in Servers |-> [o \in Owners |-> "idle"]]
    /\ done = [s \in Servers |-> [o \in Owners |-> 0]]
    /\ pool = <<>>
    /\ lock = [s \in Servers |-> Free]
    /\ conn = [s \in Servers |-> "none"]
    /\ tx = [s \in Servers |-> {}]
    /\ tables = [s \in Servers |-> {}]
    /\ struck = {}
    /\ faults = 0

-----------------------------------------------------------------------------
(* Parts of the steps below.                                               *)

Goes(s, phase, reason) ==
    /\ at' = [at EXCEPT ![s] = phase]
    /\ why' = [why EXCEPT ![s] = reason]

(* log_status or log_event begins: the loop wants the lock.                *)
Call(s) ==
    /\ stage' = [stage EXCEPT ![s][Loop] = "waiting"]
    /\ tables' = [tables EXCEPT ![s] = @ \ Rows(Loop)]

Returned(s) == stage' = [stage EXCEPT ![s][Loop] = "idle"]

(* flush hands its batch to a thread and awaits it.                        *)
Submit(s) ==
    /\ batches[s] < MaxBatches[s]
    /\ batches' = [batches EXCEPT ![s] = @ + 1]
    /\ flush' = [flush EXCEPT ![s] = batches'[s]]
    /\ stage' = [stage EXCEPT ![s][batches'[s]] = "queued"]
    /\ pool' = Append(pool, <<s, batches'[s]>>)

(* The awaited flush is cancelled: a batch still in the queue is marked    *)
(* and will be skipped, a thread that has begun runs on.                   *)
AbandonFlush(s) ==
    /\ flush' = [flush EXCEPT ![s] = 0]
    /\ stage' = [stage EXCEPT ![s] = [o \in Owners |->
            IF o = Loop \/ (o = flush[s] /\ @[o] = "queued") THEN "idle" ELSE @[o]]]
    /\ UNCHANGED pool

(* close: no lock is taken, the server undoes what is not committed.       *)
CloseCommits(s) ==
    /\ conn' = [conn EXCEPT ![s] = "none"]
    /\ tx' = [tx EXCEPT ![s] = {}]
    /\ tables' = [tables EXCEPT ![s] = @ \cup tx[s]]
    /\ UNCHANGED lock
Close(s) ==
    /\ conn' = [conn EXCEPT ![s] = "none"]
    /\ tx' = [tx EXCEPT ![s] = {}]
    /\ UNCHANGED <<lock, tables>>

(* The coroutine of one server ends; gather keeps its exception.           *)
AllLeave(s) == at' = [r \in Servers |-> "ended"] /\ UNCHANGED why
Leaves(s) == at' = [at EXCEPT ![s] = "ended"] /\ UNCHANGED why

(* The session is over: the TaskGroup cancels the flush, the subscriptions *)
(* are deleted in the finally.                                             *)
EndsSession(s, reason) ==
    /\ Goes(s, "stopping", reason)
    /\ AbandonFlush(s)
    /\ UNCHANGED batches

-----------------------------------------------------------------------------
(* The coroutine main of one server.                                       *)

Initialize(s) ==
    /\ Resumes(s, "initial")
    /\ Goes(s, "connecting", "none")
    /\ conn' = [conn EXCEPT ![s] = "open"]
    /\ UNCHANGED <<flush, batches, shutdown, cancel, threads, lock, tx, tables, struck, faults>>

(* get_channel_tags finds no readable tag file, or db.initialize fails:    *)
(* both raise outside of every handler of main, whose finally does not run *)
(* (a connection that initialize leaves open is used by nobody).           *)
SetupFails(s) ==
    /\ Resumes(s, "initial") /\ Spend
    /\ Leaves(s)
    /\ struck' = struck \cup {s}
    /\ UNCHANGED <<flush, batches, shutdown, cancel, threads, databases>>

(* The session is open: log_status("active").                              *)
Connected(s) ==
    /\ Resumes(s, "connecting")
    /\ Call(s)
    /\ UNCHANGED <<loopVars, done, pool, lock, conn, tx, struck, faults>>

Refused(s) ==
    /\ Resumes(s, "connecting") /\ Spend
    /\ Goes(s, "closing", "error")
    /\ UNCHANGED <<flush, batches, shutdown, cancel, threads, databases, struck>>

(* One tick of Ingest.run with rows to write; the next one waits for it.   *)
Tick(s) ==
    /\ Resumes(s, "running") /\ flush[s] = 0
    /\ Submit(s)
    /\ UNCHANGED <<at, why, shutdown, cancel, done, databases, struck, faults>>

(* monitor_subscriptions found one silent: log_event on the event loop,    *)
(* whatever the flush is doing.                                            *)
Warn(s) ==
    /\ Resumes(s, "running") /\ Spend
    /\ Call(s)
    /\ UNCHANGED <<loopVars, done, pool, lock, conn, tx, struck>>

SessionEnds(s) ==
    /\ Resumes(s, "running") /\ Spend
    /\ EndsSession(s, "error")
    /\ UNCHANGED <<shutdown, cancel, done, databases, struck>>

(* The last flush of the session, if there is something to write.          *)
FinalFlush(s) ==
    /\ Resumes(s, "stopping")
    /\ \/ Goes(s, "flushing", why[s]) /\ Submit(s)
       \/ Goes(s, "closing", why[s]) /\ UNCHANGED <<flush, batches, stage, pool>>
    /\ UNCHANGED <<shutdown, cancel, done, databases, struck, faults>>

(* The awaited thread is through; a failed batch goes back to _pending.    *)
Resume(s) ==
    /\ Resumes(s, "running") \/ Resumes(s, "flushing")
    /\ flush[s] # 0 /\ stage[s][flush[s]] \in {"ok", "failed"}
    /\ flush' = [flush EXCEPT ![s] = 0]
    /\ at' = [at EXCEPT ![s] = IF @ = "flushing" THEN "closing" ELSE @]
    /\ UNCHANGED <<why, batches, shutdown, cancel, threads, databases, struck, faults>>

(* main's handlers: log_event of the error or log_status of the shutdown.  *)
Handle(s) ==
    /\ Resumes(s, "closing")
    /\ Call(s)
    /\ UNCHANGED <<loopVars, done, pool, lock, conn, tx, struck, faults>>

Retry(s) ==
    /\ Resumes(s, "asleep")
    /\ Goes(s, "connecting", "none")
    /\ UNCHANGED <<flush, batches, shutdown, cancel, threads, databases, struck, faults>>

-----------------------------------------------------------------------------
(* What follows a database call of the loop, without an await in between.  *)

Wrote(s, phase) == at[s] = phase /\ stage[s][Loop] = "ok"
Raised(s, phase) == at[s] = phase /\ stage[s][Loop] = "failed"

Activated(s) ==
    /\ \/ Wrote(s, "connecting") /\ Goes(s, "running", "none")
       \/ Raised(s, "connecting") /\ Goes(s, "closing", "error")
    /\ Returned(s)
    /\ UNCHANGED <<flush, batches, shutdown, cancel, done, pool, databases, struck, faults>>

Warned(s) ==
    /\ Wrote(s, "running")
    /\ Returned(s)
    /\ UNCHANGED <<loopVars, done, pool, databases, struck, faults>>

WarningFailed(s) ==
    /\ Raised(s, "running")
    /\ EndsSession(s, "error")
    /\ UNCHANGED <<shutdown, cancel, done, databases, struck, faults>>

(* log_status("inactive") follows log_event.                               *)
ErrorLogged(s) ==
    /\ Wrote(s, "closing") /\ why[s] = "error"
    /\ Goes(s, "recording", "error")
    /\ Call(s)
    /\ UNCHANGED <<flush, batches, shutdown, cancel, done, pool, lock, conn, tx, struck, faults>>

Recorded(s) ==
    /\ Wrote(s, "recording")
    /\ Goes(s, "asleep", "none")
    /\ Returned(s)
    /\ UNCHANGED <<flush, batches, shutdown, cancel, done, pool, databases, struck, faults>>

(* The shutdown goes on, or a handler's own call raised: the finally of    *)
(* main closes the connection.                                             *)
Ends(s) ==
    /\ \/ Wrote(s, "closing") /\ why[s] = "cancel"
       \/ Raised(s, "closing")
       \/ Raised(s, "recording")
    /\ Leaves(s)
    /\ Returned(s)
    /\ Close(s)
    /\ UNCHANGED <<flush, batches, shutdown, cancel, done, pool, struck, faults>>

-----------------------------------------------------------------------------
(* Shutdown: asyncio.run cancels run_all, gather every main.               *)

Shutdown ==
    /\ ~shutdown /\ Spend
    /\ shutdown' = TRUE
    /\ cancel' = {s \in Servers : at[s] # "ended"}
    /\ UNCHANGED <<at, why, flush, batches, threads, databases, struck>>

Told(s, phases) ==
    /\ Turn(s) /\ s \in cancel /\ at[s] \in phases
    /\ cancel' = cancel \ {s}

(* Nothing to record: main has not begun, or sleeps in its handler.        *)
CancelIdle(s) ==
    /\ Told(s, {"initial", "asleep"})
    /\ Leaves(s)
    /\ Close(s)
    /\ UNCHANGED <<flush, batches, shutdown, threads, struck, faults>>

CancelRunning(s) ==
    /\ Told(s, {"running"})
    /\ EndsSession(s, "cancel")
    /\ UNCHANGED <<shutdown, done, databases, struck, faults>>

(* The rest of the setup or the teardown is skipped, its flush abandoned.  *)
CancelElsewhere(s) ==
    /\ Told(s, {"connecting", "stopping", "flushing", "closing"})
    /\ Goes(s, "closing", "cancel")
    /\ AbandonFlush(s)
    /\ UNCHANGED <<batches, shutdown, done, databases, struck, faults>>

-----------------------------------------------------------------------------
(* transaction(), in a worker thread or on the event loop.                 *)

EvenLocked(s) == TRUE
Unlocked(s) == lock[s] = Free

UpToLast(s, o) == done[s][o] <= Size(o)
Unexecuted(s, o) == done[s][o] < Size(o)

NotReleased(s, o) == IF stage[s][o] = "aborting" THEN lock ELSE [lock EXCEPT ![s] = Free]
Released(s, o) == [lock EXCEPT ![s] = Free]

(* What the caller of a transaction that was undone gets.                  *)
Swallowed == "ok"
Outcome == "failed"

(* A batch that was cancelled in the queue is skipped.                     *)
Begun(place) == "waiting"
Taken(place) == IF place = "queued" THEN "waiting" ELSE place

StartThread(s, b) ==
    /\ pool # <<>> /\ Head(pool) = <<s, b>>
    /\ Cardinality(Threads) < Workers
    /\ pool' = Tail(pool)
    /\ stage' = [stage EXCEPT ![s][b] = Taken(@)]
    /\ UNCHANGED <<loopVars, done, databases, struck, faults>>

(* The lock, then the connection; closed, it raises.                       *)
Acquire(s, o) ==
    /\ stage[s][o] = "waiting" /\ Unlocked(s)
    /\ IF conn[s] = "none"
       THEN /\ stage' = [stage EXCEPT ![s][o] = "failed"]
            /\ UNCHANGED lock
       ELSE /\ stage' = [stage EXCEPT ![s][o] = "inside"]
            /\ lock' = [lock EXCEPT ![s] = o]
    /\ UNCHANGED <<loopVars, done, pool, conn, tx, tables, struck, faults>>

Execute(s, o) ==
    /\ stage[s][o] = "inside" /\ conn[s] = "open" /\ Unexecuted(s, o)
    /\ done' = [done EXCEPT ![s][o] = @ + 1]
    /\ tx' = [tx EXCEPT ![s] = @ \cup {<<o, done'[s][o]>>}]
    /\ UNCHANGED <<loopVars, stage, pool, lock, conn, tables, struck, faults>>

Commit(s, o) ==
    /\ stage[s][o] = "inside" /\ conn[s] = "open" /\ ~Unexecuted(s, o)
    /\ tables' = [tables EXCEPT ![s] = @ \cup tx[s]]
    /\ tx' = [tx EXCEPT ![s] = {}]
    /\ lock' = Released(s, o)
    /\ stage' = [stage EXCEPT ![s][o] = "ok"]
    /\ done' = [done EXCEPT ![s][o] = 0]
    /\ UNCHANGED <<loopVars, pool, conn, struck, faults>>

(* Committed, but the connection breaks before it says so.                 *)
CommitUnheard(s, o) ==
    /\ stage[s][o] = "inside" /\ conn[s] = "open" /\ ~Unexecuted(s, o)
    /\ Spend
    /\ tables' = [tables EXCEPT ![s] = @ \cup tx[s]]
    /\ tx' = [tx EXCEPT ![s] = {}]
    /\ conn' = [conn EXCEPT ![s] = "broken"]
    /\ stage' = [stage EXCEPT ![s][o] = "aborting"]
    /\ struck' = struck \cup {s}
    /\ UNCHANGED <<loopVars, done, pool, lock>>

(* A statement or the commit raises: it is refused, or there is no working *)
(* connection any more.                                                    *)
Fails(s, o) ==
    /\ stage[s][o] = "inside"
    /\ IF conn[s] = "open"
       THEN Spend /\ struck' = struck \cup {s}
       ELSE UNCHANGED <<struck, faults>>
    /\ stage' = [stage EXCEPT ![s][o] = "aborting"]
    /\ UNCHANGED <<loopVars, done, pool, databases>>

(* Also on a dead connection, where rollback raises as well.               *)
Rollback(s, o) ==
    /\ stage[s][o] = "aborting"
    /\ tx' = [tx EXCEPT ![s] = {}]
    /\ lock' = Released(s, o)
    /\ stage' = [stage EXCEPT ![s][o] = Outcome]
    /\ done' = [done EXCEPT ![s][o] = 0]
    /\ UNCHANGED <<loopVars, pool, conn, tables, struck, faults>>

Transaction(s, o) ==
    \/ Acquire(s, o) \/ Execute(s, o) \/ Commit(s, o) \/ CommitUnheard(s, o)
    \/ Fails(s, o) \/ Rollback(s, o)

-----------------------------------------------------------------------------
(* The database's side.                                                    *)
BreakConnection(s) ==
    /\ conn[s] = "open" /\ Spend
    /\ conn' = [conn EXCEPT ![s] = "broken"]
    /\ tx' = [tx EXCEPT ![s] = {}]
    /\ struck' = struck \cup {s}
    /\ UNCHANGED <<loopVars, threads, lock, tables>>

-----------------------------------------------------------------------------
Coroutine(s) ==
    \/ Initialize(s) \/ SetupFails(s)
    \/ Connected(s) \/ Refused(s)
    \/ FinalFlush(s) \/ Resume(s) \/ Handle(s) \/ Retry(s)
    \/ Activated(s) \/ Warned(s) \/ WarningFailed(s) \/ ErrorLogged(s) \/ Recorded(s) \/ Ends(s)
    \/ CancelIdle(s) \/ CancelRunning(s) \/ CancelElsewhere(s)
Environment(s) ==
    \/ Tick(s) \/ Warn(s) \/ SessionEnds(s) \/ BreakConnection(s)

Next ==
    \/ Shutdown
    \/ \E s \in Servers :
        \/ Coroutine(s) \/ Environment(s)
        \/ \E o \in Owners : Transaction(s, o)
        \/ \E b \in Batches : StartThread(s, b)

Spec == Init /\ [][Next]_vars

(* Every callback of the loop is run in its turn, every call to a database *)
(* ends, and the executor's threads take what is queued.  A session need  *)
(* not end, nor a warning be due, nor a batch be there to write.           *)
FairSpec ==
    /\ Spec
    /\ \A s \in Servers :
        /\ WF_vars(Coroutine(s))
        /\ \A o \in Owners : WF_vars(Transaction(s, o))
        /\ \A b \in Batches : WF_vars(StartThread(s, b))

-----------------------------------------------------------------------------
(* Every variable has its type.                                            *)
Phases == {"initial", "connecting", "running", "stopping", "flushing", "closing",
           "recording", "asleep", "ended"}
Stages == {"idle", "queued", "waiting", "inside", "aborting", "ok", "failed"}
Statements == UNION {Rows(o) : o \in Owners}

TypeOK ==
    /\ at \in [Servers -> Phases]
    /\ why \in [Servers -> {"none", "error", "cancel"}]
    /\ batches \in [Servers -> Nat]
    /\ flush \in [Servers -> Owners]
    /\ shutdown \in BOOLEAN
    /\ cancel \subseteq Servers
    /\ stage \in [Servers -> [Owners -> Stages]]
    /\ done \in [Servers -> [Owners -> Nat]]
    /\ pool \in Seq(Servers \X Batches)
    /\ lock \in [Servers -> Owners \cup {Free}]
    /\ conn \in [Servers -> {"none", "open", "broken"}]
    /\ tx \in [Servers -> SUBSET Statements]
    /\ tables \in [Servers -> SUBSET Statements]
    /\ struck \subseteq Servers
    /\ faults \in Nat

(* database.py:75-76: the one connection of a server never holds rows of   *)
(* two callers, nor of one that let go of the lock.                        *)
OwnTransaction ==
    \A s \in Servers : tx[s] # {} => lock[s] # Free /\ tx[s] \subseteq Rows(lock[s])

(* A batch is written to all its tables or to none, whoever fails, breaks  *)
(* or closes the connection meanwhile (db.py insert_many: one transaction; *)
(* main closes without the lock while an abandoned thread writes).         *)
AllOrNothing ==
    \A s \in Servers : \A o \in Owners : Rows(o) \cap tables[s] \in {{}, Rows(o)}

(* What a caller was told is written is written: a flush that does not     *)
(* raise forgets its rows, a log_status that does not lets main go on.     *)
ReportedWritten ==
    \A s \in Servers : \A o \in Owners : stage[s][o] = "ok" => Rows(o) \subseteq tables[s]

(* The lock, the one connection and its transactions are an atomic store   *)
(* to their callers: the event loop and the threads of batches, each for   *)
(* itself.  A batch whose flush was cancelled in the queue, or was told    *)
(* that its write failed, is not written afterwards.                       *)
Pending == {"queued", "waiting", "inside", "aborting"}
OutcomeOf(s, o) ==
    IF stage[s][o] \in Pending THEN "asked"
    ELSE IF stage[s][o] # "idle" THEN stage[s][o]
    ELSE IF o # Loop /\ o <= batches[s] THEN "gone" ELSE "none"
Store == INSTANCE AtomicStore WITH
    Writes <- Servers \X Owners,
    Repeated <- Servers \X {Loop},
    outcome <- [w \in Servers \X Owners |-> OutcomeOf(w[1], w[2])],
    written <- {w \in Servers \X Owners : Rows(w[2]) \subseteq tables[w[1]]}
StoreSpec == Store!Spec

(* README.md:63: a server stops because its own tag file or database has   *)
(* failed or with the process, never for a failure of another server, nor  *)
(* for anything its sessions meet while its database works.                *)
EndsAlone == \A s \in Servers : at[s] = "ended" => shutdown \/ s \in struck

(* README.md:125: "the other servers are unaffected".  A server whose own  *)
(* tag file and database never failed has a session again after every one, *)
(* whoever held the loop, filled the pool or stopped meanwhile; a shutdown *)
(* ends every coroutine and leaves no thread for asyncio.run to wait for.  *)
Down == (\A s \in Servers : at[s] = "ended") /\ Threads = {} /\ pool = <<>>
AllServed == []<>(IF shutdown THEN Down
                  ELSE LoopFree /\ \A s \in Servers : at[s] = "running" \/ s \in struck)

(* README.md:122: "receiving is never blocked by the database".  Here the  *)
(* writer of one server keeps the loop from another's notifications.       *)
ReceivingNeverBlocked ==
    \A s \in Servers : \A r \in Servers \ {s} :
        at[s] = "running" => ~(stage[r][Loop] = "waiting" /\ lock[r] \in Batches)

=============================================================================
