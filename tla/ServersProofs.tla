----------------------------- MODULE ServersProofs -----------------------------
(***************************************************************************)
(* Theorems about Servers: types, transactions that keep to themselves,    *)
(* batches that are whole, calls that tell the truth, servers that do not  *)
(* end for each other, and the atomic store that all of it implements.     *)
(***************************************************************************)
EXTENDS Servers, TLAPS

(* Who may hold a lock.                                                    *)
LEMMA OwnersDiffer ==
    /\ Batches \subseteq Nat \ {0} /\ Owners \subseteq Nat
    /\ Loop \in Owners /\ Loop \notin Batches /\ Free \notin Owners
    /\ \A s \in Servers : \A b \in Nat : b < MaxBatches[s] => b + 1 \in Batches
    /\ \A o \in Owners : Size(o) \in Nat \ {0} /\ Rows(o) \subseteq Statements
    <1>1. \A s \in Servers : MaxBatches[s] \in Nat
        BY ServersAssumption
    <1>2. Batches \subseteq Nat \ {0}
        BY <1>1 DEF Batches
    <1>3. \A s \in Servers : \A b \in Nat : b < MaxBatches[s] => b + 1 \in 1 .. MaxBatches[s]
        BY <1>1
    <1>4. \A s \in Servers : 1 .. MaxBatches[s] \subseteq Batches
        BY DEF Batches
    <1>5. \A o \in Owners : Size(o) \in Nat \ {0} /\ Rows(o) \subseteq Statements
        BY ServersAssumption DEF Size, Statements
    <1>6. QED
        BY <1>2, <1>3, <1>4, <1>5 DEF Owners, Loop, Free

(* A statement that is executed is one of its owner's.                     *)
LEMMA StatementOfOwner ==
    ASSUME NEW o \in Owners, NEW n \in Nat, n < Size(o)
    PROVE  <<o, n + 1>> \in Rows(o) /\ <<o, n + 1>> \in Statements
    <1>1. Size(o) \in Nat /\ Rows(o) \subseteq Statements
        BY OwnersDiffer
    <1>2. n + 1 \in 1 .. Size(o)
        BY <1>1
    <1>3. QED
        BY <1>1, <1>2 DEF Rows

-----------------------------------------------------------------------------
(* Types.                                                                  *)

LEMMA TypeInit == Init => TypeOK
    <1> SUFFICES ASSUME Init PROVE TypeOK
        OBVIOUS
    <1>1. 0 \in Owners
        BY OwnersDiffer DEF Loop
    <1>2. /\ at \in [Servers -> Phases] /\ why \in [Servers -> {"none", "error", "cancel"}]
          /\ batches \in [Servers -> Nat] /\ flush \in [Servers -> Owners]
          /\ shutdown \in BOOLEAN /\ cancel \subseteq Servers
          /\ struck \subseteq Servers /\ faults \in Nat
        BY <1>1 DEF Init, Phases
    <1>3. /\ stage \in [Servers -> [Owners -> Stages]] /\ done \in [Servers -> [Owners -> Nat]]
          /\ pool \in Seq(Servers \X Batches)
        BY DEF Init, Stages
    <1>4. /\ lock \in [Servers -> Owners \cup {Free}]
          /\ conn \in [Servers -> {"none", "open", "broken"}]
          /\ tx \in [Servers -> SUBSET Statements] /\ tables \in [Servers -> SUBSET Statements]
        BY DEF Init
    <1>5. QED
        BY <1>2, <1>3, <1>4 DEF TypeOK

LEMMA TypeCall ==
    ASSUME TypeOK, NEW s \in Servers, Call(s)
    PROVE  stage' \in [Servers -> [Owners -> Stages]] /\ tables' \in [Servers -> SUBSET Statements]
    BY OwnersDiffer DEF TypeOK, Call, Stages

LEMMA TypeSubmit ==
    ASSUME TypeOK, NEW s \in Servers, Submit(s)
    PROVE  /\ stage' \in [Servers -> [Owners -> Stages]]
           /\ batches' \in [Servers -> Nat] /\ flush' \in [Servers -> Owners]
           /\ pool' \in Seq(Servers \X Batches)
    <1>1. batches[s] \in Nat /\ batches'[s] = batches[s] + 1 /\ batches[s] < MaxBatches[s]
        BY DEF TypeOK, Submit
    <1>2. batches'[s] \in Batches /\ batches'[s] \in Owners /\ batches'[s] \in Nat
        BY <1>1, OwnersDiffer DEF Owners
    <1>3. QED
        BY <1>2 DEF TypeOK, Submit, Stages

LEMMA TypeAbandon ==
    ASSUME TypeOK, NEW s \in Servers, AbandonFlush(s)
    PROVE  /\ stage' \in [Servers -> [Owners -> Stages]]
           /\ flush' \in [Servers -> Owners] /\ pool' = pool
    BY OwnersDiffer DEF TypeOK, AbandonFlush, Stages, Loop

LEMMA TypeCoroutine ==
    ASSUME TypeOK, NEW s \in Servers, Coroutine(s)
    PROVE  TypeOK'
    <1> USE DEF TypeOK, Phases
    <1>1. CASE Initialize(s)
        BY <1>1 DEF Initialize, Goes, threads
    <1>2. CASE SetupFails(s)
        BY <1>2 DEF SetupFails, Leaves, Spend, threads, databases
    <1>3. CASE Connected(s)
        BY <1>3, TypeCall DEF Connected, loopVars
    <1>4. CASE Refused(s)
        BY <1>4 DEF Refused, Goes, Spend, threads, databases
    <1>5. CASE FinalFlush(s)
        <2>1. CASE Goes(s, "flushing", why[s]) /\ Submit(s)
            BY <1>5, <2>1, TypeSubmit DEF FinalFlush, Goes, databases
        <2>2. CASE Goes(s, "closing", why[s]) /\ UNCHANGED <<flush, batches, stage, pool>>
            BY <1>5, <2>2 DEF FinalFlush, Goes, databases
        <2>3. QED
            BY <1>5, <2>1, <2>2 DEF FinalFlush
    <1>6. CASE Resume(s)
        BY <1>6, OwnersDiffer DEF Resume, Loop, threads, databases
    <1>7. CASE Handle(s)
        BY <1>7, TypeCall DEF Handle, loopVars
    <1>8. CASE Retry(s)
        BY <1>8 DEF Retry, Goes, threads, databases
    <1>9. CASE Activated(s)
        BY <1>9, OwnersDiffer DEF Activated, Goes, Returned, Stages, databases
    <1>10. CASE Warned(s)
        BY <1>10, OwnersDiffer DEF Warned, Returned, Stages, loopVars, databases
    <1>11. CASE WarningFailed(s)
        BY <1>11, TypeAbandon DEF WarningFailed, EndsSession, Goes, databases
    <1>12. CASE ErrorLogged(s)
        BY <1>12, TypeCall DEF ErrorLogged, Goes
    <1>13. CASE Recorded(s)
        BY <1>13, OwnersDiffer DEF Recorded, Goes, Returned, Stages, databases
    <1>14. CASE Ends(s)
        BY <1>14, OwnersDiffer DEF Ends, Leaves, Returned, Close, Stages
    <1>15. CASE CancelIdle(s)
        BY <1>15 DEF CancelIdle, Told, Leaves, Close, threads
    <1>16. CASE CancelRunning(s)
        BY <1>16, TypeAbandon DEF CancelRunning, Told, EndsSession, Goes, databases
    <1>17. CASE CancelElsewhere(s)
        BY <1>17, TypeAbandon DEF CancelElsewhere, Told, Goes, databases
    <1>18. QED
        BY <1>1, <1>2, <1>3, <1>4, <1>5, <1>6, <1>7, <1>8, <1>9, <1>10, <1>11, <1>12,
           <1>13, <1>14, <1>15, <1>16, <1>17 DEF Coroutine

LEMMA TypeTransaction ==
    ASSUME TypeOK, NEW s \in Servers, NEW o \in Owners, Transaction(s, o)
    PROVE  TypeOK'
    <1> USE DEF TypeOK, Stages
    <1>1. CASE Acquire(s, o)
        <2>1. \E x \in {"failed", "inside"} : stage' = [stage EXCEPT ![s][o] = x]
            BY <1>1, Zenon DEF Acquire
        <2>3. stage' \in [Servers -> [Owners -> Stages]]
            BY <2>1
        <2>2. lock' \in [Servers -> Owners \cup {Free}]
            BY <1>1 DEF Acquire
        <2>4. QED
            BY <1>1, <2>2, <2>3 DEF Acquire, loopVars
    <1>2. CASE Execute(s, o)
        <2>1. done[s][o] \in Nat /\ done'[s][o] = done[s][o] + 1 /\ done[s][o] < Size(o)
            BY <1>2 DEF Execute, Unexecuted
        <2>2. <<o, done'[s][o]>> \in Statements
            BY <2>1, StatementOfOwner
        <2>3. done' \in [Servers -> [Owners -> Nat]]
            BY <1>2 DEF Execute
        <2>4. tx' \in [Servers -> SUBSET Statements]
            BY <1>2, <2>2 DEF Execute
        <2>5. QED
            BY <1>2, <2>3, <2>4 DEF Execute, loopVars
    <1>3. CASE Commit(s, o)
        BY <1>3 DEF Commit, Released, loopVars
    <1>4. CASE CommitUnheard(s, o)
        BY <1>4 DEF CommitUnheard, Spend, loopVars
    <1>5. CASE Fails(s, o)
        BY <1>5 DEF Fails, Spend, loopVars, databases
    <1>6. CASE Rollback(s, o)
        BY <1>6 DEF Rollback, Released, Outcome, loopVars
    <1>7. QED
        BY <1>1, <1>2, <1>3, <1>4, <1>5, <1>6 DEF Transaction

LEMMA TypeRest ==
    ASSUME TypeOK, [Next]_vars,
           ~ \E s \in Servers : Coroutine(s) \/ \E o \in Owners : Transaction(s, o)
    PROVE  TypeOK'
    <1> USE DEF TypeOK
    <1>1. CASE Shutdown
        BY <1>1 DEF Shutdown, Spend, threads, databases
    <1>2. ASSUME NEW s \in Servers, Tick(s) PROVE TypeOK'
        BY <1>2, TypeSubmit DEF Tick, databases
    <1>3. ASSUME NEW s \in Servers, Warn(s) PROVE TypeOK'
        BY <1>3, TypeCall DEF Warn, Spend, loopVars
    <1>4. ASSUME NEW s \in Servers, SessionEnds(s) PROVE TypeOK'
        BY <1>4, TypeAbandon DEF SessionEnds, EndsSession, Goes, Spend, Phases, databases
    <1>5. ASSUME NEW s \in Servers, BreakConnection(s) PROVE TypeOK'
        BY <1>5 DEF BreakConnection, Spend, loopVars, threads
    <1>6. ASSUME NEW s \in Servers, NEW b \in Batches, StartThread(s, b) PROVE TypeOK'
        <2>1. b \in Owners
            BY DEF Owners
        <2>2. pool' \in Seq(Servers \X Batches)
            BY <1>6 DEF StartThread, Taken
        <2>3. stage' \in [Servers -> [Owners -> Stages]]
            BY <1>6, <2>1 DEF StartThread, Taken, Stages
        <2>4. QED
            BY <1>6, <2>2, <2>3 DEF StartThread, Taken, loopVars, databases
    <1>7. CASE UNCHANGED vars
        BY <1>7 DEF vars, loopVars, threads, databases
    <1>8. QED
        BY <1>1, <1>2, <1>3, <1>4, <1>5, <1>6, <1>7 DEF Next, Environment

(* For any number of servers, threads and batches every variable keeps its *)
(* type: no more statements are executed than a transaction has.           *)
THEOREM TypeCorrect == Spec => []TypeOK
    <1>1. TypeOK /\ [Next]_vars => TypeOK'
        BY TypeCoroutine, TypeTransaction, TypeRest
    <1>2. QED
        BY TypeInit, <1>1, PTL DEF Spec

-----------------------------------------------------------------------------
(* The inductive invariant of the transactions, part by part.              *)

Within == {"inside", "aborting"}
Holder(s) == \A o \in Owners : stage[s][o] \in Within <=> lock[s] = o
Own(s) ==
    /\ lock[s] = Free => tx[s] = {}
    /\ \A o \in Owners : lock[s] = o => tx[s] \subseteq Rows(o)
Progress(s) ==
    \A o \in Owners : stage[s][o] = "inside" /\ conn[s] = "open" => tx[s] = {o} \X (1 .. done[s][o])
Bounded(s) == \A o \in Owners : done[s][o] <= Size(o) /\ (stage[s][o] \notin Within => done[s][o] = 0)
Whole(s) == \A o \in Owners : Rows(o) \cap tables[s] \in {{}, Rows(o)}
Truthful(s) == \A o \in Owners : stage[s][o] = "ok" => Rows(o) \subseteq tables[s]
Numbered(s) == \A b \in Batches : b > batches[s] => stage[s][b] = "idle"
Fresh(s) == at[s] = "initial" => \A o \in Owners : stage[s][o] = "idle"
Safe(s) ==
    /\ Holder(s) /\ Own(s) /\ Progress(s) /\ Bounded(s)
    /\ Whole(s) /\ Truthful(s) /\ Numbered(s) /\ Fresh(s)
Inv == TypeOK /\ \A s \in Servers : Safe(s)

LEMMA SafeInit == Init => \A s \in Servers : Safe(s)
    <1> SUFFICES ASSUME Init, NEW s \in Servers PROVE Safe(s)
        OBVIOUS
    <1>1. Batches \subseteq Owners /\ \A o \in Owners : Size(o) \in Nat /\ o # Free
        BY OwnersDiffer DEF Owners
    <1>2. /\ lock[s] = Free /\ tx[s] = {} /\ tables[s] = {} /\ at[s] = "initial"
          /\ \A o \in Owners : stage[s][o] = "idle" /\ done[s][o] = 0
        BY DEF Init
    <1>3. Holder(s) /\ Own(s) /\ Progress(s)
        BY <1>1, <1>2 DEF Holder, Within, Own, Progress
    <1>4. Bounded(s) /\ Numbered(s) /\ Fresh(s)
        BY <1>1, <1>2 DEF Bounded, Numbered, Fresh
    <1>5. Whole(s) /\ Truthful(s)
        BY <1>2 DEF Whole, Truthful
    <1>6. QED
        BY <1>3, <1>4, <1>5 DEF Safe

(* What a step outside of transactions may change for a server: no lock,   *)
(* and of what is in the database only the loop's latest rows, when it     *)
(* begins to write new ones.                                               *)
Unheld(s) == \A o \in Owners : stage[s][o] \notin Within
QuietStages(s) ==
    \A o \in Owners : \/ stage'[s][o] = stage[s][o]
                      \/ stage[s][o] \notin Within /\ stage'[s][o] \in {"idle", "queued", "waiting"}
QuietConnection(s) ==
    \/ tx'[s] = tx[s] /\ (conn'[s] = conn[s] \/ Unheld(s))
    \/ tx'[s] = {} /\ conn'[s] # "open"
QuietTables(s) ==
    \/ tables'[s] = tables[s]
    \/ tables'[s] = tables[s] \ Rows(Loop) /\ stage'[s][Loop] # "ok"
QuietNumbers(s) ==
    \A b \in Batches : b > batches'[s] /\ stage[s][b] = "idle" /\ b > batches[s]
                       => stage'[s][b] = "idle"
QuietStart(s) ==
    at'[s] = "initial" => at[s] = "initial" /\ \A o \in Owners : stage'[s][o] = stage[s][o]
Quiet(s) ==
    /\ done'[s] = done[s] /\ lock'[s] = lock[s] /\ batches'[s] >= batches[s]
    /\ QuietStages(s) /\ QuietConnection(s) /\ QuietTables(s)
    /\ QuietNumbers(s) /\ QuietStart(s)

LEMMA QuietKeeps ==
    ASSUME TypeOK, NEW s \in Servers, Safe(s), Quiet(s), batches'[s] \in Nat
    PROVE  Safe(s)'
    <1>1. /\ done'[s] = done[s] /\ lock'[s] = lock[s]
          /\ batches'[s] >= batches[s] /\ batches[s] \in Nat
        BY DEF Quiet, TypeOK
    <1>2. \A o \in Owners : stage'[s][o] \in Within <=> stage[s][o] \in Within
        BY DEF Quiet, QuietStages, Within
    <1>3. Holder(s)'
        BY <1>1, <1>2 DEF Safe, Holder, Within
    <1>4. Own(s)'
        <2>1. tx'[s] = tx[s] \/ tx'[s] = {}
            BY DEF Quiet, QuietConnection
        <2>2. QED
            BY <1>1, <2>1 DEF Safe, Own
    <1>5. Progress(s)'
        <2> SUFFICES ASSUME NEW o \in Owners, stage'[s][o] = "inside", conn'[s] = "open"
                     PROVE  tx'[s] = {o} \X (1 .. done[s][o])
            BY <1>1 DEF Progress
        <2>1. stage[s][o] = "inside"
            BY DEF Quiet, QuietStages
        <2>2. tx'[s] = tx[s] /\ conn[s] = "open"
            BY <2>1 DEF Quiet, QuietConnection, Unheld, Within
        <2>3. QED
            BY <2>1, <2>2 DEF Safe, Progress
    <1>6. Bounded(s)'
        BY <1>1, <1>2 DEF Safe, Bounded
    <1>7. Whole(s)' /\ Truthful(s)'
        <2>1. \A o \in Owners : stage'[s][o] = "ok" => stage[s][o] = "ok"
            BY DEF Quiet, QuietStages
        <2>2. CASE tables'[s] = tables[s]
            BY <2>1, <2>2 DEF Safe, Whole, Truthful
        <2>3. CASE tables'[s] = tables[s] \ Rows(Loop) /\ stage'[s][Loop] # "ok"
            <3>1. \A o \in Owners : o # Loop => Rows(o) \cap Rows(Loop) = {}
                BY DEF Rows
            <3>2. \A o \in Owners : o # Loop => Rows(o) \cap tables'[s] = Rows(o) \cap tables[s]
                BY <2>3, <3>1
            <3>3. Rows(Loop) \cap tables'[s] = {}
                BY <2>3
            <3>4. Whole(s)'
                BY <3>2, <3>3 DEF Safe, Whole
            <3>5. Truthful(s)'
                BY <2>1, <2>3, <3>2 DEF Safe, Truthful
            <3>6. QED
                BY <3>4, <3>5
        <2>4. QED
            BY <2>2, <2>3 DEF Quiet, QuietTables
    <1>8. Numbered(s)'
        <2> SUFFICES ASSUME NEW b \in Batches, b > batches'[s] PROVE stage'[s][b] = "idle"
            BY DEF Numbered
        <2>1. b > batches[s]
            BY <1>1, OwnersDiffer
        <2>2. QED
            BY <2>1 DEF Safe, Numbered, Quiet, QuietNumbers
    <1>9. Fresh(s)'
        BY DEF Safe, Fresh, Quiet, QuietStart
    <1>10. QED
        BY <1>3, <1>4, <1>5, <1>6, <1>7, <1>8, <1>9 DEF Safe

(* The rest of the servers are left alone.                                 *)
Alone(s) ==
    \A r \in Servers \ {s} :
        /\ at'[r] = at[r] /\ batches'[r] = batches[r]
        /\ stage'[r] = stage[r] /\ done'[r] = done[r] /\ lock'[r] = lock[r]
        /\ conn'[r] = conn[r] /\ tx'[r] = tx[r] /\ tables'[r] = tables[r]

LEMMA UntouchedQuiet ==
    ASSUME NEW s \in Servers, at'[s] = at[s], batches'[s] = batches[s], batches[s] \in Nat,
           stage'[s] = stage[s], done'[s] = done[s], lock'[s] = lock[s], conn'[s] = conn[s],
           tx'[s] = tx[s], tables'[s] = tables[s]
    PROVE  Quiet(s)
    BY DEF Quiet, QuietStages, QuietConnection, QuietTables, QuietNumbers, QuietStart

LEMMA OthersQuiet ==
    ASSUME TypeOK, NEW s \in Servers, Alone(s), Quiet(s)
    PROVE  \A r \in Servers : Quiet(r)
    <1> SUFFICES ASSUME NEW r \in Servers \ {s} PROVE Quiet(r)
        OBVIOUS
    <1>1. batches[r] \in Nat
        BY DEF TypeOK
    <1>2. QED
        BY <1>1, UntouchedQuiet DEF Alone

(* A step that leaves the transactions alone but for the connection.       *)
LEMMA StagesUnchanged ==
    ASSUME TypeOK, NEW s \in Servers, stage'[s] = stage[s], batches' = batches, done' = done,
           lock' = lock, tables' = tables, at'[s] = at[s] \/ at'[s] # "initial", QuietConnection(s)
    PROVE  Quiet(s)
    BY DEF TypeOK, Quiet, QuietStages, QuietTables, QuietNumbers, QuietStart

(* The loop begins a call, or is done with one.                            *)
LEMMA CallQuiet ==
    ASSUME TypeOK, NEW s \in Servers, Call(s), stage[s][Loop] \notin Within, at'[s] # "initial",
           UNCHANGED <<batches, done, lock, conn, tx>>
    PROVE  Quiet(s)
    <1>1. \A o \in Owners : stage'[s][o] = IF o = Loop THEN "waiting" ELSE stage[s][o]
        BY DEF Call, TypeOK
    <1>2. QuietStages(s) /\ QuietTables(s)
        BY <1>1, OwnersDiffer DEF Call, TypeOK, QuietStages, QuietTables
    <1>3. QuietConnection(s) /\ QuietNumbers(s) /\ QuietStart(s)
        BY <1>1, OwnersDiffer DEF QuietConnection, QuietNumbers, QuietStart, Owners
    <1>4. QED
        BY <1>2, <1>3 DEF Quiet, TypeOK

LEMMA ReturnedQuiet ==
    ASSUME TypeOK, NEW s \in Servers, Returned(s), stage[s][Loop] \notin Within, at'[s] # "initial",
           QuietConnection(s), UNCHANGED <<batches, done, lock, tables>>
    PROVE  Quiet(s)
    <1>1. \A o \in Owners : stage'[s][o] = IF o = Loop THEN "idle" ELSE stage[s][o]
        BY DEF Returned, TypeOK
    <1>2. QuietStages(s) /\ QuietTables(s)
        BY <1>1 DEF QuietStages, QuietTables
    <1>3. QuietNumbers(s) /\ QuietStart(s)
        BY <1>1, OwnersDiffer DEF QuietNumbers, QuietStart, Owners
    <1>4. QED
        BY <1>2, <1>3 DEF Quiet, TypeOK

LEMMA AbandonQuiet ==
    ASSUME TypeOK, NEW s \in Servers, AbandonFlush(s), stage[s][Loop] \notin Within,
           at'[s] # "initial", UNCHANGED <<batches, done, databases>>
    PROVE  Quiet(s)
    <1>1. \A o \in Owners :
            stage'[s][o] = IF o = Loop \/ (o = flush[s] /\ stage[s][o] = "queued")
                           THEN "idle" ELSE stage[s][o]
        BY DEF AbandonFlush, TypeOK
    <1>2. QuietStages(s)
        BY <1>1 DEF QuietStages, Within
    <1>3. QuietTables(s) /\ QuietConnection(s)
        BY DEF databases, QuietTables, QuietConnection
    <1>4. QuietNumbers(s) /\ QuietStart(s)
        BY <1>1, OwnersDiffer DEF QuietNumbers, QuietStart, Owners
    <1>5. QED
        BY <1>2, <1>3, <1>4 DEF Quiet, databases, TypeOK

LEMMA SubmitQuiet ==
    ASSUME TypeOK, NEW s \in Servers, Safe(s), Submit(s), at'[s] # "initial",
           UNCHANGED <<done, databases>>
    PROVE  Quiet(s)
    <1>1. /\ batches[s] \in Nat /\ batches'[s] = batches[s] + 1
          /\ batches'[s] \in Batches
        BY OwnersDiffer DEF Submit, TypeOK
    <1>2. stage[s][batches'[s]] = "idle"
        BY <1>1 DEF Safe, Numbered
    <1>3. \A o \in Owners : stage'[s][o] = IF o = batches'[s] THEN "queued" ELSE stage[s][o]
        BY DEF Submit, TypeOK
    <1>4. QuietStages(s) /\ QuietConnection(s) /\ QuietTables(s)
        BY <1>2, <1>3 DEF QuietStages, QuietConnection, QuietTables, databases, Within
    <1>5. QuietNumbers(s) /\ QuietStart(s)
        BY <1>1, <1>3, OwnersDiffer DEF QuietNumbers, QuietStart, Owners
    <1>6. QED
        BY <1>1, <1>4, <1>5 DEF Quiet, databases

(* Nothing that holds the loop is in a transaction while a coroutine moves. *)
LEMMA LoopIdle ==
    ASSUME NEW s \in Servers, LoopFree
    PROVE  stage[s][Loop] \notin Within
    BY DEF LoopFree, Within

LEMMA CoroutineQuiet ==
    ASSUME Inv, NEW s \in Servers, Coroutine(s)
    PROVE  \A r \in Servers : Quiet(r)
    <1> SUFFICES Alone(s) /\ Quiet(s)
        BY OthersQuiet DEF Inv
    <1> USE DEF Inv
    <1>1. CASE Initialize(s)
        <2>1. Alone(s)
            BY <1>1 DEF Alone, TypeOK, Initialize, Goes, threads
        <2>2. Unheld(s)
            BY <1>1 DEF Safe, Fresh, Unheld, Within, Initialize, Resumes
        <2>3. Quiet(s)
            BY <1>1, <2>2, StagesUnchanged DEF TypeOK, QuietConnection, Initialize, Goes, threads
        <2>4. QED
            BY <2>1, <2>3
    <1>2. CASE SetupFails(s)
        <2>1. Alone(s)
            BY <1>2 DEF Alone, TypeOK, SetupFails, Leaves, threads, databases
        <2>2. Quiet(s)
            BY <1>2, StagesUnchanged DEF TypeOK, QuietConnection, SetupFails, Leaves, threads, databases
        <2>3. QED
            BY <2>1, <2>2
    <1>3. CASE Connected(s)
        <2>1. Alone(s)
            BY <1>3 DEF Alone, TypeOK, Connected, Call, loopVars
        <2>2. stage[s][Loop] \notin Within /\ at'[s] # "initial"
            BY <1>3, LoopIdle DEF TypeOK, Within, Resumes, Turn, Connected, Call, loopVars
        <2>3. Quiet(s)
            BY <1>3, <2>2, CallQuiet DEF Connected, Call, loopVars
        <2>4. QED
            BY <2>1, <2>3
    <1>4. CASE Refused(s)
        <2>1. Alone(s)
            BY <1>4 DEF Alone, TypeOK, Refused, Goes, threads, databases
        <2>2. Quiet(s)
            BY <1>4, StagesUnchanged DEF TypeOK, QuietConnection, Refused, Goes, threads, databases
        <2>3. QED
            BY <2>1, <2>2
    <1>5. CASE FinalFlush(s)
        <2>1. Alone(s)
            BY <1>5 DEF Alone, TypeOK, FinalFlush, Goes, Submit, databases
        <2>2. at'[s] # "initial"
            BY <1>5 DEF TypeOK, FinalFlush, Goes
        <2>3. CASE Submit(s)
            <3>1. Quiet(s)
                BY <1>5, <2>2, <2>3, SubmitQuiet DEF FinalFlush
            <3>2. QED
                BY <2>1, <3>1
        <2>4. CASE UNCHANGED <<batches, stage>>
            <3>1. Quiet(s)
                BY <1>5, <2>2, <2>4, StagesUnchanged DEF QuietConnection, FinalFlush, databases
            <3>2. QED
                BY <2>1, <3>1
        <2>5. QED
            BY <1>5, <2>3, <2>4 DEF FinalFlush
    <1>6. CASE Resume(s)
        <2>1. Alone(s)
            BY <1>6 DEF Alone, TypeOK, Resume, threads, databases
        <2>2. Quiet(s)
            BY <1>6, StagesUnchanged DEF TypeOK, QuietConnection, Resumes, Resume, threads, databases
        <2>3. QED
            BY <2>1, <2>2
    <1>7. CASE Handle(s)
        <2>1. Alone(s)
            BY <1>7 DEF Alone, TypeOK, Handle, Call, loopVars
        <2>2. stage[s][Loop] \notin Within /\ at'[s] # "initial"
            BY <1>7, LoopIdle DEF TypeOK, Within, Resumes, Turn, Handle, Call, loopVars
        <2>3. Quiet(s)
            BY <1>7, <2>2, CallQuiet DEF Handle, Call, loopVars
        <2>4. QED
            BY <2>1, <2>3
    <1>8. CASE Retry(s)
        <2>1. Alone(s)
            BY <1>8 DEF Alone, TypeOK, Retry, Goes, threads, databases
        <2>2. Quiet(s)
            BY <1>8, StagesUnchanged DEF TypeOK, QuietConnection, Retry, Goes, threads, databases
        <2>3. QED
            BY <2>1, <2>2
    <1>9. CASE Activated(s)
        <2>1. Alone(s)
            BY <1>9 DEF Alone, TypeOK, Activated, Goes, Returned, databases
        <2>2. stage[s][Loop] \notin Within /\ at'[s] # "initial"
            BY <1>9 DEF TypeOK, Within, Wrote, Raised, Activated, Goes, Returned, databases
        <2>3. Quiet(s)
            BY <1>9, <2>2, ReturnedQuiet DEF TypeOK, QuietConnection, Activated, Goes, Returned, databases
        <2>4. QED
            BY <2>1, <2>3
    <1>10. CASE Warned(s)
        <2>1. Alone(s)
            BY <1>10 DEF Alone, TypeOK, Warned, Returned, loopVars, databases
        <2>2. stage[s][Loop] \notin Within /\ at'[s] # "initial"
            BY <1>10 DEF TypeOK, Within, Wrote, Warned, Returned, loopVars, databases
        <2>3. Quiet(s)
            BY <1>10, <2>2, ReturnedQuiet DEF TypeOK, QuietConnection, Warned, Returned, loopVars, databases
        <2>4. QED
            BY <2>1, <2>3
    <1>11. CASE WarningFailed(s)
        <2>1. Alone(s)
            BY <1>11 DEF Alone, TypeOK, WarningFailed, EndsSession, AbandonFlush, Goes, databases
        <2>2. stage[s][Loop] \notin Within /\ at'[s] # "initial"
            BY <1>11, LoopIdle DEF TypeOK, Within, Raised, WarningFailed, EndsSession, AbandonFlush, Goes, databases
        <2>3. Quiet(s)
            BY <1>11, <2>2, AbandonQuiet DEF WarningFailed, EndsSession, AbandonFlush, Goes, databases
        <2>4. QED
            BY <2>1, <2>3
    <1>12. CASE ErrorLogged(s)
        <2>1. Alone(s)
            BY <1>12 DEF Alone, TypeOK, ErrorLogged, Goes, Call
        <2>2. stage[s][Loop] \notin Within /\ at'[s] # "initial"
            BY <1>12, LoopIdle DEF TypeOK, Within, Wrote, ErrorLogged, Goes, Call
        <2>3. Quiet(s)
            BY <1>12, <2>2, CallQuiet DEF ErrorLogged, Goes, Call
        <2>4. QED
            BY <2>1, <2>3
    <1>13. CASE Recorded(s)
        <2>1. Alone(s)
            BY <1>13 DEF Alone, TypeOK, Recorded, Goes, Returned, databases
        <2>2. stage[s][Loop] \notin Within /\ at'[s] # "initial"
            BY <1>13 DEF TypeOK, Within, Wrote, Recorded, Goes, Returned, databases
        <2>3. Quiet(s)
            BY <1>13, <2>2, ReturnedQuiet DEF TypeOK, QuietConnection, Recorded, Goes, Returned, databases
        <2>4. QED
            BY <2>1, <2>3
    <1>14. CASE Ends(s)
        <2>1. Alone(s)
            BY <1>14 DEF Alone, TypeOK, Ends, Leaves, Returned, Close
        <2>2. stage[s][Loop] \notin Within /\ at'[s] # "initial"
            BY <1>14 DEF TypeOK, Within, Wrote, Raised, Ends, Leaves, Returned, Close
        <2>3. Quiet(s)
            BY <1>14, <2>2, ReturnedQuiet DEF TypeOK, QuietConnection, Ends, Leaves, Returned, Close
        <2>4. QED
            BY <2>1, <2>3
    <1>15. CASE CancelIdle(s)
        <2>1. Alone(s)
            BY <1>15 DEF Alone, TypeOK, CancelIdle, Told, Leaves, Close, threads
        <2>2. Quiet(s)
            BY <1>15, StagesUnchanged DEF TypeOK, QuietConnection, CancelIdle, Told, Leaves, Close, threads
        <2>3. QED
            BY <2>1, <2>2
    <1>16. CASE CancelRunning(s)
        <2>1. Alone(s)
            BY <1>16 DEF Alone, TypeOK, CancelRunning, Told, EndsSession, AbandonFlush, Goes, databases
        <2>2. stage[s][Loop] \notin Within /\ at'[s] # "initial"
            BY <1>16, LoopIdle DEF TypeOK, Within, Turn, CancelRunning, Told, EndsSession, AbandonFlush, Goes, databases
        <2>3. Quiet(s)
            BY <1>16, <2>2, AbandonQuiet DEF CancelRunning, Told, EndsSession, AbandonFlush, Goes, databases
        <2>4. QED
            BY <2>1, <2>3
    <1>17. CASE CancelElsewhere(s)
        <2>1. Alone(s)
            BY <1>17 DEF Alone, TypeOK, CancelElsewhere, Told, AbandonFlush, Goes, databases
        <2>2. stage[s][Loop] \notin Within /\ at'[s] # "initial"
            BY <1>17, LoopIdle DEF TypeOK, Within, Turn, CancelElsewhere, Told, AbandonFlush, Goes, databases
        <2>3. Quiet(s)
            BY <1>17, <2>2, AbandonQuiet DEF CancelElsewhere, Told, AbandonFlush, Goes, databases
        <2>4. QED
            BY <2>1, <2>3
    <1>18. QED
        BY <1>1, <1>2, <1>3, <1>4, <1>5, <1>6, <1>7, <1>8, <1>9, <1>10,
           <1>11, <1>12, <1>13, <1>14, <1>15, <1>16, <1>17 DEF Coroutine

LEMMA EnvironmentQuiet ==
    ASSUME Inv, NEW s \in Servers, Environment(s)
    PROVE  \A r \in Servers : Quiet(r)
    <1> SUFFICES Alone(s) /\ Quiet(s)
        BY OthersQuiet DEF Inv
    <1> USE DEF Inv
    <1>1. CASE Tick(s)
        <2>1. Alone(s)
            BY <1>1 DEF Alone, TypeOK, Tick, Submit, databases
        <2>2. Quiet(s)
            BY <1>1, SubmitQuiet DEF Tick, Resumes
        <2>3. QED
            BY <2>1, <2>2
    <1>2. CASE Warn(s)
        <2>1. Alone(s)
            BY <1>2 DEF Alone, TypeOK, Warn, Call, loopVars
        <2>2. stage[s][Loop] \notin Within /\ at'[s] # "initial"
            BY <1>2, LoopIdle DEF Warn, Resumes, Turn, loopVars
        <2>3. Quiet(s)
            BY <1>2, <2>2, CallQuiet DEF Warn, loopVars
        <2>4. QED
            BY <2>1, <2>3
    <1>3. CASE SessionEnds(s)
        <2>1. Alone(s)
            BY <1>3 DEF Alone, TypeOK, SessionEnds, EndsSession, AbandonFlush, Goes, databases
        <2>2. stage[s][Loop] \notin Within /\ at'[s] # "initial"
            BY <1>3, LoopIdle DEF TypeOK, SessionEnds, EndsSession, Goes, Resumes, Turn
        <2>3. Quiet(s)
            BY <1>3, <2>2, AbandonQuiet DEF SessionEnds, EndsSession
        <2>4. QED
            BY <2>1, <2>3
    <1>4. CASE BreakConnection(s)
        <2>1. Alone(s)
            BY <1>4 DEF Alone, TypeOK, BreakConnection, loopVars, threads
        <2>2. Quiet(s)
            BY <1>4, StagesUnchanged
               DEF TypeOK, QuietConnection, BreakConnection, loopVars, threads
        <2>3. QED
            BY <2>1, <2>2
    <1>5. QED
        BY <1>1, <1>2, <1>3, <1>4 DEF Environment

LEMMA StartQuiet ==
    ASSUME Inv, NEW s \in Servers, NEW b \in Batches, StartThread(s, b)
    PROVE  \A r \in Servers : Quiet(r)
    <1> USE DEF Inv
    <1>1. Alone(s)
        BY DEF Alone, TypeOK, StartThread, loopVars, databases
    <1>2. b \in Owners
        BY DEF Owners
    <1>3. \A o \in Owners : stage'[s][o] = IF o = b /\ stage[s][b] = "queued" THEN "waiting"
                                           ELSE stage[s][o]
        BY <1>2 DEF StartThread, Taken, TypeOK
    <1>4. QuietStages(s) /\ QuietTables(s) /\ QuietConnection(s)
        BY <1>3 DEF QuietStages, QuietTables, QuietConnection, Within, StartThread, databases
    <1>5. QuietNumbers(s)
        BY <1>3, OwnersDiffer DEF QuietNumbers, Owners
    <1>6. QuietStart(s)
        BY <1>2, <1>3 DEF QuietStart, StartThread, loopVars, Safe, Fresh
    <1>7. Quiet(s)
        BY <1>4, <1>5, <1>6 DEF Quiet, StartThread, loopVars, databases, TypeOK
    <1>8. QED
        BY <1>1, <1>7, OthersQuiet

LEMMA IdleQuiet ==
    ASSUME Inv, Shutdown \/ UNCHANGED vars
    PROVE  \A r \in Servers : Quiet(r)
    <1> SUFFICES ASSUME NEW r \in Servers PROVE Quiet(r)
        OBVIOUS
    <1>1. UNCHANGED <<at, batches, threads, databases>>
        BY DEF Shutdown, vars, loopVars
    <1>2. QED
        BY <1>1, UntouchedQuiet DEF Inv, TypeOK, threads, databases

-----------------------------------------------------------------------------
(* The steps of a transaction.                                             *)

(* Only its own server's transaction moves, and none is skipped.           *)
LEMMA TransactionAlone ==
    ASSUME Inv, NEW s \in Servers, NEW o \in Owners, Transaction(s, o)
    PROVE  /\ \A r \in Servers \ {s} : Quiet(r)
           /\ at' = at /\ batches' = batches
           /\ \A p \in Owners \ {o} : stage'[s][p] = stage[s][p] /\ done'[s][p] = done[s][p]
    <1>1. at' = at /\ batches' = batches
        BY DEF Transaction, Acquire, Execute, Commit, CommitUnheard, Fails, Rollback, loopVars
    <1>2. \A r \in Servers \ {s} : stage'[r] = stage[r] /\ done'[r] = done[r]
        BY DEF Inv, TypeOK, Transaction, Acquire, Execute, Commit, CommitUnheard, Fails, Rollback
    <1>3. \A r \in Servers \ {s} : /\ lock'[r] = lock[r] /\ conn'[r] = conn[r]
                                   /\ tx'[r] = tx[r] /\ tables'[r] = tables[r]
        BY DEF Inv, TypeOK, Transaction, Acquire, Execute, Commit, CommitUnheard, Fails, Rollback,
               Released, databases
    <1>4. \A p \in Owners \ {o} : stage'[s][p] = stage[s][p] /\ done'[s][p] = done[s][p]
        BY DEF Inv, TypeOK, Transaction, Acquire, Execute, Commit, CommitUnheard, Fails, Rollback
    <1>5. \A r \in Servers \ {s} : batches[r] \in Nat
        BY DEF Inv, TypeOK
    <1>6. QED
        BY <1>1, <1>2, <1>3, <1>4, <1>5, UntouchedQuiet

LEMMA TransactionNumbers ==
    ASSUME Inv, NEW s \in Servers, NEW o \in Owners, Transaction(s, o)
    PROVE  Numbered(s)' /\ Fresh(s)'
    <1>1. stage[s][o] # "idle"
        BY DEF Transaction, Acquire, Execute, Commit, CommitUnheard, Fails, Rollback
    <1>2. Numbered(s)'
        BY <1>1, TransactionAlone, OwnersDiffer DEF Inv, Safe, Numbered, Owners
    <1>3. Fresh(s)'
        BY <1>1, TransactionAlone DEF Inv, Safe, Fresh
    <1>4. QED
        BY <1>2, <1>3

(* A transaction with all its statements has all its rows.                 *)
LEMMA FullTransaction ==
    ASSUME Inv, NEW s \in Servers, NEW o \in Owners,
           stage[s][o] = "inside", conn[s] = "open", ~Unexecuted(s, o)
    PROVE  tx[s] = Rows(o)
    <1>1. done[s][o] <= Size(o) /\ tx[s] = {o} \X (1 .. done[s][o])
        BY DEF Inv, Safe, Bounded, Progress
    <1>2. done[s][o] \in Nat /\ Size(o) \in Nat
        BY OwnersDiffer DEF Inv, TypeOK
    <1>3. done[s][o] = Size(o)
        BY <1>1, <1>2 DEF Unexecuted
    <1>4. QED
        BY <1>1, <1>3 DEF Rows

(* Rows that become visible are all of one owner's.                        *)
LEMMA WholeBatch ==
    ASSUME NEW s \in Servers, NEW o \in Owners, Whole(s), tables'[s] = tables[s] \cup Rows(o)
    PROVE  Whole(s)' /\ Rows(o) \subseteq tables'[s] /\ tables[s] \subseteq tables'[s]
    <1>1. \A p \in Owners : p # o => Rows(p) \cap tables'[s] = Rows(p) \cap tables[s]
        BY DEF Rows
    <1>2. Rows(o) \cap tables'[s] = Rows(o)
        OBVIOUS
    <1>3. QED
        BY <1>1, <1>2 DEF Whole

LEMMA AcquireSafe ==
    ASSUME Inv, NEW s \in Servers, NEW o \in Owners, Acquire(s, o)
    PROVE  Safe(s)'
    <1> USE DEF Inv
    <1>1. Safe(s) /\ done' = done /\ tx' = tx /\ conn' = conn /\ tables' = tables
        BY DEF Acquire
    <1>2. /\ Numbered(s)' /\ Fresh(s)'
          /\ \A p \in Owners \ {o} : stage'[s][p] = stage[s][p]
        BY TransactionNumbers, TransactionAlone DEF Transaction
    <1>3. lock[s] = Free /\ stage[s][o] = "waiting" /\ tx[s] = {} /\ done[s][o] = 0
        BY <1>1 DEF Acquire, Unlocked, Safe, Own, Bounded, Within
    <1>4. \A p \in Owners : stage[s][p] \notin Within
        BY <1>1, <1>3, OwnersDiffer DEF Safe, Holder
    <1>5. CASE stage'[s][o] = "failed" /\ lock' = lock
        <2>1. Holder(s)' /\ Own(s)' /\ Progress(s)'
            BY <1>1, <1>2, <1>3, <1>4, <1>5, OwnersDiffer DEF Holder, Own, Progress, Within
        <2>2. Bounded(s)' /\ Whole(s)' /\ Truthful(s)'
            BY <1>1, <1>2, <1>3, <1>4, <1>5 DEF Safe, Bounded, Whole, Truthful
        <2>3. QED
            BY <1>2, <2>1, <2>2 DEF Safe
    <1>6. CASE stage'[s][o] = "inside" /\ lock'[s] = o
        <2>1. Holder(s)'
            BY <1>2, <1>4, <1>6 DEF Holder, Within
        <2>2. Own(s)'
            BY <1>1, <1>3, <1>6 DEF Own
        <2>3. Progress(s)'
            BY <1>1, <1>2, <1>3, <1>4, <1>6 DEF Progress, Within
        <2>4. Bounded(s)'
            BY <1>1, <1>2, <1>6 DEF Safe, Bounded, Within
        <2>5. Whole(s)' /\ Truthful(s)'
            BY <1>1, <1>2, <1>6 DEF Safe, Whole, Truthful
        <2>6. QED
            BY <1>2, <2>1, <2>2, <2>3, <2>4, <2>5 DEF Safe
    <1>7. CASE conn[s] = "none"
        BY <1>5, <1>7 DEF Acquire, TypeOK
    <1>8. CASE conn[s] # "none"
        BY <1>6, <1>8 DEF Acquire, TypeOK
    <1>9. QED
        BY <1>7, <1>8

LEMMA ExecuteSafe ==
    ASSUME Inv, NEW s \in Servers, NEW o \in Owners, Execute(s, o)
    PROVE  Safe(s)'
    <1> USE DEF Inv
    <1>1. Safe(s) /\ stage' = stage /\ lock' = lock /\ conn' = conn /\ tables' = tables
        BY DEF Execute
    <1>2. /\ Numbered(s)' /\ Fresh(s)'
          /\ \A p \in Owners \ {o} : done'[s][p] = done[s][p]
        BY TransactionNumbers, TransactionAlone DEF Transaction
    <1>3. /\ stage[s][o] = "inside" /\ conn[s] = "open"
          /\ done[s][o] \in Nat /\ done'[s][o] = done[s][o] + 1 /\ done[s][o] < Size(o)
          /\ tx'[s] = tx[s] \cup {<<o, done[s][o] + 1>>}
        BY DEF Execute, Unexecuted, TypeOK
    <1>4. \A p \in Owners : stage[s][p] \in Within => p = o
        BY <1>1, <1>3 DEF Safe, Holder, Within
    <1>5. Own(s)'
        <2>1. lock[s] = o /\ o # Free
            BY <1>1, <1>3, OwnersDiffer DEF Safe, Holder, Within
        <2>2. tx'[s] \subseteq Rows(o)
            BY <1>1, <1>3, <2>1, StatementOfOwner DEF Safe, Own
        <2>3. QED
            BY <1>1, <2>1, <2>2 DEF Own
    <1>6. Progress(s)'
        <2>1. tx[s] = {o} \X (1 .. done[s][o])
            BY <1>1, <1>3 DEF Safe, Progress
        <2>2. 1 .. done[s][o] + 1 = (1 .. done[s][o]) \cup {done[s][o] + 1}
            BY <1>3
        <2>3. tx'[s] = {o} \X (1 .. done'[s][o])
            BY <1>3, <2>1, <2>2
        <2>4. QED
            BY <1>1, <1>4, <2>3 DEF Progress, Within
    <1>7. Holder(s)' /\ Whole(s)' /\ Truthful(s)'
        BY <1>1 DEF Safe, Holder, Whole, Truthful
    <1>8. Bounded(s)'
        <2>1. Size(o) \in Nat
            BY OwnersDiffer
        <2>2. done'[s][o] <= Size(o) /\ stage'[s][o] \in Within
            BY <1>1, <1>3, <2>1 DEF Within
        <2>3. QED
            BY <1>1, <1>2, <2>2 DEF Safe, Bounded
    <1>9. QED
        BY <1>2, <1>5, <1>6, <1>7, <1>8 DEF Safe

(* Letting go of the lock with the transaction behind it.                  *)
LEMMA ReleaseSafe ==
    ASSUME Inv, NEW s \in Servers, NEW o \in Owners, stage[s][o] \in Within,
           \A p \in Owners \ {o} : stage'[s][p] = stage[s][p] /\ done'[s][p] = done[s][p],
           stage'[s][o] \notin Within, done'[s][o] = 0, lock'[s] = Free, tx'[s] = {}
    PROVE  Holder(s)' /\ Own(s)' /\ Progress(s)' /\ Bounded(s)'
    <1>1. Safe(s)
        BY DEF Inv
    <1>2. \A p \in Owners : stage'[s][p] \notin Within
        BY <1>1 DEF Safe, Holder
    <1>3. Holder(s)' /\ Own(s)'
        BY <1>2, OwnersDiffer DEF Holder, Own
    <1>4. Progress(s)'
        BY <1>2 DEF Progress, Within
    <1>5. \A p \in Owners : Size(p) \in Nat
        BY OwnersDiffer
    <1>6. Bounded(s)'
        BY <1>1, <1>5 DEF Safe, Bounded
    <1>7. QED
        BY <1>3, <1>4, <1>6

LEMMA CommitSafe ==
    ASSUME Inv, NEW s \in Servers, NEW o \in Owners, Commit(s, o)
    PROVE  Safe(s)'
    <1>1. /\ Numbered(s)' /\ Fresh(s)'
          /\ \A p \in Owners \ {o} : stage'[s][p] = stage[s][p] /\ done'[s][p] = done[s][p]
        BY TransactionNumbers, TransactionAlone DEF Transaction
    <1>2. /\ stage[s][o] = "inside" /\ stage'[s][o] = "ok" /\ done'[s][o] = 0
          /\ lock'[s] = Free /\ tx'[s] = {} /\ tables'[s] = tables[s] \cup tx[s]
        BY DEF Inv, TypeOK, Commit, Released
    <1>3. Holder(s)' /\ Own(s)' /\ Progress(s)' /\ Bounded(s)'
        BY <1>1, <1>2, ReleaseSafe DEF Within
    <1>4. tables'[s] = tables[s] \cup Rows(o)
        BY <1>2, FullTransaction DEF Commit
    <1>5. Whole(s)' /\ Rows(o) \subseteq tables'[s] /\ tables[s] \subseteq tables'[s]
        BY <1>4, WholeBatch DEF Inv, Safe
    <1>6. Truthful(s)'
        BY <1>1, <1>5 DEF Inv, Safe, Truthful
    <1>7. QED
        BY <1>1, <1>3, <1>5, <1>6 DEF Safe

LEMMA RollbackSafe ==
    ASSUME Inv, NEW s \in Servers, NEW o \in Owners, Rollback(s, o)
    PROVE  Safe(s)'
    <1>1. /\ Numbered(s)' /\ Fresh(s)' /\ tables' = tables
          /\ \A p \in Owners \ {o} : stage'[s][p] = stage[s][p] /\ done'[s][p] = done[s][p]
        BY TransactionNumbers, TransactionAlone DEF Transaction, Rollback
    <1>2. /\ stage[s][o] = "aborting" /\ stage'[s][o] = "failed" /\ done'[s][o] = 0
          /\ lock'[s] = Free /\ tx'[s] = {}
        BY DEF Inv, TypeOK, Rollback, Released, Outcome
    <1>3. Holder(s)' /\ Own(s)' /\ Progress(s)' /\ Bounded(s)'
        BY <1>1, <1>2, ReleaseSafe DEF Within
    <1>4. Whole(s)' /\ Truthful(s)'
        BY <1>1, <1>2 DEF Inv, Safe, Whole, Truthful
    <1>5. QED
        BY <1>1, <1>3, <1>4 DEF Safe

(* On the way to the rollback: nothing is executed, nothing more is        *)
(* committed, and the lock stays.                                          *)
LEMMA AbortingSafe ==
    ASSUME Inv, NEW s \in Servers, NEW o \in Owners, stage[s][o] = "inside",
           \A p \in Owners \ {o} : stage'[s][p] = stage[s][p],
           stage'[s][o] = "aborting", done'[s] = done[s], lock'[s] = lock[s],
           tx'[s] = tx[s] \/ tx'[s] = {}
    PROVE  Holder(s)' /\ Own(s)' /\ Progress(s)' /\ Bounded(s)'
    <1>1. Safe(s)
        BY DEF Inv
    <1>2. \A p \in Owners : stage'[s][p] \in Within <=> stage[s][p] \in Within
        BY DEF Within
    <1>3. Holder(s)'
        BY <1>1, <1>2 DEF Safe, Holder
    <1>4. Own(s)'
        BY <1>1 DEF Safe, Own
    <1>5. \A p \in Owners : stage'[s][p] # "inside"
        BY <1>1 DEF Safe, Holder, Within
    <1>6. Progress(s)'
        BY <1>5 DEF Progress
    <1>7. Bounded(s)'
        BY <1>1, <1>2 DEF Safe, Bounded
    <1>8. QED
        BY <1>3, <1>4, <1>6, <1>7

LEMMA CommitUnheardSafe ==
    ASSUME Inv, NEW s \in Servers, NEW o \in Owners, CommitUnheard(s, o)
    PROVE  Safe(s)'
    <1>1. /\ Numbered(s)' /\ Fresh(s)'
          /\ \A p \in Owners \ {o} : stage'[s][p] = stage[s][p]
        BY TransactionNumbers, TransactionAlone DEF Transaction
    <1>2. /\ stage[s][o] = "inside" /\ stage'[s][o] = "aborting" /\ done'[s] = done[s]
          /\ lock'[s] = lock[s] /\ tx'[s] = {} /\ tables'[s] = tables[s] \cup tx[s]
        BY DEF Inv, TypeOK, CommitUnheard
    <1>3. Holder(s)' /\ Own(s)' /\ Progress(s)' /\ Bounded(s)'
        BY <1>1, <1>2, AbortingSafe
    <1>4. tables'[s] = tables[s] \cup Rows(o)
        BY <1>2, FullTransaction DEF CommitUnheard
    <1>5. Whole(s)' /\ tables[s] \subseteq tables'[s]
        BY <1>4, WholeBatch DEF Inv, Safe
    <1>6. Truthful(s)'
        BY <1>1, <1>2, <1>5 DEF Inv, Safe, Truthful
    <1>7. QED
        BY <1>1, <1>3, <1>5, <1>6 DEF Safe

LEMMA FailsSafe ==
    ASSUME Inv, NEW s \in Servers, NEW o \in Owners, Fails(s, o)
    PROVE  Safe(s)'
    <1>1. /\ Numbered(s)' /\ Fresh(s)' /\ tables' = tables
          /\ \A p \in Owners \ {o} : stage'[s][p] = stage[s][p]
        BY TransactionNumbers, TransactionAlone DEF Transaction, Fails, databases
    <1>2. /\ stage[s][o] = "inside" /\ stage'[s][o] = "aborting" /\ done'[s] = done[s]
          /\ lock'[s] = lock[s] /\ tx'[s] = tx[s]
        BY DEF Inv, TypeOK, Fails, databases
    <1>3. Holder(s)' /\ Own(s)' /\ Progress(s)' /\ Bounded(s)'
        BY <1>1, <1>2, AbortingSafe
    <1>4. Whole(s)' /\ Truthful(s)'
        BY <1>1, <1>2 DEF Inv, Safe, Whole, Truthful
    <1>5. QED
        BY <1>1, <1>3, <1>4 DEF Safe

LEMMA TransactionSafe ==
    ASSUME Inv, Inv => TypeOK', NEW s \in Servers, NEW o \in Owners, Transaction(s, o)
    PROVE  \A r \in Servers : Safe(r)'
    <1>1. Safe(s)'
        BY AcquireSafe, ExecuteSafe, CommitSafe, CommitUnheardSafe, FailsSafe, RollbackSafe
           DEF Transaction
    <1>2. ASSUME NEW r \in Servers \ {s} PROVE Safe(r)'
        BY TransactionAlone, QuietKeeps DEF Inv, TypeOK
    <1>3. QED
        BY <1>1, <1>2

LEMMA InvNext == Inv /\ [Next]_vars => Inv'
    <1> SUFFICES ASSUME Inv, [Next]_vars PROVE Inv'
        OBVIOUS
    <1>1. TypeOK'
        BY TypeCoroutine, TypeTransaction, TypeRest DEF Inv
    <1>2. ASSUME \A r \in Servers : Quiet(r) PROVE Inv'
        <2>1. \A r \in Servers : batches'[r] \in Nat
            BY <1>1 DEF TypeOK
        <2>2. \A r \in Servers : Safe(r)'
            BY <1>2, <2>1, QuietKeeps DEF Inv
        <2>3. QED
            BY <1>1, <2>2 DEF Inv
    <1>3. CASE Shutdown \/ UNCHANGED vars
        BY <1>2, <1>3, IdleQuiet
    <1>4. ASSUME NEW s \in Servers, Coroutine(s) \/ Environment(s) PROVE Inv'
        BY <1>2, <1>4, CoroutineQuiet, EnvironmentQuiet
    <1>5. ASSUME NEW s \in Servers, NEW o \in Owners, Transaction(s, o) PROVE Inv'
        BY <1>1, <1>5, TransactionSafe DEF Inv
    <1>6. ASSUME NEW s \in Servers, NEW b \in Batches, StartThread(s, b) PROVE Inv'
        BY <1>2, <1>6, StartQuiet
    <1>7. QED
        BY <1>3, <1>4, <1>5, <1>6 DEF Next

LEMMA Invariant == Spec => []Inv
    <1>1. Init => Inv
        BY TypeInit, SafeInit DEF Inv
    <1>2. QED
        BY <1>1, InvNext, PTL DEF Spec

(* For any number of servers, threads, batches and tables, no connection   *)
(* carries rows of two callers, nor of one without the lock.               *)
THEOREM TransactionsAreOwn == Spec => []OwnTransaction
    <1>1. Inv => OwnTransaction
        BY OwnersDiffer DEF Inv, TypeOK, Safe, Own, OwnTransaction
    <1>2. QED
        BY <1>1, Invariant, PTL

(* A batch is in all of its tables or in none: whatever fails, whenever    *)
(* the connection breaks, or is closed under a thread that writes.         *)
THEOREM BatchesAreWhole == Spec => []AllOrNothing
    <1>1. Inv => AllOrNothing
        BY DEF Inv, Safe, Whole, AllOrNothing
    <1>2. QED
        BY <1>1, Invariant, PTL

(* What a caller of the database was told is written is written.           *)
THEOREM CallersAreToldTheTruth == Spec => []ReportedWritten
    <1>1. Inv => ReportedWritten
        BY DEF Inv, Safe, Truthful, ReportedWritten
    <1>2. QED
        BY <1>1, Invariant, PTL

-----------------------------------------------------------------------------
(* Servers do not end for each other.  A connection that main works with   *)
(* was opened and, if it no longer works, was struck; a call of the loop   *)
(* fails on such a connection only, as nobody closes it before main ends;  *)
(* nobody is cancelled before the shutdown.                                *)

Independent(s) ==
    /\ at[s] = "ended" => shutdown \/ s \in struck
    /\ conn[s] = "broken" => s \in struck
    /\ at[s] \notin {"initial", "ended"} => conn[s] # "none"
    /\ stage[s][Loop] # "idle" => at[s] \notin {"initial", "ended"}
    /\ stage[s][Loop] \in {"aborting", "failed"} => s \in struck
    /\ why[s] = "cancel" => shutdown
CancelledByShutdown == cancel # {} => shutdown
Lone == CancelledByShutdown /\ \A s \in Servers : Independent(s)

(* Shutdown and strikes are for good, and nobody else is touched.          *)
ForGood == (shutdown => shutdown') /\ struck \subseteq struck'
Apart(s) ==
    \A r \in Servers \ {s} : /\ at'[r] = at[r] /\ why'[r] = why[r]
                             /\ conn'[r] = conn[r] /\ stage'[r] = stage[r]

LEMMA ApartIndependent ==
    ASSUME Lone, NEW s \in Servers, ForGood, Apart(s), Independent(s)'
    PROVE  \A r \in Servers : Independent(r)'
    <1> SUFFICES ASSUME NEW r \in Servers \ {s} PROVE Independent(r)'
        OBVIOUS
    <1>1. Independent(r)
        BY DEF Lone
    <1>2. QED
        BY <1>1 DEF ForGood, Apart, Independent

LEMMA CoroutineIndependent ==
    ASSUME TypeOK, Lone, NEW s \in Servers, Coroutine(s)
    PROVE  Lone'
    <1>1. Loop \in Owners /\ Independent(s)
        BY OwnersDiffer DEF Lone
    <1>2. ForGood /\ CancelledByShutdown'
        <2>1. shutdown' = shutdown /\ cancel' \subseteq cancel /\ struck \subseteq struck'
            BY DEF Coroutine, Initialize, SetupFails, Connected, Refused, FinalFlush, Resume,
                   Handle, Retry, Activated, Warned, WarningFailed, ErrorLogged, Recorded, Ends,
                   CancelIdle, CancelRunning, CancelElsewhere, Told, loopVars
        <2>2. QED
            BY <2>1 DEF Lone, ForGood, CancelledByShutdown
    <1>3. ASSUME Apart(s), Independent(s)' PROVE Lone'
        BY <1>2, <1>3, ApartIndependent DEF Lone
    <1> USE DEF TypeOK
    <1>4. CASE Initialize(s)
        <2>1. Apart(s)
            BY <1>4 DEF Apart, Initialize, Resumes, Goes, threads
        <2>2. Independent(s)'
            BY <1>4, <1>1 DEF Independent, Initialize, Resumes, Goes, threads
        <2>3. QED
            BY <1>3, <2>1, <2>2
    <1>5. CASE SetupFails(s)
        <2>1. Apart(s)
            BY <1>5 DEF Apart, SetupFails, Resumes, Leaves, threads, databases
        <2>2. Independent(s)'
            BY <1>5, <1>1 DEF Independent, SetupFails, Resumes, Leaves, threads, databases
        <2>3. QED
            BY <1>3, <2>1, <2>2
    <1>6. CASE Connected(s)
        <2>1. Apart(s)
            BY <1>6 DEF Apart, Connected, Resumes, Turn, LoopFree, Call, loopVars
        <2>2. Independent(s)'
            BY <1>6, <1>1 DEF Independent, Connected, Resumes, Turn, LoopFree, Call, loopVars
        <2>3. QED
            BY <1>3, <2>1, <2>2
    <1>7. CASE Refused(s)
        <2>1. Apart(s)
            BY <1>7 DEF Apart, Refused, Resumes, Goes, threads, databases
        <2>2. Independent(s)'
            BY <1>7, <1>1 DEF Independent, Refused, Resumes, Goes, threads, databases
        <2>3. QED
            BY <1>3, <2>1, <2>2
    <1>8. CASE FinalFlush(s)
        <2>1. at'[s] \in {"flushing", "closing"} /\ at[s] = "stopping" /\ why' = why
            BY <1>8 DEF FinalFlush, Resumes, Goes
        <2>2. Apart(s)
            BY <1>8 DEF Apart, FinalFlush, Submit, Goes, databases
        <2>3. stage'[s][Loop] = stage[s][Loop]
            BY <1>8, <1>1, OwnersDiffer DEF FinalFlush, Submit, Loop
        <2>4. Independent(s)'
            BY <1>8, <1>1, <2>1, <2>3 DEF Independent, FinalFlush, databases
        <2>5. QED
            BY <1>3, <2>2, <2>4
    <1>9. CASE Resume(s)
        <2>1. Apart(s)
            BY <1>9 DEF Apart, Resume, Resumes, threads, databases
        <2>2. Independent(s)'
            BY <1>9, <1>1 DEF Independent, Resume, Resumes, threads, databases
        <2>3. QED
            BY <1>3, <2>1, <2>2
    <1>10. CASE Handle(s)
        <2>1. Apart(s)
            BY <1>10 DEF Apart, Handle, Resumes, Turn, LoopFree, Call, loopVars
        <2>2. Independent(s)'
            BY <1>10, <1>1 DEF Independent, Handle, Resumes, Turn, LoopFree, Call, loopVars
        <2>3. QED
            BY <1>3, <2>1, <2>2
    <1>11. CASE Retry(s)
        <2>1. Apart(s)
            BY <1>11 DEF Apart, Retry, Resumes, Goes, threads, databases
        <2>2. Independent(s)'
            BY <1>11, <1>1 DEF Independent, Retry, Resumes, Goes, threads, databases
        <2>3. QED
            BY <1>3, <2>1, <2>2
    <1>12. CASE Activated(s)
        <2>1. Apart(s)
            BY <1>12 DEF Apart, Activated, Wrote, Raised, Goes, Returned, databases
        <2>2. Independent(s)'
            BY <1>12, <1>1 DEF Independent, Activated, Wrote, Raised, Goes, Returned, databases
        <2>3. QED
            BY <1>3, <2>1, <2>2
    <1>13. CASE Warned(s)
        <2>1. Apart(s)
            BY <1>13 DEF Apart, Warned, Wrote, Returned, loopVars, databases
        <2>2. Independent(s)'
            BY <1>13, <1>1 DEF Independent, Warned, Wrote, Returned, loopVars, databases
        <2>3. QED
            BY <1>3, <2>1, <2>2
    <1>14. CASE WarningFailed(s)
        <2>1. Apart(s)
            BY <1>14 DEF Apart, WarningFailed, Raised, EndsSession, AbandonFlush, Goes, databases
        <2>2. Independent(s)'
            BY <1>14, <1>1 DEF Independent, WarningFailed, Raised, EndsSession, AbandonFlush, Goes, databases
        <2>3. QED
            BY <1>3, <2>1, <2>2
    <1>15. CASE ErrorLogged(s)
        <2>1. Apart(s)
            BY <1>15 DEF Apart, ErrorLogged, Wrote, Goes, Call
        <2>2. Independent(s)'
            BY <1>15, <1>1 DEF Independent, ErrorLogged, Wrote, Goes, Call
        <2>3. QED
            BY <1>3, <2>1, <2>2
    <1>16. CASE Recorded(s)
        <2>1. Apart(s)
            BY <1>16 DEF Apart, Recorded, Wrote, Goes, Returned, databases
        <2>2. Independent(s)'
            BY <1>16, <1>1 DEF Independent, Recorded, Wrote, Goes, Returned, databases
        <2>3. QED
            BY <1>3, <2>1, <2>2
    <1>17. CASE Ends(s)
        <2>1. Apart(s)
            BY <1>17 DEF Apart, Ends, Wrote, Raised, Leaves, Returned, Close
        <2>2. Independent(s)'
            BY <1>17, <1>1 DEF Independent, Ends, Wrote, Raised, Leaves, Returned, Close
        <2>3. QED
            BY <1>3, <2>1, <2>2
    <1>18. CASE CancelIdle(s)
        <2>1. Apart(s)
            BY <1>18 DEF Apart, CancelIdle, Told, Turn, LoopFree, Leaves, Close, threads
        <2>2. Independent(s)'
            BY <1>18, <1>1 DEF Independent, CancelIdle, Told, Turn, LoopFree, Leaves, Close, threads, Lone, CancelledByShutdown
        <2>3. QED
            BY <1>3, <2>1, <2>2
    <1>19. CASE CancelRunning(s)
        <2>1. Apart(s)
            BY <1>19 DEF Apart, CancelRunning, Told, EndsSession, AbandonFlush, Goes, databases
        <2>2. Independent(s)'
            BY <1>19, <1>1 DEF Independent, CancelRunning, Told, EndsSession, AbandonFlush, Goes, databases, Lone, CancelledByShutdown
        <2>3. QED
            BY <1>3, <2>1, <2>2
    <1>20. CASE CancelElsewhere(s)
        <2>1. Apart(s)
            BY <1>20 DEF Apart, CancelElsewhere, Told, AbandonFlush, Goes, databases
        <2>2. Independent(s)'
            BY <1>20, <1>1 DEF Independent, CancelElsewhere, Told, AbandonFlush, Goes, databases, Lone, CancelledByShutdown
        <2>3. QED
            BY <1>3, <2>1, <2>2
    <1>21. QED
        BY <1>4, <1>5, <1>6, <1>7, <1>8, <1>9, <1>10, <1>11,
           <1>12, <1>13, <1>14, <1>15, <1>16, <1>17, <1>18, <1>19, <1>20 DEF Coroutine

LEMMA EnvironmentIndependent ==
    ASSUME TypeOK, Lone, NEW s \in Servers, Environment(s)
    PROVE  Lone'
    <1>1. Loop \in Owners /\ Independent(s)
        BY OwnersDiffer DEF Lone
    <1>2. ForGood /\ CancelledByShutdown'
        BY DEF Lone, ForGood, CancelledByShutdown, Environment, Tick, Warn, SessionEnds,
               BreakConnection, loopVars
    <1>3. ASSUME Apart(s), Independent(s)' PROVE Lone'
        BY <1>2, <1>3, ApartIndependent DEF Lone
    <1> USE DEF TypeOK
    <1>4. CASE Tick(s)
        <2>1. stage'[s][Loop] = stage[s][Loop]
            BY <1>4, <1>1, OwnersDiffer DEF Tick, Submit, Loop
        <2>2. Apart(s) /\ Independent(s)'
            BY <1>4, <1>1, <2>1 DEF Apart, Independent, Tick, Submit, databases
        <2>3. QED
            BY <1>3, <2>2
    <1>5. CASE Warn(s)
        <2>1. Apart(s)
            BY <1>5 DEF Apart, Warn, Call, loopVars
        <2>2. Independent(s)'
            BY <1>5, <1>1 DEF Independent, Warn, Call, Resumes, loopVars
        <2>3. QED
            BY <1>3, <2>1, <2>2
    <1>6. CASE SessionEnds(s)
        <2>1. Apart(s)
            BY <1>6 DEF Apart, SessionEnds, EndsSession, AbandonFlush, Goes, databases
        <2>2. Independent(s)'
            BY <1>6, <1>1
               DEF Independent, SessionEnds, EndsSession, AbandonFlush, Goes, Resumes, databases
        <2>3. QED
            BY <1>3, <2>1, <2>2
    <1>7. CASE BreakConnection(s)
        <2>1. Apart(s)
            BY <1>7 DEF Apart, BreakConnection, loopVars, threads
        <2>2. Independent(s)'
            BY <1>7, <1>1 DEF Independent, BreakConnection, loopVars, threads
        <2>3. QED
            BY <1>3, <2>1, <2>2
    <1>8. QED
        BY <1>4, <1>5, <1>6, <1>7 DEF Environment

LEMMA TransactionIndependent ==
    ASSUME TypeOK, Lone, NEW s \in Servers, NEW o \in Owners, Transaction(s, o)
    PROVE  Lone'
    <1>1. Loop \in Owners /\ Independent(s)
        BY OwnersDiffer DEF Lone
    <1>2. ForGood /\ CancelledByShutdown' /\ UNCHANGED <<at, why, shutdown>>
        BY DEF Lone, ForGood, CancelledByShutdown, Transaction, Acquire, Execute, Commit,
               CommitUnheard, Fails, Rollback, loopVars
    <1>3. Apart(s)
        BY <1>2 DEF TypeOK, Apart, Transaction, Acquire, Execute, Commit, CommitUnheard, Fails,
                    Rollback, databases
    <1>4. conn'[s] # conn[s] => conn'[s] = "broken" /\ s \in struck'
        BY DEF TypeOK, Transaction, Acquire, Execute, Commit, CommitUnheard, Fails, Rollback,
               databases
    <1>5. CASE o # Loop
        <2>1. stage'[s][Loop] = stage[s][Loop]
            BY <1>1, <1>5 DEF TypeOK, Transaction, Acquire, Execute, Commit, CommitUnheard, Fails,
                              Rollback
        <2>2. Independent(s)'
            BY <1>1, <1>2, <1>4, <2>1 DEF Independent, ForGood
        <2>3. QED
            BY <1>2, <1>3, <2>2, ApartIndependent DEF Lone
    <1>6. CASE o = Loop
        <2>1. at[s] \notin {"initial", "ended"}
            BY <1>1, <1>6 DEF Independent, Transaction, Acquire, Execute, Commit, CommitUnheard,
                              Fails, Rollback
        <2>2. conn[s] # "none" /\ (conn[s] # "open" => s \in struck)
            BY <1>1, <2>1 DEF Independent, TypeOK
        <2>3. stage'[s][Loop] \in {"aborting", "failed"} => s \in struck'
            <3>1. CASE Acquire(s, o)
                BY <1>1, <1>6, <2>2, <3>1 DEF Acquire, TypeOK
            <3>2. CASE Execute(s, o) \/ Commit(s, o)
                BY <1>1, <1>6, <3>2 DEF Execute, Commit, TypeOK
            <3>3. CASE CommitUnheard(s, o) \/ Fails(s, o)
                BY <2>2, <3>3 DEF CommitUnheard, Fails
            <3>4. CASE Rollback(s, o)
                BY <1>1, <1>6, <3>4 DEF Rollback, Independent
            <3>5. QED
                BY <3>1, <3>2, <3>3, <3>4 DEF Transaction
        <2>4. Independent(s)'
            BY <1>1, <1>2, <1>4, <2>1, <2>2, <2>3 DEF Independent, ForGood
        <2>5. QED
            BY <1>2, <1>3, <2>4, ApartIndependent DEF Lone
    <1>7. QED
        BY <1>5, <1>6

LEMMA RestIndependent ==
    ASSUME TypeOK, Lone,
           Shutdown \/ UNCHANGED vars \/ \E s \in Servers : \E b \in Batches : StartThread(s, b)
    PROVE  Lone'
    <1>1. CASE Shutdown
        BY <1>1 DEF Shutdown, Lone, CancelledByShutdown, Independent, threads, databases
    <1>2. CASE UNCHANGED vars
        BY <1>2 DEF Lone, CancelledByShutdown, Independent, vars, loopVars, threads, databases
    <1>3. ASSUME NEW s \in Servers, NEW b \in Batches, StartThread(s, b) PROVE Lone'
        <2>1. \A r \in Servers : stage'[r][Loop] = stage[r][Loop]
            BY <1>3, OwnersDiffer DEF TypeOK, StartThread
        <2>2. UNCHANGED <<at, why, shutdown, cancel, conn, struck>>
            BY <1>3 DEF StartThread, Taken, loopVars, databases
        <2>3. QED
            BY <2>1, <2>2 DEF Lone, CancelledByShutdown, Independent
    <1>4. QED
        BY <1>1, <1>2, <1>3

(* However many servers share the process: main of one ends because its    *)
(* own tag file or database failed, or with the process.                   *)
THEOREM ServersEndAlone == Spec => []EndsAlone
    <1>1. Init => Lone
        BY OwnersDiffer DEF Init, Lone, CancelledByShutdown, Independent
    <1>2. TypeOK /\ Lone /\ [Next]_vars => Lone'
        BY CoroutineIndependent, EnvironmentIndependent, TransactionIndependent, RestIndependent
           DEF Next
    <1>3. Lone => EndsAlone
        BY DEF Lone, Independent, EndsAlone
    <1>4. QED
        BY <1>1, <1>2, <1>3, TypeCorrect, PTL DEF Spec

-----------------------------------------------------------------------------
(* The atomic store.  A step changes one write of one caller, or turns     *)
(* callers away; rows of a write that is still to be executed, or was      *)
(* never asked for, are nowhere in the tables.                             *)

Out == [w \in Servers \X Owners |-> OutcomeOf(w[1], w[2])]
In == {w \in Servers \X Owners : Rows(w[2]) \subseteq tables[w[1]]}

Unwritten(s, o) ==
    stage[s][o] \in {"queued", "waiting", "inside"} \/ (o # Loop /\ ~(o <= batches[s]))
    => Rows(o) \cap tables[s] = {}
Untouched == \A s \in Servers : \A o \in Owners : Unwritten(s, o)

Elsewhere(s, o) ==
    \A r \in Servers : \A p \in Owners : r # s \/ p # o =>
        /\ stage'[r][p] = stage[r][p]
        /\ p <= batches'[r] <=> p <= batches[r]
        /\ Rows(p) \cap tables'[r] = Rows(p) \cap tables[r]

LEMMA RowsApart ==
    ASSUME NEW o \in Owners
    PROVE  Rows(o) # {} /\ \A p \in Owners : p # o => Rows(p) \cap Rows(o) = {}
    <1>1. Size(o) \in Nat \ {0}
        BY OwnersDiffer
    <1>2. <<o, 1>> \in Rows(o)
        BY <1>1 DEF Rows
    <1>3. \A p \in Owners : p # o => Rows(p) \cap Rows(o) = {}
        BY DEF Rows
    <1>4. QED
        BY <1>2, <1>3

LEMMA UntouchedElsewhere ==
    ASSUME Untouched, NEW s \in Servers, NEW o \in Owners, Elsewhere(s, o), Unwritten(s, o)'
    PROVE  Untouched'
    BY DEF Untouched, Elsewhere, Unwritten

(* What a step on one write does to the store.                             *)
LEMMA OneMoves ==
    ASSUME NEW s \in Servers, NEW o \in Owners, Elsewhere(s, o)
    PROVE  /\ Out' = [Out EXCEPT ![<<s, o>>] = OutcomeOf(s, o)']
           /\ Rows(o) \subseteq tables'[s] => In' = In \cup {<<s, o>>}
           /\ ~(Rows(o) \subseteq tables'[s]) => In' = In \ {<<s, o>>}
    <1>1. \A w \in Servers \X Owners : w = <<s, o>> \/ w[1] # s \/ w[2] # o
        OBVIOUS
    <1>2. ASSUME NEW w \in Servers \X Owners, w # <<s, o>>
          PROVE  /\ OutcomeOf(w[1], w[2])' = OutcomeOf(w[1], w[2])
                 /\ Rows(w[2]) \subseteq tables'[w[1]] <=> Rows(w[2]) \subseteq tables[w[1]]
        <2>1. w[1] \in Servers /\ w[2] \in Owners /\ (w[1] # s \/ w[2] # o)
            BY <1>1, <1>2
        <2>2. QED
            BY <2>1 DEF Elsewhere, OutcomeOf
    <1>3. <<s, o>>[1] = s /\ <<s, o>>[2] = o /\ <<s, o>> \in Servers \X Owners
        OBVIOUS
    <1>4. Out' = [Out EXCEPT ![<<s, o>>] = OutcomeOf(s, o)']
        BY <1>2, <1>3 DEF Out
    <1>5. Rows(o) \subseteq tables'[s] => In' = In \cup {<<s, o>>}
        BY <1>2, <1>3 DEF In
    <1>6. ~(Rows(o) \subseteq tables'[s]) => In' = In \ {<<s, o>>}
        BY <1>2, <1>3 DEF In
    <1>7. QED
        BY <1>4, <1>5, <1>6

LEMMA OutOf ==
    ASSUME NEW s \in Servers, NEW o \in Owners
    PROVE  /\ Out[<<s, o>>] = OutcomeOf(s, o)
           /\ <<s, o>> \in In <=> Rows(o) \subseteq tables[s]
    BY DEF Out, In

-----------------------------------------------------------------------------
(* The kinds of steps, by what they do to stages, tables and numbers.      *)

Kept == UNCHANGED <<stage, tables, batches>>
Asks(s) == Call(s) /\ stage[s][Loop] \notin Pending /\ UNCHANGED batches
Submits(s) == Submit(s) /\ UNCHANGED tables
Hears(s) == Returned(s) /\ stage[s][Loop] \notin Pending /\ UNCHANGED <<tables, batches>>
Abandons(s) ==
    AbandonFlush(s) /\ stage[s][Loop] \notin Pending /\ UNCHANGED <<tables, batches>>
Kind(s) ==
    \/ Kept \/ Asks(s) \/ Submits(s) \/ Hears(s) \/ Abandons(s)
    \/ \E b \in Batches : StartThread(s, b)
    \/ \E o \in Owners : Transaction(s, o)

LEMMA FreeLoop ==
    ASSUME NEW s \in Servers, LoopFree
    PROVE  stage[s][Loop] \notin Pending
    BY DEF LoopFree, Pending

LEMMA CoroutineKind ==
    ASSUME NEW s \in Servers, Coroutine(s)
    PROVE  Kind(s)
    <1>1. CASE Initialize(s) \/ SetupFails(s) \/ Refused(s) \/ Resume(s) \/ Retry(s)
               \/ CancelIdle(s)
        BY <1>1 DEF Kind, Kept, Initialize, SetupFails, Refused, Resume, Retry, CancelIdle,
                    Close, threads, databases
    <1>2. CASE Connected(s) \/ Handle(s)
        BY <1>2, FreeLoop DEF Kind, Asks, Connected, Handle, Resumes, Turn, loopVars
    <1>3. CASE FinalFlush(s)
        BY <1>3 DEF Kind, Kept, Submits, FinalFlush, databases
    <1>4. CASE Activated(s) \/ Warned(s) \/ Recorded(s) \/ Ends(s)
        BY <1>4 DEF Kind, Hears, Activated, Warned, Recorded, Ends, Wrote, Raised, Close, Pending,
                    loopVars, databases
    <1>5. CASE WarningFailed(s)
        BY <1>5 DEF Kind, Abandons, WarningFailed, Raised, EndsSession, Pending, databases
    <1>6. CASE ErrorLogged(s)
        BY <1>6 DEF Kind, Asks, ErrorLogged, Wrote, Pending
    <1>7. CASE CancelRunning(s) \/ CancelElsewhere(s)
        BY <1>7, FreeLoop DEF Kind, Abandons, CancelRunning, CancelElsewhere, Told, Turn,
                              EndsSession, databases
    <1>8. QED
        BY <1>1, <1>2, <1>3, <1>4, <1>5, <1>6, <1>7 DEF Coroutine

LEMMA NextKind ==
    ASSUME [Next]_vars
    PROVE  Kept \/ \E s \in Servers : Kind(s)
    <1>1. CASE Shutdown \/ UNCHANGED vars
        BY <1>1 DEF Kept, Shutdown, vars, loopVars, threads, databases
    <1>2. ASSUME NEW s \in Servers, Environment(s) PROVE Kind(s)
        <2>1. CASE Tick(s)
            BY <2>1 DEF Kind, Submits, Tick, databases
        <2>2. CASE Warn(s)
            BY <2>2, FreeLoop DEF Kind, Asks, Warn, Resumes, Turn, loopVars
        <2>3. CASE SessionEnds(s)
            BY <2>3, FreeLoop DEF Kind, Abandons, SessionEnds, Resumes, Turn, EndsSession, databases
        <2>4. CASE BreakConnection(s)
            BY <2>4 DEF Kind, Kept, BreakConnection, loopVars, threads
        <2>5. QED
            BY <1>2, <2>1, <2>2, <2>3, <2>4 DEF Environment
    <1>3. ASSUME NEW s \in Servers, NEW o \in Owners, Transaction(s, o) PROVE Kind(s)
        BY <1>3 DEF Kind
    <1>4. ASSUME NEW s \in Servers, NEW b \in Batches, StartThread(s, b) PROVE Kind(s)
        BY <1>4 DEF Kind
    <1>5. QED
        BY <1>1, <1>2, <1>3, <1>4, CoroutineKind DEF Next

-----------------------------------------------------------------------------
(* Each kind is a step of the store, or none.                              *)

StoreStep == [Store!Next]_(Store!storeVars)

LEMMA StoreDefs ==
    /\ Store!storeVars = <<Out, In>>
    /\ Store!storeVars' = <<Out', In'>>
    BY DEF Store!storeVars, Out, In

LEMMA StoreStutters ==
    ASSUME Out' = Out, In' = In
    PROVE  StoreStep
    BY StoreDefs DEF StoreStep

LEMMA KeptStep ==
    ASSUME Kept, Untouched
    PROVE  StoreStep /\ Untouched'
    <1>1. Out' = Out /\ In' = In
        BY DEF Kept, Out, In, OutcomeOf
    <1>2. Untouched'
        BY DEF Kept, Untouched, Unwritten
    <1>3. QED
        BY <1>1, <1>2, StoreStutters

LEMMA AsksStep ==
    ASSUME TypeOK, Untouched, NEW s \in Servers, Asks(s)
    PROVE  StoreStep /\ Untouched'
    <1>1. Loop \in Owners
        BY OwnersDiffer
    <1>2. \A r \in Servers : \A p \in Owners :
            stage'[r][p] = IF r = s /\ p = Loop THEN "waiting" ELSE stage[r][p]
        BY <1>1 DEF Asks, Call, TypeOK
    <1>3. \A r \in Servers : tables'[r] = IF r = s THEN tables[r] \ Rows(Loop) ELSE tables[r]
        BY DEF Asks, Call, TypeOK
    <1>4. Elsewhere(s, Loop)
        <2> SUFFICES ASSUME NEW r \in Servers, NEW p \in Owners, r # s \/ p # Loop
                     PROVE  Rows(p) \cap tables'[r] = Rows(p) \cap tables[r]
            BY <1>2 DEF Elsewhere, Asks
        <2>1. CASE r # s
            BY <1>3, <2>1
        <2>2. CASE p # Loop
            BY <1>1, <1>3, <2>2, RowsApart
        <2>3. QED
            BY <2>1, <2>2
    <1>5. Rows(Loop) \cap tables'[s] = {}
        BY <1>3
    <1>6. Untouched'
        BY <1>1, <1>4, <1>5, UntouchedElsewhere DEF Unwritten
    <1>7. OutcomeOf(s, Loop)' = "asked" /\ OutcomeOf(s, Loop) # "asked"
        <2>1. stage[s][Loop] \in Stages
            BY <1>1 DEF TypeOK
        <2>2. QED
            BY <1>1, <1>2, <2>1 DEF OutcomeOf, Pending, Asks, Stages
    <1>8. ~(Rows(Loop) \subseteq tables'[s])
        BY <1>1, <1>5, RowsApart
    <1>9. Out' = [Out EXCEPT ![<<s, Loop>>] = "asked"] /\ In' = In \ {<<s, Loop>>}
        BY <1>1, <1>4, <1>7, <1>8, OneMoves
    <1>10. Out[<<s, Loop>>] # "asked"
        BY <1>1, <1>7, OutOf
    <1>11. <<s, Loop>> \in Servers \X {Loop} /\ <<s, Loop>> \in Servers \X Owners
        BY <1>1
    <1>12. Store!AskAgain(<<s, Loop>>)
        BY <1>9, <1>10, <1>11 DEF Store!AskAgain, Out, In
    <1>13. QED
        BY <1>6, <1>11, <1>12 DEF StoreStep, Store!Next

LEMMA SubmitsStep ==
    ASSUME Inv, Untouched, NEW s \in Servers, Submits(s)
    PROVE  StoreStep /\ Untouched'
    <1> USE DEF Inv
    <1>0. PICK b \in Batches : batches'[s] = b /\ b = batches[s] + 1
        BY OwnersDiffer DEF Submits, Submit, TypeOK
    <1>1. batches[s] \in Nat /\ b \in Owners /\ b # Loop /\ b \in Nat
        BY OwnersDiffer DEF TypeOK, Owners
    <1>2. stage[s][b] = "idle"
        BY <1>0, <1>1 DEF Safe, Numbered
    <1>3. \A r \in Servers : \A p \in Owners :
            stage'[r][p] = IF r = s /\ p = b THEN "queued" ELSE stage[r][p]
        BY <1>0, <1>1 DEF Submits, Submit, TypeOK
    <1>4. \A r \in Servers \ {s} : batches'[r] = batches[r]
        BY DEF Submits, Submit, TypeOK
    <1>5. Elsewhere(s, b)
        <2>1. \A p \in Owners : p # b => (p <= b <=> p <= batches[s])
            BY <1>0, <1>1, OwnersDiffer
        <2>2. QED
            BY <1>0, <1>3, <1>4, <2>1 DEF Elsewhere, Submits
    <1>6. ~(b <= batches[s]) /\ b <= batches'[s]
        BY <1>0, <1>1
    <1>7. Rows(b) \cap tables[s] = {} /\ tables' = tables
        BY <1>1, <1>6 DEF Untouched, Unwritten, Submits
    <1>8. Untouched'
        BY <1>1, <1>5, <1>7, UntouchedElsewhere DEF Unwritten
    <1>9. OutcomeOf(s, b) = "none" /\ OutcomeOf(s, b)' = "asked"
        BY <1>1, <1>2, <1>3, <1>6 DEF OutcomeOf, Pending
    <1>10. ~(Rows(b) \subseteq tables'[s]) /\ ~(Rows(b) \subseteq tables[s])
        BY <1>1, <1>7, RowsApart
    <1>11. Out' = [Out EXCEPT ![<<s, b>>] = "asked"] /\ In' = In \ {<<s, b>>}
        BY <1>1, <1>5, <1>9, <1>10, OneMoves
    <1>12. Out[<<s, b>>] = "none" /\ <<s, b>> \notin In
        BY <1>1, <1>9, <1>10, OutOf
    <1>13. In' = In /\ <<s, b>> \in Servers \X Owners
        BY <1>1, <1>11, <1>12
    <1>14. Store!Ask(<<s, b>>)
        BY <1>11, <1>12, <1>13 DEF Store!Ask, Out, In
    <1>15. QED
        BY <1>8, <1>13, <1>14 DEF StoreStep, Store!Next

(* Callers that turn away.                                                 *)
LEMMA AwayStep ==
    ASSUME TypeOK, TypeOK', Untouched, NEW s \in Servers, UNCHANGED <<tables, batches>>,
           \A r \in Servers : \A p \in Owners :
               \/ stage'[r][p] = stage[r][p]
               \/ /\ stage'[r][p] = "idle" /\ stage[r][p] \in {"queued", "ok", "failed"}
                  /\ p # Loop => p <= batches[r]
    PROVE  StoreStep /\ Untouched'
    <1>1. Untouched'
        BY DEF Untouched, Unwritten
    <1>2. In' = In
        BY DEF In
    <1>3. ASSUME NEW r \in Servers, NEW p \in Owners
          PROVE  /\ OutcomeOf(r, p)' \in Store!Outcomes
                 /\ \/ OutcomeOf(r, p)' = OutcomeOf(r, p)
                    \/ /\ OutcomeOf(r, p) \in {"asked", "ok", "failed"}
                       /\ OutcomeOf(r, p) = "asked" => ~(Rows(p) \subseteq tables[r])
                       /\ OutcomeOf(r, p)' = IF p = Loop THEN "none" ELSE "gone"
        <2>1. stage[r][p] \in Stages /\ stage'[r][p] \in Stages
            BY DEF TypeOK
        <2>2. OutcomeOf(r, p)' \in Store!Outcomes
            BY <2>1 DEF OutcomeOf, Pending, Stages, Store!Outcomes
        <2>3. CASE stage'[r][p] = stage[r][p]
            BY <2>2, <2>3 DEF OutcomeOf
        <2>4. CASE /\ stage'[r][p] = "idle" /\ stage[r][p] \in {"queued", "ok", "failed"}
                   /\ p # Loop => p <= batches[r]
            <3>1. OutcomeOf(r, p)' = IF p = Loop THEN "none" ELSE "gone"
                BY <2>4 DEF OutcomeOf, Pending
            <3>2. OutcomeOf(r, p) \in {"asked", "ok", "failed"}
                BY <2>4 DEF OutcomeOf, Pending
            <3>3. OutcomeOf(r, p) = "asked" => stage[r][p] = "queued"
                BY <2>4 DEF OutcomeOf, Pending
            <3>4. stage[r][p] = "queued" => ~(Rows(p) \subseteq tables[r])
                BY RowsApart DEF Untouched, Unwritten
            <3>5. QED
                BY <2>2, <3>1, <3>2, <3>3, <3>4
        <2>5. QED
            BY <2>3, <2>4
    <1>4. \A w \in Servers \X Owners :
            /\ w[1] \in Servers /\ w[2] \in Owners
            /\ Out[w] = OutcomeOf(w[1], w[2]) /\ Out'[w] = OutcomeOf(w[1], w[2])'
            /\ w \in In <=> Rows(w[2]) \subseteq tables[w[1]]
            /\ w \in Servers \X {Loop} <=> w[2] = Loop
        BY DEF Out, In
    <1>5. \A w \in Servers \X Owners :
            /\ Out'[w] \in Store!Outcomes
            /\ \/ Out'[w] = Out[w]
               \/ /\ Out[w] \in {"asked", "ok", "failed"}
                  /\ Out[w] = "asked" => w \notin In
                  /\ Out'[w] = IF w \in Servers \X {Loop} THEN "none" ELSE "gone"
        BY <1>3, <1>4
    <1>6. Out' = [w \in Servers \X Owners |-> Out'[w]]
        BY DEF Out
    <1>7. Out' \in [Servers \X Owners -> Store!Outcomes]
        BY <1>5, <1>6
    <1>8. Store!TurnAway
        BY <1>2, <1>5, <1>7 DEF Store!TurnAway, Out, In
    <1>9. QED
        BY <1>1, <1>8 DEF StoreStep, Store!Next

LEMMA HearsStep ==
    ASSUME Inv, TypeOK', Untouched, NEW s \in Servers, Hears(s)
    PROVE  StoreStep /\ Untouched'
    <1>1. Loop \in Owners /\ TypeOK
        BY OwnersDiffer DEF Inv
    <1>2. \A r \in Servers : \A p \in Owners :
            stage'[r][p] = IF r = s /\ p = Loop THEN "idle" ELSE stage[r][p]
        BY <1>1 DEF Hears, Returned, TypeOK
    <1>3. stage[s][Loop] \in {"idle", "ok", "failed"}
        BY <1>1 DEF Hears, TypeOK, Stages, Pending
    <1>4. \A r \in Servers : \A p \in Owners :
            \/ stage'[r][p] = stage[r][p]
            \/ /\ stage'[r][p] = "idle" /\ stage[r][p] \in {"queued", "ok", "failed"}
               /\ p # Loop => p <= batches[r]
        BY <1>2, <1>3
    <1>5. UNCHANGED <<tables, batches>>
        BY DEF Hears
    <1>6. QED
        BY <1>1, <1>4, <1>5, AwayStep

LEMMA AbandonsStep ==
    ASSUME Inv, TypeOK', Untouched, NEW s \in Servers, Abandons(s)
    PROVE  StoreStep /\ Untouched'
    <1>1. Loop \in Owners /\ TypeOK
        BY OwnersDiffer DEF Inv
    <1>2. \A r \in Servers : \A p \in Owners :
            stage'[r][p] = IF r = s /\ (p = Loop \/ (p = flush[s] /\ stage[s][p] = "queued"))
                           THEN "idle" ELSE stage[r][p]
        BY <1>1 DEF Abandons, AbandonFlush, TypeOK
    <1>3. stage[s][Loop] \in {"idle", "ok", "failed"}
        BY <1>1 DEF Abandons, TypeOK, Stages, Pending
    <1>4. ASSUME NEW p \in Owners, p # Loop, stage[s][p] = "queued"
          PROVE  p <= batches[s]
        <2>1. p \in Batches /\ p \in Nat
            BY <1>4, OwnersDiffer DEF Owners
        <2>2. batches[s] \in Nat
            BY <1>1 DEF TypeOK
        <2>3. ~(p > batches[s])
            BY <1>4, <2>1 DEF Inv, Safe, Numbered
        <2>4. QED
            BY <2>1, <2>2, <2>3
    <1>5. \A r \in Servers : \A p \in Owners :
            \/ stage'[r][p] = stage[r][p]
            \/ /\ stage'[r][p] = "idle" /\ stage[r][p] \in {"queued", "ok", "failed"}
               /\ p # Loop => p <= batches[r]
        BY <1>2, <1>3, <1>4
    <1>6. UNCHANGED <<tables, batches>>
        BY DEF Abandons
    <1>7. QED
        BY <1>1, <1>5, <1>6, AwayStep

(* A thread takes a batch from the queue: to its caller nothing happens.   *)
LEMMA StartStep ==
    ASSUME TypeOK, Untouched, NEW s \in Servers, NEW b \in Batches, StartThread(s, b)
    PROVE  StoreStep /\ Untouched'
    <1>1. b \in Owners
        BY DEF Owners
    <1>2. \A r \in Servers : \A p \in Owners :
            \/ stage'[r][p] = stage[r][p]
            \/ stage[r][p] = "queued" /\ stage'[r][p] = "waiting"
        BY <1>1 DEF StartThread, Taken, TypeOK
    <1>3. tables' = tables /\ batches' = batches
        BY DEF StartThread, loopVars, databases
    <1>4. \A r \in Servers : \A p \in Owners : OutcomeOf(r, p)' = OutcomeOf(r, p)
        BY <1>2, <1>3 DEF OutcomeOf, Pending
    <1>5. Out' = Out /\ In' = In
        BY <1>3, <1>4 DEF Out, In
    <1>6. Untouched'
        BY <1>2, <1>3 DEF Untouched, Unwritten
    <1>7. QED
        BY <1>5, <1>6, StoreStutters

-----------------------------------------------------------------------------
(* The steps of a transaction: only the one on which it ends, and the one  *)
(* that commits, are seen by the store.                                    *)

LEMMA TransactionElsewhere ==
    ASSUME Inv, NEW s \in Servers, NEW o \in Owners, Transaction(s, o)
    PROVE  Elsewhere(s, o) /\ batches' = batches
    <1>1. batches' = batches /\ \A p \in Owners \ {o} : stage'[s][p] = stage[s][p]
        BY TransactionAlone
    <1>2. \A r \in Servers \ {s} : stage'[r] = stage[r] /\ tables'[r] = tables[r]
        BY DEF Inv, TypeOK, Transaction, Acquire, Execute, Commit, CommitUnheard, Fails, Rollback,
               databases
    <1>3. tables'[s] = tables[s] \/ tables'[s] = tables[s] \cup Rows(o)
        <2>1. CASE Commit(s, o) \/ CommitUnheard(s, o)
            <3>1. tables'[s] = tables[s] \cup tx[s]
                BY <2>1 DEF Commit, CommitUnheard, Inv, TypeOK
            <3>2. tx[s] = Rows(o)
                BY <2>1, FullTransaction DEF Commit, CommitUnheard
            <3>3. QED
                BY <3>1, <3>2
        <2>2. CASE Acquire(s, o) \/ Execute(s, o) \/ Fails(s, o) \/ Rollback(s, o)
            BY <2>2 DEF Acquire, Execute, Fails, Rollback, databases
        <2>3. QED
            BY <2>1, <2>2 DEF Transaction
    <1>4. \A p \in Owners : p # o => Rows(p) \cap Rows(o) = {}
        BY RowsApart
    <1>5. \A p \in Owners : p # o => Rows(p) \cap tables'[s] = Rows(p) \cap tables[s]
        BY <1>3, <1>4
    <1>6. QED
        BY <1>1, <1>2, <1>5 DEF Elsewhere

(* The tables are left alone: the caller is told of a failure or nothing.  *)
LEMMA UnwritingStep ==
    ASSUME Inv, Untouched, NEW s \in Servers, NEW o \in Owners, Transaction(s, o),
           tables'[s] = tables[s], stage[s][o] \in Pending,
           \/ stage'[s][o] \in {"aborting", "failed"}
           \/ stage[s][o] \in {"waiting", "inside"} /\ stage'[s][o] \in Pending
    PROVE  StoreStep /\ Untouched'
    <1>1. Elsewhere(s, o) /\ batches' = batches /\ <<s, o>> \in Servers \X Owners
        BY TransactionElsewhere
    <1>2. Unwritten(s, o)'
        BY <1>1 DEF Untouched, Unwritten, Pending
    <1>3. Untouched'
        BY <1>1, <1>2, UntouchedElsewhere
    <1>4. OutcomeOf(s, o) = "asked" /\ OutcomeOf(s, o)' \in {"asked", "failed"}
        BY DEF OutcomeOf, Pending
    <1>5. Out[<<s, o>>] = "asked" /\ (<<s, o>> \in In <=> Rows(o) \subseteq tables[s])
        BY <1>4, OutOf
    <1>6. Out' = [Out EXCEPT ![<<s, o>>] = OutcomeOf(s, o)']
        BY <1>1, OneMoves
    <1>7. In' = In
        <2>1. ASSUME Rows(o) \subseteq tables[s] PROVE In' = In
            <3>1. In' = In \cup {<<s, o>>}
                BY <1>1, <2>1, OneMoves
            <3>2. <<s, o>> \in In
                BY <1>5, <2>1
            <3>3. QED
                BY <3>1, <3>2
        <2>2. ASSUME ~(Rows(o) \subseteq tables[s]) PROVE In' = In
            <3>1. In' = In \ {<<s, o>>}
                BY <1>1, <2>2, OneMoves
            <3>2. <<s, o>> \notin In
                BY <1>5, <2>2
            <3>3. QED
                BY <3>1, <3>2
        <2>3. QED
            BY <2>1, <2>2
    <1>8. CASE OutcomeOf(s, o)' = "asked"
        <2>1. Out' = Out
            BY <1>5, <1>6, <1>8 DEF Out
        <2>2. QED
            BY <1>3, <1>7, <2>1, StoreStutters
    <1>9. CASE OutcomeOf(s, o)' = "failed"
        <2>1. Store!Refuse(<<s, o>>)
            BY <1>5, <1>6, <1>7, <1>9 DEF Store!Refuse, Out, In
        <2>2. QED
            BY <1>1, <1>3, <2>1 DEF StoreStep, Store!Next
    <1>10. QED
        BY <1>4, <1>8, <1>9

LEMMA WritingStep ==
    ASSUME Inv, Untouched, NEW s \in Servers, NEW o \in Owners, Commit(s, o) \/ CommitUnheard(s, o)
    PROVE  StoreStep /\ Untouched'
    <1>1. Transaction(s, o)
        BY DEF Transaction
    <1>2. Elsewhere(s, o) /\ batches' = batches /\ <<s, o>> \in Servers \X Owners
        BY <1>1, TransactionElsewhere
    <1>3. stage[s][o] = "inside" /\ stage'[s][o] \in {"ok", "aborting"}
        BY DEF Commit, CommitUnheard, Inv, TypeOK
    <1>4. tables'[s] = tables[s] \cup tx[s] /\ tx[s] = Rows(o)
        BY FullTransaction DEF Commit, CommitUnheard, Inv, TypeOK
    <1>5. stage[s][o] # "idle" /\ (o # Loop => o <= batches[s])
        <2>1. ASSUME o # Loop PROVE o <= batches[s]
            <3>1. o \in Batches /\ o \in Nat /\ batches[s] \in Nat
                BY <2>1, OwnersDiffer DEF Owners, Inv, TypeOK
            <3>2. ~(o > batches[s])
                BY <1>3, <3>1 DEF Inv, Safe, Numbered
            <3>3. QED
                BY <3>1, <3>2
        <2>2. QED
            BY <1>3, <2>1
    <1>6. Untouched'
        BY <1>2, <1>3, <1>5, UntouchedElsewhere DEF Unwritten
    <1>7. Out[<<s, o>>] = "asked" /\ <<s, o>> \notin In
        <2>1. Rows(o) \cap tables[s] = {} /\ Rows(o) # {}
            BY <1>3, RowsApart DEF Untouched, Unwritten
        <2>2. OutcomeOf(s, o) = "asked"
            BY <1>3 DEF OutcomeOf, Pending
        <2>3. ~(Rows(o) \subseteq tables[s])
            BY <2>1
        <2>4. QED
            BY <2>2, <2>3, OutOf
    <1>8. In' = In \cup {<<s, o>>}
        BY <1>2, <1>4, OneMoves
    <1>9. Out' = [Out EXCEPT ![<<s, o>>] = OutcomeOf(s, o)']
        BY <1>2, OneMoves
    <1>10. OutcomeOf(s, o)' \in {"ok", "asked"}
        BY <1>3 DEF OutcomeOf, Pending
    <1>11. Out' \in {Out, [Out EXCEPT ![<<s, o>>] = "ok"]}
        <2>1. CASE OutcomeOf(s, o)' = "asked"
            BY <1>7, <1>9, <2>1 DEF Out
        <2>2. CASE OutcomeOf(s, o)' = "ok"
            BY <1>9, <2>2
        <2>3. QED
            BY <1>10, <2>1, <2>2
    <1>12. Store!Write(<<s, o>>)
        BY <1>7, <1>8, <1>11 DEF Store!Write, Out, In
    <1>13. QED
        BY <1>2, <1>6, <1>12 DEF StoreStep, Store!Next

LEMMA TransactionStep ==
    ASSUME Inv, Untouched, NEW s \in Servers, NEW o \in Owners, Transaction(s, o)
    PROVE  StoreStep /\ Untouched'
    <1>1. CASE Acquire(s, o)
        <2>1. stage[s][o] = "waiting" /\ stage'[s][o] \in {"failed", "inside"} /\ tables' = tables
            <3>1. \E x \in {"failed", "inside"} : stage' = [stage EXCEPT ![s][o] = x]
                BY <1>1, Zenon DEF Acquire
            <3>2. QED
                BY <1>1, <3>1 DEF Acquire, Inv, TypeOK
        <2>2. QED
            BY <2>1, UnwritingStep DEF Pending
    <1>2. CASE Execute(s, o)
        <2>1. stage[s][o] = "inside" /\ stage'[s][o] = "inside" /\ tables' = tables
            BY <1>2 DEF Execute
        <2>2. QED
            BY <2>1, UnwritingStep DEF Pending
    <1>3. CASE Commit(s, o) \/ CommitUnheard(s, o)
        BY <1>3, WritingStep
    <1>4. CASE Fails(s, o)
        <2>1. stage[s][o] = "inside" /\ stage'[s][o] = "aborting" /\ tables' = tables
            BY <1>4 DEF Fails, Inv, TypeOK, databases
        <2>2. QED
            BY <2>1, UnwritingStep DEF Pending
    <1>5. CASE Rollback(s, o)
        <2>1. stage[s][o] = "aborting" /\ stage'[s][o] = "failed" /\ tables' = tables
            BY <1>5 DEF Rollback, Outcome, Inv, TypeOK
        <2>2. QED
            BY <2>1, UnwritingStep DEF Pending
    <1>6. QED
        BY <1>1, <1>2, <1>3, <1>4, <1>5 DEF Transaction

-----------------------------------------------------------------------------
LEMMA StoreInit == Init => Store!Init /\ Untouched
    <1> SUFFICES ASSUME Init PROVE Store!Init /\ Untouched
        OBVIOUS
    <1>1. \A s \in Servers : tables[s] = {} /\ batches[s] = 0
        BY DEF Init
    <1>2. \A s \in Servers : \A o \in Owners : stage[s][o] = "idle"
        BY DEF Init
    <1>3. Untouched
        BY <1>1 DEF Untouched, Unwritten
    <1>4. ASSUME NEW s \in Servers, NEW o \in Owners
          PROVE  OutcomeOf(s, o) = "none" /\ ~(Rows(o) \subseteq tables[s])
        <2>1. o # Loop => ~(o <= batches[s])
            BY <1>1, OwnersDiffer DEF Owners
        <2>2. OutcomeOf(s, o) = "none"
            BY <1>2, <2>1 DEF OutcomeOf, Pending
        <2>3. QED
            BY <1>1, <2>2, RowsApart
    <1>5. \A w \in Servers \X Owners : w[1] \in Servers /\ w[2] \in Owners
        OBVIOUS
    <1>6. Out = [w \in Servers \X Owners |-> "none"] /\ In = {}
        BY <1>4, <1>5 DEF Out, In
    <1>7. QED
        BY <1>3, <1>6 DEF Store!Init, Out, In

LEMMA StoreNext ==
    ASSUME Inv, TypeOK', Untouched, [Next]_vars
    PROVE  StoreStep /\ Untouched'
    <1>1. ASSUME NEW s \in Servers, Kind(s) PROVE StoreStep /\ Untouched'
        BY <1>1, KeptStep, AsksStep, SubmitsStep, HearsStep, AbandonsStep, StartStep,
           TransactionStep DEF Kind, Inv
    <1>2. QED
        BY <1>1, NextKind, KeptStep

(* However many servers, threads, batches and disturbances there are, and  *)
(* whatever breaks or is cancelled between two of its steps: a lock, one   *)
(* connection and a transaction are, to each who writes, one atomic write  *)
(* that happens at most once, before its answer and never after a refusal. *)
THEOREM ServersImplementStore == Spec => StoreSpec
    <1>1. Inv /\ Inv' /\ Untouched /\ [Next]_vars => StoreStep /\ Untouched'
        BY StoreNext DEF Inv
    <1>2. QED
        BY StoreInit, <1>1, Invariant, PTL DEF Spec, StoreSpec, Store!Spec, StoreStep

=============================================================================
