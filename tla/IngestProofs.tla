----------------------------- MODULE IngestProofs -----------------------------
(***************************************************************************)
(* Ingest is well typed, no row it decodes is forgotten, invented or       *)
(* doubled, and it implements RowLedger: for every choice of metrics,      *)
(* tags, tables, queue and requeue bounds, and fault budgets.              *)
(***************************************************************************)
EXTENDS Ingest, SequenceTheorems, WellFoundedInduction, TLAPS

-----------------------------------------------------------------------------
(* Helpers of the model.                                                   *)

(* Each key has a table.                                                   *)
LEMMA TableOfKey == \A k \in Keys : Table[k] \in Tables
BY DEF Tables

(* What a decoded item yields is a sequence of rows.                       *)
LEMMA PayloadType ==
    ASSUME NEW item \in Item, Decodes(item)
    PROVE  Payload(item) \in Seq(Row)
<1>1. item.key \in Keys /\ item.id \in Nat \ {0} /\ item.at \in Nat \ {0}
  BY DEF Item, Keys, Decodes
<1>2. /\ PayloadSize(item) \in Nat
      /\ item.key \in Idempotent => PayloadSize(item) <= item.id
  BY <1>1, IngestAssumption DEF PayloadSize, WindowSize, Item, Min2
<1>3. ASSUME NEW i \in 1 .. PayloadSize(item), item.key \in Idempotent
      PROVE  [key |-> item.key, id |-> item.id - PayloadSize(item) + i,
              part |-> 1, at |-> item.at] \in Row
  <2>1. item.id - PayloadSize(item) + i \in Nat \ {0}
    BY <1>1, <1>2, <1>3
  <2>. QED
    BY <2>1, <1>1 DEF Row
<1>4. ASSUME NEW i \in 1 .. PayloadSize(item)
      PROVE  [key |-> item.key, id |-> item.id, part |-> i, at |-> item.at] \in Row
  BY <1>1, <1>2 DEF Row
<1>5. Payload(item) \in [1 .. PayloadSize(item) -> Row]
  BY <1>3, <1>4 DEF Payload
<1>. QED
  BY <1>2, <1>5

(* Truncating a table's rows leaves a sequence of rows.                    *)
LEMMA NewestType ==
    ASSUME NEW rows \in Seq(Row)
    PROVE  Newest(rows) \in Seq(Row)
BY IngestAssumption, SubSeqProperties DEF Newest, Excess

(* The rows of a batch are rows.                                           *)
LEMMA RowsType ==
    ASSUME NEW f \in Batches
    PROVE  Rows(f) \subseteq Row
BY RangeOfSeq DEF Rows, Batches

LEMMA EmptyType == Empty \in Batches
BY DEF Empty, Batches

LEMMA InsertedType ==
    ASSUME stored \subseteq Row, NEW rows \in SUBSET Row
    PROVE  Inserted(rows) \subseteq Row
BY DEF Inserted

LEMMA LoseType ==
    ASSUME lost \in [Causes -> SUBSET Row], NEW rows \in SUBSET Row,
           NEW cause \in Causes, Lose(cause, rows)
    PROVE  lost' \in [Causes -> SUBSET Row]
BY DEF Lose

LEMMA SpendType ==
    ASSUME faults \in [FaultKinds -> Nat], NEW kind \in FaultKinds, Spend(kind)
    PROVE  faults' \in [FaultKinds -> Nat]
BY DEF Spend

-----------------------------------------------------------------------------
(* Type correctness.                                                       *)

LEMMA InitType == Init => TypeOK
<1>1. Empty \in Batches
  BY EmptyType
<1>. QED
  BY <1>1 DEF Init, TypeOK

(* One step per action; under it, the conjuncts the action can disturb.    *)
LEMMA NextType == TypeOK /\ [Next]_vars => TypeOK'
<1>. SUFFICES ASSUME TypeOK, [Next]_vars
              PROVE  TypeOK'
  OBVIOUS
<1>. USE DEF TypeOK, plant, buffer, thread, database, history
<1>0. Empty \in Batches
  BY EmptyType
<1>1. ASSUME NEW k \in Metrics, NEW ts \in 1 .. MaxPublish, Publish(k, ts)
      PROVE  TypeOK'
  <2>1. ts \in Nat /\ node[k].id + 1 \in Nat
    OBVIOUS
  <2>2. node' \in [Metrics -> [id : Nat, ts : Nat]] /\ fresh' \subseteq Metrics
    BY <1>1, <2>1 DEF Publish
  <2>3. faults' \in [FaultKinds -> Nat]
    BY <1>1, SpendType DEF Publish, FaultKinds
  <2>. QED
    BY <1>1, <2>2, <2>3 DEF Publish
<1>2. ASSUME NewSession PROVE TypeOK'
  BY <1>2 DEF NewSession
<1>3. ASSUME NEW item \in Item, Put(item),
             fresh' \subseteq Metrics, faults' \in [FaultKinds -> Nat]
      PROVE  TypeOK'
  <2>1. Enqueued(item) \in Seq(Item)
    BY <1>3, IngestAssumption DEF Enqueued
  <2>2. item.at \in Nat
    BY <1>3 DEF Item
  <2>. QED
    BY <1>3, <2>1, <2>2 DEF Put
<1>4. ASSUME NEW k \in Metrics, NEW ok \in BOOLEAN
      PROVE  ItemOf(k, ok) \in Item
  BY DEF ItemOf, Item
<1>5. ASSUME NEW k \in Metrics, NotifyMetric(k)
      PROVE  TypeOK'
  BY <1>3, <1>4, <1>5 DEF NotifyMetric
<1>6. ASSUME NEW k \in Metrics, NotifyBadStatus(k)
      PROVE  TypeOK'
  BY <1>3, <1>4, <1>6, SpendType DEF NotifyBadStatus, FaultKinds
<1>7. ASSUME NEW t \in Tags, NEW ok \in BOOLEAN, NotifyTag(t, ok)
      PROVE  TypeOK'
  <2>1. [key |-> t, id |-> arrivals + 1, ts |-> 0, at |-> arrivals + 1, ok |-> ok]
          \in Item
    BY DEF Item
  <2>. QED
    BY <1>3, <1>7, <2>1 DEF NotifyTag
<1>8. ASSUME AddModel PROVE TypeOK'
  <2>. DEFINE row == [key |-> Collector, id |-> arrivals + 1, part |-> 1, at |-> arrivals + 1]
              t   == Table[Collector]
  <2>1. row \in Row
    BY DEF Row, Keys
  <2>2. t \in Tables
    BY TableOfKey DEF Keys
  <2>3. Append(pending[t], row) \in Seq(Row)
    BY <2>1, <2>2 DEF Batches
  <2>4. pending' \in Batches
    BY <1>8, <2>3 DEF AddModel, Batches
  <2>. QED
    BY <1>8, <2>1, <2>4 DEF AddModel
<1>9. ASSUME Tick PROVE TypeOK'
  BY <1>9 DEF Tick
<1>10. ASSUME flush = "decoding", queue # <<>>
       PROVE  Head(queue) \in Item /\ Tail(queue) \in Seq(Item)
  BY <1>10
<1>11. ASSUME DropItem PROVE TypeOK'
  BY <1>10, <1>11 DEF DropItem, Dequeue
<1>12. ASSUME SkipResent PROVE TypeOK'
  <2>1. Head(queue).key \in Metrics /\ Head(queue).id \in Nat
    BY <1>10, <1>12 DEF SkipResent, Dequeue, IsResent, Item
  <2>2. suppressed' \subseteq [key : Metrics, id : Nat]
    BY <1>12, <2>1 DEF SkipResent
  <2>. QED
    BY <1>10, <1>12, <2>2 DEF SkipResent, Dequeue
<1>13. ASSUME KeepRows PROVE TypeOK'
  <2>. DEFINE item == Head(queue)
  <2>1. item \in Item /\ Tail(queue) \in Seq(Item) /\ Decodes(item)
    BY <1>10, <1>13 DEF KeepRows, Dequeue
  <2>2. Payload(item) \in Seq(Row)
    BY <2>1, PayloadType
  <2>3. Table[item.key] \in Tables
    BY <2>1, TableOfKey DEF Item, Keys
  <2>4. pending' \in Batches
    BY <1>13, <2>2, <2>3 DEF KeepRows, Batches
  <2>5. lastTimestamp' \in [Metrics -> Nat]
    BY <1>13, <2>1 DEF KeepRows, Max2, Item
  <2>6. decoded' \subseteq Row
    BY <1>13, <2>2, RangeOfSeq DEF KeepRows
  <2>. QED
    BY <1>13, <2>1, <2>4, <2>5, <2>6 DEF KeepRows, Dequeue
<1>14. ASSUME BeginWrite PROVE TypeOK'
  BY <1>0, <1>14 DEF BeginWrite, Returned
<1>15. ASSUME FlushDone PROVE TypeOK'
  BY <1>0, <1>15 DEF FlushDone, Returned
<1>16. ASSUME FlushFailed PROVE TypeOK'
  <2>1. ASSUME NEW t \in Tables
        PROVE  Merged(t) \in Seq(Row) /\ Requeued(t) \in Seq(Row)
    <3>1. batch[t] \in Seq(Row) /\ pending[t] \in Seq(Row)
      BY DEF Batches
    <3>2. Merged(t) \in Seq(Row)
      BY <3>1 DEF Merged
    <3>. QED
      BY <3>1, <3>2, NewestType DEF Requeued
  <2>2. pending' \in Batches
    BY <1>16, <2>1 DEF FlushFailed, Batches
  <2>3. UNION {Evicted(t) : t \in Tables} \subseteq Row
    BY <2>1, RangeOfSeq DEF Evicted
  <2>4. lost' \in [Causes -> SUBSET Row]
    BY <1>16, <2>3, LoseType DEF FlushFailed, Causes
  <2>. QED
    BY <1>0, <1>16, <2>2, <2>4 DEF FlushFailed, Returned
<1>17. ASSUME StartWrite PROVE TypeOK'
  BY <1>17 DEF StartWrite
<1>18. Inserted(Rows(batch)) \subseteq Row
  BY RowsType, InsertedType
<1>19. ASSUME Commit PROVE TypeOK'
  BY <1>18, <1>19 DEF Commit
<1>20. ASSUME Rollback PROVE TypeOK'
  BY <1>20, SpendType DEF Rollback, RolledBack, FaultKinds
<1>21. ASSUME LostAck PROVE TypeOK'
  BY <1>18, <1>21, SpendType DEF LostAck, FaultKinds
<1>22. ASSUME LoseConnection PROVE TypeOK'
  BY <1>22, SpendType DEF LoseConnection, FaultKinds
<1>23. ASSUME NEW b \in orphans, OrphanCommit(b)
       PROVE  TypeOK'
  BY <1>23, RowsType, InsertedType DEF OrphanCommit
<1>24. ASSUME NEW b \in orphans, OrphanFail(b)
       PROVE  TypeOK'
  <2>1. Rows(b) \subseteq Row
    BY RowsType
  <2>2. lost' \in [Causes -> SUBSET Row]
    BY <1>24, <2>1, LoseType DEF OrphanFail, Causes
  <2>3. faults' \in [FaultKinds -> Nat]
    BY <1>24, SpendType DEF OrphanFail, FaultKinds
  <2>. QED
    BY <1>24, <2>2, <2>3 DEF OrphanFail
<1>25. ASSUME EndSession PROVE TypeOK'
  <2>1. lost' \in [Causes -> SUBSET Row]
    BY <1>25, RowsType, LoseType DEF EndSession, Causes
  <2>. QED
    BY <1>0, <1>25, <2>1 DEF EndSession
<1>26. ASSUME FinalFlush PROVE TypeOK'
  BY <1>26 DEF FinalFlush
<1>27. ASSUME Crash PROVE TypeOK'
  <2>1. Unwritten \subseteq Row
    BY RowsType DEF Unwritten, Writing, Orphaned
  <2>2. lost' \in [Causes -> SUBSET Row]
    BY <1>27, <2>1, LoseType DEF Crash, Causes
  <2>3. faults' \in [FaultKinds -> Nat]
    BY <1>27, SpendType DEF Crash, FaultKinds
  <2>. QED
    BY <1>0, <1>27, <2>2, <2>3 DEF Crash
<1>28. CASE UNCHANGED vars
  BY <1>28 DEF vars
<1>. HIDE DEF TypeOK
<1>. QED
  BY <1>1, <1>2, <1>5, <1>6, <1>7, <1>8, <1>9, <1>11, <1>12, <1>13, <1>14,
     <1>15, <1>16, <1>17, <1>19, <1>20, <1>21, <1>22, <1>23, <1>24, <1>25,
     <1>26, <1>27, <1>28
     DEF Next, Extractor, Notification, Flushing, Writer, Orphan

(* Every variable keeps to its set.                                        *)
THEOREM TypeCorrect == Spec => []TypeOK
BY InitType, NextType, PTL DEF Spec

-----------------------------------------------------------------------------
(* Sequences and batches of rows.                                          *)

LEMMA RangeEmpty == Range(<<>>) = {}
BY DEF Range

LEMMA ConcatEmpty ==
    ASSUME NEW S, NEW s \in Seq(S)
    PROVE  <<>> \o s = s /\ s \o <<>> = s
OBVIOUS

(* Two sequences follow each other without a repetition exactly if neither *)
(* repeats an element and they share none.                                 *)
LEMMA InjectiveConcat ==
    ASSUME NEW S, NEW s \in Seq(S), NEW t \in Seq(S)
    PROVE  IsInjective(s \o t) <=>
             IsInjective(s) /\ IsInjective(t) /\ Range(s) \cap Range(t) = {}
<1>. DEFINE u == s \o t
<1>1. /\ u \in Seq(S) /\ Len(u) = Len(s) + Len(t)
      /\ \A i \in 1 .. Len(s) : u[i] = s[i]
      /\ \A i \in 1 .. Len(t) : u[Len(s) + i] = t[i]
  OBVIOUS
<1>2. \A i \in 1 .. Len(u) : i \in 1 .. Len(s) \/ i - Len(s) \in 1 .. Len(t)
  BY <1>1
<1>3. DOMAIN u = 1 .. Len(u) /\ DOMAIN s = 1 .. Len(s) /\ DOMAIN t = 1 .. Len(t)
  BY <1>1
<1>4. Range(s) = {s[i] : i \in 1 .. Len(s)} /\ Range(t) = {t[i] : i \in 1 .. Len(t)}
  BY <1>3 DEF Range
<1>5. ASSUME IsInjective(u)
      PROVE  IsInjective(s) /\ IsInjective(t) /\ Range(s) \cap Range(t) = {}
  <2>1. IsInjective(s)
    BY <1>1, <1>3, <1>5 DEF IsInjective
  <2>2. IsInjective(t)
    <3>1. SUFFICES ASSUME NEW i \in 1 .. Len(t), NEW j \in 1 .. Len(t), t[i] = t[j]
                   PROVE  i = j
      BY <1>3 DEF IsInjective
    <3>2. Len(s) + i \in 1 .. Len(u) /\ Len(s) + j \in 1 .. Len(u)
      BY <1>1
    <3>3. Len(s) + i = Len(s) + j
      BY <1>1, <1>3, <1>5, <3>1, <3>2 DEF IsInjective
    <3>. QED
      BY <3>3
  <2>3. ASSUME NEW i \in 1 .. Len(s), NEW j \in 1 .. Len(t), s[i] = t[j]
        PROVE  FALSE
    <3>1. i \in 1 .. Len(u) /\ Len(s) + j \in 1 .. Len(u) /\ i # Len(s) + j
      BY <1>1
    <3>. QED
      BY <1>1, <1>3, <1>5, <2>3, <3>1 DEF IsInjective
  <2>. QED
    BY <1>4, <2>1, <2>2, <2>3
<1>6. ASSUME IsInjective(s), IsInjective(t), Range(s) \cap Range(t) = {},
             NEW i \in 1 .. Len(u), NEW j \in 1 .. Len(u), u[i] = u[j]
      PROVE  i = j
  <2>1. CASE i \in 1 .. Len(s) /\ j \in 1 .. Len(s)
    BY <1>1, <1>3, <1>6, <2>1 DEF IsInjective
  <2>2. CASE i - Len(s) \in 1 .. Len(t) /\ j - Len(s) \in 1 .. Len(t)
    <3>1. u[i] = t[i - Len(s)] /\ u[j] = t[j - Len(s)]
      BY <1>1, <2>2
    <3>2. i - Len(s) = j - Len(s)
      BY <1>3, <1>6, <2>2, <3>1 DEF IsInjective
    <3>. QED
      BY <3>2
  <2>3. CASE i \in 1 .. Len(s) /\ j - Len(s) \in 1 .. Len(t)
    <3>1. u[i] = s[i] /\ u[j] = t[j - Len(s)]
      BY <1>1, <2>3
    <3>. QED
      BY <1>4, <1>6, <2>3, <3>1
  <2>4. CASE j \in 1 .. Len(s) /\ i - Len(s) \in 1 .. Len(t)
    <3>1. u[j] = s[j] /\ u[i] = t[i - Len(s)]
      BY <1>1, <2>4
    <3>. QED
      BY <1>4, <1>6, <2>4, <3>1
  <2>. QED
    BY <1>2, <2>1, <2>2, <2>3, <2>4
<1>. QED
  BY <1>3, <1>5, <1>6 DEF IsInjective

(* Elements that are new to both may be appended to the second.            *)
LEMMA InjectiveAppended ==
    ASSUME NEW S, NEW s \in Seq(S), NEW t \in Seq(S), NEW u \in Seq(S),
           IsInjective(s \o t), IsInjective(u),
           Range(s) \cap Range(u) = {}, Range(t) \cap Range(u) = {}
    PROVE  IsInjective(s \o (t \o u))
<1>1. s \o t \in Seq(S) /\ s \o (t \o u) = (s \o t) \o u
  OBVIOUS
<1>2. Range(s \o t) \cap Range(u) = {}
  <2>1. Range(s \o t) = Range(s) \cup Range(t)
    BY RangeConcatenation
  <2>. QED
    BY <2>1
<1>3. IsInjective((s \o t) \o u)
  BY <1>1, <1>2, InjectiveConcat
<1>. QED
  BY <1>1, <1>3

(* Truncation keeps some of the rows and repeats none.                     *)
LEMMA NewestKeeps ==
    ASSUME NEW rows \in Seq(Row)
    PROVE  /\ Range(Newest(rows)) \subseteq Range(rows)
           /\ IsInjective(rows) => IsInjective(Newest(rows))
<1>. DEFINE n == Excess(rows)
<1>1. n \in Nat /\ n <= Len(rows)
  BY IngestAssumption DEF Excess
<1>2. /\ Newest(rows) \in Seq(Row) /\ Len(Newest(rows)) = Len(rows) - n
      /\ \A i \in 1 .. Len(rows) - n : Newest(rows)[i] = rows[n + i]
  BY <1>1 DEF Newest
<1>3. \A i \in 1 .. Len(rows) - n : n + i \in 1 .. Len(rows)
  BY <1>1
<1>4. /\ Range(Newest(rows)) = {Newest(rows)[i] : i \in 1 .. Len(rows) - n}
      /\ Range(rows) = {rows[i] : i \in 1 .. Len(rows)}
  BY <1>2, RangeEquality
<1>5. Range(Newest(rows)) \subseteq Range(rows)
  BY <1>2, <1>3, <1>4
<1>6. DOMAIN Newest(rows) = 1 .. Len(rows) - n /\ DOMAIN rows = 1 .. Len(rows)
  BY <1>2
<1>7. ASSUME IsInjective(rows)
      PROVE  IsInjective(Newest(rows))
  <2>1. SUFFICES ASSUME NEW i \in 1 .. Len(rows) - n, NEW j \in 1 .. Len(rows) - n,
                        Newest(rows)[i] = Newest(rows)[j]
                 PROVE  i = j
    BY <1>6 DEF IsInjective
  <2>2. rows[n + i] = rows[n + j] /\ n + i \in DOMAIN rows /\ n + j \in DOMAIN rows
    BY <1>2, <1>3, <1>6, <2>1
  <2>3. n + i = n + j
    BY <1>7, <2>2 DEF IsInjective
  <2>. QED
    BY <1>1, <2>3
<1>. QED
  BY <1>5, <1>7

LEMMA RowsEmpty == Rows(Empty) = {}
BY RangeEmpty DEF Rows, Empty

(* Appending rows to one table of a batch adds just these.                 *)
LEMMA RowsExtended ==
    ASSUME NEW f \in Batches, NEW t \in Tables, NEW s \in Seq(Row)
    PROVE  Rows([f EXCEPT ![t] = @ \o s]) = Rows(f) \cup Range(s)
<1>. DEFINE g == [f EXCEPT ![t] = @ \o s]
<1>1. f[t] \in Seq(Row)
  BY DEF Batches
<1>2. Range(g[t]) = Range(f[t]) \cup Range(s)
  BY <1>1, RangeConcatenation DEF Batches
<1>3. \A u \in Tables : u # t => g[u] = f[u]
  BY DEF Batches
<1>. QED
  BY <1>2, <1>3 DEF Rows

(* The rows of one payload are distinct and carry the item's number.       *)
LEMMA PayloadRows ==
    ASSUME NEW item \in Item, Decodes(item)
    PROVE  /\ IsInjective(Payload(item))
           /\ \A r \in Range(Payload(item)) : r.at = item.at /\ r.key = item.key
<1>1. PayloadSize(item) \in Nat /\ item.id \in Nat
  BY IngestAssumption DEF PayloadSize, WindowSize, Item, Decodes, Min2
<1>2. DOMAIN Payload(item) = 1 .. PayloadSize(item)
  BY DEF Payload
<1>3. \A i \in 1 .. PayloadSize(item) :
        /\ \/ /\ item.key \in Idempotent
              /\ Payload(item)[i].id = item.id - PayloadSize(item) + i
           \/ item.key \notin Idempotent /\ Payload(item)[i].part = i
        /\ Payload(item)[i].at = item.at
        /\ Payload(item)[i].key = item.key
  BY DEF Payload
<1>4. IsInjective(Payload(item))
  <2>1. CASE item.key \in Idempotent
    BY <1>1, <1>2, <1>3, <2>1 DEF IsInjective
  <2>2. CASE item.key \notin Idempotent
    BY <1>1, <1>2, <1>3, <2>2 DEF IsInjective
  <2>. QED
    BY <2>1, <2>2
<1>5. ASSUME NEW r \in Range(Payload(item))
      PROVE  r.at = item.at /\ r.key = item.key
  <2>1. PICK i \in 1 .. PayloadSize(item) : r = Payload(item)[i]
    BY <1>2 DEF Range
  <2>. QED
    BY <1>3, <2>1
<1>. QED
  BY <1>4, <1>5

-----------------------------------------------------------------------------
(* What a transaction writes.                                              *)

(* Only rows of the batch are added, and nothing is removed.               *)
LEMMA InsertedBounds ==
    ASSUME NEW rows
    PROVE  stored \subseteq Inserted(rows) /\ Inserted(rows) \subseteq stored \cup rows
BY DEF Inserted

(* Of the rows that conflict with r, one arrived first.                    *)
LEMMA FirstArrival ==
    ASSUME NEW T \in SUBSET Row, T # {}
    PROVE  \E s \in T : \A u \in T : ~(u.at < s.at)
<1>. DEFINE ats == {s.at : s \in T}
<1>1. ats \subseteq Nat /\ ats # {}
  BY DEF Row
<1>2. PICK m \in ats : \A n \in ats : <<n, m>> \notin OpToRel(<, Nat)
  BY <1>1, WFMin, NatLessThanWellFounded, Zenon
<1>3. \A n \in ats : ~(n < m)
  BY <1>1, <1>2, Zenon DEF OpToRel
<1>. QED
  BY <1>3

(* Every row of the batch is in the database afterwards, itself or the row *)
(* it conflicts with.                                                      *)
LEMMA InsertedSaves ==
    ASSUME NEW rows \in SUBSET Row, NEW r \in rows
    PROVE  r \in Inserted(rows) \/ \E s \in Inserted(rows) : Conflict(r, s)
<1>1. CASE \E s \in stored : Conflict(r, s)
  BY <1>1, InsertedBounds
<1>2. CASE ~(\E s \in stored : Conflict(r, s)) /\ ~Keyed(r)
  BY <1>2 DEF Inserted, Conflict
<1>3. CASE ~(\E s \in stored : Conflict(r, s)) /\ Keyed(r)
  <2>. DEFINE T == {s \in rows : Conflict(r, s)}
  <2>1. r \in T
    BY <1>3 DEF Conflict
  <2>2. PICK s \in T : \A u \in T : ~(u.at < s.at)
    BY <2>1, FirstArrival
  <2>3. \A u : Conflict(s, u) => Conflict(r, u)
    BY <2>2 DEF Conflict, Keyed
  <2>4. s \in Inserted(rows)
    BY <1>3, <2>2, <2>3 DEF Inserted
  <2>. QED
    BY <2>2, <2>4
<1>. QED
  BY <1>1, <1>2, <1>3

-----------------------------------------------------------------------------
(* The inductive invariant.                                                *)

(* Arrivals are numbered: what is queued is older than no later arrival,   *)
(* and its number belongs to nothing decoded or queued besides.            *)
Numbered ==
    /\ \A r \in decoded : r.at <= arrivals
    /\ \A i \in 1 .. Len(queue) :
        /\ queue[i].at <= arrivals
        /\ \A r \in decoded : r.at # queue[i].at
        /\ \A j \in 1 .. Len(queue) : queue[i].at = queue[j].at => i = j

(* A batch is out only while flush awaits its thread.                      *)
Staged ==
    /\ flush = "writing" <=> writer # "none"
    /\ writer = "none" => batch = Empty
    /\ session = "stopping" => flush = "idle"

(* Rows are filed under the table of their key.                            *)
Filed ==
    \A t \in Tables : \A r \in Range(batch[t]) \cup Range(pending[t]) : Table[r.key] = t

(* The rows of a batch were decoded, also when its thread has ended.       *)
Known == Rows(batch) \subseteq decoded

Accounting == EveryRowAccounted /\ NoRowTwice
IInv == TypeOK /\ Numbered /\ Staged /\ Filed /\ Known /\ Accounting

(* Rows of the batch and pending rows are different rows.                  *)
LEMMA BatchApart ==
    ASSUME TypeOK, Filed, NoRowTwice
    PROVE  Rows(batch) \cap Rows(pending) = {}
<1>1. SUFFICES ASSUME NEW t \in Tables, NEW u \in Tables,
                      NEW r \in Range(batch[t]), r \in Range(pending[u])
               PROVE  FALSE
  BY DEF Rows
<1>2. t = u
  BY <1>1 DEF Filed
<1>3. batch[t] \in Seq(Row) /\ pending[t] \in Seq(Row)
  BY DEF TypeOK, Batches
<1>. QED
  BY <1>1, <1>2, <1>3, InjectiveConcat DEF NoRowTwice

LEMMA InitIInv == Init => IInv
<1>. SUFFICES ASSUME Init PROVE IInv
  OBVIOUS
<1>1. TypeOK
  BY InitType
<1>2. \A t \in Tables : batch[t] = <<>> /\ pending[t] = <<>>
  BY DEF Init, Empty
<1>3. Rows(pending) = {} /\ Rows(batch) = {} /\ Orphaned = {} /\ Writing = {}
  BY RowsEmpty DEF Init, Orphaned, Writing
<1>4. Lost = {}
  BY DEF Init, Lost
<1>5. Numbered /\ Staged /\ Known
  BY <1>3 DEF Init, Numbered, Staged, Known
<1>6. Filed
  BY <1>2, RangeEmpty DEF Filed
<1>7. EveryRowAccounted
  <2>1. decoded = {} /\ stored = {}
    BY DEF Init
  <2>2. Unwritten = {}
    BY <1>3 DEF Unwritten
  <2>. QED
    BY <1>4, <2>1, <2>2 DEF EveryRowAccounted
<1>8. NoRowTwice
  <2>1. \A t \in Tables : IsInjective(batch[t] \o pending[t])
    <3>1. \A t \in Tables : batch[t] \o pending[t] = <<>>
      BY <1>2
    <3>2. IsInjective(<<>>)
      BY DEF IsInjective
    <3>. QED
      BY <3>1, <3>2
  <2>. QED
    BY <1>3, <1>4, <2>1 DEF Init, NoRowTwice, Unwritten
<1>. QED
  BY <1>1, <1>5, <1>6, <1>7, <1>8 DEF IInv, Accounting

-----------------------------------------------------------------------------
(* Steps.  Most leave the holders of rows alone.                           *)

(* What a step does to the accounts: it hands rows over or gives them up,  *)
(* takes new ones, or writes some of the rows held.                        *)
GivenUp ==
    /\ UNCHANGED stored
    /\ Unwritten' \subseteq Unwritten
    /\ Lost' = Lost \cup ((Unwritten \ Unwritten') \ stored)
Taken ==
    /\ UNCHANGED stored /\ Lost' = Lost
    /\ Unwritten \subseteq Unwritten'
    /\ (Unwritten' \ Unwritten) \cap decoded = {}
Written ==
    /\ conn /\ Lost' = Lost
    /\ Unwritten' \subseteq Unwritten
    /\ \E rows \in SUBSET Unwritten :
        /\ stored' = Inserted(rows)
        /\ Unwritten \ Unwritten' \subseteq rows

LEMMA Unmoved ==
    ASSUME IInv, UNCHANGED <<pending, batch, orphans, stored, decoded, lost>>,
           Writing' = Writing, conn' => conn
    PROVE  Filed' /\ Known' /\ Accounting' /\ GivenUp
<1>1. Orphaned' = Orphaned /\ Lost' = Lost
  BY DEF Orphaned, Lost
<1>2. Unwritten' = Unwritten
  BY <1>1 DEF Unwritten
<1>3. \A r : Saved(r)' <=> Saved(r)
  BY DEF Saved
<1>4. Filed' /\ Known'
  BY DEF IInv, Filed, Known
<1>5. EveryRowAccounted'
  BY <1>1, <1>2, <1>3 DEF IInv, Accounting, EveryRowAccounted
<1>6. NoRowTwice'
  BY <1>1, <1>2 DEF IInv, Accounting, NoRowTwice
<1>7. GivenUp
  BY <1>1, <1>2 DEF GivenUp
<1>. QED
  BY <1>4, <1>5, <1>6, <1>7 DEF Accounting

LEMMA StillNumbered ==
    ASSUME Numbered, UNCHANGED <<queue, arrivals, decoded>>
    PROVE  Numbered'
BY DEF Numbered

(* The queue drops its oldest item, or loses it to the decoder.            *)
LEMMA TailNumbered ==
    ASSUME queue \in Seq(Item), queue # <<>>, Numbered, queue' = Tail(queue),
           UNCHANGED arrivals,
           \A r \in decoded' : r \in decoded \/ r.at = Head(queue).at
    PROVE  Numbered'
<1>1. /\ Len(queue') = Len(queue) - 1
      /\ \A i \in 1 .. Len(queue') : queue'[i] = queue[i + 1]
      /\ \A i \in 1 .. Len(queue') : i + 1 \in 1 .. Len(queue)
      /\ Head(queue) = queue[1] /\ 1 \in 1 .. Len(queue)
  OBVIOUS
<1>2. \A r \in decoded' : r.at <= arrivals
  BY <1>1 DEF Numbered
<1>3. ASSUME NEW i \in 1 .. Len(queue')
      PROVE  /\ queue'[i].at <= arrivals
             /\ \A r \in decoded' : r.at # queue'[i].at
             /\ \A j \in 1 .. Len(queue') : queue'[i].at = queue'[j].at => i = j
  <2>1. i + 1 \in 1 .. Len(queue) /\ i + 1 # 1
    BY <1>1
  <2>2. queue[i + 1].at # queue[1].at
    BY <1>1, <2>1 DEF Numbered
  <2>3. queue'[i] = queue[i + 1]
    BY <1>1
  <2>4. queue'[i].at <= arrivals
    BY <2>1, <2>3 DEF Numbered
  <2>5. \A r \in decoded' : r.at # queue'[i].at
    BY <1>1, <2>1, <2>2, <2>3 DEF Numbered
  <2>6. ASSUME NEW j \in 1 .. Len(queue'), queue'[i].at = queue'[j].at
        PROVE  i = j
    <3>1. i + 1 = j + 1
      BY <1>1, <2>1, <2>3, <2>6 DEF Numbered
    <3>. QED
      BY <3>1
  <2>. QED
    BY <2>4, <2>5, <2>6
<1>. QED
  BY <1>2, <1>3 DEF Numbered

(* A new item has a number of its own.                                     *)
LEMMA AppendNumbered ==
    ASSUME queue \in Seq(Item), arrivals \in Nat, Numbered, decoded \subseteq Row,
           NEW item \in Item, item.at = arrivals + 1,
           queue' = Enqueued(item), arrivals' = arrivals + 1, decoded' = decoded
    PROVE  Numbered'
<1>. DEFINE d == IF Len(queue) = QueueMax THEN 1 ELSE 0
            n == Len(queue) - d
<1>1. /\ n \in Nat /\ Len(queue') = n + 1
      /\ \A i \in 1 .. n : queue'[i] = queue[i + d] /\ i + d \in 1 .. Len(queue)
      /\ queue'[n + 1] = item
  BY IngestAssumption DEF Enqueued
<1>2. \A r \in decoded' : r.at <= arrivals' /\ r.at # item.at
  BY DEF Numbered, Row
<1>3. ASSUME NEW i \in 1 .. Len(queue)
      PROVE  queue[i].at \in Nat /\ queue[i].at <= arrivals
  <2>1. queue[i] \in Item
    OBVIOUS
  <2>. QED
    BY <2>1 DEF Numbered, Item
<1>4. ASSUME NEW i \in 1 .. Len(queue')
      PROVE  /\ queue'[i].at <= arrivals'
             /\ \A r \in decoded' : r.at # queue'[i].at
             /\ \A j \in 1 .. Len(queue') : queue'[i].at = queue'[j].at => i = j
  <2>1. CASE i = n + 1
    <3>1. ASSUME NEW j \in 1 .. n PROVE queue'[j].at # item.at
      <4>1. queue'[j].at \in Nat /\ queue'[j].at <= arrivals
        BY <1>1, <1>3
      <4>. QED
        BY <4>1
    <3>. QED
      BY <1>1, <1>2, <2>1, <3>1
  <2>2. CASE i \in 1 .. n
    <3>1. queue'[i] = queue[i + d] /\ i + d \in 1 .. Len(queue)
      BY <1>1, <2>2
    <3>2. queue'[i].at <= arrivals' /\ queue'[i].at # item.at
      BY <1>3, <3>1
    <3>3. \A r \in decoded' : r.at # queue'[i].at
      BY <3>1 DEF Numbered
    <3>4. ASSUME NEW j \in 1 .. n, queue'[i].at = queue'[j].at
          PROVE  i = j
      <4>1. i + d = j + d
        BY <1>1, <3>1, <3>4 DEF Numbered
      <4>. QED
        BY <4>1
    <3>. QED
      BY <1>1, <3>2, <3>3, <3>4
  <2>. QED
    BY <1>1, <2>1, <2>2
<1>. QED
  BY <1>2, <1>4 DEF Numbered

(* New rows are appended to their table.                                   *)
LEMMA RowsAdded ==
    ASSUME IInv, NEW t \in Tables, NEW s \in Seq(Row), IsInjective(s),
           \A r \in Range(s) : r \notin decoded /\ Table[r.key] = t,
           pending' = [pending EXCEPT ![t] = @ \o s],
           decoded' = decoded \cup Range(s),
           UNCHANGED <<batch, orphans, stored, lost, conn>>, Writing' = Writing
    PROVE  Filed' /\ Known' /\ Accounting' /\ Taken
<1>. DEFINE new == Range(s)
<1>1. Rows(pending') = Rows(pending) \cup new
  BY RowsExtended DEF IInv, TypeOK
<1>2. Orphaned' = Orphaned /\ Lost' = Lost
  BY DEF Orphaned, Lost
<1>3. Unwritten' = Unwritten \cup new
  BY <1>1, <1>2 DEF Unwritten
<1>4. \A r : Saved(r)' <=> Saved(r)
  BY DEF Saved
<1>5. \A r \in decoded : r \in Unwritten \/ r \in Lost \/ Saved(r)
  BY DEF IInv, Accounting, EveryRowAccounted
<1>6. Unwritten \cup Lost \subseteq decoded
  BY DEF IInv, Accounting, EveryRowAccounted
<1>7. EveryRowAccounted'
  <2>1. \A r \in decoded' : r \in Unwritten' \/ r \in Lost' \/ Saved(r)'
    BY <1>2, <1>3, <1>4, <1>5
  <2>2. Unwritten' \cup Lost' \subseteq decoded'
    BY <1>2, <1>3, <1>6
  <2>3. stored' \subseteq decoded'
    BY DEF IInv, Accounting, EveryRowAccounted
  <2>. QED
    BY <2>1, <2>2, <2>3 DEF EveryRowAccounted
<1>8. /\ batch[t] \in Seq(Row) /\ pending[t] \in Seq(Row)
      /\ \A u \in Tables : pending'[u] = IF u = t THEN pending[t] \o s ELSE pending[u]
  BY DEF IInv, TypeOK, Batches
<1>9. Range(pending'[t]) = Range(pending[t]) \cup new
  BY <1>8, RangeConcatenation
<1>10. Filed' /\ Known'
  BY <1>8, <1>9 DEF IInv, Filed, Known
<1>11. new \cap (stored \cup Unwritten \cup Lost) = {} /\ Lost \cap Unwritten = {}
  BY <1>6 DEF IInv, Accounting, EveryRowAccounted, NoRowTwice
<1>12. NoRowTwice'
  <2>1. IsInjective(batch[t] \o (pending[t] \o s))
    <3>1. IsInjective(batch[t] \o pending[t])
      BY DEF IInv, Accounting, NoRowTwice
    <3>2. Range(batch[t]) \subseteq decoded /\ Range(pending[t]) \subseteq decoded
      BY <1>6 DEF IInv, Known, Unwritten, Rows
    <3>. QED
      BY <1>8, <3>1, <3>2, InjectiveAppended
  <2>2. ASSUME NEW u \in Tables
        PROVE  IsInjective(batch'[u] \o pending'[u])
    <3>1. CASE u = t
      <4>1. batch'[u] = batch[t] /\ pending'[u] = pending[t] \o s
        BY <1>8, <3>1
      <4>. QED
        BY <2>1, <4>1
    <3>2. CASE u # t
      <4>1. batch'[u] = batch[u] /\ pending'[u] = pending[u]
        BY <1>8, <3>2
      <4>2. IsInjective(batch[u] \o pending[u])
        BY DEF IInv, Accounting, NoRowTwice
      <4>. QED
        BY <4>1, <4>2
    <3>. QED
      BY <3>1, <3>2
  <2>3. \A b \in orphans : Rows(b) \subseteq Unwritten
    BY DEF Unwritten, Orphaned
  <2>4. \A b \in orphans : Rows(b) \cap (Rows(pending') \cup Rows(batch')) = {}
    BY <1>1, <1>11, <2>3 DEF IInv, Accounting, NoRowTwice
  <2>5. \A b, c \in orphans : b # c => Rows(b) \cap Rows(c) = {}
    BY DEF IInv, Accounting, NoRowTwice
  <2>6. conn' => Unwritten' \cap stored' = {}
    BY <1>3, <1>11 DEF IInv, Accounting, NoRowTwice
  <2>7. Lost' \cap (Unwritten' \cup stored') = {}
    BY <1>2, <1>3, <1>11 DEF IInv, Accounting, NoRowTwice
  <2>. QED
    BY <2>2, <2>4, <2>5, <2>6, <2>7 DEF NoRowTwice
<1>13. Taken
  BY <1>2, <1>3 DEF Taken
<1>. QED
  BY <1>7, <1>10, <1>12, <1>13 DEF Accounting

(* Rows are given up unless the database has them.                         *)
LEMMA LostGrows ==
    ASSUME TypeOK, NEW cause \in Causes, NEW rows, Lose(cause, rows)
    PROVE  Lost' = Lost \cup (rows \ stored)
BY DEF TypeOK, Lose, Lost

LEMMA LostSame ==
    ASSUME UNCHANGED lost
    PROVE  Lost' = Lost
BY DEF Lost

(* Rows that are no longer held are lost or saved.                         *)
LEMMA StillAccounted ==
    ASSUME IInv, UNCHANGED decoded,
           Unwritten' \subseteq Unwritten,
           stored \subseteq stored', stored' \subseteq stored \cup Unwritten,
           Lost \subseteq Lost', Lost' \subseteq Lost \cup Unwritten,
           \A r \in Unwritten \ Unwritten' : r \in Lost' \/ Saved(r)'
    PROVE  EveryRowAccounted'
<1>1. \A r : Saved(r) => Saved(r)'
  BY DEF Saved
<1>2. \A r \in decoded : r \in Unwritten \/ r \in Lost \/ Saved(r)
  BY DEF IInv, Accounting, EveryRowAccounted
<1>3. Unwritten \cup Lost \cup stored \subseteq decoded
  BY DEF IInv, Accounting, EveryRowAccounted
<1>4. \A r \in decoded' : r \in Unwritten' \/ r \in Lost' \/ Saved(r)'
  BY <1>1, <1>2
<1>5. Unwritten' \cup Lost' \cup stored' \subseteq decoded'
  BY <1>3
<1>. QED
  BY <1>4, <1>5 DEF EveryRowAccounted

(* The parts of NoRowTwice that speak of one holder each.                  *)
LEMMA Holders ==
    ASSUME IInv
    PROVE  /\ Rows(pending) \subseteq Unwritten
           /\ Rows(batch) \cap Rows(pending) = {}
           /\ Orphaned \subseteq Unwritten
           /\ Orphaned \cap (Rows(pending) \cup Rows(batch)) = {}
           /\ \A b \in orphans : Rows(b) \subseteq Orphaned
           /\ Writing \subseteq Rows(batch)
           /\ Lost \cap (Unwritten \cup stored) = {}
           /\ conn => Unwritten \cap stored = {}
<1>1. Rows(batch) \cap Rows(pending) = {}
  BY BatchApart DEF IInv, Accounting
<1>2. Orphaned \cap (Rows(pending) \cup Rows(batch)) = {}
  BY DEF IInv, Accounting, NoRowTwice, Orphaned
<1>. QED
  BY <1>1, <1>2 DEF IInv, Accounting, NoRowTwice, Unwritten, Orphaned, Writing

(* The transaction of the batch commits, whether or not its               *)
(* acknowledgement arrives.                                                *)
LEMMA BatchCommitted ==
    ASSUME IInv, writer = "running", conn, stored' = Inserted(Rows(batch)),
           \/ writer' = "ok"
           \/ writer' = "failed" /\ ~conn',
           UNCHANGED <<pending, batch, orphans, decoded, lost>>
    PROVE  Filed' /\ Known' /\ Accounting' /\ Written
<1>1. Writing = Rows(batch) /\ Rows(batch) \subseteq Row
  BY RowsType DEF Writing, IInv, TypeOK
<1>2. Orphaned' = Orphaned /\ Lost' = Lost
  BY DEF Orphaned, Lost
<1>3. Writing' = IF writer' = "ok" THEN {} ELSE Rows(batch)
  BY DEF Writing
<1>4. Unwritten' = Rows(pending) \cup Writing' \cup Orphaned
  BY <1>2 DEF Unwritten
<1>5. Unwritten = Rows(pending) \cup Rows(batch) \cup Orphaned
  BY <1>1 DEF Unwritten
<1>6. stored \subseteq stored' /\ stored' \subseteq stored \cup Rows(batch)
  BY InsertedBounds
<1>7. \A r \in Rows(batch) : Saved(r)'
  BY <1>1, InsertedSaves DEF Saved
<1>8. EveryRowAccounted'
  BY <1>2, <1>3, <1>4, <1>5, <1>6, <1>7, StillAccounted
<1>9. Filed' /\ Known'
  BY DEF IInv, Filed, Known
<1>10. NoRowTwice'
  <2>1. conn' => Unwritten' \cap stored' = {}
    BY <1>3, <1>4, <1>5, <1>6, Holders
  <2>2. Lost' \cap (Unwritten' \cup stored') = {}
    BY <1>2, <1>3, <1>4, <1>5, <1>6, Holders
  <2>. QED
    BY <2>1, <2>2 DEF IInv, Accounting, NoRowTwice
<1>11. Written
  BY <1>2, <1>3, <1>4, <1>5 DEF Written
<1>. QED
  BY <1>8, <1>9, <1>10, <1>11 DEF Accounting

(* The thread of a cancelled flush ends: its rows are written, or lost.    *)
LEMMA OrphanEnds ==
    ASSUME IInv, NEW b \in orphans, orphans' = orphans \ {b},
           \/ /\ conn /\ stored' = Inserted(Rows(b))
              /\ UNCHANGED lost
           \/ /\ Lose("cancelled", Rows(b))
              /\ UNCHANGED stored,
           UNCHANGED <<pending, batch, writer, conn, decoded>>
    PROVE  Filed' /\ Known' /\ Accounting' /\ (GivenUp \/ Written)
<1>1. Rows(b) \subseteq Row
  BY RowsType DEF IInv, TypeOK
<1>2. Writing' = Writing
  BY DEF Writing
<1>3. Orphaned = Orphaned' \cup Rows(b)
  BY DEF Orphaned
<1>4. Orphaned' \cap Rows(b) = {}
  BY DEF Orphaned, IInv, Accounting, NoRowTwice
<1>5. Rows(b) \cap (Rows(pending) \cup Writing) = {}
  BY Holders
<1>6. Unwritten = Unwritten' \cup Rows(b) /\ Unwritten' \cap Rows(b) = {}
  BY <1>2, <1>3, <1>4, <1>5 DEF Unwritten
<1>7. stored \subseteq stored' /\ stored' \subseteq stored \cup Rows(b)
  BY InsertedBounds
<1>8. \/ Lost' = Lost
      \/ Lost' = Lost \cup (Rows(b) \ stored) /\ stored' = stored
  BY LostGrows, LostSame DEF IInv, Causes
<1>9. \A r \in Rows(b) : r \in Lost' \/ Saved(r)'
  <2>1. CASE stored' = Inserted(Rows(b)) /\ UNCHANGED lost
    BY <1>1, <2>1, InsertedSaves DEF Saved
  <2>2. CASE Lose("cancelled", Rows(b)) /\ UNCHANGED stored
    <3>1. Lost' = Lost \cup (Rows(b) \ stored)
      BY <2>2, LostGrows DEF IInv, Causes
    <3>. QED
      BY <2>2, <3>1 DEF Saved
  <2>. QED
    BY <2>1, <2>2
<1>10. EveryRowAccounted'
  BY <1>6, <1>7, <1>8, <1>9, StillAccounted
<1>11. Filed' /\ Known'
  BY DEF IInv, Filed, Known
<1>12. NoRowTwice'
  <2>1. conn' => Unwritten' \cap stored' = {}
    BY <1>6, <1>7, Holders
  <2>2. Lost' \cap (Unwritten' \cup stored') = {}
    BY <1>6, <1>7, <1>8, Holders
  <2>. QED
    BY <2>1, <2>2 DEF IInv, Accounting, NoRowTwice
<1>13. GivenUp \/ Written
  <2>1. CASE conn /\ stored' = Inserted(Rows(b)) /\ UNCHANGED lost
    <3>1. Lost' = Lost
      BY <2>1, LostSame
    <3>2. Rows(b) \in SUBSET Unwritten /\ Unwritten \ Unwritten' \subseteq Rows(b)
      BY <1>6
    <3>. QED
      BY <1>6, <2>1, <3>1, <3>2 DEF Written
  <2>2. CASE Lose("cancelled", Rows(b)) /\ UNCHANGED stored
    <3>1. Lost' = Lost \cup (Rows(b) \ stored)
      BY <2>2, LostGrows DEF IInv, Causes
    <3>. QED
      BY <1>6, <2>2, <3>1 DEF GivenUp
  <2>. QED
    BY <2>1, <2>2
<1>. QED
  BY <1>10, <1>11, <1>12, <1>13 DEF Accounting

(* What a requeue keeps and gives up, table by table.                      *)
LEMMA RequeueSplits ==
    ASSUME TypeOK, NEW t \in Tables, IsInjective(Merged(t))
    PROVE  /\ Requeued(t) \in Seq(Row) /\ IsInjective(Requeued(t))
           /\ Range(Requeued(t)) \cup Evicted(t) = Range(batch[t]) \cup Range(pending[t])
           /\ Range(Requeued(t)) \cap Evicted(t) = {}
<1>1. /\ batch[t] \in Seq(Row) /\ pending[t] \in Seq(Row)
      /\ Merged(t) \in Seq(Row)
  BY DEF TypeOK, Batches, Merged
<1>2. Range(Merged(t)) = Range(batch[t]) \cup Range(pending[t])
  BY <1>1, RangeConcatenation DEF Merged
<1>3. CASE batch[t] = <<>>
  <2>1. Merged(t) = pending[t]
    BY <1>1, <1>3 DEF Merged
  <2>2. Range(batch[t]) = {}
    BY <1>3, RangeEmpty
  <2>. QED
    BY <1>1, <1>3, <2>1, <2>2 DEF Requeued, Evicted
<1>4. CASE batch[t] # <<>>
  <2>1. Requeued(t) = Newest(Merged(t))
    BY <1>4 DEF Requeued
  <2>2. Evicted(t) = Range(Merged(t)) \ Range(Newest(Merged(t)))
    BY <1>4 DEF Evicted
  <2>3. Newest(Merged(t)) \in Seq(Row)
    BY <1>1, NewestType
  <2>. QED
    BY <1>1, <1>2, <2>1, <2>2, <2>3, NewestKeeps
<1>. QED
  BY <1>3, <1>4

(* A failed flush: the rows are back in pending, or lost.                  *)
LEMMA BatchRequeued ==
    ASSUME IInv, FlushFailed
    PROVE  Filed' /\ Known' /\ Accounting' /\ GivenUp
<1>. DEFINE gone == UNION {Evicted(t) : t \in Tables}
<1>1. /\ batch' = Empty /\ pending' = [t \in Tables |-> Requeued(t)]
      /\ writer = "failed" /\ writer' = "none"
      /\ UNCHANGED <<orphans, stored, conn, decoded>>
  BY DEF FlushFailed, database
<1>2. \A t \in Tables : /\ Requeued(t) \in Seq(Row) /\ IsInjective(Requeued(t))
                        /\ Range(Requeued(t)) \cup Evicted(t)
                             = Range(batch[t]) \cup Range(pending[t])
                        /\ Range(Requeued(t)) \cap Evicted(t) = {}
  BY RequeueSplits DEF IInv, Accounting, NoRowTwice, Merged
<1>3. Rows(pending') = UNION {Range(Requeued(t)) : t \in Tables}
  BY <1>1 DEF Rows
<1>4. Rows(pending') \cup gone = Rows(batch) \cup Rows(pending)
  BY <1>2, <1>3 DEF Rows
<1>5. Rows(pending') \cap gone = {}
  <2>1. SUFFICES ASSUME NEW t \in Tables, NEW u \in Tables,
                        NEW r \in Range(Requeued(t)), r \in Evicted(u)
                 PROVE  FALSE
    BY <1>3
  <2>2. t = u
    BY <1>2, <2>1 DEF IInv, Filed
  <2>. QED
    BY <1>2, <2>1, <2>2
<1>6. Writing = Rows(batch) /\ Writing' = {} /\ Rows(batch') = {}
  BY <1>1, RowsEmpty DEF Writing
<1>7. Orphaned' = Orphaned
  BY <1>1 DEF Orphaned
<1>8. Unwritten = Unwritten' \cup gone
  BY <1>4, <1>6, <1>7 DEF Unwritten
<1>9. Unwritten' \cap gone = {}
  <2>1. gone \cap Orphaned = {}
    BY <1>4, Holders
  <2>. QED
    BY <1>5, <1>6, <1>7, <2>1 DEF Unwritten
<1>10. Lost' = Lost \cup (gone \ stored)
  BY LostGrows DEF IInv, FlushFailed, Causes
<1>11. \A r \in gone : r \in Lost' \/ Saved(r)'
  BY <1>1, <1>10 DEF Saved
<1>12. EveryRowAccounted'
  BY <1>1, <1>8, <1>10, <1>11, StillAccounted
<1>13. Filed' /\ Known'
  <2>1. \A t \in Tables : Range(batch'[t]) = {} /\ pending'[t] = Requeued(t)
    BY <1>1, RangeEmpty DEF Empty
  <2>2. Filed'
    BY <1>2, <2>1 DEF IInv, Filed
  <2>. QED
    BY <1>6, <2>2 DEF Known
<1>14. NoRowTwice'
  <2>1. ASSUME NEW t \in Tables
        PROVE  IsInjective(batch'[t] \o pending'[t])
    <3>1. batch'[t] = <<>> /\ pending'[t] = Requeued(t)
      BY <1>1 DEF Empty
    <3>2. batch'[t] \o pending'[t] = Requeued(t)
      BY <1>2, <3>1, ConcatEmpty
    <3>. QED
      BY <1>2, <3>2
  <2>2. \A b \in orphans' : Rows(b) \cap (Rows(pending') \cup Rows(batch')) = {}
    BY <1>1, <1>4, <1>6 DEF IInv, Accounting, NoRowTwice
  <2>3. \A b, c \in orphans' : b # c => Rows(b) \cap Rows(c) = {}
    BY <1>1 DEF IInv, Accounting, NoRowTwice
  <2>4. conn' => Unwritten' \cap stored' = {}
    BY <1>1, <1>8, Holders
  <2>5. Lost' \cap (Unwritten' \cup stored') = {}
    BY <1>1, <1>8, <1>9, <1>10, Holders
  <2>. QED
    BY <2>1, <2>2, <2>3, <2>4, <2>5 DEF NoRowTwice
<1>15. GivenUp
  BY <1>1, <1>8, <1>9, <1>10 DEF GivenUp
<1>. QED
  BY <1>12, <1>13, <1>14, <1>15 DEF Accounting

(* Rows that leave pending or batch for another holder, or for good, leave *)
(* the rest free of repetitions.                                           *)
LEMMA PendingAlone ==
    ASSUME IInv, NEW t \in Tables
    PROVE  IsInjective(<<>> \o pending[t]) /\ IsInjective(batch[t] \o <<>>)
<1>1. batch[t] \in Seq(Row) /\ pending[t] \in Seq(Row)
  BY DEF IInv, TypeOK, Batches
<1>2. IsInjective(batch[t]) /\ IsInjective(pending[t])
  BY <1>1, InjectiveConcat DEF IInv, Accounting, NoRowTwice
<1>. QED
  BY <1>1, <1>2, ConcatEmpty

(* flush hands the pending rows to the thread.                             *)
LEMMA BatchStaged ==
    ASSUME IInv, batch = Empty, writer = "none",
           batch' = pending, pending' = Empty, writer' = "queued",
           UNCHANGED <<orphans, stored, conn, decoded, lost>>
    PROVE  Filed' /\ Known' /\ Accounting' /\ GivenUp
<1>1. Writing = {} /\ Writing' = Rows(pending)
  BY DEF Writing
<1>2. Rows(pending') = {} /\ Rows(batch) = {} /\ Rows(batch') = Rows(pending)
  BY RowsEmpty
<1>3. Orphaned' = Orphaned /\ Lost' = Lost
  BY DEF Orphaned, Lost
<1>4. Unwritten' = Unwritten
  BY <1>1, <1>2, <1>3 DEF Unwritten
<1>5. EveryRowAccounted'
  BY <1>3, <1>4, StillAccounted
<1>6. \A t \in Tables : pending'[t] = <<>> /\ batch'[t] = pending[t]
  BY DEF Empty
<1>7. Filed'
  BY <1>6, RangeEmpty DEF IInv, Filed
<1>8. Known'
  BY <1>2, Holders DEF IInv, Accounting, EveryRowAccounted, Known
<1>9. NoRowTwice'
  <2>1. ASSUME NEW t \in Tables
        PROVE  IsInjective(batch'[t] \o pending'[t])
    <3>1. batch'[t] \o pending'[t] = <<>> \o pending[t]
      BY <1>6, ConcatEmpty DEF IInv, TypeOK, Batches
    <3>. QED
      BY <3>1, PendingAlone
  <2>. QED
    BY <1>2, <1>3, <1>4, <2>1 DEF IInv, Accounting, NoRowTwice
<1>10. GivenUp
  BY <1>3, <1>4 DEF GivenUp
<1>. QED
  BY <1>5, <1>7, <1>8, <1>9, <1>10 DEF Accounting

(* The batch is dropped: written already, left to its thread, or lost.     *)
LEMMA BatchDropped ==
    ASSUME IInv, batch' = Empty, writer' = "none",
           orphans' = IF writer = "running" THEN orphans \cup {batch} ELSE orphans,
           IF writer \in {"queued", "failed"}
             THEN Lose("cancelled", Rows(batch))
             ELSE UNCHANGED lost,
           UNCHANGED <<pending, stored, conn, decoded>>
    PROVE  Filed' /\ Known' /\ Accounting' /\ GivenUp
<1>. DEFINE gone == IF writer \in {"queued", "failed"} THEN Rows(batch) ELSE {}
<1>1. Writing' = {} /\ Rows(batch') = {}
  BY RowsEmpty DEF Writing
<1>2. Orphaned' = IF writer = "running" THEN Orphaned \cup Rows(batch) ELSE Orphaned
  BY DEF Orphaned
<1>3. Unwritten = Unwritten' \cup gone /\ Unwritten' \cap gone = {}
  BY <1>1, <1>2, Holders DEF Unwritten, Writing
<1>4. Lost' = Lost \cup (gone \ stored)
  BY LostGrows, LostSame DEF IInv, Causes
<1>5. \A r \in gone : r \in Lost' \/ Saved(r)'
  BY <1>4 DEF Saved
<1>6. EveryRowAccounted'
  BY <1>3, <1>4, <1>5, StillAccounted
<1>7. \A t \in Tables : batch'[t] = <<>> /\ pending'[t] = pending[t]
  BY DEF Empty
<1>8. Filed' /\ Known'
  BY <1>1, <1>7, RangeEmpty DEF IInv, Filed, Known
<1>9. NoRowTwice'
  <2>1. \A t \in Tables : IsInjective(batch'[t] \o pending'[t])
    BY <1>7, PendingAlone
  <2>2. \A b \in orphans' : Rows(b) \cap (Rows(pending') \cup Rows(batch')) = {}
    BY <1>1, BatchApart DEF IInv, Accounting, NoRowTwice
  <2>3. \A b, c \in orphans' : b # c => Rows(b) \cap Rows(c) = {}
    BY DEF IInv, Accounting, NoRowTwice
  <2>4. conn' => Unwritten' \cap stored' = {}
    BY <1>3, Holders
  <2>5. Lost' \cap (Unwritten' \cup stored') = {}
    BY <1>3, <1>4, Holders
  <2>. QED
    BY <2>1, <2>2, <2>3, <2>4, <2>5 DEF NoRowTwice
<1>10. GivenUp
  BY <1>3, <1>4 DEF GivenUp
<1>. QED
  BY <1>6, <1>8, <1>9, <1>10 DEF Accounting

(* A restart forgets whatever is in memory.                                *)
LEMMA AllForgotten ==
    ASSUME IInv, Crash
    PROVE  Filed' /\ Known' /\ Accounting' /\ GivenUp
<1>1. /\ batch' = Empty /\ pending' = Empty /\ orphans' = {} /\ writer' = "none"
      /\ UNCHANGED <<stored, decoded>>
  BY DEF Crash
<1>2. Rows(pending') = {} /\ Rows(batch') = {} /\ Writing' = {} /\ Orphaned' = {}
  BY <1>1, RowsEmpty DEF Writing, Orphaned
<1>3. Unwritten' = {}
  BY <1>2 DEF Unwritten
<1>4. Lost' = Lost \cup (Unwritten \ stored)
  BY LostGrows DEF IInv, Crash, Causes
<1>5. EveryRowAccounted'
  BY <1>1, <1>3, <1>4, StillAccounted DEF Saved
<1>6. \A t \in Tables : batch'[t] = <<>> /\ pending'[t] = <<>>
  BY <1>1 DEF Empty
<1>7. Filed' /\ Known'
  BY <1>2, <1>6, RangeEmpty DEF Filed, Known
<1>8. NoRowTwice'
  <2>1. ASSUME NEW t \in Tables
        PROVE  IsInjective(batch'[t] \o pending'[t])
    <3>1. batch'[t] \o pending'[t] = <<>>
      BY <1>6
    <3>. QED
      BY <3>1 DEF IsInjective
  <2>. QED
    BY <1>1, <1>3, <1>4, <2>1, Holders DEF NoRowTwice
<1>9. GivenUp
  BY <1>1, <1>3, <1>4 DEF GivenUp
<1>. QED
  BY <1>5, <1>7, <1>8, <1>9 DEF Accounting

-----------------------------------------------------------------------------
(* A step preserves the inductive invariant: its control parts.            *)

LEMMA NextStaged == TypeOK /\ Staged /\ [Next]_vars => Staged'
<1>. SUFFICES ASSUME TypeOK, Staged, [Next]_vars PROVE Staged'
  OBVIOUS
<1>. USE DEF Staged, buffer, thread, plant, database, history
<1>1. ASSUME NEW item, Put(item) PROVE Staged'
  BY <1>1 DEF Put
<1>2. ASSUME NEW item, Dequeue(item) PROVE Staged'
  BY <1>2 DEF Dequeue
<1>3. CASE Extractor \/ Notification
  BY <1>1, <1>3 DEF Extractor, Publish, Notification, NotifyMetric,
                    NotifyBadStatus, NotifyTag, AddModel
<1>4. CASE NewSession \/ EndSession \/ Crash
  BY <1>4 DEF NewSession, EndSession, Crash
<1>5. CASE Flushing
  <2>1. CASE DropItem \/ SkipResent \/ KeepRows
    BY <1>2, <2>1 DEF DropItem, SkipResent, KeepRows
  <2>2. CASE Tick \/ FinalFlush
    BY <2>2 DEF Tick, FinalFlush
  <2>3. CASE BeginWrite
    BY <2>3 DEF BeginWrite, Returned, TypeOK
  <2>4. CASE FlushDone \/ FlushFailed
    BY <2>4 DEF FlushDone, FlushFailed, Returned
  <2>. QED
    BY <1>5, <2>1, <2>2, <2>3, <2>4 DEF Flushing
<1>6. CASE StartWrite \/ Writer
  BY <1>6 DEF StartWrite, Writer, Commit, Rollback, LostAck
<1>7. CASE Orphan \/ LoseConnection
  BY <1>7 DEF Orphan, OrphanCommit, OrphanFail, LoseConnection
<1>8. CASE UNCHANGED vars
  BY <1>8 DEF vars
<1>. QED
  BY <1>3, <1>4, <1>5, <1>6, <1>7, <1>8 DEF Next

LEMMA NextNumbered == TypeOK /\ Numbered /\ [Next]_vars => Numbered'
<1>. SUFFICES ASSUME TypeOK, Numbered, [Next]_vars PROVE Numbered'
  OBVIOUS
<1>. USE DEF buffer, thread, plant, database, history
<1>1. queue \in Seq(Item) /\ arrivals \in Nat /\ decoded \subseteq Row
  BY DEF TypeOK
<1>2. ASSUME NEW item \in Item, item.at = arrivals + 1, Put(item)
      PROVE  Numbered'
  BY <1>1, <1>2, AppendNumbered DEF Put
<1>3. ASSUME NEW k \in Metrics, NotifyMetric(k) \/ NotifyBadStatus(k)
      PROVE  Numbered'
  <2>1. \A ok \in BOOLEAN : ItemOf(k, ok) \in Item /\ ItemOf(k, ok).at = arrivals + 1
    BY DEF TypeOK, ItemOf, Item
  <2>. QED
    BY <1>2, <1>3, <2>1 DEF NotifyMetric, NotifyBadStatus
<1>4. ASSUME NEW t \in Tags, NEW ok \in BOOLEAN, NotifyTag(t, ok)
      PROVE  Numbered'
  <2>1. [key |-> t, id |-> arrivals + 1, ts |-> 0, at |-> arrivals + 1, ok |-> ok]
          \in Item
    BY <1>1 DEF Item
  <2>. QED
    BY <1>2, <1>4, <2>1 DEF NotifyTag
<1>5. CASE AddModel
  <2>1. queue' = queue /\ arrivals' = arrivals + 1
    BY <1>5 DEF AddModel
  <2>2. \A r \in decoded' : r \in decoded \/ r.at = arrivals + 1
    BY <1>5 DEF AddModel
  <2>3. \A i \in 1 .. Len(queue) : queue[i].at \in Nat
    <3>1. \A i \in 1 .. Len(queue) : queue[i] \in Item
      BY <1>1
    <3>. QED
      BY <3>1 DEF Item
  <2>4. \A r \in decoded : r.at \in Nat
    BY <1>1 DEF Row
  <2>. QED
    BY <1>1, <2>1, <2>2, <2>3, <2>4 DEF Numbered
<1>6. CASE DropItem \/ SkipResent
  BY <1>1, <1>6, TailNumbered DEF DropItem, SkipResent, Dequeue
<1>7. CASE KeepRows
  <2>. DEFINE item == Head(queue)
  <2>1. item \in Item /\ Decodes(item) /\ queue # <<>>
    BY <1>1, <1>7 DEF KeepRows, Dequeue
  <2>2. \A r \in decoded' : r \in decoded \/ r.at = item.at
    BY <1>7, <2>1, PayloadRows DEF KeepRows
  <2>3. queue' = Tail(queue) /\ UNCHANGED arrivals
    BY <1>7 DEF KeepRows, Dequeue
  <2>. QED
    BY <1>1, <2>1, <2>2, <2>3, TailNumbered
<1>8. CASE Crash
  BY <1>1, <1>8 DEF Crash, Numbered
<1>9. CASE \/ Extractor \/ NewSession \/ EndSession
           \/ Tick \/ FinalFlush \/ BeginWrite \/ FlushDone \/ FlushFailed
           \/ StartWrite \/ Writer \/ Orphan \/ LoseConnection
           \/ UNCHANGED vars
  <2>1. UNCHANGED <<queue, arrivals, decoded>>
    BY <1>9 DEF Extractor, Publish, NewSession, EndSession, Tick, FinalFlush,
         BeginWrite, FlushDone, FlushFailed, StartWrite, Writer, Commit, Rollback,
         LostAck, Orphan, OrphanCommit, OrphanFail, LoseConnection, vars
  <2>. QED
    BY <2>1, StillNumbered
<1>. QED
  BY <1>3, <1>4, <1>5, <1>6, <1>7, <1>8, <1>9 DEF Next, Notification, Flushing

(* ... and its accounts: one step for each way a row changes hands.        *)
Move == GivenUp \/ Taken \/ Written

LEMMA NextAccounts == IInv /\ [Next]_vars => Filed' /\ Known' /\ Accounting' /\ Move
<1>. DEFINE Goal == Filed' /\ Known' /\ Accounting' /\ Move
<1>. SUFFICES ASSUME IInv, [Next]_vars PROVE Goal
  OBVIOUS
<1>. USE DEF Move
<1>1. CASE \/ Extractor \/ NewSession \/ Tick \/ FinalFlush
           \/ DropItem \/ SkipResent \/ StartWrite \/ Rollback \/ LoseConnection
           \/ \E k \in Metrics : NotifyMetric(k) \/ NotifyBadStatus(k)
           \/ \E t \in Tags, ok \in BOOLEAN : NotifyTag(t, ok)
           \/ UNCHANGED vars
  <2>. DEFINE Same == /\ UNCHANGED <<pending, batch, orphans, stored, decoded, lost>>
                      /\ conn' => conn
                      /\ \/ writer' = writer
                         \/ /\ writer \in {"queued", "running", "failed"}
                            /\ writer' \in {"running", "failed"}
  <2>. USE DEF plant, buffer, thread, database, history
  <2>1. ASSUME Extractor \/ NewSession \/ Tick \/ FinalFlush \/ UNCHANGED vars
        PROVE  Same
    <3>1. UNCHANGED <<pending, batch, orphans, stored, decoded, lost, conn, writer>>
      BY <2>1 DEF Extractor, Publish, NewSession, Tick, FinalFlush, vars
    <3>. QED
      BY <3>1
  <2>2. ASSUME DropItem \/ SkipResent PROVE Same
    BY <2>2 DEF DropItem, SkipResent, Dequeue
  <2>3. ASSUME StartWrite \/ Rollback \/ LoseConnection PROVE Same
    BY <2>3 DEF StartWrite, Rollback, RolledBack, LoseConnection
  <2>4. ASSUME NEW item, Put(item) PROVE Same
    BY <2>4 DEF Put
  <2>5. ASSUME \/ \E k \in Metrics : NotifyMetric(k) \/ NotifyBadStatus(k)
               \/ \E t \in Tags, ok \in BOOLEAN : NotifyTag(t, ok)
        PROVE  Same
    BY <2>4, <2>5 DEF NotifyMetric, NotifyBadStatus, NotifyTag
  <2>6. Same
    BY <1>1, <2>1, <2>2, <2>3, <2>5
  <2>7. Writing' = Writing
    BY <2>6 DEF Writing
  <2>. QED
    BY <2>6, <2>7, Unmoved
<1>2. CASE AddModel
  <2>. DEFINE row == [key |-> Collector, id |-> arrivals + 1, part |-> 1, at |-> arrivals + 1]
              t   == Table[Collector]
  <2>1. t \in Tables /\ row \in Row
    BY TableOfKey DEF Keys, Row, IInv, TypeOK
  <2>2. row \notin decoded
    BY DEF IInv, TypeOK, Numbered
  <2>3. IsInjective(<<row>>) /\ Range(<<row>>) = {row} /\ <<row>> \in Seq(Row)
    BY <2>1 DEF IsInjective, Range
  <2>4. pending[t] \in Seq(Row)
    BY <2>1 DEF IInv, TypeOK, Batches
  <2>5. Append(pending[t], row) = pending[t] \o <<row>>
    BY <2>1, <2>4
  <2>6. pending' = [pending EXCEPT ![t] = @ \o <<row>>]
    BY <1>2, <2>5 DEF AddModel
  <2>7. decoded' = decoded \cup {row} /\ UNCHANGED <<batch, writer, orphans, stored, lost, conn>>
    BY <1>2 DEF AddModel, thread, database
  <2>8. Writing' = Writing
    BY <2>7 DEF Writing
  <2>9. \A r \in Range(<<row>>) : r \notin decoded /\ Table[r.key] = t
    BY <2>2, <2>3
  <2>10. decoded' = decoded \cup Range(<<row>>)
    BY <2>3, <2>7
  <2>11. <<row>> \in Seq(Row) /\ IsInjective(<<row>>)
    BY <2>3
  <2>. HIDE DEF row, t
  <2>. QED
    BY <2>1, <2>6, <2>7, <2>8, <2>9, <2>10, <2>11, RowsAdded
<1>3. CASE KeepRows
  <2>. DEFINE item == Head(queue)
              t    == Table[item.key]
              rows == Payload(item)
  <2>1. item \in Item /\ Decodes(item) /\ queue # <<>>
    BY <1>3 DEF KeepRows, Dequeue, IInv, TypeOK
  <2>2. t \in Tables /\ rows \in Seq(Row)
    BY <2>1, TableOfKey, PayloadType DEF Item, Keys
  <2>3. \A r \in Range(rows) : r.at = item.at /\ Table[r.key] = t
    BY <2>1, PayloadRows
  <2>4. \A r \in decoded : r.at # item.at
    BY <2>1 DEF IInv, TypeOK, Numbered
  <2>5. /\ pending' = [pending EXCEPT ![t] = @ \o rows]
        /\ decoded' = decoded \cup Range(rows)
        /\ UNCHANGED <<batch, writer, orphans, stored, lost, conn>>
    BY <1>3 DEF KeepRows, Dequeue, thread, database
  <2>6. Writing' = Writing
    BY <2>5 DEF Writing
  <2>7. \A r \in Range(rows) : r \notin decoded
    BY <2>3, <2>4
  <2>8. IsInjective(rows)
    BY <2>1, PayloadRows
  <2>. HIDE DEF rows, t, item
  <2>. QED
    BY <2>2, <2>3, <2>5, <2>6, <2>7, <2>8, RowsAdded
<1>4. CASE BeginWrite
  <2>1. /\ writer = "none" /\ batch = Empty
        /\ pending' = Empty
        /\ UNCHANGED <<orphans, stored, conn, decoded, lost>>
        /\ \/ pending = Empty /\ UNCHANGED <<batch, writer>>
           \/ batch' = pending /\ writer' = "queued"
    BY <1>4 DEF BeginWrite, IInv, Staged, database, history
  <2>2. CASE pending = Empty /\ UNCHANGED <<batch, writer>>
    <3>1. Writing' = Writing
      BY <2>2 DEF Writing
    <3>. QED
      BY <2>1, <2>2, <3>1, Unmoved
  <2>3. CASE batch' = pending /\ writer' = "queued"
    BY <2>1, <2>3, BatchStaged
  <2>. QED
    BY <2>1, <2>2, <2>3
<1>5. CASE FlushDone
  BY <1>5, BatchDropped DEF FlushDone, buffer, database, history
<1>6. CASE FlushFailed
  BY <1>6, BatchRequeued
<1>7. CASE Commit \/ LostAck
  <2>1. /\ writer = "running" /\ conn /\ stored' = Inserted(Rows(batch))
        /\ \/ writer' = "ok"
           \/ writer' = "failed" /\ ~conn'
        /\ UNCHANGED <<pending, batch, orphans, decoded, lost>>
    BY <1>7 DEF Commit, LostAck, buffer, history
  <2>. QED
    BY <2>1, BatchCommitted
<1>8. CASE Orphan
  <2>1. PICK b \in orphans : OrphanCommit(b) \/ OrphanFail(b)
    BY <1>8 DEF Orphan
  <2>2. /\ orphans' = orphans \ {b}
        /\ \/ conn /\ stored' = Inserted(Rows(b)) /\ UNCHANGED lost
           \/ Lose("cancelled", Rows(b)) /\ UNCHANGED stored
        /\ UNCHANGED <<pending, batch, writer, conn, decoded>>
    BY <2>1 DEF OrphanCommit, OrphanFail, buffer, database, history
  <2>. QED
    BY <2>2, OrphanEnds
<1>9. CASE EndSession
  BY <1>9, BatchDropped DEF EndSession, buffer, database
<1>10. CASE Crash
  BY <1>10, AllForgotten
<1>. QED
  BY <1>1, <1>2, <1>3, <1>4, <1>5, <1>6, <1>7, <1>8, <1>9, <1>10
     DEF Next, Notification, Flushing, Writer

LEMMA NextIInv == IInv /\ [Next]_vars => IInv'
<1>1. IInv /\ [Next]_vars => TypeOK'
  BY NextType DEF IInv
<1>. QED
  BY <1>1, NextStaged, NextNumbered, NextAccounts DEF IInv

(* The inductive invariant holds throughout.                               *)
LEMMA Invariant == Spec => []IInv
BY InitIInv, NextIInv, PTL DEF Spec

(* Every row ever decoded is held, saved or known to be lost, and nothing  *)
(* else is held, stored or lost: ingest.py's swap, requeue and cancelled   *)
(* flush, over any constants.                                              *)
THEOREM RowsAccounted == Spec => []EveryRowAccounted
<1>1. IInv => EveryRowAccounted
  BY DEF IInv, Accounting
<1>. QED
  BY <1>1, Invariant, PTL

(* A row has one holder at a time, none while a working connection has     *)
(* stored it, and what was lost stays lost: no retry writes a row twice.   *)
THEOREM RowsNotDoubled == Spec => []NoRowTwice
<1>1. IInv => NoRowTwice
  BY DEF IInv, Accounting
<1>. QED
  BY <1>1, Invariant, PTL


-----------------------------------------------------------------------------
(* Transactions.                                                           *)

(* A row is its key, publication, part and arrival, and of two conflicting *)
(* rows that a transaction writes neither arrived before the other.        *)
LEMMA InsertedApart ==
    ASSUME stored \subseteq Row, NEW rows \in SUBSET Row,
           NEW r \in Inserted(rows) \ stored, NEW s \in Inserted(rows), Conflict(r, s)
    PROVE  r = s
<1>1. r \in rows /\ ~\E u \in stored : Conflict(r, u)
  BY DEF Inserted
<1>2. s \in rows
  BY <1>1 DEF Inserted
<1>3. Conflict(s, r)
  BY DEF Conflict, Keyed
<1>4. ~(s.at < r.at) /\ ~(r.at < s.at)
  BY <1>1, <1>2, <1>3 DEF Inserted
<1>5. r \in Row /\ s \in Row
  BY <1>1, <1>2
<1>6. r.at = s.at /\ r.key = s.key /\ r.id = s.id /\ r.part = s.part
  BY <1>4, <1>5 DEF Row, Conflict
<1>. QED
  BY <1>5, <1>6 DEF Row

-----------------------------------------------------------------------------
(* Each kind of step is one of the ledger's, or none.                      *)

LEMMA TakenIsTake ==
    ASSUME IInv, Taken
    PROVE  Ledger!Take
<1>1. Unwritten \cup Lost \cup stored \subseteq decoded
  BY DEF IInv, Accounting, EveryRowAccounted
<1>2. /\ Unwritten \ stored \subseteq (Unwritten \ stored)'
      /\ ((Unwritten \ stored)' \ (Unwritten \ stored)) \cap (stored \cup Lost) = {}
      /\ stored' = stored /\ Lost' = Lost
  BY <1>1 DEF Taken
<1>. QED
  BY <1>2 DEF Ledger!Take

LEMMA GivenUpIsLose ==
    ASSUME IInv, GivenUp
    PROVE  Ledger!Lose
<1>1. /\ (Unwritten \ stored)' \subseteq Unwritten \ stored
      /\ Lost' = Lost \cup ((Unwritten \ stored) \ (Unwritten \ stored)')
      /\ stored' = stored
  BY DEF GivenUp
<1>. QED
  BY <1>1 DEF Ledger!Lose

LEMMA WrittenIsWrite ==
    ASSUME IInv, Written
    PROVE  Ledger!Write
<1>. DEFINE held == Unwritten \ stored
            new == stored' \ stored
            dropped == (held \ held') \ new
<1>1. Unwritten \cap stored = {} /\ Unwritten \subseteq Row /\ stored \subseteq Row
  <2>1. Unwritten \subseteq decoded
    BY DEF IInv, Accounting, EveryRowAccounted
  <2>. QED
    BY <2>1 DEF Written, IInv, TypeOK, Accounting, NoRowTwice
<1>2. PICK rows \in SUBSET Unwritten : /\ stored' = Inserted(rows)
                                       /\ Unwritten \ Unwritten' \subseteq rows
  BY DEF Written
<1>3. stored \subseteq stored' /\ new \subseteq rows
  BY <1>2, InsertedBounds
<1>4. new \subseteq held \ held' /\ held' \subseteq held
  BY <1>1, <1>3 DEF Written
<1>5. ASSUME NEW r \in dropped
      PROVE  \E s \in stored' : Conflict(r, s)
  <2>1. r \in rows /\ r \notin stored'
    BY <1>1, <1>2, <1>5
  <2>. QED
    BY <1>1, <1>2, <2>1, InsertedSaves
<1>6. \A r \in new, s \in stored' : Conflict(r, s) => r = s
  BY <1>1, <1>2, InsertedApart
<1>7. Lost' = Lost
  BY DEF Written
<1>. QED
  BY <1>3, <1>4, <1>5, <1>6, <1>7 DEF Ledger!Write

LEMMA InitLedger == Init => Ledger!Init
<1>. SUFFICES ASSUME Init PROVE Ledger!Init
  OBVIOUS
<1>1. decoded = {} /\ stored = {}
  BY DEF Init
<1>2. Unwritten = {} /\ Lost = {}
  BY <1>1, InitIInv DEF IInv, Accounting, EveryRowAccounted
<1>. QED
  BY <1>1, <1>2 DEF Ledger!Init

LEMMA StepLedger == IInv /\ [Next]_vars => [Ledger!Next]_(Ledger!ledgerVars)
<1>1. IInv /\ [Next]_vars => Move
  BY NextAccounts
<1>2. IInv /\ Move => Ledger!Next
  BY TakenIsTake, GivenUpIsLose, WrittenIsWrite DEF Move, Ledger!Next
<1>. QED
  BY <1>1, <1>2

(* Whatever the queue, the flush, its worker threads, the session and the  *)
(* connection do to a row (ingest.py 73-113, db.py insert_many), the ledger *)
(* allows: it is held until written or lost, never written after it was    *)
(* lost, dropped only for the row it repeats.                              *)
THEOREM IngestImplementsLedger == Spec => LedgerSpec
BY InitLedger, StepLedger, Invariant, PTL DEF Spec, LedgerSpec, Ledger!Spec
=============================================================================
