----------------------------- MODULE IngestBounds -----------------------------
(***************************************************************************)
(* What Ingest's bounds promise, for every choice of the constants: memory *)
(* stays flat, and the oldest rows of a table go first.                    *)
(***************************************************************************)
EXTENDS IngestProofs

(* Tables whose rows all come through the queue.                           *)
Fed == Tables \ {Table[Collector]}

-----------------------------------------------------------------------------
(* The queue.                                                              *)

LEMMA EnqueuedItems ==
    ASSUME queue \in Seq(Item), NEW item \in Item
    PROVE  /\ Enqueued(item) \in Seq(Item)
           /\ \E n \in Nat, d \in {0, 1} :
                /\ Len(Enqueued(item)) = n + 1
                /\ Len(queue) = n + d
                /\ d = 0 => Len(queue) # QueueMax
                /\ d = 1 => Len(queue) = QueueMax
                /\ \A i \in 1 .. n : /\ Enqueued(item)[i] = queue[i + d]
                                     /\ i + d \in 1 .. Len(queue)
                /\ Enqueued(item)[n + 1] = item
<1>. DEFINE d == IF Len(queue) = QueueMax THEN 1 ELSE 0
            n == Len(queue) - d
<1>1. /\ n \in Nat /\ Len(Enqueued(item)) = n + 1
      /\ \A i \in 1 .. n : /\ Enqueued(item)[i] = queue[i + d]
                           /\ i + d \in 1 .. Len(queue)
      /\ Enqueued(item)[n + 1] = item
  BY IngestAssumption DEF Enqueued
<1>2. Enqueued(item) \in Seq(Item)
  <2>1. CASE Len(queue) = QueueMax
    <3>1. Enqueued(item) = Append(Tail(queue), item)
      BY <2>1 DEF Enqueued
    <3>2. queue # <<>>
      BY <2>1, IngestAssumption
    <3>3. Tail(queue) \in Seq(Item)
      BY <3>2
    <3>. QED
      BY <3>1, <3>3
  <2>2. CASE Len(queue) # QueueMax
    BY <2>2 DEF Enqueued
  <2>. QED
    BY <2>1, <2>2
<1>3. /\ d \in {0, 1} /\ Len(queue) = n + d
      /\ d = 0 => Len(queue) # QueueMax
      /\ d = 1 => Len(queue) = QueueMax
  OBVIOUS
<1>. HIDE DEF d, n
<1>. QED
  BY <1>1, <1>2, <1>3

LEMMA TailItems ==
    ASSUME queue \in Seq(Item), queue # <<>>
    PROVE  /\ Head(queue) = queue[1] /\ 1 \in 1 .. Len(queue)
           /\ Head(queue) \in Item
           /\ Len(Tail(queue)) = Len(queue) - 1
           /\ \A i \in 1 .. Len(Tail(queue)) :
                Tail(queue)[i] = queue[i + 1] /\ i + 1 \in 1 .. Len(queue)
OBVIOUS

LEMMA ItemOfMetric ==
    ASSUME TypeOK, NEW k \in Metrics, NEW ok \in BOOLEAN
    PROVE  ItemOf(k, ok) \in Item /\ ItemOf(k, ok).at = arrivals + 1
BY DEF TypeOK, ItemOf, Item

LEMMA ItemOfTag ==
    ASSUME TypeOK, NEW t \in Tags, NEW ok \in BOOLEAN
    PROVE  [key |-> t, id |-> arrivals + 1, ts |-> 0, at |-> arrivals + 1, ok |-> ok]
             \in Item
BY DEF TypeOK, Item

-----------------------------------------------------------------------------
(* Memory.                                                                 *)

(* At most `bound` rows, for a key of the table and a number of its items. *)
Within(t, n, items) ==
    \E k \in Keys : Table[k] = t /\ n <= PendingMax + items * Weight(k)

(* What the buffers hold in each phase of the flush.                       *)
Room ==
    /\ Len(queue) <= QueueMax
    /\ \A t \in Fed :
        /\ flush = "idle" => Len(pending[t]) <= PendingMax
        /\ flush = "decoding" => Within(t, Len(pending[t]), QueueMax - Len(queue))
        /\ flush = "writing" => /\ pending[t] = <<>>
                                /\ Within(t, Len(batch[t]), QueueMax)

LEMMA WeightType == \A k \in Keys : Weight(k) \in Nat
BY IngestAssumption DEF Weight

LEMMA PayloadWeight ==
    ASSUME NEW item \in Item, Decodes(item)
    PROVE  Len(Payload(item)) <= Weight(item.key) /\ item.key \in Keys
<1>1. PayloadSize(item) \in Nat /\ item.key \in Keys
  BY IngestAssumption DEF PayloadSize, WindowSize, Item, Decodes, Min2, Keys
<1>2. Len(Payload(item)) = PayloadSize(item)
  BY <1>1 DEF Payload
<1>3. PayloadSize(item) <= Weight(item.key)
  BY IngestAssumption DEF PayloadSize, WindowSize, Weight, Item, Decodes, Min2
<1>. QED
  BY <1>1, <1>2, <1>3

LEMMA Product ==
    ASSUME NEW n \in Nat, NEW w \in Nat
    PROVE  n * w \in Nat /\ (n + 1) * w = n * w + w
OBVIOUS

LEMMA ProductGrows ==
    ASSUME NEW n \in Nat, NEW v \in Nat, NEW w \in Nat, v <= w
    PROVE  n * v <= n * w
OBVIOUS

LEMMA FewerItems ==
    ASSUME NEW q \in Nat, NEW n \in Nat, n <= q, NEW w \in Nat
    PROVE  (q - n) * w <= q * w
<1>1. n * w \in Nat /\ (q - n) * w = q * w - n * w
  BY Product
<1>2. q * w \in Nat
  BY Product
<1>. QED
  BY <1>1, <1>2

(* A table has a key, and any number of items fits above PendingMax rows.  *)
LEMMA WithinPendingMax ==
    ASSUME NEW t \in Tables, NEW n \in Nat, n <= PendingMax, NEW items \in Nat
    PROVE  Within(t, n, items)
<1>1. PICK k \in Keys : Table[k] = t
  BY DEF Tables
<1>2. items * Weight(k) \in Nat
  BY WeightType, Product
<1>3. n <= PendingMax + items * Weight(k)
  BY <1>2, IngestAssumption
<1>. QED
  BY <1>1, <1>3 DEF Within

(* One more item makes room for its payload.                               *)
LEMMA WithinPayload ==
    ASSUME NEW t \in Tables, NEW n \in Nat, NEW items \in Nat, Within(t, n, items),
           NEW k \in Keys, Table[k] = t, NEW m \in Nat, m <= Weight(k)
    PROVE  Within(t, n + m, items + 1)
<1>1. PICK j \in Keys : Table[j] = t /\ n <= PendingMax + items * Weight(j)
  BY DEF Within
<1>2. Weight(j) \in Nat /\ Weight(k) \in Nat /\ PendingMax \in Nat
  BY WeightType, IngestAssumption
<1>3. CASE Weight(j) <= Weight(k)
  <2>1. items * Weight(j) <= items * Weight(k)
    BY <1>2, <1>3, ProductGrows
  <2>2. /\ items * Weight(j) \in Nat /\ items * Weight(k) \in Nat
        /\ (items + 1) * Weight(k) = items * Weight(k) + Weight(k)
    BY <1>2, Product
  <2>3. n + m <= PendingMax + (items + 1) * Weight(k)
    BY <1>1, <1>2, <2>1, <2>2
  <2>. QED
    BY <2>3 DEF Within
<1>4. CASE Weight(k) <= Weight(j)
  <2>1. /\ items * Weight(j) \in Nat
        /\ (items + 1) * Weight(j) = items * Weight(j) + Weight(j)
    BY <1>2, Product
  <2>2. n + m <= PendingMax + (items + 1) * Weight(j)
    BY <1>1, <1>2, <1>4, <2>1
  <2>. QED
    BY <1>1, <2>2 DEF Within
<1>. QED
  BY <1>2, <1>3, <1>4

LEMMA InitRoom == Init => Room
<1>. SUFFICES ASSUME Init PROVE Room
  OBVIOUS
<1>1. \A t \in Fed : pending[t] = <<>>
  BY DEF Init, Empty, Fed
<1>2. QueueMax \in Nat /\ PendingMax \in Nat
  BY IngestAssumption
<1>. QED
  BY <1>1, <1>2 DEF Init, Room

(* A step that leaves the buffers and the phase of the flush alone.        *)
LEMMA StillRoom ==
    ASSUME Room, UNCHANGED <<queue, pending, batch, flush>>
    PROVE  Room'
<1>1. \A t, n, i : Within(t, n, i)' <=> Within(t, n, i)
  BY DEF Within
<1>. QED
  BY <1>1 DEF Room

LEMMA PutRoom ==
    ASSUME TypeOK, Room, NEW item \in Item, Put(item)
    PROVE  Room'
<1>. USE DEF thread
<1>1. PICK n \in Nat, d \in {0, 1} :
        /\ Len(Enqueued(item)) = n + 1
        /\ Len(queue) = n + d
        /\ d = 0 => Len(queue) # QueueMax
        /\ d = 1 => Len(queue) = QueueMax
  BY EnqueuedItems DEF TypeOK
<1>2. Len(queue') <= QueueMax
  <2>1. queue' = Enqueued(item) /\ Len(queue) <= QueueMax /\ QueueMax \in Nat
    BY IngestAssumption DEF Put, Room
  <2>. QED
    BY <1>1, <2>1
<1>3. flush # "decoding" /\ UNCHANGED <<flush, pending, batch>>
  BY DEF Put, LoopFree
<1>4. \A t, m, i : Within(t, m, i)' <=> Within(t, m, i)
  BY DEF Within
<1>. QED
  BY <1>2, <1>3, <1>4 DEF Room

(* A flush begins: all the items of the queue are still to be decoded.     *)
LEMMA FlushRoom ==
    ASSUME TypeOK, Room, flush = "idle", flush' = "decoding",
           UNCHANGED <<queue, pending>>
    PROVE  Room'
<1>1. Len(queue) \in Nat /\ QueueMax \in Nat /\ PendingMax \in Nat
  BY IngestAssumption DEF TypeOK
<1>2. QueueMax - Len(queue) \in Nat
  BY <1>1 DEF Room
<1>3. ASSUME NEW t \in Fed
      PROVE  Within(t, Len(pending[t]), QueueMax - Len(queue))
  <2>1. t \in Tables /\ Len(pending[t]) \in Nat
    BY DEF Fed, TypeOK, Batches
  <2>2. Len(pending[t]) <= PendingMax
    BY DEF Room
  <2>. QED
    BY <1>2, <2>1, <2>2, WithinPendingMax
<1>4. \A t, m, i : Within(t, m, i)' <=> Within(t, m, i)
  BY DEF Within
<1>. QED
  BY <1>3, <1>4 DEF Room

(* An item is decoded: the payload of its key and no more.                 *)
LEMMA DecodeRoom ==
    ASSUME TypeOK, Room, NEW item, Dequeue(item),
           \/ UNCHANGED pending
           \/ /\ Decodes(item)
              /\ pending' = [pending EXCEPT ![Table[item.key]] = @ \o Payload(item)]
    PROVE  Room'
<1>1. queue \in Seq(Item) /\ queue # <<>> /\ item = Head(queue) /\ queue' = Tail(queue)
      /\ flush = "decoding" /\ flush' = "decoding"
  BY DEF TypeOK, Dequeue
<1>2. item \in Item /\ Len(queue') = Len(queue) - 1 /\ Len(queue) \in Nat \ {0}
  BY <1>1, TailItems
<1>. DEFINE n == QueueMax - Len(queue)
<1>3. n \in Nat /\ QueueMax - Len(queue') = n + 1 /\ Len(queue') <= QueueMax
  <2>1. Len(queue) <= QueueMax /\ QueueMax \in Nat
    BY IngestAssumption DEF Room
  <2>. QED
    BY <1>2, <2>1
<1>. HIDE DEF n
<1>4. ASSUME NEW t \in Fed
      PROVE  Within(t, Len(pending'[t]), n + 1)
  <2>1. t \in Tables /\ pending[t] \in Seq(Row) /\ Len(pending[t]) \in Nat
    BY DEF Fed, TypeOK, Batches
  <2>2. Within(t, Len(pending[t]), n)
    BY <1>1 DEF Room, n
  <2>3. CASE pending'[t] = pending[t]
    <3>1. PICK k \in Keys : Table[k] = t
      BY <2>1 DEF Tables
    <3>2. 0 <= Weight(k) /\ 0 \in Nat
      BY WeightType
    <3>3. Within(t, Len(pending[t]) + 0, n + 1)
      BY <1>3, <2>1, <2>2, <3>1, <3>2, WithinPayload
    <3>. QED
      BY <2>1, <2>3, <3>3
  <2>4. CASE pending'[t] # pending[t]
    <3>1. /\ Decodes(item)
          /\ pending' = [pending EXCEPT ![Table[item.key]] = @ \o Payload(item)]
      BY <2>4
    <3>2. item.key \in Keys /\ Len(Payload(item)) <= Weight(item.key)
          /\ Payload(item) \in Seq(Row)
      BY <1>2, <3>1, PayloadWeight, PayloadType
    <3>3. Table[item.key] = t /\ pending'[t] = pending[t] \o Payload(item)
      BY <2>1, <2>4, <3>1 DEF TypeOK, Batches
    <3>4. Len(pending'[t]) = Len(pending[t]) + Len(Payload(item))
          /\ Len(Payload(item)) \in Nat
      BY <2>1, <3>2, <3>3
    <3>5. Within(t, Len(pending[t]) + Len(Payload(item)), n + 1)
      BY <1>3, <2>1, <2>2, <3>2, <3>3, <3>4, WithinPayload
    <3>. QED
      BY <3>4, <3>5
  <2>. QED
    BY <2>3, <2>4
<1>5. \A t, m, i : Within(t, m, i)' <=> Within(t, m, i)
  BY DEF Within
<1>. QED
  BY <1>1, <1>3, <1>4, <1>5 DEF Room

LEMMA NewestLength ==
    ASSUME NEW rows \in Seq(Row)
    PROVE  Len(Newest(rows)) <= PendingMax
<1>. DEFINE n == Excess(rows)
<1>1. n \in Nat /\ n <= Len(rows) /\ Len(rows) - n <= PendingMax
  BY IngestAssumption DEF Excess
<1>2. Len(Newest(rows)) = Len(rows) - n
  BY <1>1 DEF Newest
<1>. QED
  BY <1>1, <1>2

(* A step that empties what a flush held, or gives back what fits.         *)
LEMMA IdleRoom ==
    ASSUME Room, flush' = "idle", Len(queue') <= QueueMax,
           \A t \in Fed : Len(pending'[t]) <= PendingMax
    PROVE  Room'
BY DEF Room

LEMMA NextRoom == TypeOK /\ Staged /\ Room /\ [Next]_vars => Room'
<1>. SUFFICES ASSUME TypeOK, Staged, Room, [Next]_vars PROVE Room'
  OBVIOUS
<1>. USE DEF buffer, thread, plant, database, history
<1>1. ASSUME NEW k \in Metrics, NotifyMetric(k) \/ NotifyBadStatus(k)
      PROVE  Room'
  BY <1>1, ItemOfMetric, PutRoom DEF NotifyMetric, NotifyBadStatus
<1>2. ASSUME NEW t \in Tags, NEW ok \in BOOLEAN, NotifyTag(t, ok)
      PROVE  Room'
  BY <1>2, ItemOfTag, PutRoom DEF NotifyTag
<1>3. CASE AddModel
  <2>1. UNCHANGED <<queue, flush, batch>> /\ flush # "decoding"
    BY <1>3 DEF AddModel, LoopFree
  <2>2. \A t \in Fed : pending'[t] = pending[t]
    BY <1>3 DEF AddModel, Fed, TypeOK, Batches
  <2>3. \A t, m, i : Within(t, m, i)' <=> Within(t, m, i)
    BY DEF Within
  <2>. QED
    BY <2>1, <2>2, <2>3 DEF Room
<1>4. CASE Tick \/ FinalFlush
  BY <1>4, FlushRoom DEF Tick, FinalFlush, Staged
<1>5. CASE DropItem \/ SkipResent
  BY <1>5, DecodeRoom DEF DropItem, SkipResent
<1>6. CASE KeepRows
  BY <1>6, DecodeRoom DEF KeepRows
<1>7. \A t \in Fed : t \in Tables /\ Len(Empty[t]) = 0 /\ Empty[t] = <<>>
  BY DEF Empty, Fed
<1>8. PendingMax \in Nat /\ QueueMax \in Nat /\ Len(queue) <= QueueMax
  BY IngestAssumption DEF Room
<1>9. CASE BeginWrite
  <2>1. UNCHANGED queue /\ pending' = Empty /\ flush = "decoding" /\ Len(queue) = 0
    BY <1>9 DEF BeginWrite
  <2>2. CASE flush' = "idle"
    BY <1>7, <1>8, <2>1, <2>2, IdleRoom
  <2>3. CASE flush' = "writing" /\ batch' = pending
    <3>1. QueueMax - Len(queue) = QueueMax
      BY <1>8, <2>1
    <3>2. \A t \in Fed : Within(t, Len(batch'[t]), QueueMax)
      BY <2>1, <2>3, <3>1 DEF Room
    <3>3. \A t, m, i : Within(t, m, i)' <=> Within(t, m, i)
      BY DEF Within
    <3>. QED
      BY <1>7, <1>8, <2>1, <2>3, <3>2, <3>3 DEF Room
  <2>. QED
    BY <1>9, <2>2, <2>3 DEF BeginWrite
<1>10. CASE FlushDone \/ EndSession
  <2>1. UNCHANGED <<queue, pending>> /\ flush' = "idle" /\ flush # "decoding"
    BY <1>10 DEF FlushDone, EndSession, LoopFree
  <2>2. \A t \in Fed : Len(pending'[t]) <= PendingMax
    BY <1>8, <2>1 DEF Room, TypeOK
  <2>. QED
    BY <1>8, <2>1, <2>2, IdleRoom
<1>11. CASE FlushFailed
  <2>1. UNCHANGED queue /\ flush' = "idle" /\ flush = "writing"
        /\ pending' = [t \in Tables |-> Requeued(t)]
    BY <1>11 DEF FlushFailed
  <2>2. ASSUME NEW t \in Fed
        PROVE  Len(pending'[t]) <= PendingMax
    <3>1. t \in Tables /\ pending[t] = <<>> /\ batch[t] \in Seq(Row)
      BY <2>1 DEF Room, Fed, TypeOK, Batches
    <3>2. Merged(t) \in Seq(Row) /\ Len(pending[t]) = 0
      BY <3>1 DEF Merged
    <3>3. pending'[t] = Requeued(t)
      BY <2>1, <3>1
    <3>. QED
      BY <1>8, <3>2, <3>3, NewestLength DEF Requeued
  <2>. QED
    BY <1>8, <2>1, <2>2, IdleRoom
<1>12. CASE Crash
  <2>1. queue' = <<>> /\ pending' = Empty /\ flush' = "idle"
    BY <1>12 DEF Crash
  <2>. QED
    BY <1>7, <1>8, <2>1, IdleRoom
<1>13. CASE \/ Extractor \/ NewSession \/ StartWrite \/ Writer \/ Orphan
            \/ LoseConnection \/ UNCHANGED vars
  <2>1. UNCHANGED <<queue, pending, batch, flush>>
    BY <1>13 DEF Extractor, Publish, NewSession, StartWrite, Writer, Commit,
         Rollback, LostAck, Orphan, OrphanCommit, OrphanFail, LoseConnection, vars
  <2>. QED
    BY <2>1, StillRoom
<1>. QED
  BY <1>1, <1>2, <1>3, <1>4, <1>5, <1>6, <1>9, <1>10, <1>11, <1>12, <1>13
     DEF Next, Notification, Flushing

LEMMA Sum ==
    ASSUME NEW m \in Nat, NEW n \in Nat
    PROVE  m + n \in Nat /\ (m = 0 => m + n = n) /\ (n = 0 => m + n = m)
OBVIOUS

LEMMA RoomIsFlat == TypeOK /\ Staged /\ Room => MemoryFlat
<1>. SUFFICES ASSUME TypeOK, Staged, Room, NEW t \in Fed
              PROVE  Within(t, Len(batch[t]) + Len(pending[t]), QueueMax)
  BY DEF MemoryFlat, Within, Fed
<1>1. t \in Tables /\ Len(batch[t]) \in Nat /\ Len(pending[t]) \in Nat
  BY DEF Fed, TypeOK, Batches
<1>2. /\ QueueMax \in Nat /\ PendingMax \in Nat /\ Len(queue) \in Nat
      /\ Len(queue) <= QueueMax
  BY IngestAssumption DEF TypeOK, Room
<1>3. ASSUME flush # "writing"
      PROVE  Len(batch[t]) = 0
  <2>1. batch = Empty
    BY <1>3 DEF Staged
  <2>. QED
    BY <1>1, <2>1 DEF Empty
<1>4. CASE flush = "idle"
  <2>0. Len(batch[t]) = 0 /\ Len(pending[t]) <= PendingMax
    BY <1>3, <1>4 DEF Room
  <2>1. Len(batch[t]) + Len(pending[t]) <= PendingMax
    <3>1. Len(batch[t]) + Len(pending[t]) = Len(pending[t])
      BY <1>1, <2>0, Sum, Zenon
    <3>. QED
      BY <2>0, <3>1
  <2>2. Len(batch[t]) + Len(pending[t]) \in Nat
    BY <1>1, Sum, Zenon
  <2>. QED
    BY <1>1, <1>2, <2>1, <2>2, WithinPendingMax
<1>5. CASE flush = "writing"
  <2>1. Len(pending[t]) = 0 /\ Within(t, Len(batch[t]), QueueMax)
    BY <1>5 DEF Room
  <2>2. Len(batch[t]) + Len(pending[t]) = Len(batch[t])
    BY <1>1, <2>1, Sum, Zenon
  <2>. QED
    BY <2>1, <2>2
<1>6. CASE flush = "decoding"
  <2>0. Len(batch[t]) = 0
    BY <1>3, <1>6
  <2>1. Len(batch[t]) + Len(pending[t]) = Len(pending[t])
    BY <1>1, <2>0, Sum, Zenon
  <2>2. Within(t, Len(pending[t]), QueueMax - Len(queue))
    BY <1>6 DEF Room
  <2>3. PICK k \in Keys : /\ Table[k] = t
                          /\ Len(pending[t]) <= PendingMax + (QueueMax - Len(queue)) * Weight(k)
    BY <2>2 DEF Within
  <2>4. (QueueMax - Len(queue)) * Weight(k) <= QueueMax * Weight(k)
    BY <1>2, WeightType, FewerItems
  <2>5. Len(pending[t]) <= PendingMax + QueueMax * Weight(k)
    <3>1. Weight(k) \in Nat /\ QueueMax - Len(queue) \in Nat
      BY <1>2, WeightType
    <3>2. QueueMax * Weight(k) \in Nat /\ (QueueMax - Len(queue)) * Weight(k) \in Nat
      BY <1>2, <3>1, Product
    <3>. QED
      BY <1>1, <1>2, <2>3, <2>4, <3>2
  <2>. QED
    BY <2>1, <2>3, <2>5 DEF Within
<1>. QED
  BY <1>4, <1>5, <1>6 DEF TypeOK

(* The buffers of a table fed by the queue never hold more than the        *)
(* requeue bound and what one full queue decodes to, however many rows a   *)
(* reading has and whatever is retried, cancelled or restarted             *)
(* (ingest.py 26-35, 100-113).                                             *)
THEOREM MemoryStaysFlat == Spec => []MemoryFlat
<1>1. Init => TypeOK /\ Staged /\ Room
  BY InitIInv, InitRoom DEF IInv
<1>2. TypeOK /\ Staged /\ Room /\ [Next]_vars => (TypeOK /\ Staged /\ Room)'
  BY NextType, NextStaged, NextRoom
<1>. QED
  BY <1>1, <1>2, RoomIsFlat, PTL DEF Spec

-----------------------------------------------------------------------------
(* The oldest rows go first.                                               *)

Sorted(rows) == \A i, j \in 1 .. Len(rows) : i <= j => rows[i].at <= rows[j].at

LEMMA RowAt == \A r \in Row : r.at \in Nat
BY DEF Row

LEMMA SortedConcat ==
    ASSUME NEW s \in Seq(Row), NEW u \in Seq(Row), Sorted(s), Sorted(u),
           \A r \in Range(s), v \in Range(u) : r.at <= v.at
    PROVE  Sorted(s \o u)
<1>. DEFINE w == s \o u
<1>1. /\ Len(w) = Len(s) + Len(u) /\ Len(s) \in Nat /\ Len(u) \in Nat
      /\ \A i \in 1 .. Len(s) : w[i] = s[i]
      /\ \A i \in 1 .. Len(u) : w[Len(s) + i] = u[i]
  OBVIOUS
<1>2. /\ Range(s) = {s[i] : i \in 1 .. Len(s)}
      /\ Range(u) = {u[i] : i \in 1 .. Len(u)}
  BY RangeEquality
<1>3. SUFFICES ASSUME NEW i \in 1 .. Len(w), NEW j \in 1 .. Len(w), i <= j
               PROVE  w[i].at <= w[j].at
  BY DEF Sorted
<1>4. CASE j \in 1 .. Len(s)
  <2>1. i \in 1 .. Len(s)
    BY <1>1, <1>3, <1>4
  <2>. QED
    BY <1>1, <1>3, <1>4, <2>1 DEF Sorted
<1>5. CASE j \notin 1 .. Len(s)
  <2>. DEFINE m == j - Len(s)
  <2>1. m \in 1 .. Len(u) /\ w[j] = u[m]
    <3>1. m \in 1 .. Len(u) /\ j = Len(s) + m
      BY <1>1, <1>3, <1>5
    <3>. QED
      BY <1>1, <3>1
  <2>. HIDE DEF m
  <2>2. CASE i \in 1 .. Len(s)
    BY <1>1, <1>2, <2>1, <2>2
  <2>3. CASE i \notin 1 .. Len(s)
    <3>. DEFINE l == i - Len(s)
    <3>1. l \in 1 .. Len(u) /\ l <= m /\ i = Len(s) + l
      BY <1>1, <1>3, <2>3 DEF m
    <3>2. w[i] = u[l]
      BY <1>1, <3>1
    <3>. HIDE DEF l
    <3>. QED
      BY <2>1, <3>1, <3>2 DEF Sorted
  <2>. QED
    BY <2>2, <2>3
<1>. QED
  BY <1>4, <1>5

(* What truncation keeps is sorted and no older than what it gives up.     *)
LEMMA NewestSorted ==
    ASSUME NEW rows \in Seq(Row), Sorted(rows)
    PROVE  /\ Sorted(Newest(rows))
           /\ \A r \in Range(rows) \ Range(Newest(rows)), s \in Range(Newest(rows)) :
                r.at <= s.at
<1>. DEFINE n == Excess(rows)
            kept == Newest(rows)
<1>1. n \in Nat /\ n <= Len(rows) /\ Len(rows) \in Nat
  BY IngestAssumption DEF Excess
<1>2. /\ kept \in Seq(Row) /\ Len(kept) = Len(rows) - n
      /\ \A i \in 1 .. Len(rows) - n : kept[i] = rows[n + i]
  BY <1>1 DEF Newest
<1>3. /\ Range(kept) = {kept[i] : i \in 1 .. Len(kept)}
      /\ Range(rows) = {rows[i] : i \in 1 .. Len(rows)}
  BY <1>2, RangeEquality
<1>. HIDE DEF n, kept
<1>4. \A i \in 1 .. Len(kept) : kept[i] = rows[n + i] /\ n + i \in 1 .. Len(rows)
  BY <1>1, <1>2
<1>5. ASSUME NEW i \in 1 .. Len(kept), NEW j \in 1 .. Len(kept), i <= j
      PROVE  kept[i].at <= kept[j].at
  <2>1. n + i <= n + j
    BY <1>1, <1>5
  <2>. QED
    BY <1>4, <2>1 DEF Sorted
<1>6. ASSUME NEW r \in Range(rows), r \notin Range(kept), NEW s \in Range(kept)
      PROVE  r.at <= s.at
  <2>1. PICK i \in 1 .. Len(rows) : r = rows[i]
    BY <1>3
  <2>2. PICK j \in 1 .. Len(kept) : s = kept[j]
    BY <1>3
  <2>3. i <= n
    <3>1. SUFFICES ASSUME i > n PROVE FALSE
      BY <1>1
    <3>2. i - n \in 1 .. Len(kept) /\ n + (i - n) = i
      BY <1>1, <1>2, <3>1
    <3>3. kept[i - n] = rows[n + (i - n)]
      BY <1>4, <3>2
    <3>4. kept[i - n] = r
      BY <2>1, <3>2, <3>3
    <3>. QED
      BY <1>3, <1>6, <3>2, <3>4
  <2>4. i <= n + j /\ n + j \in 1 .. Len(rows)
    BY <1>1, <1>4, <2>3
  <2>. QED
    BY <1>4, <2>1, <2>2, <2>4 DEF Sorted
<1>. QED
  BY <1>5, <1>6 DEF Sorted, kept

(* Rows of a table fed by the queue are decoded, held and given up in the  *)
(* order of their arrival.                                                 *)
QueueOrdered ==
    /\ \A i, j \in 1 .. Len(queue) : i < j => queue[i].at < queue[j].at
    /\ \A r \in decoded : Table[r.key] \in Fed =>
         \A i \in 1 .. Len(queue) : r.at < queue[i].at
RowsOrdered ==
    \A t \in Fed :
        /\ Sorted(Merged(t))
        /\ \A r \in lost["evicted"] : Table[r.key] = t =>
             \A s \in Range(Merged(t)) : r.at <= s.at
Ordered == QueueOrdered /\ RowsOrdered

LEMMA InitOrdered == Init => Ordered
<1>. SUFFICES ASSUME Init PROVE Ordered
  OBVIOUS
<1>1. \A t \in Fed : Merged(t) = <<>>
  BY DEF Init, Empty, Merged, Fed
<1>2. lost["evicted"] = {}
  BY DEF Init, Causes
<1>3. QueueOrdered
  BY DEF Init, QueueOrdered
<1>4. RowsOrdered
  BY <1>1, <1>2 DEF RowsOrdered, Sorted
<1>. QED
  BY <1>3, <1>4 DEF Ordered

(* A step that touches neither the queue nor the rows of a table.          *)
LEMMA StillOrdered ==
    ASSUME Ordered, UNCHANGED <<queue, pending, batch, decoded>>,
           lost'["evicted"] = lost["evicted"]
    PROVE  Ordered'
<1>1. \A t : Merged(t)' = Merged(t)
  BY DEF Merged
<1>2. QueueOrdered'
  BY DEF Ordered, QueueOrdered
<1>3. RowsOrdered'
  BY <1>1 DEF Ordered, RowsOrdered
<1>. QED
  BY <1>2, <1>3 DEF Ordered

LEMMA PutOrdered ==
    ASSUME TypeOK, Numbered, QueueOrdered, NEW item \in Item,
           item.at = arrivals + 1, queue' = Enqueued(item), UNCHANGED decoded
    PROVE  QueueOrdered'
<1>1. PICK n \in Nat, d \in {0, 1} :
        /\ Len(queue') = n + 1
        /\ \A i \in 1 .. n : queue'[i] = queue[i + d] /\ i + d \in 1 .. Len(queue)
        /\ queue'[n + 1] = item
  BY EnqueuedItems DEF TypeOK
<1>2. arrivals \in Nat /\ \A r \in decoded : r.at \in Nat /\ r.at <= arrivals
  BY RowAt DEF TypeOK, Numbered
<1>3. \A i \in 1 .. Len(queue) : queue[i].at \in Nat /\ queue[i].at <= arrivals
  <2>1. \A i \in 1 .. Len(queue) : queue[i] \in Item
    BY DEF TypeOK
  <2>. QED
    BY <2>1 DEF Item, Numbered
<1>4. ASSUME NEW i \in 1 .. Len(queue'), NEW j \in 1 .. Len(queue'), i < j
      PROVE  queue'[i].at < queue'[j].at
  <2>1. i \in 1 .. n
    BY <1>1, <1>4
  <2>2. queue'[i] = queue[i + d] /\ i + d \in 1 .. Len(queue)
    BY <1>1, <2>1
  <2>3. CASE j = n + 1
    <3>1. queue[i + d].at <= arrivals /\ queue[i + d].at \in Nat
      BY <1>3, <2>2
    <3>. QED
      BY <1>1, <1>2, <2>2, <2>3, <3>1
  <2>4. CASE j # n + 1
    <3>1. j \in 1 .. n /\ i + d < j + d
      BY <1>1, <1>4, <2>4
    <3>2. queue'[j] = queue[j + d] /\ j + d \in 1 .. Len(queue)
      BY <1>1, <3>1
    <3>. QED
      BY <2>2, <3>1, <3>2 DEF QueueOrdered
  <2>. QED
    BY <2>3, <2>4
<1>5. ASSUME NEW r \in decoded, Table[r.key] \in Fed, NEW i \in 1 .. Len(queue')
      PROVE  r.at < queue'[i].at
  <2>1. CASE i = n + 1
    BY <1>1, <1>2, <2>1
  <2>2. CASE i # n + 1
    <3>1. i \in 1 .. n
      BY <1>1, <2>2
    <3>. QED
      BY <1>1, <1>5, <3>1 DEF QueueOrdered
  <2>. QED
    BY <2>1, <2>2
<1>. QED
  BY <1>4, <1>5 DEF QueueOrdered

(* Decoding takes the oldest item: newer than all that was decoded before. *)
LEMMA TailOrdered ==
    ASSUME TypeOK, QueueOrdered, queue # <<>>, queue' = Tail(queue),
           \A r \in decoded' : r \in decoded \/ r.at = Head(queue).at
    PROVE  QueueOrdered'
<1>1. /\ Head(queue) = queue[1] /\ 1 \in 1 .. Len(queue)
      /\ \A i \in 1 .. Len(queue') :
           queue'[i] = queue[i + 1] /\ i + 1 \in 1 .. Len(queue)
  BY TailItems DEF TypeOK
<1>2. ASSUME NEW i \in 1 .. Len(queue'), NEW j \in 1 .. Len(queue'), i < j
      PROVE  queue'[i].at < queue'[j].at
  BY <1>1, <1>2 DEF QueueOrdered
<1>3. ASSUME NEW r \in decoded', Table[r.key] \in Fed, NEW i \in 1 .. Len(queue')
      PROVE  r.at < queue'[i].at
  <2>1. 1 < i + 1
    OBVIOUS
  <2>2. queue[1].at < queue[i + 1].at
    BY <1>1, <2>1 DEF QueueOrdered
  <2>. QED
    BY <1>1, <1>3, <2>2 DEF QueueOrdered
<1>. QED
  BY <1>2, <1>3 DEF QueueOrdered

(* The rows handed to a table are decoded rows of the table.               *)
LEMMA MergedRows ==
    ASSUME IInv, NEW t \in Tables
    PROVE  /\ batch[t] \in Seq(Row) /\ pending[t] \in Seq(Row)
           /\ Merged(t) \in Seq(Row)
           /\ Range(Merged(t)) = Range(batch[t]) \cup Range(pending[t])
           /\ \A r \in Range(Merged(t)) : r \in decoded /\ Table[r.key] = t
<1>1. batch[t] \in Seq(Row) /\ pending[t] \in Seq(Row) /\ Merged(t) \in Seq(Row)
  BY DEF IInv, TypeOK, Batches, Merged
<1>2. Range(Merged(t)) = Range(batch[t]) \cup Range(pending[t])
  BY <1>1, RangeConcatenation DEF Merged
<1>3. Range(pending[t]) \subseteq decoded /\ Range(batch[t]) \subseteq decoded
  BY DEF IInv, Accounting, EveryRowAccounted, Unwritten, Rows, Known
<1>4. \A r \in Range(Merged(t)) : Table[r.key] = t
  BY <1>2 DEF IInv, Filed
<1>. QED
  BY <1>1, <1>2, <1>3, <1>4

LEMMA EvictedDecoded ==
    ASSUME IInv
    PROVE  \A r \in lost["evicted"] : r \in decoded /\ r \in Row
BY DEF IInv, TypeOK, Accounting, EveryRowAccounted, Lost, Causes

LEMMA KeepOrdered ==
    ASSUME IInv, Ordered, KeepRows
    PROVE  Ordered'
<1>. DEFINE item == Head(queue)
            rows == Payload(item)
<1>1. /\ queue # <<>> /\ queue' = Tail(queue) /\ flush = "decoding"
      /\ UNCHANGED <<batch, lost>> /\ Decodes(item)
      /\ decoded' = decoded \cup Range(rows)
      /\ pending' = [pending EXCEPT ![Table[item.key]] = @ \o rows]
  BY DEF KeepRows, Dequeue, thread
<1>2. /\ item \in Item /\ item = queue[1] /\ 1 \in 1 .. Len(queue)
  BY <1>1, TailItems DEF IInv, TypeOK
<1>3. rows \in Seq(Row) /\ \A r \in Range(rows) : r.at = item.at
  BY <1>1, <1>2, PayloadType, PayloadRows
<1>. HIDE DEF item, rows
<1>4. QueueOrdered'
  <2>1. \A r \in decoded' : r \in decoded \/ r.at = Head(queue).at
    BY <1>1, <1>3 DEF item
  <2>. QED
    BY <1>1, <2>1, TailOrdered DEF IInv, Ordered
<1>5. item.at \in Nat
  BY <1>2 DEF Item
<1>6. Sorted(rows)
  <2>1. \A i \in 1 .. Len(rows) : rows[i] \in Range(rows)
    BY <1>3, RangeEquality
  <2>. QED
    BY <1>3, <1>5, <2>1 DEF Sorted
<1>7. ASSUME NEW t \in Fed
      PROVE  /\ Sorted(Merged(t)')
             /\ \A r \in lost'["evicted"] : Table[r.key] = t =>
                  \A s \in Range(Merged(t)') : r.at <= s.at
  <2>1. t \in Tables /\ batch[t] \in Seq(Row) /\ pending[t] \in Seq(Row)
    BY DEF Fed, IInv, TypeOK, Batches
  <2>2. CASE pending'[t] = pending[t]
    <3>1. Merged(t)' = Merged(t)
      BY <1>1, <2>2 DEF Merged
    <3>. QED
      BY <1>1, <3>1 DEF Ordered, RowsOrdered
  <2>3. CASE pending'[t] # pending[t]
    <3>1. Table[item.key] = t /\ pending'[t] = pending[t] \o rows
      BY <1>1, <2>1, <2>3 DEF IInv, TypeOK, Batches
    <3>2. Merged(t)' = Merged(t) \o rows
      <4>1. batch[t] \o (pending[t] \o rows) = (batch[t] \o pending[t]) \o rows
        <5>1. rows \in Seq(Row)
          BY <1>3
        <5>. DEFINE b == batch[t]
                    p == pending[t]
        <5>2. b \in Seq(Row) /\ p \in Seq(Row)
          BY <2>1
        <5>. HIDE DEF b, p
        <5>3. b \o (p \o rows) = (b \o p) \o rows
          BY <5>1, <5>2
        <5>. QED
          BY <5>3 DEF b, p
      <4>. QED
        BY <1>1, <3>1, <4>1 DEF Merged
    <3>3. /\ Merged(t) \in Seq(Row)
          /\ \A r \in Range(Merged(t)) : r \in decoded /\ Table[r.key] = t
      BY <2>1, MergedRows
    <3>4. \A r \in decoded : Table[r.key] = t => r.at <= item.at
      <4>1. \A r \in decoded : r.at \in Nat
        BY RowAt DEF IInv, TypeOK
      <4>2. \A r \in decoded : Table[r.key] = t => r.at < item.at
        BY <1>2 DEF Ordered, QueueOrdered
      <4>. QED
        BY <1>5, <4>1, <4>2
    <3>5. Sorted(Merged(t) \o rows)
      <4>1. Sorted(Merged(t))
        BY DEF Ordered, RowsOrdered
      <4>2. \A r \in Range(Merged(t)), s \in Range(rows) : r.at <= s.at
        BY <1>3, <3>3, <3>4
      <4>. QED
        BY <1>3, <1>6, <3>3, <4>1, <4>2, SortedConcat
    <3>6. Range(Merged(t) \o rows) = Range(Merged(t)) \cup Range(rows)
      BY <1>3, <3>3, RangeConcatenation
    <3>7. ASSUME NEW r \in lost["evicted"], Table[r.key] = t,
                 NEW s \in Range(Merged(t)) \cup Range(rows)
          PROVE  r.at <= s.at
      <4>1. CASE s \in Range(Merged(t))
        BY <3>7, <4>1 DEF Ordered, RowsOrdered
      <4>2. CASE s \in Range(rows)
        BY <1>3, <3>4, <3>7, <4>2, EvictedDecoded
      <4>. QED
        BY <4>1, <4>2
    <3>. QED
      BY <1>1, <3>2, <3>5, <3>6, <3>7
  <2>. QED
    BY <2>2, <2>3
<1>8. RowsOrdered'
  BY <1>7 DEF RowsOrdered
<1>. QED
  BY <1>4, <1>8 DEF Ordered

(* A failed flush gives up the head of a sorted sequence.                  *)
LEMMA RequeueOrdered ==
    ASSUME IInv, Ordered, FlushFailed
    PROVE  Ordered'
<1>1. /\ UNCHANGED <<queue, decoded>> /\ batch' = Empty
      /\ pending' = [t \in Tables |-> Requeued(t)]
      /\ Lose("evicted", UNION {Evicted(t) : t \in Tables})
  BY DEF FlushFailed
<1>2. QueueOrdered'
  BY <1>1 DEF Ordered, QueueOrdered
<1>3. \A r \in lost'["evicted"] :
        r \in lost["evicted"] \/ \E t \in Tables : r \in Evicted(t)
  BY <1>1 DEF Lose, IInv, TypeOK, Causes
<1>4. ASSUME NEW t \in Fed
      PROVE  /\ Sorted(Merged(t)')
             /\ \A r \in lost'["evicted"] : Table[r.key] = t =>
                  \A s \in Range(Merged(t)') : r.at <= s.at
  <2>1. /\ t \in Tables /\ batch[t] \in Seq(Row) /\ pending[t] \in Seq(Row)
        /\ Merged(t) \in Seq(Row)
        /\ \A r \in Range(Merged(t)) : Table[r.key] = t
    BY MergedRows DEF Fed
  <2>2. Merged(t)' = Requeued(t)
    <3>1. batch'[t] = <<>> /\ pending'[t] = Requeued(t)
      BY <1>1, <2>1 DEF Empty
    <3>2. Requeued(t) \in Seq(Row)
      BY <2>1, NewestType DEF Requeued
    <3>. QED
      BY <3>1, <3>2, ConcatEmpty DEF Merged
  <2>3. Sorted(Merged(t))
    BY DEF Ordered, RowsOrdered
  <2>4. /\ Sorted(Requeued(t)) /\ Range(Requeued(t)) \subseteq Range(Merged(t))
        /\ \A r \in Evicted(t), s \in Range(Requeued(t)) : r.at <= s.at
    <3>1. CASE batch[t] = <<>>
      <4>1. Merged(t) = pending[t] /\ Requeued(t) = pending[t] /\ Evicted(t) = {}
        BY <2>1, <3>1, ConcatEmpty DEF Merged, Requeued, Evicted
      <4>. QED
        BY <2>3, <4>1
    <3>2. CASE batch[t] # <<>>
      <4>1. /\ Requeued(t) = Newest(Merged(t))
            /\ Evicted(t) = Range(Merged(t)) \ Range(Newest(Merged(t)))
        BY <3>2 DEF Requeued, Evicted
      <4>. QED
        BY <2>1, <2>3, <4>1, NewestSorted, NewestKeeps
    <3>. QED
      BY <3>1, <3>2
  <2>5. ASSUME NEW r \in lost'["evicted"], Table[r.key] = t,
               NEW s \in Range(Requeued(t))
        PROVE  r.at <= s.at
    <3>1. CASE r \in lost["evicted"]
      BY <2>4, <2>5, <3>1 DEF Ordered, RowsOrdered
    <3>2. CASE \E u \in Tables : r \in Evicted(u)
      <4>1. PICK u \in Tables : r \in Evicted(u)
        BY <3>2
      <4>2. r \in Range(Merged(u))
        BY <4>1 DEF Evicted
      <4>3. u = t
        BY <2>5, <4>2, MergedRows
      <4>. QED
        BY <2>4, <2>5, <4>1, <4>3
    <3>. QED
      BY <1>3, <3>1, <3>2
  <2>. QED
    BY <2>2, <2>4, <2>5
<1>5. RowsOrdered'
  BY <1>4 DEF RowsOrdered
<1>. QED
  BY <1>2, <1>5 DEF Ordered

(* A step that moves rows from one place to the other, or drops them.      *)
LEMMA FewerOrdered ==
    ASSUME Ordered, UNCHANGED decoded, lost'["evicted"] = lost["evicted"],
           UNCHANGED queue \/ queue' = <<>>,
           \A t \in Fed : Merged(t)' = Merged(t) \/ Merged(t)' = <<>>
    PROVE  Ordered'
<1>1. QueueOrdered'
  BY DEF Ordered, QueueOrdered
<1>2. Sorted(<<>>)
  BY DEF Sorted
<1>3. Range(<<>>) = {}
  BY RangeEmpty
<1>4. RowsOrdered'
  BY <1>2, <1>3 DEF Ordered, RowsOrdered
<1>. QED
  BY <1>1, <1>4 DEF Ordered

LEMMA NextOrdered == IInv /\ Room /\ Ordered /\ [Next]_vars => Ordered'
<1>. SUFFICES ASSUME IInv, Room, Ordered, [Next]_vars PROVE Ordered'
  OBVIOUS
<1>. USE DEF buffer, thread, plant, database, history
<1>1. ASSUME NEW item \in Item, item.at = arrivals + 1, Put(item)
      PROVE  Ordered'
  <2>1. QueueOrdered'
    BY <1>1, PutOrdered DEF Put, IInv, Ordered
  <2>2. UNCHANGED <<pending, batch, lost>>
    BY <1>1 DEF Put
  <2>3. \A t : Merged(t)' = Merged(t)
    BY <2>2 DEF Merged
  <2>4. RowsOrdered'
    BY <2>2, <2>3 DEF Ordered, RowsOrdered
  <2>. QED
    BY <2>1, <2>4 DEF Ordered
<1>2. ASSUME NEW k \in Metrics, NotifyMetric(k) \/ NotifyBadStatus(k)
      PROVE  Ordered'
  BY <1>1, <1>2, ItemOfMetric DEF NotifyMetric, NotifyBadStatus, IInv
<1>3. ASSUME NEW t \in Tags, NEW ok \in BOOLEAN, NotifyTag(t, ok)
      PROVE  Ordered'
  BY <1>1, <1>3, ItemOfTag DEF NotifyTag, IInv
<1>4. CASE AddModel
  <2>1. UNCHANGED <<queue, batch, lost>>
    BY <1>4 DEF AddModel
  <2>2. \A r \in decoded' : r \in decoded \/ r.key = Collector
    BY <1>4 DEF AddModel
  <2>3. Table[Collector] \notin Fed
    BY DEF Fed
  <2>4. QueueOrdered'
    BY <2>1, <2>2, <2>3 DEF Ordered, QueueOrdered
  <2>5. \A t \in Fed : pending'[t] = pending[t]
    BY <1>4 DEF AddModel, Fed, IInv, TypeOK, Batches
  <2>6. \A t \in Fed : Merged(t)' = Merged(t)
    BY <2>1, <2>5 DEF Merged
  <2>7. RowsOrdered'
    BY <2>1, <2>6 DEF Ordered, RowsOrdered
  <2>. QED
    BY <2>4, <2>7 DEF Ordered
<1>5. CASE DropItem \/ SkipResent
  <2>1. /\ queue # <<>> /\ queue' = Tail(queue)
        /\ UNCHANGED <<pending, batch, decoded, lost>>
    BY <1>5 DEF DropItem, SkipResent, Dequeue
  <2>2. QueueOrdered'
    BY <2>1, TailOrdered DEF IInv, Ordered
  <2>3. \A t : Merged(t)' = Merged(t)
    BY <2>1 DEF Merged
  <2>4. RowsOrdered'
    BY <2>1, <2>3 DEF Ordered, RowsOrdered
  <2>. QED
    BY <2>2, <2>4 DEF Ordered
<1>6. CASE KeepRows
  BY <1>6, KeepOrdered
<1>7. CASE FlushFailed
  BY <1>7, RequeueOrdered
<1>8. \A t \in Fed : t \in Tables /\ Empty[t] = <<>>
                     /\ batch[t] \in Seq(Row) /\ pending[t] \in Seq(Row)
  BY DEF Fed, Empty, IInv, TypeOK, Batches
<1>. <<>> \o <<>> = <<>>
  OBVIOUS
<1>9. CASE BeginWrite
  <2>1. UNCHANGED <<queue, decoded, lost>> /\ pending' = Empty /\ batch = Empty
    BY <1>9 DEF BeginWrite, IInv, Staged
  <2>2. batch' = batch \/ batch' = pending
    BY <1>9 DEF BeginWrite
  <2>3. ASSUME NEW t \in Fed
        PROVE  Merged(t)' = Merged(t) \/ Merged(t)' = <<>>
    <3>1. CASE batch' = batch
      <4>1. batch'[t] = <<>> /\ pending'[t] = <<>>
        BY <1>8, <2>1, <3>1
      <4>. QED
        BY <4>1 DEF Merged
    <3>2. CASE batch' = pending
      BY <1>8, <2>1, <3>2, ConcatEmpty DEF Merged
    <3>. QED
      BY <2>2, <3>1, <3>2
  <2>. QED
    BY <2>1, <2>3, FewerOrdered
<1>10. CASE FlushDone \/ EndSession
  <2>1. UNCHANGED <<queue, decoded, pending>> /\ batch' = Empty
    BY <1>10 DEF FlushDone, EndSession
  <2>2. lost'["evicted"] = lost["evicted"]
    BY <1>10 DEF FlushDone, EndSession, Lose, IInv, TypeOK, Causes
  <2>3. ASSUME NEW t \in Fed
        PROVE  Merged(t)' = Merged(t) \/ Merged(t)' = <<>>
    <3>1. CASE flush = "writing"
      <4>1. pending[t] = <<>>
        BY <3>1 DEF Room
      <4>2. batch'[t] = <<>> /\ pending'[t] = <<>>
        BY <1>8, <2>1, <4>1
      <4>. QED
        BY <4>2 DEF Merged
    <3>2. CASE flush # "writing"
      <4>1. batch = Empty
        BY <3>2 DEF IInv, Staged
      <4>. QED
        BY <2>1, <4>1 DEF Merged
    <3>. QED
      BY <3>1, <3>2
  <2>. QED
    BY <2>1, <2>2, <2>3, FewerOrdered
<1>11. CASE Crash
  <2>1. UNCHANGED decoded /\ queue' = <<>> /\ pending' = Empty /\ batch' = Empty
    BY <1>11 DEF Crash
  <2>2. lost'["evicted"] = lost["evicted"]
    BY <1>11 DEF Crash, Lose, IInv, TypeOK, Causes
  <2>3. \A t \in Fed : Merged(t)' = <<>>
    BY <1>8, <2>1 DEF Merged
  <2>. QED
    BY <2>1, <2>2, <2>3, FewerOrdered
<1>12. CASE Orphan
  <2>1. UNCHANGED <<queue, pending, batch, decoded>>
    BY <1>12 DEF Orphan, OrphanCommit, OrphanFail
  <2>2. lost'["evicted"] = lost["evicted"]
    BY <1>12 DEF Orphan, OrphanCommit, OrphanFail, Lose, IInv, TypeOK, Causes
  <2>. QED
    BY <2>1, <2>2, StillOrdered
<1>13. CASE \/ Extractor \/ NewSession \/ Tick \/ FinalFlush \/ StartWrite
            \/ Writer \/ LoseConnection \/ UNCHANGED vars
  <2>1. UNCHANGED <<queue, pending, batch, decoded, lost>>
    BY <1>13 DEF Extractor, Publish, NewSession, Tick, FinalFlush, StartWrite,
         Writer, Commit, Rollback, LostAck, LoseConnection, vars
  <2>. QED
    BY <2>1, StillOrdered
<1>. QED
  BY <1>2, <1>3, <1>4, <1>5, <1>6, <1>7, <1>9, <1>10, <1>11, <1>12, <1>13
     DEF Next, Notification, Flushing

LEMMA OrderedEvicts == IInv /\ Ordered => OldestEvictedFirst
<1>. SUFFICES ASSUME IInv, Ordered, NEW r \in lost["evicted"],
                     NEW s \in Rows(pending) \cup Writing,
                     Table[r.key] = Table[s.key], Table[r.key] # Table[Collector]
              PROVE  r.at <= s.at
  BY DEF OldestEvictedFirst
<1>1. s \in Rows(pending) \cup Rows(batch)
  BY DEF Writing
<1>2. PICK t \in Tables : s \in Range(batch[t]) \cup Range(pending[t])
  BY <1>1 DEF Rows
<1>3. s \in Range(Merged(t)) /\ Table[s.key] = t
  BY <1>2, MergedRows
<1>4. t \in Fed
  BY <1>3 DEF Fed
<1>. QED
  BY <1>3, <1>4 DEF Ordered, RowsOrdered

(* Of a table fed by the queue the oldest rows are evicted first, whatever *)
(* fails, is cancelled or restarted in between (ingest.py 26, 100-113).    *)
THEOREM OldestGoFirst == Spec => []OldestEvictedFirst
<1>1. Init => IInv /\ Room /\ Ordered
  BY InitIInv, InitRoom, InitOrdered
<1>2. IInv /\ Room /\ Ordered /\ [Next]_vars => (IInv /\ Room /\ Ordered)'
  BY NextIInv, NextRoom, NextOrdered DEF IInv
<1>. QED
  BY <1>1, <1>2, OrderedEvicts, PTL DEF Spec
=============================================================================
