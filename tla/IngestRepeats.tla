---------------------------- MODULE IngestRepeats ----------------------------
(***************************************************************************)
(* What the first-value test of Ingest promises, for every choice of the   *)
(* constants: while the clock moves forward nothing new is skipped, and no *)
(* publication is stored once more than the faults excuse.                 *)
(***************************************************************************)
EXTENDS IngestBounds, FiniteSetTheorems

-----------------------------------------------------------------------------
(* First values.                                                           *)

(* While the clock moves forward a publication is its timestamp: the queue *)
(* repeats publications of a metric in order, none older than the last one *)
(* decoded and none newer than the node's.                                 *)
ItemInOrder(item) ==
    item.key \in Metrics =>
        /\ item.ts = item.id
        /\ lastTimestamp[item.key] <= item.id
        /\ item.id <= node[item.key].id
InOrder ==
    /\ \A k \in Metrics : /\ node[k].ts = node[k].id
                          /\ lastTimestamp[k] <= node[k].id
    /\ \A i \in 1 .. Len(queue) : ItemInOrder(queue[i])
    /\ \A i, j \in 1 .. Len(queue) :
        i <= j /\ queue[i].key = queue[j].key /\ queue[i].key \in Metrics
            => queue[i].id <= queue[j].id
WasDecoded(k, n) == \E r \in decoded : r.key = k /\ r.id = n
Remembered ==
    /\ \A k \in Metrics : lastTimestamp[k] # 0 => WasDecoded(k, lastTimestamp[k])
    /\ \A v \in suppressed : WasDecoded(v.key, v.id)
Repeats == faults["clock"] = 0 => InOrder /\ Remembered

LEMMA InitRepeats == Init => Repeats
BY DEF Init, Repeats, InOrder, Remembered

LEMMA NodeType ==
    ASSUME TypeOK, NEW k \in Metrics
    PROVE  node[k].id \in Nat /\ node[k].ts \in Nat /\ lastTimestamp[k] \in Nat
BY DEF TypeOK

LEMMA ItemType ==
    ASSUME TypeOK
    PROVE  \A i \in 1 .. Len(queue) :
             queue[i] \in Item /\ queue[i].id \in Nat /\ queue[i].ts \in Nat
<1>1. \A i \in 1 .. Len(queue) : queue[i] \in Item
  BY DEF TypeOK
<1>. QED
  BY <1>1 DEF Item

(* Publishing with the clock's next value.                                 *)
LEMMA PublishRepeats ==
    ASSUME TypeOK, Repeats, NEW k \in Metrics, NEW ts \in 1 .. MaxPublish,
           Publish(k, ts)
    PROVE  Repeats'
<1>. USE DEF buffer, thread, database
<1>1. faults["clock"] \in Nat
  BY DEF TypeOK, FaultKinds
<1>2. CASE Spend("clock")
  <2>1. faults'["clock"] = faults["clock"] + 1
    BY <1>2 DEF Spend, TypeOK, FaultKinds
  <2>. QED
    BY <1>1, <2>1 DEF Repeats
<1>3. CASE ts = node[k].ts + 1 /\ UNCHANGED faults
  <2>1. SUFFICES ASSUME faults["clock"] = 0
                 PROVE  InOrder' /\ Remembered'
    BY <1>3 DEF Repeats
  <2>2. InOrder /\ Remembered
    BY <2>1 DEF Repeats
  <2>3. UNCHANGED <<queue, lastTimestamp, decoded, suppressed>>
    BY DEF Publish
  <2>4. \A m \in Metrics :
          /\ node'[m].ts = node'[m].id
          /\ node[m].id <= node'[m].id /\ node[m].id \in Nat /\ node'[m].id \in Nat
    <3>1. \A m \in Metrics : m # k => node'[m] = node[m]
      BY DEF Publish, TypeOK
    <3>2. node'[k] = [id |-> node[k].id + 1, ts |-> node[k].ts + 1]
      BY <1>3 DEF Publish, TypeOK
    <3>3. node[k].ts = node[k].id
      BY <2>2 DEF InOrder
    <3>4. node'[k].id = node[k].id + 1 /\ node'[k].ts = node[k].id + 1
      BY <3>2, <3>3
    <3>5. \A m \in Metrics : node[m].ts = node[m].id
      BY <2>2 DEF InOrder
    <3>. QED
      BY <3>1, <3>4, <3>5, NodeType
  <2>5. \A m \in Metrics : lastTimestamp[m] \in Nat
    BY NodeType
  <2>6. Remembered'
    BY <2>2, <2>3 DEF Remembered, WasDecoded
  <2>7. \A m \in Metrics : lastTimestamp'[m] <= node'[m].id
    BY <2>2, <2>3, <2>4, <2>5 DEF InOrder
  <2>8. ASSUME NEW i \in 1 .. Len(queue)
        PROVE  ItemInOrder(queue[i])'
    <3>1. ItemInOrder(queue[i]) /\ queue[i].id \in Nat
      BY <2>2, ItemType DEF InOrder
    <3>. QED
      BY <2>3, <2>4, <3>1 DEF ItemInOrder
  <2>. QED
    BY <2>2, <2>3, <2>4, <2>6, <2>7, <2>8 DEF InOrder
<1>. QED
  BY <1>2, <1>3 DEF Publish

(* A step that leaves the queue and what is remembered alone.              *)
LEMMA StillRepeats ==
    ASSUME Repeats, UNCHANGED <<queue, node, lastTimestamp, decoded, suppressed>>,
           faults'["clock"] = faults["clock"]
    PROVE  Repeats'
<1>1. InOrder => InOrder'
  BY DEF InOrder, ItemInOrder
<1>2. Remembered => Remembered'
  BY DEF Remembered, WasDecoded
<1>. QED
  BY <1>1, <1>2 DEF Repeats

LEMMA PutRepeats ==
    ASSUME TypeOK, Repeats, NEW item \in Item, queue' = Enqueued(item),
           item.key \in Metrics =>
             item.id = node[item.key].id /\ item.ts = node[item.key].ts,
           UNCHANGED <<node, lastTimestamp, decoded, suppressed>>,
           faults'["clock"] = faults["clock"]
    PROVE  Repeats'
<1>1. SUFFICES ASSUME faults["clock"] = 0
               PROVE  InOrder' /\ Remembered'
  BY DEF Repeats
<1>2. InOrder /\ Remembered
  BY <1>1 DEF Repeats
<1>3. Remembered'
  BY <1>2 DEF Remembered, WasDecoded
<1>4. PICK n \in Nat, d \in {0, 1} :
        /\ Len(queue') = n + 1
        /\ \A i \in 1 .. n : queue'[i] = queue[i + d] /\ i + d \in 1 .. Len(queue)
        /\ queue'[n + 1] = item
  BY EnqueuedItems DEF TypeOK
<1>5. ItemInOrder(item)
  <2>1. SUFFICES ASSUME item.key \in Metrics
                 PROVE  /\ item.ts = item.id
                        /\ lastTimestamp[item.key] <= item.id
                        /\ item.id <= node[item.key].id
    BY DEF ItemInOrder
  <2>2. item.id = node[item.key].id /\ item.id \in Nat
    BY <2>1, NodeType
  <2>3. item.ts = item.id /\ lastTimestamp[item.key] <= item.id
    BY <1>2, <2>1, <2>2 DEF InOrder
  <2>. QED
    BY <2>2, <2>3
<1>6. ASSUME NEW i \in 1 .. Len(queue')
      PROVE  queue'[i] = item \/ \E j \in 1 .. Len(queue) : queue'[i] = queue[j]
  <2>1. CASE i = n + 1
    BY <1>4, <2>1
  <2>2. CASE i # n + 1
    <3>1. i \in 1 .. n
      BY <1>4, <2>2
    <3>. QED
      BY <1>4, <3>1
  <2>. QED
    BY <2>1, <2>2
<1>7. \A i \in 1 .. Len(queue') : ItemInOrder(queue'[i])
  <2>1. \A j \in 1 .. Len(queue) : ItemInOrder(queue[j])
    BY <1>2 DEF InOrder
  <2>. QED
    BY <1>5, <1>6, <2>1
<1>8. ASSUME NEW i \in 1 .. Len(queue'), NEW j \in 1 .. Len(queue'), i <= j,
             queue'[i].key = queue'[j].key, queue'[i].key \in Metrics
      PROVE  queue'[i].id <= queue'[j].id
  <2>1. CASE j = n + 1
    <3>1. queue'[j] = item /\ queue'[i].key = item.key
      BY <1>4, <1>8, <2>1
    <3>2. queue'[i].id <= node[item.key].id
      BY <1>7, <1>8, <3>1 DEF ItemInOrder
    <3>3. node[item.key].id = item.id
      BY <1>8, <3>1
    <3>. QED
      BY <3>1, <3>2, <3>3
  <2>2. CASE j # n + 1
    <3>1. i \in 1 .. n /\ j \in 1 .. n /\ i + d <= j + d
      BY <1>4, <1>8, <2>2
    <3>2. /\ queue'[i] = queue[i + d] /\ i + d \in 1 .. Len(queue)
          /\ queue'[j] = queue[j + d] /\ j + d \in 1 .. Len(queue)
      BY <1>4, <3>1
    <3>. QED
      BY <1>2, <1>8, <3>1, <3>2 DEF InOrder
  <2>. QED
    BY <2>1, <2>2
<1>9. \A k \in Metrics : node'[k].ts = node'[k].id /\ lastTimestamp'[k] <= node'[k].id
  BY <1>2 DEF InOrder
<1>10. \A x : ItemInOrder(x)' <=> ItemInOrder(x)
  BY DEF ItemInOrder
<1>11. \A i \in 1 .. Len(queue') : ItemInOrder(queue[i])'
  BY <1>7, <1>10 DEF ItemInOrder
<1>. QED
  BY <1>3, <1>8, <1>9, <1>11 DEF InOrder

(* The head of the queue leaves; only its own metric's timestamp may grow, *)
(* and to no more than the head's.                                         *)
LEMMA TailInOrder ==
    ASSUME TypeOK, InOrder, queue # <<>>, queue' = Tail(queue), UNCHANGED node,
           lastTimestamp' \in [Metrics -> Nat],
           \A k \in Metrics :
             \/ lastTimestamp'[k] = lastTimestamp[k]
             \/ k = Head(queue).key /\ lastTimestamp'[k] = Head(queue).id
    PROVE  InOrder'
<1>1. /\ Head(queue) = queue[1] /\ 1 \in 1 .. Len(queue)
      /\ \A i \in 1 .. Len(queue') :
           queue'[i] = queue[i + 1] /\ i + 1 \in 1 .. Len(queue)
  BY TailItems DEF TypeOK
<1>2. ASSUME NEW k \in Metrics
      PROVE  node'[k].ts = node'[k].id /\ lastTimestamp'[k] <= node'[k].id
  <2>1. node'[k].ts = node'[k].id
    BY DEF InOrder
  <2>2. CASE lastTimestamp'[k] = lastTimestamp[k]
    BY <2>1, <2>2 DEF InOrder
  <2>3. CASE k = Head(queue).key /\ lastTimestamp'[k] = Head(queue).id
    <3>1. ItemInOrder(queue[1])
      BY <1>1 DEF InOrder
    <3>. QED
      BY <1>1, <2>1, <2>3, <3>1 DEF ItemInOrder
  <2>. QED
    BY <2>1, <2>2, <2>3
<1>3. ASSUME NEW i \in 1 .. Len(queue'), NEW j \in 1 .. Len(queue'), i <= j,
             queue'[i].key = queue'[j].key, queue'[i].key \in Metrics
      PROVE  queue'[i].id <= queue'[j].id
  <2>1. i + 1 <= j + 1
    BY <1>3
  <2>. QED
    BY <1>1, <1>3, <2>1 DEF InOrder
<1>4. ASSUME NEW i \in 1 .. Len(queue'), queue'[i].key \in Metrics
      PROVE  /\ queue'[i].ts = queue'[i].id
             /\ lastTimestamp'[queue'[i].key] <= queue'[i].id
             /\ queue'[i].id <= node'[queue'[i].key].id
  <2>. DEFINE item == queue[i + 1]
              k == item.key
  <2>1. item = queue'[i] /\ i + 1 \in 1 .. Len(queue) /\ 1 <= i + 1
    BY <1>1
  <2>2. ItemInOrder(item)
    BY <2>1 DEF InOrder
  <2>. HIDE DEF item
  <2>3. /\ k \in Metrics /\ item.ts = item.id
        /\ lastTimestamp[k] <= item.id /\ item.id <= node[k].id
    BY <1>4, <2>1, <2>2 DEF ItemInOrder
  <2>4. CASE lastTimestamp'[k] = lastTimestamp[k]
    BY <2>1, <2>3, <2>4
  <2>5. CASE k = Head(queue).key /\ lastTimestamp'[k] = Head(queue).id
    <3>1. queue[1].id <= queue[i + 1].id
      BY <1>1, <2>1, <2>3, <2>5 DEF InOrder, item
    <3>2. lastTimestamp'[k] <= item.id
      BY <1>1, <2>5, <3>1 DEF item
    <3>. QED
      BY <2>1, <2>3, <3>2
  <2>. QED
    BY <2>3, <2>4, <2>5
<1>. QED
  BY <1>2, <1>3, <1>4 DEF InOrder, ItemInOrder

(* The newest row of a payload is the publication the item announced.      *)
LEMMA PayloadNewest ==
    ASSUME NEW item \in Item, Decodes(item)
    PROVE  \E r \in Range(Payload(item)) : r.key = item.key /\ r.id = item.id
<1>1. PayloadSize(item) \in Nat \ {0} /\ item.id \in Nat
  BY IngestAssumption DEF PayloadSize, WindowSize, Item, Decodes, Min2
<1>. DEFINE n == PayloadSize(item)
<1>2. n \in 1 .. n /\ item.id - n + n = item.id
  BY <1>1
<1>3. DOMAIN Payload(item) = 1 .. n
  BY DEF Payload
<1>4. /\ Payload(item)[n].key = item.key
      /\ Payload(item)[n].id \in {item.id, item.id - n + n}
  BY <1>2 DEF Payload
<1>5. Payload(item)[n] \in Range(Payload(item))
  BY <1>2, <1>3 DEF Range
<1>. QED
  BY <1>2, <1>4, <1>5

LEMMA SkipRepeats ==
    ASSUME TypeOK, Repeats, SkipResent
    PROVE  Repeats'
<1>. DEFINE item == Head(queue)
<1>1. /\ queue # <<>> /\ queue' = Tail(queue) /\ IsResent(item)
      /\ UNCHANGED <<node, faults, lastTimestamp, decoded>>
      /\ suppressed' = suppressed \cup {[key |-> item.key, id |-> item.id]}
  BY DEF SkipResent, Dequeue, plant
<1>2. SUFFICES ASSUME faults["clock"] = 0
               PROVE  InOrder' /\ Remembered'
  BY <1>1 DEF Repeats
<1>3. InOrder /\ Remembered
  BY <1>2 DEF Repeats
<1>4. InOrder'
  BY <1>1, <1>3, TailInOrder DEF TypeOK
<1>5. item = queue[1] /\ 1 \in 1 .. Len(queue)
  BY <1>1, TailItems DEF TypeOK
<1>6. item.id \in Nat /\ item.ts \in Nat
  BY <1>5, ItemType
<1>7. ItemInOrder(item)
  BY <1>3, <1>5 DEF InOrder
<1>. HIDE DEF item
<1>8. /\ item.key \in Metrics /\ lastTimestamp[item.key] # 0
      /\ item.ts <= lastTimestamp[item.key]
  BY <1>1 DEF IsResent, TypeOK
<1>9. lastTimestamp[item.key] = item.id
  BY <1>6, <1>7, <1>8, NodeType DEF ItemInOrder
<1>10. WasDecoded(item.key, item.id)
  BY <1>3, <1>8, <1>9 DEF Remembered
<1>11. \A k, n : WasDecoded(k, n)' <=> WasDecoded(k, n)
  BY <1>1 DEF WasDecoded
<1>12. \A v \in suppressed' :
         v \in suppressed \/ (v.key = item.key /\ v.id = item.id)
  BY <1>1
<1>13. Remembered'
  BY <1>1, <1>3, <1>10, <1>11, <1>12 DEF Remembered
<1>. QED
  BY <1>4, <1>13

LEMMA KeepRepeats ==
    ASSUME TypeOK, Repeats, KeepRows
    PROVE  Repeats'
<1>. DEFINE item == Head(queue)
<1>1. /\ queue # <<>> /\ queue' = Tail(queue) /\ Decodes(item)
      /\ UNCHANGED <<node, faults, suppressed>>
      /\ decoded' = decoded \cup Range(Payload(item))
      /\ lastTimestamp' = IF item.key \in Metrics
                          THEN [lastTimestamp EXCEPT ![item.key] = Max2(@, item.ts)]
                          ELSE lastTimestamp
  BY DEF KeepRows, Dequeue, plant
<1>2. SUFFICES ASSUME faults["clock"] = 0
               PROVE  InOrder' /\ Remembered'
  BY <1>1 DEF Repeats
<1>3. InOrder /\ Remembered
  BY <1>2 DEF Repeats
<1>4. item \in Item /\ item = queue[1] /\ 1 \in 1 .. Len(queue)
  BY <1>1, TailItems DEF TypeOK
<1>5. item.id \in Nat /\ item.ts \in Nat /\ ItemInOrder(item)
  BY <1>3, <1>4, ItemType DEF InOrder
<1>6. ASSUME NEW k \in Metrics
      PROVE  /\ lastTimestamp'[k] \in Nat
             /\ \/ lastTimestamp'[k] = lastTimestamp[k]
                \/ k = item.key /\ lastTimestamp'[k] = item.id
  <2>1. lastTimestamp[k] \in Nat
    BY NodeType
  <2>2. CASE k # item.key
    <3>1. lastTimestamp'[k] = lastTimestamp[k]
      BY <1>1, <2>2 DEF TypeOK
    <3>. QED
      BY <2>1, <3>1
  <2>3. CASE k = item.key
    <3>1. lastTimestamp'[k] = Max2(lastTimestamp[k], item.ts)
      BY <1>1, <2>3 DEF TypeOK
    <3>2. item.ts = item.id
      BY <1>5, <2>3 DEF ItemInOrder
    <3>3. Max2(lastTimestamp[k], item.ts) \in {lastTimestamp[k], item.ts}
      BY DEF Max2
    <3>. QED
      BY <1>5, <2>1, <2>3, <3>1, <3>2, <3>3
  <2>. QED
    BY <2>2, <2>3
<1>7. lastTimestamp' \in [Metrics -> Nat]
  <2>1. DOMAIN lastTimestamp' = Metrics /\ lastTimestamp' = [k \in Metrics |-> lastTimestamp'[k]]
    BY <1>1 DEF TypeOK
  <2>. QED
    BY <1>6, <2>1
<1>8. InOrder'
  <2>1. queue # <<>> /\ queue' = Tail(queue) /\ UNCHANGED node
    BY <1>1
  <2>2. \A k \in Metrics :
          \/ lastTimestamp'[k] = lastTimestamp[k]
          \/ k = Head(queue).key /\ lastTimestamp'[k] = Head(queue).id
    BY <1>6
  <2>. QED
    BY <1>3, <1>7, <2>1, <2>2, TailInOrder
<1>9. \A k, n : WasDecoded(k, n) => WasDecoded(k, n)'
  BY <1>1 DEF WasDecoded
<1>10. \E r \in decoded' : r.key = item.key /\ r.id = item.id
  BY <1>1, <1>4, PayloadNewest
<1>. HIDE DEF item
<1>11. ASSUME NEW k \in Metrics, lastTimestamp'[k] # 0
       PROVE  WasDecoded(k, lastTimestamp[k])'
  <2>1. CASE lastTimestamp'[k] = lastTimestamp[k]
    <3>1. WasDecoded(k, lastTimestamp[k])
      BY <1>3, <1>11, <2>1 DEF Remembered
    <3>2. decoded \subseteq decoded'
      BY <1>1
    <3>. QED
      BY <2>1, <3>1, <3>2 DEF WasDecoded
  <2>2. CASE k = item.key /\ lastTimestamp'[k] = item.id
    BY <1>10, <2>2 DEF WasDecoded
  <2>. QED
    BY <1>6, <2>1, <2>2
<1>12. \A v \in suppressed' : WasDecoded(v.key, v.id)'
  BY <1>1, <1>3, <1>9 DEF Remembered
<1>13. Remembered'
  BY <1>11, <1>12 DEF Remembered
<1>. QED
  BY <1>8, <1>13

LEMMA NextRepeats == TypeOK /\ Repeats /\ [Next]_vars => Repeats'
<1>. SUFFICES ASSUME TypeOK, Repeats, [Next]_vars PROVE Repeats'
  OBVIOUS
<1>. USE DEF buffer, thread, plant, database, history
<1>1. CASE Extractor
  BY <1>1, PublishRepeats DEF Extractor
<1>2. ASSUME NEW k \in Metrics, NotifyMetric(k) \/ NotifyBadStatus(k)
      PROVE  Repeats'
  <2>1. PICK ok \in BOOLEAN : Put(ItemOf(k, ok))
    BY <1>2 DEF NotifyMetric, NotifyBadStatus
  <2>2. /\ queue' = Enqueued(ItemOf(k, ok))
        /\ UNCHANGED <<node, lastTimestamp, decoded, suppressed>>
    BY <2>1 DEF Put
  <2>3. faults'["clock"] = faults["clock"]
    BY <1>2 DEF NotifyMetric, NotifyBadStatus, Spend, TypeOK, FaultKinds
  <2>4. /\ ItemOf(k, ok) \in Item /\ ItemOf(k, ok).key = k
        /\ ItemOf(k, ok).id = node[k].id /\ ItemOf(k, ok).ts = node[k].ts
    BY ItemOfMetric DEF ItemOf
  <2>. QED
    BY <2>2, <2>3, <2>4, PutRepeats
<1>3. ASSUME NEW t \in Tags, NEW ok \in BOOLEAN, NotifyTag(t, ok)
      PROVE  Repeats'
  <2>. DEFINE item == [key |-> t, id |-> arrivals + 1, ts |-> 0,
                       at |-> arrivals + 1, ok |-> ok]
  <2>1. item \in Item /\ item.key \notin Metrics
    BY ItemOfTag, IngestAssumption
  <2>2. /\ queue' = Enqueued(item)
        /\ UNCHANGED <<node, lastTimestamp, decoded, suppressed, faults>>
    BY <1>3 DEF NotifyTag, Put
  <2>. HIDE DEF item
  <2>. QED
    BY <2>1, <2>2, PutRepeats
<1>4. CASE AddModel
  <2>1. /\ UNCHANGED <<queue, node, lastTimestamp, suppressed, faults>>
        /\ decoded \subseteq decoded'
    BY <1>4 DEF AddModel
  <2>2. InOrder => InOrder'
    BY <2>1 DEF InOrder, ItemInOrder
  <2>3. Remembered => Remembered'
    BY <2>1 DEF Remembered, WasDecoded
  <2>. QED
    BY <2>1, <2>2, <2>3 DEF Repeats
<1>5. CASE DropItem
  <2>1. /\ queue # <<>> /\ queue' = Tail(queue)
        /\ UNCHANGED <<node, lastTimestamp, decoded, suppressed, faults>>
    BY <1>5 DEF DropItem, Dequeue
  <2>2. InOrder => InOrder'
    BY <2>1, TailInOrder DEF TypeOK
  <2>3. Remembered => Remembered'
    BY <2>1 DEF Remembered, WasDecoded
  <2>. QED
    BY <2>1, <2>2, <2>3 DEF Repeats
<1>6. CASE SkipResent
  BY <1>6, SkipRepeats
<1>7. CASE KeepRows
  BY <1>7, KeepRepeats
<1>8. CASE Crash
  <2>1. /\ queue' = <<>> /\ lastTimestamp' = [k \in Metrics |-> 0]
        /\ UNCHANGED <<node, decoded, suppressed>>
    BY <1>8 DEF Crash
  <2>2. faults'["clock"] = faults["clock"]
    BY <1>8 DEF Crash, Spend, TypeOK, FaultKinds
  <2>3. InOrder => InOrder'
    <3>1. \A k \in Metrics : lastTimestamp'[k] = 0 /\ node[k].id \in Nat
      BY <2>1, NodeType
    <3>. QED
      BY <2>1, <3>1 DEF InOrder
  <2>4. Remembered => Remembered'
    BY <2>1 DEF Remembered, WasDecoded
  <2>. QED
    BY <2>2, <2>3, <2>4 DEF Repeats
<1>9. CASE \/ NewSession \/ EndSession \/ Tick \/ FinalFlush \/ BeginWrite
           \/ FlushDone \/ FlushFailed \/ StartWrite \/ Commit \/ LoseConnection
           \/ Rollback \/ LostAck \/ Orphan \/ UNCHANGED vars
  <2>1. UNCHANGED <<queue, node, lastTimestamp, decoded, suppressed>>
    BY <1>9 DEF NewSession, EndSession, Tick, FinalFlush, BeginWrite, FlushDone,
         FlushFailed, StartWrite, Commit, LoseConnection, Rollback, LostAck,
         Orphan, OrphanCommit, OrphanFail, vars
  <2>2. UNCHANGED faults \/ (\E kind \in FaultKinds \ {"clock"} : Spend(kind))
    BY <1>9 DEF NewSession, EndSession, Tick, FinalFlush, BeginWrite, FlushDone,
         FlushFailed, StartWrite, Commit, LoseConnection, Rollback, LostAck,
         Orphan, OrphanCommit, OrphanFail, vars, FaultKinds
  <2>3. faults'["clock"] = faults["clock"]
    BY <2>2 DEF Spend, TypeOK, FaultKinds
  <2>. QED
    BY <2>1, <2>3, StillRepeats
<1>. QED
  BY <1>1, <1>2, <1>3, <1>4, <1>5, <1>6, <1>7, <1>8, <1>9
     DEF Next, Notification, Flushing, Writer

(* As long as no host publishes with a clock behind the last one's, a      *)
(* first value is skipped only when its publication was decoded before     *)
(* (ingest.py 135-140), for any queue, drops and restarts.                 *)
THEOREM SkippedWasDecoded == Spec => []SuppressedWasDecoded
<1>1. Repeats => SuppressedWasDecoded
  BY DEF Repeats, Remembered, WasDecoded, SuppressedWasDecoded
<1>2. Init => TypeOK /\ Repeats
  BY InitType, InitRepeats
<1>3. TypeOK /\ Repeats /\ [Next]_vars => (TypeOK /\ Repeats)'
  BY NextType, NextRepeats
<1>. QED
  BY <1>1, <1>2, <1>3, PTL DEF Spec

-----------------------------------------------------------------------------
(* Repeated publications.  An item of a metric announces one publication,  *)
(* in the order of publication and under the timestamp it was given; and   *)
(* no session starts while an earlier one's items wait.                    *)
Waiting == Range(queue)
Drained ==
    /\ session = "down" => queue = <<>>
    /\ session = "closing" /\ flush # "decoding" => queue = <<>>
Stamped ==
    /\ \A k \in Metrics : node[k].id > 0 => node[k].ts > 0
    /\ \A a \in Waiting : a.key \in Metrics =>
         /\ a.id <= node[a.key].id
         /\ a.id > 0 => a.ts > 0
         /\ a.id = node[a.key].id => a.ts = node[a.key].ts
    /\ \A a, b \in Waiting : a.key \in Metrics /\ a.key = b.key /\ a.at <= b.at =>
         /\ a.id <= b.id
         /\ a.id = b.id => a.ts = b.ts
    /\ \A r \in decoded : r.key \in Metrics => r.id <= node[r.key].id

(* The arrivals a publication was decoded from, or will be; whether the    *)
(* session still has to announce it; and how many arrivals of one          *)
(* publication the faults so far excuse.                                   *)
Decoded(k, i) == {r.at : r \in {s \in decoded : s.key = k /\ s.id = i}}
Announced(k, i) == {a.at : a \in {b \in Waiting : b.key = k /\ b.id = i /\ b.ok}}
Copies(k, i) == Decoded(k, i) \cup Announced(k, i)
Due(k, i) == IF k \in fresh /\ node[k].id = i THEN 1 ELSE 0
Load(k, i) == Cardinality(Copies(k, i)) + Due(k, i)
Allowed == 1 + faults["crash"] + faults["requality"]

(* The first-value test knows the publication: its items are no newer than *)
(* the timestamp kept for the metric.                                      *)
Seen(k, i) ==
    /\ lastTimestamp[k] # 0 /\ i <= node[k].id
    /\ \A a \in Waiting : a.key = k /\ a.id = i => a.ts <= lastTimestamp[k]
    /\ node[k].id = i => node[k].ts <= lastTimestamp[k]

(* The next item of the metric announces this publication or a newer one.  *)
Ahead(k, i) == \A a \in Waiting : a.key = k => a.id >= i

(* Either one copy more is excused, or the test knows the publication: one *)
(* copy too many is then the one the test is about to skip.                *)
Standing(k, i) ==
    /\ IsFiniteSet(Copies(k, i))
    /\ \/ /\ Load(k, i) <= Allowed
          /\ Cardinality(Decoded(k, i)) + 1 <= Allowed
       \/ Seen(k, i) /\ Load(k, i) <= Allowed
       \/ /\ Seen(k, i) /\ Ahead(k, i) /\ k \in awaitingFirst
          /\ Load(k, i) <= Allowed + 1
          /\ Cardinality(Decoded(k, i)) <= Allowed
OnceEach == \A k \in Metrics \ Idempotent, i \in 1 .. MaxPublish : Standing(k, i)

LEMMA PutWaiting ==
    ASSUME TypeOK, NEW item \in Item, queue' = Enqueued(item)
    PROVE  Waiting' \subseteq Waiting \cup {item}
<1>1. PICK n \in Nat, d \in {0, 1} :
        /\ Len(queue') = n + 1
        /\ \A i \in 1 .. n : queue'[i] = queue[i + d] /\ i + d \in 1 .. Len(queue)
        /\ queue'[n + 1] = item
  BY EnqueuedItems DEF TypeOK
<1>2. queue' \in Seq(Item)
  BY EnqueuedItems DEF TypeOK
<1>3. ASSUME NEW i \in 1 .. Len(queue')
      PROVE  queue'[i] = item \/ \E j \in 1 .. Len(queue) : queue'[i] = queue[j]
  <2>1. CASE i = n + 1
    BY <1>1, <2>1
  <2>2. CASE i # n + 1
    <3>1. i \in 1 .. n
      BY <1>1, <2>2
    <3>. QED
      BY <1>1, <3>1
  <2>. QED
    BY <2>1, <2>2
<1>4. DOMAIN queue' = 1 .. Len(queue') /\ DOMAIN queue = 1 .. Len(queue)
  BY <1>2 DEF TypeOK
<1>. QED
  BY <1>3, <1>4 DEF Waiting, Range

LEMMA WaitingType ==
    ASSUME TypeOK
    PROVE  \A a \in Waiting : /\ a \in Item /\ a.id \in Nat /\ a.ts \in Nat
                              /\ a.at \in Nat
                              /\ \E j \in 1 .. Len(queue) : a = queue[j]
<1>1. DOMAIN queue = 1 .. Len(queue)
  BY DEF TypeOK
<1>2. \A a \in Waiting : \E j \in 1 .. Len(queue) : a = queue[j]
  BY <1>1 DEF Waiting, Range
<1>3. \A j \in 1 .. Len(queue) : queue[j] \in Item
  BY DEF TypeOK
<1>4. \A a \in Waiting : a \in Item
  BY <1>2, <1>3
<1>. QED
  BY <1>2, <1>4 DEF Item

(* The head of the queue arrived before everything behind it.              *)
LEMMA TailWaiting ==
    ASSUME TypeOK, QueueOrdered, queue # <<>>, queue' = Tail(queue)
    PROVE  /\ Head(queue) \in Waiting
           /\ \A a \in Waiting' : a \in Waiting /\ Head(queue).at < a.at
<1>1. /\ Head(queue) = queue[1] /\ 1 \in 1 .. Len(queue)
      /\ \A i \in 1 .. Len(queue') :
           queue'[i] = queue[i + 1] /\ i + 1 \in 1 .. Len(queue)
  BY TailItems DEF TypeOK
<1>2. DOMAIN queue' = 1 .. Len(queue') /\ DOMAIN queue = 1 .. Len(queue)
  BY DEF TypeOK
<1>3. Head(queue) \in Waiting
  BY <1>1, <1>2 DEF Waiting, Range
<1>4. ASSUME NEW a \in Waiting'
      PROVE  a \in Waiting /\ Head(queue).at < a.at
  <2>1. PICK i \in 1 .. Len(queue') : a = queue'[i]
    BY <1>2 DEF Waiting, Range
  <2>2. a = queue[i + 1] /\ i + 1 \in 1 .. Len(queue) /\ 1 < i + 1
    BY <1>1, <2>1
  <2>3. a \in Waiting
    BY <1>2, <2>2 DEF Waiting, Range
  <2>. QED
    BY <1>1, <2>2, <2>3 DEF QueueOrdered
<1>. QED
  BY <1>3, <1>4

LEMMA NextDrained == TypeOK /\ Drained /\ [Next]_vars => Drained'
<1>. SUFFICES ASSUME TypeOK, Drained, [Next]_vars PROVE Drained'
  OBVIOUS
<1>. USE DEF buffer, thread, plant, database, history
<1>1. CASE Extractor
  BY <1>1 DEF Extractor, Publish, Drained
<1>2. CASE Notification
  <2>1. Connected /\ UNCHANGED <<session, flush>>
    BY <1>2 DEF Notification, NotifyMetric, NotifyBadStatus, NotifyTag, AddModel, Put
  <2>. QED
    BY <2>1 DEF Drained, Connected
<1>3. CASE NewSession \/ EndSession \/ Tick \/ FinalFlush \/ Crash
  BY <1>3 DEF NewSession, EndSession, Tick, FinalFlush, Crash, Drained
<1>4. CASE DropItem \/ SkipResent \/ KeepRows
  <2>1. queue # <<>> /\ flush = "decoding" /\ UNCHANGED <<session, flush>>
    BY <1>4 DEF DropItem, SkipResent, KeepRows, Dequeue
  <2>. QED
    BY <2>1 DEF Drained
<1>5. CASE BeginWrite
  BY <1>5 DEF BeginWrite, Drained
<1>6. CASE FlushDone \/ FlushFailed
  BY <1>6 DEF FlushDone, FlushFailed, Drained, Returned
<1>7. CASE \/ StartWrite \/ Commit \/ LoseConnection \/ Rollback \/ LostAck
           \/ Orphan \/ UNCHANGED vars
  BY <1>7 DEF StartWrite, Commit, LoseConnection, Rollback, LostAck, Orphan,
       OrphanCommit, OrphanFail, vars, Drained
<1>. QED
  BY <1>1, <1>2, <1>3, <1>4, <1>5, <1>6, <1>7 DEF Next, Flushing, Writer

(* A step that adds no item and publishes nothing.                         *)
LEMMA FewerStamped ==
    ASSUME Stamped, Waiting' \subseteq Waiting, UNCHANGED node,
           \A r \in decoded' : r.key \in Metrics =>
             r \in decoded \/ r.id <= node[r.key].id
    PROVE  Stamped'
<1>1. \A a \in Waiting' : a \in Waiting
  OBVIOUS
<1>2. \A r \in decoded' : r.key \in Metrics => r.id <= node[r.key].id
  BY DEF Stamped
<1>. HIDE DEF Waiting
<1>. QED
  BY <1>1, <1>2 DEF Stamped

LEMMA PublishStamped ==
    ASSUME TypeOK, Stamped, NEW k \in Metrics, NEW ts \in 1 .. MaxPublish,
           Publish(k, ts)
    PROVE  Stamped'
<1>1. /\ UNCHANGED <<queue, decoded>>
      /\ node' = [node EXCEPT ![k] = [id |-> node[k].id + 1, ts |-> ts]]
  BY DEF Publish, buffer
<1>2. /\ node'[k].id = node[k].id + 1 /\ node'[k].ts = ts /\ node[k].id \in Nat
      /\ \A m \in Metrics \ {k} : node'[m] = node[m]
  BY <1>1 DEF TypeOK
<1>3. Waiting' = Waiting
  BY <1>1 DEF Waiting
<1>4. ts > 0
  OBVIOUS
<1>5. \A a \in Waiting : a.id \in Nat
  BY WaitingType
<1>6. \A m \in Metrics : node'[m].id > 0 => node'[m].ts > 0
  BY <1>2, <1>4 DEF Stamped
<1>7. ASSUME NEW a \in Waiting, a.key \in Metrics
      PROVE  /\ a.id <= node'[a.key].id
             /\ a.id > 0 => a.ts > 0
             /\ a.id = node'[a.key].id => a.ts = node'[a.key].ts
  BY <1>2, <1>5, <1>7 DEF Stamped
<1>8. ASSUME NEW r \in decoded, r.key \in Metrics
      PROVE  r.id <= node'[r.key].id
  <2>1. r.id \in Nat /\ r.id <= node[r.key].id
    BY <1>8 DEF Stamped, TypeOK, Row
  <2>. QED
    BY <1>2, <1>8, <2>1
<1>. QED
  BY <1>1, <1>3, <1>6, <1>7, <1>8 DEF Stamped

LEMMA PutStamped ==
    ASSUME TypeOK, Numbered, Stamped, NEW item \in Item, queue' = Enqueued(item),
           item.at = arrivals + 1,
           item.key \in Metrics =>
             item.id = node[item.key].id /\ item.ts = node[item.key].ts,
           UNCHANGED <<node, decoded>>
    PROVE  Stamped'
<1>1. \A a \in Waiting' : a \in Waiting \/ a = item
  BY PutWaiting
<1>2. \A a \in Waiting : a.at < item.at /\ a.at \in Nat /\ a.id \in Nat
  <2>1. \A a \in Waiting : a.at <= arrivals /\ a.at \in Nat /\ a.id \in Nat
    BY WaitingType DEF Numbered
  <2>2. arrivals \in Nat
    BY DEF TypeOK
  <2>. QED
    BY <2>1, <2>2
<1>3. item.id \in Nat /\ item.ts \in Nat /\ item.at \in Nat
  BY DEF Item
<1>4. ASSUME NEW a \in Waiting', a.key \in Metrics
      PROVE  /\ a.id <= node[a.key].id
             /\ a.id > 0 => a.ts > 0
             /\ a.id = node[a.key].id => a.ts = node[a.key].ts
  <2>1. CASE a = item
    BY <1>3, <1>4, <2>1 DEF Stamped
  <2>2. CASE a \in Waiting
    BY <1>4, <2>2 DEF Stamped
  <2>. QED
    BY <1>1, <2>1, <2>2
<1>5. ASSUME NEW a \in Waiting', NEW b \in Waiting',
             a.key \in Metrics, a.key = b.key, a.at <= b.at
      PROVE  /\ a.id <= b.id
             /\ a.id = b.id => a.ts = b.ts
  <2>1. CASE a \in Waiting /\ b \in Waiting
    BY <1>5, <2>1 DEF Stamped
  <2>2. CASE b = item /\ a \in Waiting
    BY <1>4, <1>5, <2>2
  <2>3. CASE a = item /\ b \in Waiting
    BY <1>2, <1>3, <1>5, <2>3
  <2>4. CASE a = item /\ b = item
    BY <1>3, <2>4
  <2>. QED
    BY <1>1, <2>1, <2>2, <2>3, <2>4
<1>6. /\ \A k \in Metrics : node'[k].id > 0 => node'[k].ts > 0
      /\ \A r \in decoded' : r.key \in Metrics => r.id <= node'[r.key].id
  BY DEF Stamped
<1>. QED
  BY <1>4, <1>5, <1>6 DEF Stamped

(* No row of a payload is of a later publication than its item.            *)
LEMMA PayloadOlder ==
    ASSUME NEW item \in Item, Decodes(item), NEW r \in Range(Payload(item))
    PROVE  r.key = item.key /\ r.id <= item.id /\ r.id \in Nat /\ r.at = item.at
<1>1. /\ PayloadSize(item) \in Nat /\ item.id \in Nat
      /\ item.key \in Idempotent => PayloadSize(item) <= item.id
  BY IngestAssumption DEF PayloadSize, WindowSize, Item, Decodes, Min2
<1>. DEFINE n == PayloadSize(item)
<1>2. DOMAIN Payload(item) = 1 .. n
  BY DEF Payload
<1>3. PICK j \in 1 .. n : r = Payload(item)[j]
  BY <1>2 DEF Range
<1>4. /\ r.key = item.key /\ r.at = item.at
      /\ r.id = IF item.key \in Idempotent THEN item.id - n + j ELSE item.id
  BY <1>3 DEF Payload
<1>5. item.key \in Idempotent => item.id - n + j <= item.id /\ item.id - n + j \in Nat
  BY <1>1
<1>6. item.id <= item.id /\ item.id \in Nat
  BY <1>1
<1>. QED
  BY <1>4, <1>5, <1>6

LEMMA NextStamped ==
    IInv /\ QueueOrdered /\ Stamped /\ [Next]_vars => Stamped'
<1>. SUFFICES ASSUME IInv, QueueOrdered, Stamped, [Next]_vars PROVE Stamped'
  OBVIOUS
<1>. USE DEF buffer, thread, plant, database, history
<1>t. TypeOK /\ Numbered
  BY DEF IInv
<1>1. CASE Extractor
  BY <1>1, <1>t, PublishStamped DEF Extractor
<1>2. ASSUME NEW k \in Metrics, NotifyMetric(k) \/ NotifyBadStatus(k)
      PROVE  Stamped'
  <2>1. PICK ok \in BOOLEAN : Put(ItemOf(k, ok))
    BY <1>2 DEF NotifyMetric, NotifyBadStatus
  <2>2. queue' = Enqueued(ItemOf(k, ok)) /\ UNCHANGED <<node, decoded>>
    BY <2>1 DEF Put
  <2>3. /\ ItemOf(k, ok) \in Item /\ ItemOf(k, ok).at = arrivals + 1
        /\ ItemOf(k, ok).key = k
        /\ ItemOf(k, ok).id = node[k].id /\ ItemOf(k, ok).ts = node[k].ts
    BY <1>t, ItemOfMetric DEF ItemOf
  <2>. QED
    BY <1>t, <2>2, <2>3, PutStamped
<1>3. ASSUME NEW t \in Tags, NEW ok \in BOOLEAN, NotifyTag(t, ok)
      PROVE  Stamped'
  <2>. DEFINE item == [key |-> t, id |-> arrivals + 1, ts |-> 0,
                       at |-> arrivals + 1, ok |-> ok]
  <2>1. item \in Item /\ item.key \notin Metrics /\ item.at = arrivals + 1
    BY <1>t, ItemOfTag, IngestAssumption
  <2>2. queue' = Enqueued(item) /\ UNCHANGED <<node, decoded>>
    BY <1>3 DEF NotifyTag, Put
  <2>. HIDE DEF item
  <2>. QED
    BY <1>t, <2>1, <2>2, PutStamped
<1>4. CASE AddModel
  <2>1. UNCHANGED <<queue, node>>
    BY <1>4 DEF AddModel
  <2>2. \A r \in decoded' : r \in decoded \/ r.key = Collector
    BY <1>4 DEF AddModel
  <2>3. Collector \notin Metrics
    BY IngestAssumption
  <2>4. Waiting' = Waiting
    BY <2>1 DEF Waiting
  <2>. QED
    BY <2>1, <2>2, <2>3, <2>4, FewerStamped
<1>5. ASSUME queue # <<>>, queue' = Tail(queue), UNCHANGED node,
             UNCHANGED decoded \/ KeepRows
      PROVE  Stamped'
  <2>1. Waiting' \subseteq Waiting /\ Head(queue) \in Waiting
    BY <1>t, <1>5, TailWaiting
  <2>2. CASE UNCHANGED decoded
    BY <1>5, <2>1, <2>2, FewerStamped
  <2>3. CASE KeepRows
    <3>1. /\ Head(queue) \in Item /\ Decodes(Head(queue))
          /\ decoded' = decoded \cup Range(Payload(Head(queue)))
      BY <1>t, <2>1, <2>3, WaitingType DEF KeepRows
    <3>2. \A r \in Range(Payload(Head(queue))) :
            r.key = Head(queue).key /\ r.id <= Head(queue).id /\ r.id \in Nat
      BY <3>1, PayloadOlder
    <3>3. Head(queue).key \in Metrics =>
            Head(queue).id <= node[Head(queue).key].id
      BY <2>1 DEF Stamped
    <3>4. Head(queue).id \in Nat
      BY <3>1 DEF Item
    <3>5. ASSUME NEW r \in decoded', r.key \in Metrics
          PROVE  r \in decoded \/ r.id <= node[r.key].id
      <4>1. node[r.key].id \in Nat
        BY <1>t, <3>5, NodeType
      <4>. QED
        BY <3>1, <3>2, <3>3, <3>4, <3>5, <4>1
    <3>. QED
      BY <1>5, <2>1, <3>5, FewerStamped
  <2>. QED
    BY <1>5, <2>2, <2>3
<1>6. CASE DropItem \/ SkipResent \/ KeepRows
  BY <1>5, <1>6 DEF DropItem, SkipResent, KeepRows, Dequeue
<1>7. CASE Crash
  <2>1. queue' = <<>> /\ UNCHANGED <<node, decoded>>
    BY <1>7 DEF Crash
  <2>2. Waiting' = {}
    BY <2>1, RangeEmpty DEF Waiting
  <2>. QED
    BY <2>1, <2>2, FewerStamped
<1>8. CASE \/ NewSession \/ EndSession \/ Tick \/ FinalFlush \/ BeginWrite
           \/ FlushDone \/ FlushFailed \/ StartWrite \/ Commit \/ LoseConnection
           \/ Rollback \/ LostAck \/ Orphan \/ UNCHANGED vars
  <2>1. UNCHANGED <<queue, node, decoded>>
    BY <1>8 DEF NewSession, EndSession, Tick, FinalFlush, BeginWrite, FlushDone,
         FlushFailed, StartWrite, Commit, LoseConnection, Rollback, LostAck,
         Orphan, OrphanCommit, OrphanFail, vars
  <2>2. Waiting' = Waiting
    BY <2>1 DEF Waiting
  <2>. QED
    BY <2>1, <2>2, FewerStamped
<1>. QED
  BY <1>1, <1>2, <1>3, <1>4, <1>6, <1>7, <1>8 DEF Next, Notification, Flushing, Writer

LEMMA CountType ==
    ASSUME TypeOK, NEW k, NEW i
    PROVE  /\ Due(k, i) \in {0, 1} /\ Allowed \in Nat /\ Allowed >= 1
           /\ IsFiniteSet(Copies(k, i)) =>
                /\ Cardinality(Copies(k, i)) \in Nat /\ Load(k, i) \in Nat
                /\ Cardinality(Decoded(k, i)) \in Nat
                /\ Cardinality(Decoded(k, i)) <= Cardinality(Copies(k, i))
<1>1. Due(k, i) \in {0, 1}
  BY DEF Due
<1>2. faults["crash"] \in Nat /\ faults["requality"] \in Nat
  BY DEF TypeOK, FaultKinds
<1>3. Allowed \in Nat /\ Allowed >= 1
  BY <1>2 DEF Allowed
<1>4. ASSUME IsFiniteSet(Copies(k, i))
      PROVE  /\ Cardinality(Copies(k, i)) \in Nat
             /\ Cardinality(Decoded(k, i)) \in Nat
             /\ Cardinality(Decoded(k, i)) <= Cardinality(Copies(k, i))
  <2>1. Decoded(k, i) \in SUBSET Copies(k, i)
    BY DEF Copies
  <2>2. IsFiniteSet(Decoded(k, i))
        /\ Cardinality(Decoded(k, i)) <= Cardinality(Copies(k, i))
    BY <1>4, <2>1, FS_Subset
  <2>. QED
    BY <1>4, <2>2, FS_CardinalityType
<1>5. IsFiniteSet(Copies(k, i)) => Load(k, i) \in Nat
  BY <1>1, <1>4 DEF Load
<1>. QED
  BY <1>1, <1>3, <1>4, <1>5

(* The copies shrink; what is due changes.                                 *)
LEMMA LoadFalls ==
    ASSUME NEW k, NEW i, IsFiniteSet(Copies(k, i)),
           Copies(k, i)' \subseteq Copies(k, i)
    PROVE  /\ IsFiniteSet(Copies(k, i)')
           /\ Load(k, i)' + Due(k, i) <= Load(k, i) + Due(k, i)'
           /\ Due(k, i)' <= Due(k, i) => Load(k, i)' <= Load(k, i)
<1>1. Copies(k, i)' \in SUBSET Copies(k, i)
  OBVIOUS
<1>2. IsFiniteSet(Copies(k, i)')
      /\ Cardinality(Copies(k, i)') <= Cardinality(Copies(k, i))
  BY <1>1, FS_Subset
<1>3. Cardinality(Copies(k, i)') \in Nat /\ Cardinality(Copies(k, i)) \in Nat
  BY <1>2, FS_CardinalityType
<1>4. Due(k, i)' \in Nat /\ Due(k, i) \in Nat
  BY DEF Due
<1>. QED
  BY <1>2, <1>3, <1>4 DEF Load

(* One more copy, and a change of what is due.                             *)
LEMMA LoadMoves ==
    ASSUME NEW k, NEW i, IsFiniteSet(Copies(k, i)), NEW x,
           Copies(k, i)' \subseteq Copies(k, i) \cup {x}
    PROVE  /\ IsFiniteSet(Copies(k, i)')
           /\ Due(k, i)' + 1 <= Due(k, i) => Load(k, i)' <= Load(k, i)
<1>1. /\ IsFiniteSet(Copies(k, i) \cup {x})
      /\ Cardinality(Copies(k, i) \cup {x})
           = IF x \in Copies(k, i) THEN Cardinality(Copies(k, i))
             ELSE Cardinality(Copies(k, i)) + 1
  BY FS_AddElement
<1>2. Copies(k, i)' \in SUBSET (Copies(k, i) \cup {x})
  OBVIOUS
<1>3. IsFiniteSet(Copies(k, i)')
      /\ Cardinality(Copies(k, i)') <= Cardinality(Copies(k, i) \cup {x})
  BY <1>1, <1>2, FS_Subset
<1>4. Cardinality(Copies(k, i)') \in Nat /\ Cardinality(Copies(k, i)) \in Nat
  BY <1>3, FS_CardinalityType
<1>5. Cardinality(Copies(k, i) \cup {x}) <= Cardinality(Copies(k, i)) + 1
  BY <1>1, <1>4
<1>6. Cardinality(Copies(k, i) \cup {x}) \in Nat
  BY <1>1, FS_CardinalityType
<1>7. Cardinality(Copies(k, i)') <= Cardinality(Copies(k, i)) + 1
  BY <1>3, <1>4, <1>5, <1>6
<1>8. Due(k, i)' \in Nat /\ Due(k, i) \in Nat
  BY DEF Due
<1>. QED
  BY <1>3, <1>4, <1>7, <1>8 DEF Load

LEMMA Slack ==
    ASSUME NEW a \in Nat, NEW b \in Nat, NEW c \in Nat, NEW d \in Nat, NEW e \in Nat,
           NEW n \in {0, 1}, b <= a + n, c + n <= d, a <= c + 1, e <= c
    PROVE  b <= d + 1 /\ e <= d /\ (b + 1 <= a => b <= d)
OBVIOUS

(* The load grows by no more than the faults excused.                      *)
LEMMA StandingKept ==
    ASSUME TypeOK, TypeOK', NEW k, NEW i, Standing(k, i),
           NEW n \in {0, 1}, Load(k, i)' <= Load(k, i) + n,
           Allowed + n <= Allowed',
           IsFiniteSet(Copies(k, i)'), Decoded(k, i)' = Decoded(k, i),
           Seen(k, i) => Seen(k, i)',
           Seen(k, i) /\ Ahead(k, i) /\ k \in awaitingFirst
             => \/ Ahead(k, i)' /\ k \in awaitingFirst'
                \/ Load(k, i)' <= Allowed'
                \/ Load(k, i)' + 1 <= Load(k, i)
    PROVE  Standing(k, i)'
<1>. DEFINE dec == Cardinality(Decoded(k, i))
            load == Load(k, i)
            bound == Allowed
<1>1. load \in Nat /\ bound \in Nat /\ dec \in Nat
  BY CountType DEF Standing
<1>2. load' \in Nat /\ bound' \in Nat /\ dec' = dec
  <2>1. Cardinality(Copies(k, i)') \in Nat /\ Due(k, i)' \in {0, 1}
    BY FS_CardinalityType DEF Due
  <2>2. faults'["crash"] \in Nat /\ faults'["requality"] \in Nat
    BY DEF TypeOK, FaultKinds
  <2>. QED
    BY <2>1, <2>2 DEF Load, Allowed
<1>3. load' <= load + n /\ bound + n <= bound'
  OBVIOUS
<1>. HIDE DEF dec, load, bound
<1>4. CASE load <= bound /\ dec + 1 <= bound
  <2>1. load' <= bound' /\ dec' + 1 <= bound'
    BY <1>1, <1>2, <1>3, <1>4
  <2>. QED
    BY <2>1 DEF Standing, dec, load, bound
<1>5. CASE Seen(k, i) /\ load <= bound
  <2>1. load' <= bound'
    BY <1>1, <1>2, <1>3, <1>5
  <2>. QED
    BY <1>5, <2>1 DEF Standing, dec, load, bound
<1>6. CASE Seen(k, i) /\ Ahead(k, i) /\ k \in awaitingFirst
           /\ load <= bound + 1 /\ dec <= bound
  <2>0. load <= bound + 1 /\ dec <= bound
    BY <1>6
  <2>1. load' <= bound' + 1 /\ dec' <= bound'
        /\ (load' + 1 <= load => load' <= bound')
    BY <1>1, <1>2, <1>3, <2>0, Slack
  <2>2. CASE load' <= bound'
    BY <1>6, <2>2 DEF Standing, dec, load, bound
  <2>3. CASE Ahead(k, i)' /\ k \in awaitingFirst'
    BY <1>6, <2>1, <2>3 DEF Standing, dec, load, bound
  <2>. QED
    BY <1>6, <2>1, <2>2, <2>3 DEF load, bound
<1>. QED
  BY <1>4, <1>5, <1>6 DEF Standing, dec, load, bound

LEMMA DecodedSame ==
    ASSUME NEW k, NEW i, decoded \subseteq decoded',
           \A r \in decoded' : r.key = k => r \in decoded \/ r.id # i
    PROVE  Decoded(k, i)' = Decoded(k, i)
<1>1. {s \in decoded' : s.key = k /\ s.id = i} = {s \in decoded : s.key = k /\ s.id = i}
  OBVIOUS
<1>. QED
  BY <1>1 DEF Decoded

LEMMA AnnouncedFewer ==
    ASSUME NEW k, NEW i, \A a \in Waiting' : a.key = k => a \in Waiting
    PROVE  Announced(k, i)' \subseteq Announced(k, i)
<1>1. \A a \in {b \in Waiting' : b.key = k /\ b.id = i /\ b.ok} :
        a \in {b \in Waiting : b.key = k /\ b.id = i /\ b.ok}
  OBVIOUS
<1>. QED
  BY <1>1 DEF Announced

(* A step of other metrics, or one that only loses items.                  *)
LEMMA StandingElsewhere ==
    ASSUME TypeOK, TypeOK', NEW k, NEW i, Standing(k, i),
           \A a \in Waiting' : a.key = k => a \in Waiting,
           node'[k] = node[k], lastTimestamp'[k] = lastTimestamp[k],
           k \in fresh' => k \in fresh,
           k \in awaitingFirst' <=> k \in awaitingFirst,
           decoded \subseteq decoded',
           \A r \in decoded' : r.key = k => r \in decoded,
           Allowed <= Allowed'
    PROVE  Standing(k, i)'
<1>1. Decoded(k, i)' = Decoded(k, i)
  BY DecodedSame
<1>2. Copies(k, i)' \subseteq Copies(k, i)
  <2>1. Announced(k, i)' \subseteq Announced(k, i)
    BY AnnouncedFewer
  <2>. QED
    BY <1>1, <2>1 DEF Copies
<1>3. Due(k, i)' <= Due(k, i)
  BY DEF Due
<1>4. IsFiniteSet(Copies(k, i)') /\ Load(k, i)' <= Load(k, i)
  BY <1>2, <1>3, LoadFalls DEF Standing
<1>5. Seen(k, i) => Seen(k, i)'
  BY DEF Seen
<1>6. Ahead(k, i) => Ahead(k, i)'
  BY DEF Ahead
<1>7. /\ Load(k, i)' <= Load(k, i) + 0 /\ Allowed + 0 <= Allowed' /\ 0 \in {0, 1}
  <2>1. Load(k, i) \in Nat /\ Allowed \in Nat
    BY CountType DEF Standing
  <2>. QED
    BY <1>4, <2>1
<1>. QED
  BY <1>1, <1>4, <1>5, <1>6, <1>7, StandingKept

(* A publication of the metric: a new one has no copy yet, and the session *)
(* no longer owes an older one.                                            *)
LEMMA PublishStanding ==
    ASSUME TypeOK, TypeOK', Stamped, NEW k \in Metrics, NEW ts \in 1 .. MaxPublish,
           Publish(k, ts), NEW i \in Nat, Standing(k, i)
    PROVE  Standing(k, i)'
<1>1. /\ UNCHANGED <<queue, decoded, lastTimestamp, awaitingFirst>>
      /\ node' = [node EXCEPT ![k] = [id |-> node[k].id + 1, ts |-> ts]]
  BY DEF Publish, buffer
<1>2. node'[k].id = node[k].id + 1 /\ node[k].id \in Nat
  BY <1>1 DEF TypeOK
<1>3. Waiting' = Waiting
  BY <1>1 DEF Waiting
<1>4. Decoded(k, i)' = Decoded(k, i) /\ Announced(k, i)' = Announced(k, i)
  BY <1>1, <1>3 DEF Decoded, Announced
<1>5. Copies(k, i)' = Copies(k, i)
  BY <1>4 DEF Copies
<1>6. Allowed' >= Allowed /\ Allowed \in Nat /\ Allowed' \in Nat /\ Allowed >= 1
  <2>1. /\ faults["crash"] \in Nat /\ faults["requality"] \in Nat
        /\ faults'["crash"] = faults["crash"]
        /\ faults'["requality"] = faults["requality"]
    BY DEF Publish, Spend, TypeOK, FaultKinds
  <2>. QED
    BY <2>1 DEF Allowed
<1>7. CASE i = node[k].id + 1
  <2>1. \A r \in decoded : r.key = k => r.id \in Nat /\ r.id <= node[k].id
    BY DEF Stamped, TypeOK, Row
  <2>2. \A a \in Waiting : a.key = k => a.id \in Nat /\ a.id <= node[k].id
    BY WaitingType DEF Stamped
  <2>3. Decoded(k, i) = {}
    BY <1>2, <1>7, <2>1 DEF Decoded
  <2>4. {b \in Waiting : b.key = k /\ b.id = i /\ b.ok} = {}
    BY <1>2, <1>7, <2>2
  <2>5. Copies(k, i)' = {} /\ Decoded(k, i)' = {}
    BY <1>4, <1>5, <2>3, <2>4 DEF Copies, Announced
  <2>6. /\ IsFiniteSet(Copies(k, i)') /\ Cardinality(Copies(k, i)') = 0
        /\ Cardinality(Decoded(k, i)') = 0
    BY <2>5, FS_EmptySet
  <2>7. Due(k, i)' \in {0, 1}
    BY DEF Due
  <2>8. Load(k, i)' <= Allowed' /\ Cardinality(Decoded(k, i)') + 1 <= Allowed'
    BY <1>6, <2>6, <2>7 DEF Load
  <2>. QED
    BY <2>6, <2>8 DEF Standing
<1>8. CASE i # node[k].id + 1
  <2>1. Due(k, i)' = 0
    BY <1>2, <1>8 DEF Due
  <2>2. Due(k, i) \in {0, 1}
    BY DEF Due
  <2>3. IsFiniteSet(Copies(k, i)') /\ Load(k, i)' <= Load(k, i)
    BY <1>5, <2>1, <2>2, LoadFalls DEF Standing
  <2>4. Seen(k, i) => Seen(k, i)'
    BY <1>1, <1>2, <1>3, <1>8 DEF Seen
  <2>5. Ahead(k, i) => Ahead(k, i)'
    BY <1>3 DEF Ahead
  <2>6. /\ Load(k, i)' <= Load(k, i) + 0 /\ Allowed + 0 <= Allowed' /\ 0 \in {0, 1}
    <3>1. Load(k, i) \in Nat
      BY CountType DEF Standing
    <3>. QED
      BY <1>6, <2>3, <3>1
  <2>. QED
    BY <1>1, <1>4, <2>3, <2>4, <2>5, <2>6, StandingKept
<1>. QED
  BY <1>7, <1>8

(* The metric's own notification turns what is due into a copy; a bad      *)
(* status makes it due again, and excuses that.                            *)
LEMMA NotifyStanding ==
    ASSUME TypeOK, TypeOK', NEW k \in Metrics, NEW i \in Nat, Standing(k, i),
           NEW item \in Item, queue' = Enqueued(item), item.key = k,
           item.id = node[k].id, item.ts = node[k].ts,
           UNCHANGED <<node, lastTimestamp, awaitingFirst, decoded>>,
           \/ k \in fresh /\ k \notin fresh' /\ Allowed' = Allowed
           \/ ~item.ok /\ Allowed' = Allowed + 1
    PROVE  Standing(k, i)'
<1>1. \A a \in Waiting' : a \in Waiting \/ a = item
  BY PutWaiting
<1>2. item.id \in Nat
  BY DEF Item
<1>3. Seen(k, i) => Seen(k, i)'
  BY <1>1 DEF Seen
<1>4. Seen(k, i) /\ Ahead(k, i) => Ahead(k, i)'
  BY <1>1 DEF Seen, Ahead
<1>5. Decoded(k, i)' = Decoded(k, i)
  BY DEF Decoded
<1>6. Announced(k, i)' \subseteq Announced(k, i) \cup {item.at}
  BY <1>1 DEF Announced
<1>7. item.id # i \/ ~item.ok => Announced(k, i)' \subseteq Announced(k, i)
  BY <1>1 DEF Announced
<1>8. Load(k, i) \in Nat /\ Allowed \in Nat /\ IsFiniteSet(Copies(k, i))
      /\ Due(k, i) \in {0, 1}
  BY CountType DEF Standing
<1>9. Due(k, i)' \in {0, 1}
  BY DEF Due
<1>10. CASE k \in fresh /\ k \notin fresh' /\ Allowed' = Allowed
  <2>1. IsFiniteSet(Copies(k, i)') /\ Load(k, i)' <= Load(k, i)
    <3>1. CASE item.id = i
      <4>1. Due(k, i)' + 1 <= Due(k, i)
        BY <1>10, <3>1 DEF Due
      <4>2. Copies(k, i)' \subseteq Copies(k, i) \cup {item.at}
        BY <1>5, <1>6 DEF Copies
      <4>. QED
        BY <1>8, <4>1, <4>2, LoadMoves
    <3>2. CASE item.id # i
      <4>1. Due(k, i)' <= Due(k, i)
        BY <1>10 DEF Due
      <4>2. Copies(k, i)' \subseteq Copies(k, i)
        BY <1>5, <1>7, <3>2 DEF Copies
      <4>. QED
        BY <1>8, <4>1, <4>2, LoadFalls
    <3>. QED
      BY <3>1, <3>2
  <2>2. /\ Load(k, i)' <= Load(k, i) + 0 /\ Allowed + 0 <= Allowed' /\ 0 \in {0, 1}
    BY <1>8, <1>10, <2>1
  <2>. QED
    BY <1>3, <1>4, <1>5, <2>1, <2>2, StandingKept
<1>11. CASE ~item.ok /\ Allowed' = Allowed + 1
  <2>1. Copies(k, i)' \subseteq Copies(k, i)
    BY <1>5, <1>7, <1>11 DEF Copies
  <2>2. IsFiniteSet(Copies(k, i)')
        /\ Load(k, i)' + Due(k, i) <= Load(k, i) + Due(k, i)'
    BY <1>8, <2>1, LoadFalls
  <2>3. Load(k, i)' \in Nat
    BY <1>9, <2>2, FS_CardinalityType DEF Load
  <2>4. Load(k, i)' <= Load(k, i) + 1 /\ Allowed + 1 <= Allowed' /\ 1 \in {0, 1}
    BY <1>8, <1>9, <1>11, <2>2, <2>3
  <2>. QED
    BY <1>3, <1>4, <1>5, <2>2, <2>4, StandingKept
<1>. QED
  BY <1>10, <1>11

LEMMA DecodedAllowed ==
    ASSUME TypeOK, NEW k, NEW i, Standing(k, i)
    PROVE  /\ Cardinality(Decoded(k, i)) <= Allowed
           /\ Seen(k, i) \/ Cardinality(Decoded(k, i)) + 1 <= Allowed
<1>1. /\ Cardinality(Copies(k, i)) \in Nat /\ Cardinality(Decoded(k, i)) \in Nat
      /\ Cardinality(Decoded(k, i)) <= Cardinality(Copies(k, i))
      /\ Due(k, i) \in {0, 1} /\ Allowed \in Nat /\ Load(k, i) \in Nat
  BY CountType DEF Standing
<1>2. Load(k, i) <= Allowed => Cardinality(Decoded(k, i)) <= Allowed
  BY <1>1 DEF Load
<1>. QED
  BY <1>1, <1>2 DEF Standing

(* Nothing waits: the copies are what was decoded.                         *)
LEMMA CopiesDecoded ==
    ASSUME NEW k, NEW i, queue = <<>>
    PROVE  Copies(k, i) = Decoded(k, i) /\ Waiting = {}
<1>1. Waiting = {}
  BY RangeEmpty DEF Waiting
<1>2. Announced(k, i) = {}
  BY <1>1 DEF Announced
<1>. QED
  BY <1>1, <1>2 DEF Copies

(* A session announces each metric's publication again, and the test       *)
(* awaits it.                                                              *)
LEMMA SessionStanding ==
    ASSUME TypeOK, TypeOK', Drained, NEW k \in Metrics, NEW i \in Nat, Standing(k, i),
           NewSession
    PROVE  Standing(k, i)'
<1>1. /\ queue = <<>> /\ queue' = <<>> /\ awaitingFirst' = Metrics
      /\ UNCHANGED <<node, lastTimestamp, decoded, faults>>
  BY DEF NewSession, Drained, history
<1>2. /\ Copies(k, i) = Decoded(k, i) /\ Waiting = {}
      /\ Copies(k, i)' = Decoded(k, i)' /\ Waiting' = {}
  <2>1. Waiting' = {} /\ Waiting = {}
    BY <1>1, RangeEmpty DEF Waiting
  <2>. QED
    BY <2>1 DEF Copies, Announced
<1>3. Decoded(k, i)' = Decoded(k, i) /\ Allowed' = Allowed
  BY <1>1 DEF Decoded, Allowed
<1>4. IsFiniteSet(Copies(k, i)')
  BY <1>2, <1>3 DEF Standing
<1>5. /\ Cardinality(Decoded(k, i)) \in Nat /\ Allowed \in Nat
      /\ Cardinality(Decoded(k, i)) <= Allowed
      /\ Seen(k, i) \/ Cardinality(Decoded(k, i)) + 1 <= Allowed
  BY CountType, DecodedAllowed DEF Standing
<1>6. Due(k, i)' \in {0, 1}
  BY DEF Due
<1>7. Load(k, i)' = Cardinality(Decoded(k, i)) + Due(k, i)'
  BY <1>2, <1>3 DEF Load
<1>8. CASE Seen(k, i)
  <2>1. Seen(k, i)' /\ Ahead(k, i)' /\ k \in awaitingFirst'
    BY <1>1, <1>2, <1>8 DEF Seen, Ahead
  <2>2. /\ Load(k, i)' <= Allowed' + 1
        /\ Cardinality(Decoded(k, i)') <= Allowed'
    BY <1>3, <1>5, <1>6, <1>7
  <2>. QED
    BY <1>4, <2>1, <2>2 DEF Standing
<1>9. CASE Cardinality(Decoded(k, i)) + 1 <= Allowed
  <2>1. /\ Load(k, i)' <= Allowed'
        /\ Cardinality(Decoded(k, i)') + 1 <= Allowed'
    BY <1>3, <1>5, <1>6, <1>7, <1>9
  <2>. QED
    BY <1>4, <2>1 DEF Standing
<1>. QED
  BY <1>5, <1>8, <1>9

(* A restart forgets the timestamps; it excuses one copy more.             *)
LEMMA CrashStanding ==
    ASSUME TypeOK, TypeOK', NEW k \in Metrics, NEW i \in Nat, Standing(k, i), Crash
    PROVE  Standing(k, i)'
<1>1. queue' = <<>> /\ UNCHANGED decoded
  BY DEF Crash
<1>2. Allowed' = Allowed + 1
  <2>1. /\ faults["crash"] \in Nat /\ faults["requality"] \in Nat
        /\ faults'["crash"] = faults["crash"] + 1
        /\ faults'["requality"] = faults["requality"]
    BY DEF Crash, Spend, TypeOK, FaultKinds
  <2>. QED
    BY <2>1 DEF Allowed
<1>3. Decoded(k, i)' = Decoded(k, i) /\ Copies(k, i)' = Decoded(k, i)
  <2>1. Waiting' = {}
    BY <1>1, RangeEmpty DEF Waiting
  <2>. QED
    BY <1>1, <2>1 DEF Copies, Announced, Decoded
<1>4. IsFiniteSet(Copies(k, i)')
  <2>1. Decoded(k, i) \in SUBSET Copies(k, i)
    BY DEF Copies
  <2>2. IsFiniteSet(Copies(k, i))
    BY DEF Standing
  <2>3. IsFiniteSet(Decoded(k, i))
    BY <2>1, <2>2, FS_Subset
  <2>. QED
    BY <1>3, <2>3
<1>5. /\ Cardinality(Decoded(k, i)) \in Nat /\ Allowed \in Nat
      /\ Cardinality(Decoded(k, i)) <= Allowed
  BY CountType, DecodedAllowed DEF Standing
<1>6. Due(k, i)' \in {0, 1}
  BY DEF Due
<1>7. Load(k, i)' = Cardinality(Decoded(k, i)) + Due(k, i)'
  BY <1>3 DEF Load
<1>8. Load(k, i)' <= Allowed' /\ Cardinality(Decoded(k, i)') + 1 <= Allowed'
  BY <1>2, <1>3, <1>5, <1>6, <1>7
<1>. QED
  BY <1>4, <1>8 DEF Standing

(* What the head of the queue leaves behind.                               *)
LEMMA HeadLeaves ==
    ASSUME TypeOK, Stamped, QueueOrdered, NEW k \in Metrics, NEW i \in Nat,
           queue # <<>>, queue' = Tail(queue), Head(queue).key = k,
           UNCHANGED <<node, fresh>>
    PROVE  /\ Announced(k, i)' \subseteq Announced(k, i)
           /\ \A a \in Waiting' : a.key = k => Head(queue).id <= a.id
           /\ Ahead(k, i) => Ahead(k, i)' /\ i <= Head(queue).id
           /\ i < Head(queue).id => Due(k, i)' = 0 /\ Announced(k, i)' = {}
           /\ Due(k, i)' = Due(k, i)
<1>. DEFINE h == Head(queue)
<1>1. h \in Waiting /\ \A a \in Waiting' : a \in Waiting /\ h.at < a.at
  BY TailWaiting
<1>2. h.id \in Nat /\ h.at \in Nat /\ \A a \in Waiting : a.id \in Nat /\ a.at \in Nat
  BY <1>1, WaitingType
<1>. HIDE DEF h
<1>3. Announced(k, i)' \subseteq Announced(k, i)
  BY <1>1, AnnouncedFewer
<1>4. ASSUME NEW a \in Waiting', a.key = k
      PROVE  h.id <= a.id /\ a.id \in Nat
  <2>1. h.at <= a.at /\ a \in Waiting /\ h.key = a.key
    BY <1>1, <1>2, <1>4 DEF h
  <2>. QED
    BY <1>1, <1>2, <1>4, <2>1 DEF Stamped
<1>5. Ahead(k, i) => Ahead(k, i)' /\ i <= h.id
  <2>1. Ahead(k, i) => Ahead(k, i)'
    BY <1>1 DEF Ahead
  <2>2. Ahead(k, i) => h.id >= i
    BY <1>1 DEF Ahead, h
  <2>. QED
    BY <1>2, <2>1, <2>2
<1>6. Due(k, i)' = Due(k, i)
  BY DEF Due
<1>7. ASSUME i < h.id
      PROVE  Due(k, i)' = 0 /\ Announced(k, i)' = {}
  <2>1. h.id <= node[k].id /\ node[k].id \in Nat
    BY <1>1, NodeType DEF Stamped, h
  <2>2. node'[k].id # i
    BY <1>2, <1>7, <2>1
  <2>3. {b \in Waiting' : b.key = k /\ b.id = i /\ b.ok} = {}
    BY <1>2, <1>4, <1>7
  <2>4. Announced(k, i)' = {}
    BY <2>3 DEF Announced
  <2>. QED
    BY <2>2, <2>4 DEF Due
<1>. QED
  BY <1>3, <1>4, <1>5, <1>6, <1>7 DEF h

(* A metric without a history sends one publication, in all its parts.     *)
LEMMA PayloadSingle ==
    ASSUME NEW item \in Item, Decodes(item), item.key \in Metrics \ Idempotent
    PROVE  \A r \in Range(Payload(item)) :
             r.key = item.key /\ r.id = item.id /\ r.at = item.at
<1>1. SUFFICES ASSUME NEW j \in 1 .. PayloadSize(item)
               PROVE  /\ Payload(item)[j].key = item.key
                      /\ Payload(item)[j].id = item.id
                      /\ Payload(item)[j].at = item.at
  BY DEF Range, Payload
<1>. QED
  BY DEF Payload

(* The first-value test skips the head: one copy less.                     *)
LEMMA SkipStanding ==
    ASSUME TypeOK, TypeOK', Numbered, Stamped, QueueOrdered, NEW k \in Metrics,
           NEW i \in Nat, Standing(k, i), SkipResent, Head(queue).key = k
    PROVE  Standing(k, i)'
<1>. DEFINE h == Head(queue)
<1>1. /\ queue # <<>> /\ queue' = Tail(queue) /\ Decodes(h)
      /\ UNCHANGED <<node, fresh, decoded, lastTimestamp, faults>>
  BY DEF SkipResent, Dequeue, plant
<1>2. /\ Announced(k, i)' \subseteq Announced(k, i)
      /\ Ahead(k, i) => i <= h.id
      /\ i < h.id => Due(k, i)' = 0 /\ Announced(k, i)' = {}
      /\ Due(k, i)' = Due(k, i)
  BY <1>1, HeadLeaves
<1>3. h \in Waiting /\ \A a \in Waiting' : a \in Waiting /\ h.at < a.at
  BY <1>1, TailWaiting
<1>4. /\ h \in Item /\ h.id \in Nat /\ h.at \in Nat
      /\ \A a \in Waiting : a.at \in Nat
  BY <1>3, WaitingType
<1>5. \A r \in decoded : r.at # h.at
  BY <1>3, WaitingType DEF Numbered
<1>6. h.key = k
  OBVIOUS
<1>. HIDE DEF h
<1>7. Decoded(k, i)' = Decoded(k, i) /\ Allowed' = Allowed
  BY <1>1 DEF Decoded, Allowed
<1>8. Copies(k, i)' \subseteq Copies(k, i)
  BY <1>2, <1>7 DEF Copies
<1>9. /\ Load(k, i) \in Nat /\ Allowed \in Nat /\ IsFiniteSet(Copies(k, i))
      /\ Cardinality(Decoded(k, i)) \in Nat
      /\ Cardinality(Decoded(k, i)) <= Allowed
  BY CountType, DecodedAllowed DEF Standing
<1>10. IsFiniteSet(Copies(k, i)') /\ Load(k, i)' <= Load(k, i)
  <2>1. Due(k, i)' <= Due(k, i)
    BY <1>2 DEF Due
  <2>. QED
    BY <1>8, <1>9, <2>1, LoadFalls
<1>11. Seen(k, i) => Seen(k, i)'
  BY <1>1, <1>3 DEF Seen
<1>12. ASSUME h.id = i PROVE Load(k, i)' + 1 <= Load(k, i)
  <2>1. h.at \in Copies(k, i)
    BY <1>1, <1>3, <1>6, <1>12 DEF Copies, Announced, Decodes
  <2>2. h.at \notin Copies(k, i)'
    <3>1. h.at \notin Decoded(k, i)'
      BY <1>5, <1>7 DEF Decoded
    <3>2. \A n \in Announced(k, i)' : \E a \in Waiting' : n = a.at
      BY DEF Announced
    <3>3. \A n \in Announced(k, i)' : n # h.at
      BY <1>3, <1>4, <3>2
    <3>. QED
      BY <3>1, <3>3 DEF Copies
  <2>3. Copies(k, i)' \in SUBSET (Copies(k, i) \ {h.at})
    BY <1>8, <2>2
  <2>4. /\ IsFiniteSet(Copies(k, i) \ {h.at})
        /\ Cardinality(Copies(k, i) \ {h.at}) = Cardinality(Copies(k, i)) - 1
    BY <1>9, <2>1, FS_RemoveElement
  <2>5. Cardinality(Copies(k, i)') <= Cardinality(Copies(k, i)) - 1
    BY <2>3, <2>4, FS_Subset
  <2>6. Cardinality(Copies(k, i)') \in Nat /\ Cardinality(Copies(k, i)) \in Nat
    BY <1>9, <1>10, FS_CardinalityType
  <2>7. Due(k, i) \in Nat
    BY DEF Due
  <2>. QED
    BY <1>2, <2>5, <2>6, <2>7 DEF Load
<1>13. ASSUME h.id # i, Ahead(k, i) PROVE Load(k, i)' <= Allowed'
  <2>1. Due(k, i)' = 0 /\ Announced(k, i)' = {}
    BY <1>2, <1>4, <1>13
  <2>2. Copies(k, i)' = Decoded(k, i)
    BY <1>7, <2>1 DEF Copies
  <2>. QED
    BY <1>7, <1>9, <2>1, <2>2 DEF Load
<1>14. Load(k, i)' <= Load(k, i) + 0 /\ Allowed + 0 <= Allowed' /\ 0 \in {0, 1}
  BY <1>7, <1>9, <1>10
<1>. QED
  BY <1>7, <1>10, <1>11, <1>12, <1>13, <1>14, StandingKept

(* The head is decoded: its announced copy is now a row, and the test      *)
(* knows its timestamp.                                                    *)
LEMMA KeepStanding ==
    ASSUME TypeOK, TypeOK', Numbered, Stamped, QueueOrdered,
           NEW k \in Metrics \ Idempotent,
           NEW i \in Nat, Standing(k, i), KeepRows, Head(queue).key = k
    PROVE  Standing(k, i)'
<1>. DEFINE h == Head(queue)
<1>1. /\ queue # <<>> /\ queue' = Tail(queue) /\ Decodes(h) /\ ~IsResent(h)
      /\ UNCHANGED <<node, fresh, faults>>
      /\ lastTimestamp'[k] = Max2(lastTimestamp[k], h.ts)
      /\ decoded' = decoded \cup Range(Payload(h))
  BY DEF KeepRows, Dequeue, plant, TypeOK
<1>2. /\ Announced(k, i)' \subseteq Announced(k, i)
      /\ Ahead(k, i) => i <= h.id
      /\ i < h.id => Due(k, i)' = 0 /\ Announced(k, i)' = {}
      /\ Due(k, i)' = Due(k, i)
  BY <1>1, HeadLeaves
<1>3. h \in Waiting /\ \A a \in Waiting' : a \in Waiting /\ h.at < a.at
  BY <1>1, TailWaiting
<1>4. /\ h \in Item /\ h.id \in Nat /\ h.at \in Nat /\ h.ts \in Nat
      /\ \A a \in Waiting : a.at \in Nat /\ a.ts \in Nat
  BY <1>3, WaitingType
<1>5. h.key = k
  OBVIOUS
<1>. HIDE DEF h
<1>6. /\ h.id \in Nat \ {0} /\ decoded \subseteq decoded'
      /\ \A r \in decoded' : r \in decoded \/ (r.key = k /\ r.id = h.id /\ r.at = h.at)
  <2>1. \A r \in Range(Payload(h)) : r.key = k /\ r.id = h.id /\ r.at = h.at
    BY <1>1, <1>4, <1>5, PayloadSingle
  <2>. QED
    BY <1>1, <1>4, <2>1 DEF Decodes
<1>7. /\ h.ts > 0 /\ h.id <= node[k].id
      /\ h.id = node[k].id => h.ts = node[k].ts
  BY <1>3, <1>5, <1>6 DEF Stamped
<1>8. lastTimestamp[k] \in Nat /\ lastTimestamp'[k] \in Nat /\ node[k].ts \in Nat
      /\ lastTimestamp[k] <= lastTimestamp'[k] /\ h.ts <= lastTimestamp'[k]
  BY <1>1, <1>4, NodeType DEF Max2
<1>9. /\ Load(k, i) \in Nat /\ Allowed \in Nat /\ IsFiniteSet(Copies(k, i))
      /\ Cardinality(Decoded(k, i)) \in Nat
      /\ Cardinality(Decoded(k, i)) <= Allowed
      /\ Allowed' = Allowed
  BY <1>1, CountType, DecodedAllowed DEF Standing, Allowed
<1>11. CASE h.id = i
  <2>1. h.at \in Announced(k, i)
    BY <1>1, <1>3, <1>5, <1>11 DEF Announced, Decodes
  <2>2. Decoded(k, i)' \subseteq Decoded(k, i) \cup {h.at}
    BY <1>6 DEF Decoded
  <2>3. Copies(k, i)' \subseteq Copies(k, i)
    BY <1>2, <2>1, <2>2 DEF Copies
  <2>4. IsFiniteSet(Copies(k, i)') /\ Load(k, i)' <= Load(k, i)
    <3>1. Due(k, i)' <= Due(k, i)
      BY <1>2 DEF Due
    <3>. QED
      BY <1>9, <2>3, <3>1, LoadFalls
  <2>5. Load(k, i) <= Allowed
    <3>1. Seen(k, i) /\ k \in awaitingFirst => IsResent(h)
      BY <1>3, <1>5, <1>11 DEF Seen, IsResent
    <3>. QED
      BY <1>1, <3>1 DEF Standing
  <2>6. ASSUME NEW a \in Waiting', a.key = k, a.id = i
        PROVE  a.ts <= lastTimestamp'[k]
    <3>1. a \in Waiting /\ h.at <= a.at
      BY <1>3, <1>4
    <3>2. h.ts = a.ts
      BY <1>3, <1>5, <1>11, <2>6, <3>1 DEF Stamped
    <3>. QED
      BY <1>8, <3>2
  <2>7. lastTimestamp'[k] # 0
    BY <1>4, <1>7, <1>8
  <2>8. Seen(k, i)'
    BY <1>1, <1>7, <1>8, <1>11, <2>6, <2>7 DEF Seen
  <2>9. Load(k, i)' \in Nat
    <3>1. Due(k, i)' \in Nat
      BY DEF Due
    <3>. QED
      BY <2>4, <3>1, FS_CardinalityType DEF Load
  <2>10. Load(k, i)' <= Allowed'
    BY <1>9, <2>4, <2>5, <2>9
  <2>. QED
    BY <2>4, <2>8, <2>10 DEF Standing
<1>12. CASE h.id # i
  <2>1. Decoded(k, i)' = Decoded(k, i)
    BY <1>6, <1>12, DecodedSame
  <2>2. Copies(k, i)' \subseteq Copies(k, i)
    BY <1>2, <2>1 DEF Copies
  <2>3. IsFiniteSet(Copies(k, i)') /\ Load(k, i)' <= Load(k, i)
    <3>1. Due(k, i)' <= Due(k, i)
      BY <1>2 DEF Due
    <3>. QED
      BY <1>9, <2>2, <3>1, LoadFalls
  <2>4. ASSUME Seen(k, i) PROVE Seen(k, i)'
    <3>1. lastTimestamp'[k] # 0
      BY <1>8, <2>4 DEF Seen
    <3>2. \A a \in Waiting' : a.key = k /\ a.id = i => a.ts <= lastTimestamp'[k]
      BY <1>3, <1>4, <1>8, <2>4 DEF Seen
    <3>3. node'[k].id = i => node'[k].ts <= lastTimestamp'[k]
      BY <1>1, <1>8, <2>4 DEF Seen
    <3>. QED
      BY <1>1, <2>4, <3>1, <3>2, <3>3 DEF Seen
  <2>5. ASSUME Ahead(k, i) PROVE Load(k, i)' <= Allowed'
    <3>1. Due(k, i)' = 0 /\ Announced(k, i)' = {}
      BY <1>2, <1>4, <1>12, <2>5
    <3>2. Copies(k, i)' = Decoded(k, i)
      BY <2>1, <3>1 DEF Copies
    <3>. QED
      BY <1>9, <3>1, <3>2 DEF Load
  <2>6. Load(k, i)' <= Load(k, i) + 0 /\ Allowed + 0 <= Allowed' /\ 0 \in {0, 1}
    BY <1>9, <2>3
  <2>. QED
    BY <2>1, <2>3, <2>4, <2>5, <2>6, StandingKept
<1>. QED
  BY <1>11, <1>12

LEMMA InitOnce == Init => Drained /\ Stamped /\ OnceEach
<1>. SUFFICES ASSUME Init PROVE Drained /\ Stamped /\ OnceEach
  OBVIOUS
<1>1. Waiting = {}
  BY RangeEmpty DEF Init, Waiting
<1>2. Drained /\ Stamped
  BY <1>1 DEF Init, Drained, Stamped
<1>3. ASSUME NEW k \in Metrics, NEW i \in 1 .. MaxPublish
      PROVE  Standing(k, i)
  <2>1. Decoded(k, i) = {} /\ Announced(k, i) = {}
    BY <1>1 DEF Init, Decoded, Announced
  <2>2. Copies(k, i) = {}
    BY <2>1 DEF Copies
  <2>3. IsFiniteSet(Copies(k, i)) /\ Cardinality(Copies(k, i)) = 0
        /\ Cardinality(Decoded(k, i)) = 0
    BY <2>1, <2>2, FS_EmptySet
  <2>4. Due(k, i) = 0
    BY DEF Due, Init
  <2>5. TypeOK
    BY InitType
  <2>6. Allowed \in Nat /\ Allowed >= 1
    BY <2>5, CountType
  <2>. QED
    BY <2>3, <2>4, <2>6 DEF Standing, Load
<1>. QED
  BY <1>2, <1>3 DEF OnceEach

LEMMA NextOnce ==
    /\ IInv /\ TypeOK' /\ QueueOrdered /\ Drained /\ Stamped /\ OnceEach
    /\ [Next]_vars
    => OnceEach'
<1>. SUFFICES ASSUME IInv, TypeOK', QueueOrdered, Drained, Stamped, OnceEach, [Next]_vars,
                     NEW k \in Metrics \ Idempotent, NEW i \in 1 .. MaxPublish
              PROVE  Standing(k, i)'
  BY DEF OnceEach
<1>. USE DEF buffer, thread, plant, database, history
<1>t. TypeOK /\ Numbered /\ Standing(k, i) /\ i \in Nat /\ k \in Metrics
  BY DEF IInv, OnceEach
<1>f. faults["crash"] \in Nat /\ faults["requality"] \in Nat
  BY <1>t DEF TypeOK, FaultKinds
<1>1. ASSUME NEW m \in Metrics, NEW ts \in 1 .. MaxPublish, Publish(m, ts)
      PROVE  Standing(k, i)'
  <2>1. CASE m = k
    BY <1>t, <1>1, <2>1, PublishStanding
  <2>2. CASE m # k
    <3>1. /\ UNCHANGED <<queue, decoded, lastTimestamp, awaitingFirst>>
          /\ node'[k] = node[k] /\ (k \in fresh' => k \in fresh)
      BY <1>t, <1>1, <2>2 DEF Publish, TypeOK
    <3>2. Waiting' = Waiting
      BY <3>1 DEF Waiting
    <3>3. Allowed' = Allowed
      BY <1>t, <1>1 DEF Publish, Spend, TypeOK, FaultKinds, Allowed
    <3>4. Allowed <= Allowed'
      BY <1>f, <3>3 DEF Allowed
    <3>. QED
      BY <1>t, <3>1, <3>2, <3>4, StandingElsewhere
  <2>. QED
    BY <2>1, <2>2
<1>2. ASSUME NEW m \in Metrics, NEW ok \in BOOLEAN, Put(ItemOf(m, ok)),
             \/ ok /\ m \in fresh /\ fresh' = fresh \ {m} /\ UNCHANGED faults
             \/ ~ok /\ fresh' = fresh \cup {m} /\ Spend("requality")
      PROVE  Standing(k, i)'
  <2>. DEFINE item == ItemOf(m, ok)
  <2>1. /\ item \in Item /\ item.key = m /\ item.id = node[m].id /\ item.ts = node[m].ts
        /\ item.ok = ok
    BY <1>t, ItemOfMetric DEF ItemOf
  <2>2. queue' = Enqueued(item)
        /\ UNCHANGED <<node, lastTimestamp, awaitingFirst, decoded>>
    BY <1>2 DEF Put
  <2>. HIDE DEF item
  <2>3. \/ ok /\ m \in fresh /\ fresh' = fresh \ {m} /\ Allowed' = Allowed
        \/ ~ok /\ fresh' = fresh \cup {m} /\ Allowed' = Allowed + 1
    <3>1. ASSUME Spend("requality") PROVE Allowed' = Allowed + 1
      <4>1. /\ faults'["crash"] = faults["crash"]
            /\ faults'["requality"] = faults["requality"] + 1
        BY <1>t, <3>1 DEF Spend, TypeOK, FaultKinds
      <4>. QED
        BY <1>f, <4>1 DEF Allowed
    <3>2. UNCHANGED faults => Allowed' = Allowed
      BY DEF Allowed
    <3>. QED
      BY <1>2, <3>1, <3>2
  <2>4. CASE m = k
    BY <1>t, <2>1, <2>2, <2>3, <2>4, NotifyStanding
  <2>5. CASE m # k
    <3>1. \A a \in Waiting' : a.key = k => a \in Waiting
      BY <1>t, <2>1, <2>2, <2>5, PutWaiting
    <3>2. Allowed <= Allowed'
      BY <1>f, <2>3 DEF Allowed
    <3>3. k \in fresh' => k \in fresh
      BY <2>3, <2>5
    <3>. QED
      BY <1>t, <2>2, <3>1, <3>2, <3>3, StandingElsewhere
  <2>. QED
    BY <2>4, <2>5
<1>3. ASSUME NEW t \in Tags, NEW ok \in BOOLEAN, NotifyTag(t, ok)
      PROVE  Standing(k, i)'
  <2>. DEFINE item == [key |-> t, id |-> arrivals + 1, ts |-> 0,
                       at |-> arrivals + 1, ok |-> ok]
  <2>1. item \in Item /\ item.key # k
    BY <1>t, ItemOfTag, IngestAssumption
  <2>2. queue' = Enqueued(item)
        /\ UNCHANGED <<node, fresh, lastTimestamp, awaitingFirst, decoded, faults>>
    BY <1>3 DEF NotifyTag, Put
  <2>. HIDE DEF item
  <2>3. \A a \in Waiting' : a.key = k => a \in Waiting
    BY <1>t, <2>1, <2>2, PutWaiting
  <2>4. Allowed <= Allowed'
    BY <1>f, <2>2 DEF Allowed
  <2>. QED
    BY <1>t, <2>2, <2>3, <2>4, StandingElsewhere
<1>4. CASE AddModel
  <2>1. UNCHANGED <<queue, node, fresh, lastTimestamp, awaitingFirst, faults>>
    BY <1>4 DEF AddModel
  <2>2. decoded \subseteq decoded' /\ \A r \in decoded' : r \in decoded \/ r.key = Collector
    BY <1>4 DEF AddModel
  <2>3. \A r \in decoded' : r.key = k => r \in decoded
    BY <1>t, <2>2, IngestAssumption
  <2>4. Waiting' = Waiting /\ Allowed <= Allowed'
    BY <1>f, <2>1 DEF Waiting, Allowed
  <2>. QED
    BY <1>t, <2>1, <2>2, <2>3, <2>4, StandingElsewhere
<1>5. ASSUME DropItem \/ SkipResent \/ KeepRows,
             DropItem \/ Head(queue).key # k
      PROVE  Standing(k, i)'
  <2>1. /\ queue # <<>> /\ queue' = Tail(queue) /\ UNCHANGED <<node, fresh, faults>>
    BY <1>5 DEF DropItem, SkipResent, KeepRows, Dequeue
  <2>2. \A a \in Waiting' : a \in Waiting
    BY <1>t, <2>1, TailWaiting
  <2>3. Head(queue) \in Item
    BY <1>t, <2>1, TailItems DEF TypeOK
  <2>4. lastTimestamp'[k] = lastTimestamp[k] /\ (k \in awaitingFirst' <=> k \in awaitingFirst)
    BY <1>t, <1>5 DEF DropItem, SkipResent, KeepRows, TypeOK
  <2>5. decoded \subseteq decoded' /\ \A r \in decoded' : r.key = k => r \in decoded
    <3>1. CASE KeepRows
      <4>1. decoded' = decoded \cup Range(Payload(Head(queue))) /\ Decodes(Head(queue))
        BY <3>1 DEF KeepRows
      <4>2. Head(queue).key # k
        BY <1>5, <3>1 DEF DropItem, KeepRows
      <4>3. \A r \in Range(Payload(Head(queue))) : r.key # k
        BY <2>3, <4>1, <4>2, PayloadOlder
      <4>. QED
        BY <4>1, <4>3
    <3>2. CASE DropItem \/ SkipResent
      BY <3>2 DEF DropItem, SkipResent
    <3>. QED
      BY <1>5, <3>1, <3>2
  <2>6. Allowed <= Allowed'
    BY <1>f, <2>1 DEF Allowed
  <2>. QED
    BY <1>t, <2>1, <2>2, <2>4, <2>5, <2>6, StandingElsewhere
<1>6. CASE SkipResent /\ Head(queue).key = k
  BY <1>t, <1>6, SkipStanding
<1>7. CASE KeepRows /\ Head(queue).key = k
  BY <1>t, <1>7, KeepStanding
<1>8. CASE NewSession
  BY <1>t, <1>8, SessionStanding
<1>9. CASE Crash
  BY <1>t, <1>9, CrashStanding
<1>10. CASE \/ EndSession \/ Tick \/ FinalFlush \/ BeginWrite
            \/ FlushDone \/ FlushFailed \/ StartWrite \/ Commit \/ LoseConnection
            \/ Rollback \/ LostAck \/ Orphan \/ UNCHANGED vars
  <2>1. UNCHANGED <<queue, node, fresh, lastTimestamp, awaitingFirst, decoded>>
    BY <1>10 DEF EndSession, Tick, FinalFlush, BeginWrite,
         FlushDone, FlushFailed, StartWrite, Commit, LoseConnection, Rollback, LostAck,
         Orphan, OrphanCommit, OrphanFail, vars
  <2>2. UNCHANGED faults \/ Spend("rollback") \/ Spend("connection")
    BY <1>10 DEF EndSession, Tick, FinalFlush, BeginWrite,
         FlushDone, FlushFailed, StartWrite, Commit, LoseConnection, Rollback, LostAck,
         Orphan, OrphanCommit, OrphanFail, vars
  <2>3. /\ faults'["crash"] = faults["crash"]
        /\ faults'["requality"] = faults["requality"]
    BY <1>t, <2>2 DEF Spend, TypeOK, FaultKinds
  <2>4. Waiting' = Waiting /\ Allowed <= Allowed'
    BY <1>f, <2>1, <2>3 DEF Waiting, Allowed
  <2>. QED
    BY <1>t, <2>1, <2>4, StandingElsewhere
<1>11. CASE Notification
  BY <1>2, <1>3, <1>4, <1>11 DEF Notification, NotifyMetric, NotifyBadStatus
<1>12. CASE Extractor
  BY <1>1, <1>12 DEF Extractor
<1>13. CASE DropItem \/ SkipResent \/ KeepRows
  BY <1>5, <1>6, <1>7, <1>13
<1>. QED
  BY <1>8, <1>9, <1>10, <1>11, <1>12, <1>13 DEF Next, Flushing, Writer

LEMMA OnceIsAtMostOnce ==
    ASSUME IInv, OnceEach
    PROVE  AtMostOnce
<1>. DEFINE ats(k, i) == {r.at : r \in {s \in stored : s.key = k /\ s.id = i}}
<1>. SUFFICES ASSUME NEW k \in Metrics \ Idempotent, NEW i \in 1 .. MaxPublish
              PROVE  Cardinality(ats(k, i)) <= Allowed
  BY DEF AtMostOnce, Allowed
<1>1. Standing(k, i) /\ TypeOK
  BY DEF OnceEach, IInv
<1>2. ats(k, i) \in SUBSET Decoded(k, i)
  BY DEF IInv, Accounting, EveryRowAccounted, Decoded
<1>3. Decoded(k, i) \in SUBSET Copies(k, i) /\ IsFiniteSet(Copies(k, i))
  BY <1>1 DEF Copies, Standing
<1>4. IsFiniteSet(Decoded(k, i))
  BY <1>3, FS_Subset
<1>. HIDE DEF ats
<1>5. /\ IsFiniteSet(ats(k, i))
      /\ Cardinality(ats(k, i)) <= Cardinality(Decoded(k, i))
  BY <1>2, <1>4, FS_Subset
<1>6. Cardinality(Decoded(k, i)) <= Allowed
  BY <1>1, DecodedAllowed
<1>7. /\ Cardinality(ats(k, i)) \in Nat
      /\ Cardinality(Decoded(k, i)) \in Nat /\ Allowed \in Nat
  BY <1>1, <1>4, <1>5, FS_CardinalityType, CountType
<1>. QED
  BY <1>5, <1>6, <1>7

(* A reading of a metric whose table has no primary key is stored from at  *)
(* most one arrival, plus one for every restart of the process and every   *)
(* status that turned bad and good again, whatever the queue drops, the    *)
(* sessions repeat, the transactions roll back or the publishing clock     *)
(* does (ingest.py 135-140); any number of rows may make up the reading.   *)
THEOREM StoredOnce == Spec => []AtMostOnce
<1>1. Init => IInv /\ Room /\ Ordered /\ Drained /\ Stamped /\ OnceEach
  BY InitIInv, InitRoom, InitOrdered, InitOnce
<1>2. IInv /\ Room /\ Ordered /\ Drained /\ Stamped /\ OnceEach /\ [Next]_vars
        => (IInv /\ Room /\ Ordered /\ Drained /\ Stamped /\ OnceEach)'
  <2>. SUFFICES ASSUME IInv, Room, Ordered, Drained, Stamped, OnceEach, [Next]_vars
                PROVE  (IInv /\ Room /\ Ordered /\ Drained /\ Stamped /\ OnceEach)'
    OBVIOUS
  <2>1. TypeOK /\ Staged /\ QueueOrdered
    BY DEF IInv, Ordered
  <2>2. IInv' /\ Room' /\ Ordered'
    BY <2>1, NextIInv, NextRoom, NextOrdered
  <2>3. TypeOK'
    BY <2>2 DEF IInv
  <2>4. Drained' /\ Stamped'
    BY <2>1, NextDrained, NextStamped
  <2>5. OnceEach'
    BY <2>1, <2>3, NextOnce
  <2>. QED
    BY <2>2, <2>4, <2>5
<1>3. IInv /\ OnceEach => AtMostOnce
  BY OnceIsAtMostOnce
<1>. QED
  BY <1>1, <1>2, <1>3, PTL DEF Spec
=============================================================================
