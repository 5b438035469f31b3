--------------------------- MODULE PublisherProofs ---------------------------
(***************************************************************************)
(* For any metrics, limits, buffer sizes and faults: log records reach the *)
(* node once and in order, or are lost for a named cause.                  *)
(***************************************************************************)
EXTENDS Publisher, TLAPS

Below(S, T) == \A x \in S, y \in T : x < y

(* Control: tasks run only during a cycle, the errors unit carries records *)
(* only between drain and write, and a count at the limit ends the session.*)
Control ==
    /\ main # "cycle" => \A u \in Units : task[u] = "done"
    /\ payload # <<>> => task[Errors] \in {"drained", "writing"}
    /\ main \in {"cycle", "waiting"} => \A u \in Units : failures[u] < Limit

(* Records move from the buffer to the payload to the node and keep their  *)
(* order on the way.                                                       *)
Ordered ==
    /\ Increasing(published) /\ Increasing(payload) /\ Increasing(buffer)
    /\ Below(Records(published), Records(payload))
    /\ Below(Records(published), Records(buffer))
    /\ Below(Records(payload), Records(buffer))
    /\ Below(evicted, Records(buffer))

IInv == TypeOK /\ Control /\ Ordered /\ EveryRecordAccounted

-----------------------------------------------------------------------------
(* Sequences of records.                                                   *)

LEMMA NoRecords ==
    Records(<<>>) = {} /\ Increasing(<<>>) /\ \A S : <<>> \in Seq(S)
BY DEF Records, Increasing

LEMMA RecordsType ==
    ASSUME NEW n \in Nat, NEW s \in Seq(1 .. n)
    PROVE  Records(s) \subseteq 1 .. n
BY DEF Records

LEMMA RecordsAt ==
    ASSUME NEW n \in Nat, NEW s \in Seq(1 .. n)
    PROVE  /\ Len(s) \in Nat
           /\ \A x : x \in Records(s) <=> \E i \in 1 .. Len(s) : x = s[i]
BY DEF Records

LEMMA IncreasingAt ==
    ASSUME NEW n \in Nat, NEW s \in Seq(1 .. n)
    PROVE  Increasing(s) <=> \A i, j \in 1 .. Len(s) : i < j => s[i] < s[j]
<1>1. DOMAIN s = 1 .. Len(s)
  OBVIOUS
<1>. QED
  BY <1>1 DEF Increasing

LEMMA Widened ==
    ASSUME NEW m \in Nat, NEW n \in Nat, m <= n, NEW s \in Seq(1 .. m)
    PROVE  s \in Seq(1 .. n)
<1>1. Len(s) \in Nat /\ s \in [1 .. Len(s) -> 1 .. m]
  OBVIOUS
<1>2. s \in [1 .. Len(s) -> 1 .. n]
  BY <1>1
<1>. QED
  BY <1>1, <1>2

LEMMA Concatenated ==
    ASSUME NEW n \in Nat, NEW s \in Seq(1 .. n), NEW t \in Seq(1 .. n),
           Increasing(s), Increasing(t), Below(Records(s), Records(t))
    PROVE  /\ s \o t \in Seq(1 .. n)
           /\ Increasing(s \o t)
           /\ Records(s \o t) = Records(s) \cup Records(t)
<1>. DEFINE c == s \o t
<1>0. Len(s) \in Nat /\ Len(t) \in Nat
  OBVIOUS
<1>1. /\ c \in Seq(1 .. n) /\ Len(c) = Len(s) + Len(t)
      /\ \A i \in 1 .. Len(s) : c[i] = s[i]
      /\ \A i \in 1 .. Len(t) : c[Len(s) + i] = t[i]
  OBVIOUS
<1>. HIDE DEF c
<1>2. /\ \A i, j \in 1 .. Len(s) : i < j => s[i] < s[j]
      /\ \A x : x \in Records(s) <=> \E i \in 1 .. Len(s) : x = s[i]
      /\ \A i, j \in 1 .. Len(t) : i < j => t[i] < t[j]
      /\ \A x : x \in Records(t) <=> \E i \in 1 .. Len(t) : x = t[i]
  BY RecordsAt, IncreasingAt
<1>3. /\ Increasing(c) <=> \A i, j \in 1 .. Len(c) : i < j => c[i] < c[j]
      /\ \A x : x \in Records(c) <=> \E i \in 1 .. Len(c) : x = c[i]
  BY <1>1, RecordsAt, IncreasingAt
<1>4. \A i \in 1 .. Len(c) : \/ i \in 1 .. Len(s) /\ c[i] = s[i]
                             \/ /\ i - Len(s) \in 1 .. Len(t) /\ i > Len(s)
                                /\ c[i] = t[i - Len(s)]
  <2>. SUFFICES ASSUME NEW i \in 1 .. Len(c), i > Len(s)
                PROVE  i - Len(s) \in 1 .. Len(t) /\ c[i] = t[i - Len(s)]
    BY <1>0, <1>1
  <2>1. i - Len(s) \in 1 .. Len(t) /\ Len(s) + (i - Len(s)) = i
    BY <1>0, <1>1
  <2>. QED
    BY <1>1, <2>1
<1>5. \A i \in 1 .. Len(s), j \in 1 .. Len(t) : s[i] < t[j]
  BY <1>2 DEF Below
<1>6. Increasing(c)
  <2>. SUFFICES ASSUME NEW i \in 1 .. Len(c), NEW j \in 1 .. Len(c), i < j
                PROVE  c[i] < c[j]
    BY <1>3
  <2>1. CASE i > Len(s)
    <3>1. j > Len(s) /\ i - Len(s) < j - Len(s) /\ i \notin 1 .. Len(s) /\ j \notin 1 .. Len(s)
      BY <1>0, <1>1, <2>1
    <3>2. /\ i - Len(s) \in 1 .. Len(t) /\ c[i] = t[i - Len(s)]
          /\ j - Len(s) \in 1 .. Len(t) /\ c[j] = t[j - Len(s)]
      BY <1>4, <3>1
    <3>. QED
      BY <1>2, <3>1, <3>2
  <2>2. CASE j \in 1 .. Len(s)
    <3>1. i \in 1 .. Len(s)
      BY <1>0, <1>1, <2>2
    <3>. QED
      BY <1>1, <1>2, <2>2, <3>1
  <2>3. CASE i <= Len(s) /\ j > Len(s)
    <3>1. i \in 1 .. Len(s) /\ j \notin 1 .. Len(s)
      BY <1>0, <1>1, <2>3
    <3>. QED
      BY <1>1, <1>4, <1>5, <3>1
  <2>. QED
    BY <1>0, <1>1, <2>1, <2>2, <2>3
<1>7. Records(c) \subseteq Records(s) \cup Records(t)
  BY <1>2, <1>3, <1>4
<1>8. Records(s) \cup Records(t) \subseteq Records(c)
  <2>1. /\ \A i \in 1 .. Len(s) : i \in 1 .. Len(c)
        /\ \A i \in 1 .. Len(t) : Len(s) + i \in 1 .. Len(c)
    BY <1>0, <1>1
  <2>2. ASSUME NEW i \in 1 .. Len(s) PROVE s[i] \in Records(c)
    BY <1>1, <1>3, <2>1
  <2>3. ASSUME NEW i \in 1 .. Len(t) PROVE t[i] \in Records(c)
    BY <1>1, <1>3, <2>1
  <2>. QED
    BY <1>2, <2>2, <2>3
<1>. QED
  BY <1>1, <1>6, <1>7, <1>8 DEF c

(* The oldest k records of s and the rest.                                 *)
LEMMA Split ==
    ASSUME NEW n \in Nat, NEW s \in Seq(1 .. n), Increasing(s), NEW k \in 0 .. Len(s)
    PROVE  /\ SubSeq(s, 1, k) \in Seq(1 .. n) /\ Increasing(SubSeq(s, 1, k))
           /\ SubSeq(s, k + 1, Len(s)) \in Seq(1 .. n)
           /\ Increasing(SubSeq(s, k + 1, Len(s)))
           /\ Len(SubSeq(s, k + 1, Len(s))) <= Len(s)
           /\ Records(s) = Records(SubSeq(s, 1, k)) \cup Records(SubSeq(s, k + 1, Len(s)))
           /\ Below(Records(SubSeq(s, 1, k)), Records(SubSeq(s, k + 1, Len(s))))
<1>. DEFINE old == SubSeq(s, 1, k)
            rest == SubSeq(s, k + 1, Len(s))
<1>0. Len(s) \in Nat /\ k \in Nat
  OBVIOUS
<1>1. /\ old \in Seq(1 .. n) /\ Len(old) = k
      /\ \A i \in 1 .. k : old[i] = s[i]
  OBVIOUS
<1>2. /\ rest \in Seq(1 .. n) /\ Len(rest) = Len(s) - k
      /\ \A i \in 1 .. Len(s) - k : rest[i] = s[k + i]
  <2>1. rest \in Seq(1 .. n)
    BY <1>0
  <2>2. Len(rest) = Len(s) - k
    BY <1>0
  <2>3. ASSUME NEW i \in 1 .. Len(s) - k PROVE rest[i] = s[k + i]
    BY <1>0
  <2>. QED
    BY <2>1, <2>2, <2>3
<1>. HIDE DEF old, rest
<1>a. /\ \A i, j \in 1 .. Len(s) : i < j => s[i] < s[j]
      /\ \A x : x \in Records(s) <=> \E i \in 1 .. Len(s) : x = s[i]
  BY RecordsAt, IncreasingAt
<1>b. /\ Increasing(old) <=> \A i, j \in 1 .. k : i < j => old[i] < old[j]
      /\ \A x : x \in Records(old) <=> \E i \in 1 .. k : x = old[i]
  <2>1. /\ Increasing(old) <=> \A i, j \in 1 .. Len(old) : i < j => old[i] < old[j]
        /\ \A x : x \in Records(old) <=> \E i \in 1 .. Len(old) : x = old[i]
    BY <1>1, RecordsAt, IncreasingAt
  <2>. QED
    BY <1>1, <2>1
<1>c. /\ Increasing(rest) <=> \A i, j \in 1 .. Len(s) - k : i < j => rest[i] < rest[j]
      /\ \A x : x \in Records(rest) <=> \E i \in 1 .. Len(s) - k : x = rest[i]
  <2>1. /\ Increasing(rest) <=> \A i, j \in 1 .. Len(rest) : i < j => rest[i] < rest[j]
        /\ \A x : x \in Records(rest) <=> \E i \in 1 .. Len(rest) : x = rest[i]
    BY <1>2, RecordsAt, IncreasingAt
  <2>. QED
    BY <1>2, <2>1
<1>3. Increasing(old)
  <2>1. \A i \in 1 .. k : i \in 1 .. Len(s)
    BY <1>0
  <2>. QED
    BY <1>1, <1>a, <1>b, <2>1
<1>4. Increasing(rest)
  <2>1. \A i \in 1 .. Len(s) - k : k + i \in 1 .. Len(s)
    BY <1>0
  <2>2. \A i, j \in 1 .. Len(s) - k : i < j => k + i < k + j
    BY <1>0
  <2>. QED
    BY <1>2, <1>a, <1>c, <2>1, <2>2
<1>5. Below(Records(old), Records(rest))
  <2>. SUFFICES ASSUME NEW i \in 1 .. k, NEW j \in 1 .. Len(s) - k
                PROVE  old[i] < rest[j]
    BY <1>b, <1>c DEF Below
  <2>1. i \in 1 .. Len(s) /\ k + j \in 1 .. Len(s) /\ i < k + j
    BY <1>0
  <2>. QED
    BY <1>1, <1>2, <1>a, <2>1
<1>6. Records(old) \subseteq Records(s) /\ Records(rest) \subseteq Records(s)
  <2>1. \A i \in 1 .. k : i \in 1 .. Len(s)
    BY <1>0
  <2>2. \A i \in 1 .. Len(s) - k : k + i \in 1 .. Len(s)
    BY <1>0
  <2>3. Records(old) \subseteq Records(s)
    BY <1>1, <1>a, <1>b, <2>1
  <2>4. Records(rest) \subseteq Records(s)
    BY <1>2, <1>a, <1>c, <2>2
  <2>. QED
    BY <2>3, <2>4
<1>7. ASSUME NEW i \in 1 .. Len(s) PROVE s[i] \in Records(old) \cup Records(rest)
  <2>1. CASE i <= k
    <3>1. i \in 1 .. k
      BY <1>0, <2>1
    <3>. QED
      BY <1>1, <1>b, <3>1
  <2>2. CASE i > k
    <3>1. i - k \in 1 .. Len(s) - k /\ rest[i - k] = s[i]
      <4>1. i - k \in 1 .. Len(s) - k /\ k + (i - k) = i
        BY <1>0, <2>2
      <4>. QED
        BY <1>2, <4>1
    <3>. QED
      BY <1>c, <3>1
  <2>. QED
    BY <1>0, <2>1, <2>2
<1>8. Records(s) = Records(old) \cup Records(rest)
  BY <1>6, <1>7, <1>a
<1>9. Len(rest) <= Len(s)
  BY <1>0, <1>2
<1>. QED
  BY <1>1, <1>2, <1>3, <1>4, <1>5, <1>8, <1>9 DEF old, rest

LEMMA DrainSplits ==
    ASSUME TypeOK, Increasing(buffer)
    PROVE  /\ Drained \in Seq(1 .. emitted) /\ Increasing(Drained)
           /\ Remaining \in Seq(1 .. emitted) /\ Increasing(Remaining)
           /\ Len(Remaining) <= BufferSize
           /\ Records(buffer) = Records(Drained) \cup Records(Remaining)
           /\ Below(Records(Drained), Records(Remaining))
<1>1. /\ emitted \in Nat /\ buffer \in Seq(1 .. emitted) /\ Len(buffer) \in Nat
      /\ Len(buffer) <= BufferSize
  BY PublisherAssumption DEF TypeOK
<1>2. DrainCount \in 0 .. Len(buffer)
  BY <1>1, PublisherAssumption DEF DrainCount
<1>3. /\ SubSeq(buffer, 1, DrainCount) \in Seq(1 .. emitted)
      /\ Increasing(SubSeq(buffer, 1, DrainCount))
      /\ SubSeq(buffer, DrainCount + 1, Len(buffer)) \in Seq(1 .. emitted)
      /\ Increasing(SubSeq(buffer, DrainCount + 1, Len(buffer)))
      /\ Len(SubSeq(buffer, DrainCount + 1, Len(buffer))) <= Len(buffer)
      /\ Records(buffer) = Records(SubSeq(buffer, 1, DrainCount))
                           \cup Records(SubSeq(buffer, DrainCount + 1, Len(buffer)))
      /\ Below(Records(SubSeq(buffer, 1, DrainCount)),
               Records(SubSeq(buffer, DrainCount + 1, Len(buffer))))
  BY <1>1, <1>2, Split
<1>4. Len(Remaining) \in Nat /\ BufferSize \in Nat
  BY <1>3, PublisherAssumption DEF Remaining
<1>. QED
  BY <1>1, <1>3, <1>4 DEF Drained, Remaining

-----------------------------------------------------------------------------
(* A record logged is the newest of the buffer; a full one drops its       *)
(* oldest.                                                                 *)
Logged ==
    /\ emitted' \in 0 .. MaxRecords /\ emitted <= emitted'
    /\ buffer' \in Seq(1 .. emitted') /\ Len(buffer') <= BufferSize
    /\ Increasing(buffer')
    /\ \A r \in Records(buffer') : r \in Records(buffer) \/ r > emitted
    /\ \A r \in Records(buffer) : r \in Records(buffer') \cup evicted'
    /\ \A r \in 1 .. emitted' : r <= emitted \/ r \in Records(buffer')
    /\ evicted \subseteq evicted' /\ evicted' \subseteq 1 .. emitted
    /\ Below(evicted', Records(buffer'))
    /\ offline' \subseteq 1 .. emitted'

LEMMA Emitted ==
    ASSUME TypeOK, Ordered, NEW connected \in BOOLEAN, Emit(connected)
    PROVE  Logged
<1>. USE DEF Logged
<1>. DEFINE s == Append(buffer, emitted + 1)
            n == emitted + 1
<1>0. /\ emitted \in Nat /\ MaxRecords \in Nat /\ emitted <= MaxRecords
      /\ BufferSize \in Nat \ {0}
      /\ buffer \in Seq(1 .. emitted) /\ Len(buffer) \in Nat /\ Len(buffer) <= BufferSize
      /\ evicted \subseteq 1 .. emitted /\ offline \subseteq 1 .. emitted
      /\ Increasing(buffer) /\ Below(evicted, Records(buffer))
      /\ Records(buffer) \subseteq 1 .. emitted
  BY RecordsType, PublisherAssumption DEF TypeOK, Ordered
<1>1. CASE emitted >= MaxRecords
  <2>1. UNCHANGED <<emitted, buffer, evicted, offline>>
    BY <1>0, <1>1 DEF Emit
  <2>. QED
    BY <1>0, <2>1
<1>2. CASE emitted < MaxRecords
  <2>0. /\ emitted' = n /\ buffer' = Bounded(s)
        /\ evicted' = IF Full THEN evicted \cup {Head(buffer)} ELSE evicted
        /\ offline' \subseteq offline \cup {n}
    BY <1>2 DEF Emit
  <2>1. /\ s \in Seq(1 .. n) /\ Len(s) = Len(buffer) + 1
        /\ \A i \in 1 .. Len(buffer) : s[i] = buffer[i]
        /\ s[Len(buffer) + 1] = n
    BY <1>0
  <2>. HIDE DEF s
  <2>2. Records(s) = Records(buffer) \cup {n}
    <3>1. \A i \in 1 .. Len(s) : i \in 1 .. Len(buffer) \/ i = Len(buffer) + 1
      BY <1>0, <2>1
    <3>2. /\ \A i \in 1 .. Len(buffer) : i \in 1 .. Len(s)
          /\ Len(buffer) + 1 \in 1 .. Len(s)
      BY <1>0, <2>1
    <3>3. n \in Nat
      BY <1>0
    <3>4. \A x : x \in Records(s) <=> \E i \in 1 .. Len(s) : x = s[i]
      BY <2>1, <3>3, RecordsAt
    <3>5. \A x : x \in Records(buffer) <=> \E i \in 1 .. Len(buffer) : x = buffer[i]
      BY <1>0, RecordsAt
    <3>. QED
      BY <2>1, <3>1, <3>2, <3>4, <3>5
  <2>3. Increasing(s)
    <3>1. \A i, j \in 1 .. Len(buffer) : i < j => buffer[i] < buffer[j]
      BY <1>0, IncreasingAt
    <3>2. \A i \in 1 .. Len(buffer) : buffer[i] < n
      BY <1>0
    <3>3. ASSUME NEW i \in 1 .. Len(s), NEW j \in 1 .. Len(s), i < j
          PROVE  i \in 1 .. Len(buffer) /\ (j \in 1 .. Len(buffer) \/ j = Len(buffer) + 1)
      <4>1. Len(s) = Len(buffer) + 1 /\ Len(buffer) \in Nat
        BY <1>0, <2>1
      <4>. QED
        BY <3>3, <4>1
    <3>4. \A i, j \in 1 .. Len(s) : i < j => s[i] < s[j]
      BY <2>1, <3>1, <3>2, <3>3
    <3>5. n \in Nat
      BY <1>0
    <3>. QED
      BY <2>1, <3>4, <3>5, IncreasingAt
  <2>4. Below(evicted, Records(s))
    BY <1>0, <2>2 DEF Below
  <2>5. CASE ~Full
    <3>1. buffer' = s /\ evicted' = evicted /\ Len(s) <= BufferSize
      BY <1>0, <2>0, <2>1, <2>5 DEF Full, Bounded
    <3>2. emitted' \in 0 .. MaxRecords /\ emitted <= emitted'
      BY <1>0, <1>2, <2>0
    <3>3. buffer' \in Seq(1 .. emitted') /\ Len(buffer') <= BufferSize /\ Increasing(buffer')
      BY <2>0, <2>1, <2>3, <3>1
    <3>4. \A r \in Records(buffer') : r \in Records(buffer) \/ r > emitted
      BY <1>0, <2>2, <3>1
    <3>5. \A r \in Records(buffer) : r \in Records(buffer') \cup evicted'
      BY <2>2, <3>1
    <3>6. \A r \in 1 .. emitted' : r <= emitted \/ r \in Records(buffer')
      BY <1>0, <2>0, <2>2, <3>1
    <3>7. offline' \subseteq 1 .. emitted'
      BY <1>0, <2>0
    <3>. QED
      BY <1>0, <2>4, <3>1, <3>2, <3>3, <3>4, <3>5, <3>6, <3>7
  <2>6. CASE Full
    <3>1. Len(buffer) = BufferSize /\ Len(s) > BufferSize /\ 1 \in 0 .. Len(s)
      BY <1>0, <2>1, <2>6 DEF Full
    <3>2. buffer' = Tail(s) /\ evicted' = evicted \cup {Head(buffer)}
      BY <2>0, <2>6, <3>1 DEF Bounded
    <3>3. Tail(s) = SubSeq(s, 1 + 1, Len(s)) /\ Len(Tail(s)) = BufferSize
      BY <2>1, <3>1
    <3>0. n \in Nat
      BY <1>0
    <3>4. /\ SubSeq(s, 1, 1) \in Seq(1 .. n)
          /\ Tail(s) \in Seq(1 .. n) /\ Increasing(Tail(s))
          /\ Records(s) = Records(SubSeq(s, 1, 1)) \cup Records(Tail(s))
          /\ Below(Records(SubSeq(s, 1, 1)), Records(Tail(s)))
      <4>. HIDE DEF n
      <4>1. /\ SubSeq(s, 1, 1) \in Seq(1 .. n)
            /\ SubSeq(s, 1 + 1, Len(s)) \in Seq(1 .. n)
            /\ Increasing(SubSeq(s, 1 + 1, Len(s)))
            /\ Records(s) = Records(SubSeq(s, 1, 1)) \cup Records(SubSeq(s, 1 + 1, Len(s)))
            /\ Below(Records(SubSeq(s, 1, 1)), Records(SubSeq(s, 1 + 1, Len(s))))
        BY <2>1, <2>3, <3>0, <3>1, Split
      <4>. QED
        BY <3>3, <4>1
    <3>5. Records(SubSeq(s, 1, 1)) = {Head(buffer)} /\ Head(buffer) \in Records(buffer)
      <4>1. Len(SubSeq(s, 1, 1)) = 1 /\ SubSeq(s, 1, 1)[1] = s[1]
        BY <2>1, <3>1
      <4>2. s[1] = buffer[1] /\ buffer[1] = Head(buffer) /\ 1 \in 1 .. Len(buffer)
        BY <1>0, <2>1, <3>1
      <4>3. DOMAIN SubSeq(s, 1, 1) = {1} /\ DOMAIN buffer = 1 .. Len(buffer)
        BY <1>0, <3>4, <4>1
      <4>. QED
        BY <4>1, <4>2, <4>3 DEF Records
    <3>6. Head(buffer) # n /\ n \in Records(Tail(s))
      BY <1>0, <2>2, <3>4, <3>5
    <3>7. Below(evicted \cup {Head(buffer)}, Records(Tail(s)))
      BY <2>4, <3>4, <3>5 DEF Below
    <3>8. emitted' \in 0 .. MaxRecords /\ emitted <= emitted'
      BY <1>0, <1>2, <2>0
    <3>9. buffer' \in Seq(1 .. emitted') /\ Len(buffer') <= BufferSize /\ Increasing(buffer')
      BY <1>0, <2>0, <3>2, <3>3, <3>4
    <3>10. \A r \in Records(buffer') : r \in Records(buffer) \/ r > emitted
      BY <1>0, <2>2, <3>2, <3>4
    <3>11. \A r \in Records(buffer) : r \in Records(buffer') \cup evicted'
      BY <2>2, <3>2, <3>4, <3>5
    <3>12. \A r \in 1 .. emitted' : r <= emitted \/ r \in Records(buffer')
      BY <1>0, <2>0, <3>2, <3>6
    <3>13. evicted \subseteq evicted' /\ evicted' \subseteq 1 .. emitted
      BY <1>0, <3>2, <3>5
    <3>14. offline' \subseteq 1 .. emitted'
      BY <1>0, <2>0
    <3>. QED
      BY <3>2, <3>7, <3>8, <3>9, <3>10, <3>11, <3>12, <3>13, <3>14
  <2>. QED
    BY <2>5, <2>6
<1>. QED
  BY <1>0, <1>1, <1>2

-----------------------------------------------------------------------------
(* What publish_metric gives up reaches the node or is lost.               *)
PassedOn(records) ==
    /\ published' \in Seq(1 .. emitted) /\ Increasing(published')
    /\ Records(published) \subseteq Records(published')
    /\ Records(published') \subseteq Records(published) \cup Records(records)
    /\ Records(records) \subseteq Records(published') \cup discarded'
    /\ discarded \subseteq discarded' /\ discarded' \subseteq 1 .. emitted

LEMMA GivenUp ==
    ASSUME TypeOK, Ordered, NEW records \in {payload, <<>>}, GiveUp(records)
    PROVE  PassedOn(records)
<1>. USE DEF PassedOn
<1>0. /\ emitted \in Nat /\ published \in Seq(1 .. emitted) /\ records \in Seq(1 .. emitted)
      /\ Increasing(published) /\ Increasing(records)
      /\ Below(Records(published), Records(records))
      /\ discarded \subseteq 1 .. emitted /\ Records(records) \subseteq 1 .. emitted
  <2>1. emitted \in Nat
    BY PublisherAssumption DEF TypeOK
  <2>. QED
    BY <2>1, NoRecords, RecordsType DEF TypeOK, Ordered, Below
<1>1. PICK done \in {<<>>, records} : /\ published' = published \o done
                                     /\ Lose(Records(records) \ Records(done))
  BY DEF GiveUp
<1>2. CASE done = <<>>
  <2>1. published' = published /\ discarded' = discarded \cup Records(records)
    BY <1>0, <1>1, <1>2, NoRecords DEF Lose
  <2>. QED
    BY <1>0, <2>1
<1>3. CASE done = records
  <2>1. published' = published \o records /\ discarded' = discarded
    BY <1>0, <1>1, <1>3 DEF Lose
  <2>2. /\ published \o records \in Seq(1 .. emitted)
        /\ Increasing(published \o records)
        /\ Records(published \o records) = Records(published) \cup Records(records)
    BY <1>0, Concatenated
  <2>. QED
    BY <1>0, <2>1, <2>2
<1>. QED
  BY <1>1, <1>2, <1>3

-----------------------------------------------------------------------------
(* The records: their types, their order and their whereabouts.            *)

Data ==
    /\ emitted \in 0 .. MaxRecords
    /\ buffer \in Seq(1 .. emitted) /\ Len(buffer) <= BufferSize
    /\ payload \in Seq(1 .. emitted)
    /\ published \in Seq(1 .. emitted)
    /\ offline \subseteq 1 .. emitted
    /\ evicted \subseteq 1 .. emitted /\ discarded \subseteq 1 .. emitted
    /\ Ordered /\ EveryRecordAccounted

(* Some records are logged and some given up; what is left of the payload  *)
(* is all or nothing.                                                      *)
LEMMA LoggedAndPassedOn ==
    ASSUME TypeOK, Data, Logged, NEW records, PassedOn(records),
           \/ records = payload /\ payload' = <<>>
           \/ records = <<>> /\ payload' = payload
    PROVE  Data'
<1>. USE DEF Logged, PassedOn
<1>0. /\ Ordered /\ EveryRecordAccounted /\ emitted \in Nat /\ emitted' \in Nat
      /\ emitted <= emitted'
  BY Emitted, PublisherAssumption DEF Data
<1>1. /\ payload' \in Seq(1 .. emitted) /\ Increasing(payload')
      /\ Records(payload') \subseteq Records(payload)
      /\ Records(payload) \subseteq Records(payload') \cup Records(records)
  BY <1>0, NoRecords DEF Data, Ordered
<1>2. \A n \in 1 .. emitted : n \in 1 .. emitted'
  BY <1>0
<1>3. payload' \in Seq(1 .. emitted') /\ published' \in Seq(1 .. emitted')
  BY <1>0, <1>1, Widened
<1>4. Records(payload) \subseteq 1 .. emitted /\ Records(published') \subseteq 1 .. emitted
      /\ Records(buffer) \subseteq 1 .. emitted
  BY <1>0, RecordsType DEF Data
<1>5. Records(published') \subseteq Records(published) \cup Records(payload)
  BY <1>0, NoRecords
<1>6. Below(Records(published'), Records(payload'))
  <2>1. CASE records = <<>> /\ payload' = payload
    <3>1. Records(published') \subseteq Records(published)
      BY <1>0, <2>1, NoRecords
    <3>. QED
      BY <1>0, <2>1, <3>1 DEF Below, Ordered
  <2>2. CASE payload' = <<>>
    BY <2>2, NoRecords DEF Below
  <2>. QED
    BY <2>1, <2>2
<1>7. /\ Below(Records(published'), Records(buffer'))
      /\ Below(Records(payload'), Records(buffer'))
  <2>1. \A r \in Records(buffer') : r \in Records(buffer) \/ r > emitted
    BY <1>0
  <2>2. \A x \in Records(published) \cup Records(payload), y \in Records(buffer) : x < y
    BY <1>0 DEF Ordered, Below
  <2>3. \A x \in Records(published) \cup Records(payload) : x \in 1 .. emitted
    BY <1>0, <1>4, RecordsType DEF Data
  <2>4. \A x \in Records(published) \cup Records(payload), y \in Records(buffer') : x < y
    <3>1. Records(buffer') \subseteq 1 .. emitted'
      BY <1>0, RecordsType
    <3>. QED
      BY <1>0, <2>1, <2>2, <2>3, <3>1
  <2>. QED
    BY <1>1, <1>5, <2>4 DEF Below
<1>8. Ordered'
  BY <1>0, <1>1, <1>6, <1>7 DEF Ordered, Below
<1>9. EveryRecordAccounted'
  <2>. SUFFICES ASSUME NEW r \in 1 .. emitted'
                PROVE  r \in Records(buffer') \cup Records(payload') \cup Records(published')
                               \cup evicted' \cup discarded'
    BY DEF EveryRecordAccounted
  <2>1. r <= emitted \/ r \in Records(buffer')
    BY <1>0
  <2>2. CASE r <= emitted
    <3>1. r \in Records(buffer) \cup Records(payload) \cup Records(published)
                    \cup evicted \cup discarded
      BY <1>0, <2>2 DEF EveryRecordAccounted
    <3>2. r \in Records(buffer) => r \in Records(buffer') \cup evicted'
      BY <1>0
    <3>3. evicted \subseteq evicted'
      BY <1>0
    <3>4. /\ Records(records) \subseteq Records(published') \cup discarded'
          /\ Records(published) \subseteq Records(published') /\ discarded \subseteq discarded'
      BY <1>0
    <3>. QED
      BY <1>1, <3>1, <3>2, <3>3, <3>4
  <2>. QED
    BY <2>1, <2>2
<1>10. /\ emitted' \in 0 .. MaxRecords
       /\ buffer' \in Seq(1 .. emitted') /\ Len(buffer') <= BufferSize
       /\ offline' \subseteq 1 .. emitted'
       /\ evicted' \subseteq 1 .. emitted' /\ discarded' \subseteq 1 .. emitted'
  BY <1>0, <1>2
<1>. QED
  BY <1>3, <1>8, <1>9, <1>10 DEF Data

LEMMA NothingLogged ==
    ASSUME TypeOK, Ordered, UNCHANGED <<emitted, buffer, evicted, offline>>
    PROVE  Logged
BY PublisherAssumption DEF TypeOK, Ordered, Logged

LEMMA NothingPassedOn ==
    ASSUME TypeOK, Ordered, UNCHANGED <<published, discarded>>
    PROVE  PassedOn(<<>>)
BY NoRecords DEF TypeOK, Ordered, PassedOn

LEMMA Delivered ==
    ASSUME TypeOK, Ordered, published' = published \o payload, UNCHANGED discarded
    PROVE  PassedOn(payload)
<1>1. emitted \in Nat /\ published \in Seq(1 .. emitted) /\ payload \in Seq(1 .. emitted)
  BY PublisherAssumption DEF TypeOK
<1>2. /\ published \o payload \in Seq(1 .. emitted)
      /\ Increasing(published \o payload)
      /\ Records(published \o payload) = Records(published) \cup Records(payload)
  BY <1>1, Concatenated DEF Ordered
<1>. QED
  BY <1>2 DEF TypeOK, PassedOn

LEMMA NextData == IInv /\ [Next]_vars => Data'
<1>. SUFFICES ASSUME IInv, [Next]_vars PROVE Data'
  OBVIOUS
<1>0. TypeOK /\ Ordered /\ Control /\ Data /\ FALSE \in BOOLEAN /\ TRUE \in BOOLEAN
  BY DEF IInv, TypeOK, Data
<1>. USE DEF cycle, observed
<1>1. ASSUME UNCHANGED <<buffer, payload, observed>> PROVE Data'
  BY <1>0, <1>1, NothingLogged, NothingPassedOn, LoggedAndPassedOn
<1>2. CASE \/ Connect \/ EndCycle \/ NextCycle \/ Retry \/ LoseLink \/ WriteErrors
           \/ \E u \in Units : Gathered(u) \/ NothingNew(u)
           \/ UNCHANGED vars
  BY <1>1, <1>2 DEF Connect, EndCycle, NextCycle, Retry, LoseLink, WriteErrors, Gathered,
                    NothingNew, vars
<1>3. CASE ConnectFails \/ EndSession \/ Warn
  <2>1. /\ UNCHANGED <<payload, published, discarded>>
        /\ \E connected \in BOOLEAN : Emit(connected)
    BY <1>0, <1>3 DEF ConnectFails, EndSession, Warn
  <2>. QED
    BY <1>0, <2>1, Emitted, NothingPassedOn, LoggedAndPassedOn
<1>4. CASE Drain
  <2>1. payload = <<>> /\ payload' = Drained /\ buffer' = Remaining /\ UNCHANGED observed
    BY <1>0, <1>4 DEF Drain, Control
  <2>2. /\ Drained \in Seq(1 .. emitted) /\ Increasing(Drained)
        /\ Remaining \in Seq(1 .. emitted) /\ Increasing(Remaining)
        /\ Len(Remaining) <= BufferSize
        /\ Records(buffer) = Records(Drained) \cup Records(Remaining)
        /\ Below(Records(Drained), Records(Remaining))
    BY <1>0, DrainSplits DEF Ordered
  <2>3. Ordered'
    BY <1>0, <2>1, <2>2 DEF Ordered, Below
  <2>4. EveryRecordAccounted'
    BY <1>0, <2>1, <2>2, NoRecords DEF Data, EveryRecordAccounted
  <2>. QED
    BY <1>0, <2>1, <2>2, <2>3, <2>4 DEF Data
<1>5. CASE \E u \in Units : Written(u)
  <2>. PICK u \in Units : Written(u)
    BY <1>5
  <2>1. CASE u = Errors
    BY <1>0, <2>1, Delivered, NothingLogged, LoggedAndPassedOn
       DEF Written, CarriedBy, LeftWith
  <2>2. CASE u # Errors
    <3>1. published \o <<>> = published
      BY <1>0 DEF TypeOK
    <3>. QED
      BY <1>1, <2>2, <3>1 DEF Written, CarriedBy, LeftWith
  <2>. QED
    BY <2>1, <2>2
<1>6. CASE \E u \in Units : Fail(u)
  <2>. PICK u \in Units : Fail(u)
    BY <1>6
  <2>. DEFINE records == IF TooMany(u) THEN payload ELSE CarriedBy(u)
  <2>1. GiveUp(records) /\ Emit(TRUE)
    BY DEF Fail
  <2>2. \/ records = payload /\ payload' = <<>>
        \/ records = <<>> /\ payload' = payload
    BY DEF Fail, Abort, CarriedBy, LeftWith
  <2>. HIDE DEF records
  <2>3. records \in {payload, <<>>}
    BY <2>2
  <2>. QED
    BY <1>0, <2>1, <2>2, <2>3, Emitted, GivenUp, LoggedAndPassedOn
<1>7. CASE \E u \in Units : FailConnection(u)
  <2>1. GiveUp(payload) /\ payload' = <<>> /\ UNCHANGED <<emitted, buffer, evicted, offline>>
    BY <1>7 DEF FailConnection, Abort
  <2>. QED
    BY <1>0, <2>1, GivenUp, NothingLogged, LoggedAndPassedOn
<1>8. CASE StrayDrain
  <2>1. /\ buffer' = Remaining /\ discarded' = discarded \cup Records(Drained)
        /\ UNCHANGED <<payload, published, emitted, offline, evicted>>
    BY <1>8 DEF StrayDrain, Lose
  <2>2. /\ Remaining \in Seq(1 .. emitted) /\ Increasing(Remaining)
        /\ Len(Remaining) <= BufferSize
        /\ Records(buffer) = Records(Drained) \cup Records(Remaining)
        /\ Records(Drained) \subseteq 1 .. emitted
    <3>1. emitted \in Nat
      BY <1>0, PublisherAssumption DEF TypeOK
    <3>. QED
      BY <1>0, <3>1, DrainSplits, RecordsType DEF Ordered
  <2>3. Ordered'
    BY <1>0, <2>1, <2>2 DEF Ordered, Below
  <2>4. EveryRecordAccounted'
    BY <1>0, <2>1, <2>2 DEF Data, EveryRecordAccounted
  <2>. QED
    BY <1>0, <2>1, <2>2, <2>3, <2>4 DEF Data
<1>9. CASE Crash
  <2>1. /\ buffer' = <<>> /\ payload' = <<>>
        /\ discarded' = discarded \cup Records(buffer) \cup Records(payload)
        /\ UNCHANGED <<published, emitted, offline, evicted>>
    BY <1>9 DEF Crash, Lose
  <2>2. Records(buffer) \subseteq 1 .. emitted /\ Records(payload) \subseteq 1 .. emitted
    <3>1. emitted \in Nat
      BY <1>0, PublisherAssumption DEF TypeOK
    <3>. QED
      BY <1>0, <3>1, RecordsType DEF TypeOK
  <2>3. Ordered'
    BY <1>0, <2>1, NoRecords DEF Ordered, Below
  <2>4. EveryRecordAccounted'
    BY <1>0, <2>1, NoRecords DEF Data, EveryRecordAccounted
  <2>5. Len(<<>>) <= BufferSize
    BY PublisherAssumption
  <2>. QED
    BY <1>0, <2>1, <2>2, <2>3, <2>4, <2>5, NoRecords DEF Data
<1>. QED
  BY <1>2, <1>3, <1>4, <1>5, <1>6, <1>7, <1>8, <1>9
     DEF Next, Session, ErrorsUnit, Unit, Units

-----------------------------------------------------------------------------
(* The control: tasks, counts and the await of main.                       *)

ControlType ==
    /\ main \in {"connecting", "cycle", "waiting", "stopping", "asleep"}
    /\ link \in BOOLEAN
    /\ task \in [Units -> {"gathering", "drained", "writing", "done"}]
    /\ failures \in [Units -> 0 .. Limit]
    /\ stray \in BOOLEAN
    /\ age \in [Units -> Nat]
    /\ faults \in [FaultKinds -> Nat]

LEMMA SpendType ==
    ASSUME faults \in [FaultKinds -> Nat], NEW kind \in FaultKinds, Spend(kind)
    PROVE  faults' \in [FaultKinds -> Nat]
BY DEF Spend

LEMMA NextControl == IInv /\ [Next]_vars => ControlType' /\ Control'
<1>. SUFFICES ASSUME IInv, [Next]_vars PROVE ControlType' /\ Control'
  OBVIOUS
<1>0. /\ ControlType /\ Control
      /\ Limit \in Nat \ {0} /\ Errors \in Units /\ Errors \notin Plain
  BY PublisherAssumption DEF IInv, TypeOK, ControlType, Units
<1>. USE DEF cycle, observed, ControlType, Control
<1>1. faults' \in [FaultKinds -> Nat]
  BY <1>0, SpendType DEF Next, Session, ErrorsUnit, Unit, vars, FaultKinds, ConnectFails, Connect,
       EndCycle, NextCycle, Gathered, NothingNew, Drain, WriteErrors, Written, Fail,
       FailConnection, StrayDrain, EndSession, Retry, LoseLink, Warn, Crash
<1>2. CASE ConnectFails \/ EndSession \/ Warn \/ LoseLink \/ StrayDrain
  BY <1>0, <1>1, <1>2 DEF ConnectFails, EndSession, Warn, LoseLink, StrayDrain
<1>3. CASE Connect
  BY <1>0, <1>1, <1>3 DEF Connect
<1>4. CASE EndCycle \/ Retry \/ UNCHANGED vars
  BY <1>0, <1>1, <1>4 DEF EndCycle, Retry, vars
<1>5. CASE NextCycle
  BY <1>0, <1>1, <1>5 DEF NextCycle
<1>6. CASE Drain \/ WriteErrors
  BY <1>0, <1>1, <1>6 DEF Drain, WriteErrors
<1>7. CASE Crash
  BY <1>0, <1>1, <1>7 DEF Crash
<1>8. CASE \E u \in Units : Gathered(u) \/ NothingNew(u) \/ Written(u)
  <2>. PICK u \in Units : Gathered(u) \/ NothingNew(u) \/ Written(u)
    BY <1>8
  <2>1. CASE Gathered(u)
    BY <1>0, <1>1, <2>1 DEF Gathered
  <2>2. CASE NothingNew(u)
    BY <1>0, <1>1, <2>2 DEF NothingNew, Succeed, OnSuccess
  <2>3. CASE Written(u)
    BY <1>0, <1>1, <2>3 DEF Written, Succeed, OnSuccess, LeftWith
  <2>. QED
    BY <2>1, <2>2, <2>3
<1>9. CASE \E u \in Units : Fail(u)
  <2>. PICK u \in Units : Fail(u)
    BY <1>9
  <2>1. main = "cycle" /\ failures[u] < Limit /\ failures[u] \in Nat
    BY <1>0 DEF Fail
  <2>2. failures' = [failures EXCEPT ![u] = @ + 1] /\ UNCHANGED <<link, age>>
    BY DEF Fail
  <2>3. failures' \in [Units -> 0 .. Limit]
    BY <1>0, <2>1, <2>2
  <2>4. CASE TooMany(u)
    <3>1. /\ main' = "stopping" /\ payload' = <<>> /\ stray' \in BOOLEAN
          /\ task' = [v \in Units |-> "done"]
      BY <2>4 DEF Fail, Abort
    <3>. QED
      BY <1>0, <1>1, <2>2, <2>3, <3>1
  <2>5. CASE ~TooMany(u)
    <3>1. /\ task' = [task EXCEPT ![u] = "done"] /\ payload' = LeftWith(u)
          /\ UNCHANGED <<main, stray>>
      BY <2>5 DEF Fail
    <3>2. \A v \in Units : failures'[v] < Limit
      BY <1>0, <2>1, <2>2, <2>5 DEF TooMany
    <3>. QED
      BY <1>0, <1>1, <2>1, <2>2, <2>3, <3>1, <3>2 DEF LeftWith
  <2>. QED
    BY <2>4, <2>5
<1>10. CASE \E u \in Units : FailConnection(u)
  <2>1. /\ main' = "stopping" /\ payload' = <<>> /\ stray' \in BOOLEAN
        /\ task' = [v \in Units |-> "done"] /\ UNCHANGED <<link, failures, age>>
    BY <1>10 DEF FailConnection, Abort
  <2>. QED
    BY <1>0, <1>1, <2>1
<1>. QED
  BY <1>2, <1>3, <1>4, <1>5, <1>6, <1>7, <1>8, <1>9, <1>10
     DEF Next, Session, ErrorsUnit, Unit, Units

LEMMA InitIInv == Init => IInv
<1>. SUFFICES ASSUME Init PROVE IInv
  OBVIOUS
<1>1. TypeOK
  <2>1. Len(<<>>) <= BufferSize /\ 0 \in 0 .. MaxRecords /\ 0 \in 0 .. Limit
    BY PublisherAssumption
  <2>. QED
    BY <2>1, NoRecords DEF Init, TypeOK
<1>2. Control
  BY PublisherAssumption DEF Init, Control
<1>3. Ordered /\ EveryRecordAccounted
  BY NoRecords DEF Init, Ordered, Below, EveryRecordAccounted
<1>. QED
  BY <1>1, <1>2, <1>3 DEF IInv

LEMMA Invariant == Spec => []IInv
<1>1. IInv /\ [Next]_vars => IInv'
  <2>1. ControlType' /\ Data' => TypeOK'
    BY DEF ControlType, Data, TypeOK
  <2>. QED
    BY <2>1, NextControl, NextData DEF IInv, Data
<1>. QED
  BY <1>1, InitIInv, PTL DEF Spec

-----------------------------------------------------------------------------
(* Failure counts, buffer and payload keep to their sets: in particular    *)
(* the buffer never exceeds MAX_BUFFERED_ERRORS.                           *)
THEOREM TypeCorrect == Spec => []TypeOK
<1>1. IInv => TypeOK
  BY DEF IInv
<1>. QED
  BY <1>1, Invariant, PTL

(* No log record vanishes without a cause (ErrorBufferHandler,             *)
(* publish_metric).                                                        *)
THEOREM RecordsAccounted == Spec => []EveryRecordAccounted
<1>1. IInv => EveryRecordAccounted
  BY DEF IInv
<1>. QED
  BY <1>1, Invariant, PTL

(* Log records reach the node once and in the order they were logged, and  *)
(* a full buffer drops the oldest.                                         *)
THEOREM RecordsInOrder == Spec => []OldestFirst
<1>1. IInv => OldestFirst
  <2>. SUFFICES ASSUME IInv PROVE OldestFirst
    OBVIOUS
  <2>1. /\ emitted \in Nat /\ published \in Seq(1 .. emitted)
        /\ payload \in Seq(1 .. emitted) /\ buffer \in Seq(1 .. emitted) /\ Ordered
    BY PublisherAssumption DEF IInv, TypeOK
  <2>2. /\ published \o payload \in Seq(1 .. emitted)
        /\ Increasing(published \o payload)
        /\ Records(published \o payload) = Records(published) \cup Records(payload)
    BY <2>1, Concatenated DEF Ordered
  <2>3. Below(Records(published \o payload), Records(buffer))
    BY <2>1, <2>2 DEF Ordered, Below
  <2>4. Increasing((published \o payload) \o buffer)
    BY <2>1, <2>2, <2>3, Concatenated DEF Ordered
  <2>. QED
    BY <2>1, <2>4 DEF OldestFirst, Ordered, Below
<1>. QED
  BY <1>1, Invariant, PTL

-----------------------------------------------------------------------------
(* In a session a unit has gone as many cycles without success as it has   *)
(* failed in a row, and one more while the cycle waits for it.             *)
Aged ==
    main \in {"cycle", "waiting"} =>
        \A u \in Units : age[u] = IF task[u] = "done" THEN failures[u] ELSE failures[u] + 1

LEMMA NextAged == IInv /\ Aged /\ [Next]_vars => Aged'
<1>. SUFFICES ASSUME IInv, Aged, [Next]_vars PROVE Aged'
  OBVIOUS
<1>0. /\ task \in [Units -> {"gathering", "drained", "writing", "done"}]
      /\ failures \in [Units -> 0 .. Limit] /\ age \in [Units -> Nat]
      /\ main # "cycle" => \A u \in Units : task[u] = "done"
  BY DEF IInv, TypeOK, Control
<1>. USE DEF cycle, observed
<1>1. CASE \/ ConnectFails \/ EndSession \/ Retry \/ Crash \/ Connect
           \/ \E u \in Units : FailConnection(u)
  <2>1. CASE Connect
    BY <1>0, <2>1 DEF Connect, Aged
  <2>2. CASE ConnectFails \/ EndSession \/ Retry \/ Crash \/ \E u \in Units : FailConnection(u)
    <3>1. main' \notin {"cycle", "waiting"}
      BY <2>2 DEF ConnectFails, EndSession, Retry, Crash, FailConnection, Abort
    <3>. QED
      BY <3>1 DEF Aged
  <2>. QED
    BY <1>1, <2>1, <2>2
<1>2. CASE Warn \/ LoseLink \/ StrayDrain \/ UNCHANGED vars
  BY <1>2 DEF Warn, LoseLink, StrayDrain, vars, Aged
<1>3. CASE EndCycle \/ NextCycle
  BY <1>0, <1>3 DEF EndCycle, NextCycle, Aged
<1>4. CASE Drain \/ WriteErrors \/ \E u \in Units : Gathered(u)
  BY <1>0, <1>4 DEF Drain, WriteErrors, Gathered, Aged
<1>5. CASE \E u \in Units : NothingNew(u) \/ Written(u)
  BY <1>0, <1>5 DEF NothingNew, Written, Succeed, OnSuccess, Aged
<1>6. CASE \E u \in Units : Fail(u)
  <2>. PICK u \in Units : Fail(u)
    BY <1>6
  <2>1. /\ task[u] # "done" /\ UNCHANGED age
        /\ failures' = [failures EXCEPT ![u] = @ + 1]
    BY DEF Fail
  <2>2. CASE TooMany(u)
    BY <2>2 DEF Fail, Abort, Aged
  <2>3. CASE ~TooMany(u)
    <3>1. task' = [task EXCEPT ![u] = "done"] /\ UNCHANGED main
      BY <2>3 DEF Fail
    <3>. QED
      BY <1>0, <2>1, <3>1 DEF Aged
  <2>. QED
    BY <2>2, <2>3
<1>. QED
  BY <1>1, <1>2, <1>3, <1>4, <1>5, <1>6 DEF Next, Session, ErrorsUnit, Unit, Units

(* Only a unit that fails once more can end the session of a working       *)
(* connection.                                                             *)
LEMMA EndsForFailures ==
    ASSUME IInv, Aged, [Next]_vars
    PROVE  /\ main = "cycle" /\ main' = "stopping" /\ link => \E u \in Units : age[u] = Limit
           /\ main = "cycle" => \A u \in Units : age[u] <= Limit
<1>0. /\ Limit \in Nat \ {0} /\ failures \in [Units -> 0 .. Limit]
      /\ main = "cycle" => \A u \in Units : failures[u] < Limit
  BY PublisherAssumption DEF IInv, TypeOK, Control
<1>1. main = "cycle" => \A u \in Units : age[u] <= Limit
  BY <1>0 DEF Aged
<1>2. ASSUME main = "cycle", main' = "stopping", link
      PROVE  \E u \in Units : age[u] = Limit
  <2>1. \E u \in Units : Fail(u) /\ TooMany(u)
    BY <1>2 DEF Next, Session, ErrorsUnit, Unit, Units, vars, cycle, observed, ConnectFails, Connect,
         EndCycle, NextCycle, Gathered, NothingNew, Drain, WriteErrors, Written, Fail,
         FailConnection, StrayDrain, EndSession, Retry, LoseLink, Warn, Crash
  <2>2. PICK u \in Units : Fail(u) /\ TooMany(u)
    BY <2>1
  <2>3. task[u] # "done" /\ failures[u] + 1 >= Limit
    BY <2>2 DEF Fail, TooMany
  <2>4. age[u] = failures[u] + 1
    BY <1>2, <2>3 DEF Aged
  <2>. QED
    BY <1>0, <1>2, <2>3, <2>4
<1>. QED
  BY <1>1, <1>2

(* The session of a working connection ends only when a unit has failed    *)
(* Limit times in a row, and none is tried more often than that            *)
(* (safe_handle, OPCUAMonitor).                                            *)
THEOREM EndsOnlyForFailures == Spec => EndsAfterFailuresInARow
<1>1. Init => Aged
  BY DEF Init, Aged
<1>2. IInv /\ Aged /\ [Next]_vars
        => [/\ main = "cycle" /\ main' = "stopping" /\ link => \E u \in Units : age[u] = Limit
            /\ main = "cycle" => \A u \in Units : age[u] <= Limit]_vars
  BY EndsForFailures
<1>. QED
  BY <1>1, <1>2, NextAged, Invariant, PTL DEF Spec, EndsAfterFailuresInARow
=============================================================================
