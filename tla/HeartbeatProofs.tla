---------------------------- MODULE HeartbeatProofs ----------------------------
(***************************************************************************)
(* For every length of the lap, every limit and bound: Heartbeat's types,  *)
(* round trips that are true, and alarms that are not false.               *)
(***************************************************************************)
EXTENDS Heartbeat, TLAPS

(* A beat stays within 0 .. MaxHeartbeat: the count turns at both ends.    *)
LEMMA UpdatedType ==
    ASSUME heartbeat \in Values, increasing \in BOOLEAN
    PROVE  Updated \in Values /\ Turned \in BOOLEAN
<1>1. CASE increasing
    <2>1. CASE heartbeat = MaxHeartbeat
        <3>1. Turned = FALSE
            BY <1>1, <2>1 DEF Turned
        <3>2. Updated = heartbeat + (-1)
            BY <3>1, Zenon DEF Updated
        <3>3. Updated \in Values
            BY <2>1, <3>2, HeartbeatAssumption DEF Values
        <3> QED BY <3>1, <3>3
    <2>2. CASE heartbeat # MaxHeartbeat
        <3>1. Turned = TRUE
            BY <1>1, <2>2 DEF Turned
        <3> QED BY <2>2, <3>1, HeartbeatAssumption DEF Updated, Values
    <2> QED BY <2>1, <2>2
<1>2. CASE ~increasing
    <2>1. CASE heartbeat = 0
        <3>1. Turned = TRUE
            BY <1>2, <2>1 DEF Turned
        <3> QED BY <2>1, <3>1, HeartbeatAssumption DEF Updated, Values
    <2>2. CASE heartbeat # 0
        <3>1. Turned = FALSE
            BY <1>2, <2>2 DEF Turned
        <3>2. Updated = heartbeat + (-1)
            BY <3>1, Zenon DEF Updated
        <3>3. Updated \in Values
            BY <2>2, <3>2, HeartbeatAssumption DEF Values
        <3> QED BY <3>1, <3>3
    <2> QED BY <2>1, <2>2
<1> QED BY <1>1, <1>2

(* Ages and counts stop at their limits.                                   *)
LEMMA LongerType ==
    ASSUME NEW max \in Nat \ {0}, NEW n \in (0 .. max) \cup {Never}
    PROVE  /\ Longer(n, max) \in (0 .. max) \cup {Never}
           /\ n # Never => Longer(n, max) \in 0 .. max
BY DEF Longer, Never

LEMMA Limits ==
    /\ MaxAge \in Nat \ {0}
    /\ StaleAfter + 1 \in Nat \ {0}
    /\ Recovery + 1 \in Nat \ {0}
BY HeartbeatAssumption DEF MaxAge, Recovery

LEMMA AgedType == \A c \in Carriers : Aged(c) \in Carriers
<1> SUFFICES ASSUME NEW c \in Carriers PROVE Aged(c) \in Carriers
    OBVIOUS
<1>1. c.age \in 0 .. MaxAge /\ c.val \in Values
    BY DEF Carriers, Ages
<1>2. Longer(c.age, MaxAge) \in 0 .. MaxAge
    BY <1>1, Limits DEF Longer, Never
<1> QED BY <1>1, <1>2 DEF Aged, Carriers, Ages

LEMMA AgedAllType ==
    ASSUME NEW s \in Seq(Carriers)
    PROVE  AgedAll(s) \in Seq(Carriers) /\ Len(AgedAll(s)) = Len(s)
<1>1. DOMAIN s = 1 .. Len(s) /\ Len(s) \in Nat
    OBVIOUS
<1>2. \A i \in 1 .. Len(s) : Aged(s[i]) \in Carriers
    BY <1>1, AgedType
<1> DEFINE t == [i \in 1 .. Len(s) |-> Aged(s[i])]
<1>3. t \in Seq(Carriers) /\ Len(t) = Len(s)
    BY <1>1, <1>2
<1> QED BY <1>1, <1>3 DEF AgedAll

(* A write leaves the tags and the queues of one well-formed.              *)
LEMMA WriteType ==
    ASSUME TypeOK, NEW t \in Tags, NEW c \in Carriers, Write(t, c)
    PROVE  /\ tag' \in [Tags -> Carriers]
           /\ item' \in [Tags -> Seq(Carriers)] /\ \A u \in Tags : Len(item'[u]) <= 1
           /\ wire' = wire
<1>1. <<c>> \in Seq(Carriers) /\ Len(<<c>>) = 1
    OBVIOUS
<1> QED BY <1>1 DEF TypeOK, Write

LEMMA SubscribeType ==
    ASSUME TypeOK, NEW t \in Tags, Subscribe(t)
    PROVE  /\ tag' = tag
           /\ item' \in [Tags -> Seq(Carriers)] /\ \A u \in Tags : Len(item'[u]) <= 1
           /\ wire' \in [Tags -> Seq(Carriers)]
<1>1. tag[t] \in Carriers
    BY DEF TypeOK
<1>2. <<tag[t]>> \in Seq(Carriers) /\ Len(<<tag[t]>>) = 1 /\ <<>> \in Seq(Carriers)
    BY <1>1
<1> QED BY <1>2 DEF TypeOK, Subscribe

(* Every variable keeps to its set.                                        *)
THEOREM TypeCorrect == Spec => []TypeOK
<1>1. Init => TypeOK
    <2> SUFFICES ASSUME Init PROVE TypeOK
        OBVIOUS
    <2>1. [val |-> 0, age |-> MaxAge] \in Carriers
        BY Limits, HeartbeatAssumption DEF Carriers, Values, Ages
    <2>2. <<>> \in Seq(Carriers) /\ Len(<<>>) <= 1
        OBVIOUS
    <2>3. /\ link \in [{"owner", "echo"} -> {"down", "up", "cut"}]
          /\ sentAt \in [Values -> Ages \cup {Never}]
          /\ tag \in [Tags -> Carriers]
          /\ item \in [Tags -> Seq(Carriers)] /\ \A t \in Tags : Len(item[t]) <= 1
          /\ wire \in [Tags -> Seq(Carriers)]
        BY <2>1, <2>2 DEF Init
    <2>4. /\ heartbeat \in Values /\ rtts \in 0 .. MaxRtts
          /\ calm \in 0 .. Recovery + 1 /\ faults \in 0 .. MaxFaults
        BY HeartbeatAssumption, Limits DEF Init, Values, Recovery
    <2>5. /\ increasing \in BOOLEAN /\ told \in BOOLEAN
        BY DEF Init
    <2> QED BY <2>2, <2>3, <2>4, <2>5 DEF Init, TypeOK
<1>2. TypeOK /\ [Next]_vars => TypeOK'
    <2> SUFFICES ASSUME TypeOK, [Next]_vars PROVE TypeOK'
        OBVIOUS
    <2> USE HeartbeatAssumption
    <2>1. CASE StartOwner
        <3>1. /\ tag' = tag
              /\ item' \in [Tags -> Seq(Carriers)] /\ \A t \in Tags : Len(item'[t]) <= 1
              /\ wire' \in [Tags -> Seq(Carriers)]
            BY <2>1, SubscribeType DEF StartOwner, Tags
        <3>2. /\ link' \in [{"owner", "echo"} -> {"down", "up", "cut"}]
              /\ sentAt' \in [Values -> Ages \cup {Never}]
            BY <2>1 DEF StartOwner, TypeOK
        <3>3. heartbeat' \in Values /\ rtts' \in 0 .. MaxRtts /\ calm' \in 0 .. Recovery + 1
            BY <2>1, Limits DEF StartOwner, Disturbed, Values
        <3>4. increasing' \in BOOLEAN /\ told' \in BOOLEAN
            BY <2>1 DEF StartOwner
        <3> QED BY <2>1, <3>1, <3>2, <3>3, <3>4 DEF StartOwner, TypeOK
    <2>2. CASE StartEcho
        <3>1. /\ tag' = tag
              /\ item' \in [Tags -> Seq(Carriers)] /\ \A t \in Tags : Len(item'[t]) <= 1
              /\ wire' \in [Tags -> Seq(Carriers)]
            BY <2>2, SubscribeType DEF StartEcho, Tags
        <3>2. link' \in [{"owner", "echo"} -> {"down", "up", "cut"}]
            BY <2>2 DEF StartEcho, TypeOK
        <3>3. calm' \in 0 .. Recovery + 1
            BY <2>2, Limits DEF StartEcho, Disturbed
        <3> QED BY <2>2, <3>1, <3>2, <3>3 DEF StartEcho, TypeOK, owner
    <2>3. CASE Beat
        <3>1. Updated \in Values /\ Turned \in BOOLEAN
            BY UpdatedType DEF TypeOK
        <3>2. sentAt' \in [Values -> Ages \cup {Never}]
            <4>1. \A v \in Values : Longer(sentAt[v], MaxAge) \in Ages \cup {Never}
                BY LongerType, Limits DEF TypeOK, Ages
            <4> QED BY <2>3, <4>1, Limits DEF Beat, Noted, Ages
        <3>3. silence' \in 0 .. (StaleAfter + 1) \cup {Never}
            BY <2>3, LongerType, Limits DEF Beat, TypeOK
        <3>4. tag' \in [Tags -> Carriers]
            BY <2>3, AgedType DEF Beat, TypeOK
        <3>5. /\ item' \in [Tags -> Seq(Carriers)] /\ \A t \in Tags : Len(item'[t]) <= 1
              /\ wire' \in [Tags -> Seq(Carriers)]
            BY <2>3, AgedAllType DEF Beat, TypeOK
        <3>6. answering' \in Seq(Carriers) /\ Len(answering') <= 1
            BY <2>3, AgedAllType DEF Beat, TypeOK
        <3>7. calm' \in 0 .. Recovery + 1
            <4>1. Longer(calm, Recovery + 1) \in 0 .. Recovery + 1
                BY Limits DEF TypeOK, Longer, Never
            <4> QED BY <2>3, <4>1, Limits DEF Beat
        <3> QED BY <2>3, <3>1, <3>2, <3>3, <3>4, <3>5, <3>6, <3>7 DEF Beat, TypeOK
    <2> DEFINE Sendable == Sent \in Carriers
    <2>4. Sendable
        BY Limits DEF TypeOK, Sent, Carriers, Ages
    <2>5. CASE Written
        BY <2>4, <2>5, WriteType DEF Written, TypeOK, Tags, observed
    <2>6. CASE SendFails
        <3>1. silence' \in 0 .. (StaleAfter + 1) \cup {Never}
            BY <2>6, LongerType, Limits DEF SendFails, TypeOK
        <3>2. /\ tag' \in [Tags -> Carriers]
              /\ item' \in [Tags -> Seq(Carriers)] /\ \A t \in Tags : Len(item'[t]) <= 1
              /\ wire' \in [Tags -> Seq(Carriers)]
            BY <2>4, <2>6, WriteType DEF SendFails, MayWrite, Keep, server, TypeOK, Tags
        <3>3. faults' \in 0 .. MaxFaults
            BY <2>6 DEF SendFails, Fault, TypeOK
        <3> QED BY <2>6, <3>1, <3>2, <3>3 DEF SendFails, TypeOK, Disturbed, Recovery
    <2>7. CASE Check
        BY <2>7 DEF Check, TypeOK, server, Fault
    <2>8. CASE Receive
        <3> DEFINE c == Head(wire["receive"])
        <3>0. wire["receive"] \in Seq(Carriers) /\ wire["receive"] # <<>>
            BY <2>8 DEF Receive, TypeOK, Tags
        <3>1. /\ c \in Carriers /\ Tail(wire["receive"]) \in Seq(Carriers)
              /\ c.val \in Values
            <4>1. c \in Carriers /\ Tail(wire["receive"]) \in Seq(Carriers)
                BY <3>0
            <4> QED BY <4>1 DEF Carriers
        <3>2. wire' \in [Tags -> Seq(Carriers)]
            BY <2>8, <3>1 DEF Receive, TypeOK, Tags
        <3>3. /\ sentAt' \in [Values -> Ages \cup {Never}]
              /\ rtts' \in 0 .. MaxRtts /\ trip' \in {"none", "true", "false"}
            <4>1. sentAt' \in [Values -> Ages \cup {Never}]
                BY <2>8 DEF Receive, TypeOK
            <4>2. rtts' \in 0 .. MaxRtts
                BY <2>8 DEF Receive, TypeOK
            <4>3. trip' \in {"none", "true", "false"}
                BY <2>8 DEF Receive, TypeOK
            <4> QED BY <4>1, <4>2, <4>3
        <3>4. silence' \in 0 .. (StaleAfter + 1) \cup {Never}
            BY <2>8 DEF Receive, SilenceEnds
        <3> QED BY <2>8, <3>2, <3>3, <3>4 DEF Receive, TypeOK
    <2>9. CASE Drain
        BY <2>9 DEF Drain, TypeOK, server, observed
    <2>10. CASE TakeBeat
        <3>1. /\ Head(wire["send"]) \in Carriers
              /\ Tail(wire["send"]) \in Seq(Carriers)
            BY <2>10 DEF TakeBeat, TypeOK, Tags
        <3>2. answering' \in Seq(Carriers) /\ Len(answering') <= 1
            BY <2>10, <3>1 DEF TakeBeat
        <3> QED BY <2>10, <3>1, <3>2 DEF TakeBeat, TypeOK, Tags, owner, observed
    <2>11. CASE Answer
        <3>1. answering[1] \in Carriers
            BY <2>11 DEF Answer, TypeOK
        <3> QED BY <2>11, <3>1, WriteType DEF Answer, TypeOK, Tags, owner, observed
    <2>12. CASE AnswerFails
        <3>1. answering[1] \in Carriers
            BY <2>12 DEF AnswerFails, TypeOK
        <3>2. /\ tag' \in [Tags -> Carriers]
              /\ item' \in [Tags -> Seq(Carriers)] /\ \A t \in Tags : Len(item'[t]) <= 1
              /\ wire' \in [Tags -> Seq(Carriers)]
            BY <2>12, <3>1, WriteType DEF AnswerFails, MayWrite, Keep, server, TypeOK, Tags
        <3>3. faults' \in 0 .. MaxFaults
            BY <2>12 DEF AnswerFails, Fault, TypeOK
        <3> QED BY <2>12, <3>2, <3>3 DEF AnswerFails, TypeOK, Disturbed, owner, Recovery
    <2>13. ASSUME NEW t \in Tags, Publish(t) PROVE TypeOK'
        <3>1. wire[t] \o item[t] \in Seq(Carriers)
            BY DEF TypeOK
        <3> QED BY <2>13, <3>1 DEF Publish, TypeOK, owner, observed
    <2>14. ASSUME NEW p \in DOMAIN link, Cut(p) PROVE TypeOK'
        BY <2>14 DEF Cut, Fault, Disturbed, TypeOK, owner, server, Recovery
    <2>15. CASE EndOwner
        BY <2>15 DEF EndOwner, Ends, Fault, Disturbed, Unsubscribed, TypeOK, Tags, Recovery
    <2>16. CASE EndEcho
        BY <2>16 DEF EndEcho, Ends, Fault, Disturbed, Unsubscribed, TypeOK, Tags, owner, Recovery
    <2>17. CASE UNCHANGED vars
        BY <2>17 DEF vars, owner, server, observed, TypeOK
    <2> QED BY <2>1, <2>2, <2>3, <2>5, <2>6, <2>7, <2>8, <2>9, <2>10, <2>11, <2>12,
               <2>13, <2>14, <2>15, <2>16, <2>17 DEF Next, Sender, Echo
<1> QED BY <1>1, <1>2, PTL DEF Spec

-----------------------------------------------------------------------------
(* The carriers under way, by side, and in the order in which they will    *)
(* arrive: what the server has sent before what it has not, the way back   *)
(* before the way out.                                                     *)
All(s) == {s[i] : i \in DOMAIN s}
SendSide == All(answering) \cup All(wire["send"]) \cup All(item["send"])
RecvSide == All(wire["receive"]) \cup All(item["receive"])
UnderWay == SendSide \cup RecvSide
Somewhere == UnderWay \cup {tag["send"], tag["receive"]}

Sorted(s) == \A i, j \in DOMAIN s : i <= j => s[i].age >= s[j].age
NotNewer(A, B) == \A a \in A, b \in B : a.age >= b.age

InOrder ==
    /\ Sorted(wire["receive"]) /\ Sorted(wire["send"])
    /\ NotNewer(All(wire["receive"]), All(item["receive"]))
    /\ NotNewer(RecvSide, {tag["receive"]})
    /\ NotNewer({tag["receive"]}, SendSide \cup {tag["send"]})
    /\ NotNewer(All(answering), All(wire["send"]) \cup All(item["send"]))
    /\ NotNewer(All(wire["send"]), All(item["send"]))
    /\ NotNewer(SendSide, {tag["send"]})

(* Sequences of carriers and the sets of their elements.                   *)
LEMMA AllOfJoin ==
    ASSUME NEW s \in Seq(Carriers), NEW t \in Seq(Carriers)
    PROVE  All(s \o t) = All(s) \cup All(t)
<1>1. \A i \in 1 .. Len(s) : i \in DOMAIN (s \o t) /\ (s \o t)[i] = s[i]
    OBVIOUS
<1>2. \A i \in 1 .. Len(t) : Len(s) + i \in DOMAIN (s \o t) /\ (s \o t)[Len(s) + i] = t[i]
    OBVIOUS
<1>3. \A i \in DOMAIN (s \o t) :
          \/ i \in 1 .. Len(s) /\ (s \o t)[i] = s[i]
          \/ i - Len(s) \in 1 .. Len(t) /\ (s \o t)[i] = t[i - Len(s)]
    OBVIOUS
<1>4. DOMAIN s = 1 .. Len(s) /\ DOMAIN t = 1 .. Len(t)
    OBVIOUS
<1>5. All(s \o t) \subseteq All(s) \cup All(t)
    BY <1>3, <1>4 DEF All
<1>6. All(s) \subseteq All(s \o t)
    BY <1>1, <1>4 DEF All
<1>7. All(t) \subseteq All(s \o t)
    <2> SUFFICES ASSUME NEW i \in 1 .. Len(t) PROVE t[i] \in All(s \o t)
        BY <1>4 DEF All
    <2> QED BY <1>2 DEF All
<1> QED BY <1>5, <1>6, <1>7

LEMMA AllOfFew ==
    /\ All(<<>>) = {}
    /\ \A c : All(<<c>>) = {c}
<1>1. All(<<>>) = {}
    BY DEF All
<1>2. ASSUME NEW c PROVE All(<<c>>) = {c}
    <2>1. DOMAIN <<c>> = {1} /\ <<c>>[1] = c
        OBVIOUS
    <2> QED BY <2>1 DEF All
<1> QED BY <1>1, <1>2

LEMMA AtMostOne ==
    ASSUME NEW s \in Seq(Carriers), Len(s) <= 1, s # <<>>
    PROVE  s[1] \in Carriers /\ s = <<s[1]>>
OBVIOUS

LEMMA AllType ==
    ASSUME NEW s \in Seq(Carriers)
    PROVE  All(s) \subseteq Carriers
BY DEF All

LEMMA AllOfHead ==
    ASSUME NEW s \in Seq(Carriers), s # <<>>
    PROVE  /\ Tail(s) \in Seq(Carriers) /\ Head(s) \in Carriers
           /\ All(s) = {Head(s)} \cup All(Tail(s))
<1>1. /\ Tail(s) \in Seq(Carriers) /\ Head(s) = s[1] /\ Len(s) >= 1
      /\ Len(Tail(s)) = Len(s) - 1 /\ s[1] \in Carriers
    OBVIOUS
<1>2. DOMAIN s = 1 .. Len(s) /\ DOMAIN Tail(s) = 1 .. Len(s) - 1
    BY <1>1
<1>3. \A i \in 1 .. Len(s) - 1 : i + 1 \in 1 .. Len(s) /\ Tail(s)[i] = s[i + 1]
    BY <1>1
<1>4. All(Tail(s)) \subseteq All(s)
    BY <1>2, <1>3 DEF All
<1>5. Head(s) \in All(s)
    BY <1>1, <1>2 DEF All
<1>6. \A i \in 1 .. Len(s) : i # 1 => i - 1 \in 1 .. Len(s) - 1 /\ Tail(s)[i - 1] = s[i]
    BY <1>1
<1>7. All(s) \subseteq {Head(s)} \cup All(Tail(s))
    <2> SUFFICES ASSUME NEW i \in 1 .. Len(s), i # 1 PROVE s[i] \in All(Tail(s))
        BY <1>1, <1>2 DEF All
    <2> QED BY <1>2, <1>6 DEF All
<1> QED BY <1>1, <1>4, <1>5, <1>7

LEMMA SortedJoin ==
    ASSUME NEW s \in Seq(Carriers), NEW t \in Seq(Carriers),
           Sorted(s), Sorted(t), NotNewer(All(s), All(t))
    PROVE  Sorted(s \o t)
<1>1. DOMAIN s = 1 .. Len(s) /\ DOMAIN t = 1 .. Len(t)
    OBVIOUS
<1>2. \A i \in DOMAIN (s \o t) :
          \/ i \in 1 .. Len(s) /\ (s \o t)[i] = s[i]
          \/ i > Len(s) /\ i - Len(s) \in 1 .. Len(t) /\ (s \o t)[i] = t[i - Len(s)]
    OBVIOUS
<1> SUFFICES ASSUME NEW i \in DOMAIN (s \o t), NEW j \in DOMAIN (s \o t), i <= j
             PROVE  (s \o t)[i].age >= (s \o t)[j].age
    BY DEF Sorted
<1>3. i \in Nat /\ j \in Nat /\ Len(s) \in Nat
    OBVIOUS
<1>4. CASE j \in 1 .. Len(s) /\ (s \o t)[j] = s[j]
    BY <1>1, <1>2, <1>3, <1>4 DEF Sorted
<1>5. CASE j > Len(s) /\ j - Len(s) \in 1 .. Len(t) /\ (s \o t)[j] = t[j - Len(s)]
    <2>1. CASE i \in 1 .. Len(s) /\ (s \o t)[i] = s[i]
        BY <1>1, <1>5, <2>1 DEF NotNewer, All
    <2>2. CASE i > Len(s) /\ i - Len(s) \in 1 .. Len(t) /\ (s \o t)[i] = t[i - Len(s)]
        BY <1>1, <1>3, <1>5, <2>2 DEF Sorted
    <2> QED BY <1>2, <2>1, <2>2
<1> QED BY <1>2, <1>4, <1>5

LEMMA SortedFew ==
    /\ Sorted(<<>>)
    /\ \A c \in Carriers : Sorted(<<c>>)
<1>1. \A c \in Carriers : c.age \in Nat
    BY Limits DEF Carriers, Ages
<1>2. Sorted(<<>>)
    BY DEF Sorted
<1>3. ASSUME NEW c \in Carriers PROVE Sorted(<<c>>)
    <2>1. DOMAIN <<c>> = {1} /\ <<c>>[1] = c
        OBVIOUS
    <2> QED BY <1>1, <2>1 DEF Sorted
<1> QED BY <1>2, <1>3

LEMMA SortedHead ==
    ASSUME NEW s \in Seq(Carriers), s # <<>>, Sorted(s)
    PROVE  Sorted(Tail(s)) /\ NotNewer({Head(s)}, All(Tail(s)))
<1>1. /\ Tail(s) \in Seq(Carriers) /\ Head(s) = s[1] /\ Len(s) >= 1
      /\ Len(Tail(s)) = Len(s) - 1
    OBVIOUS
<1>2. DOMAIN s = 1 .. Len(s) /\ DOMAIN Tail(s) = 1 .. Len(s) - 1
    BY <1>1
<1>3. \A i \in 1 .. Len(s) - 1 : i + 1 \in 1 .. Len(s) /\ Tail(s)[i] = s[i + 1]
    BY <1>1
<1>4. Sorted(Tail(s))
    BY <1>2, <1>3 DEF Sorted
<1>5. \A i \in 1 .. Len(s) - 1 : s[1].age >= s[i + 1].age
    BY <1>1, <1>2, <1>3 DEF Sorted
<1>6. NotNewer({Head(s)}, All(Tail(s)))
    BY <1>1, <1>2, <1>3, <1>5 DEF NotNewer, All
<1> QED BY <1>4, <1>6

(* A beat ages all carriers alike and keeps their order.                   *)
Older(A) == {Aged(c) : c \in A}

LEMMA AgedFields ==
    ASSUME NEW c \in Carriers
    PROVE  /\ Aged(c) \in Carriers /\ Aged(c).val = c.val /\ c.age \in 0 .. MaxAge
           /\ Aged(c).age = IF c.age = MaxAge THEN MaxAge ELSE c.age + 1
<1>1. c.age \in 0 .. MaxAge
    BY DEF Carriers, Ages
<1>2. Longer(c.age, MaxAge) = IF c.age = MaxAge THEN MaxAge ELSE c.age + 1
    BY <1>1, Limits DEF Longer, Never
<1>3. Aged(c).val = c.val /\ Aged(c).age = Longer(c.age, MaxAge)
    BY DEF Aged, Carriers
<1> QED BY <1>1, <1>2, <1>3, AgedType

LEMMA AgedOrder ==
    ASSUME NEW A \in SUBSET Carriers, NEW B \in SUBSET Carriers, NotNewer(A, B)
    PROVE  NotNewer(Older(A), Older(B))
<1> SUFFICES ASSUME NEW a \in A, NEW b \in B PROVE Aged(a).age >= Aged(b).age
    BY DEF NotNewer, Older
<1>1. a.age >= b.age
    BY DEF NotNewer
<1> QED BY <1>1, AgedFields, Limits

LEMMA AllOfAged ==
    ASSUME NEW s \in Seq(Carriers)
    PROVE  All(AgedAll(s)) = Older(All(s))
BY DEF All, AgedAll, Older

LEMMA OlderJoin ==
    /\ \A A, B : Older(A) \cup Older(B) = Older(A \cup B)
    /\ \A A, B, C : Older(A) \cup Older(B) \cup Older(C) = Older(A \cup B \cup C)
    /\ \A c : Older({c}) = {Aged(c)}
BY DEF Older

LEMMA SortedAged ==
    ASSUME NEW s \in Seq(Carriers), Sorted(s)
    PROVE  Sorted(AgedAll(s))
<1> SUFFICES ASSUME NEW i \in DOMAIN s, NEW j \in DOMAIN s, i <= j
             PROVE  Aged(s[i]).age >= Aged(s[j]).age
    BY DEF Sorted, AgedAll
<1>1. s[i] \in Carriers /\ s[j] \in Carriers /\ s[i].age >= s[j].age
    BY DEF Sorted
<1> QED BY <1>1, AgedFields, Limits

(* What is under way, and the tags, are carriers with an age.              *)
LEMMA PlacesType ==
    ASSUME TypeOK
    PROVE  /\ Somewhere \subseteq Carriers
           /\ \A c \in Somewhere : c.age \in 0 .. MaxAge /\ c.val \in Values
<1>1. /\ answering \in Seq(Carriers)
      /\ wire["send"] \in Seq(Carriers) /\ wire["receive"] \in Seq(Carriers)
      /\ item["send"] \in Seq(Carriers) /\ item["receive"] \in Seq(Carriers)
      /\ tag["send"] \in Carriers /\ tag["receive"] \in Carriers
    BY DEF TypeOK, Tags
<1>2. Somewhere \subseteq Carriers
    BY <1>1, AllType DEF Somewhere, UnderWay, SendSide, RecvSide
<1> QED BY <1>2 DEF Carriers, Ages

(* What a write leaves in the tag and in the queue of its subscription.    *)
LEMMA Writing ==
    ASSUME TypeOK, NEW t \in Tags, NEW c \in Carriers, Write(t, c)
    PROVE  /\ tag'[t] = c /\ wire' = wire
           /\ item'[t] = IF c.val # tag[t].val /\ link[Listener(t)] = "up"
                         THEN <<c>> ELSE item[t]
           /\ \A u \in Tags \ {t} : tag'[u] = tag[u] /\ item'[u] = item[u]
BY DEF Write, TypeOK

(* A beat leaves every carrier where it is, one beat older.                *)
LEMMA BeatAges ==
    ASSUME TypeOK, Beat
    PROVE  /\ All(item'["send"]) = Older(All(item["send"]))
           /\ All(item'["receive"]) = Older(All(item["receive"]))
           /\ All(wire'["send"]) = Older(All(wire["send"]))
           /\ All(wire'["receive"]) = Older(All(wire["receive"]))
           /\ All(answering') = Older(All(answering))
           /\ SendSide' = Older(SendSide) /\ RecvSide' = Older(RecvSide)
           /\ tag'["send"] = Aged(tag["send"]) /\ tag'["receive"] = Aged(tag["receive"])
<1>1. /\ answering \in Seq(Carriers)
      /\ wire["send"] \in Seq(Carriers) /\ wire["receive"] \in Seq(Carriers)
      /\ item["send"] \in Seq(Carriers) /\ item["receive"] \in Seq(Carriers)
    BY DEF TypeOK, Tags
<1>2. /\ item'["send"] = AgedAll(item["send"]) /\ item'["receive"] = AgedAll(item["receive"])
      /\ wire'["send"] = AgedAll(wire["send"]) /\ wire'["receive"] = AgedAll(wire["receive"])
      /\ answering' = AgedAll(answering)
      /\ tag'["send"] = Aged(tag["send"]) /\ tag'["receive"] = Aged(tag["receive"])
    BY DEF Beat, Tags
<1>3. /\ All(item'["send"]) = Older(All(item["send"]))
      /\ All(item'["receive"]) = Older(All(item["receive"]))
      /\ All(wire'["send"]) = Older(All(wire["send"]))
      /\ All(wire'["receive"]) = Older(All(wire["receive"]))
      /\ All(answering') = Older(All(answering))
    BY <1>1, <1>2, AllOfAged
<1>4. SendSide' = Older(All(answering)) \cup Older(All(wire["send"])) \cup Older(All(item["send"]))
    BY <1>3 DEF SendSide
<1>5. RecvSide' = Older(All(wire["receive"])) \cup Older(All(item["receive"]))
    BY <1>3 DEF RecvSide
<1>6. SendSide' = Older(SendSide) /\ RecvSide' = Older(RecvSide)
    <2>1. SendSide = All(answering) \cup All(wire["send"]) \cup All(item["send"])
        BY DEF SendSide
    <2>2. RecvSide = All(wire["receive"]) \cup All(item["receive"])
        BY DEF RecvSide
    <2> QED BY <1>4, <1>5, <2>1, <2>2, OlderJoin
<1> QED BY <1>2, <1>3, <1>6

(* Nothing overtakes on the way.                                           *)
LEMMA Overtaking == TypeOK /\ InOrder /\ [Next]_vars => InOrder'
<1> SUFFICES ASSUME TypeOK, InOrder, [Next]_vars PROVE InOrder'
    OBVIOUS
<1> USE DEF Tags
<1>t. /\ answering \in Seq(Carriers)
      /\ wire["send"] \in Seq(Carriers) /\ wire["receive"] \in Seq(Carriers)
      /\ item["send"] \in Seq(Carriers) /\ item["receive"] \in Seq(Carriers)
      /\ tag["send"] \in Carriers /\ tag["receive"] \in Carriers
    BY DEF TypeOK
<1>a. \A c \in Somewhere : c.age \in 0 .. MaxAge
    BY PlacesType
<1>n. MaxAge \in Nat
    BY Limits
<1>s. Sorted(<<>>) /\ All(<<>>) = {}
    BY SortedFew, AllOfFew
<1>c. ASSUME UNCHANGED <<answering, server>> PROVE InOrder'
    BY <1>c DEF server, InOrder, SendSide, RecvSide
<1>1. ASSUME NEW t \in Tags, Write(t, Sent), UNCHANGED answering, t = "send" PROVE InOrder'
    <2>1. Sent \in Carriers /\ Sent.age = 0
        BY Limits DEF TypeOK, Sent, Carriers, Ages
    <2>2. /\ tag'["send"] = Sent /\ tag'["receive"] = tag["receive"]
          /\ wire' = wire /\ item'["receive"] = item["receive"]
          /\ All(item'["send"]) \in {All(item["send"]), {Sent}}
        BY <1>1, <2>1, Writing, AllOfFew
    <2> QED BY <1>1, <1>a, <1>n, <2>1, <2>2 DEF InOrder, SendSide, RecvSide, Somewhere, UnderWay, NotNewer
<1>2. ASSUME answering # <<>>, Write("receive", answering[1]), answering' = <<>> PROVE InOrder'
    <2> DEFINE c == answering[1]
    <2>1. c \in Carriers /\ All(answering) = {c}
        <3>1. answering = <<c>>
            BY <1>t, <1>2, AtMostOne DEF TypeOK
        <3> QED BY <1>t, <1>2, <3>1, AllOfFew
    <2>2. /\ tag'["send"] = tag["send"] /\ tag'["receive"] = c
          /\ wire' = wire /\ item'["send"] = item["send"]
          /\ All(item'["receive"]) \in {All(item["receive"]), {c}}
        BY <1>2, <2>1, Writing, AllOfFew
    <2>3. All(answering') = {}
        BY <1>2, <1>s
    <2> QED BY <1>a, <1>n, <2>1, <2>2, <2>3 DEF InOrder, SendSide, RecvSide, Somewhere, UnderWay, NotNewer
<1>3. ASSUME NEW t \in Tags, Subscribe(t) \/ (Unsubscribed(t) /\ UNCHANGED tag),
             \/ UNCHANGED answering
             \/ answering' = <<>>
      PROVE  InOrder'
    <2>1. /\ tag' = tag /\ wire'[t] = <<>>
          /\ \A u \in Tags \ {t} : wire'[u] = wire[u] /\ item'[u] = item[u]
          /\ item'[t] \in {<<>>, <<tag[t]>>}
        BY <1>3 DEF Subscribe, Unsubscribed, TypeOK
    <2>2. /\ All(wire'[t]) = {} /\ Sorted(wire'[t])
          /\ All(item'[t]) \in {{}, {tag[t]}}
        BY <1>s, <2>1, AllOfFew
    <2>3. All(answering') \in {{}, All(answering)}
        BY <1>3, <1>s
    <2>4. CASE t = "send"
        BY <1>a, <1>n, <2>1, <2>2, <2>3, <2>4 DEF InOrder, SendSide, RecvSide, Somewhere, UnderWay, NotNewer
    <2>5. CASE t = "receive"
        BY <1>a, <1>n, <2>1, <2>2, <2>3, <2>5 DEF InOrder, SendSide, RecvSide, Somewhere, UnderWay, NotNewer
    <2> QED BY <2>4, <2>5
<1>4. CASE Beat
    <2>1. wire'["receive"] = AgedAll(wire["receive"]) /\ wire'["send"] = AgedAll(wire["send"])
        BY <1>4 DEF Beat
    <2>2. Sorted(wire'["receive"]) /\ Sorted(wire'["send"])
        BY <1>t, <2>1, SortedAged DEF InOrder
    <2>3. /\ {tag'["send"]} = Older({tag["send"]}) /\ {tag'["receive"]} = Older({tag["receive"]})
          /\ SendSide' \cup {tag'["send"]} = Older(SendSide \cup {tag["send"]})
          /\ All(wire'["send"]) \cup All(item'["send"]) = Older(All(wire["send"]) \cup All(item["send"]))
        <3>1. {tag'["send"]} = Older({tag["send"]}) /\ {tag'["receive"]} = Older({tag["receive"]})
            BY <1>4, BeatAges, OlderJoin
        <3>2. SendSide' = Older(SendSide)
            BY <1>4, BeatAges
        <3>3. SendSide' \cup {tag'["send"]} = Older(SendSide \cup {tag["send"]})
            BY <3>1, <3>2, OlderJoin
        <3>4. All(wire'["send"]) = Older(All(wire["send"])) /\ All(item'["send"]) = Older(All(item["send"]))
            BY <1>4, BeatAges
        <3>5. All(wire'["send"]) \cup All(item'["send"]) = Older(All(wire["send"]) \cup All(item["send"]))
            BY <3>4, OlderJoin
        <3> QED BY <3>1, <3>3, <3>5
    <2>4. \A A, B \in SUBSET Carriers : NotNewer(A, B) => NotNewer(Older(A), Older(B))
        BY AgedOrder
    <2>5. /\ All(wire["receive"]) \in SUBSET Carriers /\ All(item["receive"]) \in SUBSET Carriers
          /\ RecvSide \in SUBSET Carriers /\ SendSide \in SUBSET Carriers
          /\ {tag["receive"]} \in SUBSET Carriers /\ {tag["send"]} \in SUBSET Carriers
          /\ SendSide \cup {tag["send"]} \in SUBSET Carriers
          /\ All(answering) \in SUBSET Carriers
          /\ All(wire["send"]) \in SUBSET Carriers /\ All(item["send"]) \in SUBSET Carriers
          /\ All(wire["send"]) \cup All(item["send"]) \in SUBSET Carriers
        BY PlacesType DEF Somewhere, UnderWay, SendSide, RecvSide
    <2>6. NotNewer(Older(All(wire["receive"])), Older(All(item["receive"])))
        BY <2>4, <2>5, Zenon DEF InOrder
    <2>7. NotNewer(Older(RecvSide), Older({tag["receive"]}))
        BY <2>4, <2>5, Zenon DEF InOrder
    <2>8. NotNewer(Older({tag["receive"]}), Older(SendSide \cup {tag["send"]}))
        BY <2>4, <2>5, Zenon DEF InOrder
    <2>9. NotNewer(Older(All(answering)), Older(All(wire["send"]) \cup All(item["send"])))
        BY <2>4, <2>5, Zenon DEF InOrder
    <2>10. NotNewer(Older(All(wire["send"])), Older(All(item["send"])))
        BY <2>4, <2>5, Zenon DEF InOrder
    <2>11. NotNewer(Older(SendSide), Older({tag["send"]}))
        BY <2>4, <2>5, Zenon DEF InOrder
    <2> QED BY <1>4, <2>2, <2>3, <2>6, <2>7, <2>8, <2>9, <2>10, <2>11, BeatAges, Zenon DEF InOrder
<1>5. CASE StartOwner
    BY <1>3, <1>5 DEF StartOwner
<1>6. CASE StartEcho
    BY <1>3, <1>6 DEF StartEcho
<1>7. CASE Written
    BY <1>1, <1>7 DEF Written
<1>8. CASE SendFails
    BY <1>1, <1>c, <1>8 DEF SendFails, MayWrite, Keep
<1>9. CASE Check
    BY <1>c, <1>9 DEF Check
<1>10. CASE Receive
    <2>1. wire["receive"] # <<>> /\ wire'["receive"] = Tail(wire["receive"])
          /\ wire'["send"] = wire["send"] /\ UNCHANGED <<answering, tag, item>>
        BY <1>10 DEF Receive, TypeOK
    <2>2. Sorted(wire'["receive"]) /\ All(wire'["receive"]) \subseteq All(wire["receive"])
        BY <1>t, <2>1, SortedHead, AllOfHead DEF InOrder
    <2> QED BY <2>1, <2>2 DEF InOrder, SendSide, RecvSide, NotNewer
<1>11. CASE Drain
    BY <1>c, <1>11 DEF Drain
<1>12. CASE TakeBeat
    <2> DEFINE c == Head(wire["send"])
    <2>1. wire["send"] # <<>> /\ wire'["send"] = Tail(wire["send"]) /\ answering = <<>>
          /\ wire'["receive"] = wire["receive"] /\ answering' = <<c>> /\ UNCHANGED <<tag, item>>
        BY <1>12 DEF TakeBeat, TypeOK
    <2>2. /\ Sorted(wire'["send"]) /\ All(wire["send"]) = {c} \cup All(wire'["send"])
          /\ NotNewer({c}, All(wire'["send"]))
        BY <1>t, <2>1, SortedHead, AllOfHead DEF InOrder
    <2>3. All(answering') = {c} /\ All(answering) = {}
        BY <2>1, AllOfFew
    <2> QED BY <2>1, <2>2, <2>3 DEF InOrder, SendSide, RecvSide, NotNewer
<1>13. CASE Answer
    BY <1>2, <1>13 DEF Answer
<1>14. CASE AnswerFails
    <2>1. CASE Write("receive", answering[1])
        BY <1>2, <1>14, <2>1 DEF AnswerFails
    <2>2. CASE Keep
        <3>1. All(answering') = {}
            BY <1>14, <1>s DEF AnswerFails
        <3> QED BY <2>2, <3>1 DEF Keep, server, InOrder, SendSide, RecvSide, NotNewer
    <2> QED BY <1>14, <2>1, <2>2 DEF AnswerFails, MayWrite
<1>15. ASSUME NEW t \in Tags, Publish(t) PROVE InOrder'
    <2>1. /\ wire'[t] = wire[t] \o item[t] /\ item'[t] = <<>>
          /\ \A u \in Tags \ {t} : wire'[u] = wire[u] /\ item'[u] = item[u]
          /\ UNCHANGED <<answering, tag>>
        BY <1>15 DEF Publish, TypeOK, observed
    <2>2. wire[t] \in Seq(Carriers) /\ item[t] \in Seq(Carriers) /\ Len(item[t]) <= 1
        BY DEF TypeOK
    <2>3. Sorted(item[t])
        <3>1. item[t] = <<>> \/ (item[t][1] \in Carriers /\ item[t] = <<item[t][1]>>)
            BY <2>2, AtMostOne
        <3> QED BY <3>1, SortedFew
    <2>4. Sorted(wire'[t])
        BY <2>1, <2>2, <2>3, SortedJoin DEF InOrder
    <2>5. All(wire'[t]) = All(wire[t]) \cup All(item[t]) /\ All(item'[t]) = {}
        BY <2>1, <2>2, <1>s, AllOfJoin
    <2>6. CASE t = "send"
        BY <2>1, <2>4, <2>5, <2>6 DEF InOrder, SendSide, RecvSide, NotNewer
    <2>7. CASE t = "receive"
        BY <2>1, <2>4, <2>5, <2>7 DEF InOrder, SendSide, RecvSide, NotNewer
    <2> QED BY <2>6, <2>7
<1>16. ASSUME NEW p \in DOMAIN link, Cut(p) PROVE InOrder'
    BY <1>c, <1>16 DEF Cut
<1>17. CASE EndOwner
    BY <1>3, <1>17 DEF EndOwner
<1>18. CASE EndEcho
    BY <1>3, <1>18 DEF EndEcho
<1>19. CASE UNCHANGED vars
    BY <1>c, <1>19 DEF vars
<1> QED BY <1>4, <1>5, <1>6, <1>7, <1>8, <1>9, <1>10, <1>11, <1>12, <1>13, <1>14,
           <1>15, <1>16, <1>17, <1>18, <1>19 DEF Next, Sender, Echo

-----------------------------------------------------------------------------
(* What each further beat of a working pair adds.  After one, whatever is  *)
(* as young as the last beat carries it.  After two, what is one beat old  *)
(* carries the beat before.  After three, the echo has answered the beat   *)
(* before or is about to.  After four, nothing older is under way.  The    *)
(* silence is bounded by the place the last answers have come to.          *)
Prev == heartbeat - (IF increasing THEN 1 ELSE -1)
Awake == sender \in {"checking", "asleep", "dead"}
Aboard(A, n) == \E c \in A : c.age = n

OneBeat ==
    /\ link["owner"] = "up" /\ link["echo"] = "up"
    /\ sender \notin {"off", "starting"}
    /\ \A c \in Somewhere : c.age = 0 => c = Sent /\ Awake
    /\ sentAt[heartbeat] \in {0, Never}
    /\ Awake => tag["send"] = Sent

TwoBeats ==
    /\ ~Awake => item["send"] = <<>> /\ tag["send"] = [val |-> Prev, age |-> 1]
    /\ Prev \in Values
    /\ \A c \in Somewhere : c.age = 1 => c.val = Prev
    /\ sentAt[Prev] \in {1, Never}
    /\ Awake => tag["receive"].age = 0 \/ Aboard(SendSide, 0)

ThreeBeats ==
    /\ tag["receive"].age <= 1 \/ Aboard(SendSide, 1)
    /\ tag["receive"].age = 0 /\ (\E c \in RecvSide : c.age >= 1) => Aboard(RecvSide, 0)
    /\ tag["receive"].age = 0 /\ RecvSide = {} => silence <= 0

FourBeats ==
    /\ \A c \in UnderWay : c.age <= 1
    /\ tag["receive"].age <= 2
    /\ tag["receive"].age = 2 => tag["receive"].val # Prev
    /\ tag["receive"].age = 1 /\ RecvSide = {} => silence <= 1

Settled ==
    /\ calm >= 1 => OneBeat
    /\ calm >= 2 => TwoBeats
    /\ calm >= 3 => ThreeBeats
    /\ calm >= 4 => FourBeats
    /\ calm >= 5 => silence <= 2 \/ Aboard(All(wire["receive"]), 1)
    /\ calm >= 2 * MaxLag + 4 => silence <= 2 * MaxLag + 1

LEMMA OneOfThree ==
    ASSUME NEW a \in Nat, NEW b \in Nat, NEW c \in Nat, NEW m \in {0, 1}, a + b + c <= m
    PROVE  (a = 0 /\ b = 0) \/ (a = 0 /\ c = 0) \/ (b = 0 /\ c = 0)
OBVIOUS

(* When the sender wakes there is at most one carrier under way.           *)
LEMMA OnlyOne ==
    ASSUME TypeOK, OneBeat, Timely
    PROVE  /\ \A a, b \in UnderWay : a = b
           /\ SendSide = {} \/ RecvSide = {}
           /\ MaxLag = 0 => UnderWay = {}
           /\ RecvSide = All(wire["receive"])
<1> USE DEF Tags
<1>1. Reached = Tags
    BY DEF Reached, OneBeat, Listener
<1>2. item["send"] = <<>> /\ item["receive"] = <<>>
    BY <1>1 DEF Timely
<1>3. /\ answering \in Seq(Carriers)
      /\ wire["send"] \in Seq(Carriers) /\ wire["receive"] \in Seq(Carriers)
    BY DEF TypeOK
<1>4. Load("send") = Len(wire["send"]) + Len(answering) /\ Load("receive") = Len(wire["receive"])
    BY <1>1, <1>3 DEF Load
<1>5. Len(wire["send"]) + Len(answering) + Len(wire["receive"]) <= MaxLag
    BY <1>4 DEF Timely
<1>6. Len(wire["send"]) \in Nat /\ Len(answering) \in Nat /\ Len(wire["receive"]) \in Nat
    BY <1>3
<1>7. \A s \in Seq(Carriers) : Len(s) = 0 => All(s) = {}
    BY AllOfFew
<1>8. \A s \in Seq(Carriers) : Len(s) <= 1 => \A a, b \in All(s) : a = b
    BY DEF All
<1>9. UnderWay = All(answering) \cup All(wire["send"]) \cup All(wire["receive"])
    BY <1>2, AllOfFew DEF UnderWay, SendSide, RecvSide
<1>10. /\ RecvSide = All(wire["receive"])
       /\ SendSide = All(answering) \cup All(wire["send"])
    BY <1>2, AllOfFew DEF RecvSide, SendSide
<1>11. CASE Len(wire["send"]) = 0 /\ Len(answering) = 0
    BY <1>3, <1>5, <1>6, <1>7, <1>8, <1>9, <1>10, <1>11, HeartbeatAssumption
<1>12. CASE Len(wire["send"]) = 0 /\ Len(wire["receive"]) = 0
    BY <1>3, <1>5, <1>6, <1>7, <1>8, <1>9, <1>10, <1>12, HeartbeatAssumption
<1>13. CASE Len(answering) = 0 /\ Len(wire["receive"]) = 0
    BY <1>3, <1>5, <1>6, <1>7, <1>8, <1>9, <1>10, <1>13, HeartbeatAssumption
<1>14. \/ Len(wire["send"]) = 0 /\ Len(answering) = 0
       \/ Len(wire["send"]) = 0 /\ Len(wire["receive"]) = 0
       \/ Len(answering) = 0 /\ Len(wire["receive"]) = 0
    BY <1>5, <1>6, OneOfThree, HeartbeatAssumption, Zenon
<1> QED BY <1>11, <1>12, <1>13, <1>14

(* The last beat but one, one beat later.                                  *)
LEMMA BeatMoves ==
    ASSUME TypeOK, Beat
    PROVE  /\ heartbeat' = Updated /\ Updated # heartbeat /\ Updated \in Values
           /\ Prev' = heartbeat
<1>1. Updated \in Values /\ Turned \in BOOLEAN
    BY UpdatedType DEF TypeOK
<1>2. heartbeat' = Updated /\ increasing' = Turned
    BY DEF Beat
<1>3. heartbeat \in Int
    BY HeartbeatAssumption DEF TypeOK, Values
<1>4. CASE Turned
    <2>1. Updated = heartbeat + 1
        BY <1>4, Zenon DEF Updated
    <2>2. Prev' = Updated - 1
        BY <1>2, <1>4, Zenon DEF Prev
    <2> QED BY <1>1, <1>2, <1>3, <2>1, <2>2
<1>5. CASE ~Turned
    <2>1. Updated = heartbeat + (-1)
        BY <1>5, Zenon DEF Updated
    <2>2. Prev' = Updated - (-1)
        BY <1>2, <1>5, Zenon DEF Prev
    <2> QED BY <1>1, <1>2, <1>3, <2>1, <2>2
<1> QED BY <1>4, <1>5

LEMMA AgeSteps ==
    ASSUME NEW c \in Carriers
    PROVE  /\ Aged(c).val = c.val /\ Aged(c).age >= 1 /\ c.age \in Nat
           /\ Aged(c).age = 1 <=> c.age = 0
           /\ Aged(c).age = 2 <=> c.age = 1
           /\ Aged(c).age <= 2 <=> c.age <= 1
<1>1. MaxAge \in Nat /\ MaxAge >= 3
    BY HeartbeatAssumption DEF MaxAge
<1> QED BY <1>1, AgedFields

(* A beat takes a working pair from each stage to the next.                *)
LEMMA SettledBeat ==
    ASSUME TypeOK, InOrder, Settled, Beat
    PROVE  Settled'
<1> USE DEF Tags
<1>1. Somewhere \subseteq Carriers
    BY PlacesType
<1>2. calm \in 0 .. Recovery + 1 /\ Recovery = 2 * MaxLag + 3 /\ MaxLag \in {0, 1}
    BY HeartbeatAssumption DEF TypeOK, Recovery
<1>3. /\ calm' >= 1 => link["owner"] = "up" /\ link["echo"] = "up"
      /\ \A n \in 1 .. Recovery + 1 : calm' >= n => calm >= n - 1
      /\ calm' \in 0 .. Recovery + 1
    BY <1>2 DEF Beat, TypeOK, Longer, Never
<1>4. /\ sender' = "sending" /\ ~Awake' /\ UNCHANGED link
      /\ sender \in {"starting", "asleep"} /\ (sender = "asleep" => Timely)
    BY DEF Beat, Awake
<1>5. Somewhere' \subseteq Older(Somewhere)
    <2>1. /\ SendSide' = Older(SendSide) /\ RecvSide' = Older(RecvSide)
          /\ tag'["send"] = Aged(tag["send"]) /\ tag'["receive"] = Aged(tag["receive"])
        BY BeatAges
    <2> QED BY <2>1 DEF Somewhere, UnderWay, Older
<1>6. \A d \in Somewhere' : \E c \in Somewhere : c \in Carriers /\ d = Aged(c)
    BY <1>1, <1>5 DEF Older
<1>7. heartbeat' = Updated /\ Updated # heartbeat /\ Updated \in Values /\ Prev' = heartbeat
    BY BeatMoves
<1>8. heartbeat \in Values /\ sentAt[heartbeat] \in Ages \cup {Never}
    BY DEF TypeOK
<1>9. sentAt'[Updated] = 0 /\ sentAt'[heartbeat] = Longer(sentAt[heartbeat], MaxAge)
    BY <1>7, <1>8 DEF Beat, Noted
<1>10. ASSUME calm' >= 1 PROVE OneBeat'
    <2>1. \A d \in Somewhere' : d.age # 0
        BY <1>6, AgeSteps
    <2> QED BY <1>3, <1>4, <1>7, <1>9, <1>10, <2>1 DEF OneBeat
<1>11. ASSUME calm' >= 2 PROVE calm >= 1 /\ OneBeat /\ sender = "asleep" /\ Timely
    <2>1. calm >= 1
        BY <1>2, <1>3, <1>11
    <2> QED BY <1>4, <2>1 DEF Settled, OneBeat
<1>12. ASSUME calm' >= 2 PROVE TwoBeats'
    <2>1. item'["send"] = <<>>
        <3>1. item["send"] = <<>>
            BY <1>11, <1>12 DEF Timely, Reached, OneBeat, Listener
        <3> QED BY <3>1 DEF Beat, AgedAll
    <2>2. tag'["send"] = [val |-> Prev', age |-> 1]
        <3>1. tag["send"] = Sent
            BY <1>11, <1>12 DEF OneBeat, Awake
        <3>2. tag'["send"] = Aged(Sent)
            BY <3>1, BeatAges
        <3>3. Longer(0, MaxAge) = 1
            BY Limits DEF Longer, Never
        <3> QED BY <1>7, <3>2, <3>3 DEF Aged, Sent
    <2>3. \A d \in Somewhere' : d.age = 1 => d.val = Prev'
        <3>1. \A c \in Somewhere : c.age = 0 => c.val = heartbeat
            BY <1>11, <1>12 DEF OneBeat, Sent
        <3> QED BY <1>6, <1>7, <3>1, AgeSteps
    <2>4. sentAt'[Prev'] \in {1, Never}
        <3>1. sentAt[heartbeat] \in {0, Never}
            BY <1>11, <1>12 DEF OneBeat
        <3> QED BY <1>7, <1>9, <3>1, Limits DEF Longer, Never
    <2> QED BY <1>4, <1>7, <1>8, <2>1, <2>2, <2>3, <2>4 DEF TwoBeats
<1>13. ASSUME calm' >= 3
       PROVE  /\ tag["receive"].age = 0 \/ Aboard(SendSide, 0)
              /\ \A a, b \in UnderWay : a = b
              /\ SendSide = {} \/ RecvSide = {}
              /\ MaxLag = 0 => UnderWay = {}
              /\ RecvSide = All(wire["receive"])
              /\ tag["receive"] \in Carriers /\ SendSide \subseteq Carriers
              /\ RecvSide \subseteq Carriers
              /\ tag'["receive"] = Aged(tag["receive"])
              /\ SendSide' = Older(SendSide) /\ RecvSide' = Older(RecvSide)
              /\ silence' = Longer(silence, StaleAfter + 1)
    <2>1. calm >= 2 /\ calm' >= 2
        BY <1>2, <1>3, <1>13
    <2>2. TwoBeats
        BY <2>1 DEF Settled
    <2>3. tag["receive"].age = 0 \/ Aboard(SendSide, 0)
        BY <1>11, <2>1, <2>2 DEF TwoBeats, Awake
    <2>4. /\ \A a, b \in UnderWay : a = b
          /\ SendSide = {} \/ RecvSide = {}
          /\ MaxLag = 0 => UnderWay = {}
          /\ RecvSide = All(wire["receive"])
        BY <1>11, <2>1, OnlyOne
    <2>5. tag["receive"] \in Carriers /\ SendSide \subseteq Carriers /\ RecvSide \subseteq Carriers
        BY <1>1 DEF Somewhere, UnderWay
    <2>6. silence' = Longer(silence, StaleAfter + 1)
        BY <1>11, <2>1 DEF Beat
    <2> QED BY <2>3, <2>4, <2>5, <2>6, BeatAges
<1>14. ASSUME calm' >= 3 PROVE ThreeBeats'
    <2>1. tag'["receive"].age <= 1 \/ Aboard(SendSide', 1)
        <3>1. CASE tag["receive"].age = 0
            BY <1>13, <1>14, <3>1, AgeSteps
        <3>2. CASE Aboard(SendSide, 0)
            BY <1>13, <1>14, <3>2, AgeSteps DEF Aboard, Older
        <3> QED BY <1>13, <1>14, <3>1, <3>2
    <2>2. tag'["receive"].age # 0
        BY <1>13, <1>14, AgeSteps
    <2> QED BY <2>1, <2>2 DEF ThreeBeats
<1>15. ASSUME calm' >= 4
       PROVE  /\ ThreeBeats /\ calm' >= 3
              /\ \A c \in UnderWay : c.age = 0
              /\ tag["receive"].age = 0 \/ (tag["receive"].age = 1 /\ RecvSide = {})
    <2>1. calm >= 3 /\ calm' >= 3 /\ ThreeBeats /\ TwoBeats
        BY <1>2, <1>3, <1>15 DEF Settled
    <2>2. \A c \in UnderWay : c.age \in Nat
        BY <1>1, AgeSteps DEF Somewhere
    <2>3. CASE tag["receive"].age = 0
        <3>1. \A c \in SendSide : c.age = 0
            BY <2>2, <2>3 DEF InOrder, NotNewer, UnderWay
        <3>2. \A c \in RecvSide : c.age = 0
            <4> SUFFICES ASSUME NEW c \in RecvSide, c.age >= 1 PROVE FALSE
                BY <2>2 DEF UnderWay
            <4>1. PICK d \in RecvSide : d.age = 0
                BY <2>1, <2>3 DEF ThreeBeats, Aboard
            <4> QED BY <1>13, <2>1, <4>1 DEF UnderWay
        <3> QED BY <2>1, <2>3, <3>1, <3>2 DEF UnderWay
    <2>4. CASE Aboard(SendSide, 0) /\ tag["receive"].age # 0
        <3>1. PICK d \in SendSide : d.age = 0
            BY <2>4 DEF Aboard
        <3>2. \A c \in UnderWay : c = d
            BY <1>13, <2>1, <3>1 DEF UnderWay
        <3>3. ~Aboard(SendSide, 1)
            BY <3>1, <3>2 DEF Aboard, UnderWay
        <3>4. tag["receive"].age = 1
            BY <1>13, <2>1, <2>4, <3>3, AgeSteps DEF ThreeBeats
        <3>5. RecvSide = {}
            BY <1>13, <2>1, <3>1
        <3>6. \A c \in UnderWay : c.age = 0
            BY <3>1, <3>2
        <3> QED BY <2>1, <3>4, <3>5, <3>6
    <2> QED BY <1>13, <2>1, <2>3, <2>4
<1>16. ASSUME calm' >= 4
       PROVE  /\ tag'["receive"].age \in {1, 2}
              /\ tag'["receive"].age = 2 => RecvSide = {} /\ tag["receive"].age = 1
              /\ tag'["receive"].age = 1 => tag["receive"].age = 0
    BY <1>13, <1>15, <1>16, AgeSteps
<1>17. silence \in 0 .. (StaleAfter + 1) \cup {Never}
    BY DEF TypeOK
<1>18. \A n \in Nat : silence <= n => Longer(silence, StaleAfter + 1) <= n + 1
    BY <1>17, HeartbeatAssumption DEF Longer, Never
<1>19. ASSUME calm' >= 4 PROVE FourBeats'
    <2>1. \A d \in UnderWay' : d.age <= 1
        <3>1. UnderWay' = Older(UnderWay)
            <4>1. SendSide' = Older(SendSide) /\ RecvSide' = Older(RecvSide)
                BY BeatAges
            <4> QED BY <4>1, OlderJoin DEF UnderWay
        <3>2. UnderWay \subseteq Carriers
            BY <1>1 DEF Somewhere
        <3> QED BY <1>15, <1>19, <3>1, <3>2, AgeSteps DEF Older
    <2>2. tag'["receive"].age = 2 => tag'["receive"].val # Prev'
        <3>1. ASSUME tag["receive"].age = 1 PROVE tag["receive"].val = Prev
            <4>1. TwoBeats
                BY <1>2, <1>3, <1>19 DEF Settled
            <4> QED BY <3>1, <4>1 DEF TwoBeats, Somewhere
        <3>2. Prev # heartbeat
            BY <1>8, HeartbeatAssumption DEF Prev, Values
        <3> QED BY <1>7, <1>13, <1>15, <1>16, <1>19, <3>1, <3>2, AgeSteps
    <2>3. tag'["receive"].age = 1 /\ RecvSide' = {} => silence' <= 1
        <3> SUFFICES ASSUME tag'["receive"].age = 1, RecvSide' = {} PROVE silence' <= 1
            OBVIOUS
        <3>1. tag["receive"].age = 0 /\ RecvSide = {}
            BY <1>13, <1>15, <1>16, <1>19 DEF Older
        <3>2. silence <= 0
            BY <1>15, <1>19, <3>1 DEF ThreeBeats
        <3> QED BY <1>13, <1>15, <1>18, <1>19, <3>2
    <2> QED BY <1>16, <1>19, <2>1, <2>2, <2>3 DEF FourBeats
<1>20. ASSUME calm' >= 5 PROVE silence' <= 2 \/ Aboard(All(wire'["receive"]), 1)
    <2>1. calm' >= 4 /\ FourBeats
        BY <1>2, <1>3, <1>20 DEF Settled
    <2>2. CASE All(wire["receive"]) = {}
        <3>1. RecvSide = {}
            BY <1>13, <1>15, <2>1, <2>2
        <3>2. silence <= 1
            <4>1. CASE tag["receive"].age = 0
                BY <1>15, <1>17, <2>1, <3>1, <4>1, HeartbeatAssumption DEF ThreeBeats, Never
            <4>2. CASE tag["receive"].age = 1
                BY <2>1, <3>1, <4>2 DEF FourBeats
            <4> QED BY <1>15, <2>1, <4>1, <4>2
        <3> QED BY <1>13, <1>15, <1>18, <2>1, <3>2
    <2>3. ASSUME NEW c \in All(wire["receive"]) PROVE Aboard(All(wire'["receive"]), 1)
        <3>1. c \in UnderWay /\ c \in Carriers
            BY <1>1 DEF UnderWay, RecvSide, Somewhere
        <3>2. Aged(c).age = 1
            BY <1>15, <2>1, <3>1, AgeSteps
        <3>3. Aged(c) \in All(wire'["receive"])
            BY BeatAges DEF Older
        <3> QED BY <3>2, <3>3 DEF Aboard
    <2> QED BY <2>2, <2>3
<1>21. ASSUME calm' >= 2 * MaxLag + 4 PROVE silence' <= 2 * MaxLag + 1
    <2>1. calm' >= 4
        BY <1>2, <1>3, <1>21
    <2>2. CASE MaxLag = 0
        <3>1. UnderWay = {} /\ RecvSide = {} /\ SendSide = {}
            BY <1>13, <1>15, <2>1, <2>2 DEF UnderWay
        <3>2. tag["receive"].age = 0
            BY <1>13, <1>15, <2>1, <3>1 DEF Aboard
        <3>3. silence <= 0
            BY <1>15, <2>1, <3>1, <3>2 DEF ThreeBeats
        <3> QED BY <1>13, <1>15, <1>18, <2>1, <2>2, <3>3
    <2>3. CASE MaxLag = 1
        <3>1. calm >= 5
            BY <1>2, <1>3, <1>21, <2>3
        <3>2. silence <= 2 \/ Aboard(All(wire["receive"]), 1)
            BY <3>1 DEF Settled
        <3>3. ~Aboard(All(wire["receive"]), 1)
            BY <1>15, <2>1 DEF Aboard, UnderWay, RecvSide
        <3> QED BY <1>13, <1>15, <1>18, <2>1, <2>3, <3>2, <3>3
    <2> QED BY <1>2, <2>2, <2>3
<1> QED BY <1>10, <1>12, <1>14, <1>19, <1>20, <1>21 DEF Settled

(* No other step of a working pair undoes a stage, and whatever troubles a *)
(* pair begins the count of its calm anew.                                 *)
LEMMA SettledStep ==
    TypeOK /\ InOrder /\ Settled /\ [Next]_vars => Settled'
<1> SUFFICES ASSUME TypeOK, InOrder, Settled, [Next]_vars PROVE Settled'
    OBVIOUS
<1> USE DEF Tags
<1>t. /\ answering \in Seq(Carriers) /\ Len(answering) <= 1
      /\ wire["send"] \in Seq(Carriers) /\ wire["receive"] \in Seq(Carriers)
      /\ item["send"] \in Seq(Carriers) /\ item["receive"] \in Seq(Carriers)
      /\ Len(item["receive"]) <= 1 /\ Len(item["send"]) <= 1
      /\ tag["send"] \in Carriers /\ tag["receive"] \in Carriers
    BY DEF TypeOK
<1>a. \A c \in Somewhere : c.age \in Nat
    BY PlacesType, Limits
<1>f. All(<<>>) = {} /\ \A c : All(<<c>>) = {c}
    BY AllOfFew
<1>n. calm \in Nat /\ MaxLag \in Nat
    BY HeartbeatAssumption DEF TypeOK
<1>m. calm >= 4 => calm >= 3 /\ calm >= 2 /\ calm >= 1
    BY <1>n
<1>p. UNCHANGED <<heartbeat, increasing>> => Sent' = Sent /\ Prev' = Prev
    BY DEF Sent, Prev
<1>1. ASSUME calm' = 0 PROVE Settled'
    BY <1>1, <1>n DEF Settled
<1>2. ASSUME UNCHANGED <<link, heartbeat, increasing, sentAt, silence, answering, server, calm>>,
             Awake' <=> Awake, sender' \notin {"off", "starting"} \/ UNCHANGED sender
      PROVE  Settled'
    <2>1. /\ UnderWay' = UnderWay /\ SendSide' = SendSide /\ RecvSide' = RecvSide
          /\ Somewhere' = Somewhere /\ UNCHANGED <<tag, item, wire>>
        BY <1>2 DEF server, UnderWay, SendSide, RecvSide, Somewhere
    <2> QED BY <1>2, <1>p, <2>1 DEF Settled, OneBeat, TwoBeats, ThreeBeats, FourBeats
(* Carriers move on within their side.                                     *)
<1>3. ASSUME UNCHANGED <<link, sender, heartbeat, increasing, sentAt, silence, tag, calm>>,
             SendSide' = SendSide, RecvSide' = RecvSide,
             item["send"] = <<>> => item'["send"] = <<>>,
             All(wire["receive"]) \subseteq All(wire'["receive"])
      PROVE  Settled'
    <2>1. UnderWay' = UnderWay /\ Somewhere' = Somewhere /\ (Awake' <=> Awake)
        BY <1>3 DEF UnderWay, Somewhere, Awake
    <2> QED BY <1>3, <1>p, <2>1 DEF Settled, OneBeat, TwoBeats, ThreeBeats, FourBeats, Aboard
<1>4. CASE Written
    <2>1. /\ sender = "sending" /\ ~Awake /\ sender' = "checking" /\ Awake'
          /\ Write("send", Sent)
          /\ UNCHANGED <<link, heartbeat, increasing, sentAt, silence, answering, calm>>
        BY <1>4 DEF Written, Awake, observed
    <2>2. Sent \in Carriers /\ Sent.age = 0 /\ Sent.val = heartbeat
        BY Limits DEF TypeOK, Sent, Carriers, Ages
    <2>3. /\ tag'["send"] = Sent /\ tag'["receive"] = tag["receive"]
          /\ item'["receive"] = item["receive"] /\ wire' = wire
          /\ item'["send"] = IF Sent.val # tag["send"].val /\ link["echo"] = "up"
                             THEN <<Sent>> ELSE item["send"]
        BY <2>1, <2>2, Writing DEF Listener
    <2>4. RecvSide' = RecvSide /\ SendSide' \subseteq SendSide \cup {Sent}
        BY <1>f, <2>1, <2>3 DEF RecvSide, SendSide
    <2>5. Somewhere' \subseteq Somewhere \cup {Sent} /\ UnderWay' \subseteq UnderWay \cup {Sent}
        BY <2>3, <2>4 DEF UnderWay, Somewhere
    <2>6. Sent' = Sent /\ Prev' = Prev
        BY <1>p, <2>1
    <2>7. calm >= 1 => OneBeat'
        BY <2>1, <2>3, <2>5, <2>6 DEF Settled, OneBeat
    <2>8. ASSUME calm >= 2 PROVE TwoBeats' /\ SendSide' = SendSide \cup {Sent}
        <3>1. OneBeat /\ TwoBeats
            BY <1>n, <2>8 DEF Settled
        <3>2. Prev # heartbeat
            BY HeartbeatAssumption DEF TypeOK, Prev, Values
        <3>3. item'["send"] = <<Sent>> /\ item["send"] = <<>>
            BY <2>1, <2>2, <2>3, <3>1, <3>2 DEF OneBeat, TwoBeats
        <3>4. SendSide' = SendSide \cup {Sent}
            BY <1>f, <2>1, <2>3, <3>3 DEF SendSide
        <3> QED BY <2>1, <2>2, <2>5, <2>6, <3>1, <3>4 DEF TwoBeats, Aboard
    <2>9. ASSUME calm >= 3 PROVE ThreeBeats'
        <3>1. ThreeBeats /\ SendSide' = SendSide \cup {Sent}
            BY <1>n, <2>8, <2>9 DEF Settled
        <3> QED BY <2>1, <2>3, <2>4, <3>1 DEF ThreeBeats, Aboard
    <2>10. calm >= 4 => FourBeats'
        BY <2>1, <2>2, <2>3, <2>4, <2>5, <2>6 DEF Settled, FourBeats
    <2> QED BY <2>1, <2>3, <2>7, <2>8, <2>9, <2>10 DEF Settled
<1>5. CASE Check
    BY <1>2, <1>5 DEF Check, Awake
<1>6. CASE Receive
    <2> DEFINE c == Head(wire["receive"])
    <2>1. /\ wire["receive"] # <<>> /\ wire'["receive"] = Tail(wire["receive"])
          /\ wire'["send"] = wire["send"] /\ silence' = 0
          /\ UNCHANGED <<link, sender, heartbeat, increasing, answering, tag, item, calm>>
        BY <1>6 DEF Receive, TypeOK, SilenceEnds
    <2>2. /\ All(wire["receive"]) = {c} \cup All(wire'["receive"])
          /\ NotNewer({c}, All(wire'["receive"]))
        BY <1>t, <2>1, AllOfHead, SortedHead DEF InOrder
    <2>3. SendSide' = SendSide /\ RecvSide = {c} \cup RecvSide' /\ (Awake' <=> Awake)
        BY <2>1, <2>2 DEF SendSide, RecvSide, Awake
    <2>4. UnderWay' \subseteq UnderWay /\ Somewhere' \subseteq Somewhere
        BY <2>1, <2>3 DEF UnderWay, Somewhere
    <2>5. NotNewer({c}, RecvSide')
        BY <2>1, <2>2 DEF InOrder, RecvSide, NotNewer
    <2>6. \A v \in Values : sentAt'[v] \in {sentAt[v], Never}
        BY <1>6 DEF Receive, TypeOK
    <2>7. Sent' = Sent /\ Prev' = Prev
        BY <1>p, <2>1
    <2>8. calm >= 1 => OneBeat'
        <3>1. heartbeat \in Values
            BY DEF TypeOK
        <3> QED BY <2>1, <2>3, <2>4, <2>6, <2>7, <3>1 DEF Settled, OneBeat
    <2>9. calm >= 2 => TwoBeats'
        BY <2>1, <2>3, <2>4, <2>6, <2>7 DEF Settled, TwoBeats
    <2>10. ASSUME calm >= 3 PROVE ThreeBeats'
        <3>1. ThreeBeats
            BY <2>10 DEF Settled
        <3>2. ASSUME NEW d \in RecvSide', d.age >= 1, tag["receive"].age = 0
              PROVE  Aboard(RecvSide', 0)
            <4>1. PICK e \in RecvSide : e.age = 0
                BY <2>3, <3>1, <3>2 DEF ThreeBeats, Aboard
            <4>2. e # c
                BY <1>a, <2>3, <2>5, <3>2, <4>1 DEF NotNewer, Somewhere, UnderWay
            <4> QED BY <2>3, <4>1, <4>2 DEF Aboard
        <3> QED BY <2>1, <2>3, <3>1, <3>2 DEF ThreeBeats
    <2>11. calm >= 4 => FourBeats'
        BY <2>1, <2>4, <2>7 DEF Settled, FourBeats
    <2> QED BY <1>n, <2>1, <2>8, <2>9, <2>10, <2>11 DEF Settled
<1>7. CASE Drain
    <2>1. UNCHANGED <<link, sender, heartbeat, increasing, sentAt, silence, answering, server, calm>>
        BY <1>7 DEF Drain, observed
    <2> QED BY <1>2, <2>1 DEF Awake
<1>8. CASE TakeBeat
    <2> DEFINE c == Head(wire["send"])
    <2>1. /\ wire["send"] # <<>> /\ wire'["send"] = Tail(wire["send"]) /\ answering = <<>>
          /\ wire'["receive"] = wire["receive"] /\ answering' = <<c>>
          /\ UNCHANGED <<tag, item, link, sender, heartbeat, increasing, sentAt, silence, calm>>
        BY <1>8 DEF TakeBeat, TypeOK, owner, observed
    <2>2. All(wire["send"]) = {c} \cup All(wire'["send"])
        BY <1>t, <2>1, AllOfHead
    <2>3. All(answering') = {c} /\ All(answering) = {}
        BY <1>f, <2>1
    <2>4. SendSide' = SendSide /\ RecvSide' = RecvSide
        BY <2>1, <2>2, <2>3 DEF SendSide, RecvSide
    <2> QED BY <1>3, <2>1, <2>4
<1>9. CASE Answer
    <2> DEFINE c == answering[1]
    <2>1. /\ answering # <<>> /\ answering' = <<>> /\ Write("receive", c)
          /\ UNCHANGED <<link, sender, heartbeat, increasing, sentAt, silence, calm>>
        BY <1>9 DEF Answer, owner, observed
    <2>2. c \in Carriers /\ All(answering) = {c} /\ All(answering') = {}
        BY <1>t, <1>f, <2>1, AtMostOne
    <2>3. /\ tag'["receive"] = c /\ tag'["send"] = tag["send"]
          /\ item'["send"] = item["send"] /\ wire' = wire
          /\ item'["receive"] = IF c.val # tag["receive"].val /\ link["owner"] = "up"
                                THEN <<c>> ELSE item["receive"]
        BY <2>1, <2>2, Writing DEF Listener
    <2>4. SendSide = {c} \cup SendSide' /\ RecvSide' \subseteq RecvSide \cup {c}
        BY <1>f, <2>2, <2>3 DEF SendSide, RecvSide
    <2>5. UnderWay' \subseteq UnderWay /\ Somewhere' \subseteq Somewhere
        BY <2>3, <2>4 DEF UnderWay, Somewhere
    <2>6. /\ Sent' = Sent /\ Prev' = Prev /\ (Awake' <=> Awake)
          /\ c \in Somewhere /\ tag["receive"] \in Somewhere
        BY <1>p, <2>1, <2>4 DEF Awake, Somewhere, UnderWay
    <2>7. /\ c.age <= tag["receive"].age
          /\ \A d \in SendSide : d.age <= c.age
        BY <1>a, <2>2, <2>4 DEF InOrder, NotNewer, SendSide, UnderWay, Somewhere
    <2>8. calm >= 1 => OneBeat'
        BY <2>1, <2>3, <2>5, <2>6 DEF Settled, OneBeat
    <2>9. calm >= 2 => TwoBeats'
        <3>1. Aboard(SendSide, 0) => c.age = 0 \/ Aboard(SendSide', 0)
            BY <2>4 DEF Aboard
        <3>2. tag["receive"].age = 0 => c.age = 0
            BY <1>a, <2>6, <2>7
        <3> QED BY <2>1, <2>3, <2>5, <2>6, <3>1, <3>2 DEF Settled, TwoBeats
    <2>10. ASSUME calm >= 3, c.age = 0, tag["receive"].age # 0
           PROVE  item'["receive"] = <<c>>
        <3>1. OneBeat /\ TwoBeats /\ ThreeBeats
            BY <1>n, <2>10 DEF Settled
        <3>2. ~Aboard(SendSide, 1)
            BY <2>7, <2>10 DEF Aboard
        <3>3. tag["receive"].age = 1
            BY <1>a, <2>6, <2>10, <3>1, <3>2 DEF ThreeBeats
        <3>4. tag["receive"].val = Prev /\ c.val = heartbeat
            BY <2>6, <2>10, <3>1, <3>3 DEF OneBeat, TwoBeats, Sent
        <3>5. Prev # heartbeat
            BY HeartbeatAssumption DEF TypeOK, Prev, Values
        <3> QED BY <2>3, <3>1, <3>4, <3>5 DEF OneBeat
    <2>11. ASSUME calm >= 3 PROVE ThreeBeats'
        <3>1. ThreeBeats
            BY <2>11 DEF Settled
        <3>2. c.age <= 1 \/ Aboard(SendSide', 1)
            <4>1. CASE tag["receive"].age <= 1
                BY <1>a, <2>6, <2>7, <4>1
            <4>2. CASE Aboard(SendSide, 1)
                BY <2>4, <4>2 DEF Aboard
            <4> QED BY <3>1, <4>1, <4>2 DEF ThreeBeats
        <3>3. CASE c.age = 0 /\ tag["receive"].age # 0
            <4>1. c \in RecvSide'
                BY <1>f, <2>10, <2>11, <3>3 DEF RecvSide
            <4> QED BY <2>3, <3>2, <3>3, <4>1 DEF ThreeBeats, Aboard
        <3>4. CASE c.age = 0 /\ tag["receive"].age = 0
            <4>1. (\E d \in RecvSide' : d.age >= 1) => Aboard(RecvSide', 0)
                <5>1. CASE item'["receive"] = <<c>>
                    BY <1>f, <3>4, <5>1 DEF RecvSide, Aboard
                <5>2. CASE item'["receive"] = item["receive"]
                    BY <2>3, <3>1, <3>4, <5>2 DEF RecvSide, ThreeBeats
                <5> QED BY <2>3, <5>1, <5>2
            <4>2. RecvSide' = {} => silence' <= 0
                <5>1. CASE item'["receive"] = <<c>>
                    BY <1>f, <5>1 DEF RecvSide
                <5>2. CASE item'["receive"] = item["receive"]
                    BY <2>1, <2>3, <3>1, <3>4, <5>2 DEF RecvSide, ThreeBeats
                <5> QED BY <2>3, <5>1, <5>2
            <4> QED BY <2>3, <3>2, <4>1, <4>2 DEF ThreeBeats
        <3>5. CASE c.age # 0
            BY <2>3, <3>2, <3>5 DEF ThreeBeats
        <3> QED BY <3>3, <3>4, <3>5
    <2>12. ASSUME calm >= 4 PROVE FourBeats'
        <3>1. OneBeat /\ TwoBeats /\ FourBeats
            BY <1>n, <2>12 DEF Settled
        <3>2. c.age <= 1 /\ c.age \in Nat
            BY <1>a, <2>4, <2>6, <3>1 DEF FourBeats, UnderWay
        <3>3. ASSUME c.age = 1, RecvSide' = {} PROVE silence' <= 1
            <4>1. item'["receive"] # <<c>>
                BY <1>f, <3>3 DEF RecvSide
            <4>2. c.val = tag["receive"].val /\ item'["receive"] = item["receive"]
                BY <2>3, <3>1, <4>1 DEF OneBeat
            <4>3. c.val = Prev
                BY <2>6, <3>1, <3>3 DEF TwoBeats
            <4>4. tag["receive"].age = 1
                BY <1>a, <2>6, <2>7, <3>1, <3>3, <4>2, <4>3 DEF FourBeats
            <4>5. RecvSide = {}
                BY <2>3, <3>3, <4>2 DEF RecvSide
            <4> QED BY <2>1, <3>1, <4>4, <4>5 DEF FourBeats
        <3> QED BY <2>3, <2>5, <3>1, <3>2, <3>3 DEF FourBeats
    <2> QED BY <2>1, <2>3, <2>8, <2>9, <2>11, <2>12 DEF Settled
<1>10. ASSUME NEW t \in Tags, Publish(t) PROVE Settled'
    <2>1. /\ wire'[t] = wire[t] \o item[t] /\ item'[t] = <<>>
          /\ \A u \in Tags \ {t} : wire'[u] = wire[u] /\ item'[u] = item[u]
          /\ UNCHANGED <<link, sender, heartbeat, increasing, sentAt, silence, answering, tag, calm>>
        BY <1>10 DEF Publish, TypeOK, observed, owner
    <2>2. All(wire'[t]) = All(wire[t]) \cup All(item[t]) /\ All(item'[t]) = {}
        BY <1>f, <1>t, <2>1, AllOfJoin
    <2>3. /\ SendSide' = SendSide /\ RecvSide' = RecvSide
          /\ All(wire["receive"]) \subseteq All(wire'["receive"])
        <3>1. CASE t = "send"
            BY <2>1, <2>2, <3>1 DEF SendSide, RecvSide
        <3>2. CASE t = "receive"
            BY <2>1, <2>2, <3>2 DEF SendSide, RecvSide
        <3> QED BY <3>1, <3>2
    <2> QED BY <1>3, <2>1, <2>3
<1>11. CASE Beat
    BY <1>11, SettledBeat
<1>12. CASE UNCHANGED vars
    <2>1. UNCHANGED <<link, sender, heartbeat, increasing, sentAt, silence, answering, server, calm>>
        BY <1>12 DEF vars, owner, observed
    <2> QED BY <1>2, <2>1 DEF Awake
<1>13. CASE StartOwner \/ StartEcho \/ SendFails \/ AnswerFails \/ EndOwner \/ EndEcho
    BY <1>1, <1>13 DEF StartOwner, StartEcho, SendFails, AnswerFails, EndOwner, EndEcho, Ends, Disturbed
<1>14. ASSUME NEW p \in DOMAIN link, Cut(p) PROVE Settled'
    BY <1>1, <1>14 DEF Cut, Disturbed
<1> QED BY <1>4, <1>5, <1>6, <1>7, <1>8, <1>9, <1>10, <1>11, <1>12, <1>13, <1>14
        DEF Next, Sender, Echo

(* A round trip measured false, and an echo called stale, are of a pair    *)
(* that is not calm or not for long.                                       *)
LEMMA CalmStep ==
    TypeOK /\ TypeOK' /\ Settled /\ TripsTrue /\ NoFalseAlarm /\ [Next]_vars
    => TripsTrue' /\ NoFalseAlarm'
<1> SUFFICES ASSUME TypeOK, TypeOK', Settled, TripsTrue, NoFalseAlarm, [Next]_vars
             PROVE  TripsTrue' /\ NoFalseAlarm'
    OBVIOUS
<1>n. calm \in Nat /\ Recovery = 2 * MaxLag + 3 /\ Recovery \in Nat
    BY HeartbeatAssumption DEF TypeOK, Recovery
<1>1. ASSUME calm' = 0 PROVE TripsTrue' /\ NoFalseAlarm'
    BY <1>1, <1>n DEF TripsTrue, NoFalseAlarm
<1>2. CASE UNCHANGED <<told, trip, calm>>
    BY <1>2 DEF TripsTrue, NoFalseAlarm
<1>3. CASE Beat
    BY <1>3 DEF Beat, TripsTrue, NoFalseAlarm
<1>4. CASE Check
    <2>1. /\ calm' = calm /\ trip' = trip
          /\ told' => silence >= StaleAfter
        BY <1>4 DEF Check, IsStale
    <2>2. silence \in Int /\ StaleAfter \in Nat
        BY HeartbeatAssumption DEF TypeOK, Never
    <2>3. calm > Recovery => silence <= 2 * MaxLag + 1
        BY <1>n, HeartbeatAssumption DEF Settled
    <2>4. ASSUME silence >= StaleAfter PROVE calm <= Recovery \/ StaleAfter <= 2 * MaxLag + 1
        BY <1>n, <2>2, <2>3, <2>4, HeartbeatAssumption
    <2>5. told' => calm <= Recovery \/ StaleAfter <= 2 * MaxLag + 1
        BY <2>1, <2>4, Zenon
    <2>6. NoFalseAlarm'
        BY <2>1, <2>5, Zenon DEF NoFalseAlarm, Recovery
    <2>7. TripsTrue'
        BY <2>1, Zenon DEF TripsTrue, Recovery
    <2> QED BY <2>6, <2>7
<1>5. CASE Receive
    <2> DEFINE c == Head(wire["receive"])
    <2>1. UNCHANGED <<told, calm>> /\ wire["receive"] # <<>>
        BY <1>5 DEF Receive
    <2>2. ASSUME calm > Recovery, trip' = "false", trip # "false" PROVE FALSE
        <3>1. sentAt[c.val] # Never /\ sentAt[c.val] # c.age
            BY <1>5, <2>2 DEF Receive
        <3>2. wire["receive"] \in Seq(Carriers)
            BY DEF TypeOK, Tags
        <3>3. c \in UnderWay /\ c \in Somewhere
            BY <2>1, <3>2, AllOfHead DEF RecvSide, UnderWay, Somewhere
        <3>4. OneBeat /\ TwoBeats /\ FourBeats
            BY <1>n, <2>2, HeartbeatAssumption DEF Settled
        <3>5. c.age \in {0, 1}
            <4>1. c.age \in Nat
                BY <3>3, PlacesType, Limits
            <4> QED BY <3>3, <3>4, <4>1 DEF FourBeats
        <3>6. c.age = 0 => c.val = heartbeat
            BY <3>3, <3>4 DEF OneBeat, Sent
        <3> QED BY <3>1, <3>3, <3>4, <3>5, <3>6 DEF OneBeat, TwoBeats
    <2> QED BY <1>n, <2>1, <2>2 DEF TripsTrue, NoFalseAlarm
<1>6. CASE Written \/ Drain \/ TakeBeat \/ Answer \/ UNCHANGED vars
    BY <1>2, <1>6 DEF Written, Drain, TakeBeat, Answer, vars, observed
<1>7. ASSUME NEW t \in Tags, Publish(t) PROVE UNCHANGED <<told, trip, calm>>
    BY <1>7 DEF Publish, observed
<1>8. CASE StartOwner \/ StartEcho \/ SendFails \/ AnswerFails \/ EndOwner \/ EndEcho
    BY <1>1, <1>8 DEF StartOwner, StartEcho, SendFails, AnswerFails, EndOwner, EndEcho, Ends, Disturbed
<1>9. ASSUME NEW p \in DOMAIN link, Cut(p) PROVE calm' = 0
    BY <1>9 DEF Cut, Disturbed
<1> QED BY <1>1, <1>2, <1>3, <1>4, <1>5, <1>6, <1>7, <1>8, <1>9 DEF Next, Sender, Echo

(* Everything starts in order, and nothing is settled.                     *)
LEMMA SettledInit == Init => InOrder /\ Settled /\ TripsTrue /\ NoFalseAlarm
<1> SUFFICES ASSUME Init PROVE InOrder /\ Settled /\ TripsTrue /\ NoFalseAlarm
    OBVIOUS
<1>1. /\ answering = <<>> /\ item["send"] = <<>> /\ item["receive"] = <<>>
      /\ wire["send"] = <<>> /\ wire["receive"] = <<>>
      /\ tag["send"].age = MaxAge /\ tag["receive"].age = MaxAge
    BY DEF Init, Tags
<1>2. All(<<>>) = {} /\ Sorted(<<>>)
    BY AllOfFew, SortedFew
<1>3. InOrder
    BY <1>1, <1>2, Limits DEF InOrder, NotNewer, SendSide, RecvSide
<1>4. Settled /\ TripsTrue /\ NoFalseAlarm
    BY HeartbeatAssumption DEF Init, Settled, TripsTrue, NoFalseAlarm
<1> QED BY <1>3, <1>4

(* Once both programs have been up and undisturbed for Recovery beats,     *)
(* with answers at most MaxLag beats late, a round trip is measured        *)
(* against the very beat that its echo answers, whatever the lap: the      *)
(* value that comes back is the last one sent or the one before            *)
(* (heartbeat.py 101-113).                                                 *)
THEOREM TripsAreTrue == Spec => []TripsTrue
<1>1. TypeOK /\ InOrder /\ Settled /\ [Next]_vars => InOrder' /\ Settled'
    BY Overtaking, SettledStep
<1> QED BY <1>1, SettledInit, CalmStep, TypeCorrect, PTL DEF Spec

(* Once both programs have been up and undisturbed for Recovery beats,     *)
(* with answers at most MaxLag beats late, on_stale is not called if       *)
(* stale_after is above 2 * MaxLag + 1 beats (heartbeat.py 181-184).       *)
THEOREM AlarmsAreTrue == Spec => []NoFalseAlarm
<1>1. TypeOK /\ InOrder /\ Settled /\ [Next]_vars => InOrder' /\ Settled'
    BY Overtaking, SettledStep
<1> QED BY <1>1, SettledInit, CalmStep, TypeCorrect, PTL DEF Spec
=============================================================================
