---------------------------- MODULE UplinkProofs ----------------------------
(***************************************************************************)
(* Theorems about Uplink, for packets of any length and content, any       *)
(* number of them, any losses and any queue.                               *)
(***************************************************************************)
EXTENDS Uplink, TLAPS

(***************************************************************************)
(* The type invariant in parts.                                            *)
(***************************************************************************)
Flags == running \in BOOLEAN /\ broken \in BOOLEAN /\ reported \in BOOLEAN

LineShape ==
  /\ next \in [pkt : 1 .. MaxPackets + 1, pos : 1 .. PacketLen]
  /\ losses \in 0 .. MaxLoss
  /\ rx \in Seq(Byte) /\ Len(rx) <= QueueCap

PollShape ==
  /\ pc \in {"sync1", "sync2", "body", "done"}
  /\ buf \in Seq(Byte) /\ Len(buf) < BodyLen
  /\ fails \in 0 .. FailLimit - 1
  /\ status = <<>> \/ (status \in Seq(Byte) /\ Len(status) = BodyLen)

Shape == Flags /\ LineShape /\ PollShape

LEMMA Constants ==
  /\ BodyLen \in Nat /\ BodyLen >= 1 /\ PacketLen = BodyLen + 2
  /\ MaxPackets \in Nat /\ MaxLoss \in Nat
  /\ QueueCap \in Nat /\ QueueCap >= 1
  /\ FailLimit \in Nat /\ FailResume \in Nat /\ FailResume < FailLimit
BY UplinkAssumption DEF PacketLen

LEMMA TwoInARow ==
  ASSUME NEW S, NEW a \in Seq(S), NEW b \in Seq(S)
  PROVE  /\ a \o b \in Seq(S) /\ Len(a \o b) = Len(a) + Len(b)
         /\ \A i \in 1 .. Len(a) : (a \o b)[i] = a[i]
         /\ \A i \in 1 .. Len(b) : (a \o b)[Len(a) + i] = b[i]
OBVIOUS

\* how a poll ends, and what a read takes
LEMMA FailShape ==
  ASSUME PollShape, Fail
  PROVE  PollShape'
<1>1. buf' = <<>> /\ pc' = "sync1" /\ status' = status /\ fails' \in 0 .. FailLimit - 1
  BY Constants DEF Fail, PollShape
<1>2. QED
  BY <1>1, Constants DEF PollShape

LEMMA BodyRead ==
  ASSUME LineShape, PollShape, ReadBody
  PROVE  LET n   == Least(Len(rx), BodyLen - Len(buf))
             got == buf \o SubSeq(rx, 1, n)
         IN  /\ n \in 1 .. Len(rx)
             /\ got \in Seq(Byte) /\ Len(got) = Len(buf) + n
             /\ Len(got) <= BodyLen
             /\ got[Len(got)] = rx[n]
             /\ \A i \in 1 .. Len(got) : \/ i \in DOMAIN buf /\ got[i] = buf[i]
                                         \/ \E j \in DOMAIN rx : got[i] = rx[j]
             /\ rx' \in Seq(Byte) /\ Len(rx') = Len(rx) - n
             /\ \A i \in DOMAIN rx' : n + i \in DOMAIN rx /\ rx'[i] = rx[n + i]
<1> DEFINE n == Least(Len(rx), BodyLen - Len(buf))
           part == SubSeq(rx, 1, n)
           got == buf \o part
<1>1. rx \in Seq(Byte) /\ buf \in Seq(Byte) /\ Len(buf) < BodyLen /\ rx # <<>>
      /\ rx' = SubSeq(rx, n + 1, Len(rx))
  BY DEF LineShape, PollShape, ReadBody, Readable
<1>2. Len(rx) \in Nat /\ Len(rx) >= 1 /\ Len(buf) \in Nat
  BY <1>1
<1>3. n \in 1 .. Len(rx) /\ Len(buf) + n <= BodyLen
  BY <1>1, <1>2, Constants DEF Least
<1> HIDE DEF n
<1>4. part \in Seq(Byte) /\ Len(part) = n /\ \A i \in 1 .. n : part[i] = rx[i]
  BY <1>1, <1>3
<1> HIDE DEF part
<1>5. /\ got \in Seq(Byte) /\ Len(got) = Len(buf) + n
      /\ \A i \in 1 .. Len(buf) : got[i] = buf[i]
      /\ \A i \in 1 .. n : got[Len(buf) + i] = part[i]
  <2>1. /\ got \in Seq(Byte) /\ Len(got) = Len(buf) + Len(part)
        /\ \A i \in 1 .. Len(buf) : got[i] = buf[i]
        /\ \A i \in 1 .. Len(part) : got[Len(buf) + i] = part[i]
    BY <1>1, <1>4, TwoInARow
  <2>2. QED
    BY <1>4, <2>1
<1> HIDE DEF got
<1>6. got[Len(got)] = rx[n]
  BY <1>3, <1>4, <1>5
<1>7. \A i \in 1 .. Len(got) : \/ i \in DOMAIN buf /\ got[i] = buf[i]
                               \/ \E j \in DOMAIN rx : got[i] = rx[j]
  <2> SUFFICES ASSUME NEW i \in 1 .. Len(got), i \notin DOMAIN buf
               PROVE  \E j \in DOMAIN rx : got[i] = rx[j]
    BY <1>1, <1>5
  <2>1. i - Len(buf) \in 1 .. n
    BY <1>1, <1>2, <1>3, <1>5
  <2>2. got[Len(buf) + (i - Len(buf))] = rx[i - Len(buf)]
    BY <1>4, <1>5, <2>1
  <2>3. QED
    BY <1>1, <1>2, <1>3, <2>1, <2>2
<1>8. /\ rx' \in Seq(Byte) /\ Len(rx') = Len(rx) - n
      /\ \A i \in DOMAIN rx' : n + i \in DOMAIN rx /\ rx'[i] = rx[n + i]
  BY <1>1, <1>2, <1>3
<1>9. QED
  BY <1>3, <1>5, <1>6, <1>7, <1>8 DEF n, part, got

\* what the line does to the byte the torpedo sends next
LEMMA Advanced ==
  ASSUME LineShape, ~Silent, Advance
  PROVE  /\ next \in Byte
         /\ next' \in [pkt : 1 .. MaxPackets + 1, pos : 1 .. PacketLen]
         /\ next'.pkt \in Int /\ next'.pos \in Int
         /\ \/ next'.pkt = next.pkt /\ next'.pos = next.pos + 1
            \/ next'.pkt = next.pkt + 1 /\ next'.pos = 1
<1>1. /\ next.pkt \in 1 .. MaxPackets /\ next.pos \in 1 .. PacketLen
      /\ next = [pkt |-> next.pkt, pos |-> next.pos]
  BY Constants DEF LineShape, Silent
<1>2. next \in Byte
  BY <1>1 DEF Byte, Packets
<1>3. CASE next.pos < PacketLen
  <2>1. next' = [pkt |-> next.pkt, pos |-> next.pos + 1]
    BY <1>1, <1>3 DEF Advance
  <2>2. QED
    BY <1>1, <1>2, <1>3, <2>1, Constants
<1>4. CASE ~(next.pos < PacketLen)
  <2>1. next' = [pkt |-> next.pkt + 1, pos |-> 1]
    BY <1>4 DEF Advance
  <2>2. QED
    BY <1>1, <1>2, <2>1, Constants
<1>5. QED
  BY <1>3, <1>4

(***************************************************************************)
(* Every step keeps the shape.                                             *)
(***************************************************************************)
LEMMA StepsKeepShape ==
  ASSUME Shape, [Next]_vars
  PROVE  Shape'
<1>0. Flags /\ LineShape /\ PollShape
  BY DEF Shape
<1>1. Flags'
  BY Zenon, <1>0
     DEF Flags, Next, vars, line, t2, ByteArrives, ByteLost, PortFails, Signal, T2,
         ReadSync1, ReadSync2, ReadSync, ReadBody, ReadBodyError, Leave, Fail, Publish,
         Verdict
<1>2. LineShape'
  <2> USE DEF LineShape
  <2>1. CASE ByteArrives \/ ByteLost
    <3>1. ~Silent /\ Advance
      BY <2>1 DEF ByteArrives, ByteLost
    <3>2. next \in Byte
      BY <1>0, <3>1, Advanced
    <3>3. next' \in [pkt : 1 .. MaxPackets + 1, pos : 1 .. PacketLen]
      BY <1>0, <3>1, Advanced
    <3>4. losses' \in 0 .. MaxLoss
      BY <1>0, <2>1, Constants DEF ByteArrives, ByteLost
    <3>5. rx' \in Seq(Byte) /\ Len(rx') <= QueueCap
      BY <1>0, <2>1, <3>2, Constants DEF ByteArrives, ByteLost
    <3>6. QED
      BY <3>3, <3>4, <3>5
  <2>2. CASE ReadSync1 \/ ReadSync2
    <3>1. UNCHANGED <<next, losses>> /\ (rx' = rx \/ (rx # <<>> /\ rx' = Tail(rx)))
      BY <2>2 DEF ReadSync1, ReadSync2, ReadSync, Readable
    <3>2. CASE rx' = rx
      BY <1>0, <3>1, <3>2
    <3>3. CASE rx # <<>> /\ rx' = Tail(rx)
      <4>1. rx' \in Seq(Byte) /\ Len(rx') <= QueueCap
        BY <1>0, <3>3, Constants
      <4>2. QED
        BY <1>0, <3>1, <4>1
    <3>4. QED
      BY <3>1, <3>2, <3>3
  <2>3. CASE ReadBody
    <3>1. UNCHANGED <<next, losses>>
      BY <2>3 DEF ReadBody
    <3>2. rx' \in Seq(Byte) /\ Len(rx') <= QueueCap
      BY <1>0, <2>3, BodyRead, Constants
    <3>3. QED
      BY <1>0, <3>1, <3>2
  <2>4. CASE PortFails \/ Signal \/ ReadBodyError \/ Leave \/ UNCHANGED vars
    BY <1>0, <2>4 DEF PortFails, Signal, ReadBodyError, Leave, vars, line
  <2>5. QED
    BY <2>1, <2>2, <2>3, <2>4 DEF Next, T2
<1>3. PollShape'
  <2>1. CASE UNCHANGED <<pc, buf, fails, status>>
    BY <1>0, <2>1 DEF PollShape
  <2>2. CASE Fail
    BY <1>0, <2>2, FailShape
  <2>3. CASE ReadSync1 \/ ReadSync2
    BY <1>0, <2>2, <2>3 DEF ReadSync1, ReadSync2, ReadSync, PollShape
  <2>4. CASE ReadBody
    <3> DEFINE n == Least(Len(rx), BodyLen - Len(buf))
               got == buf \o SubSeq(rx, 1, n)
    <3>1. got \in Seq(Byte) /\ Len(got) <= BodyLen
      BY <1>0, <2>4, BodyRead
    <3>2. CASE Len(got) = BodyLen /\ Publish(got)
      <4>1. pc' = "sync1" /\ buf' = <<>> /\ fails' = 0 /\ status' = got
        BY <3>2 DEF Publish
      <4>2. QED
        BY <3>1, <3>2, <4>1, Constants DEF PollShape
    <3>3. CASE Len(got) # BodyLen /\ buf' = got /\ UNCHANGED <<pc, fails, status>>
      BY <1>0, <3>1, <3>3, Constants DEF PollShape
    <3>4. QED
      BY <2>2, <2>4, <3>2, <3>3 DEF ReadBody, Verdict
  <2>5. CASE Leave
    BY <1>0, <2>5 DEF Leave, PollShape
  <2>6. QED
    BY <2>1, <2>2, <2>3, <2>4, <2>5
       DEF Next, T2, ByteArrives, ByteLost, PortFails, Signal, ReadBodyError, vars, t2
<1>4. QED
  BY <1>1, <1>2, <1>3 DEF Shape

LEMMA InitShape ==
  ASSUME Init
  PROVE  Shape
<1>1. Flags
  BY Zenon DEF Init, Flags
<1>2. LineShape
  BY Constants DEF Init, LineShape
<1>3. PollShape
  BY Constants DEF Init, PollShape
<1>4. QED
  BY <1>1, <1>2, <1>3 DEF Shape

(***************************************************************************)
(* Type correctness, for all constants.                                    *)
(***************************************************************************)
THEOREM TypeCorrect == Spec => []TypeOK
<1>1. Init => Shape
  BY InitShape
<1>2. Shape /\ [Next]_vars => Shape'
  BY StepsKeepShape
<1>3. Shape => TypeOK
  BY Zenon DEF Shape, Flags, LineShape, PollShape, TypeOK
<1>4. QED
  BY <1>1, <1>2, <1>3, PTL DEF Spec

(***************************************************************************)
(* The line keeps the order of the bytes, so what waits in the queue after *)
(* the last byte of a packet is of a later one; and with a status out, no  *)
(* byte of its packet, or of one before, is in the station any more.       *)
(***************************************************************************)
Earlier(a, b) == a.pkt < b.pkt \/ (a.pkt = b.pkt /\ a.pos < b.pos)

LineOrder ==
  /\ \A i, j \in DOMAIN rx : i < j => Earlier(rx[i], rx[j])
  /\ \A i \in DOMAIN rx : Earlier(rx[i], next)

After(bytes, k) == \A i \in DOMAIN bytes : bytes[i].pkt > k

Consumed ==
  status # <<>> =>
    After(rx, status[1].pkt) /\ After(buf, status[1].pkt) /\ next.pkt > status[1].pkt

LEMMA ByteNumbers ==
  ASSUME NEW b \in Byte
  PROVE  b.pkt \in Int /\ b.pos \in Int /\ b.pkt \in Packets /\ b.pos <= PacketLen
BY Constants DEF Byte, Packets

LEMMA StepsKeepLineOrder ==
  ASSUME Shape, LineOrder, [Next]_vars
  PROVE  LineOrder'
<1> USE DEF LineOrder
<1>0. LineShape /\ PollShape
  BY DEF Shape
<1>1. rx \in Seq(Byte) /\ \A i \in DOMAIN rx : rx[i].pkt \in Int /\ rx[i].pos \in Int
  BY <1>0, ByteNumbers DEF LineShape
<1>2. CASE ByteArrives \/ ByteLost
  <2>1. /\ next.pkt \in Int /\ next.pos \in Int /\ next'.pkt \in Int /\ next'.pos \in Int
        /\ Earlier(next, next')
    BY <1>0, <1>2, Advanced, Constants DEF ByteArrives, ByteLost, LineShape, Earlier
  <2>2. \A i \in DOMAIN rx : Earlier(rx[i], next')
    BY <1>1, <2>1 DEF Earlier
  <2>3. CASE rx' = rx
    BY <2>2, <2>3
  <2>4. CASE rx' = Append(rx, next)
    <3>1. /\ DOMAIN rx = 1 .. Len(rx) /\ DOMAIN rx' = 1 .. Len(rx) + 1 /\ Len(rx) \in Nat
          /\ \A i \in DOMAIN rx : rx'[i] = rx[i]
          /\ rx'[Len(rx) + 1] = next
      BY <1>0, <1>1, <2>4, Constants
    <3>2. \A i \in DOMAIN rx' : i \in DOMAIN rx \/ i = Len(rx) + 1
      BY <3>1
    <3>3. \A i, j \in DOMAIN rx' : i < j => Earlier(rx'[i], rx'[j])
      BY <3>1, <3>2
    <3>4. QED
      BY <2>1, <2>2, <3>1, <3>2, <3>3
  <2>5. QED
    BY <1>2, <2>3, <2>4 DEF ByteArrives, ByteLost
<1>3. CASE ReadSync1 \/ ReadSync2
  <2>1. next' = next /\ (rx' = rx \/ (rx # <<>> /\ rx' = Tail(rx)))
    BY <1>3 DEF ReadSync1, ReadSync2, ReadSync, Readable
  <2>2. CASE rx # <<>> /\ rx' = Tail(rx)
    <3>1. \A i \in DOMAIN rx' : i + 1 \in DOMAIN rx /\ rx'[i] = rx[i + 1]
      BY <1>1, <2>2
    <3>2. \A i, j \in DOMAIN rx' : i < j => i + 1 < j + 1
      BY <1>1, <2>2
    <3>3. QED
      BY <2>1, <3>1, <3>2
  <2>3. QED
    BY <2>1, <2>2
<1>4. CASE ReadBody
  <2> DEFINE n == Least(Len(rx), BodyLen - Len(buf))
  <2>1. n \in Int /\ rx' \in Seq(Byte)
        /\ \A i \in DOMAIN rx' : n + i \in DOMAIN rx /\ rx'[i] = rx[n + i]
    BY <1>0, <1>1, <1>4, BodyRead
  <2> HIDE DEF n
  <2>2. \A i, j \in DOMAIN rx' : i < j => n + i < n + j
    BY <2>1
  <2>3. next' = next
    BY <1>4 DEF ReadBody
  <2>4. QED
    BY <2>1, <2>2, <2>3
<1>5. CASE PortFails \/ Signal \/ ReadBodyError \/ Leave \/ UNCHANGED vars
  BY <1>5 DEF PortFails, Signal, ReadBodyError, Leave, vars, line
<1>6. QED
  BY <1>2, <1>3, <1>4, <1>5 DEF Next, T2

(***************************************************************************)
(* A publication: what it publishes, after what, and before what.          *)
(***************************************************************************)
LEMMA Publication ==
  ASSUME Shape, LineOrder, Consumed, [Next]_vars, status' # status
  PROVE  \E k \in Packets :
           /\ status' = Body(k) /\ status'[1].pkt = k
           /\ status # <<>> => k > status[1].pkt
           /\ buf' = <<>> /\ After(rx', k) /\ next'.pkt > k
<1>0. LineShape /\ PollShape
  BY DEF Shape
<1> DEFINE n == Least(Len(rx), BodyLen - Len(buf))
           got == buf \o SubSeq(rx, 1, n)
<1>1. ReadBody /\ Len(got) = BodyLen /\ CrcOk(got) /\ Publish(got)
  BY DEF Next, vars, t2, ByteArrives, ByteLost, PortFails, Signal, T2, ReadSync1,
         ReadSync2, ReadSync, ReadBody, ReadBodyError, Leave, Fail, Verdict
<1>2. /\ n \in 1 .. Len(rx) /\ got[BodyLen] = rx[n]
      /\ \A i \in 1 .. BodyLen : \/ i \in DOMAIN buf /\ got[i] = buf[i]
                                 \/ \E j \in DOMAIN rx : got[i] = rx[j]
      /\ \A i \in DOMAIN rx' : n + i \in DOMAIN rx /\ rx'[i] = rx[n + i]
      /\ rx' \in Seq(Byte)
  BY <1>0, <1>1, BodyRead
<1>3. status' = got /\ buf' = <<>> /\ next' = next
  BY <1>1 DEF Publish, ReadBody
<1> HIDE DEF n, got
<1>4. PICK k \in Packets : got = Body(k)
  BY <1>1 DEF CrcOk
<1>5. got[1].pkt = k /\ got[BodyLen].pkt = k /\ got[BodyLen].pos = PacketLen /\ k \in Int
  BY <1>4, Constants DEF Body, Packets
<1>6. status # <<>> => k > status[1].pkt
  <2>1. status # <<>> => \A i \in 1 .. BodyLen : got[i].pkt > status[1].pkt
    BY <1>2 DEF Consumed, After
  <2>2. QED
    BY <1>5, <2>1, Constants
<1>7. \A i \in DOMAIN rx : rx[i].pkt \in Int /\ rx[i].pos \in Int /\ rx[i].pos <= PacketLen
  BY <1>0, ByteNumbers DEF LineShape
<1>8. n \in DOMAIN rx
  BY <1>0, <1>2 DEF LineShape
<1>9. After(rx', k)
  <2> SUFFICES ASSUME NEW i \in DOMAIN rx'
               PROVE  rx'[i].pkt > k
    BY DEF After
  <2>1. n + i \in DOMAIN rx /\ rx'[i] = rx[n + i] /\ n < n + i
    BY <1>2
  <2>2. Earlier(rx[n], rx[n + i])
    BY <1>8, <2>1 DEF LineOrder
  <2>3. QED
    BY <1>2, <1>5, <1>7, <2>1, <2>2, Constants DEF Earlier
<1>10. next'.pkt > k
  <2>1. Earlier(rx[n], next) /\ next.pkt \in Int /\ next.pos \in Int /\ next.pos <= PacketLen
    BY <1>0, <1>8, Constants DEF LineOrder, LineShape
  <2>2. QED
    BY <1>2, <1>3, <1>5, <2>1, Constants DEF Earlier
<1>11. QED
  BY <1>3, <1>4, <1>5, <1>6, <1>9, <1>10

LEMMA StepsKeepConsumed ==
  ASSUME Shape, LineOrder, Consumed, [Next]_vars
  PROVE  Consumed'
<1>0. LineShape /\ PollShape
  BY DEF Shape
<1>1. CASE status' # status
  BY <1>1, Publication DEF Consumed, After
<1>2. CASE status' = status /\ status = <<>>
  BY <1>2 DEF Consumed
<1>3. CASE status' = status /\ status # <<>>
  <2> DEFINE k == status[1].pkt
  <2>1. /\ k \in Int /\ After(rx, k) /\ After(buf, k) /\ next.pkt > k /\ next.pkt \in Int
        /\ rx \in Seq(Byte) /\ buf \in Seq(Byte)
    BY <1>0, <1>3, ByteNumbers, Constants DEF Consumed, PollShape, LineShape
  <2> HIDE DEF k
  <2>2. next'.pkt > k /\ After(rx', k)
    <3>1. CASE ByteArrives \/ ByteLost
      <4>1. next'.pkt > k
        BY <1>0, <2>1, <3>1, Advanced DEF ByteArrives, ByteLost
      <4>2. rx' = rx \/ rx' = Append(rx, next)
        BY <3>1 DEF ByteArrives, ByteLost
      <4>3. rx' = Append(rx, next) => After(rx', k)
        <5> SUFFICES ASSUME rx' = Append(rx, next), NEW i \in DOMAIN rx'
                     PROVE  rx'[i].pkt > k
          BY DEF After
        <5>1. next \in Byte
          BY <1>0, <3>1, Advanced DEF ByteArrives, ByteLost
        <5>2. (i \in DOMAIN rx /\ rx'[i] = rx[i]) \/ rx'[i] = next
          BY <2>1, <5>1
        <5>3. QED
          BY <2>1, <5>2 DEF After
      <4>4. QED
        BY <2>1, <4>1, <4>2, <4>3
    <3>2. CASE ReadSync1 \/ ReadSync2
      <4>1. next' = next /\ (rx' = rx \/ (rx # <<>> /\ rx' = Tail(rx)))
        BY <3>2 DEF ReadSync1, ReadSync2, ReadSync, Readable
      <4>2. rx # <<>> /\ rx' = Tail(rx) =>
              \A i \in DOMAIN rx' : i + 1 \in DOMAIN rx /\ rx'[i] = rx[i + 1]
        BY <2>1
      <4>3. QED
        BY <2>1, <4>1, <4>2 DEF After
    <3>3. CASE ReadBody
      BY <1>0, <2>1, <3>3, BodyRead DEF ReadBody, After
    <3>4. CASE UNCHANGED <<next, rx>>
      BY <2>1, <3>4
    <3>5. QED
      BY <3>1, <3>2, <3>3, <3>4
         DEF Next, T2, PortFails, Signal, ReadBodyError, Leave, vars, line
  <2>3. After(buf', k)
    <3> DEFINE n == Least(Len(rx), BodyLen - Len(buf))
               got == buf \o SubSeq(rx, 1, n)
    <3>1. CASE ReadBody /\ buf' = got
      <4>1. \A i \in 1 .. Len(got) : \/ i \in DOMAIN buf /\ got[i] = buf[i]
                                     \/ \E j \in DOMAIN rx : got[i] = rx[j]
        BY <1>0, <3>1, BodyRead
      <4>2. got \in Seq(Byte)
        BY <1>0, <3>1, BodyRead
      <4> HIDE DEF got
      <4>3. QED
        BY <2>1, <3>1, <4>1, <4>2 DEF After
    <3>2. CASE buf' \in {buf, <<>>}
      BY <2>1, <3>2 DEF After
    <3>3. buf' \in {buf, <<>>} \/ (ReadBody /\ buf' = got)
      BY DEF Next, vars, t2, ByteArrives, ByteLost, PortFails, Signal, T2, ReadSync1,
             ReadSync2, ReadSync, ReadBody, ReadBodyError, Leave, Fail, Verdict, Publish
    <3>4. QED
      BY <3>1, <3>2, <3>3
  <2>4. QED
    BY <1>3, <2>2, <2>3 DEF Consumed, k
<1>4. QED
  BY <1>1, <1>2, <1>3

(***************************************************************************)
(* The statuses are of single packets, each at most once and in the order  *)
(* sent, for any packets, losses and queue.                                *)
(***************************************************************************)
THEOREM StatusesOrdered == Spec => StatusesInOrder
<1> DEFINE IInv == Shape /\ LineOrder /\ Consumed
           Good == /\ status' \in {Body(k) : k \in Packets}
                   /\ status # <<>> => status'[1].pkt > status[1].pkt
<1>1. Init => IInv
  <2> SUFFICES ASSUME Init
               PROVE  IInv
    OBVIOUS
  <2>1. rx = <<>> /\ status = <<>>
    BY DEF Init
  <2>2. LineOrder /\ Consumed
    BY <2>1 DEF LineOrder, Consumed
  <2>3. QED
    BY <2>2, InitShape
<1>2. IInv /\ [Next]_vars => IInv'
  BY StepsKeepShape, StepsKeepLineOrder, StepsKeepConsumed
<1>3. IInv /\ [Next]_vars => [Good]_status
  <2> SUFFICES ASSUME IInv, [Next]_vars, status' # status
               PROVE  Good
    OBVIOUS
  <2>1. PICK k \in Packets : /\ status' = Body(k) /\ status'[1].pkt = k
                             /\ status # <<>> => k > status[1].pkt
    BY Publication
  <2>2. QED
    BY <2>1
<1>4. QED
  BY <1>1, <1>2, <1>3, PTL DEF Spec, StatusesInOrder

(***************************************************************************)
(* While the line has lost nothing, the place in the torpedo's stream of   *)
(* every byte in the station follows from how many are behind it.          *)
(***************************************************************************)
Place(b) == b.pkt * PacketLen + b.pos

EmptyHanded == pc # "body" => buf = <<>>

Gapless ==
  losses = 0 =>
    /\ \A i \in DOMAIN rx : Place(rx[i]) = Place(next) - (Len(rx) + 1 - i)
    /\ \A i \in DOMAIN buf : Place(buf[i]) = Place(next) - (Len(rx) + Len(buf) + 1 - i)

LEMMA Places ==
  /\ \A b \in Byte : Place(b) \in Int
  /\ LineShape => Place(next) \in Int
  /\ LineShape /\ ~Silent /\ Advance => Place(next') = Place(next) + 1
<1>1. \A b \in Byte : Place(b) \in Int
  BY ByteNumbers, Constants DEF Place
<1>2. LineShape => Place(next) \in Int
  BY Constants DEF Place, LineShape
<1>3. ASSUME LineShape, ~Silent, Advance
      PROVE  Place(next') = Place(next) + 1
  <2>1. next.pkt \in Int /\ next.pos \in Int /\ next.pos <= PacketLen
    BY <1>3, Constants DEF LineShape
  <2>2. CASE next.pos < PacketLen
    <3>1. next'.pkt = next.pkt /\ next'.pos = next.pos + 1
      BY <1>3, <2>2, Constants DEF Advance, LineShape
    <3>2. QED
      BY <2>1, <3>1, Constants DEF Place
  <2>3. CASE ~(next.pos < PacketLen)
    <3>1. next'.pkt = next.pkt + 1 /\ next'.pos = 1
      BY <1>3, <2>3 DEF Advance
    <3>2. QED
      BY <2>1, <2>3, <3>1, Constants DEF Place
  <2>4. QED
    BY <2>2, <2>3
<1>4. QED
  BY <1>1, <1>2, <1>3

LEMMA StepsKeepGapless ==
  ASSUME Shape, EmptyHanded, Gapless, [Next]_vars
  PROVE  Gapless'
<1>0. LineShape /\ PollShape
  BY DEF Shape
<1>1. CASE losses' # 0
  BY <1>1 DEF Gapless
<1>2. CASE losses' = 0
  <2>1. losses = 0
    BY <1>0, <1>2 DEF Next, vars, line, ByteArrives, ByteLost, PortFails, Signal, T2,
       ReadSync1, ReadSync2, ReadSync, ReadBody, ReadBodyError, Leave, LineShape
  <2>2. /\ rx \in Seq(Byte) /\ buf \in Seq(Byte) /\ Place(next) \in Int
        /\ \A i \in DOMAIN rx : /\ rx[i] \in Byte
                               /\ Place(rx[i]) = Place(next) - (Len(rx) + 1 - i)
        /\ \A i \in DOMAIN buf :
             Place(buf[i]) = Place(next) - (Len(rx) + Len(buf) + 1 - i)
    BY <1>0, <2>1, Places DEF Gapless, LineShape, PollShape
  <2>3. CASE ByteArrives
    <3>1. rx' = Append(rx, next) /\ buf' = buf /\ next \in Byte
      BY <1>0, <2>3, Advanced DEF ByteArrives, t2
    <3>2. Place(next') = Place(next) + 1
      BY <1>0, <2>3, Places DEF ByteArrives
    <3>3. /\ Len(rx') = Len(rx) + 1 /\ DOMAIN rx' = 1 .. Len(rx) + 1 /\ Len(rx) \in Nat
          /\ DOMAIN rx = 1 .. Len(rx) /\ \A i \in DOMAIN rx : rx'[i] = rx[i]
          /\ rx'[Len(rx) + 1] = next
      BY <2>2, <3>1
    <3>4. \A i \in DOMAIN rx' : Place(rx'[i]) = Place(next') - (Len(rx') + 1 - i)
      <4> SUFFICES ASSUME NEW i \in DOMAIN rx'
                   PROVE  Place(rx'[i]) = Place(next') - (Len(rx') + 1 - i)
        OBVIOUS
      <4>1. CASE i \in DOMAIN rx
        BY <2>2, <3>2, <3>3, <4>1
      <4>2. CASE i = Len(rx) + 1
        BY <2>2, <3>2, <3>3, <4>2
      <4>3. QED
        BY <3>3, <4>1, <4>2
    <3>5. \A i \in DOMAIN buf' :
            Place(buf'[i]) = Place(next') - (Len(rx') + Len(buf') + 1 - i)
      <4> SUFFICES ASSUME NEW i \in DOMAIN buf
                   PROVE  Place(buf[i]) = Place(next') - (Len(rx') + Len(buf) + 1 - i)
        BY <3>1
      <4>1. i \in Int /\ Len(buf) \in Int
        BY <2>2
      <4>2. Place(buf[i]) = Place(next) - (Len(rx) + Len(buf) + 1 - i)
        BY <2>2
      <4>3. QED
        BY <2>2, <3>2, <3>3, <4>1, <4>2
    <3>6. QED
      BY <3>4, <3>5 DEF Gapless
  <2>4. CASE ByteLost
    BY <1>0, <1>2, <2>4 DEF ByteLost, LineShape
  <2>5. CASE ReadSync1 \/ ReadSync2
    <3>1. next' = next /\ buf = <<>> /\ buf' = <<>>
          /\ (rx' = rx \/ (rx # <<>> /\ rx' = Tail(rx)))
      BY <2>5 DEF ReadSync1, ReadSync2, ReadSync, Readable, Fail, EmptyHanded
    <3>2. CASE rx' = rx
      BY <2>2, <3>1, <3>2 DEF Gapless
    <3>3. CASE rx # <<>> /\ rx' = Tail(rx)
      <4>1. /\ Len(rx') = Len(rx) - 1 /\ Len(rx) \in Nat
            /\ \A i \in DOMAIN rx' : i \in Int /\ i + 1 \in DOMAIN rx /\ rx'[i] = rx[i + 1]
        BY <2>2, <3>3
      <4>2. \A i \in DOMAIN rx' : Place(rx'[i]) = Place(next) - (Len(rx') + 1 - i)
        BY <2>2, <4>1
      <4>3. QED
        BY <3>1, <4>2 DEF Gapless
    <3>4. QED
      BY <3>1, <3>2, <3>3
  <2>6. CASE ReadBody
    <3> DEFINE n == Least(Len(rx), BodyLen - Len(buf))
               got == buf \o SubSeq(rx, 1, n)
    <3>1. /\ n \in 1 .. Len(rx) /\ got \in Seq(Byte) /\ Len(got) = Len(buf) + n
          /\ Len(rx') = Len(rx) - n
          /\ \A i \in DOMAIN rx' : n + i \in DOMAIN rx /\ rx'[i] = rx[n + i]
      BY <1>0, <2>6, BodyRead
    <3>2. /\ \A i \in 1 .. Len(buf) : got[i] = buf[i]
          /\ \A i \in 1 .. n : got[Len(buf) + i] = rx[i]
      <4>1. LET part == SubSeq(rx, 1, n)
            IN  part \in Seq(Byte) /\ Len(part) = n /\ \A i \in 1 .. n : part[i] = rx[i]
        BY <2>2, <3>1
      <4> HIDE DEF n
      <4>2. QED
        BY <2>2, <4>1, TwoInARow
    <3>3. next' = next /\ buf' \in {<<>>, got}
      BY <2>6 DEF ReadBody, Verdict, Fail, Publish
    <3> HIDE DEF n, got
    <3>4. \A i \in DOMAIN rx' : Place(rx'[i]) = Place(next) - (Len(rx') + 1 - i)
      BY <2>2, <3>1
    <3>5. \A i \in DOMAIN got :
            Place(got[i]) = Place(next) - (Len(rx') + Len(got) + 1 - i)
      <4> SUFFICES ASSUME NEW i \in DOMAIN got
                   PROVE  Place(got[i]) = Place(next) - (Len(rx') + Len(got) + 1 - i)
        OBVIOUS
      <4>1. i \in Int /\ i >= 1 /\ i <= Len(buf) + n /\ Len(buf) \in Nat /\ Len(rx) \in Nat
        BY <2>2, <3>1
      <4>2. CASE i <= Len(buf)
        <5>1. i \in DOMAIN buf /\ got[i] = buf[i]
          BY <2>2, <3>2, <4>1, <4>2
        <5>2. Place(got[i]) = Place(next) - (Len(rx) + Len(buf) + 1 - i)
          BY <2>2, <5>1
        <5>3. QED
          BY <2>2, <3>1, <4>1, <5>2
      <4>3. CASE i > Len(buf)
        <5>1. i - Len(buf) \in 1 .. n /\ i - Len(buf) \in DOMAIN rx
          BY <2>2, <3>1, <4>1, <4>3
        <5>2. got[Len(buf) + (i - Len(buf))] = rx[i - Len(buf)]
          BY <3>2, <5>1
        <5>3. Len(buf) + (i - Len(buf)) = i
          BY <4>1
        <5>4. Place(rx[i - Len(buf)]) = Place(next) - (Len(rx) + 1 - (i - Len(buf)))
          BY <2>2, <5>1
        <5>5. QED
          BY <2>2, <3>1, <4>1, <5>2, <5>3, <5>4
      <4>4. QED
        BY <4>1, <4>2, <4>3
    <3>6. QED
      BY <3>3, <3>4, <3>5 DEF Gapless
  <2>7. CASE UNCHANGED <<next, rx>> /\ buf' \in {buf, <<>>}
    BY <2>2, <2>7 DEF Gapless
  <2>8. QED
    BY <2>3, <2>4, <2>5, <2>6, <2>7
       DEF Next, T2, vars, line, t2, PortFails, Signal, ReadBodyError, Leave, Fail
<1>3. QED
  BY <1>1, <1>2

LEMMA StepsKeepEmptyHanded ==
  ASSUME EmptyHanded, [Next]_vars
  PROVE  EmptyHanded'
BY DEF EmptyHanded, Next, vars, t2, ByteArrives, ByteLost, PortFails, Signal, T2, ReadSync1,
       ReadSync2, ReadSync, ReadBody, ReadBodyError, Leave, Fail, Verdict, Publish

(***************************************************************************)
(* T2 waits for a body whose rest will never come only if it is out of     *)
(* step with the torpedo: a byte was lost, or it took two bytes of a body  *)
(* for the sync bytes.  For any packets, losses and queue.                 *)
(***************************************************************************)
THEOREM HeldOutOfStep == Spec => [](Silent /\ AwaitsBody => OutOfStep)
<1> DEFINE IInv == Shape /\ EmptyHanded /\ Gapless
<1>1. Init => IInv
  <2> SUFFICES ASSUME Init
               PROVE  IInv
    OBVIOUS
  <2>1. rx = <<>> /\ buf = <<>>
    BY DEF Init
  <2>2. EmptyHanded /\ Gapless
    BY <2>1 DEF EmptyHanded, Gapless
  <2>3. QED
    BY <2>2, InitShape
<1>2. IInv /\ [Next]_vars => IInv'
  BY StepsKeepShape, StepsKeepEmptyHanded, StepsKeepGapless
<1>3. IInv => (Silent /\ AwaitsBody => OutOfStep)
  <2> SUFFICES ASSUME IInv, Silent, AwaitsBody, ~OutOfStep
               PROVE  FALSE
    OBVIOUS
  <2>1. /\ losses = 0 /\ rx = <<>> /\ buf # <<>> /\ buf[1].pos = 3
        /\ buf \in Seq(Byte) /\ Len(buf) < BodyLen
    BY Constants DEF OutOfStep, AwaitsBody, Shape, LineShape, PollShape
  <2>2. /\ next.pkt = MaxPackets + 1 /\ next.pos \in Int /\ next.pos >= 1
    BY Constants DEF Shape, LineShape, Silent
  <2>3. buf[1] \in Byte /\ 1 \in DOMAIN buf /\ Len(buf) \in Nat /\ Len(buf) >= 1
    BY <2>1
  <2>4. buf[1].pkt \in Int /\ buf[1].pkt <= MaxPackets
    BY <2>3, ByteNumbers, Constants DEF Packets
  <2>5. Place(buf[1]) = Place(next) - Len(buf)
    <3>1. Place(buf[1]) = Place(next) - (Len(rx) + Len(buf) + 1 - 1)
      BY <2>1, <2>3 DEF Gapless
    <3>2. Len(rx) = 0
      BY <2>1
    <3>3. QED
      BY <2>3, <3>1, <3>2
  <2>6. buf[1].pkt * PacketLen + 3 = (MaxPackets + 1) * PacketLen + next.pos - Len(buf)
    <3>1. /\ Place(buf[1]) = buf[1].pkt * PacketLen + 3
          /\ Place(next) = (MaxPackets + 1) * PacketLen + next.pos
      BY <2>1, <2>2 DEF Place
    <3>2. buf[1].pkt * PacketLen \in Int /\ (MaxPackets + 1) * PacketLen \in Int
      BY <2>4, Constants
    <3>3. QED
      BY <2>2, <2>3, <2>5, <3>1, <3>2
  <2>7. (MaxPackets + 1) * PacketLen >= buf[1].pkt * PacketLen + PacketLen
    BY <2>4, Constants
  <2>8. buf[1].pkt * PacketLen \in Int /\ (MaxPackets + 1) * PacketLen \in Int
    BY <2>4, Constants
  <2>9. QED
    BY <2>1, <2>2, <2>3, <2>6, <2>7, <2>8, Constants
<1>4. QED
  BY <1>1, <1>2, <1>3, PTL DEF Spec
=============================================================================
