------------------------------- MODULE Uplink -------------------------------
(***************************************************************************)
(* The uplink: the torpedo's status packets, the serial line, and T2       *)
(* polling UartNode::receiveUplinkStatus (src/UartNode.cpp, src/main.cpp). *)
(*                                                                         *)
(* A byte is a record [pkt, pos]: the pos-th byte of packet pkt.  What it  *)
(* looks like to the receiver is its Value.  The line may lose bytes; the  *)
(* checksum is ideal: it accepts the body of a packet and nothing else.    *)
(* The port is non-blocking: a read of an empty queue returns nothing.     *)
(***************************************************************************)
EXTENDS Integers, Sequences

CONSTANTS
  BodyLen,      \* bytes after the two sync bytes (20)
  LooksSync1,   \* positions of the body whose byte equals SYNC1, 0xAA
  LooksSync2,   \* positions of the body whose byte equals SYNC2, 0x55
  MaxPackets,   \* bound: packets the torpedo sends before it falls silent
  MaxLoss,      \* bound: bytes the line loses
  QueueCap,     \* bound: bytes waiting in the port's input queue
  FailLimit,    \* failed polls that make T2 report a lost link (100)
  FailResume    \* where the count goes on from after a report (80)

Packets == 1 .. MaxPackets
PacketLen == BodyLen + 2
Byte == [pkt : Packets, pos : 1 .. PacketLen]

ASSUME UplinkAssumption ==
  /\ BodyLen \in Nat \ {0} /\ MaxPackets \in Nat /\ MaxLoss \in Nat
  /\ QueueCap \in Nat \ {0}
  /\ LooksSync1 \subseteq 3 .. PacketLen /\ LooksSync2 \subseteq 3 .. PacketLen
  /\ FailLimit \in Nat /\ FailResume \in Nat /\ FailResume < FailLimit

VARIABLES
  running,  \* system_running
  next,     \* the byte the torpedo sends next
  losses,   \* bytes lost so far
  rx,       \* the port's input queue
  broken,   \* the port could not be opened, or reads report an error
  pc,       \* T2: "sync1", "sync2", "body" inside a poll, "done" after it left
  buf,      \* rx_buf[0 .. total)
  fails,    \* consecutive_fail_cnt
  status,   \* the body T2 published last, <<>> before the first
  reported  \* history: the lost link was reported since the last status

line == <<next, losses, rx, broken>>
t2   == <<pc, buf, fails, status, reported>>
vars == <<running, line, t2>>

Value(b) ==
  CASE b.pos = 1 \/ b.pos \in LooksSync1 -> "AA"
    [] b.pos = 2 \/ b.pos \in LooksSync2 -> "55"
    [] OTHER -> "data"

Body(k) == [i \in 1 .. BodyLen |-> [pkt |-> k, pos |-> i + 2]]
CrcOk(b) == \E k \in Packets : b = Body(k)

Init ==
  /\ running = TRUE
  /\ next = [pkt |-> 1, pos |-> 1]
  /\ losses = 0
  /\ rx = <<>>
  /\ broken \in BOOLEAN
  /\ pc = "sync1" /\ buf = <<>>
  /\ fails = 0
  /\ status = <<>>
  /\ reported = FALSE

-----------------------------------------------------------------------------
(***************************************************************************)
(* The torpedo and the line.                                               *)
(***************************************************************************)
Silent == next.pkt > MaxPackets

Advance ==
  next' = IF next.pos < PacketLen THEN [next EXCEPT !.pos = @ + 1]
          ELSE [pkt |-> next.pkt + 1, pos |-> 1]

ByteArrives ==
  /\ ~Silent /\ Len(rx) < QueueCap
  /\ rx' = Append(rx, next)
  /\ Advance
  /\ UNCHANGED <<running, losses, broken, t2>>

\* on the wire, or because the queue is full
ByteLost ==
  /\ ~Silent /\ losses < MaxLoss
  /\ losses' = losses + 1
  /\ Advance
  /\ UNCHANGED <<running, rx, broken, t2>>

PortFails ==
  /\ ~broken
  /\ broken' = TRUE
  /\ UNCHANGED <<running, next, losses, rx, t2>>

Signal ==
  /\ running
  /\ running' = FALSE
  /\ UNCHANGED <<line, t2>>

-----------------------------------------------------------------------------
(***************************************************************************)
(* T2.  A poll ends in one of two ways.                                    *)
(***************************************************************************)
\* mutated: the count is never taken back
Fail_Counting ==
  /\ pc' = "sync1"
  /\ buf' = <<>>
  /\ fails' = fails + 1
  /\ reported' = (reported \/ fails + 1 >= FailLimit)
  /\ UNCHANGED status

\* mutated: every poll starts the count afresh
Fail_CountLocal ==
  /\ pc' = "sync1"
  /\ buf' = <<>>
  /\ fails' = 1
  /\ reported' = (reported \/ 1 >= FailLimit)
  /\ UNCHANGED status

Fail ==
  /\ pc' = "sync1"
  /\ buf' = <<>>
  /\ fails' = IF fails + 1 >= FailLimit THEN FailResume ELSE fails + 1
  /\ reported' = (reported \/ fails + 1 >= FailLimit)
  /\ UNCHANGED status

Publish(b) ==
  /\ pc' = "sync1"
  /\ buf' = <<>>
  /\ fails' = 0
  /\ status' = b
  /\ reported' = FALSE

Readable == ~broken /\ rx # <<>>

\* one sync byte: nothing to read or another byte ends the poll
ReadSync(here, expected, there) ==
  /\ pc = here
  /\ IF Readable THEN rx' = Tail(rx) ELSE UNCHANGED rx
  /\ IF Readable /\ Value(Head(rx)) = expected
     THEN pc' = there /\ UNCHANGED <<buf, fails, status, reported>>
     ELSE Fail
  /\ UNCHANGED <<running, next, losses, broken>>

ReadSync1 == running /\ ReadSync("sync1", "AA", "sync2")
ReadSync2 == ReadSync("sync2", "55", "body")

\* mutated: the checksum is computed and logged only
Verdict_Unchecked(b) == Publish(b)

Verdict(b) == IF CrcOk(b) THEN Publish(b) ELSE Fail

Least(a, b) == IF a < b THEN a ELSE b

\* read() returns what is there, up to what is missing
ReadBody ==
  LET n   == Least(Len(rx), BodyLen - Len(buf))
      got == buf \o SubSeq(rx, 1, n)
  IN /\ pc = "body"
     /\ Readable
     /\ rx' = SubSeq(rx, n + 1, Len(rx))
     /\ IF Len(got) = BodyLen THEN Verdict(got)
        ELSE buf' = got /\ UNCHANGED <<pc, fails, status, reported>>
     /\ UNCHANGED <<running, next, losses, broken>>

ReadBodyError ==
  /\ pc = "body"
  /\ broken
  /\ Fail
  /\ UNCHANGED <<running, line>>

\* mutated: the loop does not look at the flag
Leave_Never ==
  /\ FALSE
  /\ UNCHANGED vars

\* system_running is looked at between polls only
Leave ==
  /\ ~running /\ pc = "sync1"
  /\ pc' = "done"
  /\ UNCHANGED <<running, line, buf, fails, status, reported>>

T2 == ReadSync1 \/ ReadSync2 \/ ReadBody \/ ReadBodyError \/ Leave

Next == ByteArrives \/ ByteLost \/ PortFails \/ Signal \/ T2

Spec == Init /\ [][Next]_vars

(***************************************************************************)
(* T2 polls every 5 ms.  The torpedo owes nothing.                         *)
(***************************************************************************)
FairSpec == Spec /\ WF_vars(T2)

-----------------------------------------------------------------------------
TypeOK ==
  /\ running \in BOOLEAN /\ broken \in BOOLEAN /\ reported \in BOOLEAN
  /\ next \in [pkt : 1 .. MaxPackets + 1, pos : 1 .. PacketLen]
  /\ losses \in 0 .. MaxLoss
  /\ rx \in Seq(Byte) /\ Len(rx) <= QueueCap
  /\ pc \in {"sync1", "sync2", "body", "done"}
  /\ buf \in Seq(Byte) /\ Len(buf) < BodyLen
  /\ fails \in 0 .. FailLimit - 1
  /\ status = <<>> \/ (status \in Seq(Byte) /\ Len(status) = BodyLen)

(***************************************************************************)
(* Whatever the line loses and wherever the receiver loses its place, the  *)
(* statuses T2 publishes are those of single packets, each at most once    *)
(* and in the order they were sent.                                        *)
(***************************************************************************)
StatusesInOrder ==
  [][/\ status' \in {Body(k) : k \in Packets}
     /\ status # <<>> => status'[1].pkt > status[1].pkt]_status

(***************************************************************************)
(* The loop over a body is the one place where T2 waits: it retries an     *)
(* empty read for ever (UartNode.cpp:195-202).  It has not found its place *)
(* in the torpedo's bytes if it lost one, or took a body's for the sync    *)
(* bytes, so that what it collects does not begin with a body.             *)
(***************************************************************************)
AwaitsBody == pc = "body" /\ rx = <<>> /\ ~broken
OutOfStep  == losses > 0 \/ buf = <<>> \/ buf[1].pos # 3

(***************************************************************************)
(* A link that falls silent is reported (main.cpp:114) or the station      *)
(* shuts down, and else T2 is out of step and in a body for good.  So it   *)
(* always is reported when the torpedo's last packet was found in its      *)
(* place; but two sync bytes inside a body can be all it takes, for a      *)
(* second sync byte that is merely late drops the first (184), and the     *)
(* receiver then hunts through the body with no byte lost.                 *)
(***************************************************************************)
SilenceIsReported == Silent ~> reported \/ ~running \/ [](AwaitsBody /\ OutOfStep)

(***************************************************************************)
(* After a shutdown signal T2 leaves its loop (main.cpp:750, 854: main     *)
(* joins it) whatever the line lost and wherever T2 stands, unless it is   *)
(* in a body and no byte ever comes again.                                 *)
(***************************************************************************)
StopsOnSignal == ~running ~> pc = "done" \/ []AwaitsBody

-----------------------------------------------------------------------------
(***************************************************************************)
(* A lost link is reported (main.cpp:114), whatever was lost before.  The  *)
(* code does not have this property.                                       *)
(***************************************************************************)
LinkLossIsReported == Silent ~> reported \/ ~running
=============================================================================
