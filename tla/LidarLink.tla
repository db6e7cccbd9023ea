----------------------------- MODULE LidarLink -----------------------------
(***************************************************************************)
(* The lidar's link: bytes from the serial port to protocol messages.      *)
(*                                                                         *)
(*   port (net_serial.cpp, sl_serial_channel.cpp)  ->  rx thread  ->       *)
(*   _rxQueue  ->  decoder's thread  ->  codec  ->  listener               *)
(*                                                                         *)
(* A caller opens and closes the transceiver (sl_async_transceiver.cpp)    *)
(* and resets the codec (sl_lidarprotocol_codec.cpp) in between.  Calls    *)
(* come one at a time (_opLocker).  One step is one critical section of    *)
(* _rxLocker, one byte of the codec's, or one call of the port.            *)
(*                                                                         *)
(* Script is what the device sends: a record per byte, with the message it *)
(* belongs to.  A byte in the station is its number and the session, that  *)
(* is the opening of the port, in which it arrived.                        *)
(***************************************************************************)
EXTENDS Integers, Sequences

CONSTANTS
  Script,      \* bytes of the device: [kind, len, loop, first of its payload]
  LooksSync1,  \* other bytes of the script with the value 0xA5 ...
  LooksSync2,  \* ... and with the value 0x5A
  SizeLen,     \* bytes of the size field (4)
  Lens,        \* payload sizes a garbled size field may show
  Backlog,     \* bound: bytes between the port and the codec
  MaxLoss,     \* bound: bytes the line loses
  MaxSessions  \* bound: openings of the port

Kinds == {"sync1", "sync2", "size", "type", "data"}
Numbers == 1 .. Len(Script)
Byte == [n : Numbers, s : 1 .. MaxSessions]
Buffer == Seq(Byte)

ASSUME LinkAssumption ==
  /\ Script \in Seq([kind : Kinds, len : Nat, loop : BOOLEAN, first : BOOLEAN])
  /\ LooksSync1 \subseteq Numbers /\ LooksSync2 \subseteq Numbers
  /\ SizeLen \in Nat \ {0} /\ Lens \subseteq Nat
  /\ Backlog \in Nat \ {0} /\ MaxLoss \in Nat /\ MaxSessions \in Nat

(***************************************************************************)
(* What the device sends is messages: two sync bytes, the size field, the  *)
(* type, and a payload as the size field announced it, one payload after   *)
(* the other when it announced loop mode.  After a message the next one    *)
(* begins.  Nothing is assumed of the values of a size, type or payload    *)
(* byte: it may have that of a sync byte.                                  *)
(***************************************************************************)
Header(k) ==
  {k, k + 1} \subseteq Numbers /\ Script[k].kind = "sync1" /\ Script[k + 1].kind = "sync2"

Begins(k) ==
  k \in Numbers =>
    /\ Script[k].kind = "sync1"
    /\ k + 1 \in Numbers => Script[k + 1].kind = "sync2"

Payload(m, size, looping) ==
  m \in Numbers =>
    /\ Script[m] = [kind |-> "data", len |-> size, loop |-> looping, first |-> TRUE]
    /\ \A i \in m + 1 .. m + size - 1 :
         i \in Numbers => Script[i].kind = "data" /\ ~Script[i].first

ASSUME DeviceAssumption ==
  /\ \A k \in Numbers : Header(k) =>
       /\ \A i \in 2 .. SizeLen + 1 : k + i \in Numbers => Script[k + i].kind = "size"
       /\ k + SizeLen + 3 \in Numbers =>
            LET size == Script[k + 2].len
            IN IF size = 0 THEN Begins(k + SizeLen + 3)
               ELSE Payload(k + SizeLen + 3, size, Script[k + 2].loop)
  /\ \A m \in Numbers :
       Script[m].kind = "data" /\ Script[m].first =>
         IF Script[m].loop THEN Payload(m + Script[m].len, Script[m].len, TRUE)
         ELSE Begins(m + Script[m].len)

VARIABLES
  \* the device and the port
  next,      \* the number of the byte the device sends next
  losses,    \* bytes lost while the port was open
  port,      \* bytes in the port's input queue
  opened,    \* the port is open
  broken,    \* the port reports errors
  \* the transceiver
  session,   \* history: openings so far
  working,   \* _isWorking
  caller,    \* "idle", or where unbindAndClose stands
  rx,        \* the rx thread
  hint,      \* hintedSize, then the bytes read
  queue,     \* _rxQueue
  event,     \* _dataEvt
  dec,       \* the decoder's thread
  cur,       \* what is left of the buffer it decodes
  \* the codec
  state,     \* _working_states without the loop flag
  loop,      \* STATUS_LOOP_MODE_FLAG
  len,       \* _decodingMessage.len
  acc,       \* bytes of the size or the payload received so far
  inStep,    \* history: it has locked on a header since its last reset
  delivered  \* history: the message the listener was called with last

device == <<next, losses, port, broken>>
link   == <<opened, session, working>>
reader == <<rx, hint>>
codec  == <<state, loop, len, acc, inStep>>
vars == <<device, link, caller, reader, queue, event, dec, cur, codec, delivered>>

\* the codec after onDecodeReset
CodecFresh ==
  state' = "sync1" /\ loop' = FALSE /\ len' = 1 /\ acc' = <<>> /\ inStep' = FALSE

Init ==
  /\ next = 1 /\ losses = 0 /\ port = <<>> /\ opened = FALSE /\ broken = FALSE
  /\ session = 0 /\ working = FALSE /\ caller = "idle"
  /\ rx = "none" /\ hint = <<>> /\ queue = <<>> /\ event = FALSE
  /\ dec = "none" /\ cur = <<>>
  /\ state = "sync1" /\ loop = FALSE /\ len = 1 /\ acc = <<>> /\ inStep = FALSE
  /\ delivered = <<>>

-----------------------------------------------------------------------------
(***************************************************************************)
(* The device and the line.  A closed port receives nothing.               *)
(***************************************************************************)
Sends ==
  /\ next \in Numbers
  /\ next' = next + 1
  /\ UNCHANGED <<broken, link, caller, reader, queue, event, dec, cur, codec,
                 delivered>>

\* the first byte that the codec has not seen yet
Oldest ==
  LET waiting == cur \o (IF queue = <<>> THEN <<>> ELSE Head(queue)) \o hint \o port
  IN IF waiting = <<>> THEN next ELSE waiting[1].n

ByteArrives ==
  /\ Sends /\ opened /\ next - Oldest < Backlog
  /\ port' = Append(port, [n |-> next, s |-> session])
  /\ UNCHANGED losses

ByteLost == Sends /\ opened /\ losses < MaxLoss /\ losses' = losses + 1 /\ UNCHANGED port

ByteUnheard == Sends /\ ~opened /\ UNCHANGED <<losses, port>>

PortFails ==
  /\ opened /\ ~broken
  /\ broken' = TRUE
  /\ UNCHANGED <<next, losses, port, link, caller, reader, queue, event, dec,
                 cur, codec, delivered>>

-----------------------------------------------------------------------------
(***************************************************************************)
(* The serial port: opening flushes its input, closing discards it.        *)
(***************************************************************************)
PortOpens == opened' = TRUE /\ broken' = FALSE /\ port' = <<>>
PortCloses == opened' = FALSE /\ port' = <<>> /\ UNCHANGED broken

(***************************************************************************)
(* openChannelAndBind closes first; both threads are gone when it opens.   *)
(* A port that does not open leaves everything as it was (the caller is    *)
(* told that it did: DriverOperations has the consequences).               *)
(***************************************************************************)
Open ==
  /\ caller = "idle" /\ ~working /\ session < MaxSessions
  /\ PortOpens
  /\ event' = FALSE
  /\ working' = TRUE /\ session' = session + 1
  /\ dec' = "reset" /\ rx' = "loop"
  /\ UNCHANGED <<next, losses, caller, hint, queue, cur, codec, delivered>>

(***************************************************************************)
(* unbindAndClose                                                          *)
(***************************************************************************)
CloseBegin ==
  /\ caller = "idle" /\ working
  /\ working' = FALSE
  /\ event' = TRUE
  /\ caller' = "join decoder"
  /\ UNCHANGED <<device, opened, session, reader, queue, dec, cur, codec,
                 delivered>>

CloseJoin ==
  /\ \/ caller = "join decoder" /\ dec = "done" /\ caller' = "join rx"
     \/ caller = "join rx" /\ rx = "done" /\ caller' = "close"
  /\ UNCHANGED <<device, link, reader, queue, event, dec, cur, codec, delivered>>

\* mutated: the buffers that were not decoded stay in the queue
CloseEnd_KeepQueue ==
  /\ caller = "close"
  /\ PortCloses
  /\ caller' = "idle"
  /\ UNCHANGED <<next, losses, session, working, reader, queue, event, dec,
                 cur, codec, delivered>>

\* the port is closed with what it held, and the queue is emptied
CloseEnd ==
  /\ caller = "close"
  /\ PortCloses
  /\ queue' = <<>>
  /\ caller' = "idle"
  /\ UNCHANGED <<next, losses, session, working, reader, event, dec, cur,
                 codec, delivered>>

\* exitLoopMode, when the decoder's thread does not hold the codec's lock
ResetCodec ==
  /\ caller = "idle" /\ dec # "decode"
  /\ CodecFresh
  /\ UNCHANGED <<device, link, caller, reader, queue, event, dec, cur, delivered>>

-----------------------------------------------------------------------------
(***************************************************************************)
(* _proc_rxThread                                                          *)
(***************************************************************************)
RxGoto(from, to) == rx = from /\ rx' = to
RxQuiet == UNCHANGED <<next, losses, broken, link, caller, dec, cur, codec,
                       delivered>>

\* mutated: the flag is not looked at again
RxLoop_Forever ==
  /\ RxGoto("loop", "wait")
  /\ RxQuiet /\ UNCHANGED <<port, hint, queue, event>>

RxLoop ==
  /\ RxGoto("loop", IF working THEN "wait" ELSE "done")
  /\ RxQuiet /\ UNCHANGED <<port, hint, queue, event>>

\* waitForDataExt: the wait says how much there is, but takes nothing
RxReady ==
  /\ port # <<>> /\ ~broken
  /\ RxGoto("wait", "read")
  /\ hint' = port
  /\ RxQuiet /\ UNCHANGED <<port, queue, event>>

\* a timeout, or an error reported after the link was closed
RxNothing ==
  /\ port = <<>> \/ (broken /\ ~working)
  /\ RxGoto("wait", "loop")
  /\ RxQuiet /\ UNCHANGED <<port, hint, queue, event>>

\* an error ends the thread; nobody is told
RxError ==
  /\ broken /\ working
  /\ RxGoto("wait", "done")
  /\ RxQuiet /\ UNCHANGED <<port, hint, queue, event>>

RxRead ==
  /\ ~broken
  /\ RxGoto("read", "push")
  /\ port' = SubSeq(port, Len(hint) + 1, Len(port))
  /\ RxQuiet /\ UNCHANGED <<hint, queue, event>>

\* read() returns an error, which recvdata reports as nothing read
RxReadNothing ==
  /\ broken
  /\ RxGoto("read", "done")
  /\ hint' = <<>>
  /\ RxQuiet /\ UNCHANGED <<port, queue, event>>

RxPush ==
  /\ RxGoto("push", "loop")
  /\ queue' = Append(queue, hint)
  /\ hint' = <<>>
  /\ event' = TRUE
  /\ RxQuiet /\ UNCHANGED port

-----------------------------------------------------------------------------
(***************************************************************************)
(* _proc_decoderThread                                                     *)
(***************************************************************************)
DecGoto(from, to) == dec = from /\ dec' = to
DecQuiet == UNCHANGED <<device, link, caller, reader>>

\* mutated: the codec goes on where the last session ended
DecReset_Skipped ==
  /\ DecGoto("reset", "loop")
  /\ DecQuiet /\ UNCHANGED <<queue, event, cur, codec, delivered>>

DecReset ==
  /\ DecGoto("reset", "loop")
  /\ CodecFresh
  /\ DecQuiet /\ UNCHANGED <<queue, event, cur, delivered>>

\* while (_isWorking)
DecLoop ==
  /\ DecGoto("loop", IF working THEN "pop" ELSE "done")
  /\ DecQuiet /\ UNCHANGED <<queue, event, cur, codec, delivered>>

\* mutated: a wait that timed out ends the thread
DecWait_Leaves ==
  /\ dec = "wait"
  /\ dec' = IF event THEN "loop" ELSE "done"
  /\ event' = FALSE
  /\ DecQuiet /\ UNCHANGED <<queue, cur, codec, delivered>>

\* the wait ends with a signal, which it takes, or after a second
DecWait ==
  /\ DecGoto("wait", "loop")
  /\ event' = FALSE
  /\ DecQuiet /\ UNCHANGED <<queue, cur, codec, delivered>>

\* mutated: the newest buffer is taken
DecPop_Newest ==
  /\ DecGoto("pop", IF queue = <<>> THEN "wait" ELSE "decode")
  /\ cur' = IF queue = <<>> THEN cur ELSE queue[Len(queue)]
  /\ queue' = IF queue = <<>> THEN queue ELSE SubSeq(queue, 1, Len(queue) - 1)
  /\ DecQuiet /\ UNCHANGED <<event, codec, delivered>>

\* under _rxLocker: take the first buffer, or wait for one
DecPop ==
  /\ DecGoto("pop", IF queue = <<>> THEN "wait" ELSE "decode")
  /\ cur' = IF queue = <<>> THEN cur ELSE Head(queue)
  /\ queue' = IF queue = <<>> THEN queue ELSE Tail(queue)
  /\ DecQuiet /\ UNCHANGED <<event, codec, delivered>>

DecBufferEnd ==
  /\ cur = <<>>
  /\ DecGoto("decode", "loop")
  /\ DecQuiet /\ UNCHANGED <<queue, event, cur, codec, delivered>>

(***************************************************************************)
(* onDecodeData: one byte.                                                 *)
(***************************************************************************)
Kind(b) == Script[b.n].kind

\* the size field as one message of the device has it
Genuine(field) ==
  \A i \in DOMAIN field :
    Kind(field[i]) = "size" /\ field[i].n = field[1].n + i - 1

\* what a size field says: [len, loop]
Sizes(field) ==
  IF Genuine(field)
  THEN {[len |-> Script[field[1].n].len, loop |-> Script[field[1].n].loop]}
  ELSE [len : Lens, loop : BOOLEAN]

\* the codec compares values; what a byte is meant to be it cannot see
HasSync1(b) == Kind(b) = "sync1" \/ b.n \in LooksSync1
HasSync2(b) == Kind(b) = "sync2" \/ b.n \in LooksSync2

Hunt(b) ==
  /\ state = "sync1"
  /\ state' = IF HasSync1(b) THEN "sync2" ELSE "sync1"
  /\ UNCHANGED <<loop, len, acc, inStep>>

Locked(b) ==
  /\ state = "sync2"
  /\ IF HasSync2(b)
     THEN state' = "size" /\ acc' = <<>> /\ inStep' = (inStep \/ Header(b.n - 1))
     ELSE state' = "sync1" /\ UNCHANGED <<acc, inStep>>
  /\ UNCHANGED <<loop, len>>

SizeByte(b) ==
  LET field == Append(acc, b)
  IN /\ state = "size"
     /\ UNCHANGED inStep
     /\ IF Len(field) < SizeLen
        THEN acc' = field /\ UNCHANGED <<state, loop, len>>
        ELSE \E h \in Sizes(field) :
               state' = "type" /\ acc' = <<>> /\ len' = h.len /\ loop' = h.loop

\* an empty payload is no message
TypeByte(b) ==
  /\ state = "type"
  /\ IF len = 0 THEN state' = "sync1" /\ loop' = FALSE
     ELSE state' = "data" /\ UNCHANGED loop
  /\ UNCHANGED <<len, acc, inStep>>

\* mutated: the position is not set back between the payloads of loop mode
PayloadByte_NoRewind(b) ==
  /\ state = "data"
  /\ acc' = Append(acc, b)
  /\ state' = IF Len(acc) + 1 >= len /\ ~loop THEN "sync1" ELSE "data"
  /\ UNCHANGED <<loop, len, inStep>>

\* a whole payload rewinds in loop mode, or ends the message
PayloadByte(b) ==
  LET full == Len(acc) + 1 = len
  IN /\ state = "data"
     /\ acc' = IF full THEN <<>> ELSE Append(acc, b)
     /\ state' = IF full /\ ~loop THEN "sync1" ELSE "data"
     /\ UNCHANGED <<loop, len, inStep>>

Completes == state = "data" /\ Len(acc) + 1 >= len

\* the listener is called without the codec's lock
DecByte ==
  LET b == Head(cur)
  IN /\ cur # <<>>
     /\ DecGoto("decode", IF Completes THEN "callback" ELSE "decode")
     /\ Hunt(b) \/ Locked(b) \/ SizeByte(b) \/ TypeByte(b) \/ PayloadByte(b)
     /\ cur' = Tail(cur)
     /\ delivered' = IF Completes THEN Append(acc, b) ELSE delivered
     /\ DecQuiet /\ UNCHANGED <<queue, event>>

DecListenerReturns ==
  /\ DecGoto("callback", "decode")
  /\ DecQuiet /\ UNCHANGED <<queue, event, cur, codec, delivered>>

-----------------------------------------------------------------------------
Device == ByteArrives \/ ByteLost \/ ByteUnheard \/ PortFails
Closing == CloseJoin \/ CloseEnd
Rx == RxLoop \/ RxReady \/ RxNothing \/ RxError \/ RxRead \/ RxReadNothing \/ RxPush
Decoder == DecReset \/ DecLoop \/ DecWait \/ DecPop \/ DecByte \/ DecBufferEnd
             \/ DecListenerReturns

Next == Device \/ Open \/ CloseBegin \/ Closing \/ ResetCodec \/ Rx \/ Decoder

Spec == Init /\ [][Next]_vars

\* the threads run, and the caller of close goes on when it can
FairSpec == Spec /\ WF_vars(Rx) /\ WF_vars(Decoder) /\ WF_vars(Closing)

-----------------------------------------------------------------------------
TypeOK ==
  /\ next \in 1 .. Len(Script) + 1 /\ losses \in 0 .. MaxLoss
  /\ port \in Seq(Byte)
  /\ opened \in BOOLEAN /\ broken \in BOOLEAN /\ working \in BOOLEAN
  /\ session \in 0 .. MaxSessions
  /\ caller \in {"idle", "join decoder", "join rx", "close"}
  /\ rx \in {"none", "loop", "wait", "read", "push", "done"}
  /\ hint \in Seq(Byte)
  /\ queue \in Seq(Buffer)
  /\ event \in BOOLEAN
  /\ dec \in {"none", "reset", "loop", "wait", "pop", "decode", "callback", "done"}
  /\ cur \in Seq(Byte)
  /\ state \in Kinds /\ loop \in BOOLEAN /\ len \in Nat
  /\ acc \in Seq(Byte) /\ (state = "data" => Len(acc) < len)
  /\ inStep \in BOOLEAN
  /\ delivered \in Seq(Byte)

(***************************************************************************)
(* Whatever the line loses, wherever the codec loses its place and however *)
(* often the link is reopened, the bytes of a message are in the order the *)
(* device sent them and newer than those of every message before.          *)
(***************************************************************************)
Increasing(s) == \A i, j \in DOMAIN s : i < j => s[i].n < s[j].n

BytesInOrder ==
  [][Increasing(delivered \o delivered')]_delivered

(***************************************************************************)
(* Once the codec has locked on a header, every message the listener is    *)
(* called with is one payload of the device, from its first to its last    *)
(* byte, as long as the line loses nothing: the lock lasts from message to *)
(* message, through bytes of every value, until the next reset, and a      *)
(* reopened link does not go on with half a message.                       *)
(*                                                                         *)
(* A codec that is reset, or whose link is opened, in the middle of a      *)
(* message may find A5 5A in a payload before the next header and lock on  *)
(* that; of the messages it then delivers only BytesInOrder is true.       *)
(***************************************************************************)
OnePayload(s) ==
  /\ s # <<>>
  /\ \A i \in DOMAIN s : Kind(s[i]) = "data" /\ s[i].n = s[1].n + i - 1
  /\ Len(s) = Script[s[1].n].len
  /\ ~\E i \in 2 .. Len(s) : Script[s[i].n].first
  /\ Script[s[1].n].first

MessagesWhole ==
  [][inStep /\ losses = 0 => OnePayload(delivered')]_delivered

(***************************************************************************)
(* The codec never sees a byte that arrived before the link was opened the *)
(* last time (sl_async_transceiver.cpp:211: clear any pending data).       *)
(***************************************************************************)
NothingFromBefore == \A i \in DOMAIN cur : cur[i].s = session

(***************************************************************************)
(* unbindAndClose returns: both threads see the flag, whatever they are    *)
(* waiting for (sl_async_transceiver.cpp:242: the signal wakes them).      *)
(***************************************************************************)
CloseReturns == caller # "idle" ~> caller = "idle"

(***************************************************************************)
(* No buffer stays undecoded: an event that one wait takes for two pushes  *)
(* loses neither.                                                          *)
(***************************************************************************)
QueueDrains == queue # <<>> ~> queue = <<>>
=============================================================================
