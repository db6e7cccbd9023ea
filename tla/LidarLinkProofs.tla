--------------------------- MODULE LidarLinkProofs ---------------------------
(***************************************************************************)
(* Theorems about LidarLink, for any script of the device, any sizes and   *)
(* any number of lost bytes and openings.                                  *)
(***************************************************************************)
EXTENDS LidarLink, TLAPS

(***************************************************************************)
(* The type invariant in parts, with what the codec's states say of its    *)
(* buffer and an open port of the session.                                 *)
(***************************************************************************)
Flags ==
  /\ opened \in BOOLEAN /\ broken \in BOOLEAN /\ working \in BOOLEAN
  /\ event \in BOOLEAN /\ loop \in BOOLEAN /\ inStep \in BOOLEAN

Counts ==
  /\ next \in 1 .. Len(Script) + 1 /\ losses \in 0 .. MaxLoss
  /\ session \in 0 .. MaxSessions
  /\ opened = TRUE => session >= 1

Places ==
  /\ caller \in {"idle", "join decoder", "join rx", "close"}
  /\ rx \in {"none", "loop", "wait", "read", "push", "done"}
  /\ dec \in {"none", "reset", "loop", "wait", "pop", "decode", "callback", "done"}

Bytes ==
  /\ port \in Seq(Byte) /\ hint \in Seq(Byte) /\ cur \in Seq(Byte)

Queue == queue \in Seq(Buffer)

CodecShape ==
  /\ state \in Kinds /\ len \in Nat
  /\ acc \in Seq(Byte)
  /\ state = "data" => Len(acc) < len
  /\ state = "type" => acc = <<>>
  /\ delivered \in Seq(Byte)

Shape == Flags /\ Counts /\ Places /\ Bytes /\ Queue /\ CodecShape

(***************************************************************************)
(* What stays when the link or the codec does, and what a size field says. *)
(***************************************************************************)
LEMMA LinkFrame ==
  ASSUME link' = link
  PROVE  opened' = opened /\ session' = session /\ working' = working
BY Zenon DEF link

LEMMA CodecFrame ==
  ASSUME codec' = codec
  PROVE  state' = state /\ loop' = loop /\ len' = len /\ acc' = acc /\ inStep' = inStep
BY Zenon DEF codec

LEMMA BufferBytes ==
  ASSUME NEW b
  PROVE  b \in Buffer <=> b \in Seq(Byte)
BY DEF Buffer

LEMMA SizesTyped ==
  ASSUME NEW field \in Seq(Byte), field # <<>>, NEW h \in Sizes(field)
  PROVE  h.len \in Nat /\ h.loop \in BOOLEAN
<1> DEFINE Step == [kind : Kinds, len : Nat, loop : BOOLEAN, first : BOOLEAN]
           n == field[1].n
<1>1. field[1] \in Byte
  OBVIOUS
<1>2. n \in 1 .. Len(Script)
  BY <1>1 DEF Byte, Numbers
<1>3. Script \in Seq(Step)
  BY LinkAssumption
<1>4. Script[n] \in Step
  <2> HIDE DEF Step, n
  <2>1. QED
    BY <1>2, <1>3
<1>5. CASE Genuine(field)
  <2>1. h = [len |-> Script[n].len, loop |-> Script[n].loop]
    BY <1>5 DEF Sizes
  <2>2. QED
    BY <1>4, <2>1
<1>6. CASE ~Genuine(field)
  <2>1. h \in [len : Lens, loop : BOOLEAN]
    BY <1>6 DEF Sizes
  <2>2. QED
    BY <2>1, LinkAssumption
<1>7. QED
  BY <1>5, <1>6

(***************************************************************************)
(* A byte leaves the codec and the listener's message well typed.          *)
(***************************************************************************)
LEMMA CodecTyped ==
  ASSUME Shape, DecByte
  PROVE  CodecShape' /\ loop' \in BOOLEAN
<1> DEFINE b == Head(cur)
<1>1. b \in Byte
  BY DEF DecByte, Shape, Bytes
<1>2. CodecShape /\ loop \in BOOLEAN
  BY DEF Shape, Flags
<1>3. Append(acc, b) \in Seq(Byte) /\ Len(Append(acc, b)) = Len(acc) + 1
  BY <1>1, <1>2 DEF CodecShape
<1>4. delivered' \in Seq(Byte)
  BY <1>2, <1>3 DEF DecByte, CodecShape
<1>5. CASE Hunt(b)
  <2>1. loop' \in BOOLEAN
    BY <1>2, <1>5 DEF Hunt
  <2>2. QED
    BY <1>2, <1>4, <1>5, <2>1 DEF Hunt, CodecShape, Kinds
<1>6. CASE Locked(b)
  <2>1. /\ loop' = loop /\ len' = len /\ state' \in {"size", "sync1"}
        /\ acc' = <<>> \/ acc' = acc
    BY <1>6 DEF Locked
  <2>2. acc' \in Seq(Byte)
    <3>1. acc \in Seq(Byte) /\ <<>> \in Seq(Byte)
      BY <1>2 DEF CodecShape
    <3>2. QED
      BY Zenon, <2>1, <3>1
  <2>3. QED
    BY <1>2, <1>4, <2>1, <2>2 DEF CodecShape, Kinds
<1>7. CASE SizeByte(b)
  <2>1. CASE Len(Append(acc, b)) < SizeLen
    <3>1. acc' = Append(acc, b) /\ state' = state /\ loop' = loop /\ len' = len
          /\ state = "size"
      BY <1>7, <2>1 DEF SizeByte
    <3>2. QED
      BY <1>2, <1>3, <1>4, <3>1 DEF CodecShape
  <2>2. CASE ~(Len(Append(acc, b)) < SizeLen)
    <3>1. PICK h \in Sizes(Append(acc, b)) :
            state' = "type" /\ acc' = <<>> /\ len' = h.len /\ loop' = h.loop
      BY <1>7, <2>2 DEF SizeByte
    <3>2. Append(acc, b) # <<>>
      BY <1>2, <1>3 DEF CodecShape
    <3>3. h.len \in Nat /\ h.loop \in BOOLEAN
      BY <1>3, <3>2, SizesTyped
    <3>4. QED
      BY <1>4, <3>1, <3>3 DEF CodecShape, Kinds
  <2>3. QED
    BY <2>1, <2>2
<1>8. CASE TypeByte(b)
  <2>1. loop' \in BOOLEAN
    BY <1>2, <1>8 DEF TypeByte
  <2>2. QED
    BY <1>2, <1>4, <1>8, <2>1 DEF TypeByte, CodecShape, Kinds
<1>9. CASE PayloadByte(b)
  <2>1. loop' \in BOOLEAN
    BY <1>2, <1>9 DEF PayloadByte
  <2>2. state = "data" /\ len' = len /\ state' \in {"sync1", "data"}
    BY <1>9 DEF PayloadByte
  <2>3. CASE Len(acc) + 1 = len
    <3>1. acc' = <<>> /\ len > 0
      BY <1>2, <1>9, <2>3 DEF PayloadByte, CodecShape
    <3>2. acc' \in Seq(Byte) /\ Len(acc') = 0
      BY <3>1
    <3>3. QED
      BY <1>2, <1>4, <2>1, <2>2, <3>1, <3>2 DEF CodecShape, Kinds
  <2>4. CASE Len(acc) + 1 # len
    <3>1. acc' = Append(acc, b)
      BY <1>9, <2>4 DEF PayloadByte
    <3>2. acc' \in Seq(Byte) /\ Len(acc') < len
      BY <1>2, <1>3, <2>2, <2>4, <3>1 DEF CodecShape
    <3>3. QED
      BY <1>2, <1>4, <2>1, <2>2, <3>2 DEF CodecShape, Kinds
  <2>5. QED
    BY <2>3, <2>4
<1>10. QED
  BY <1>5, <1>6, <1>7, <1>8, <1>9 DEF DecByte

LEMMA InStepTyped ==
  ASSUME Shape, DecByte
  PROVE  inStep' \in BOOLEAN
<1> DEFINE b == Head(cur)
<1>1. inStep \in BOOLEAN
  BY DEF Shape, Flags
<1>2. CASE Locked(b)
  BY <1>1, <1>2 DEF Locked
<1>3. CASE Hunt(b) \/ SizeByte(b) \/ TypeByte(b) \/ PayloadByte(b)
  BY <1>1, <1>3 DEF Hunt, SizeByte, TypeByte, PayloadByte
<1>4. QED
  BY <1>2, <1>3 DEF DecByte

(***************************************************************************)
(* Every step keeps the shape.                                             *)
(***************************************************************************)
LEMMA StepsKeepShape ==
  ASSUME Shape, [Next]_vars
  PROVE  Shape'
<1>0. /\ Len(Script) \in Nat /\ MaxLoss \in Nat /\ MaxSessions \in Nat
  BY LinkAssumption
<1>1. Flags'
  <2> USE DEF Flags, link, codec, device
  <2>0. Flags
    BY DEF Shape
  <2>1. CASE Device
    BY Zenon, <2>0, <2>1 DEF Device, ByteArrives, ByteLost, ByteUnheard, PortFails, Sends
  <2>2. CASE Open \/ CloseBegin \/ Closing \/ ResetCodec
    BY Zenon, <2>0, <2>2 DEF Open, PortOpens, CloseBegin, Closing, CloseJoin, CloseEnd,
                             PortCloses, ResetCodec, CodecFresh
  <2>3. CASE Rx
    BY Zenon, <2>0, <2>3 DEF Rx, RxLoop, RxReady, RxNothing, RxError, RxReadNothing,
                             RxRead, RxPush, RxQuiet
  <2>4. CASE DecReset \/ DecLoop \/ DecWait \/ DecPop \/ DecBufferEnd \/ DecListenerReturns
    BY Zenon, <2>0, <2>4 DEF DecReset, DecLoop, DecWait, DecPop, DecBufferEnd,
                             DecListenerReturns, DecQuiet, CodecFresh
  <2>5. CASE DecByte
    <3>1. loop' \in BOOLEAN /\ inStep' \in BOOLEAN
      BY <2>5, CodecTyped, InStepTyped
    <3>2. QED
      BY Zenon, <2>0, <2>5, <3>1 DEF DecByte, DecQuiet
  <2>6. CASE UNCHANGED vars
    BY Zenon, <2>0, <2>6 DEF vars
  <2>7. QED
    BY <2>1, <2>2, <2>3, <2>4, <2>5, <2>6 DEF Next, Decoder
<1>2. Counts'
  <2> USE DEF Counts, device
  <2>0. Counts
    BY DEF Shape
  <2>1. CASE Device
    BY <1>0, <2>0, <2>1, LinkFrame
       DEF Device, ByteArrives, ByteLost, ByteUnheard, PortFails, Sends, Numbers
  <2>2. CASE Open
    BY <1>0, <2>0, <2>2 DEF Open, PortOpens
  <2>3. CASE CloseEnd
    BY <2>0, <2>3 DEF CloseEnd, PortCloses
  <2>4. CASE CloseBegin
    BY <2>0, <2>4 DEF CloseBegin
  <2>5. CASE CloseJoin \/ ResetCodec
    BY <2>0, <2>5, LinkFrame DEF CloseJoin, ResetCodec
  <2>6. CASE Rx
    BY <2>0, <2>6, LinkFrame
       DEF Rx, RxLoop, RxReady, RxNothing, RxError, RxReadNothing, RxRead, RxPush, RxQuiet
  <2>7. CASE Decoder
    BY <2>0, <2>7, LinkFrame
       DEF Decoder, DecReset, DecLoop, DecWait, DecPop, DecByte, DecBufferEnd,
           DecListenerReturns, DecQuiet
  <2>8. CASE UNCHANGED vars
    BY <2>0, <2>8, LinkFrame DEF vars
  <2>9. QED
    BY <2>1, <2>2, <2>3, <2>4, <2>5, <2>6, <2>7, <2>8 DEF Next, Closing
<1>3. Places'
  <2> USE DEF Places, reader, RxGoto, DecGoto
  <2>0. Places
    BY DEF Shape
  <2>1. CASE Device
    BY <2>0, <2>1 DEF Device, ByteArrives, ByteLost, ByteUnheard, PortFails, Sends
  <2>2. CASE Open \/ CloseBegin \/ Closing \/ ResetCodec
    BY <2>0, <2>2 DEF Open, CloseBegin, Closing, CloseJoin, CloseEnd, ResetCodec
  <2>3. CASE Rx
    BY <2>0, <2>3
       DEF Rx, RxLoop, RxReady, RxNothing, RxError, RxReadNothing, RxRead, RxPush, RxQuiet
  <2>4. CASE Decoder
    BY <2>0, <2>4
       DEF Decoder, DecReset, DecLoop, DecWait, DecPop, DecByte, DecBufferEnd,
           DecListenerReturns, DecQuiet
  <2>5. CASE UNCHANGED vars
    BY <2>0, <2>5 DEF vars
  <2>6. QED
    BY <2>1, <2>2, <2>3, <2>4, <2>5 DEF Next
<1>4. Bytes'
  <2> USE DEF Bytes, device, reader
  <2>0. Bytes
    BY DEF Shape
  <2>1. CASE Device
    <3>1. CASE ByteArrives
      <4>1. next \in Numbers /\ session \in 1 .. MaxSessions
        BY <1>0, <3>1 DEF ByteArrives, Sends, Shape, Counts
      <4>2. [n |-> next, s |-> session] \in Byte
        BY <4>1 DEF Byte
      <4>3. QED
        BY <2>0, <3>1, <4>2 DEF ByteArrives, Sends
    <3>2. CASE ByteLost \/ ByteUnheard \/ PortFails
      BY <2>0, <3>2 DEF ByteLost, ByteUnheard, PortFails, Sends
    <3>3. QED
      BY <2>1, <3>1, <3>2 DEF Device
  <2>2. CASE Open \/ CloseBegin \/ Closing \/ ResetCodec
    <3>1. CASE Open
      BY <2>0, <3>1 DEF Open, PortOpens
    <3>2. CASE CloseBegin \/ CloseJoin \/ ResetCodec
      BY <2>0, <3>2 DEF CloseBegin, CloseJoin, ResetCodec
    <3>3. CASE CloseEnd
      BY <2>0, <3>3 DEF CloseEnd, PortCloses
    <3>4. QED
      BY <2>2, <3>1, <3>2, <3>3 DEF Closing
  <2>3. CASE Rx
    <3>1. CASE RxRead
      <4>1. SubSeq(port, Len(hint) + 1, Len(port)) \in Seq(Byte)
        BY <2>0
      <4>2. QED
        BY <2>0, <3>1, <4>1 DEF RxRead, RxQuiet
    <3>2. CASE RxLoop \/ RxNothing \/ RxError
      BY <2>0, <3>2 DEF RxLoop, RxNothing, RxError, RxQuiet
    <3>3. CASE RxReady
      BY <2>0, <3>3 DEF RxReady, RxQuiet
    <3>4. CASE RxReadNothing
      BY <2>0, <3>4 DEF RxReadNothing, RxQuiet
    <3>5. CASE RxPush
      <4>1. port' = port /\ hint' = <<>> /\ cur' = cur
        BY Zenon, <3>5 DEF RxPush, RxQuiet
      <4>2. QED
        BY <2>0, <4>1
    <3>6. QED
      BY <2>3, <3>1, <3>2, <3>3, <3>4, <3>5 DEF Rx
  <2>4. CASE DecReset \/ DecLoop \/ DecWait \/ DecBufferEnd \/ DecListenerReturns
    BY <2>0, <2>4 DEF DecReset, DecLoop, DecWait, DecBufferEnd, DecListenerReturns, DecQuiet
  <2>5. CASE DecPop
    <3>1. queue # <<>> => Head(queue) \in Seq(Byte)
      BY BufferBytes DEF Shape, Queue
    <3>2. QED
      BY <2>0, <2>5, <3>1 DEF DecPop, DecQuiet
  <2>6. CASE DecByte
    BY <2>0, <2>6 DEF DecByte, DecQuiet
  <2>7. CASE UNCHANGED vars
    BY <2>0, <2>7 DEF vars
  <2>8. QED
    BY <2>1, <2>2, <2>3, <2>4, <2>5, <2>6, <2>7 DEF Next, Decoder
<1>5. Queue'
  <2> USE DEF Queue
  <2>0. Queue /\ hint \in Buffer
    BY BufferBytes DEF Shape, Bytes
  <2>1. CASE Device
    BY <2>0, <2>1 DEF Device, ByteArrives, ByteLost, ByteUnheard, PortFails, Sends
  <2>2. CASE Open \/ CloseBegin \/ Closing \/ ResetCodec
    <3>1. CASE Open \/ CloseBegin \/ CloseJoin \/ ResetCodec
      BY <2>0, <3>1 DEF Open, CloseBegin, CloseJoin, ResetCodec
    <3>2. CASE CloseEnd
      BY <3>2 DEF CloseEnd
    <3>3. QED
      BY <2>2, <3>1, <3>2 DEF Closing
  <2>3. CASE RxPush
    BY <2>0, <2>3 DEF RxPush
  <2>4. CASE RxLoop \/ RxReady \/ RxNothing \/ RxError \/ RxReadNothing \/ RxRead
    BY <2>0, <2>4 DEF RxLoop, RxReady, RxNothing, RxError, RxReadNothing, RxRead
  <2>5. CASE DecPop
    BY <2>0, <2>5 DEF DecPop
  <2>6. CASE DecReset \/ DecLoop \/ DecWait \/ DecByte \/ DecBufferEnd \/ DecListenerReturns
    BY <2>0, <2>6
       DEF DecReset, DecLoop, DecWait, DecByte, DecBufferEnd, DecListenerReturns
  <2>7. CASE UNCHANGED vars
    BY <2>0, <2>7 DEF vars
  <2>8. QED
    BY <2>1, <2>2, <2>3, <2>4, <2>5, <2>6, <2>7 DEF Next, Decoder, Rx
<1>6. CodecShape'
  <2> USE DEF CodecShape
  <2>0. CodecShape
    BY DEF Shape
  <2>1. CASE Device
    BY <2>0, <2>1, CodecFrame DEF Device, ByteArrives, ByteLost, ByteUnheard, PortFails, Sends
  <2>2. CASE Open \/ CloseBegin \/ Closing
    BY <2>0, <2>2, CodecFrame DEF Open, CloseBegin, Closing, CloseJoin, CloseEnd
  <2>3. CASE ResetCodec \/ DecReset
    <3>1. state' = "sync1" /\ len' = 1 /\ acc' = <<>> /\ delivered' = delivered
      BY Zenon, <2>3 DEF ResetCodec, DecReset, CodecFresh
    <3>2. QED
      BY <2>0, <3>1 DEF Kinds
  <2>4. CASE Rx
    BY <2>0, <2>4, CodecFrame
       DEF Rx, RxLoop, RxReady, RxNothing, RxError, RxReadNothing, RxRead, RxPush, RxQuiet
  <2>5. CASE DecLoop \/ DecWait \/ DecPop \/ DecBufferEnd \/ DecListenerReturns
    BY <2>0, <2>5, CodecFrame
       DEF DecLoop, DecWait, DecPop, DecBufferEnd, DecListenerReturns
  <2>6. CASE DecByte
    BY <2>6, CodecTyped
  <2>7. CASE UNCHANGED vars
    BY <2>0, <2>7, CodecFrame DEF vars
  <2>8. QED
    BY <2>1, <2>2, <2>3, <2>4, <2>5, <2>6, <2>7 DEF Next, Decoder
<1>7. QED
  BY <1>1, <1>2, <1>3, <1>4, <1>5, <1>6 DEF Shape

(***************************************************************************)
(* The shape holds at the start.                                           *)
(***************************************************************************)
LEMMA InitShape ==
  ASSUME Init
  PROVE  Shape
<1>1. Flags
  BY Zenon DEF Init, Flags
<1>2. Counts
  BY LinkAssumption DEF Init, Counts
<1>3. Places /\ Bytes
  BY DEF Init, Places, Bytes
<1>4. Queue
  BY DEF Init, Queue
<1>5. CodecShape
  BY DEF Init, CodecShape, Kinds
<1>6. QED
  BY <1>1, <1>2, <1>3, <1>4, <1>5 DEF Shape

(***************************************************************************)
(* Type correctness, for all constants.                                    *)
(***************************************************************************)
THEOREM TypeCorrect == Spec => []TypeOK
<1>1. Init => Shape
  BY InitShape
<1>2. Shape /\ [Next]_vars => Shape'
  BY StepsKeepShape
<1>3. Shape => TypeOK
  BY Zenon DEF Shape, Flags, Counts, Places, Bytes, Queue, CodecShape, TypeOK
<1>4. QED
  BY <1>1, <1>2, <1>3, PTL DEF Spec

-----------------------------------------------------------------------------
(***************************************************************************)
(* Where bytes can be, and of which session they are: when the port opens  *)
(* there are none left, for both threads have ended and the close that     *)
(* joined them emptied the queue.                                          *)
(***************************************************************************)
Life ==
  /\ dec \notin {"decode", "callback"} => cur = <<>>
  /\ rx \notin {"read", "push"} => hint = <<>>
  /\ caller \in {"join rx", "close"} => dec = "done"
  /\ caller = "close" => rx = "done"
  /\ caller # "idle" => working = FALSE
  /\ caller = "idle" /\ working = FALSE =>
       /\ dec \in {"none", "done"} /\ rx \in {"none", "done"}
       /\ queue = <<>>

Of(bytes) == \A i \in DOMAIN bytes : bytes[i].s = session

Current ==
  /\ Of(cur) /\ Of(hint) /\ Of(port)
  /\ \A i \in DOMAIN queue : Of(queue[i])

LEMMA StepsKeepLife ==
  ASSUME Shape, Life, [Next]_vars
  PROVE  Life'
<1> USE DEF Life, RxGoto, DecGoto, RxQuiet, DecQuiet, device, reader
<1>0. Places
  BY DEF Shape
<1>1. CASE Device
  <2>1. UNCHANGED <<working, caller, rx, hint, dec, cur, queue>>
    BY <1>1, LinkFrame DEF Device, ByteArrives, ByteLost, ByteUnheard, PortFails, Sends
  <2>2. QED
    BY <2>1
<1>2. CASE Open
  BY <1>0, <1>2 DEF Open
<1>3. CASE CloseBegin
  BY <1>0, <1>3 DEF CloseBegin
<1>4. CASE CloseJoin
  BY <1>0, <1>4, LinkFrame DEF CloseJoin
<1>5. CASE CloseEnd
  BY <1>0, <1>5 DEF CloseEnd
<1>6. CASE ResetCodec
  BY <1>6, LinkFrame DEF ResetCodec
<1>7. CASE Rx
  <2>1. UNCHANGED <<working, caller, dec, cur>> /\ rx \notin {"none", "done"}
    BY <1>7, LinkFrame
       DEF Rx, RxLoop, RxReady, RxNothing, RxError, RxReadNothing, RxRead, RxPush
  <2>2. rx' \notin {"read", "push"} => hint' = <<>>
    BY <1>0, <1>7
       DEF Rx, RxLoop, RxReady, RxNothing, RxError, RxReadNothing, RxRead, RxPush
  <2>3. QED
    BY <2>1, <2>2
<1>8. CASE Decoder
  <2>1. UNCHANGED <<working, caller, rx, hint>> /\ dec \notin {"none", "done"}
    BY <1>8, LinkFrame
       DEF Decoder, DecReset, DecLoop, DecWait, DecPop, DecByte, DecBufferEnd,
           DecListenerReturns
  <2>2. dec' \notin {"decode", "callback"} => cur' = <<>>
    BY <1>0, <1>8
       DEF Decoder, DecReset, DecLoop, DecWait, DecPop, DecByte, DecBufferEnd,
           DecListenerReturns
  <2>3. QED
    BY <2>1, <2>2
<1>9. CASE UNCHANGED vars
  BY <1>9, LinkFrame DEF vars
<1>10. QED
  BY <1>1, <1>2, <1>3, <1>4, <1>5, <1>6, <1>7, <1>8, <1>9 DEF Next, Closing

LEMMA StepsKeepCurrent ==
  ASSUME Shape, Life, Current, [Next]_vars
  PROVE  Current'
<1> USE DEF Current, Of, device, reader, RxQuiet, DecQuiet
<1>0. Bytes
  BY DEF Shape
<1>1. CASE Device
  <2>1. UNCHANGED <<session, hint, cur, queue>>
    BY <1>1, LinkFrame DEF Device, ByteArrives, ByteLost, ByteUnheard, PortFails, Sends
  <2>2. port' = port \/ port' = Append(port, [n |-> next, s |-> session])
    BY <1>1 DEF Device, ByteArrives, ByteLost, ByteUnheard, PortFails, Sends
  <2>3. ASSUME port' = Append(port, [n |-> next, s |-> session])
        PROVE  \A i \in DOMAIN port' : port'[i].s = session
    BY <1>0, <2>3 DEF Bytes
  <2>4. QED
    BY <2>1, <2>2, <2>3
<1>2. CASE Open
  <2>1. hint = <<>> /\ cur = <<>> /\ queue = <<>>
    BY <1>2 DEF Open, Life
  <2>2. hint' = <<>> /\ cur' = <<>> /\ queue' = <<>> /\ port' = <<>>
    BY <1>2, <2>1 DEF Open, PortOpens
  <2>3. QED
    BY <2>2
<1>3. CASE CloseBegin \/ CloseJoin \/ ResetCodec
  BY <1>3, LinkFrame DEF CloseBegin, CloseJoin, ResetCodec
<1>4. CASE CloseEnd
  <2>1. UNCHANGED <<session, hint, cur>> /\ queue' = <<>> /\ port' = <<>>
    BY <1>4 DEF CloseEnd, PortCloses
  <2>2. QED
    BY <2>1
<1>5. CASE Rx
  <2>1. UNCHANGED <<session, cur>>
    BY <1>5, LinkFrame
       DEF Rx, RxLoop, RxReady, RxNothing, RxError, RxReadNothing, RxRead, RxPush
  <2>2. Of(hint)'
    BY <1>5, <2>1
       DEF Rx, RxLoop, RxReady, RxNothing, RxError, RxReadNothing, RxRead, RxPush
  <2>3. Of(port)'
    <3>1. CASE RxRead
      BY <1>0, <2>1, <3>1 DEF RxRead, Bytes
    <3>2. CASE port' = port
      BY <2>1, <3>2
    <3>3. QED
      BY <1>5, <3>1, <3>2
         DEF Rx, RxLoop, RxReady, RxNothing, RxError, RxReadNothing, RxPush
  <2>4. \A i \in DOMAIN queue' : Of(queue[i])'
    <3>1. CASE RxPush
      BY <2>1, <3>1 DEF RxPush, Shape, Queue
    <3>2. CASE queue' = queue
      BY <2>1, <3>2
    <3>3. QED
      BY <1>5, <3>1, <3>2
         DEF Rx, RxLoop, RxReady, RxNothing, RxError, RxReadNothing, RxRead
  <2>5. QED
    BY <2>1, <2>2, <2>3, <2>4
<1>6. CASE Decoder
  <2>1. UNCHANGED <<session, hint, port>>
    BY <1>6, LinkFrame
       DEF Decoder, DecReset, DecLoop, DecWait, DecPop, DecByte, DecBufferEnd,
           DecListenerReturns
  <2>2. Of(cur)' /\ \A i \in DOMAIN queue' : Of(queue[i])'
    <3>1. CASE DecPop /\ queue # <<>>
      <4>1. cur' = Head(queue) /\ queue' = Tail(queue)
        BY <3>1 DEF DecPop
      <4>2. QED
        BY <2>1, <3>1, <4>1 DEF Shape, Queue
    <3>2. CASE DecByte
      BY <1>0, <2>1, <3>2 DEF DecByte, Bytes
    <3>3. CASE cur' = cur /\ queue' = queue
      BY <2>1, <3>3
    <3>4. QED
      BY <1>6, <3>1, <3>2, <3>3
         DEF Decoder, DecReset, DecLoop, DecWait, DecPop, DecBufferEnd,
             DecListenerReturns
  <2>3. QED
    BY <2>1, <2>2
<1>7. CASE UNCHANGED vars
  BY <1>7, LinkFrame DEF vars
<1>8. QED
  BY <1>1, <1>2, <1>3, <1>4, <1>5, <1>6, <1>7 DEF Next, Closing

(***************************************************************************)
(* The codec sees bytes of the present session only                        *)
(* (sl_async_transceiver.cpp:211 and :257), for all constants.             *)
(***************************************************************************)
THEOREM NothingStale == Spec => []NothingFromBefore
<1>1. Init => Shape /\ Life /\ Current
  <2> SUFFICES ASSUME Init
               PROVE  Shape /\ Life /\ Current
    OBVIOUS
  <2>1. /\ caller = "idle" /\ dec = "none" /\ rx = "none"
        /\ queue = <<>> /\ hint = <<>> /\ port = <<>> /\ cur = <<>>
    BY Zenon DEF Init
  <2>2. Life
    BY <2>1 DEF Life
  <2>3. Current
    BY <2>1 DEF Current, Of
  <2>4. QED
    BY <2>2, <2>3, InitShape
<1>2. Shape /\ Life /\ Current /\ [Next]_vars => Shape' /\ Life' /\ Current'
  BY StepsKeepShape, StepsKeepLife, StepsKeepCurrent
<1>3. Current => NothingFromBefore
  BY DEF Current, Of, NothingFromBefore
<1>4. QED
  BY <1>1, <1>2, <1>3, PTL DEF Spec

-----------------------------------------------------------------------------
(***************************************************************************)
(* The order of the bytes.  A byte goes from the port through the hint,    *)
(* the queue and the buffer under way to the codec and the listener; those *)
(* further on are older.  While a read is announced, the hint is the head  *)
(* of the port's bytes, which the read then takes.                         *)
(***************************************************************************)
Before(s, t) == \A i \in DOMAIN s, j \in DOMAIN t : s[i].n < t[j].n
Below(s, k) == \A i \in DOMAIN s : s[i].n < k
Above(s, k) == \A i \in DOMAIN s : k < s[i].n

PortOrder ==
  /\ Increasing(port) /\ Below(port, next)
  /\ Increasing(hint) /\ Below(hint, next)
  /\ rx = "read" => /\ Len(hint) <= Len(port)
                    /\ \A i \in DOMAIN hint : hint[i] = port[i]
  /\ rx = "push" => Before(hint, port)

Newer(s, h, p, k) == Before(s, h) /\ Before(s, p) /\ Below(s, k)

QueueOrder ==
  /\ \A i \in DOMAIN queue :
       Increasing(queue[i]) /\ Newer(queue[i], hint, port, next)
  /\ \A i, j \in DOMAIN queue : i < j => Before(queue[i], queue[j])

Ahead(s, q, h, p, k) ==
  /\ Increasing(s) /\ Newer(s, h, p, k)
  /\ \A i \in DOMAIN q : Before(s, q[i])

CodecOrder ==
  /\ \A s \in {cur, acc, delivered} : Ahead(s, queue, hint, port, next)
  /\ Before(acc, cur) /\ Before(delivered, cur) /\ Before(delivered, acc)

Order == PortOrder /\ QueueOrder /\ CodecOrder

(***************************************************************************)
(* Sequences of bytes: nothing, one more at the end, one less at the head, *)
(* and two in a row.                                                       *)
(***************************************************************************)
LEMMA NothingOrdered ==
  ASSUME NEW s, NEW k
  PROVE  Before(<<>>, s) /\ Before(s, <<>>) /\ Increasing(<<>>) /\ Below(<<>>, k)
BY DEF Before, Increasing, Below

LEMMA NumbersOf ==
  ASSUME NEW s \in Seq(Byte)
  PROVE  \A i \in DOMAIN s : s[i].n \in Int
<1>1. \A b \in Byte : b.n \in Int
  BY DEF Byte, Numbers
<1>2. \A i \in DOMAIN s : s[i] \in Byte
  OBVIOUS
<1>3. QED
  BY <1>1, <1>2

LEMMA AppendOrdered ==
  ASSUME NEW s \in Seq(Byte), NEW t \in Seq(Byte), NEW b \in Byte, NEW k \in Int
  PROVE  /\ Increasing(s) /\ Below(s, b.n) => Increasing(Append(s, b))
         /\ Before(t, s) /\ Below(t, b.n) => Before(t, Append(s, b))
         /\ Before(s, t) /\ Above(t, b.n) => Before(Append(s, b), t)
         /\ Below(s, k) /\ b.n < k => Below(Append(s, b), k)
<1> DEFINE a == Append(s, b)
<1>1. /\ DOMAIN s = 1 .. Len(s) /\ DOMAIN a = 1 .. Len(s) + 1 /\ Len(s) \in Nat
      /\ \A i \in DOMAIN s : a[i] = s[i]
      /\ a[Len(s) + 1] = b
  OBVIOUS
<1>2. \A i \in DOMAIN a : i \in DOMAIN s \/ i = Len(s) + 1
  BY <1>1
<1> HIDE DEF a
<1>3. Increasing(s) /\ Below(s, b.n) => Increasing(a)
  BY <1>1, <1>2 DEF Increasing, Below
<1>4. Before(t, s) /\ Below(t, b.n) => Before(t, a)
  BY <1>1, <1>2 DEF Before, Below
<1>5. Before(s, t) /\ Above(t, b.n) => Before(a, t)
  BY <1>1, <1>2 DEF Before, Above
<1>6. Below(s, k) /\ b.n < k => Below(a, k)
  BY <1>1, <1>2 DEF Below
<1>7. QED
  BY <1>3, <1>4, <1>5, <1>6 DEF a

LEMMA TailOrdered ==
  ASSUME NEW s \in Seq(Byte), s # <<>>, NEW t \in Seq(Byte), NEW k \in Int
  PROVE  /\ Increasing(s) => Increasing(Tail(s)) /\ Above(Tail(s), Head(s).n)
         /\ Before(t, s) => Before(t, Tail(s)) /\ Below(t, Head(s).n)
         /\ Before(s, t) => Before(Tail(s), t) /\ Above(t, Head(s).n)
         /\ Below(s, k) => Below(Tail(s), k) /\ Head(s).n < k
<1> DEFINE r == Tail(s)
           h == Head(s)
<1>1. /\ 1 \in DOMAIN s /\ h = s[1]
      /\ \A i \in DOMAIN r : i + 1 \in DOMAIN s /\ r[i] = s[i + 1] /\ i > 0 /\ i \in Int
  OBVIOUS
<1> HIDE DEF r, h
<1>2. Increasing(s) => Increasing(r) /\ Above(r, h.n)
  <2>1. Increasing(s) => Increasing(r)
    <3>1. \A i, j \in DOMAIN r : i < j => i + 1 < j + 1
      BY <1>1
    <3>2. QED
      BY <1>1, <3>1 DEF Increasing
  <2>2. Increasing(s) => Above(r, h.n)
    <3>1. \A i \in DOMAIN r : 1 < i + 1
      BY <1>1
    <3>2. QED
      BY <1>1, <3>1 DEF Increasing, Above
  <2>3. QED
    BY <2>1, <2>2
<1>3. Before(t, s) => Before(t, r) /\ Below(t, h.n)
  BY <1>1 DEF Before, Below
<1>4. Before(s, t) => Before(r, t) /\ Above(t, h.n)
  BY <1>1 DEF Before, Above
<1>5. Below(s, k) => Below(r, k) /\ h.n < k
  BY <1>1 DEF Below
<1>6. QED
  BY <1>2, <1>3, <1>4, <1>5 DEF r, h

LEMMA ConcatOrdered ==
  ASSUME NEW s \in Seq(Byte), NEW t \in Seq(Byte),
         Increasing(s), Increasing(t), Before(s, t)
  PROVE  Increasing(s \o t)
BY DEF Before, Increasing

(***************************************************************************)
(* What a read takes from the port is before what it leaves.               *)
(***************************************************************************)
LEMMA ReadOrdered ==
  ASSUME NEW p \in Seq(Byte), NEW h \in Seq(Byte), NEW k \in Int,
         Len(h) <= Len(p), \A i \in DOMAIN h : h[i] = p[i]
  PROVE  LET rest == SubSeq(p, Len(h) + 1, Len(p))
         IN  /\ Increasing(p) => Increasing(rest) /\ Before(h, rest)
             /\ Below(p, k) => Below(rest, k)
             /\ \A s : Before(s, p) => Before(s, rest)
<1> DEFINE rest == SubSeq(p, Len(h) + 1, Len(p))
<1>1. /\ rest \in Seq(Byte) /\ Len(rest) = Len(p) - Len(h)
      /\ \A i \in DOMAIN rest : Len(h) + i \in DOMAIN p /\ rest[i] = p[Len(h) + i]
  OBVIOUS
<1> HIDE DEF rest
<1>2. Increasing(p) => Increasing(rest)
  BY <1>1 DEF Increasing
<1>3. Increasing(p) => Before(h, rest)
  <2>1. \A i \in DOMAIN h, j \in DOMAIN rest :
          i \in DOMAIN p /\ Len(h) + j \in DOMAIN p /\ i < Len(h) + j
    BY <1>1
  <2>2. QED
    BY <1>1, <2>1 DEF Increasing, Before
<1>4. Below(p, k) => Below(rest, k)
  BY <1>1 DEF Below
<1>5. \A s : Before(s, p) => Before(s, rest)
  BY <1>1 DEF Before
<1>6. QED
  BY <1>2, <1>3, <1>4, <1>5 DEF rest

(***************************************************************************)
(* What no step changes: what is ahead of the bytes to come stays so.      *)
(***************************************************************************)
LEMMA BelowLater ==
  ASSUME NEW s \in Seq(Byte), NEW k \in Int, NEW m \in Int, k <= m, Below(s, k)
  PROVE  Below(s, m)
BY NumbersOf DEF Below

LEMMA NextGrows ==
  ASSUME Shape, [Next]_vars
  PROVE  next \in Int /\ next' \in Int /\ next <= next'
<1> USE DEF device, RxQuiet, DecQuiet
<1>1. next \in Int
  BY DEF Shape, Counts, Numbers
<1>2. CASE Device
  BY <1>1, <1>2 DEF Device, ByteArrives, ByteLost, ByteUnheard, PortFails, Sends
<1>3. CASE Open \/ CloseBegin \/ Closing \/ ResetCodec
  <2>1. CASE CloseEnd
    BY <1>1, <2>1 DEF CloseEnd
  <2>2. CASE Open
    BY <1>1, <2>2 DEF Open
  <2>3. CASE CloseBegin \/ CloseJoin \/ ResetCodec
    <3>1. next' = next
      BY Zenon, <2>3 DEF CloseBegin, CloseJoin, ResetCodec
    <3>2. QED
      BY <1>1, <3>1
  <2>4. QED
    BY <1>3, <2>1, <2>2, <2>3 DEF Closing
<1>4. CASE Rx
  BY <1>1, <1>4
     DEF Rx, RxLoop, RxReady, RxNothing, RxError, RxReadNothing, RxRead, RxPush
<1>5. CASE Decoder
  BY <1>1, <1>5
     DEF Decoder, DecReset, DecLoop, DecWait, DecPop, DecByte, DecBufferEnd,
         DecListenerReturns
<1>6. CASE UNCHANGED vars
  BY <1>1, <1>6 DEF vars
<1>7. QED
  BY <1>2, <1>3, <1>4, <1>5, <1>6 DEF Next

\* what a step does to the port and the hint
LEMMA PortSteps ==
  ASSUME Shape, [Next]_vars
  PROVE  \/ UNCHANGED <<port, hint, rx>>
         \/ UNCHANGED <<hint, rx>> /\ ByteArrives
         \/ hint' = hint /\ port' = <<>> /\ (Open \/ CloseEnd)
         \/ UNCHANGED <<port, hint>> /\ rx' \notin {"read", "push"}
         \/ rx' = "read" /\ hint' = port /\ port' = port
         \/ RxRead
         \/ port' = port /\ hint' = <<>> /\ rx' \notin {"read", "push"}
<1> USE DEF device, reader, RxQuiet, DecQuiet, RxGoto, DecGoto
<1>1. CASE Device
  BY <1>1 DEF Device, ByteArrives, ByteLost, ByteUnheard, PortFails, Sends
<1>2. CASE Open \/ CloseEnd
  BY <1>2 DEF Open, CloseEnd, PortOpens, PortCloses
<1>3. CASE CloseBegin \/ CloseJoin \/ ResetCodec
  BY <1>3 DEF CloseBegin, CloseJoin, ResetCodec
<1>4. CASE RxLoop \/ RxNothing \/ RxError
  BY <1>4 DEF RxLoop, RxNothing, RxError
<1>5. CASE RxReady
  BY <1>5 DEF RxReady
<1>6. CASE RxReadNothing \/ RxPush
  BY <1>6 DEF RxReadNothing, RxPush
<1>7. CASE Decoder
  BY <1>7
     DEF Decoder, DecReset, DecLoop, DecWait, DecPop, DecByte, DecBufferEnd,
         DecListenerReturns
<1>8. CASE UNCHANGED vars
  BY <1>8 DEF vars
<1>9. QED
  BY <1>1, <1>2, <1>3, <1>4, <1>5, <1>6, <1>7, <1>8 DEF Next, Closing, Rx

\* what the arriving byte is
LEMMA Arrival ==
  ASSUME Shape, ByteArrives
  PROVE  \E b \in Byte : b.n = next /\ port' = Append(port, b) /\ next' = next + 1
<1>1. next \in Numbers /\ session \in 1 .. MaxSessions
  BY LinkAssumption DEF ByteArrives, Sends, Shape, Counts
<1>2. [n |-> next, s |-> session] \in Byte
  BY <1>1 DEF Byte
<1>3. QED
  BY <1>2 DEF ByteArrives, Sends

LEMMA NewerStays ==
  ASSUME Shape, PortOrder, [Next]_vars, NEW s \in Seq(Byte),
         Newer(s, hint, port, next)
  PROVE  Newer(s, hint', port', next')
<1>0. port \in Seq(Byte) /\ hint \in Seq(Byte)
  BY DEF Shape, Bytes
<1>1. Below(s, next')
  BY NextGrows, BelowLater DEF Newer
<1>2. Before(s, hint) /\ Before(s, port) /\ Below(s, next)
  BY DEF Newer
<1>3. CASE hint' = hint /\ ByteArrives
  <2>1. PICK b \in Byte : b.n = next /\ port' = Append(port, b)
    BY <1>3, Arrival
  <2>2. Before(s, port')
    BY <1>0, <1>2, <2>1, NextGrows, AppendOrdered
  <2>3. QED
    BY <1>1, <1>2, <1>3, <2>2 DEF Newer
<1>4. CASE RxRead
  <2>1. hint' = hint /\ port' = SubSeq(port, Len(hint) + 1, Len(port)) /\ rx = "read"
    BY <1>4 DEF RxRead, RxGoto
  <2>2. Before(s, port')
    BY <1>0, <1>2, <2>1, NextGrows, ReadOrdered DEF PortOrder
  <2>3. QED
    BY <1>1, <1>2, <2>1, <2>2 DEF Newer
<1>5. CASE hint' \in {hint, port, <<>>} /\ port' \in {port, <<>>}
  BY <1>1, <1>2, <1>5, NothingOrdered DEF Newer
<1>6. QED
  BY <1>3, <1>4, <1>5, PortSteps

LEMMA StepsKeepPortOrder ==
  ASSUME Shape, Life, PortOrder, [Next]_vars
  PROVE  PortOrder'
<1>0. port \in Seq(Byte) /\ hint \in Seq(Byte)
  BY DEF Shape, Bytes
<1>1. Below(port, next') /\ Below(hint, next')
  BY <1>0, NextGrows, BelowLater DEF PortOrder
<1>2. CASE UNCHANGED <<hint, rx>> /\ ByteArrives
  <2>1. PICK b \in Byte : b.n = next /\ port' = Append(port, b) /\ next' = next + 1
    BY <1>2, Arrival
  <2>2. Increasing(port') /\ Below(port', next')
    BY <1>0, <1>1, <2>1, NextGrows, AppendOrdered DEF PortOrder
  <2>3. rx = "push" => Before(hint, port')
    BY <1>0, <2>1, NextGrows, AppendOrdered DEF PortOrder
  <2>4. rx = "read" => /\ Len(hint) <= Len(port')
                       /\ \A i \in DOMAIN hint : hint[i] = port'[i]
    BY <1>0, <2>1 DEF PortOrder
  <2>5. QED
    BY <1>1, <1>2, <2>2, <2>3, <2>4 DEF PortOrder
<1>3. CASE hint' = hint /\ port' = <<>> /\ (Open \/ CloseEnd)
  <2>1. rx' \notin {"read", "push"}
    BY <1>3 DEF Open, CloseEnd, reader, Life
  <2>2. QED
    BY <1>1, <1>3, <2>1, NothingOrdered DEF PortOrder
<1>4. CASE RxRead
  <2>1. /\ hint' = hint /\ port' = SubSeq(port, Len(hint) + 1, Len(port))
        /\ rx = "read" /\ rx' = "push"
    BY <1>4 DEF RxRead, RxGoto
  <2>2. Increasing(port') /\ Before(hint, port') /\ Below(port', next')
    BY <1>0, <1>1, <2>1, NextGrows, ReadOrdered DEF PortOrder
  <2>3. QED
    BY <1>1, <2>1, <2>2 DEF PortOrder
<1>5. CASE rx' = "read" /\ hint' = port /\ port' = port
  BY <1>0, <1>1, <1>5 DEF PortOrder
<1>6. CASE UNCHANGED <<port, hint, rx>>
  BY <1>1, <1>6 DEF PortOrder
<1>7. CASE port' = port /\ hint' \in {hint, <<>>} /\ rx' \notin {"read", "push"}
  BY <1>1, <1>7, NothingOrdered DEF PortOrder
<1>8. QED
  BY <1>2, <1>3, <1>4, <1>5, <1>6, <1>7, PortSteps

LEMMA QueueSteps ==
  ASSUME Shape, [Next]_vars
  PROVE  \/ queue' \in {queue, <<>>}
         \/ RxPush
         \/ queue # <<>> /\ queue' = Tail(queue) /\ DecPop
<1> USE DEF reader
<1>1. CASE Device
  BY <1>1 DEF Device, ByteArrives, ByteLost, ByteUnheard, PortFails, Sends
<1>2. CASE Open \/ CloseBegin \/ CloseJoin \/ ResetCodec
  BY <1>2 DEF Open, CloseBegin, CloseJoin, ResetCodec
<1>3. CASE CloseEnd
  BY <1>3 DEF CloseEnd
<1>4. CASE RxLoop \/ RxReady \/ RxNothing \/ RxError \/ RxReadNothing \/ RxRead
  BY <1>4 DEF RxLoop, RxReady, RxNothing, RxError, RxReadNothing, RxRead
<1>5. CASE Decoder
  BY <1>5
     DEF Decoder, DecReset, DecLoop, DecWait, DecPop, DecByte, DecBufferEnd,
         DecListenerReturns
<1>6. CASE UNCHANGED vars
  BY <1>6 DEF vars
<1>7. QED
  BY <1>1, <1>2, <1>3, <1>4, <1>5, <1>6 DEF Next, Closing, Rx

LEMMA AheadStays ==
  ASSUME Shape, PortOrder, [Next]_vars, NEW s \in Seq(Byte),
         Ahead(s, queue, hint, port, next)
  PROVE  Ahead(s, queue', hint', port', next')
<1>1. Newer(s, hint', port', next') /\ Increasing(s) /\ Before(s, hint)
  BY NewerStays DEF Ahead, Newer
<1>2. \A i \in DOMAIN queue' : Before(s, queue'[i])
  <2>1. queue \in Seq(Buffer) /\ \A i \in DOMAIN queue : Before(s, queue[i])
    BY DEF Shape, Queue, Ahead
  <2>2. CASE RxPush
    <3>1. queue' = Append(queue, hint)
      BY <2>2 DEF RxPush
    <3>2. QED
      BY <1>1, <2>1, <3>1
  <2>3. CASE queue # <<>> /\ queue' = Tail(queue)
    BY <2>1, <2>3
  <2>4. CASE queue' \in {queue, <<>>}
    BY <2>1, <2>4
  <2>5. QED
    BY <2>2, <2>3, <2>4, QueueSteps
<1>3. QED
  BY <1>1, <1>2 DEF Ahead

LEMMA StepsKeepQueueOrder ==
  ASSUME Shape, PortOrder, QueueOrder, [Next]_vars
  PROVE  QueueOrder'
<1>1. queue \in Seq(Buffer) /\ \A i \in DOMAIN queue : queue[i] \in Seq(Byte)
  BY BufferBytes DEF Shape, Queue
<1>2. \A i \in DOMAIN queue :
        Increasing(queue[i]) /\ Newer(queue[i], hint', port', next')
  BY <1>1, NewerStays DEF QueueOrder
<1>3. \A i, j \in DOMAIN queue : i < j => Before(queue[i], queue[j])
  BY DEF QueueOrder
<1>4. CASE RxPush
  <2>1. /\ queue' = Append(queue, hint) /\ hint' = <<>> /\ port' = port
        /\ rx = "push"
    BY <1>4 DEF RxPush, RxGoto
  <2>2. Increasing(hint) /\ Newer(hint, hint', port', next')
    <3>1. hint \in Seq(Byte) /\ Below(hint, next) /\ Before(hint, port)
          /\ Increasing(hint)
      BY <2>1 DEF PortOrder, Shape, Bytes
    <3>2. Below(hint, next')
      BY <3>1, NextGrows, BelowLater
    <3>3. QED
      BY <2>1, <3>1, <3>2, NothingOrdered DEF Newer
  <2>3. \A i \in DOMAIN queue : Before(queue[i], hint)
    BY DEF QueueOrder, Newer
  <2>4. /\ DOMAIN queue' = 1 .. Len(queue) + 1 /\ DOMAIN queue = 1 .. Len(queue)
        /\ \A i \in DOMAIN queue : queue'[i] = queue[i]
        /\ queue'[Len(queue) + 1] = hint /\ Len(queue) \in Nat
    BY <1>1, <2>1
  <2>5. \A i \in DOMAIN queue' : i \in DOMAIN queue \/ i = Len(queue) + 1
    BY <2>4
  <2>6. \A i, j \in DOMAIN queue' : i < j => Before(queue'[i], queue'[j])
    <3>1. \A i, j \in DOMAIN queue' : i < j => i \in DOMAIN queue
      BY <2>4
    <3>2. QED
      BY <1>3, <2>3, <2>4, <2>5, <3>1
  <2>7. \A i \in DOMAIN queue' :
          Increasing(queue'[i]) /\ Newer(queue'[i], hint', port', next')
    BY <1>2, <2>2, <2>4, <2>5
  <2>8. QED
    BY <2>6, <2>7 DEF QueueOrder
<1>5. CASE queue # <<>> /\ queue' = Tail(queue)
  <2>1. \A i \in DOMAIN queue' : i + 1 \in DOMAIN queue /\ queue'[i] = queue[i + 1]
    BY <1>1, <1>5
  <2>2. \A i, j \in DOMAIN queue' : i < j => i + 1 < j + 1
    BY <1>1, <1>5
  <2>3. QED
    BY <1>2, <1>3, <2>1, <2>2 DEF QueueOrder
<1>6. CASE queue' = queue
  BY <1>2, <1>3, <1>6 DEF QueueOrder
<1>7. CASE queue' = <<>>
  BY <1>7 DEF QueueOrder
<1>8. QED
  BY <1>4, <1>5, <1>6, <1>7, QueueSteps

(***************************************************************************)
(* A byte leaves the buffer for the codec, and a whole payload the codec   *)
(* for the listener.                                                       *)
(***************************************************************************)
LEMMA ByteSteps ==
  ASSUME Shape, DecByte
  PROVE  LET b == Head(cur)
         IN  /\ cur # <<>> /\ cur' = Tail(cur)
             /\ \/ delivered' = delivered /\ acc' \in {acc, <<>>, Append(acc, b)}
                \/ delivered' = Append(acc, b) /\ acc' = <<>>
<1> DEFINE b == Head(cur)
<1>1. /\ cur # <<>> /\ cur' = Tail(cur)
      /\ delivered' = IF Completes THEN Append(acc, b) ELSE delivered
      /\ Hunt(b) \/ Locked(b) \/ SizeByte(b) \/ TypeByte(b) \/ PayloadByte(b)
  BY DEF DecByte
<1>2. CASE Completes
  <2>1. state = "data" /\ Len(acc) + 1 = len
    BY <1>2 DEF Completes, Shape, CodecShape
  <2>2. acc' = <<>>
    BY <1>1, <2>1 DEF Hunt, Locked, SizeByte, TypeByte, PayloadByte
  <2>3. QED
    BY <1>1, <1>2, <2>2
<1>3. CASE ~Completes
  <2>1. acc' \in {acc, <<>>, Append(acc, b)}
    BY <1>1 DEF Hunt, Locked, SizeByte, TypeByte, PayloadByte
  <2>2. QED
    BY <1>1, <1>3, <2>1
<1>4. QED
  BY <1>2, <1>3

LEMMA ByteOrdered ==
  ASSUME Shape, CodecOrder, DecByte
  PROVE  CodecOrder'
<1> DEFINE b == Head(cur)
           more == Append(acc, b)
           rest == Tail(cur)
           Front(s) == Ahead(s, queue, hint, port, next)
<1>1. /\ UNCHANGED <<queue, hint, port, next>>
      /\ cur # <<>> /\ cur' = rest
      /\ \/ delivered' = delivered /\ acc' \in {acc, <<>>, more}
         \/ delivered' = more /\ acc' = <<>>
  BY ByteSteps DEF DecByte, DecQuiet, device, reader
<1>2. /\ cur \in Seq(Byte) /\ acc \in Seq(Byte) /\ delivered \in Seq(Byte)
      /\ port \in Seq(Byte) /\ hint \in Seq(Byte) /\ next \in Int
      /\ \A i \in DOMAIN queue : queue[i] \in Seq(Byte)
  BY BufferBytes DEF Shape, Bytes, Queue, CodecShape, Counts, Numbers
<1>3. b \in Byte /\ rest \in Seq(Byte) /\ more \in Seq(Byte)
  BY <1>1, <1>2
<1>4. /\ Front(cur) /\ Front(acc) /\ Front(delivered)
      /\ Before(acc, cur) /\ Before(delivered, cur) /\ Before(delivered, acc)
  BY DEF CodecOrder
<1> HIDE DEF b, more, rest
<1>5. /\ Above(rest, b.n) /\ Increasing(rest) /\ Below(acc, b.n) /\ Below(delivered, b.n)
      /\ Before(acc, rest) /\ Before(delivered, rest)
  BY <1>1, <1>2, <1>4, TailOrdered DEF Ahead, b, rest
<1>6. Front(rest) /\ Above(port, b.n) /\ Above(hint, b.n) /\ b.n < next
      /\ \A i \in DOMAIN queue : Above(queue[i], b.n)
  BY <1>1, <1>2, <1>4, TailOrdered DEF Ahead, Newer, b, rest
<1>7. Front(more)
  BY <1>2, <1>3, <1>4, <1>5, <1>6, AppendOrdered DEF Ahead, Newer, more
<1>8. Before(more, rest) /\ Before(delivered, more)
  BY <1>2, <1>3, <1>4, <1>5, AppendOrdered DEF more
<1>9. Front(<<>>)
  BY NothingOrdered DEF Ahead, Newer
<1>10. QED
  BY <1>1, <1>4, <1>5, <1>6, <1>7, <1>8, <1>9, NothingOrdered DEF CodecOrder

LEMMA StepsKeepCodecOrder ==
  ASSUME Shape, Life, PortOrder, QueueOrder, CodecOrder, [Next]_vars
  PROVE  CodecOrder'
<1> DEFINE Front(s) == Ahead(s, queue', hint', port', next')
<1>1. Front(cur) /\ Front(acc) /\ Front(delivered)
  BY AheadStays DEF CodecOrder, Shape, Bytes, CodecShape
<1>2. Front(<<>>)
  BY NothingOrdered DEF Ahead, Newer
<1>3. CASE DecByte
  BY <1>3, ByteOrdered
<1>4. CASE UNCHANGED <<cur, acc, delivered>>
  BY <1>1, <1>4 DEF CodecOrder
<1>5. CASE cur' = cur /\ acc' = <<>> /\ delivered' = delivered
  BY <1>1, <1>2, <1>5, NothingOrdered DEF CodecOrder
<1>6. CASE DecPop /\ queue # <<>>
  <2>1. cur' = queue[1] /\ queue' = Tail(queue)
        /\ UNCHANGED <<hint, port, next, delivered>> /\ 1 \in DOMAIN queue
    BY <1>6 DEF DecPop, DecQuiet, device, reader, Shape, Queue
  <2>2. acc' = acc
    BY <1>6, CodecFrame DEF DecPop
  <2>3. Increasing(queue[1]) /\ Newer(queue[1], hint', port', next')
    BY <2>1 DEF QueueOrder
  <2>4. \A i \in DOMAIN queue' :
          i + 1 \in DOMAIN queue /\ 1 < i + 1 /\ queue'[i] = queue[i + 1]
    BY <2>1, <1>6 DEF Shape, Queue
  <2>5. \A i \in DOMAIN queue' : Before(queue[1], queue'[i])
    BY <2>1, <2>4 DEF QueueOrder
  <2>6. Front(cur')
    BY <2>1, <2>3, <2>5 DEF Ahead
  <2>7. Before(acc, cur') /\ Before(delivered, cur')
    BY <2>1 DEF CodecOrder, Ahead
  <2>8. QED
    BY <1>1, <2>1, <2>2, <2>6, <2>7 DEF CodecOrder
<1>7. QED
  <2> USE DEF device, reader, DecQuiet, RxQuiet
  <2>1. CASE Device
    BY <1>4, <2>1, CodecFrame DEF Device, ByteArrives, ByteLost, ByteUnheard, PortFails, Sends
  <2>2. CASE Open \/ CloseBegin \/ Closing
    BY <1>4, <2>2, CodecFrame DEF Open, CloseBegin, Closing, CloseJoin, CloseEnd
  <2>3. CASE ResetCodec \/ DecReset
    <3>1. cur' = cur /\ acc' = <<>> /\ delivered' = delivered
      BY Zenon, <2>3 DEF ResetCodec, DecReset, CodecFresh
    <3>2. QED
      BY <1>5, <3>1
  <2>4. CASE Rx
    BY <1>4, <2>4, CodecFrame
       DEF Rx, RxLoop, RxReady, RxNothing, RxError, RxReadNothing, RxRead, RxPush
  <2>5. CASE DecLoop \/ DecWait \/ DecBufferEnd \/ DecListenerReturns
    BY <1>4, <2>5, CodecFrame DEF DecLoop, DecWait, DecBufferEnd, DecListenerReturns
  <2>6. CASE DecPop /\ queue = <<>>
    BY <1>4, <2>6, CodecFrame DEF DecPop
  <2>7. CASE UNCHANGED vars
    BY <1>4, <2>7, CodecFrame DEF vars
  <2>8. QED
    BY <1>3, <1>6, <2>1, <2>2, <2>3, <2>4, <2>5, <2>6, <2>7 DEF Next, Decoder

(***************************************************************************)
(* Messages are in the order of the device, and each newer than those      *)
(* before it, for all constants: any losses, sizes and reopenings.         *)
(***************************************************************************)
THEOREM OrderKept == Spec => BytesInOrder
<1> DEFINE IInv == Shape /\ Life /\ Order
<1>1. Init => IInv
  <2> SUFFICES ASSUME Init
               PROVE  IInv
    OBVIOUS
  <2>1. /\ caller = "idle" /\ dec = "none" /\ rx = "none" /\ queue = <<>>
        /\ hint = <<>> /\ port = <<>> /\ cur = <<>> /\ acc = <<>> /\ delivered = <<>>
    BY Zenon DEF Init
  <2>2. Life
    BY <2>1 DEF Life
  <2>3. PortOrder /\ QueueOrder
    BY <2>1, NothingOrdered DEF PortOrder, QueueOrder
  <2>4. CodecOrder
    BY <2>1, NothingOrdered DEF CodecOrder, Ahead, Newer
  <2>5. QED
    BY <2>2, <2>3, <2>4, InitShape DEF Order
<1>2. IInv /\ [Next]_vars => IInv'
  BY StepsKeepShape, StepsKeepLife, StepsKeepPortOrder, StepsKeepQueueOrder,
     StepsKeepCodecOrder DEF Order
<1>3. IInv /\ IInv' /\ [Next]_vars => [Increasing(delivered \o delivered')]_delivered
  <2> SUFFICES ASSUME IInv, IInv', [Next]_vars, delivered' # delivered
               PROVE  Increasing(delivered \o delivered')
    OBVIOUS
  <2>1. CASE DecByte
    <3>1. delivered' = Append(acc, Head(cur)) /\ cur # <<>>
      BY <2>1, ByteSteps
    <3>2. /\ delivered \in Seq(Byte) /\ delivered' \in Seq(Byte)
          /\ acc \in Seq(Byte) /\ cur \in Seq(Byte)
      BY DEF Shape, CodecShape, Bytes
    <3>3. /\ Increasing(delivered) /\ Increasing(delivered')
          /\ Before(delivered, acc) /\ Before(delivered, cur)
      BY DEF Order, CodecOrder, Ahead
    <3>4. Head(cur) \in Byte /\ Below(delivered, Head(cur).n)
      BY <3>1, <3>2, <3>3, TailOrdered
    <3>5. Before(delivered, delivered')
      BY <3>1, <3>2, <3>3, <3>4, AppendOrdered
    <3>6. QED
      BY <3>2, <3>3, <3>5, ConcatOrdered
  <2>2. CASE ~DecByte
    <3> USE DEF device, DecQuiet, RxQuiet
    <3>1. CASE Device \/ Open \/ CloseBegin \/ Closing \/ ResetCodec
      BY <3>1
         DEF Device, ByteArrives, ByteLost, ByteUnheard, PortFails, Sends, Open,
             CloseBegin, Closing, CloseJoin, CloseEnd, ResetCodec
    <3>2. CASE Rx
      BY <3>2
         DEF Rx, RxLoop, RxReady, RxNothing, RxError, RxReadNothing, RxRead, RxPush
    <3>3. CASE Decoder
      BY <2>2, <3>3
         DEF Decoder, DecReset, DecLoop, DecWait, DecPop, DecBufferEnd,
             DecListenerReturns
    <3>4. CASE UNCHANGED vars
      BY <3>4 DEF vars
    <3>5. QED
      BY <3>1, <3>2, <3>3, <3>4 DEF Next
  <2>3. QED
    BY <2>1, <2>2
<1>4. QED
  BY <1>1, <1>2, <1>3, PTL DEF Spec, BytesInOrder

-----------------------------------------------------------------------------
(***************************************************************************)
(* Whole messages.  The bytes between the port and the codec, and the      *)
(* number of the byte the codec took last.                                 *)
(***************************************************************************)
NumbersIn(s) == {s[i].n : i \in DOMAIN s}
InQueue(q) == UNION {NumbersIn(q[i]) : i \in DOMAIN q}
Waiting == NumbersIn(cur) \cup InQueue(queue) \cup NumbersIn(hint) \cup NumbersIn(port)

Upwards(k, bytes) == \A m \in Numbers : k < m /\ m < next => m \in bytes

\* no byte is missing between one that waits and the device
Gapless ==
  losses = 0 /\ opened = TRUE => \A k \in Waiting : k < next /\ Upwards(k, Waiting)

LastTaken(p) ==
  p \in Numbers /\ p < next /\ (\A k \in Waiting : p < k) /\ Upwards(p, Waiting)

\* the bytes received of the size field or the payload come from k on
From(k) == \A i \in DOMAIN acc : acc[i].n = k + i - 1

AtSize(p) ==
  LET h == p - Len(acc) - 1
  IN h \in Numbers /\ Header(h) /\ Len(acc) < SizeLen /\ From(h + 2)

AtType(p) ==
  LET h == p - SizeLen - 1
  IN h \in Numbers /\ Header(h) /\ len = Script[h + 2].len /\ loop = Script[h + 2].loop

AtData(p) ==
  LET m == p - Len(acc) + 1
  IN From(m) /\ Payload(m, len, loop)

\* what the codec's state says of the byte it took last
At(p) ==
  /\ state = "sync1" => Begins(p + 1)
  /\ state = "sync2" => Begins(p)
  /\ state = "size" => AtSize(p)
  /\ state = "type" => AtType(p)
  /\ state = "data" => AtData(p)

InPlace ==
  losses = 0 /\ opened = TRUE /\ dec # "reset" /\ inStep = TRUE =>
    \E p \in Numbers : LastTaken(p) /\ At(p)

Alive == dec \notin {"none", "done"} => opened = TRUE

Whole == Shape /\ Life /\ Order /\ Alive /\ Gapless /\ InPlace

(***************************************************************************)
(* The numbers in sequences of bytes and in queues of them.                *)
(***************************************************************************)
LEMMA NumbersOfTail ==
  ASSUME NEW s \in Seq(Byte), s # <<>>
  PROVE  NumbersIn(s) = NumbersIn(Tail(s)) \cup {Head(s).n}
<1> DEFINE r == Tail(s)
           h == Head(s)
<1>1. /\ DOMAIN s = 1 .. Len(s) /\ Len(s) \in Nat /\ Len(s) > 0
      /\ DOMAIN r = 1 .. Len(s) - 1 /\ h = s[1]
      /\ \A i \in DOMAIN r : r[i] = s[i + 1]
  OBVIOUS
<1> HIDE DEF r, h
<1>2. \A i \in DOMAIN r : i + 1 \in DOMAIN s
  BY <1>1
<1>3. \A i \in DOMAIN s : i = 1 \/ (i - 1 \in DOMAIN r /\ s[i] = r[i - 1])
  BY <1>1
<1>4. 1 \in DOMAIN s
  BY <1>1
<1>5. NumbersIn(s) = NumbersIn(r) \cup {h.n}
  BY <1>1, <1>2, <1>3, <1>4 DEF NumbersIn
<1>6. QED
  BY <1>5 DEF r, h

LEMMA NumbersOfAppend ==
  ASSUME NEW s \in Seq(Byte), NEW b \in Byte
  PROVE  NumbersIn(Append(s, b)) = NumbersIn(s) \cup {b.n}
<1> DEFINE a == Append(s, b)
<1>1. /\ DOMAIN s = 1 .. Len(s) /\ DOMAIN a = 1 .. Len(s) + 1 /\ Len(s) \in Nat
      /\ \A i \in DOMAIN s : a[i] = s[i]
      /\ a[Len(s) + 1] = b
  OBVIOUS
<1>2. /\ \A i \in DOMAIN a : i \in DOMAIN s \/ i = Len(s) + 1
      /\ \A i \in DOMAIN s : i \in DOMAIN a
      /\ Len(s) + 1 \in DOMAIN a
  BY <1>1
<1> HIDE DEF a
<1>3. NumbersIn(a) = NumbersIn(s) \cup {b.n}
  BY <1>1, <1>2 DEF NumbersIn
<1>4. QED
  BY <1>3 DEF a

LEMMA NumbersOfRead ==
  ASSUME NEW p \in Seq(Byte), NEW h \in Seq(Byte), Len(h) <= Len(p),
         \A i \in DOMAIN h : h[i] = p[i]
  PROVE  /\ NumbersIn(h) \subseteq NumbersIn(p)
         /\ NumbersIn(p) = NumbersIn(h) \cup NumbersIn(SubSeq(p, Len(h) + 1, Len(p)))
<1> DEFINE r == SubSeq(p, Len(h) + 1, Len(p))
           k == Len(h)
<1>1. /\ DOMAIN p = 1 .. Len(p) /\ Len(p) \in Nat /\ k \in Nat /\ DOMAIN h = 1 .. k
      /\ DOMAIN r = 1 .. Len(p) - k
      /\ \A i \in DOMAIN r : r[i] = p[k + i]
  OBVIOUS
<1>2. k <= Len(p)
  OBVIOUS
<1> HIDE DEF r, k
<1>3. /\ \A i \in DOMAIN h : i \in DOMAIN p
      /\ \A i \in DOMAIN r : k + i \in DOMAIN p
  BY <1>1, <1>2
<1>4. \A i \in DOMAIN p : i \in DOMAIN h \/ (i - k \in DOMAIN r /\ r[i - k] = p[i])
  BY <1>1, <1>2
<1>5. NumbersIn(h) \subseteq NumbersIn(p)
  BY <1>3 DEF NumbersIn
<1>6. NumbersIn(p) = NumbersIn(h) \cup NumbersIn(r)
  BY <1>1, <1>3, <1>4 DEF NumbersIn
<1>7. QED
  BY <1>5, <1>6 DEF r, k

LEMMA NothingNumbered == NumbersIn(<<>>) = {} /\ InQueue(<<>>) = {}
BY DEF NumbersIn, InQueue

LEMMA QueueNumbers ==
  ASSUME NEW q \in Seq(Buffer), NEW h \in Buffer
  PROVE  /\ InQueue(Append(q, h)) = InQueue(q) \cup NumbersIn(h)
         /\ q # <<>> => InQueue(q) = InQueue(Tail(q)) \cup NumbersIn(Head(q))
<1>1. InQueue(Append(q, h)) = InQueue(q) \cup NumbersIn(h)
  <2> DEFINE a == Append(q, h)
  <2>1. /\ DOMAIN q = 1 .. Len(q) /\ DOMAIN a = 1 .. Len(q) + 1 /\ Len(q) \in Nat
        /\ \A i \in DOMAIN q : a[i] = q[i]
        /\ a[Len(q) + 1] = h
    OBVIOUS
  <2>2. /\ \A i \in DOMAIN a : i \in DOMAIN q \/ i = Len(q) + 1
        /\ \A i \in DOMAIN q : i \in DOMAIN a
        /\ Len(q) + 1 \in DOMAIN a
    BY <2>1
  <2> HIDE DEF a
  <2>3. InQueue(a) = InQueue(q) \cup NumbersIn(h)
    BY <2>1, <2>2 DEF InQueue
  <2>4. QED
    BY <2>3 DEF a
<1>2. ASSUME q # <<>>
      PROVE  InQueue(q) = InQueue(Tail(q)) \cup NumbersIn(Head(q))
  <2> DEFINE r == Tail(q)
             f == Head(q)
  <2>1. /\ DOMAIN q = 1 .. Len(q) /\ Len(q) \in Nat /\ Len(q) > 0
        /\ DOMAIN r = 1 .. Len(q) - 1 /\ f = q[1]
        /\ \A i \in DOMAIN r : r[i] = q[i + 1]
    BY <1>2
  <2> HIDE DEF r, f
  <2>2. /\ \A i \in DOMAIN r : i + 1 \in DOMAIN q
        /\ \A i \in DOMAIN q : i = 1 \/ (i - 1 \in DOMAIN r /\ q[i] = r[i - 1])
        /\ 1 \in DOMAIN q
    BY <2>1
  <2>3. InQueue(q) = InQueue(r) \cup NumbersIn(f)
    BY <2>1, <2>2 DEF InQueue
  <2>4. QED
    BY <2>3 DEF r, f
<1>3. QED
  BY <1>1, <1>2

LEMMA StepsKeepAlive ==
  ASSUME Shape, Life, Alive, [Next]_vars
  PROVE  Alive'
<1> USE DEF Alive, device, RxQuiet, DecQuiet, DecGoto
<1>1. CASE Device
  BY <1>1, LinkFrame DEF Device, ByteArrives, ByteLost, ByteUnheard, PortFails, Sends
<1>2. CASE Open
  BY <1>2 DEF Open, PortOpens
<1>3. CASE CloseBegin
  BY <1>3 DEF CloseBegin
<1>4. CASE CloseJoin \/ ResetCodec
  BY <1>4, LinkFrame DEF CloseJoin, ResetCodec
<1>5. CASE CloseEnd
  BY <1>5 DEF CloseEnd, Life
<1>6. CASE Rx
  BY <1>6, LinkFrame
     DEF Rx, RxLoop, RxReady, RxNothing, RxError, RxReadNothing, RxRead, RxPush
<1>7. CASE Decoder
  BY <1>7, LinkFrame
     DEF Decoder, DecReset, DecLoop, DecWait, DecPop, DecByte, DecBufferEnd,
         DecListenerReturns
<1>8. CASE UNCHANGED vars
  BY <1>8, LinkFrame DEF vars
<1>9. QED
  BY <1>1, <1>2, <1>3, <1>4, <1>5, <1>6, <1>7, <1>8 DEF Next, Closing

(***************************************************************************)
(* What a step does to the bytes that wait, as long as the line loses none *)
(* and the port stays open.                                                *)
(***************************************************************************)
Moves ==
  /\ losses' = losses /\ opened' = opened /\ delivered' = delivered
  /\ \/ UNCHANGED codec /\ (dec = "reset" => dec' = "reset")
     \/ inStep' = FALSE

LEMMA ReadKeepsWaiting ==
  ASSUME Shape, Life, PortOrder, Rx
  PROVE  Waiting' = Waiting
<1> USE DEF RxQuiet, RxGoto
<1>0. port \in Seq(Byte) /\ hint \in Seq(Byte) /\ queue \in Seq(Buffer) /\ hint \in Buffer
  BY BufferBytes DEF Shape, Bytes, Queue
<1>1. CASE RxLoop \/ RxNothing \/ RxError
  BY <1>1 DEF RxLoop, RxNothing, RxError, Waiting
<1>2. CASE RxReady
  <2>1. cur' = cur /\ queue' = queue /\ port' = port /\ hint' = port /\ hint = <<>>
    BY <1>2 DEF RxReady, Life
  <2>2. QED
    BY <2>1, NothingNumbered DEF Waiting
<1>3. CASE RxRead
  <2>1. /\ cur' = cur /\ queue' = queue /\ hint' = hint /\ rx = "read"
        /\ port' = SubSeq(port, Len(hint) + 1, Len(port))
    BY <1>3 DEF RxRead
  <2>2. Len(hint) <= Len(port) /\ \A i \in DOMAIN hint : hint[i] = port[i]
    BY <2>1 DEF PortOrder
  <2>3. NumbersIn(port) = NumbersIn(hint) \cup NumbersIn(port')
    BY <1>0, <2>1, <2>2, NumbersOfRead
  <2>4. QED
    BY <2>1, <2>3 DEF Waiting
<1>4. CASE RxReadNothing
  <2>1. cur' = cur /\ queue' = queue /\ port' = port /\ hint' = <<>> /\ rx = "read"
    BY <1>4 DEF RxReadNothing
  <2>2. Len(hint) <= Len(port) /\ \A i \in DOMAIN hint : hint[i] = port[i]
    BY <2>1 DEF PortOrder
  <2>3. NumbersIn(hint) \subseteq NumbersIn(port)
    BY <1>0, <2>2, NumbersOfRead
  <2>4. QED
    BY <2>1, <2>3, NothingNumbered DEF Waiting
<1>5. CASE RxPush
  <2>1. cur' = cur /\ queue' = Append(queue, hint) /\ port' = port /\ hint' = <<>>
    BY <1>5 DEF RxPush
  <2>2. InQueue(queue') = InQueue(queue) \cup NumbersIn(hint)
    BY <1>0, <2>1, QueueNumbers
  <2>3. QED
    BY <2>1, <2>2, NothingNumbered DEF Waiting
<1>6. QED
  BY <1>1, <1>2, <1>3, <1>4, <1>5 DEF Rx

LEMMA StepsMove ==
  ASSUME Shape, Life, Order, [Next]_vars, ~DecByte, losses' = 0, opened' = TRUE
  PROVE  /\ losses = 0 /\ delivered' = delivered
         /\ \/ dec' = "reset" /\ Waiting' = {}
            \/ /\ Moves
               /\ \/ Waiting' = Waiting /\ next' = next
                  \/ Waiting' = Waiting \cup {next} /\ next' = next + 1
<1> USE DEF device, RxQuiet, DecQuiet, DecGoto
<1>0. /\ losses \in Nat /\ opened \in BOOLEAN /\ PortOrder
      /\ port \in Seq(Byte) /\ queue \in Seq(Buffer)
  BY DEF Shape, Counts, Flags, Order, Bytes, Queue
<1>1. CASE Device
  <2>1. CASE ByteArrives
    <3>1. PICK b \in Byte : b.n = next /\ port' = Append(port, b) /\ next' = next + 1
      BY <2>1, Arrival
    <3>2. NumbersIn(port') = NumbersIn(port) \cup {next}
      BY <1>0, <3>1, NumbersOfAppend
    <3>3. UNCHANGED <<losses, link, hint, queue, dec, cur, codec, delivered>>
      BY <2>1 DEF ByteArrives, Sends, reader
    <3>4. Waiting' = Waiting \cup {next}
      BY <3>2, <3>3 DEF Waiting
    <3>5. QED
      BY <3>1, <3>3, <3>4, LinkFrame DEF Moves
  <2>2. CASE ByteLost
    BY <1>0, <2>2 DEF ByteLost
  <2>3. CASE ByteUnheard
    BY <2>3, LinkFrame DEF ByteUnheard, Sends
  <2>4. CASE PortFails
    <3>1. UNCHANGED <<next, losses, port, link, hint, queue, dec, cur, codec, delivered>>
      BY <2>4 DEF PortFails, reader
    <3>2. Waiting' = Waiting
      BY <3>1 DEF Waiting
    <3>3. QED
      BY <3>1, <3>2, LinkFrame DEF Moves
  <2>5. QED
    BY <1>1, <2>1, <2>2, <2>3, <2>4 DEF Device
<1>2. CASE Open
  <2>1. /\ cur' = cur /\ queue' = queue /\ hint' = hint /\ port' = <<>>
        /\ losses' = losses /\ delivered' = delivered /\ dec' = "reset"
    BY <1>2 DEF Open, PortOpens
  <2>2. cur = <<>> /\ queue = <<>> /\ hint = <<>>
    BY <1>2 DEF Life, Open
  <2>3. QED
    BY <2>1, <2>2, NothingNumbered DEF Waiting
<1>3. CASE CloseBegin \/ CloseJoin
  <2>1. /\ UNCHANGED <<next, losses, port, hint, queue, dec, cur, codec, delivered>>
        /\ opened' = opened
    BY <1>3, LinkFrame DEF CloseBegin, CloseJoin, reader
  <2>2. Waiting' = Waiting
    BY <2>1 DEF Waiting
  <2>3. QED
    BY <2>1, <2>2 DEF Moves
<1>4. CASE CloseEnd
  BY <1>4 DEF CloseEnd, PortCloses
<1>5. CASE ResetCodec \/ DecReset
  <2>1. /\ UNCHANGED <<next, losses, port, hint, queue, cur, delivered, link>>
        /\ inStep' = FALSE
    BY Zenon, <1>5 DEF ResetCodec, DecReset, CodecFresh, reader
  <2>2. Waiting' = Waiting
    BY <2>1 DEF Waiting
  <2>3. QED
    BY <2>1, <2>2, LinkFrame DEF Moves
<1>6. CASE Rx
  <2>1. UNCHANGED <<next, losses, link, dec, codec, delivered>>
    BY <1>6 DEF Rx, RxLoop, RxReady, RxNothing, RxError, RxReadNothing, RxRead, RxPush
  <2>2. Waiting' = Waiting
    BY <1>0, <1>6, ReadKeepsWaiting
  <2>3. QED
    BY <2>1, <2>2, LinkFrame DEF Moves
<1>7. CASE DecLoop \/ DecWait \/ DecPop \/ DecBufferEnd \/ DecListenerReturns
  <2>1. UNCHANGED <<next, losses, port, hint, link, codec, delivered>> /\ dec # "reset"
    BY <1>7 DEF DecLoop, DecWait, DecPop, DecBufferEnd, DecListenerReturns, reader
  <2>2. Waiting' = Waiting
    <3>1. CASE DecPop /\ queue # <<>>
      <4>1. cur' = Head(queue) /\ queue' = Tail(queue) /\ cur = <<>>
        BY <3>1 DEF DecPop, Life
      <4>2. InQueue(queue) = InQueue(queue') \cup NumbersIn(cur')
        <5>1. Head(queue) \in Buffer
          BY <1>0, <3>1
        <5>2. QED
          BY <1>0, <3>1, <4>1, <5>1, QueueNumbers
      <4>3. QED
        BY <2>1, <4>1, <4>2, NothingNumbered DEF Waiting
    <3>2. CASE cur' = cur /\ queue' = queue
      BY <2>1, <3>2 DEF Waiting
    <3>3. QED
      BY <1>7, <3>1, <3>2 DEF DecLoop, DecWait, DecPop, DecBufferEnd, DecListenerReturns
  <2>3. QED
    BY <2>1, <2>2, LinkFrame DEF Moves
<1>8. CASE UNCHANGED vars
  <2>1. UNCHANGED <<next, losses, port, hint, queue, dec, cur, link, codec, delivered>>
    BY <1>8 DEF vars, reader
  <2>2. Waiting' = Waiting
    BY <2>1 DEF Waiting
  <2>3. QED
    BY <2>1, <2>2, LinkFrame DEF Moves
<1>9. QED
  BY <1>1, <1>2, <1>3, <1>4, <1>5, <1>6, <1>7, <1>8 DEF Next, Closing, Decoder

(***************************************************************************)
(* The codec takes the oldest byte that waits.                             *)
(***************************************************************************)
LEMMA ByteTaken ==
  ASSUME Shape, Order, DecByte
  PROVE  LET b == Head(cur)
         IN  /\ b \in Byte /\ b.n \in Numbers /\ b.n < next
             /\ Waiting = Waiting' \cup {b.n}
             /\ \A k \in Waiting' : b.n < k
             /\ UNCHANGED <<next, losses, link>> /\ dec = "decode"
<1> DEFINE b == Head(cur)
           rest == Tail(cur)
<1>1. /\ UNCHANGED <<next, losses, link, queue, hint, port>> /\ dec = "decode"
      /\ cur # <<>> /\ cur' = rest
  BY DEF DecByte, DecQuiet, DecGoto, device, reader
<1>2. /\ cur \in Seq(Byte) /\ port \in Seq(Byte) /\ hint \in Seq(Byte) /\ next \in Int
      /\ \A i \in DOMAIN queue : queue[i] \in Seq(Byte)
  BY BufferBytes DEF Shape, Bytes, Queue, Counts, Numbers
<1>3. b \in Byte /\ b.n \in Numbers
  <2>1. b \in Byte
    BY <1>1, <1>2
  <2>2. QED
    BY <2>1 DEF Byte
<1>4. NumbersIn(cur) = NumbersIn(rest) \cup {b.n}
  BY <1>1, <1>2, NumbersOfTail
<1>5. Ahead(cur, queue, hint, port, next)
  BY DEF Order, CodecOrder
<1> HIDE DEF b, rest
<1>6. /\ Above(rest, b.n) /\ Above(port, b.n) /\ Above(hint, b.n) /\ b.n < next
      /\ \A i \in DOMAIN queue : Above(queue[i], b.n)
  BY <1>1, <1>2, <1>5, TailOrdered DEF Ahead, Newer, b, rest
<1>7. \A k \in Waiting' : b.n < k
  BY <1>1, <1>6 DEF Waiting, InQueue, NumbersIn, Above
<1>8. Waiting = Waiting' \cup {b.n}
  BY <1>1, <1>4 DEF Waiting
<1>9. QED
  BY <1>1, <1>3, <1>6, <1>7, <1>8 DEF b

LEMMA WaitingNumbers ==
  ASSUME Shape
  PROVE  Waiting \subseteq Numbers
<1>1. \A s \in Seq(Byte) : NumbersIn(s) \subseteq Numbers
  <2>1. \A s \in Seq(Byte) : \A i \in DOMAIN s : s[i] \in Byte
    OBVIOUS
  <2>2. \A b \in Byte : b.n \in Numbers
    BY DEF Byte
  <2>3. QED
    BY <2>1, <2>2 DEF NumbersIn
<1>2. \A i \in DOMAIN queue : queue[i] \in Seq(Byte)
  BY BufferBytes DEF Shape, Queue
<1>3. InQueue(queue) \subseteq Numbers
  BY <1>1, <1>2 DEF InQueue
<1>4. QED
  BY <1>1, <1>3 DEF Waiting, Shape, Bytes

LEMMA StepsKeepGapless ==
  ASSUME Shape, Life, Order, Gapless, [Next]_vars
  PROVE  Gapless'
<1> SUFFICES ASSUME losses' = 0, opened' = TRUE, NEW k \in Waiting'
             PROVE  k < next' /\ Upwards(k, Waiting)'
  BY DEF Gapless
<1>1. next \in Int
  BY NextGrows
<1>2. CASE DecByte
  <2>1. PICK b \in Byte : b = Head(cur) /\ b.n \in Numbers
    BY <1>2, ByteTaken
  <2>2. /\ next' = next /\ losses' = losses /\ opened' = opened
        /\ Waiting = Waiting' \cup {b.n} /\ \A j \in Waiting' : b.n < j
    BY <1>2, <2>1, ByteTaken, LinkFrame
  <2>3. k < next /\ Upwards(k, Waiting) /\ b.n < k
    BY <2>2 DEF Gapless
  <2>4. k \in Int
    BY <2>2, WaitingNumbers DEF Numbers
  <2>5. QED
    BY <2>1, <2>2, <2>3, <2>4 DEF Upwards, Numbers
<1>3. CASE ~DecByte
  <2>1. /\ losses = 0
        /\ \/ Waiting' = {}
           \/ opened' = opened /\ Waiting' = Waiting /\ next' = next
           \/ opened' = opened /\ Waiting' = Waiting \cup {next} /\ next' = next + 1
    BY <1>3, StepsMove DEF Moves
  <2>2. CASE opened' = opened /\ Waiting' = Waiting /\ next' = next
    BY <2>1, <2>2 DEF Gapless, Upwards
  <2>3. CASE opened' = opened /\ Waiting' = Waiting \cup {next} /\ next' = next + 1
    <3>1. CASE k = next
      BY <1>1, <2>3, <3>1 DEF Upwards, Numbers
    <3>2. CASE k \in Waiting
      <4>1. k < next /\ Upwards(k, Waiting) /\ k \in Int
        BY <2>1, <2>3, <3>2, WaitingNumbers DEF Gapless, Numbers
      <4>2. \A m \in Numbers : m < next + 1 => m < next \/ m = next
        BY <1>1 DEF Numbers
      <4>3. QED
        BY <1>1, <2>3, <4>1, <4>2 DEF Upwards
    <3>3. QED
      BY <2>3, <3>1, <3>2
  <2>4. QED
    BY <2>1, <2>2, <2>3
<1>4. QED
  BY <1>2, <1>3

(***************************************************************************)
(* Steps that leave the codec alone leave it in its place.                 *)
(***************************************************************************)
LEMMA LastStaysTaken ==
  ASSUME next \in Int, next' \in Int, NEW p \in Numbers, LastTaken(p),
         \/ Waiting' = Waiting /\ next' = next
         \/ Waiting' = Waiting \cup {next} /\ next' = next + 1
  PROVE  LastTaken(p)'
<1>1. p < next /\ (\A k \in Waiting : p < k) /\ Upwards(p, Waiting) /\ p \in Int
  BY DEF LastTaken, Numbers
<1>2. \A m \in Numbers : m < next + 1 => m < next \/ m = next
  BY DEF Numbers
<1>3. QED
  BY <1>1, <1>2 DEF LastTaken, Upwards

LEMMA PlaceKept ==
  ASSUME Shape, Life, Order, InPlace, [Next]_vars, ~DecByte
  PROVE  InPlace'
<1> SUFFICES ASSUME losses' = 0, opened' = TRUE, dec' # "reset", inStep' = TRUE
             PROVE  \E p \in Numbers : LastTaken(p)' /\ At(p)'
  BY DEF InPlace
<1>1. /\ losses = 0 /\ opened = TRUE /\ dec # "reset" /\ UNCHANGED codec
      /\ \/ Waiting' = Waiting /\ next' = next
         \/ Waiting' = Waiting \cup {next} /\ next' = next + 1
  BY StepsMove DEF Moves
<1>2. state' = state /\ loop' = loop /\ len' = len /\ acc' = acc
      /\ inStep' = inStep
  BY <1>1, CodecFrame
<1>3. PICK p \in Numbers : LastTaken(p) /\ At(p)
  BY <1>1, <1>2 DEF InPlace
<1>4. LastTaken(p)'
  BY <1>1, <1>3, NextGrows, LastStaysTaken
<1>5. At(p)'
  BY <1>2, <1>3 DEF At, AtSize, AtType, AtData, From
<1>6. QED
  BY <1>4, <1>5

(***************************************************************************)
(* A byte the codec takes: it is the one after the last, and the state it  *)
(* brings the codec to says so.                                            *)
(***************************************************************************)
LEMMA ByteFollows ==
  ASSUME Shape, Order, Alive, Gapless, InPlace, DecByte, losses = 0, inStep = TRUE
  PROVE  \E p \in Numbers : At(p) /\ Head(cur).n = p + 1
<1>1. PICK b \in Byte : b = Head(cur)
  BY ByteTaken
<1>2. /\ b.n \in Numbers /\ b.n < next /\ dec = "decode"
      /\ Waiting = Waiting' \cup {b.n} /\ \A k \in Waiting' : b.n < k
  BY <1>1, ByteTaken
<1>3. PICK p \in Numbers : LastTaken(p) /\ At(p)
  BY <1>2 DEF InPlace, Alive
<1>4. p < b.n /\ Upwards(p, Waiting) /\ p \in Int /\ b.n \in Int
  BY <1>2, <1>3 DEF LastTaken, Numbers
<1>5. CASE p + 1 < b.n
  <2>1. p + 1 \in Numbers /\ p + 1 < next /\ next \in Int
    BY <1>2, <1>4, <1>5 DEF Numbers, Shape, Counts
  <2>2. p + 1 \in Waiting
    BY <1>4, <2>1 DEF Upwards
  <2>3. QED
    BY <1>2, <1>4, <1>5, <2>2
<1>6. QED
  BY <1>1, <1>3, <1>4, <1>5

LEMMA TakenIsLast ==
  ASSUME Shape, Order, Alive, Gapless, DecByte, losses = 0,
         NEW b \in Byte, b = Head(cur)
  PROVE  LastTaken(b.n)'
<1>1. /\ b.n \in Numbers /\ b.n < next /\ dec = "decode" /\ next' = next
      /\ Waiting = Waiting' \cup {b.n} /\ \A k \in Waiting' : b.n < k
  BY ByteTaken
<1>2. Upwards(b.n, Waiting)
  BY <1>1 DEF Gapless, Alive
<1>3. \A m \in Numbers : b.n < m => m # b.n
  BY <1>1 DEF Numbers
<1>4. QED
  BY <1>1, <1>2, <1>3 DEF LastTaken, Upwards

(***************************************************************************)
(* The sync bytes: a codec in step finds those of the message that begins, *)
(* and one that is not in step is so when it has locked on a header.       *)
(***************************************************************************)
LEMMA HuntInPlace ==
  ASSUME Shape, NEW b \in Byte, NEW p \in Numbers, b.n = p + 1, At(p), Hunt(b)
  PROVE  At(b.n)'
<1>1. state = "sync1" /\ b.n \in Numbers /\ Begins(p + 1)
  BY DEF Hunt, At, Byte
<1>2. Script[b.n].kind = "sync1" /\ Begins(b.n)
  BY <1>1 DEF Begins
<1>3. state' = "sync2"
  BY <1>1, <1>2 DEF Hunt, HasSync1, Kind
<1>4. QED
  BY <1>2, <1>3 DEF At

LEMMA HeaderLocked ==
  ASSUME NEW b \in Byte, Header(b.n - 1), state' = "size", acc' = <<>>
  PROVE  At(b.n)'
<1> DEFINE h == b.n - 1
<1>1. h \in Numbers /\ b.n \in Int /\ Len(acc') = 0 /\ SizeLen \in Nat \ {0}
  BY LinkAssumption DEF Header, Byte, Numbers
<1>2. b.n - Len(acc') - 1 = h
  BY <1>1
<1>3. Len(acc') < SizeLen /\ From(h + 2)'
  BY <1>1 DEF From
<1>4. AtSize(b.n)'
  BY <1>1, <1>2, <1>3 DEF AtSize
<1>5. QED
  BY <1>4 DEF At

LEMMA LockedInPlace ==
  ASSUME Shape, NEW b \in Byte, Locked(b), inStep' = TRUE,
         inStep = TRUE => \E p \in Numbers : At(p) /\ b.n = p + 1
  PROVE  At(b.n)'
<1>0. inStep \in BOOLEAN
  BY DEF Shape, Flags
<1>1. CASE inStep = TRUE
  <2>1. PICK p \in Numbers : At(p) /\ b.n = p + 1
    BY <1>1
  <2>2. state = "sync2" /\ b.n \in Numbers /\ p \in Int /\ Begins(p)
    BY <2>1 DEF Locked, At, Byte, Numbers
  <2>3. Script[p].kind = "sync1" /\ Script[b.n].kind = "sync2"
    BY <2>1, <2>2 DEF Begins
  <2>4. Header(p) /\ b.n - 1 = p
    BY <2>1, <2>2, <2>3 DEF Header
  <2>5. state' = "size" /\ acc' = <<>>
    BY <2>3 DEF Locked, HasSync2, Kind
  <2>6. QED
    BY <2>4, <2>5, HeaderLocked
<1>2. CASE inStep = FALSE
  <2>1. HasSync2(b)
    BY <1>2 DEF Locked
  <2>2. state' = "size" /\ acc' = <<>> /\ Header(b.n - 1)
    BY <1>2, <2>1 DEF Locked
  <2>3. QED
    BY <2>2, HeaderLocked
<1>3. QED
  BY <1>0, <1>1, <1>2

\* the received bytes and one more
LEMMA FromAppend ==
  ASSUME NEW s \in Seq(Byte), NEW b \in Byte, NEW k \in Int,
         \A i \in DOMAIN s : s[i].n = k + i - 1, b.n = k + Len(s)
  PROVE  \A i \in DOMAIN Append(s, b) : Append(s, b)[i].n = k + i - 1
<1> DEFINE a == Append(s, b)
<1>1. /\ DOMAIN s = 1 .. Len(s) /\ DOMAIN a = 1 .. Len(s) + 1 /\ Len(s) \in Nat
      /\ \A i \in DOMAIN s : a[i] = s[i]
      /\ a[Len(s) + 1] = b
  OBVIOUS
<1> HIDE DEF a
<1>2. \A i \in DOMAIN a : a[i].n = k + i - 1
  <2> SUFFICES ASSUME NEW i \in DOMAIN a
               PROVE  a[i].n = k + i - 1
    OBVIOUS
  <2>1. CASE i \in DOMAIN s
    BY <1>1, <2>1
  <2>2. CASE i = Len(s) + 1
    BY <1>1, <2>2
  <2>3. QED
    BY <1>1, <2>1, <2>2
<1>3. QED
  BY <1>2 DEF a

LEMMA SizeField ==
  ASSUME NEW k \in Numbers, Header(k)
  PROVE  \A i \in 2 .. SizeLen + 1 : k + i \in Numbers => Script[k + i].kind = "size"
BY Zenon, DeviceAssumption

\* a byte of the size field
LEMMA SizeInPlace ==
  ASSUME Shape, NEW b \in Byte, NEW p \in Numbers, b.n = p + 1, At(p), SizeByte(b)
  PROVE  At(b.n)'
<1> DEFINE field == Append(acc, b)
<1>1. /\ state = "size" /\ acc \in Seq(Byte) /\ field \in Seq(Byte) /\ SizeLen \in Nat
      /\ Len(field) = Len(acc) + 1 /\ Len(acc) \in Nat /\ p \in Int /\ b.n \in Numbers
  BY LinkAssumption DEF SizeByte, Shape, CodecShape, Numbers, Byte
<1>2. PICK h \in Numbers :
        h = p - Len(acc) - 1 /\ Header(h) /\ Len(acc) < SizeLen /\ From(h + 2)
  BY <1>1 DEF At, AtSize
<1>3. h \in Int /\ b.n = h + 2 + Len(acc)
  BY <1>1, <1>2 DEF Numbers
<1>4. \A i \in DOMAIN field : field[i].n = h + 2 + i - 1
  BY <1>1, <1>2, <1>3, FromAppend DEF From
<1>5. CASE Len(field) < SizeLen
  <2>1. acc' = field /\ state' = state
    BY <1>5 DEF SizeByte
  <2>2. From(h + 2)' /\ Len(acc') < SizeLen
    BY <1>4, <1>5, <2>1 DEF From
  <2>3. b.n - Len(acc') - 1 = h
    BY <1>1, <1>3, <2>1
  <2>4. AtSize(b.n)'
    BY <1>2, <2>2, <2>3 DEF AtSize
  <2>5. QED
    BY <1>1, <2>1, <2>4 DEF At
<1>6. CASE ~(Len(field) < SizeLen)
  <2>1. Len(field) = SizeLen /\ DOMAIN field = 1 .. SizeLen /\ 1 \in DOMAIN field
    BY <1>1, <1>2, <1>6
  <2>2. field[1].n = h + 2
    BY <1>3, <1>4, <2>1
  <2>3. Genuine(field)
    <3> SUFFICES ASSUME NEW i \in DOMAIN field
                 PROVE  Kind(field[i]) = "size" /\ field[i].n = field[1].n + i - 1
      BY DEF Genuine
    <3>1. i \in 1 .. SizeLen /\ i \in Int /\ field[i] \in Byte
      BY <1>1, <2>1
    <3>2. field[i].n = h + (i + 1) /\ i + 1 \in 2 .. SizeLen + 1
      <4>1. field[i].n = h + 2 + i - 1
        BY Zenon, <1>4
      <4>2. QED
        BY <1>1, <1>3, <3>1, <4>1
    <3>3. field[i].n \in Numbers
      BY <3>1 DEF Byte
    <3>4. \A j \in 2 .. SizeLen + 1 : h + j \in Numbers => Script[h + j].kind = "size"
      BY <1>2, SizeField
    <3>5. Script[h + (i + 1)].kind = "size"
      BY <3>2, <3>3, <3>4
    <3>6. QED
      BY <1>3, <1>4, <2>2, <3>2, <3>5 DEF Kind
  <2>4. PICK v \in Sizes(field) :
          state' = "type" /\ acc' = <<>> /\ len' = v.len /\ loop' = v.loop
    BY <1>6 DEF SizeByte
  <2>5. len' = Script[h + 2].len /\ loop' = Script[h + 2].loop
    BY <2>2, <2>3, <2>4 DEF Sizes
  <2>6. b.n - SizeLen - 1 = h
    BY <1>1, <1>3, <2>1
  <2>7. AtType(b.n)'
    BY <1>2, <2>5, <2>6 DEF AtType
  <2>8. QED
    BY <2>4, <2>7 DEF At
<1>7. QED
  BY <1>5, <1>6

\* the type
LEMMA TypeInPlace ==
  ASSUME Shape, NEW b \in Byte, NEW p \in Numbers, b.n = p + 1, At(p), TypeByte(b)
  PROVE  At(b.n)'
<1> DEFINE h == p - SizeLen - 1
           k == h + SizeLen + 3
<1>1. /\ state = "type" /\ acc = <<>> /\ acc' = <<>> /\ len \in Nat /\ p \in Int
      /\ b.n \in Int /\ SizeLen \in Nat
  BY LinkAssumption DEF TypeByte, Shape, CodecShape, Numbers
<1>2. h \in Numbers /\ Header(h) /\ len = Script[h + 2].len /\ loop = Script[h + 2].loop
  BY <1>1 DEF At, AtType
<1>3. b.n + 1 = k
  BY <1>1
<1>4. b.n - Len(acc') + 1 = k
  BY <1>1
<1> HIDE DEF h
<1>5. k \in Numbers => IF len = 0 THEN Begins(k) ELSE Payload(k, len, loop)
  BY Zenon, <1>2, DeviceAssumption
<1>6. IF len = 0 THEN Begins(k) ELSE Payload(k, len, loop)
  BY <1>5 DEF Begins, Payload
<1> HIDE DEF k
<1>7. CASE len = 0
  <2>1. state' = "sync1"
    BY <1>7 DEF TypeByte
  <2>2. Begins(b.n + 1)
    BY <1>3, <1>6, <1>7
  <2>3. QED
    BY <2>1, <2>2 DEF At
<1>8. CASE len # 0
  <2>1. state' = "data" /\ loop' = loop /\ len' = len
    BY <1>8 DEF TypeByte
  <2>2. From(k)'
    BY <1>1 DEF From
  <2>3. AtData(b.n)'
    BY <1>4, <1>6, <1>8, <2>1, <2>2 DEF AtData
  <2>4. QED
    BY <2>1, <2>3 DEF At
<1>9. QED
  BY <1>7, <1>8

(***************************************************************************)
(* A byte of the payload, and the message that the last one completes.     *)
(***************************************************************************)
LEMMA PayloadStart ==
  ASSUME Shape, NEW b \in Byte, NEW p \in Numbers, b.n = p + 1, At(p), state = "data"
  PROVE  \E m \in Numbers :
           /\ m = p - Len(acc) + 1 /\ b.n = m + Len(acc)
           /\ \A i \in DOMAIN Append(acc, b) : Append(acc, b)[i].n = m + i - 1
           /\ From(m) /\ Payload(m, len, loop)
<1> DEFINE more == Append(acc, b)
           m == p - Len(acc) + 1
<1>1. /\ acc \in Seq(Byte) /\ Len(acc) \in Nat /\ p \in Int /\ b.n \in Numbers
      /\ more \in Seq(Byte) /\ Len(more) = Len(acc) + 1
  BY DEF Shape, CodecShape, Numbers, Byte
<1>2. From(m) /\ Payload(m, len, loop)
  BY DEF At, AtData
<1>3. m \in Int /\ b.n = m + Len(acc)
  BY <1>1
<1> HIDE DEF m
<1>4. \A i \in DOMAIN more : more[i].n = m + i - 1
  BY <1>1, <1>2, <1>3, FromAppend DEF From
<1>5. m \in Numbers
  <2>1. 1 \in DOMAIN more /\ more[1] \in Byte
    BY <1>1
  <2>2. more[1].n = m
    BY <1>3, <1>4, <2>1
  <2>3. QED
    BY <2>1, <2>2 DEF Byte
<1>6. QED
  BY <1>2, <1>3, <1>4, <1>5 DEF m

LEMMA PayloadInPlace ==
  ASSUME Shape, NEW b \in Byte, NEW p \in Numbers, b.n = p + 1, At(p), PayloadByte(b)
  PROVE  At(b.n)'
<1>1. state = "data" /\ loop' = loop /\ len' = len
  BY DEF PayloadByte
<1>2. PICK m \in Numbers :
        /\ m = p - Len(acc) + 1 /\ b.n = m + Len(acc)
        /\ \A i \in DOMAIN Append(acc, b) : Append(acc, b)[i].n = m + i - 1
        /\ From(m) /\ Payload(m, len, loop)
  BY <1>1, PayloadStart
<1>3. /\ m \in Int /\ b.n \in Int /\ Len(acc) \in Nat /\ len \in Nat
      /\ acc \in Seq(Byte) /\ loop \in BOOLEAN
  BY <1>2 DEF Numbers, Byte, Shape, CodecShape, Flags
<1>4. CASE Len(acc) + 1 = len
  <2>1. acc' = <<>> /\ state' = IF loop THEN "data" ELSE "sync1"
    BY <1>3, <1>4 DEF PayloadByte
  <2>2. b.n - Len(acc') + 1 = m + len /\ b.n + 1 = m + len
    BY <1>2, <1>3, <1>4, <2>1
  <2>3. Script[m] = [kind |-> "data", len |-> len, loop |-> loop, first |-> TRUE]
    BY <1>2 DEF Payload
  <2>4. IF loop THEN Payload(m + len, len, TRUE) ELSE Begins(m + len)
    <3>1. /\ Script[m].kind = "data" /\ Script[m].first
          /\ Script[m].loop = loop /\ Script[m].len = len
      BY <2>3
    <3>2. IF Script[m].loop THEN Payload(m + Script[m].len, Script[m].len, TRUE)
          ELSE Begins(m + Script[m].len)
      BY Zenon, <3>1, DeviceAssumption
    <3>3. QED
      BY Zenon, <3>1, <3>2
  <2>5. CASE loop = TRUE
    <3>1. From(m + len)'
      BY <2>1 DEF From
    <3>2. AtData(b.n)'
      BY <1>1, <2>1, <2>2, <2>4, <2>5, <3>1 DEF AtData
    <3>3. QED
      BY <2>1, <2>5, <3>2 DEF At
  <2>6. CASE loop = FALSE
    BY <2>1, <2>2, <2>4, <2>6 DEF At
  <2>7. QED
    BY <1>3, <2>5, <2>6
<1>5. CASE Len(acc) + 1 # len
  <2>1. acc' = Append(acc, b) /\ state' = "data"
    BY <1>5 DEF PayloadByte
  <2>2. b.n - Len(acc') + 1 = m
    BY <1>2, <1>3, <2>1
  <2>3. From(m)'
    BY <1>2, <2>1 DEF From
  <2>4. AtData(b.n)'
    BY <1>1, <1>2, <2>2, <2>3 DEF AtData
  <2>5. QED
    BY <2>1, <2>4 DEF At
<1>6. QED
  BY <1>4, <1>5

LEMMA CompleteMessage ==
  ASSUME Shape, NEW b \in Byte, NEW p \in Numbers, b.n = p + 1, At(p), Completes
  PROVE  OnePayload(Append(acc, b))
<1> DEFINE more == Append(acc, b)
<1>1. state = "data" /\ acc \in Seq(Byte) /\ len \in Nat /\ Len(acc) + 1 = len
  BY DEF Completes, Shape, CodecShape
<1>2. PICK m \in Numbers :
        /\ \A i \in DOMAIN more : more[i].n = m + i - 1
        /\ Payload(m, len, loop)
  BY <1>1, PayloadStart
<1>3. /\ more \in Seq(Byte) /\ DOMAIN more = 1 .. len /\ Len(more) = len /\ 1 \in DOMAIN more
      /\ m \in Int /\ \A i \in DOMAIN more : i \in Int
  BY <1>1, <1>2 DEF Numbers
<1> HIDE DEF more
<1>4. /\ Script[m] = [kind |-> "data", len |-> len, loop |-> loop, first |-> TRUE]
      /\ \A j \in m + 1 .. m + len - 1 :
           j \in Numbers => Script[j].kind = "data" /\ ~Script[j].first
  BY <1>2 DEF Payload
<1>5. more[1].n = m
  BY <1>2, <1>3
<1>6. \A i \in 2 .. len : Script[more[i].n].kind = "data" /\ ~Script[more[i].n].first
  <2> SUFFICES ASSUME NEW i \in 2 .. len
               PROVE  Script[more[i].n].kind = "data" /\ ~Script[more[i].n].first
    OBVIOUS
  <2>1. i \in DOMAIN more /\ more[i] \in Byte
    BY <1>1, <1>3
  <2>2. more[i].n = m + i - 1 /\ more[i].n \in Numbers
    BY <1>2, <2>1 DEF Byte
  <2>3. m + i - 1 \in m + 1 .. m + len - 1
    BY <1>1, <1>3
  <2>4. QED
    BY <1>4, <2>2, <2>3
<1>7. \A i \in DOMAIN more : Kind(more[i]) = "data" /\ more[i].n = more[1].n + i - 1
  <2> SUFFICES ASSUME NEW i \in DOMAIN more
               PROVE  Kind(more[i]) = "data" /\ more[i].n = more[1].n + i - 1
    OBVIOUS
  <2>1. i = 1 \/ i \in 2 .. len
    BY <1>1, <1>3
  <2>2. Kind(more[i]) = "data"
    BY <1>4, <1>5, <1>6, <2>1 DEF Kind
  <2>3. QED
    BY <1>2, <1>5, <2>2
<1>8. OnePayload(more)
  BY <1>1, <1>3, <1>4, <1>5, <1>6, <1>7 DEF OnePayload
<1>9. QED
  BY <1>8 DEF more

(***************************************************************************)
(* A byte keeps the codec in place, and the message it completes is whole. *)
(***************************************************************************)
LEMMA ByteInPlace ==
  ASSUME Shape, Life, Order, Alive, Gapless, InPlace, DecByte
  PROVE  InPlace'
<1>1. PICK b \in Byte : b = Head(cur)
  BY ByteTaken
<1>2. losses' = losses /\ opened' = opened
  BY ByteTaken, LinkFrame
<1>3. Hunt(b) \/ Locked(b) \/ SizeByte(b) \/ TypeByte(b) \/ PayloadByte(b)
  BY <1>1 DEF DecByte
<1> SUFFICES ASSUME losses' = 0, inStep' = TRUE
             PROVE  \E p \in Numbers : LastTaken(p)' /\ At(p)'
  BY DEF InPlace
<1>4. inStep = TRUE => \E p \in Numbers : At(p) /\ b.n = p + 1
  BY <1>1, <1>2, ByteFollows
<1>5. At(b.n)'
  <2>1. CASE Locked(b)
    BY <1>4, <2>1, LockedInPlace
  <2>2. CASE ~Locked(b)
    <3>1. inStep = TRUE
      BY <1>3, <2>2 DEF Hunt, SizeByte, TypeByte, PayloadByte
    <3>2. PICK p \in Numbers : At(p) /\ b.n = p + 1
      BY <1>4, <3>1
    <3>3. QED
      BY <1>3, <2>2, <3>2, HuntInPlace, SizeInPlace, TypeInPlace, PayloadInPlace
  <2>3. QED
    BY <2>1, <2>2
<1>6. LastTaken(b.n)'
  BY <1>1, <1>2, TakenIsLast
<1>7. QED
  BY <1>5, <1>6 DEF Byte

LEMMA ByteCompletes ==
  ASSUME Shape, Order, Alive, Gapless, InPlace, DecByte, losses = 0, inStep = TRUE,
         delivered' # delivered
  PROVE  OnePayload(delivered')
<1>1. PICK b \in Byte : b = Head(cur)
  BY ByteTaken
<1>2. Completes /\ delivered' = Append(acc, b)
  BY <1>1 DEF DecByte
<1>3. PICK p \in Numbers : At(p) /\ b.n = p + 1
  BY <1>1, ByteFollows
<1>4. QED
  BY <1>2, <1>3, CompleteMessage

LEMMA DeliveredStays ==
  ASSUME [Next]_vars, ~DecByte
  PROVE  delivered' = delivered
<1> USE DEF RxQuiet, DecQuiet
<1>1. CASE Device
  BY <1>1 DEF Device, ByteArrives, ByteLost, ByteUnheard, PortFails, Sends
<1>2. CASE Open \/ CloseBegin \/ Closing \/ ResetCodec
  BY <1>2 DEF Open, CloseBegin, Closing, CloseJoin, CloseEnd, ResetCodec
<1>3. CASE Rx
  BY <1>3
     DEF Rx, RxLoop, RxReady, RxNothing, RxError, RxReadNothing, RxRead, RxPush
<1>4. CASE Decoder
  BY <1>4
     DEF Decoder, DecReset, DecLoop, DecWait, DecPop, DecBufferEnd, DecListenerReturns
<1>5. CASE UNCHANGED vars
  BY <1>5 DEF vars
<1>6. QED
  BY <1>1, <1>2, <1>3, <1>4, <1>5 DEF Next

(***************************************************************************)
(* A codec that has locked on a header gives the listener whole payloads   *)
(* only, until its next reset, as long as the line loses nothing: for any  *)
(* device that sends messages, whatever the values of their bytes.         *)
(***************************************************************************)
THEOREM WholeMessages == Spec => MessagesWhole
<1>1. Init => Whole
  <2> SUFFICES ASSUME Init
               PROVE  Whole
    OBVIOUS
  <2>1. /\ caller = "idle" /\ dec = "none" /\ rx = "none" /\ queue = <<>>
        /\ hint = <<>> /\ port = <<>> /\ cur = <<>> /\ acc = <<>> /\ delivered = <<>>
        /\ inStep = FALSE
    BY Zenon DEF Init
  <2>2. Life
    BY <2>1 DEF Life
  <2>3. Order
    BY <2>1, NothingOrdered DEF Order, PortOrder, QueueOrder, CodecOrder, Ahead, Newer
  <2>4. Alive /\ InPlace
    BY <2>1 DEF Alive, InPlace
  <2>5. Gapless
    BY <2>1, NothingNumbered DEF Gapless, Waiting
  <2>6. QED
    BY <2>2, <2>3, <2>4, <2>5, InitShape DEF Whole
<1>2. Whole /\ [Next]_vars => Whole'
  <2> SUFFICES ASSUME Whole, [Next]_vars
               PROVE  Whole'
    OBVIOUS
  <2> USE DEF Whole
  <2>1. Shape' /\ Life' /\ Order'
    BY StepsKeepShape, StepsKeepLife, StepsKeepPortOrder, StepsKeepQueueOrder,
       StepsKeepCodecOrder DEF Order
  <2>2. Alive' /\ Gapless'
    BY StepsKeepAlive, StepsKeepGapless
  <2>3. InPlace'
    BY ByteInPlace, PlaceKept
  <2>4. QED
    BY <2>1, <2>2, <2>3
<1>3. Whole /\ [Next]_vars => [inStep /\ losses = 0 => OnePayload(delivered')]_delivered
  <2> SUFFICES ASSUME Whole, [Next]_vars, delivered' # delivered, inStep, losses = 0
               PROVE  OnePayload(delivered')
    OBVIOUS
  <2>1. DecByte
    BY DeliveredStays
  <2>2. inStep = TRUE
    BY DEF Whole, Shape, Flags
  <2>3. QED
    BY <2>1, <2>2, ByteCompletes DEF Whole
<1>4. QED
  BY <1>1, <1>2, <1>3, PTL DEF Spec, MessagesWhole
=============================================================================
