----------------------------- MODULE Unpackers -----------------------------
(***************************************************************************)
(* The sample data unpackers (dataunpacker.cpp and unpacker/): bytes of    *)
(* the measuring stream to samples.                                        *)
(*                                                                         *)
(* The codec hands the payloads of its loop mode to onSampleData, in the   *)
(* decoder's thread.  A caller stops and starts the scan: enable, disable  *)
(* and reset change the active handler and the state of the handlers with  *)
(* no lock.  One step is one access to what the two threads share.         *)
(*                                                                         *)
(* A byte is [s, c, i]: byte i of capsule c (a frame, for the handlers     *)
(* without capsules) of scan s.  The line may lose bursts of bytes: from   *)
(* then on neither the payloads nor the handlers' buffers begin where the  *)
(* capsules do.                                                            *)
(***************************************************************************)
EXTENDS Integers, Sequences, FiniteSets

CONSTANTS
  Plans,       \* sequences of handlers: the scans a caller starts
  CapLen,      \* bytes of a capsule (84 and more)
  Capsules,    \* bound: capsules of a scan
  Bursts,      \* lengths of a burst that is lost
  MaxBursts,   \* bound: bursts lost
  MaxGap       \* capsules that the angle threshold of the dense handlers spans

(***************************************************************************)
(* The handlers are one machine (OnByte, Complete, Join) with the          *)
(* differences that these records name:                                    *)
(*   marks    positions whose byte must carry a sync mark                  *)
(*   distinct the mark of one position is never taken for another's        *)
(*   checked  a checksum or a CRC covers the frame                         *)
(*   pairs    samples are computed from a capsule and the one before it    *)
(*   forgets  reset() clears _is_previous_capsuledataRdy                   *)
(*   bounded  a pair too far apart in angle is not joined                  *)
(***************************************************************************)
NormalNode == [marks |-> {1, 2}, distinct |-> FALSE, checked |-> FALSE,
               pairs |-> FALSE, forgets |-> FALSE, bounded |-> FALSE]
HQNode == [marks |-> {1}, distinct |-> TRUE, checked |-> TRUE,
           pairs |-> FALSE, forgets |-> FALSE, bounded |-> FALSE]
CapsuleNode == [marks |-> {1, 2}, distinct |-> TRUE, checked |-> TRUE,
                pairs |-> TRUE, forgets |-> TRUE, bounded |-> FALSE]
UltraCapsuleNode == CapsuleNode
DenseCapsuleNode == [CapsuleNode EXCEPT !.forgets = FALSE, !.bounded = TRUE]
UltraDenseCapsuleNode == DenseCapsuleNode

\* nullptr
None == [NormalNode EXCEPT !.marks = {}]

Handlers == {NormalNode, HQNode, CapsuleNode, UltraCapsuleNode, DenseCapsuleNode,
             UltraDenseCapsuleNode}

ASSUME UnpackersAssumption ==
  /\ \A p \in Plans : p \in Seq(Handlers) /\ p # <<>>
  /\ CapLen \in Nat /\ CapLen > 2 /\ Capsules \in Nat
  /\ Bursts \subseteq Nat \ {0} /\ MaxBursts \in Nat /\ MaxGap \in Nat \ {0}

VARIABLES
  plan,      \* the handler of each scan
  session,   \* scans started
  caller,    \* where the caller is in stop and startScan
  next,      \* bytes the device has sent in this scan
  bursts,    \* bursts lost
  missing,   \* history: the bytes lost
  fooled,    \* history: a byte that is no mark passed for one in this scan
  enabled,   \* _enabled
  active,    \* _lastActiveHandler (None: nullptr)
  type,      \* _lastActiveAnsType (None: 0)
  dec,       \* where the decoder's thread is
  msg,       \* the bytes of the payload not unpacked yet
  at,        \* the position its onData has loaded
  handler,   \* per handler: [pos, buf, rdy, prev]
  last,      \* history: the byte unpacked last
  published  \* history: what was published last, [prev, cur]

stream == <<plan, next, bursts, missing>>
unpacker == <<enabled, active, type>>
vars == <<stream, session, caller, fooled, unpacker, dec, msg, at, handler, last,
          published>>

NoCap == <<0, 0>>
NoByte == [s |-> 0, c |-> 0, i |-> 0]
Byte == [s : Nat, c : Nat, i : 1 .. CapLen]
Cap(b) == <<b.s, b.c>>

Fresh == [pos |-> 0, buf |-> [i \in 1 .. CapLen |-> NoByte], rdy |-> FALSE,
          prev |-> NoCap]

Used == {plan[i] : i \in DOMAIN plan}
Type == plan[session]

Init ==
  /\ plan \in Plans
  /\ session = 0 /\ caller = "stopped"
  /\ next = 0 /\ bursts = 0 /\ missing = {} /\ fooled = FALSE
  /\ enabled = FALSE /\ active = None /\ type = None
  /\ dec = "idle" /\ msg = <<>> /\ at = 0
  /\ handler = [h \in Used |-> Fresh]
  /\ last = NoByte /\ published = [prev |-> NoCap, cur |-> NoCap]

-----------------------------------------------------------------------------
(***************************************************************************)
(* The caller                                                              *)
(***************************************************************************)
CallerGoto(from, to) == dec # "crashed" /\ caller = from /\ caller' = to
CallerQuiet == UNCHANGED <<plan, bursts, missing, dec, msg, at, last, published>>

(***************************************************************************)
(* startScan: the answers to its requests have passed the decoder, so the  *)
(* decoder is in no handler; enable() and the command follow.              *)
(***************************************************************************)
HandlerReset(h) == [handler[h] EXCEPT !.pos = 0, !.rdy = @ /\ ~h.forgets]

StartScan ==
  /\ CallerGoto("stopped", "scanning")
  /\ session < Len(plan) /\ dec = "idle"
  /\ session' = session + 1
  /\ next' = 0
  /\ fooled' = FALSE
  /\ enabled' = TRUE
  /\ handler' = IF active = None THEN handler
                ELSE [handler EXCEPT ![active] = HandlerReset(active)]
  /\ active' = None /\ type' = None
  /\ CallerQuiet

\* disable(): _enabled is cleared, then reset() runs
Disable ==
  /\ CallerGoto("scanning", "clear")
  /\ enabled' = FALSE
  /\ UNCHANGED <<session, next, fooled, active, type, handler>> /\ CallerQuiet

\* clearCache: the active handler's reset()
ClearCache ==
  /\ CallerGoto("clear", "drop")
  /\ handler' = IF active = None THEN handler
                ELSE [handler EXCEPT ![active] = HandlerReset(active)]
  /\ UNCHANGED <<session, next, fooled, unpacker>> /\ CallerQuiet

DropHandler ==
  /\ CallerGoto("drop", "type")
  /\ active' = None
  /\ UNCHANGED <<session, next, fooled, enabled, type, handler>> /\ CallerQuiet

\* exitLoopMode follows: what the codec held of a payload is gone
DropType ==
  /\ CallerGoto("type", "stopped")
  /\ type' = None
  /\ UNCHANGED <<session, next, fooled, enabled, active, handler>> /\ CallerQuiet

Stopping == ClearCache \/ DropHandler \/ DropType

-----------------------------------------------------------------------------
(***************************************************************************)
(* The codec completes a payload: the next CapLen bytes of the device that *)
(* are not lost.                                                           *)
(***************************************************************************)
Sent(k) == [s |-> session, c |-> ((k - 1) \div CapLen) + 1, i |-> ((k - 1) % CapLen) + 1]

Arrives(keep, lose) ==
  /\ next + lose + CapLen <= Capsules * CapLen
  /\ next' = next + lose + CapLen
  /\ missing' = missing \cup {Sent(next + keep + j) : j \in 1 .. lose}
  /\ msg' = [k \in 1 .. CapLen |-> Sent(next + k + (IF k > keep THEN lose ELSE 0))]
  /\ dec' = "message"
  /\ UNCHANGED <<plan, session, caller, fooled, unpacker, at, handler, last,
                 published>>

PayloadArrives ==
  /\ caller # "stopped" /\ dec = "idle"
  /\ \/ Arrives(CapLen, 0) /\ UNCHANGED bursts
     \/ /\ bursts < MaxBursts /\ bursts' = bursts + 1
        /\ \E keep \in 0 .. CapLen - 1, lose \in Bursts : Arrives(keep, lose)

-----------------------------------------------------------------------------
(***************************************************************************)
(* onSampleData: the flag, the type and the handler are read one by one.   *)
(***************************************************************************)
DecGoto(from, to) == dec = from /\ dec' = to
DecQuiet == UNCHANGED <<stream, session, caller, enabled>>

TestEnabled ==
  /\ DecGoto("message", IF enabled THEN "select" ELSE "idle")
  /\ msg' = IF enabled THEN msg ELSE <<>>
  /\ UNCHANGED <<fooled, active, type, handler, last, published, at>> /\ DecQuiet

\* another handler is selected; the one before is reset
Select ==
  /\ DecGoto("select", "test")
  /\ IF type = Type THEN UNCHANGED <<active, type, handler>>
     ELSE /\ active' = Type /\ type' = Type
          /\ handler' = IF active = None THEN handler
                        ELSE [handler EXCEPT ![active] = HandlerReset(active)]
  /\ UNCHANGED <<fooled, msg, last, published, at>> /\ DecQuiet

TestHandler ==
  /\ DecGoto("test", IF active = None THEN "idle" ELSE "call")
  /\ msg' = IF active = None THEN <<>> ELSE msg
  /\ UNCHANGED <<fooled, active, type, handler, last, published, at>> /\ DecQuiet

\* the pointer is loaded again: by now it may be null
Call ==
  /\ DecGoto("call", IF active = None THEN "crashed" ELSE "byte")
  /\ UNCHANGED <<fooled, active, type, msg, handler, last, published, at>> /\ DecQuiet

-----------------------------------------------------------------------------
(***************************************************************************)
(* onData.  H is the handler called, whatever the caller has changed since.*)
(***************************************************************************)
H == Type
Me == handler[H]

\* may the byte pass for the mark of a position?
Passes(b, p) ==
  IF p \notin H.marks \/ b.i = p THEN {TRUE}
  ELSE IF H.distinct /\ b.i \in H.marks THEN {FALSE}
  ELSE BOOLEAN

\* mutated: a byte that is no mark does not make the handler doubt
Unmarked_KeepReady == [Me EXCEPT !.pos = 0]

\* a byte that is no mark: begin anew, and without a previous capsule
Unmarked == [Me EXCEPT !.pos = 0, !.rdy = @ /\ ~H.pairs]

\* mutated: one byte late
FrameFull_Late == Me.pos = CapLen

\* the byte to come is the frame's last
FrameFull == Me.pos = CapLen - 1

\* the switch on the position
OnByte ==
  LET b == Head(msg)
  IN /\ msg # <<>> /\ dec = "byte"
     /\ \E pass \in Passes(b, Me.pos + 1) :
          IF pass
          THEN /\ dec' = IF FrameFull THEN "complete" ELSE "store"
               /\ fooled' = (fooled \/ (Me.pos + 1 \in H.marks /\ b.i # Me.pos + 1))
               /\ at' = Me.pos
               /\ UNCHANGED <<handler, msg, last>>
          ELSE /\ handler' = [handler EXCEPT ![H] = Unmarked]
               /\ msg' = Tail(msg) /\ last' = b
               /\ UNCHANGED <<dec, fooled, at>>
     /\ UNCHANGED <<active, type, published>> /\ DecQuiet

\* a reset in between may have come too late for the position
Store ==
  LET b == Head(msg)
  IN /\ DecGoto("store", "byte")
     /\ \E pos \in {Me.pos, at} :
          handler' = [handler EXCEPT ![H].buf[pos + 1] = b, ![H].pos = pos + 1]
     /\ msg' = Tail(msg) /\ last' = b
     /\ UNCHANGED <<fooled, active, type, published, at>> /\ DecQuiet

PayloadEnds ==
  /\ msg = <<>> /\ DecGoto("byte", "idle")
  /\ UNCHANGED <<fooled, active, type, msg, handler, last, published, at>> /\ DecQuiet

-----------------------------------------------------------------------------
\* a checksum that only a frame of the device passes
Genuine(buf) == \A i \in 1 .. CapLen : Cap(buf[i]) = Cap(buf[1]) /\ buf[i].i = i

\* the angle between two capsules; what it is across scans nobody knows
Close(prev, cur) ==
  IF prev[1] = cur[1] THEN {cur[2] - prev[2] <= MaxGap} ELSE BOOLEAN

(***************************************************************************)
(* The last byte of a frame.  The first capsule of a scan makes the        *)
(* handler forget the one before; a pair too far apart is not published.   *)
(***************************************************************************)
Complete ==
  LET b == Head(msg)
      frame == [Me.buf EXCEPT ![CapLen] = b]
      good == H.checked => Genuine(frame)
      cap == IF Genuine(frame) THEN Cap(b) ELSE NoCap
      first == cap[2] = 1
      at0 == [Me EXCEPT !.buf = frame, !.pos = 0]
  IN /\ DecGoto("complete", IF good /\ H.pairs THEN "join" ELSE "byte")
     /\ IF ~H.pairs
        THEN /\ handler' = [handler EXCEPT ![H] = at0]
             /\ published' = IF good THEN [prev |-> cap, cur |-> cap] ELSE published
        ELSE /\ handler' = [handler EXCEPT ![H] =
                              [at0 EXCEPT !.rdy = @ /\ good /\ ~first]]
             /\ IF good /\ ~first /\ Me.rdy
                THEN \E near \in Close(Me.prev, cap) :
                       published' = IF H.bounded /\ ~near THEN published
                                    ELSE [prev |-> Me.prev, cur |-> cap]
                ELSE UNCHANGED published
     /\ msg' = Tail(msg) /\ last' = b
     /\ UNCHANGED <<fooled, active, type, at>> /\ DecQuiet

\* mutated: only a pair makes the capsule the previous one
Join_AfterPair ==
  /\ DecGoto("join", "byte")
  /\ handler' = [handler EXCEPT ![H].prev = IF Me.rdy THEN Cap(Me.buf[1]) ELSE @]
  /\ UNCHANGED <<fooled, active, type, msg, last, published, at>> /\ DecQuiet

\* the capsule becomes the previous one
Join ==
  /\ DecGoto("join", "byte")
  /\ handler' = [handler EXCEPT ![H].prev = Cap(Me.buf[1]), ![H].rdy = TRUE]
  /\ UNCHANGED <<fooled, active, type, msg, last, published, at>> /\ DecQuiet

-----------------------------------------------------------------------------
Unpack == TestEnabled \/ Select \/ TestHandler \/ Call \/ OnByte \/ Store
            \/ PayloadEnds \/ Complete \/ Join

Next == StartScan \/ Disable \/ Stopping \/ PayloadArrives \/ Unpack

Spec == Init /\ [][Next]_vars

-----------------------------------------------------------------------------
TypeOK ==
  /\ plan \in Plans /\ session \in 0 .. Len(plan)
  /\ caller \in {"stopped", "scanning", "clear", "drop", "type"}
  /\ next \in 0 .. Capsules * CapLen /\ bursts \in 0 .. MaxBursts
  /\ missing \subseteq Byte /\ fooled \in BOOLEAN
  /\ enabled \in BOOLEAN
  /\ active \in Used \cup {None} /\ type \in Used \cup {None}
  /\ dec \in {"idle", "message", "select", "test", "call", "byte", "store",
              "complete", "join", "crashed"}
  /\ msg \in Seq(Byte) /\ at \in 0 .. CapLen - 1
  /\ \A h \in Used :
       /\ handler[h].pos \in 0 .. CapLen - 1
       /\ handler[h].buf \in [1 .. CapLen -> Byte \cup {NoByte}]
       /\ handler[h].rdy \in BOOLEAN
  /\ dec = "call" => active \in {None, Type}

(***************************************************************************)
(* The samples of a capsule are spread over the angle up to the capsule it *)
(* is paired with.  Whatever the line loses and however scans are stopped  *)
(* and started, nothing of a capsule between the two has been heard in the *)
(* scan of the later one: a capsule damaged, and the first capsule of a    *)
(* scan ("discard the previous cached data", handler_capsules.cpp:173),    *)
(* ends the pairing.  A dense handler keeps this only as long as no stop   *)
(* resets it: its reset drops what is cached of a capsule and keeps the    *)
(* one before (handler_capsules.cpp:730), while the decoder's thread goes  *)
(* on to the end of its payload.                                           *)
(***************************************************************************)
Unheard(s, c) == \A i \in 1 .. CapLen : [s |-> s, c |-> c, i |-> i] \in missing

Adjacent(pair) ==
  \A c \in 1 .. pair.cur[2] - 1 :
    pair.prev[1] < pair.cur[1] \/ pair.prev[2] < c => Unheard(pair.cur[1], c)

Undisturbed == caller \in {"scanning", "clear"} \/ H.forgets

PairsAdjacent ==
  [][dec = "complete" /\ Undisturbed => Adjacent(published')]_published

(***************************************************************************)
(* A handler finds the capsules again: as long as no other byte passes for *)
(* a sync mark, the samples of a capsule are published when it and the two *)
(* before it arrive whole, whatever happened before, also if a stop was    *)
(* lost on the handler (it is the third whole capsule at the latest).      *)
(***************************************************************************)
Whole(s, c) == \A i \in 1 .. CapLen : [s |-> s, c |-> c, i |-> i] \notin missing

Resyncs ==
  dec = "byte" /\ caller = "scanning" /\ ~fooled /\ last.s = session /\
  last.i = CapLen /\ last.c > 2 /\ (\A c \in last.c - 2 .. last.c : Whole(session, c))
  => published = [prev |-> <<session, last.c - (IF H.pairs THEN 1 ELSE 0)>>,
                  cur |-> <<session, last.c>>]
=============================================================================
