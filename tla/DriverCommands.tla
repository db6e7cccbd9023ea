--------------------------- MODULE DriverCommands ---------------------------
(***************************************************************************)
(* Requests to the lidar and their answers (src/sl_lidar_driver.cpp).      *)
(*                                                                         *)
(* A thread that calls the driver (one at a time, under _op_locker) names  *)
(* the answer it waits for, sends the request and sleeps on an auto-reset  *)
(* event; the decoder's thread decodes the device's answers in order and   *)
(* keeps the last one of that type.  Two locks are involved: _data_locker  *)
(* around the answer, and the codec's own, which the caller takes while it *)
(* holds the first (_disableDataGrabbing resets the decoder) and which the *)
(* decoder drops before it takes the first.                                *)
(*                                                                         *)
(* The device answers a request at most once.  What the codec makes of the *)
(* bytes between two answers is in LidarLink; a reset in the middle of an  *)
(* answer loses that answer.                                               *)
(***************************************************************************)
EXTENDS DriverParameters, Sequences

VARIABLES
  req,       \* the number of the last request
  asked,     \* the type it asks for
  waiting,   \* _waiting_packet_type
  lastAns,   \* _lastAnsPkt
  signalled, \* _response_waiter
  data,      \* who holds _data_locker
  codec,     \* whether the decoder's thread holds the codec's lock
  api,       \* where the calling thread stands
  dec,       \* where the decoder's thread stands
  line,      \* answers on their way
  msg,       \* _decodingMessage, then the decoder's copy of it
  taken,     \* history: the last answer returned, and for which request
  late       \* history: whether a request timed out

decoder == <<dec, line, msg>>
vars == <<req, asked, waiting, lastAns, signalled, data, codec, api, decoder,
          taken, late>>

\* an answer: the request it answers, its type, whether its payload is intact
Answer == [req : 1 .. MaxRequests, type : Types, whole : BOOLEAN]
\* an answer as it was stored, with the request under way at that moment
Stored == [ans : Answer, at : 1 .. MaxRequests]

Init ==
  /\ req = 0
  /\ asked = NoType
  /\ waiting = NoType
  /\ lastAns = NoAnswer
  /\ signalled = FALSE
  /\ data = "free"
  /\ codec = "free"
  /\ api = "idle"
  /\ dec = "bytes"
  /\ line = <<>>
  /\ msg = NoAnswer
  /\ taken = NoAnswer
  /\ late = FALSE

CallerGoto(from, to) == api = from /\ api' = to
DecoderGoto(from, to) == dec = from /\ dec' = to

-----------------------------------------------------------------------------
(***************************************************************************)
(* _sendCommandWithResponse                                                *)
(***************************************************************************)
Request(t) ==
  /\ req < MaxRequests
  /\ data = "free"
  /\ CallerGoto("idle", "disable")
  /\ data' = "caller"
  /\ req' = req + 1
  /\ asked' = t
  /\ UNCHANGED <<waiting, lastAns, signalled, codec, decoder, taken, late>>

\* The answer being received is dropped; a decoded one that the decoder's
\* thread has not copied yet loses its payload, before or while it is copied.
ResetDecoder ==
  /\ codec = "free"
  /\ line' \in IF line = <<>> THEN {line} ELSE {line, Tail(line)}
  /\ IF dec = "copy"
       THEN \E w \in {msg.whole, FALSE} : msg' = [msg EXCEPT !.whole = w]
       ELSE UNCHANGED msg
  /\ UNCHANGED <<codec, dec>>

DisableGrabbing ==
  /\ CallerGoto("disable", "arm")
  /\ ResetDecoder
  /\ UNCHANGED <<req, asked, waiting, lastAns, signalled, data, taken, late>>

\* mutated: a signal left by the answer to an earlier request is kept
Arm_KeepingSignal ==
  /\ CallerGoto("arm", "send")
  /\ waiting' = asked
  /\ data' = "free"
  /\ UNCHANGED <<req, asked, lastAns, signalled, codec, decoder, taken, late>>

Arm ==
  /\ CallerGoto("arm", "send")
  /\ waiting' = asked
  /\ signalled' = FALSE
  /\ data' = "free"
  /\ UNCHANGED <<req, asked, lastAns, codec, decoder, taken, late>>

SendFails ==
  /\ CallerGoto("send", "idle")
  /\ UNCHANGED <<req, asked, waiting, lastAns, signalled, data, codec, decoder,
                 taken, late>>

\* the device may answer or stay silent
Send ==
  /\ CallerGoto("send", "wait")
  /\ \/ line' = Append(line, [req |-> req, type |-> asked, whole |-> TRUE])
     \/ UNCHANGED line
  /\ UNCHANGED <<req, asked, waiting, lastAns, signalled, data, codec, dec, msg,
                 taken, late>>

\* Event::wait: a signal there already is taken at once
Wait ==
  /\ CallerGoto("wait", IF signalled THEN "woken" ELSE "asleep")
  /\ signalled' = FALSE
  /\ UNCHANGED <<req, asked, waiting, lastAns, data, codec, decoder, taken,
                 late>>

Wake ==
  /\ signalled \/ Spurious
  /\ CallerGoto("asleep", "woken")
  /\ signalled' = FALSE
  /\ UNCHANGED <<req, asked, waiting, lastAns, data, codec, decoder, taken,
                 late>>

\* a signal that comes with the timeout stays
Timeout ==
  /\ CallerGoto("asleep", "idle")
  /\ late' = TRUE
  /\ UNCHANGED <<req, asked, waiting, lastAns, signalled, data, codec, decoder,
                 taken>>

Take ==
  /\ data = "free"
  /\ CallerGoto("woken", "idle")
  /\ taken' = [by |-> req, what |-> lastAns]
  /\ UNCHANGED <<req, asked, waiting, lastAns, signalled, data, codec, decoder,
                 late>>

(***************************************************************************)
(* _sendCommandWithoutResponse: with noForceStop the decoder is left       *)
(* alone.  The signal is cleared without _data_locker.                     *)
(***************************************************************************)
Command(force) ==
  /\ CallerGoto("idle", "clear")
  /\ IF force THEN ResetDecoder ELSE UNCHANGED <<codec, decoder>>
  /\ UNCHANGED <<req, asked, waiting, lastAns, signalled, data, taken, late>>

CommandClear ==
  /\ CallerGoto("clear", "idle")
  /\ signalled' = FALSE
  /\ UNCHANGED <<req, asked, waiting, lastAns, data, codec, decoder, taken,
                 late>>

-----------------------------------------------------------------------------
(***************************************************************************)
(* The decoder's thread: onDecodeData and onProtocolMessageDecoded.        *)
(***************************************************************************)
\* mutated: the listener is called with the codec's lock held
Decode_Locked ==
  /\ line # <<>>
  /\ DecoderGoto("bytes", "copy")
  /\ msg' = Head(line)
  /\ line' = Tail(line)
  /\ codec' = "decoder"
  /\ UNCHANGED <<req, asked, waiting, lastAns, signalled, data, api, taken, late>>

\* mutated: the decoder takes every answer for one that repeats
Decode_Looping ==
  /\ line # <<>>
  /\ DecoderGoto("bytes", "copy")
  /\ msg' = Head(line)
  /\ UNCHANGED <<req, asked, waiting, lastAns, signalled, data, codec, api, line,
                 taken, late>>

\* under the codec's lock, which is released when the answer is complete
Decode ==
  /\ line # <<>>
  /\ DecoderGoto("bytes", "copy")
  /\ msg' = Head(line)
  /\ line' = Tail(line)
  /\ UNCHANGED <<req, asked, waiting, lastAns, signalled, data, codec, api,
                 taken, late>>

\* the type is compared without _data_locker
Check ==
  /\ DecoderGoto("copy", IF msg.type = waiting THEN "store" ELSE "relock")
  /\ UNCHANGED <<req, asked, waiting, lastAns, signalled, data, codec, api, line,
                 msg, taken, late>>

Store ==
  /\ data = "free"
  /\ DecoderGoto("store", "relock")
  /\ lastAns' = [ans |-> msg, at |-> req]
  /\ signalled' = TRUE
  /\ UNCHANGED <<req, asked, waiting, data, codec, api, line, msg, taken, late>>

Relock ==
  /\ DecoderGoto("relock", "bytes")
  /\ codec' = "free"
  /\ msg' = NoAnswer
  /\ UNCHANGED <<req, asked, waiting, lastAns, signalled, data, api, line, taken,
                 late>>

-----------------------------------------------------------------------------
CallerNext ==
  \/ DisableGrabbing \/ Arm \/ Send \/ SendFails \/ Wait \/ Wake \/ Timeout
  \/ Take \/ CommandClear

DecoderNext == Decode \/ Check \/ Store \/ Relock

Next ==
  \/ \E t \in Types : Request(t)
  \/ \E force \in BOOLEAN : Command(force)
  \/ CallerNext
  \/ DecoderNext

Spec == Init /\ [][Next]_vars

\* the threads run, and a sleeping caller has a finite timeout
FairSpec == Spec /\ WF_vars(CallerNext) /\ WF_vars(DecoderNext)

-----------------------------------------------------------------------------
TypeOK ==
  /\ req \in 0 .. MaxRequests
  /\ asked \in Types \cup {NoType} /\ waiting \in Types \cup {NoType}
  /\ lastAns = NoAnswer \/ lastAns \in Stored
  /\ signalled \in BOOLEAN /\ late \in BOOLEAN
  /\ data \in {"free", "caller"} /\ codec \in {"free", "decoder"}
  /\ api \in {"idle", "disable", "arm", "send", "wait", "asleep", "woken", "clear"}
  /\ dec \in {"bytes", "copy", "store", "relock"}
  /\ line \in Seq(Answer)
  /\ Len(line) + (IF dec = "bytes" THEN 0 ELSE 1) <= req
  /\ IF dec = "bytes" THEN msg = NoAnswer ELSE msg \in Answer
  /\ taken = NoAnswer \/ taken \in [by : 1 .. MaxRequests, what : Stored]

(***************************************************************************)
(* A request never returns an answer that was there before it began: the   *)
(* signal of an answer that came too late for its own request is cleared.  *)
(***************************************************************************)
AnswerIsCurrent == taken # NoAnswer => taken.what.at = taken.by

(***************************************************************************)
(* As long as no request timed out, every request returns the device's     *)
(* answer to it, of the type it asked for and whole, although neither the  *)
(* comparison of the types nor the copy of the answer is under a lock.     *)
(***************************************************************************)
OwnAnswerUnlessLate ==
  taken # NoAnswer /\ ~late =>
    taken.what.ans.req = taken.by /\ taken.what.ans.whole

(***************************************************************************)
(* A request returns: caller and decoder never wait for each other's lock  *)
(* (sl_lidarprotocol_codec.cpp:220, "unlock the oplock to prevent          *)
(* deadlock").                                                             *)
(***************************************************************************)
CallReturns == api # "idle" ~> api = "idle"
=============================================================================
