---------------------------- MODULE LidarDriver ----------------------------
(***************************************************************************)
(* The lidar driver as a whole: the scan holder and the requests share one *)
(* calling thread at a time (_op_locker) and one decoder's thread.         *)
(*                                                                         *)
(* The decoder's thread either handles an answer (DriverCommands) or, as   *)
(* long as grabbing is enabled, unpacks a message of samples into the      *)
(* holder (ScanHolder); it looks at the flag once, before it unpacks.      *)
(* Starting a scan is the longest call: a stop, at least one request that  *)
(* must be answered, the reset of the holder, enabling, and the command.   *)
(***************************************************************************)
EXTENDS DriverParameters, Sequences

VARIABLES
  \* ScanHolder
  time, buf, began, avail, fresh, scanReady, grab, result, syncs,
  \* DriverCommands
  req, asked, waiting, lastAns, answerReady, data, codec, api, dec, line, msg,
  taken, late,
  \* what connects them
  enabled,   \* the data unpacker is enabled
  unpack,    \* the decoder's thread unpacks: "no", "this" or an "earlier" scan
  start      \* where a start of a scan stands, "no" outside one

Holder == INSTANCE ScanHolder WITH signalled <- scanReady
Requests == INSTANCE DriverCommands WITH signalled <- answerReady

holderVars  == <<time, buf, began, avail, fresh, scanReady, grab, result, syncs>>
requestVars == <<req, asked, waiting, lastAns, answerReady, data, codec, api,
                 dec, line, msg, taken, late>>
vars == <<holderVars, requestVars, enabled, unpack, start>>

Init ==
  /\ Holder!Init /\ Requests!Init
  /\ enabled = FALSE /\ unpack = "no" /\ start = "no"

-----------------------------------------------------------------------------
(***************************************************************************)
(* The calling thread.                                                     *)
(***************************************************************************)
NoCall == start = "no" /\ api = "idle" /\ grab = "idle"

Ask ==
  /\ NoCall
  /\ \E t \in Types : Requests!Request(t)
  /\ UNCHANGED <<holderVars, enabled, unpack, start>>

Command(force) ==
  /\ NoCall
  /\ Requests!Command(force)
  /\ enabled' = (enabled /\ ~force)
  /\ UNCHANGED <<holderVars, unpack, start>>

\* _disableDataGrabbing inside a request
Disable ==
  /\ Requests!DisableGrabbing
  /\ enabled' = FALSE
  /\ UNCHANGED <<holderVars, unpack, start>>

RequestGoesOn ==
  /\ \/ Requests!Arm \/ Requests!Send \/ Requests!Wait \/ Requests!Wake
     \/ Requests!CommandClear
  /\ UNCHANGED <<holderVars, enabled, unpack, start>>

\* a start whose request fails returns, unless the motor's failed
RequestFails ==
  /\ Requests!SendFails \/ Requests!Timeout
  /\ start' = IF start = "motor" THEN "answered" ELSE "no"
  /\ UNCHANGED <<holderVars, enabled, unpack>>

RequestSucceeds ==
  /\ Requests!Take
  /\ start' = IF start \in {"ask", "motor"} THEN "answered" ELSE start
  /\ UNCHANGED <<holderVars, enabled, unpack>>

(***************************************************************************)
(* startScan: stop, ask, turn the motor, reset, enable, send.              *)
(***************************************************************************)
StartStop ==
  /\ NoCall
  /\ req < MaxRequests   \* bound: the start will ask
  /\ Requests!Command(TRUE)
  /\ enabled' = FALSE
  /\ start' = "stop"
  /\ UNCHANGED <<holderVars, unpack>>

\* what the lidar can do and how it scans: every answer is needed
StartAsk ==
  /\ start \in {"stop", "answered"}
  /\ \E t \in Types : Requests!Request(t)
  /\ start' = "ask"
  /\ UNCHANGED <<holderVars, enabled, unpack>>

\* startMotor asks and commands: nobody looks at its result
StartMotor ==
  /\ start = "answered"
  /\ \/ (\E t \in Types : Requests!Request(t)) /\ start' = "motor"
     \/ Requests!Command(TRUE) /\ start' = "answered"
  /\ enabled' = FALSE
  /\ UNCHANGED <<holderVars, unpack>>

\* mutated: what the lidar can do is not asked, or known from before
StartReset_Unasked ==
  /\ start \in {"stop", "answered"} /\ api = "idle"
  /\ Holder!Reset
  /\ start' = "reset"
  /\ unpack' = IF unpack = "no" THEN "no" ELSE "earlier"
  /\ UNCHANGED <<requestVars, enabled>>

StartReset ==
  /\ start = "answered" /\ api = "idle"
  /\ Holder!Reset
  /\ start' = "reset"
  /\ unpack' = IF unpack = "no" THEN "no" ELSE "earlier"
  /\ UNCHANGED <<requestVars, enabled>>

StartEnable ==
  /\ start = "reset"
  /\ enabled' = TRUE
  /\ start' = "enabled"
  /\ UNCHANGED <<holderVars, requestVars, unpack>>

StartSend ==
  /\ start = "enabled"
  /\ Requests!Command(FALSE)
  /\ start' = "no"
  /\ UNCHANGED <<holderVars, enabled, unpack>>

Start ==
  \/ StartStop \/ StartAsk \/ StartMotor
  \/ StartReset \/ StartEnable \/ StartSend

(***************************************************************************)
(* grabScanDataHq                                                          *)
(***************************************************************************)
Grab ==
  /\ \/ NoCall /\ (Holder!GrabCall \/ Holder!CheckFresh)
     \/ Holder!GrabWake \/ Holder!GrabTimeout \/ Holder!GrabCopy
  /\ UNCHANGED <<requestVars, enabled, unpack, start>>

-----------------------------------------------------------------------------
(***************************************************************************)
(* The decoder's thread.                                                   *)
(***************************************************************************)
BeginUnpack ==
  /\ dec = "bytes" /\ unpack = "no"
  /\ enabled
  /\ unpack' = "this"
  /\ UNCHANGED <<holderVars, requestVars, enabled, start>>

Unpack ==
  /\ unpack # "no"
  /\ \/ Holder!PushFirst \/ Holder!PushSwap \/ Holder!PushMore
     \/ Holder!PushDiscard \/ Holder!Rewind
  /\ UNCHANGED <<requestVars, enabled, unpack, start>>

EndUnpack ==
  /\ unpack # "no"
  /\ unpack' = "no"
  /\ UNCHANGED <<holderVars, requestVars, enabled, start>>

DecodeAnswer ==
  /\ unpack = "no"
  /\ Requests!Decode \/ Requests!Check \/ Requests!Store \/ Requests!Relock
  /\ UNCHANGED <<holderVars, enabled, unpack, start>>

-----------------------------------------------------------------------------
Calling ==
  \/ Disable \/ RequestGoesOn \/ RequestFails \/ RequestSucceeds

Next ==
  \/ Ask \/ \E force \in BOOLEAN : Command(force)
  \/ Calling \/ Start \/ Grab
  \/ BeginUnpack \/ Unpack \/ EndUnpack \/ DecodeAnswer

Spec == Init /\ [][Next]_vars

\* the threads run, a sleeping caller has a finite timeout, a message of
\* samples is finite
FairSpec ==
  /\ Spec
  /\ WF_vars(Calling) /\ WF_vars(DecodeAnswer) /\ WF_vars(EndUnpack)

-----------------------------------------------------------------------------
(***************************************************************************)
(* A start never resets the holder under a message that is still being     *)
(* unpacked: the request it makes in between is answered by the decoder's  *)
(* thread, which has then left the samples it was unpacking when grabbing  *)
(* was disabled.  Without it the samples of the scan before would open the *)
(* first scan of the new one.                                              *)
(***************************************************************************)
NoScanAcrossStarts == unpack # "earlier"

\* The properties of the parts, for the parts at work together.
GrabbedIsOneScan == Holder!GrabbedIsOneScan
ImplementsFeed == Holder!ImplementsFeed
AnswerIsCurrent == Requests!AnswerIsCurrent
OwnAnswerUnlessLate == Requests!OwnAnswerUnlessLate
CallReturns == Requests!CallReturns
=============================================================================
