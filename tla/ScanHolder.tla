----------------------------- MODULE ScanHolder -----------------------------
(***************************************************************************)
(* ScanDataHolder of the lidar driver (src/sl_lidar_driver.cpp): two       *)
(* buffers and an auto-reset event between the decoder's thread, which     *)
(* pushes samples, and the thread that grabs scans.                        *)
(*                                                                         *)
(* _locker makes each operation one step.  _op_locker keeps startScan's    *)
(* reset out of a grab; nothing keeps the decoder out of the gap between   *)
(* the event and the lock.  The time of a sample is its number.            *)
(***************************************************************************)
EXTENDS DriverParameters, Sequences

VARIABLES
  time,      \* the number of the last sample
  buf,       \* _scanbuffer
  began,     \* _scan_begin_timestamp_uS
  avail,     \* _scan_node_available_id, -1 if no scan is complete
  fresh,     \* _new_scan_ready
  signalled, \* _data_waiter
  grab,      \* the grab: "idle", "asleep" on the event, "woken" before the lock
  result,    \* what it copied last
  syncs      \* history: the numbers of the samples that began a scan

holder == <<buf, began, avail, fresh>>
vars   == <<time, holder, signalled, grab, result, syncs>>

Sample == [time : 1 .. MaxSamples, sync : BOOLEAN]
Ids == {0, 1}

OperationBuffer == IF avail < 0 THEN 0 ELSE 1 - avail

Init ==
  /\ time = 0
  /\ buf = [i \in Ids |-> <<>>]
  /\ began = [i \in Ids |-> 0]
  /\ avail = -1
  /\ fresh = FALSE
  /\ signalled = FALSE
  /\ grab = "idle"
  /\ result = NoScan
  /\ syncs = {}

-----------------------------------------------------------------------------
(***************************************************************************)
(* The decoder's thread: pushScanNodeData by the kind of sample, and       *)
(* rewindCurrentScanData.                                                  *)
(***************************************************************************)
NextSample(sync) == [time |-> time + 1, sync |-> sync]

Decoded(sync) ==
  /\ time < MaxSamples
  /\ time' = time + 1
  /\ syncs' = IF sync THEN syncs \cup {time + 1} ELSE syncs
  /\ UNCHANGED <<grab, result>>

\* a first sample when no scan is under way
PushFirst ==
  LET op == OperationBuffer
  IN /\ buf[op] = <<>>
     /\ Decoded(TRUE)
     /\ buf' = [buf EXCEPT ![op] = <<NextSample(TRUE)>>]
     /\ began' = [began EXCEPT ![op] = time + 1]
     /\ UNCHANGED <<avail, fresh, signalled>>

\* mutated: the time is noted before the buffers are swapped
PushSwap_EarlyTime ==
  LET op == OperationBuffer
  IN /\ buf[op] # <<>>
     /\ Decoded(TRUE)
     /\ avail' = op
     /\ buf' = [buf EXCEPT ![1 - op] = <<NextSample(TRUE)>>]
     /\ began' = [began EXCEPT ![op] = time + 1]
     /\ fresh' = TRUE
     /\ signalled' = TRUE

\* a first sample completes the scan, swaps the buffers and signals
PushSwap ==
  LET op == OperationBuffer
  IN /\ buf[op] # <<>>
     /\ Decoded(TRUE)
     /\ avail' = op
     /\ buf' = [buf EXCEPT ![1 - op] = <<NextSample(TRUE)>>]
     /\ began' = [began EXCEPT ![1 - op] = time + 1]
     /\ fresh' = TRUE
     /\ signalled' = TRUE

\* another sample of the scan; a full buffer keeps the newest as its last
PushMore ==
  LET op == OperationBuffer
  IN /\ buf[op] # <<>>
     /\ Decoded(FALSE)
     /\ buf' = [buf EXCEPT ![op] = IF Len(@) >= Cap THEN [@ EXCEPT ![Len(@)] = NextSample(FALSE)]
                                   ELSE Append(@, NextSample(FALSE))]
     /\ UNCHANGED <<began, avail, fresh, signalled>>

\* a sample outside a scan is discarded
PushDiscard ==
  /\ buf[OperationBuffer] = <<>>
  /\ Decoded(FALSE)
  /\ UNCHANGED <<holder, signalled>>

Rewind ==
  /\ buf' = [buf EXCEPT ![OperationBuffer] = <<>>]
  /\ UNCHANGED <<time, began, avail, fresh, signalled, grab, result, syncs>>

-----------------------------------------------------------------------------
(***************************************************************************)
(* The threads that call the driver, one at a time under _op_locker.       *)
(***************************************************************************)
\* startScan
Reset ==
  /\ grab = "idle"
  /\ avail' = -1
  /\ fresh' = FALSE
  /\ buf' = [i \in Ids |-> <<>>]
  /\ signalled' = FALSE
  /\ began' = [i \in Ids |-> 0]
  /\ UNCHANGED <<time, grab, result, syncs>>

\* Event::wait: a signal there already is taken at once
GrabCall ==
  /\ grab = "idle"
  /\ grab' = IF signalled THEN "woken" ELSE "asleep"
  /\ signalled' = FALSE
  /\ UNCHANGED <<time, holder, result, syncs>>

\* the wait does not look at the flag again when it is woken
GrabWake ==
  /\ grab = "asleep"
  /\ signalled \/ Spurious
  /\ grab' = "woken"
  /\ signalled' = FALSE
  /\ UNCHANGED <<time, holder, result, syncs>>

\* a signal that comes with the timeout stays for the next wait
GrabTimeout ==
  /\ grab = "asleep"
  /\ grab' = "idle"
  /\ UNCHANGED <<time, holder, signalled, result, syncs>>

\* mutated: the buffer that is being filled is copied
GrabCopy_Operational ==
  /\ grab = "woken" /\ avail >= 0
  /\ grab' = "idle"
  /\ result' = [nodes |-> buf[OperationBuffer], time |-> began[OperationBuffer]]
  /\ fresh' = FALSE
  /\ UNCHANGED <<time, buf, began, avail, signalled, syncs>>

\* with avail < 0 the code reads outside the buffers: no step is defined
GrabCopy ==
  /\ grab = "woken" /\ avail >= 0
  /\ grab' = "idle"
  /\ result' = [nodes |-> buf[avail], time |-> began[avail]]
  /\ fresh' = FALSE
  /\ UNCHANGED <<time, buf, began, avail, signalled, syncs>>

\* checkNewScanSignalAndReset
CheckFresh ==
  /\ fresh
  /\ fresh' = FALSE
  /\ UNCHANGED <<time, buf, began, avail, signalled, grab, result, syncs>>

Next ==
  \/ PushFirst \/ PushSwap \/ PushMore \/ PushDiscard \/ Rewind
  \/ Reset \/ GrabCall \/ GrabWake \/ GrabTimeout \/ GrabCopy \/ CheckFresh

Spec == Init /\ [][Next]_vars

-----------------------------------------------------------------------------
TypeOK ==
  /\ time \in 0 .. MaxSamples
  /\ buf \in [Ids -> Seq(Sample)]
  /\ \A i \in Ids : Len(buf[i]) <= Cap
  /\ began \in [Ids -> 0 .. MaxSamples]
  /\ avail \in {-1, 0, 1}
  /\ fresh \in BOOLEAN /\ signalled \in BOOLEAN
  /\ grab \in {"idle", "asleep", "woken"}
  /\ result = NoScan \/ result \in [nodes : Seq(Sample), time : 0 .. MaxSamples]
  /\ syncs \subseteq 1 .. MaxSamples

(***************************************************************************)
(* What a grab returns is one complete scan (sl_lidar_driver.h:421-422):   *)
(* it begins with a sync sample, the sample after its last one was the     *)
(* next sync, and nothing between is missing but what a full buffer lost.  *)
(***************************************************************************)
Contiguous(s) ==
  /\ s[1].sync /\ \A i \in 2 .. Len(s) : ~s[i].sync
  /\ \A i \in 1 .. Len(s) : i < Cap => s[i].time = s[1].time + i - 1

OneScan(s) == s # <<>> /\ Contiguous(s) /\ s[Len(s)].time + 1 \in syncs

GrabbedIsOneScan == result # NoScan => OneScan(result.nodes)

(***************************************************************************)
(* The holder implements ScanFeed.                                         *)
(***************************************************************************)
Feed == INSTANCE ScanFeed WITH
  Samples <- Sample,
  cur       <- buf[OperationBuffer],
  ready     <- IF avail < 0 THEN <<>> ELSE buf[avail],
  credit    <- (IF signalled THEN 1 ELSE 0) + (IF grab = "woken" THEN 1 ELSE 0),
  delivered <- result

ImplementsFeed == Feed!Spec

(***************************************************************************)
(* A grab that was woken finds a complete scan (sl_lidar_driver.cpp:322,   *)
(* the assertion).  With spurious wakeups the code does not have it.       *)
(***************************************************************************)
ScanWhenWoken == grab = "woken" => avail >= 0
=============================================================================
