------------------------------ MODULE ScanFeed ------------------------------
(***************************************************************************)
(* What ILidarDriver::grabScanDataHq promises its caller (sl_lidar_driver.h *)
(* 418-426, 451): one complete scan, from its first sample to the last one *)
(* before the next scan began, with the time of the first sample; never a  *)
(* scan that a newer one has replaced.                                     *)
(*                                                                         *)
(* A scan that was completed between two grabs is there for the next one.  *)
(* A scan completed while a grab is under way can be there twice: hence    *)
(* credit is up to 2.                                                      *)
(***************************************************************************)
EXTENDS Integers, Sequences

CONSTANTS Samples, \* records with fields time and sync
          Cap,     \* samples kept of a scan; the last one is the newest
          NoScan   \* nothing was grabbed yet

VARIABLES cur,       \* the scan being measured, <<>> outside one
          ready,     \* the newest complete scan, <<>> if there is none
          credit,    \* how many grabs it can still satisfy
          delivered  \* what was grabbed last, with its time

feed == <<cur, ready, credit, delivered>>

Init == cur = <<>> /\ ready = <<>> /\ credit = 0 /\ delivered = NoScan

\* the first sample of a scan completes the one before
Begin(n) ==
  /\ n.sync
  /\ cur' = <<n>>
  /\ IF cur = <<>> THEN UNCHANGED <<ready, credit>>
     ELSE /\ ready' = cur
          /\ credit' \in {1, 2} /\ credit <= credit' /\ credit' <= credit + 1
  /\ UNCHANGED delivered

Continue(n) ==
  /\ ~n.sync /\ cur # <<>>
  /\ cur' = IF Len(cur) >= Cap THEN [cur EXCEPT ![Len(cur)] = n]
            ELSE Append(cur, n)
  /\ UNCHANGED <<ready, credit, delivered>>

Abandon == cur' = <<>> /\ UNCHANGED <<ready, credit, delivered>>

Restart == cur' = <<>> /\ ready' = <<>> /\ credit' = 0 /\ UNCHANGED delivered

Deliver ==
  /\ credit > 0 /\ ready # <<>>
  /\ delivered' = [nodes |-> ready, time |-> ready[1].time]
  /\ credit' = credit - 1
  /\ UNCHANGED <<cur, ready>>

Next ==
  \/ \E n \in Samples : Begin(n) \/ Continue(n)
  \/ Abandon \/ Restart \/ Deliver

Spec == Init /\ [][Next]_feed
=============================================================================
