-------------------------- MODULE MCControlStation --------------------------
(***************************************************************************)
(* Small instances of ControlStation.  Each run varies the inputs its      *)
(* question is about and fixes the others.                                 *)
(***************************************************************************)
EXTENDS ControlStation

P(x, y) == [x |-> x, y |-> y]
Status(x, y, s) == [x |-> x, y |-> y, seq |-> s]

Grid == 0 .. 1
Default == P(1, 0)

\* a second target, a fix
SecondTarget == {P(0, 0)}
OneFix       == {P(0, 0)}
NoAngle      == {0}

\* two targets that differ in both coordinates, and a pose between them
TornTargets == {P(0, 1)}
TornPoses   == {Status(0, 0, 1)}

\* steering: angles beyond the limit on either side, a pose in and out of the
\* straight zone, an uplink sequence number that wraps to 0, an arrival
StreamPoses == {Status(0, 1, 1), Status(1, 0, 0)}
Angles      == {-9, 9}
None        == {}

\* An action constraint of Station.cfg: all at once is too many states.  A
\* behaviour is about the second target, or about a track, or about the poses
\* of the uplink: each begins only where nothing of the others has.  The
\* planner plans over and over again, but under a track and once the uplink
\* has reported it begins no other path after its first.  The threads leave
\* in one order: Exit touches nothing the others look at.
Reported == pose.x # 0 \/ pose.y # 0
Tracked  ==
  \/ fix.valid \/ pc["lidar"] \in {"y", "valid"} \/ late > 0
  \/ downlink # NoPacket /\ downlink.lx # NaN
Leaving == <<"ctl", "plan", "tcp", "udp", "uplink", "lidar">>
Apart ==
  /\ ~(Tracked' /\ Reported')
  /\ commanded' # {InitTarget} => ~Tracked' /\ ~Reported'
  /\ Tracked /\ running => running'
  /\ (Tracked \/ Reported) /\ astar_valid /\ pc["plan"] = "loop"
       => pc'["plan"] # "sy"
  /\ \A i \in 2 .. 6 : pc'[Leaving[i]] = "done" => pc'[Leaving[i - 1]] = "done"
=============================================================================
