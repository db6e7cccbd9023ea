------------------------------ MODULE Steering ------------------------------
(***************************************************************************)
(* AStarPlanner and LatencyAwareCtrl, in integers: millimetres,            *)
(* milliseconds, milliradians, and hundredths of a degree of steering.     *)
(***************************************************************************)
EXTENDS Integers, Sequences

MinOf(a, b) == IF a <= b THEN a ELSE b
MaxOf(a, b) == IF a >= b THEN a ELSE b
Clamp(low, high, v) == MaxOf(low, MinOf(high, v))
Distance(a, b) == IF a >= b THEN a - b ELSE b - a

-----------------------------------------------------------------------------
\* computePath's steps
PathSteps == 20

ComputePath(start, goal) ==
  [i \in 1 .. PathSteps + 1 |->
     [x |-> start.x + ((i - 1) * (goal.x - start.x)) \div PathSteps,
      y |-> start.y + ((i - 1) * (goal.y - start.y)) \div PathSteps]]

\* velocity in mm/s, 150 by default; the latency is 80 ms
LookAhead(velocity) == (((IF velocity > 1 THEN velocity ELSE 150) * 80) \div 1000) + 120

\* mutated: the torpedo is taken to move towards larger x
TargetX_Forward(path, x, velocity) ==
  LET first == path[1].x  last == path[Len(path)].x
  IN Clamp(MinOf(first, last), MaxOf(first, last), x + LookAhead(velocity))

TargetX(path, x, velocity) ==
  LET first == path[1].x  last == path[Len(path)].x
      direction == IF last >= first THEN 1 ELSE -1
  IN Clamp(MinOf(first, last), MaxOf(first, last), x + direction * LookAhead(velocity))

\* the segments of the path that span x
Spanning(path, x) ==
  {i \in 1 .. Len(path) - 1 : /\ MinOf(path[i].x, path[i + 1].x) <= x
                             /\ x <= MaxOf(path[i].x, path[i + 1].x)}

FirstSpanning(path, x) ==
  CHOOSE k \in Spanning(path, x) : \A l \in Spanning(path, x) : k <= l

\* between the ends of a segment; one that is vertical gives its first point
Interpolated(a, b, x) ==
  IF a.x = b.x THEN a.y
  ELSE a.y + (Distance(x, a.x) * (b.y - a.y)) \div Distance(a.x, b.x)

WaypointY(path, x, velocity) ==
  LET tx == TargetX(path, x, velocity)
      i == FirstSpanning(path, tx)
  IN IF Spanning(path, tx) = {} THEN path[Len(path)].y
     ELSE Interpolated(path[i], path[i + 1], tx)

-----------------------------------------------------------------------------
(***************************************************************************)
(* compute.  Its state is the rate of y, filtered, in mm/s, the filtered   *)
(* steering and the last one sent.  The term for the latency, at most 9 mm *)
(* of y, is taken to be in the error already.                              *)
(***************************************************************************)
DeadZone == 2
Limit == 45

\* the torpedo's, twice its velocity, in mm/s
FastestRate == 300

\* dy_filt, from the change of y in a period of dt milliseconds
Rate(rate, change, dt) ==
  (85 * rate + (IF dt > 0 THEN 15 * ((change * 1000) \div dt) ELSE 0)) \div 100

\* to -pi .. pi, in milliradians
YawError(yaw) == ((yaw + 3142) % 6284) - 3142

YawTerm(yaw) == Clamp(-800, 800, YawError(yaw) \div 2)

SteerRaw(error, rate, yaw) ==
  Clamp(-Limit * 100, Limit * 100, ((error * 65) \div 10) - (rate \div 4) + YawTerm(yaw))

Alpha(error) == LET e == Distance(error, 0)
                IN IF e < 100 THEN 30 ELSE IF e < 300 THEN 20 ELSE 12

Filtered(filtered, raw, error) ==
  ((100 - Alpha(error)) * filtered + Alpha(error) * raw) \div 100

\* std::round: halves away from zero
Rounded(v) == IF v >= 0 THEN (v + 50) \div 100 ELSE -((-v + 50) \div 100)

DynamicSlew(error) == (250 + (MinOf(600, Distance(error, 0)) * 12) \div 10) \div 100

\* mutated: twice the dead zone
Quiet_Wide(steer, last) == Distance(steer, last) < 2 * DeadZone

Quiet(steer, last) == Distance(steer, last) < DeadZone

Steer(steer, last, error) ==
  IF Quiet(steer, last) THEN last
  ELSE LET slew == DynamicSlew(error)
       IN Clamp(-Limit, Limit, last + Clamp(-slew, slew, steer - last))

Compute(control, error, change, dt, yaw) ==
  LET rate == Rate(control.rate, change, dt)
      filtered == Filtered(control.filtered, SteerRaw(error, rate, yaw), error)
  IN [rate |-> rate, filtered |-> filtered,
      last |-> Steer(Rounded(filtered), control.last, error)]
=============================================================================
