----------------------------- MODULE Algorithms -----------------------------
(***************************************************************************)
(* The pure parts of the program on chosen inputs, against what they are   *)
(* for.  A behaviour takes one case: a lidar that turns at a changing      *)
(* speed, a scan that is put in order, a room that is calibrated and then  *)
(* watched, a steering law that is given a steady error; the others have   *)
(* an input and no steps.                                                  *)
(***************************************************************************)
EXTENDS SampleDecoding, LidarTracking, Steering, Integrity

CONSTANTS
  Starts,        \* of the turning lidar's first capsule, in q6
  Advances,      \* of its capsules, in q6
  MaxCapsules,
  Timings,       \* [duration, linkage, baud, ethernet]
  RawScans,      \* scans to put in order
  Rooms,         \* sets of scans of the empty room
  Visits,        \* [scan, object]: a room with an object, and the object's points
  Messages,      \* requests to encode
  Blocks,        \* <<block, what arrives of it>>
  Legs,          \* [start, goal, x, velocity], millimetres and mm/s
  Errors, Yaws,  \* steady inputs of the steering law, mm and milliradians
  Controls,      \* states it may have been left in
  MaxPeriods

VARIABLE case

\* of the dense handlers' samples, in microseconds
SampleDuration == 62

Place == [x : Int, y : Int]
Measured == [angle : 0 .. Full - 1, dist : Nat, quality : Nat]

\* of the steering, in which its filters have forgotten what they were left with
SettlingPeriods == 60

\* No lidar turns so fast that the dense handlers drop a capsule, no block is
\* longer than cal can be told, and the steering is watched until it has settled.
AlgorithmsAssumption ==
  /\ Starts \subseteq 0 .. Turn6 - 1
  /\ Advances \subseteq 1 .. Turn6 - 1
  /\ \A advance \in Advances : ~TooFar(0, advance, 32, SampleDuration)
  /\ Timings \subseteq [duration : Nat, linkage : Nat, baud : Nat, ethernet : BOOLEAN]
  /\ RawScans \subseteq Seq(Measured)
  /\ \A room \in Rooms : room \subseteq Seq(Measured)
  /\ \A visit \in Visits : visit.scan \in Seq(Measured)
  /\ \A a \in 0 .. Full - 1 : Sine[a] \in Int /\ Cosine[a] \in Int
  /\ MinCluster \in Nat /\ MaxCluster \in Nat /\ MinCluster > 2
  /\ Messages \subseteq [cmd : Octets, hasPayload : BOOLEAN, payload : Seq(Octets)]
  /\ Blocks \subseteq Seq(Octets) \X Seq(Octets)
  /\ \A blocks \in Blocks : Len(blocks[1]) = Len(blocks[2]) /\ Len(blocks[1]) <= Longest
  /\ Legs \subseteq [start : Place, goal : Place, x : Int, velocity : Int]
  /\ Errors \subseteq Int /\ Yaws \subseteq Int
  /\ Controls \subseteq [rate : -FastestRate .. FastestRate,
                        filtered : -Limit * 100 .. Limit * 100, last : -Limit .. Limit]
  /\ MaxPeriods \in Nat /\ MaxPeriods >= SettlingPeriods

ASSUME AlgorithmsAssumption

-----------------------------------------------------------------------------
None == [x |-> 0, y |-> 0]

Turning ==
  [of : {"turn"}, kind : Kinds, start : Starts, marked : BOOLEAN,
   since : {-1}, markStep : {0}, gaps : {{}}, first : {-1}, capsules : {0},
   from : {0}, step : {0}]

Watching ==
  {[of |-> "watch", room |-> r, background |-> {}, seen |-> {}, scans |-> 0,
    object |-> <<>>, points |-> {}, found |-> FALSE, car |-> None] : r \in Rooms}

SteeringCases ==
  [of : {"steer"}, error : Errors, yaw : Yaws, control : Controls, periods : {0}]

Init ==
  \/ case \in Turning
  \/ case \in Watching
  \/ case \in SteeringCases
  \/ case \in [of : {"order"}, readings : RawScans]
  \/ case \in [of : {"encode"}, message : Messages]
  \/ case \in [of : {"crc"}, blocks : Blocks]
  \/ case \in [of : {"leg"}, leg : Legs]
  \/ case \in [of : {"scale"}, scaled : 0 .. 4094]
  \/ case \in [of : {"near"}, field : {4 * k : k \in 0 .. 1023}]
  \/ case \in [of : {"delay"}, timed : Kinds, timing : Timings]

-----------------------------------------------------------------------------
\* offsets of express samples and distances of ultra samples, of all sizes
BitsOf == [j \in 0 .. Samples.express - 1 |-> (j * 5) % 64]
DistanceOf ==
  [j \in 0 .. Samples.ultra - 1 |-> <<0, 199, 200, 400, 65000>>[(j % 5) + 1]]

Capsule(prev, cur, last) ==
  CASE case.kind = "express" -> ExpressCapsule(prev, cur, BitsOf)
    [] case.kind = "ultra" -> UltraCapsule(prev, cur, DistanceOf)
    [] case.kind = "dense" -> DenseCapsule(prev, cur, last, SampleDuration)
    [] case.kind = "ultra_dense" -> UltraDenseCapsule(prev, cur, last, SampleDuration)

Onward(angle, advance) ==
  IF angle + advance < Turn6 THEN angle + advance ELSE angle + advance - Turn6

(***************************************************************************)
(* An ultra capsule's steps are rounded down.  If the next capsule starts  *)
(* at exactly 0, the last sample falls short of it and is not marked, and  *)
(* the next one's first sample is past it.                                 *)
(***************************************************************************)
Unreached(advance, cur) == case.kind = "ultra" /\ cur = 0 /\ (advance * 32) % 3 # 0

\* the angle from the last mark before sample j, of the capsule or of those
\* before it, to an angle of the capsule; -1 before the first mark
FromMark(marks, j, inc, angle) ==
  LET before == {k \in marks : k < j}
  IN IF before # {} THEN angle - Greatest(before) * inc
     ELSE IF case.since = -1 THEN -1 ELSE case.since + angle

\* since: the angle from the last mark to the capsule's end; gaps: those between
\* marks.  What is unreached counts as if it were marked.  first: the sample that
\* was marked last, by its number in its capsule
NextCapsule(advance) ==
  LET cur == Onward(case.start, advance)
      inc == Inc(case.kind, Diff8(case.start, cur))
      marks == Capsule(case.start, cur, case.marked).sync
      unreached == Unreached(advance, cur)
      whole == FromMark(marks, Samples[case.kind], inc, advance * 1024)
  IN /\ case.of = "turn"
     /\ case.capsules < MaxCapsules
     /\ case' = [case EXCEPT
          !.start = cur,
          !.from = case.start,
          !.step = inc,
          !.capsules = @ + 1,
          !.marked = Samples[case.kind] - 1 \in marks,
          !.markStep = IF marks # {} \/ unreached THEN inc ELSE @,
          !.gaps = ({FromMark(marks, j, inc, j * inc) : j \in marks}
                    \cup (IF unreached THEN {whole} ELSE {})) \ {-1},
          !.first = IF marks # {} THEN Greatest(marks) ELSE @,
          !.since = IF unreached THEN 0 ELSE whole]

\* startCalibration: one of its scans
Calibrated(scan) ==
  LET points == Points(scan)
  IN [case EXCEPT !.background = Calibrate(@, points),
                  !.seen = @ \cup ToSet(points),
                  !.scans = @ + 1]

CalibrateScan(scan) ==
  /\ case.of = "watch"
  /\ case.scans < 2
  /\ scan \in case.room
  /\ case' = Calibrated(scan)

\* processLidarFrame, once; the points of the object in the scan's order
Watched(visit) ==
  LET points == Points(visit.scan)
      frame == ProcessLidarFrame(case.background, points)
  IN [case EXCEPT !.found = frame.found, !.car = frame.car,
                  !.points = ToSet(points),
                  !.object = Those(points, {i \in DOMAIN points : points[i] \in visit.object}),
                  !.scans = 3]

Watch(visit) ==
  /\ case.of = "watch"
  /\ case.scans < 3
  /\ case' = Watched(visit)

\* one period of 10 ms in which the torpedo stays where it is
SteerPeriod ==
  /\ case.of = "steer"
  /\ case.periods < MaxPeriods
  /\ case' = [case EXCEPT !.control = Compute(@, case.error, 0, 10, case.yaw),
                          !.periods = @ + 1]

Next ==
  \/ \E advance \in Advances : NextCapsule(advance)
  \/ case.of = "watch" /\ \E scan \in case.room : CalibrateScan(scan)
  \/ \E visit \in Visits : Watch(visit)
  \/ SteerPeriod

Spec == Init /\ [][Next]_case

-----------------------------------------------------------------------------
(***************************************************************************)
(* What a scan is promised to be (sl_lidar_driver.h:422, 437, 447, 453,    *)
(* and handler_capsules.cpp:767, 1021): the samples of exactly one turn,   *)
(* with the time at which the first of them was measured but for a slight  *)
(* deviation.  Said of the moment at which a turn ends: a sample is marked *)
(* there, two marks are a turn apart but for the widths of the two         *)
(* samples, and no time is 2^32 microseconds off.  The code does not keep  *)
(* this promise.                                                           *)
(***************************************************************************)
SampleDelay(kind, timing, index) ==
  CASE kind = "express" -> ExpressDelay(timing, index)
    [] kind = "ultra" -> UltraBoostDelay(timing, index)
    [] kind = "dense" -> DenseDelay(timing, index)
    [] kind = "ultra_dense" -> UltraDenseDelay(timing, index)

ScanAsPromised ==
  [][case.of = "turn" /\ case'.gaps # {} =>
       /\ Capsule(case.start, case'.start, case.marked).sync # {}
       /\ \A g \in case'.gaps : Distance(g, Turn16) <= case'.step + case.markStep
       /\ \A timing \in Timings : SampleDelay(case.kind, timing, case.first).high = 0]_case

(***************************************************************************)
(* How far from that promise the marks can be, however the speed changes   *)
(* (handler_capsules.cpp:234, 541, 766 and 1020; a scan is what lies       *)
(* between two marks): two marks are a turn apart, but for the widths of   *)
(* the two samples, and a turn is not over for longer than that without a  *)
(* mark, but in two cases.  A dense capsule with larger steps than the one *)
(* before, and a first sample between the two steps, marks the turn once   *)
(* more, two samples after its mark.  And an ultra capsule may end at      *)
(* exactly 0 degrees unmarked: the turns before and after it are one scan. *)
(***************************************************************************)
MarkedAgain ==
  /\ case.kind \in {"dense", "ultra_dense"}
  /\ case.start * 1024 \in case.step .. case'.step - 1

TurnMarkedOnce ==
  [][case.of = "turn" =>
       LET width == case'.step + case.markStep
       IN /\ \A g \in case'.gaps : Distance(g, Turn16) <= width \/ (MarkedAgain /\ g <= width)
          /\ case'.since <= Turn16 + width]_case

(***************************************************************************)
(* What a sample is published with (handler_capsules.cpp).  Its angle      *)
(* differs from the raw one by its offset and whole turns, and fits the    *)
(* 16 bits of angle_z_q14.  The scales of the two compressed distances     *)
(* adjoin: no distance lies between two of them, and where two ultra dense *)
(* scales meet both give the same distance.  The samples of a capsule are  *)
(* one duration apart in time, modulo 2^32 microseconds, and none of them  *)
(* is 2^32 off; of an ultra dense capsule the latter is said of the first  *)
(* 32 samples only, because the times of the others are (ScanAsPromised).  *)
(***************************************************************************)
AnglesInTurn ==
  (case.of = "turn" /\ case.step > 0) =>
    LET angle == Capsule(case.from, case.start, FALSE).angle
        offset(j) == CASE case.kind = "express" -> ExpressOffset16(BitsOf[j])
                       [] case.kind = "ultra" -> UltraOffset16(DistanceOf[j])
                       [] OTHER -> 0
        exact(j) == (case.from * 1024 + j * case.step - offset(j)) \div 1024
    IN \A j \in DOMAIN angle :
         /\ angle[j] \in 0 .. Turn6 - 1
         /\ (angle[j] - exact(j)) % Turn6 = 0
         /\ AngleZ(angle[j]) \in 0 .. Full - 1

DistancesAdjoin ==
  /\ (case.of = "scale") =>
       LET v == VarBitScale(case.scaled)
       IN /\ VarBitScale(case.scaled + 1).value = v.value + 2 ^ v.level
          /\ UltraDistances(case.scaled, 0, 0, 511) = <<4 * v.value, 4 * v.value, 0>>
          /\ UltraDistances(0, case.scaled, 0, 0) = <<0, 4 * v.value, 4 * v.value>>
  /\ (case.of = "near") =>
       /\ \A scale \in 0 .. 2 :
            UltraDenseDistance(scale, ScaleField[scale + 1]) = ScaleStart[scale + 2]
       /\ \A last \in {0, 8, 200, 8184} :
            Distance(Smoothed(last, 0, UltraDenseDistance(0, case.field)),
                     UltraDenseDistance(0, case.field)) <= 4

TimesAscend ==
  (case.of = "delay") =>
    LET delay(j) == SampleDelay(case.timed, case.timing, j)
        sound == IF case.timed = "ultra_dense" THEN 32 ELSE Samples[case.timed]
    IN /\ \A j \in 1 .. Samples[case.timed] - 1 :
            delay(j - 1).low - delay(j).low = case.timing.duration
       /\ \A j \in 0 .. sound - 1 : delay(j).high = 0
       /\ \A d \in {LegacyDelay(case.timing), HQDelay(case.timing), delay(sound - 1)} :
            d.high = 0 /\ d.low >= case.timing.duration

SampleValues == AnglesInTurn /\ DistancesAdjoin /\ TimesAscend

(***************************************************************************)
(* ascendScanData (sl_lidar_driver.cpp:128) makes up angles for readings   *)
(* without an echo and sorts: the readings with one keep their angles and  *)
(* distances, nothing is lost, the result ascends, and it fails only if    *)
(* there is no echo at all.                                                *)
(***************************************************************************)
AscendKeepsReadings ==
  (case.of = "order") =>
    LET result == Ascend(case.readings)
        count(scan, r) == Cardinality({i \in DOMAIN scan : scan[i] = r})
    IN /\ result.ok <=> \E i \in DOMAIN case.readings : case.readings[i].dist # 0
       /\ Len(result.nodes) = Len(case.readings)
       /\ \A i \in DOMAIN case.readings : case.readings[i].dist # 0 =>
            count(result.nodes, case.readings[i]) = count(case.readings, case.readings[i])
       /\ result.ok => \A i \in 1 .. Len(result.nodes) - 1 :
                         result.nodes[i].angle <= result.nodes[i + 1].angle
       /\ \A i \in DOMAIN result.nodes : result.nodes[i].angle \in 0 .. Full - 1

(***************************************************************************)
(* LidarNode after a calibration (LidarNode.cpp:80, 214): a room in which  *)
(* every reading is within 250 mm of one made during the calibration has   *)
(* no torpedo in it (50 mm of thinning and the 300 mm of the filter leave  *)
(* no gap between them); and an object away from everything calibrated,    *)
(* with three readings or more and not too many, each within 350 mm of the *)
(* next in the scan's order, is found at its centre.                       *)
(***************************************************************************)
Familiar(points) == \A p \in points : \E q \in case.seen : Within(p, q, 250)

\* the readings of an object in the scan's order
Seen(object) ==
  /\ Len(object) \in MinCluster .. MaxCluster
  /\ \A i \in 1 .. Len(object) - 1 : Within(object[i], object[i + 1], 350)
  /\ \A i \in DOMAIN object, q \in case.seen : ~Within(object[i], q, 300)

TargetIsTheObject ==
  (case.of = "watch" /\ case.scans = 3) =>
    LET object == case.object
    IN /\ Familiar(case.points) => ~case.found
       /\ Seen(object) /\ Familiar(case.points \ ToSet(object)) =>
            case.found /\ case.car = Centre(object)

(***************************************************************************)
(* A request with up to 255 bytes of payload goes out whole, with its size *)
(* and with a checksum that makes the exclusive or of all bytes zero       *)
(* (sl_lidarprotocol_codec.cpp:91); a larger one goes out cut to the low 8 *)
(* bits of its size, with a byte of payload for its checksum.  The two     *)
(* CRCs (sl_crc.cpp, Protocol.h) tell a block from the same block with a   *)
(* burst of errors no longer than they are, in the order in which they     *)
(* take the bits of a byte: the CRC-32 the lowest first, the CRC-16 the    *)
(* highest.  And the table of the CRC-32 gives what shifting the padded    *)
(* block bit by bit gives.                                                 *)
(***************************************************************************)
ShiftBit(crc, bit) == Halve(IF bit THEN Xor(crc, {0}) ELSE crc)

\* the n-th bit of a block, from 1 on, the lowest bit of a byte first
BitOf(bytes, n) == ((n - 1) % 8) \in bytes[((n - 1) \div 8) + 1]

BitwiseCrc(bytes) ==
  LET padded == bytes \o Padding(Len(bytes))
      crc[n \in 0 .. 8 * Len(padded)] ==
        IF n = 0 THEN 0 .. 31 ELSE ShiftBit(crc[n - 1], BitOf(padded, n))
  IN Xor(crc[8 * Len(padded)], 0 .. 31)

\* errors: the bits that differ, all within a stretch of a length
Burst(a, b, length) ==
  LET errors == {n \in 1 .. 8 * Len(a) : BitOf(a, n) # BitOf(b, n)}
  IN errors # {} /\ \A m, n \in errors : n - m < length

Mirrored(bytes) == [i \in DOMAIN bytes |-> BitRev(bytes[i], 8)]

BytesAreChecked ==
  /\ (case.of = "encode") =>
       LET m == case.message
           sent == EncodeData(m)
       IN IF ~m.hasPayload THEN sent = <<SyncByte, m.cmd>>
          ELSE /\ Len(sent) = 4 + (Len(m.payload) % 256)
               /\ Len(m.payload) < 256 =>
                    /\ SubSeq(sent, 4, Len(sent) - 1) = m.payload
                    /\ XorOf(sent) = {}
               /\ Len(m.payload) >= 256 =>
                    Last(sent) = m.payload[(Len(m.payload) % 256) + 1]
  /\ (case.of = "crc") =>
       LET whole == case.blocks[1]  damaged == case.blocks[2]
       IN /\ Cal(whole) = BitwiseCrc(whole)
          /\ Burst(whole, damaged, 32) => Cal(whole) # Cal(damaged)
          /\ Burst(Mirrored(whole), Mirrored(damaged), 16) =>
               CalculateCRC16(whole) # CalculateCRC16(damaged)

(***************************************************************************)
(* The waypoint lies on the straight line from the start to the goal, at   *)
(* the point that is ahead of the torpedo by the look-ahead distance, or   *)
(* at an end of the path (AStarPlanner.h:46), but for the millimetres the  *)
(* path's points are rounded to.  If start and goal have the               *)
(* same x the waypoint stays at the start's y, and the torpedo is not led  *)
(* to the goal.                                                            *)
(***************************************************************************)
WaypointAhead ==
  (case.of = "leg") =>
    LET leg == case.leg
        path == ComputePath(leg.start, leg.goal)
        tx == TargetX(path, leg.x, leg.velocity)
        y == WaypointY(path, leg.x, leg.velocity)
        dx == leg.goal.x - leg.start.x
        dy == leg.goal.y - leg.start.y
    IN IF dx = 0 THEN y = leg.start.y
       ELSE /\ Distance((y - leg.start.y) * dx, (tx - leg.start.x) * dy)
                 <= 2 * Distance(dx, 0) + Distance(dy, 0)
            /\ \/ tx = leg.goal.x
               \/ Distance(tx, leg.goal.x) + 120 <= Distance(leg.x, leg.goal.x)
               \/ tx = leg.start.x /\ Distance(leg.x, leg.goal.x) > Distance(tx, leg.goal.x)

(***************************************************************************)
(* With a steady error the steering is, after MaxPeriods periods of 10 ms, *)
(* what the law asks for but for one degree and the rounding, whatever     *)
(* state it was left in, and it never passes 45 degrees: the filter, the   *)
(* dead zone and the slew limit (LatencyAwareCtrl.h:83-97) do not keep it  *)
(* from its goal.                                                          *)
(***************************************************************************)
SteeringSettles ==
  (case.of = "steer") =>
    /\ case.control.last \in -Limit .. Limit
    /\ case.periods = MaxPeriods =>
         Distance(100 * case.control.last, SteerRaw(case.error, 0, case.yaw)) <= 160
=============================================================================
