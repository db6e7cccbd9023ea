--------------------------- MODULE SampleDecoding ---------------------------
(***************************************************************************)
(* The arithmetic of the capsule handlers (handler_capsules.cpp): angles,  *)
(* sync bits, distances and times of the samples of a capsule.             *)
(*                                                                         *)
(* A start angle is in 1/64 degree (q6), a sample's in 1/65536 (q16).      *)
(* Right shifts of negative numbers round down, as they do here.           *)
(***************************************************************************)
EXTENDS Integers, FiniteSets

Kinds == {"express", "ultra", "dense", "ultra_dense"}

\* 360 degrees
Turn6 == 23040
Turn16 == 23592960

Samples == [express |-> 32, ultra |-> 96, dense |-> 40, ultra_dense |-> 64]

\* the angle from a capsule's start to the next one's, in q8
Diff8(prev, cur) == (cur - prev) * 4 + (IF prev > cur THEN Turn6 * 4 ELSE 0)

\* angleInc_q16
Inc(kind, diff8) ==
  CASE kind = "express" -> diff8 * 8
    [] kind = "ultra" -> (diff8 * 8) \div 3
    [] kind = "dense" -> (diff8 * 256) \div 40
    [] kind = "ultra_dense" -> (diff8 * 256) \div 64

\* currentAngle_raw_q16 of sample j is prev * 1024 + j * Inc(kind, Diff8(prev, cur))

-----------------------------------------------------------------------------
(***************************************************************************)
(* The sync bit marks the first sample of a turn.  The dense handlers look *)
(* twice as far and drop a mark that follows another.                      *)
(***************************************************************************)
\* mutated: the sample that starts the turn is marked once more
Window_Closed(kind, inc) == IF kind \in {"express", "ultra"} THEN inc + 1 ELSE 2 * inc

Window(kind, inc) == IF kind \in {"express", "ultra"} THEN inc ELSE 2 * inc

Crossings(kind, prev, cur) ==
  LET inc == Inc(kind, Diff8(prev, cur))
  IN {j \in 0 .. Samples[kind] - 1 :
        (prev * 1024 + (j + 1) * inc) % Turn16 < Window(kind, inc)}

\* the samples, counted from 0, that are marked; last: the sample before was
Marked(kind, prev, cur, last) ==
  LET crossings == Crossings(kind, prev, cur)
      bit[j \in -1 .. Samples[kind] - 1] ==
        IF j = -1 THEN last ELSE j \in crossings /\ ~bit[j - 1]
  IN IF kind \in {"dense", "ultra_dense"} THEN {j \in crossings : bit[j]} ELSE crossings

-----------------------------------------------------------------------------
(***************************************************************************)
(* The angle of a sample as it is published, in q6 and in units of a       *)
(* quarter turn over 2^14.                                                 *)
(***************************************************************************)
\* mutated: only angles beyond the turn are brought back
Normal6_NoLift(a) == IF a >= Turn6 THEN a - Turn6 ELSE a

Normal6(a) == IF a < 0 THEN a + Turn6 ELSE IF a >= Turn6 THEN a - Turn6 ELSE a

AngleZ(angle6) == (angle6 * 256) \div 90

\* angle_offset_q3 of an express sample, 6 bits
ExpressOffset16(bits) == bits * 8192

\* offsetAngleMean_q16 of an ultra sample is in radians: 7.5 degrees, or 8 and
\* less when the distance, in quarter millimetres, is known; 180 / pi
UltraOffset16(distance) ==
  LET k2 == 98361 \div distance
      mean == IF distance < 200 THEN 8578
              ELSE (9150 - k2 * 64) - ((k2 * k2 * k2) \div 98304)
  IN (mean * 57296) \div 1000

(***************************************************************************)
(* What the handlers publish for the capsule that starts at prev when the  *)
(* one that starts at cur arrives.                                         *)
(***************************************************************************)
Publish(kind, prev, inc, marks, offset16) ==
  [sync |-> marks,
   angle |-> [j \in 0 .. Samples[kind] - 1 |->
                Normal6((prev * 1024 + j * inc - offset16[j]) \div 1024)]]

Nothing == [sync |-> {}, angle |-> <<>>]

ExpressCapsule(prev, cur, bits) ==
  Publish("express", prev, Inc("express", Diff8(prev, cur)),
          Marked("express", prev, cur, FALSE), [j \in DOMAIN bits |-> ExpressOffset16(bits[j])])

UltraCapsule(prev, cur, distance) ==
  Publish("ultra", prev, Inc("ultra", Diff8(prev, cur)),
          Marked("ultra", prev, cur, FALSE), [j \in DOMAIN distance |-> UltraOffset16(distance[j])])

\* a capsule farther from the one before than a lidar at 100 Hz would be is
\* dropped; samples: _countof(cabins)
TooFar(prev, cur, samples, duration) ==
  Diff8(prev, cur) > ((36000 * samples) \div (1000000 \div duration)) * 256

DenseCapsule(prev, cur, last, duration) ==
  IF TooFar(prev, cur, 40, duration) THEN Nothing
  ELSE Publish("dense", prev, Inc("dense", Diff8(prev, cur)),
          Marked("dense", prev, cur, last), [j \in 0 .. 39 |-> 0])

UltraDenseCapsule(prev, cur, last, duration) ==
  IF TooFar(prev, cur, 32, duration) THEN Nothing
  ELSE Publish("ultra_dense", prev, Inc("ultra_dense", Diff8(prev, cur)),
          Marked("ultra_dense", prev, cur, last), [j \in 0 .. 63 |-> 0])

-----------------------------------------------------------------------------
(***************************************************************************)
(* _varbitscale_decode                                                     *)
(***************************************************************************)
ScaleBase == <<3328, 1792, 1280, 512, 0>>
ScaleLevel == <<4, 3, 2, 1, 0>>

TargetBase == <<16384, 4096, 2048, 512, 0>>

VarBitScale(scaled) ==
  LET i == CHOOSE k \in 1 .. 5 : /\ scaled >= ScaleBase[k]
                                 /\ \A l \in 1 .. k - 1 : scaled < ScaleBase[l]
  IN [value |-> TargetBase[i] + (scaled - ScaleBase[i]) * 2 ^ ScaleLevel[i],
      level |-> ScaleLevel[i]]

(***************************************************************************)
(* The three distances of an ultra cabin, in quarter millimetres: the      *)
(* major one, and two predicted from it and from the next cabin's.         *)
(* -512 and 511 stand for a prediction that failed.                        *)
(***************************************************************************)
Failed(predict) == predict \in {-512, 511}

UltraDistances(major, major2, predict1, predict2) ==
  LET m1 == VarBitScale(major)
      m2 == VarBitScale(major2)
      from2 == m1.value = 0 /\ m2.value # 0
      base1 == IF from2 THEN m2.value ELSE m1.value
      level1 == IF from2 THEN m2.level ELSE m1.level
  IN <<m1.value * 4,
       IF Failed(predict1) THEN 0 ELSE (predict1 * 2 ^ level1 + base1) * 4,
       IF Failed(predict2) THEN 0 ELSE (predict2 * 2 ^ m2.level + m2.value) * 4>>

\* the distance of an ultra dense sample, by its scale, before smoothing
ScaleStep == <<2, 3, 4, 5>>

ScaleStart == <<0, 2046 * 4, 8187 * 4, 24567 * 4>>

\* the largest multiple of 4 in the field of a scale
ScaleField == <<4092, 8188, 16380, 32764>>

UltraDenseDistance(scale, field) == field * ScaleStep[scale + 1] + ScaleStart[scale + 1]

\* a near sample is averaged with the one before if they are within 2 mm
Smoothed(last, scale, distance) ==
  IF scale = 0 /\ last # 0 /\ distance - last \in -8 .. 8
  THEN (distance + last) \div 2
  ELSE distance

-----------------------------------------------------------------------------
(***************************************************************************)
(* The time between a sample's measurement and its capsule's arrival, in   *)
(* microseconds.  timing: duration of a sample, linkage delay, baud rate   *)
(* (0: unknown), ethernet.  Sizes are those of the packed responses.       *)
(***************************************************************************)
TransmissionDelay(timing, size, baud) ==
  IF timing.ethernet THEN 100
  ELSE (10000000 * size) \div (IF timing.baud # 0 THEN timing.baud ELSE baud)

(***************************************************************************)
(* groupingDelay: the difference of two ints is multiplied with the 32-bit *)
(* unsigned duration, and the product is extended to 64 bits without a     *)
(* sign.  TLC's integers are narrower than 64 bits: high counts 2^32.      *)
(***************************************************************************)
Delay(timing, size, baud, samplesAfter) ==
  [high |-> IF samplesAfter * timing.duration < 0 THEN 1 ELSE 0,
   low |-> timing.duration + (timing.duration \div 2) + timing.linkage
           + TransmissionDelay(timing, size, baud) + samplesAfter * timing.duration]

LegacyDelay(timing) == Delay(timing, 5, 115200, 0)
HQDelay(timing) == Delay(timing, 8, 1000000, 0)
ExpressDelay(timing, index) == Delay(timing, 84, 115200, 31 - index)
UltraBoostDelay(timing, index) == Delay(timing, 132, 256000, 32 * 3 - 1 - index)
DenseDelay(timing, index) == Delay(timing, 84, 256000, 39 - index)
UltraDenseDelay(timing, index) == Delay(timing, 170, 1000000, 31 - index)
=============================================================================
