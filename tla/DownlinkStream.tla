--------------------------- MODULE DownlinkStream ---------------------------
(***************************************************************************)
(* What the torpedo is promised about the packets it is sent: numbered     *)
(* without a gap or a repetition (modulo the width of the counter), their  *)
(* angle within the mechanical limit and zero outside midcourse, and       *)
(* nothing but stop packets once it was told to stop.                      *)
(***************************************************************************)
EXTENDS Integers

CONSTANTS Modes,      \* values of the flags field
          StopMode,   \* the one that stops the torpedo
          SteerModes, \* the ones whose packets may carry an angle
          Angles,     \* the angles the rudder can take
          SeqMod      \* numbers are modulo this

VARIABLES next,     \* the number of the next packet
          mode,     \* the mode of the last one, 0 before the first
          steer     \* its angle

stream == <<next, mode, steer>>

Init == next = 0 /\ mode = 0 /\ steer = 0

Send(m, a) ==
  /\ mode = StopMode => m = StopMode
  /\ m \notin SteerModes => a = 0
  /\ next' = (next + 1) % SeqMod
  /\ mode' = m
  /\ steer' = a

Next == \E m \in Modes, a \in Angles : Send(m, a)

Spec == Init /\ [][Next]_stream
=============================================================================
