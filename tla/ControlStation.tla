--------------------------- MODULE ControlStation ---------------------------
(***************************************************************************)
(* The control station's threads and the state they share (src/main.cpp).  *)
(*                                                                         *)
(* One step is one access to a shared variable: an atomic load or store,   *)
(* or a critical section of `mtx' (every access to current_torpedo_state   *)
(* is inside one, so a section is a single step).  Thread-local work is    *)
(* folded into the access before it.  The threads are                      *)
(*                                                                         *)
(*   "lidar"   T1  publishes the lidar fix                                 *)
(*   "uplink"  T2  publishes the pose received over the uplink             *)
(*   "tcp"     T3  executes the operator's commands                        *)
(*   "ctl"     T5  chooses the guidance mode and sends the downlink        *)
(*   "udp"     T7  accepts targets over UDP                                *)
(*   "plan"    T8  plans a path every 200 ms                               *)
(*                                                                         *)
(* Positions are integers; the arithmetic of the steering law is abstract: *)
(* it asks for any angle of Requests.  What follows it (saturation, rate   *)
(* limiter, the last guard) is exact.                                      *)
(***************************************************************************)
EXTENDS Integers

CONSTANTS
  Coord,        \* coordinates of targets, poses and fixes
  InitTarget,   \* the target the atomics start with, (5.0, 0.0)
  Targets,      \* targets a client may command
  Poses,        \* poses the uplink may report, [x, y, seq]
  Fixes,        \* positions the lidar may track, [x, y]
  Requests,     \* angles the steering law may ask for
  Arrival,      \* arrival tolerance per axis (0.20 m)
  StraightY,    \* below this y the station steers straight (0.6 m)
  SteerLimit,   \* mechanical limit (30 degrees)
  MaxSteerDiff, \* largest change per control cycle (4 degrees)
  SeqMod,       \* 2^16: downlink_seq is a uint16_t
  NaN,          \* "no value" in a downlink field
  NoPacket      \* nothing was sent yet

Point == [x : Coord, y : Coord]
Pose  == [x : Coord, y : Coord, seq : Nat]

ASSUME CoordAssumption ==
  /\ Coord \subseteq Int
  /\ 0 \in Coord
  /\ InitTarget \in Point
  /\ Targets \subseteq Point
  /\ Fixes \subseteq Point
  /\ Poses \subseteq Pose
ASSUME SteerAssumption ==
  /\ Requests \subseteq Int
  /\ SteerLimit \in Nat
  /\ MaxSteerDiff \in Nat
ASSUME SeqAssumption == SeqMod \in Nat \ {0}
ASSUME ToleranceAssumption == Arrival \in Nat /\ StraightY \in Int
ASSUME NaNAssumption == NaN \notin Coord

MIDCOURSE == 1
TERMINAL  == 2
ARRIVE    == 3

Threads == {"lidar", "uplink", "tcp", "ctl", "udp", "plan"}
Setters == {"tcp", "udp"}       \* the two threads that store a target

\* where a thread can stand in its loop
Labels == {"loop", "y", "valid", "fired", "terminal", "launched", "pose", "lx",
           "ly", "tx", "ty", "steer", "send", "sy", "gx", "gy", "done"}

Packet ==
  [flags : {MIDCOURSE, TERMINAL, ARRIVE}, seq : 0 .. SeqMod - 1, steer : Int,
   tx : Coord \cup {NaN}, ty : Coord \cup {NaN},
   lx : Coord \cup {NaN}, ly : Coord \cup {NaN}]

ASSUME PacketAssumption == NoPacket \notin Packet

VARIABLES
  running,      \* system_running
  launched,     \* is_launched
  terminal,     \* is_terminal_guidance
  tar,          \* atomic_tar_x_meters, atomic_tar_y_meters
  fix,          \* atomic_torpedo_x_m, atomic_torpedo_y_m, atomic_lidar_valid
  pose,         \* current_torpedo_state
  astar_valid,  \* atomic_astar_valid
  path,         \* the end points of AStarPlanner::path
  is_arrived,   \* T5's static latch
  last_steer,   \* T5's rate limiter
  downlink_seq,
  downlink,     \* the packet last written to the torpedo's UART
  pc,           \* where each thread stands
  hand,         \* the target a setter is storing, the fix T1 is storing
  ctl,          \* T5's locals
  plan,         \* T8's locals
  commanded,    \* history: every target in force so far
  stale,        \* history: packets of the other mode since `terminal' flipped
  late          \* history: packets with a position since the fix was withdrawn

modeVars == <<launched, terminal>>
ctlVars  == <<is_arrived, last_steer, downlink_seq, downlink, ctl>>
planVars == <<astar_valid, path, plan>>
history  == <<commanded, stale, late>>
vars == <<running, modeVars, tar, fix, pose, planVars, ctlVars, pc,
          hand, history>>

(***************************************************************************)
(* Steering: what main.cpp does to the angle the control law asks for.     *)
(***************************************************************************)
Clamp(v, lo, hi) == IF v < lo THEN lo ELSE IF v > hi THEN hi ELSE v

Saturate(s) == Clamp(s, -SteerLimit, SteerLimit)
RateLimit(s, last) == Clamp(s, last - MaxSteerDiff, last + MaxSteerDiff)

\* mutated: the saturation is forgotten
LimitedSteer_NoSaturation(s, y) ==
  RateLimit(IF y < StraightY THEN 0 ELSE s, last_steer)

\* last_steer after a midcourse cycle at ordinate y that asked for angle s
LimitedSteer(s, y) ==
  RateLimit(IF y < StraightY THEN 0 ELSE Saturate(s), last_steer)

Near(a, b) == -Arrival <= a - b /\ a - b <= Arrival
AtTarget(p, t) == Near(p.x, t.x) /\ Near(p.y, t.y)

-----------------------------------------------------------------------------
\* T5's locals are dead at the head of its loop and are forgotten there.
Idle == [x |-> 0, y |-> 0, seq |-> 0, lx |-> 0, ly |-> 0, tx |-> 0, ty |-> 0,
         steer |-> 0, valid |-> FALSE]
NoPlan == [sx |-> 0, sy |-> 0, gx |-> 0]
Origin == [x |-> 0, y |-> 0]

Init ==
  /\ running = TRUE
  /\ launched = FALSE
  /\ terminal = FALSE
  /\ tar = InitTarget
  /\ fix = [x |-> 0, y |-> 0, valid |-> FALSE]
  /\ pose = [x |-> 0, y |-> 0, seq |-> 0]
  /\ astar_valid = FALSE
  /\ path = [start |-> Origin, goal |-> Origin]
  /\ is_arrived = FALSE
  /\ last_steer = 0
  /\ downlink_seq = 0
  /\ downlink = NoPacket
  /\ pc = [t \in Threads |-> "loop"]
  /\ hand = [t \in Setters \cup {"lidar"} |-> Origin]
  /\ ctl = Idle
  /\ plan = NoPlan
  /\ commanded = {InitTarget}
  /\ stale = 0
  /\ late = 0

Goto(t, from, to) == pc[t] = from /\ pc' = [pc EXCEPT ![t] = to]

\* while (system_running.load()): the head of every thread's loop
Iterate(t, to) == running /\ Goto(t, "loop", to)

Exit(t) ==
  /\ ~running
  /\ Goto(t, "loop", "done")
  /\ UNCHANGED <<running, modeVars, tar, fix, pose, planVars, ctlVars,
                 hand, history>>

\* SIGINT, SIGTERM
Signal ==
  /\ running
  /\ running' = FALSE
  /\ UNCHANGED <<modeVars, tar, fix, pose, planVars, ctlVars, pc, hand,
                 history>>

(***************************************************************************)
(* T1: publish a fix as three stores, or withdraw it with one.             *)
(***************************************************************************)
LidarStoreX(f) ==
  /\ Iterate("lidar", "y")
  /\ fix' = [fix EXCEPT !.x = f.x]
  /\ hand' = [hand EXCEPT !["lidar"] = f]
  /\ UNCHANGED <<running, modeVars, tar, pose, planVars, ctlVars, history>>

LidarStoreY ==
  /\ Goto("lidar", "y", "valid")
  /\ fix' = [fix EXCEPT !.y = hand["lidar"].y]
  /\ UNCHANGED <<running, modeVars, tar, pose, planVars, ctlVars, hand,
                 history>>

LidarStoreValid ==
  /\ Goto("lidar", "valid", "loop")
  /\ fix' = [fix EXCEPT !.valid = TRUE]
  /\ hand' = [hand EXCEPT !["lidar"] = Origin]
  /\ UNCHANGED <<running, modeVars, tar, pose, planVars, ctlVars,
                 history>>

LidarLost ==
  /\ Iterate("lidar", "loop")
  /\ fix' = [fix EXCEPT !.valid = FALSE]
  /\ late' = IF fix.valid THEN 0 ELSE late
  /\ UNCHANGED <<running, modeVars, tar, pose, planVars, ctlVars, hand,
                 commanded, stale>>

(***************************************************************************)
(* T2: a status packet replaces the pose under mtx.                        *)
(***************************************************************************)
UplinkReceive(p) ==
  /\ Iterate("uplink", "loop")
  /\ pose' = p
  /\ UNCHANGED <<running, modeVars, tar, fix, planVars, ctlVars, hand,
                 history>>

(***************************************************************************)
(* T3 and T7.  Both execute CMD_TARGET, as two stores; T3 executes the     *)
(* other commands too.                                                     *)
(***************************************************************************)
StoreTargetX(t, p) ==
  /\ Iterate(t, "y")
  /\ tar' = [tar EXCEPT !.x = p.x]
  /\ hand' = [hand EXCEPT ![t] = p]
  /\ commanded' = commanded \cup {p}
  /\ UNCHANGED <<running, modeVars, fix, pose, planVars, ctlVars, stale,
                 late>>

StoreTargetY(t) ==
  /\ Goto(t, "y", "loop")
  /\ tar' = [tar EXCEPT !.y = hand[t].y]
  /\ hand' = [hand EXCEPT ![t] = Origin]
  /\ UNCHANGED <<running, modeVars, fix, pose, planVars, ctlVars,
                 history>>

StoreTerminal(v) ==
  /\ terminal' = v
  /\ stale' = IF terminal = v THEN stale ELSE 0

\* CMD_FIRE: two stores
CmdFire ==
  /\ Iterate("tcp", "fired")
  /\ launched' = TRUE
  /\ UNCHANGED <<running, terminal, tar, fix, pose, planVars, ctlVars,
                 hand, history>>

CmdFireMidcourse ==
  /\ Goto("tcp", "fired", "loop")
  /\ StoreTerminal(FALSE)
  /\ UNCHANGED <<running, launched, tar, fix, pose, planVars, ctlVars,
                 hand, commanded, late>>

\* CMD_ENDGUIDE
CmdEndGuide ==
  /\ Iterate("tcp", "loop")
  /\ StoreTerminal(TRUE)
  /\ UNCHANGED <<running, launched, tar, fix, pose, planVars, ctlVars,
                 hand, commanded, late>>

(***************************************************************************)
(* T5.  A cycle ends by sending at most one packet.                        *)
(***************************************************************************)
\* packets sent in the mode that `terminal' no longer asks for
StaleMode(flags) ==
  \/ flags = MIDCOURSE /\ terminal
  \/ flags = TERMINAL /\ ~terminal

\* the history counters stop at CountCap: they only have to tell 1 from more
CountCap == 2
Count(n) == IF n < CountCap THEN n + 1 ELSE n

CountPacket(flags, lx, ly) ==
  /\ stale' = IF StaleMode(flags) THEN Count(stale) ELSE stale
  /\ late' = IF ~fix.valid /\ (lx # NaN \/ ly # NaN) THEN Count(late) ELSE late

\* mutated: downlink_seq is wider than its field in the packet
Send_NoWrap(flags, steer, tx, ty, lx, ly) ==
  /\ downlink' = [flags |-> flags, seq |-> downlink_seq, steer |-> steer,
                  tx |-> tx, ty |-> ty, lx |-> lx, ly |-> ly]
  /\ downlink_seq' = downlink_seq + 1
  /\ CountPacket(flags, lx, ly)
  /\ ctl' = Idle

Send(flags, steer, tx, ty, lx, ly) ==
  /\ downlink' = [flags |-> flags, seq |-> downlink_seq, steer |-> steer,
                  tx |-> tx, ty |-> ty, lx |-> lx, ly |-> ly]
  /\ downlink_seq' = (downlink_seq + 1) % SeqMod
  /\ CountPacket(flags, lx, ly)
  /\ ctl' = Idle

\* what a T5 step that sends nothing leaves alone
CtlQuiet == UNCHANGED <<running, modeVars, tar, fix, pose, planVars,
                        hand, downlink_seq, downlink, history>>
\* what a T5 step that sends leaves alone
CtlOthers == UNCHANGED <<running, modeVars, tar, fix, pose, planVars,
                         hand, commanded>>

\* mutated: the terminal flag is looked at before the latch
CtlMode_TerminalFirst ==
  /\ Iterate("ctl", CASE terminal -> "terminal"
                      [] ~terminal /\ is_arrived -> "tx"
                      [] OTHER -> "launched")
  /\ UNCHANGED <<is_arrived, last_steer, ctl>> /\ CtlQuiet

\* the latch comes first, then is_terminal_guidance
CtlMode ==
  /\ Iterate("ctl", CASE is_arrived -> "tx"
                      [] ~is_arrived /\ terminal -> "terminal"
                      [] OTHER -> "launched")
  /\ UNCHANGED <<is_arrived, last_steer, ctl>> /\ CtlQuiet

CtlSendTerminal ==
  /\ Goto("ctl", "terminal", "loop")
  /\ Send(TERMINAL, 0, NaN, NaN, NaN, NaN)
  /\ UNCHANGED <<is_arrived, last_steer>> /\ CtlOthers

CtlLaunched ==
  /\ Goto("ctl", "launched", IF launched THEN "pose" ELSE "loop")
  /\ UNCHANGED <<is_arrived, last_steer, ctl>> /\ CtlQuiet

CtlCopyPose ==
  /\ Goto("ctl", "pose", "lx")
  /\ ctl' = [ctl EXCEPT !.x = pose.x, !.y = pose.y, !.seq = pose.seq]
  /\ UNCHANGED <<is_arrived, last_steer>> /\ CtlQuiet

\* The arrived branch loads the target before the fix, midcourse after it.
CtlLoadLx ==
  /\ Goto("ctl", "lx", "ly")
  /\ ctl' = [ctl EXCEPT !.lx = fix.x]
  /\ UNCHANGED <<is_arrived, last_steer>> /\ CtlQuiet

CtlLoadLy ==
  /\ Goto("ctl", "ly", IF is_arrived THEN "valid" ELSE "tx")
  /\ ctl' = [ctl EXCEPT !.ly = fix.y]
  /\ UNCHANGED <<is_arrived, last_steer>> /\ CtlQuiet

CtlLoadTx ==
  /\ Goto("ctl", "tx", "ty")
  /\ ctl' = [ctl EXCEPT !.tx = tar.x]
  /\ UNCHANGED <<is_arrived, last_steer>> /\ CtlQuiet

CtlLoadTyArrived ==
  /\ is_arrived
  /\ Goto("ctl", "ty", "lx")
  /\ ctl' = [ctl EXCEPT !.ty = tar.y]
  /\ UNCHANGED <<is_arrived, last_steer>> /\ CtlQuiet

\* The target is complete: latch the arrival, or go on to steer.
CtlLoadTyJudge ==
  LET t == [x |-> ctl.tx, y |-> tar.y]
  IN /\ ~is_arrived
     /\ Goto("ctl", "ty", IF AtTarget(ctl, t) THEN "valid" ELSE "steer")
     /\ ctl' = [ctl EXCEPT !.ty = tar.y]
     /\ is_arrived' = AtTarget(ctl, t)
     /\ UNCHANGED last_steer /\ CtlQuiet

\* last_steer remembers the angle before the last guard, which may zero it.
CtlSteer(s) ==
  /\ Goto("ctl", "steer", "valid")
  /\ last_steer' = LimitedSteer(s, ctl.y)
  /\ ctl' = [ctl EXCEPT !.steer =
               IF ctl.seq = 0 \/ ~astar_valid THEN 0 ELSE last_steer']
  /\ UNCHANGED is_arrived /\ CtlQuiet

\* atomic_lidar_valid is loaded once for each field of the packet.
CtlLoadValid ==
  /\ Goto("ctl", "valid", "send")
  /\ ctl' = [ctl EXCEPT !.valid = fix.valid]
  /\ UNCHANGED <<is_arrived, last_steer>> /\ CtlQuiet

\* mutated: the mode is chosen once, before the loop
CtlSend_ModeHoisted ==
  /\ Goto("ctl", "send", IF is_arrived THEN "loop" ELSE "launched")
  /\ \E v \in {<<ctl.valid, fix.valid>>, <<fix.valid, ctl.valid>>} :
       Send(IF is_arrived THEN ARRIVE ELSE MIDCOURSE, ctl.steer, ctl.tx, ctl.ty,
            IF v[1] THEN ctl.lx ELSE NaN, IF v[2] THEN ctl.ly ELSE NaN)
  /\ UNCHANGED <<is_arrived, last_steer>> /\ CtlOthers

\* mutated: the position is sent whether or not the track is valid
CtlSend_IgnoringLoss ==
  /\ Goto("ctl", "send", "loop")
  /\ Send(IF is_arrived THEN ARRIVE ELSE MIDCOURSE, ctl.steer, ctl.tx, ctl.ty,
          ctl.lx, ctl.ly)
  /\ UNCHANGED <<is_arrived, last_steer>> /\ CtlOthers

\* The order in which the two arguments are evaluated is the compiler's.
CtlSend ==
  /\ Goto("ctl", "send", "loop")
  /\ \E v \in {<<ctl.valid, fix.valid>>, <<fix.valid, ctl.valid>>} :
       Send(IF is_arrived THEN ARRIVE ELSE MIDCOURSE, ctl.steer, ctl.tx, ctl.ty,
            IF v[1] THEN ctl.lx ELSE NaN, IF v[2] THEN ctl.ly ELSE NaN)
  /\ UNCHANGED <<is_arrived, last_steer>> /\ CtlOthers

(***************************************************************************)
(* T8: four loads, then a path between the two points under path_mtx.      *)
(***************************************************************************)
PlanQuiet == UNCHANGED <<running, modeVars, tar, fix, pose, astar_valid, path,
                         ctlVars, hand, history>>

PlanLoadSx ==
  /\ Iterate("plan", "sy") /\ plan' = [plan EXCEPT !.sx = fix.x] /\ PlanQuiet

PlanLoadSy ==
  /\ Goto("plan", "sy", "gx") /\ plan' = [plan EXCEPT !.sy = fix.y]
  /\ PlanQuiet

PlanLoadGx ==
  /\ Goto("plan", "gx", "gy") /\ plan' = [plan EXCEPT !.gx = tar.x]
  /\ PlanQuiet

\* mutated: a path that is valid is not computed again
PlanComputePath_Once ==
  /\ Goto("plan", "gy", "valid")
  /\ path' = IF astar_valid THEN path
             ELSE [start |-> [x |-> plan.sx, y |-> plan.sy],
                   goal  |-> [x |-> plan.gx, y |-> tar.y]]
  /\ plan' = NoPlan
  /\ UNCHANGED <<running, modeVars, tar, fix, pose, astar_valid,
                 ctlVars, hand, history>>

PlanComputePath ==
  /\ Goto("plan", "gy", "valid")
  /\ path' = [start |-> [x |-> plan.sx, y |-> plan.sy],
              goal  |-> [x |-> plan.gx, y |-> tar.y]]
  /\ plan' = NoPlan
  /\ UNCHANGED <<running, modeVars, tar, fix, pose, astar_valid,
                 ctlVars, hand, history>>

PlanStoreValid ==
  /\ Goto("plan", "valid", "loop")
  /\ astar_valid' = TRUE
  /\ UNCHANGED <<running, modeVars, tar, fix, pose, path, plan, ctlVars,
                 hand, history>>

-----------------------------------------------------------------------------
LidarNext == LidarStoreY \/ LidarStoreValid

LidarInput == LidarLost \/ \E f \in Fixes : LidarStoreX(f)

TcpCommand ==
  \/ CmdFire
  \/ CmdEndGuide
  \/ \E p \in Targets : StoreTargetX("tcp", p)

CtlNext ==
  \/ CtlMode \/ CtlSendTerminal \/ CtlLaunched \/ CtlCopyPose
  \/ CtlLoadLx \/ CtlLoadLy \/ CtlLoadTx \/ CtlLoadTyArrived
  \/ CtlLoadTyJudge \/ CtlLoadValid \/ CtlSend
  \/ \E s \in Requests : CtlSteer(s)

PlanNext ==
  \/ PlanLoadSx \/ PlanLoadSy \/ PlanLoadGx \/ PlanComputePath
  \/ PlanStoreValid

\* every thread joined
Joined ==
  /\ \A t \in Threads : pc[t] = "done"
  /\ UNCHANGED vars

Next ==
  \/ Signal
  \/ LidarInput \/ LidarNext
  \/ \E p \in Poses : UplinkReceive(p)
  \/ TcpCommand \/ CmdFireMidcourse
  \/ \E p \in Targets : StoreTargetX("udp", p)
  \/ \E t \in Setters : StoreTargetY(t)
  \/ CtlNext
  \/ PlanNext
  \/ \E t \in Threads : Exit(t)
  \/ Joined

Spec == Init /\ [][Next]_vars

(***************************************************************************)
(* The control loop and the planner run at a fixed period and wait for     *)
(* nobody (an atomic access or a short section of mtx at a time), and a    *)
(* command that was received is executed.  No packet need ever arrive.     *)
(***************************************************************************)
Fairness ==
  /\ WF_vars(CtlNext)
  /\ WF_vars(PlanNext)
  /\ WF_vars(CmdFireMidcourse)
  /\ \A t \in Setters : WF_vars(StoreTargetY(t))

FairSpec == Spec /\ Fairness

-----------------------------------------------------------------------------
TypeOK ==
  /\ running \in BOOLEAN /\ launched \in BOOLEAN /\ terminal \in BOOLEAN
  /\ tar \in Point
  /\ fix \in [x : Coord, y : Coord, valid : BOOLEAN]
  /\ pose \in Pose
  /\ astar_valid \in BOOLEAN
  /\ path \in [start : Point, goal : Point]
  /\ is_arrived \in BOOLEAN
  /\ last_steer \in Int
  /\ downlink_seq \in 0 .. SeqMod - 1
  /\ downlink \in Packet \cup {NoPacket}
  /\ pc \in [Threads -> Labels]
  /\ hand \in [Setters \cup {"lidar"} -> Point]
  /\ ctl \in [x : Coord, y : Coord, seq : Nat, lx : Coord, ly : Coord,
              tx : Coord, ty : Coord, steer : Int, valid : BOOLEAN]
  /\ plan \in [sx : Coord, sy : Coord, gx : Coord]
  /\ commanded \subseteq Point
  /\ stale \in Nat /\ late \in Nat

(***************************************************************************)
(* Once the torpedo was told to stop, no later downlink tells it anything  *)
(* else, whatever commands follow (main.cpp:201: the stop state persists   *)
(* even when the guidance mode changes).                                   *)
(***************************************************************************)
StopIsFinal ==
  [][downlink # NoPacket /\ downlink.flags = ARRIVE
       => downlink'.flags = ARRIVE]_downlink

(***************************************************************************)
(* A mode change reaches the torpedo within one control cycle: since the   *)
(* operator's last change of the terminal flag, at most one packet (the    *)
(* one in preparation) was sent in the mode it ended.                      *)
(***************************************************************************)
AtMostOneStalePacket == stale <= 1

(***************************************************************************)
(* A position the lidar has lost is withdrawn: since the track was lost,   *)
(* at most one packet (the one in preparation) carried a coordinate,       *)
(* although the flag is read apart from the coordinates, and twice.        *)
(***************************************************************************)
AtMostOneLatePacket == late <= 1

(***************************************************************************)
(* The packets on the torpedo's UART are a DownlinkStream: every branch of *)
(* the loop that sends also counts, the rate limiter never carries the     *)
(* angle past the limit that Saturate imposed before it, and a stop is     *)
(* never followed by another mode.                                         *)
(***************************************************************************)
Stream == INSTANCE DownlinkStream WITH
  Modes <- {MIDCOURSE, TERMINAL, ARRIVE}, StopMode <- ARRIVE,
  SteerModes <- {MIDCOURSE}, Angles <- -SteerLimit .. SteerLimit,
  next  <- downlink_seq,
  mode  <- IF downlink = NoPacket THEN 0 ELSE downlink.flags,
  steer <- IF downlink = NoPacket THEN 0 ELSE downlink.steer

ImplementsStream == Stream!Spec

(***************************************************************************)
(* The planner never misses the last target: once the target stays the     *)
(* same while the station runs, the path ends at it and stays there.       *)
(***************************************************************************)
PathFollowsTarget ==
  \A p \in Targets \cup {InitTarget} :
    <>[](tar = p /\ running) => <>[](path.goal = p)

-----------------------------------------------------------------------------
(***************************************************************************)
(* Properties that a comment states and the code does not have.            *)
(***************************************************************************)

(***************************************************************************)
(* The arrival is judged against a target somebody set (main.cpp:269: the  *)
(* error is judged against the Target WP in real time).                    *)
(***************************************************************************)
ArrivalOnCommandedTarget ==
  [][is_arrived' /\ ~is_arrived =>
       [x |-> ctl'.tx, y |-> ctl'.ty] \in commanded]_is_arrived
=============================================================================
