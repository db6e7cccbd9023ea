------------------------ MODULE ControlStationProofs ------------------------
(***************************************************************************)
(* Theorems about ControlStation, for any coordinates, targets, poses,     *)
(* fixes, requested angles and widths.                                     *)
(***************************************************************************)
EXTENDS ControlStation, TLAPS

(***************************************************************************)
(* Clamping stays between the bounds when they are in order.               *)
(***************************************************************************)
LEMMA ClampBounds ==
  ASSUME NEW v \in Int, NEW lo \in Int, NEW hi \in Int, lo <= hi
  PROVE  /\ Clamp(v, lo, hi) \in Int
         /\ lo <= Clamp(v, lo, hi) /\ Clamp(v, lo, hi) <= hi
BY DEF Clamp

(***************************************************************************)
(* The rate limiter keeps an angle within the mechanical limit when the    *)
(* angle and the remembered one both are: it moves towards the angle       *)
(* asked for and never past it.                                            *)
(***************************************************************************)
LEMMA LimitedSteerBounds ==
  ASSUME NEW s \in Int, NEW y \in Int, last_steer \in Int,
         -SteerLimit <= last_steer, last_steer <= SteerLimit
  PROVE  /\ LimitedSteer(s, y) \in Int
         /\ -SteerLimit <= LimitedSteer(s, y)
         /\ LimitedSteer(s, y) <= SteerLimit
<1> DEFINE w == IF y < StraightY THEN 0 ELSE Saturate(s)
<1>1. w \in Int /\ -SteerLimit <= w /\ w <= SteerLimit
  <2>1. /\ Saturate(s) \in Int
        /\ -SteerLimit <= Saturate(s) /\ Saturate(s) <= SteerLimit
    BY SteerAssumption, ClampBounds DEF Saturate
  <2>2. QED
    BY <2>1, SteerAssumption, ToleranceAssumption
<1>2. LimitedSteer(s, y) = RateLimit(w, last_steer)
  BY DEF LimitedSteer
<1>3. QED
  BY <1>1, <1>2, SteerAssumption DEF RateLimit, Clamp

-----------------------------------------------------------------------------
(***************************************************************************)
(* The type invariant.                                                     *)
(***************************************************************************)
THEOREM TypeCorrect == Spec => []TypeOK
<1> USE DEF TypeOK, Point, Pose, Labels
<1>1. Init => TypeOK
  <2> SUFFICES ASSUME Init
               PROVE  TypeOK
    OBVIOUS
  <2> USE DEF Init
  <2>1. /\ downlink_seq \in 0 .. SeqMod - 1 /\ last_steer \in Int
        /\ stale \in Nat /\ late \in Nat
    BY SeqAssumption
  <2>2. Origin \in Point
    BY CoordAssumption DEF Origin
  <2>3. path \in [start : Point, goal : Point]
    BY <2>2
  <2>4. hand \in [Setters \cup {"lidar"} -> Point]
    BY <2>2
  <2>5. plan \in [sx : Coord, sy : Coord, gx : Coord]
    BY CoordAssumption DEF NoPlan
  <2>6. ctl \in [x : Coord, y : Coord, seq : Nat, lx : Coord, ly : Coord,
                 tx : Coord, ty : Coord, steer : Int, valid : BOOLEAN]
    BY CoordAssumption DEF Idle
  <2>7. /\ pose \in Pose /\ fix \in [x : Coord, y : Coord, valid : BOOLEAN]
        /\ tar \in Point /\ commanded \subseteq Point
    BY CoordAssumption
  <2>8. QED
    BY <2>1, <2>3, <2>4, <2>5, <2>6, <2>7
<1>2. TypeOK /\ [Next]_vars => TypeOK'
  <2> SUFFICES ASSUME TypeOK, [Next]_vars
               PROVE  TypeOK'
    OBVIOUS
  <2> USE CoordAssumption DEF Goto, Iterate, Threads, Setters, modeVars,
          ctlVars, planVars, history
  <2>1. CASE Signal
    BY <2>1 DEF Signal
  <2>2. CASE LidarInput
    <3>1. ASSUME NEW f \in Fixes, LidarStoreX(f)
          PROVE  TypeOK'
      BY <3>1 DEF LidarStoreX
    <3>2. CASE LidarLost
      BY <3>2 DEF LidarLost
    <3>3. QED
      BY <2>2, <3>1, <3>2 DEF LidarInput
  <2>3. CASE LidarNext
    <3>1. CASE LidarStoreY
      BY <3>1 DEF LidarStoreY
    <3>2. CASE LidarStoreValid
      BY <3>2 DEF LidarStoreValid, Origin
    <3>3. QED
      BY <2>3, <3>1, <3>2 DEF LidarNext
  <2>4. ASSUME NEW p \in Poses, UplinkReceive(p)
        PROVE  TypeOK'
    BY <2>4 DEF UplinkReceive
  <2>5. ASSUME NEW t \in Setters, NEW p \in Targets, StoreTargetX(t, p)
        PROVE  TypeOK'
    BY <2>5 DEF StoreTargetX
  <2>6. ASSUME NEW t \in Setters, StoreTargetY(t)
        PROVE  TypeOK'
    BY <2>6 DEF StoreTargetY, Origin
  <2>7. CASE CmdFire \/ CmdFireMidcourse \/ CmdEndGuide
    <3>1. CASE CmdFire
      BY <3>1 DEF CmdFire
    <3>2. CASE CmdFireMidcourse
      <4>1. pc' \in [Threads -> Labels]
        BY <3>2 DEF CmdFireMidcourse
      <4>2. terminal' \in BOOLEAN /\ stale' \in Nat
        BY <3>2 DEF CmdFireMidcourse, StoreTerminal
      <4>3. QED
        BY <3>2, <4>1, <4>2 DEF CmdFireMidcourse
    <3>3. CASE CmdEndGuide
      BY <3>3 DEF CmdEndGuide, StoreTerminal
    <3>4. QED
      BY <2>7, <3>1, <3>2, <3>3
  <2>9. CASE CtlNext
    <3> USE DEF CtlQuiet, CtlOthers
    <3>1. CASE CtlMode
      BY <3>1 DEF CtlMode
    <3>2. CASE CtlSendTerminal
      <4>1. downlink_seq' \in 0 .. SeqMod - 1
        BY <3>2, SeqAssumption DEF CtlSendTerminal, Send
      <4>2. downlink' \in Packet
        BY <3>2 DEF CtlSendTerminal, Send, Packet
      <4>3. QED
        BY <3>2, <4>1, <4>2 DEF CtlSendTerminal, Send, Idle, CountPacket, Count, CountCap
    <3>3. CASE CtlLaunched
      BY <3>3 DEF CtlLaunched
    <3>4. CASE CtlCopyPose
      BY <3>4 DEF CtlCopyPose
    <3>5. CASE CtlLoadLx \/ CtlLoadLy \/ CtlLoadTx
      BY <3>5 DEF CtlLoadLx, CtlLoadLy, CtlLoadTx
    <3>6. CASE CtlLoadTyArrived
      BY <3>6 DEF CtlLoadTyArrived
    <3>7. CASE CtlLoadTyJudge
      BY <3>7 DEF CtlLoadTyJudge, AtTarget, Near
    <3>8. CASE CtlLoadValid
      BY <3>8 DEF CtlLoadValid
    <3>9. CASE CtlSend
      <4>1. downlink_seq' \in 0 .. SeqMod - 1
        BY <3>9, SeqAssumption DEF CtlSend, Send
      <4>2. downlink' \in Packet
        BY <3>9 DEF CtlSend, Send, Packet, ARRIVE, MIDCOURSE
      <4>3. QED
        BY <3>9, <4>1, <4>2 DEF CtlSend, Send, Idle, CountPacket, Count, CountCap
    <3>10. ASSUME NEW s \in Requests, CtlSteer(s)
           PROVE  TypeOK'
      <4>1. last_steer' \in Int
        BY <3>10, SteerAssumption, ToleranceAssumption
           DEF CtlSteer, LimitedSteer, RateLimit, Saturate, Clamp
      <4>2. QED
        BY <3>10, <4>1 DEF CtlSteer
    <3>11. QED
      BY <2>9, <3>1, <3>2, <3>3, <3>4, <3>5, <3>6, <3>7, <3>8, <3>9, <3>10
         DEF CtlNext
  <2>10. CASE PlanNext
    <3> USE DEF PlanQuiet
    <3>1. CASE PlanLoadSx
      BY <3>1 DEF PlanLoadSx
    <3>2. CASE PlanLoadSy
      BY <3>2 DEF PlanLoadSy
    <3>3. CASE PlanLoadGx
      BY <3>3 DEF PlanLoadGx
    <3>4. CASE PlanComputePath
      BY <3>4 DEF PlanComputePath, NoPlan
    <3>5. CASE PlanStoreValid
      BY <3>5 DEF PlanStoreValid
    <3>6. QED
      BY <2>10, <3>1, <3>2, <3>3, <3>4, <3>5 DEF PlanNext
  <2>11. ASSUME NEW t \in Threads, Exit(t)
         PROVE  TypeOK'
    BY <2>11 DEF Exit
  <2>12. CASE UNCHANGED vars
    BY <2>12 DEF vars
  <2>13. QED
    BY <2>1, <2>2, <2>3, <2>4, <2>5, <2>6, <2>7, <2>9, <2>10, <2>11,
       <2>12 DEF Next, TcpCommand, Joined
<1>3. QED
  BY <1>1, <1>2, PTL DEF Spec

-----------------------------------------------------------------------------
(***************************************************************************)
(* The inductive invariant behind the safety theorems, in five parts.      *)
(***************************************************************************)
\* a stop was sent only after the latch, and the latch closes every other path
Latch ==
  /\ downlink # NoPacket /\ downlink.flags = ARRIVE => is_arrived
  /\ is_arrived => pc["ctl"] \notin {"terminal", "launched", "pose", "steer"}

\* T5 holds an angle only between computing and sending it
Rudder ==
  ctl.steer # 0 => pc["ctl"] \in {"valid", "send"} /\ ~is_arrived

\* nothing past the mechanical limit is remembered or about to be sent
Limits ==
  /\ -SteerLimit <= last_steer /\ last_steer <= SteerLimit
  /\ -SteerLimit <= ctl.steer /\ ctl.steer <= SteerLimit

\* where T5 stands once it has chosen midcourse in this cycle
InMidcourse ==
  /\ ~is_arrived
  /\ pc["ctl"] \in {"launched", "pose", "lx", "ly", "tx", "ty", "steer",
                    "valid", "send"}

\* while the cycle in progress disagrees with the flag, no stale packet was sent
Fresh ==
  /\ stale <= 1
  /\ InMidcourse /\ terminal => stale = 0
  /\ pc["ctl"] = "terminal" /\ ~terminal => stale = 0

\* while a lost position can still be sent, none was sent since it was lost
Withdrawn ==
  /\ late <= 1
  /\ pc["ctl"] = "send" /\ ctl.valid /\ ~fix.valid => late = 0

IInv == Latch /\ Rudder /\ Limits /\ Fresh /\ Withdrawn

\* where T5 may be moved by another step than its own
Stopped == IF pc["ctl"] = "loop" THEN {"done"} ELSE {}

(***************************************************************************)
(* Only T5 changes its own state; the others change of it at most its      *)
(* program counter, when the station shuts down, and reset the count of    *)
(* stale packets whenever they change the terminal flag, and that of late  *)
(* ones whenever they withdraw the fix.                                    *)
(***************************************************************************)
LEMMA OtherSteps ==
  ASSUME TypeOK, [Next]_vars
  PROVE  \/ CtlNext
         \/ /\ UNCHANGED ctlVars
            /\ pc'["ctl"] \in {pc["ctl"]} \cup Stopped
            /\ stale' = 0 \/ UNCHANGED <<terminal, stale>>
            /\ \/ late' = 0
               \/ late' = late /\ (fix'.valid \/ fix'.valid = fix.valid)
<1> DEFINE F == /\ UNCHANGED ctlVars
                /\ pc'["ctl"] \in {pc["ctl"]} \cup Stopped
                /\ stale' = 0 \/ UNCHANGED <<terminal, stale>>
                /\ \/ late' = 0
                   \/ late' = late /\ (fix'.valid \/ fix'.valid = fix.valid)
<1> USE DEF Goto, Iterate, Threads, Setters, modeVars, planVars, history,
            Stopped
<1>0. /\ pc \in [Threads -> Labels]
      /\ fix \in [x : Coord, y : Coord, valid : BOOLEAN]
  BY DEF TypeOK
<1>1. CASE Signal
  BY <1>1, <1>0 DEF Signal
<1>2. CASE LidarInput \/ LidarNext
  BY <1>2, <1>0 DEF LidarInput, LidarNext, LidarStoreX, LidarLost, LidarStoreY,
                    LidarStoreValid
<1>3. ASSUME NEW p \in Poses, UplinkReceive(p)
      PROVE  F
  BY <1>3, <1>0 DEF UplinkReceive
<1>4. ASSUME NEW t \in Setters, NEW p \in Targets, StoreTargetX(t, p)
      PROVE  F
  BY <1>4, <1>0 DEF StoreTargetX
<1>5. ASSUME NEW t \in Setters, StoreTargetY(t)
      PROVE  F
  BY <1>5, <1>0 DEF StoreTargetY
<1>6. CASE CmdFire
  BY <1>6, <1>0 DEF CmdFire
<1>7. CASE CmdFireMidcourse
  BY <1>7, <1>0 DEF CmdFireMidcourse, StoreTerminal
<1>8. CASE CmdEndGuide
  BY <1>8, <1>0 DEF CmdEndGuide, StoreTerminal
<1>10. CASE PlanNext
  BY <1>10, <1>0 DEF PlanNext, PlanLoadSx, PlanLoadSy, PlanLoadGx,
                     PlanComputePath, PlanStoreValid, PlanQuiet
<1>11. ASSUME NEW t \in Threads, Exit(t)
       PROVE  F
  BY <1>11, <1>0 DEF Exit
<1>12. CASE UNCHANGED vars
  BY <1>12 DEF vars
<1>13. QED
  BY <1>1, <1>2, <1>3, <1>4, <1>5, <1>6, <1>7, <1>8, <1>10, <1>11, <1>12
     DEF Next, TcpCommand, Joined

(***************************************************************************)
(* The invariant is inductive.                                             *)
(***************************************************************************)
THEOREM Invariance == Spec => []IInv
<1>1. Init => IInv
  BY SteerAssumption DEF Init, IInv, Latch, Rudder, Limits, InMidcourse, Fresh,
                         Withdrawn, Idle, Threads
<1>2. TypeOK /\ IInv /\ [Next]_vars => IInv'
  <2> SUFFICES ASSUME TypeOK, IInv, [Next]_vars
               PROVE  IInv'
    OBVIOUS
  <2> USE DEF IInv, Latch, Rudder, Limits, InMidcourse, Fresh, Withdrawn
  <2>0. /\ pc \in [Threads -> Labels] /\ "ctl" \in Threads
        /\ is_arrived \in BOOLEAN /\ terminal \in BOOLEAN /\ stale \in Nat
        /\ late \in Nat /\ fix \in [x : Coord, y : Coord, valid : BOOLEAN]
        /\ last_steer \in Int
        /\ ctl \in [x : Coord, y : Coord, seq : Nat, lx : Coord, ly : Coord,
                    tx : Coord, ty : Coord, steer : Int, valid : BOOLEAN]
    BY SMT DEF TypeOK, Threads
  <2>1. CASE CtlNext
    <3> USE <2>0 DEF Goto, Iterate, CtlQuiet, CtlOthers, modeVars, history
    <3>1. CASE CtlMode
      BY <3>1 DEF CtlMode
    <3>2. CASE CtlSendTerminal
      BY <3>2, SteerAssumption
         DEF CtlSendTerminal, Send, StaleMode, CountPacket, Count, CountCap, Idle,
             TERMINAL, ARRIVE, MIDCOURSE
    <3>3. CASE CtlLaunched
      BY <3>3 DEF CtlLaunched
    <3>4. CASE CtlCopyPose
      BY <3>4 DEF CtlCopyPose
    <3>5. CASE CtlLoadLx
      BY <3>5 DEF CtlLoadLx
    <3>6. CASE CtlLoadLy
      BY <3>6 DEF CtlLoadLy
    <3>7. CASE CtlLoadTx
      BY <3>7 DEF CtlLoadTx
    <3>8. CASE CtlLoadTyArrived
      BY <3>8 DEF CtlLoadTyArrived
    <3>9. CASE CtlLoadTyJudge
      BY <3>9 DEF CtlLoadTyJudge
    <3>10. ASSUME NEW s \in Requests, CtlSteer(s)
           PROVE  IInv'
      <4>1. ctl.y \in Int /\ s \in Int
        BY CoordAssumption, SteerAssumption
      <4>2. /\ -SteerLimit <= last_steer' /\ last_steer' <= SteerLimit
            /\ last_steer' \in Int
        BY <3>10, <4>1, LimitedSteerBounds DEF CtlSteer
      <4>3. -SteerLimit <= ctl'.steer /\ ctl'.steer <= SteerLimit
        BY <3>10, <4>2, SteerAssumption DEF CtlSteer
      <4>4. pc'["ctl"] = "valid" /\ ~is_arrived'
        BY <3>10 DEF CtlSteer
      <4>5. QED
        BY <3>10, <4>2, <4>3, <4>4 DEF CtlSteer
    <3>11. CASE CtlLoadValid
      BY <3>11 DEF CtlLoadValid
    <3>12. CASE CtlSend
      <4>1. /\ downlink'.flags = (IF is_arrived THEN ARRIVE ELSE MIDCOURSE)
            /\ stale' = IF StaleMode(IF is_arrived THEN ARRIVE ELSE MIDCOURSE)
                        THEN Count(stale) ELSE stale
            /\ ctl' = Idle /\ pc["ctl"] = "send" /\ pc'["ctl"] = "loop"
            /\ UNCHANGED <<is_arrived, last_steer, terminal, fix>>
        BY <3>12 DEF CtlSend, Send, CountPacket
      <4>3. late' \in Nat /\ late' <= 1
        <5>1. CASE fix.valid \/ ~ctl.valid
          BY <5>1, <3>12 DEF CtlSend, Send, CountPacket
        <5>2. CASE ~fix.valid /\ ctl.valid
          <6>1. late = 0
            BY <5>2, <4>1
          <6>2. late' \in {late, Count(late)}
            BY <3>12 DEF CtlSend, Send, CountPacket
          <6>3. QED
            BY <6>1, <6>2 DEF Count, CountCap
        <5>3. QED
          BY <5>1, <5>2
      <4>2. QED
        BY <4>1, <4>3, SteerAssumption
           DEF StaleMode, CountPacket, Count, CountCap, Idle, TERMINAL, ARRIVE, MIDCOURSE
    <3>13. QED
      BY <2>1, <3>1, <3>2, <3>3, <3>4, <3>5, <3>6, <3>7, <3>8, <3>9, <3>10,
         <3>11, <3>12 DEF CtlNext
  <2>2. CASE /\ UNCHANGED ctlVars
             /\ pc'["ctl"] \in {pc["ctl"]} \cup Stopped
             /\ stale' = 0 \/ UNCHANGED <<terminal, stale>>
             /\ \/ late' = 0
                \/ late' = late /\ (fix'.valid \/ fix'.valid = fix.valid)
    <3>1. /\ UNCHANGED <<is_arrived, last_steer, downlink, ctl>>
          /\ \/ pc'["ctl"] = pc["ctl"]
             \/ pc["ctl"] = "loop" /\ pc'["ctl"] = "done"
      BY <2>2 DEF ctlVars, Stopped
    <3>2. Latch'
      BY <3>1, <2>0
    <3>3. Rudder'
      BY <3>1, <2>0
    <3>4. Limits'
      BY <3>1, <2>0
    <3>5. Fresh'
      <4>1. CASE stale' = 0
        BY <4>1
      <4>2. CASE UNCHANGED <<terminal, stale>>
        BY <4>2, <3>1, <2>0
      <4>3. QED
        BY <4>1, <4>2, <2>2
    <3>6. Withdrawn'
      <4>1. CASE late' = 0
        BY <4>1
      <4>2. CASE late' = late /\ (fix'.valid \/ fix'.valid = fix.valid)
        BY <4>2, <3>1, <2>0
      <4>3. QED
        BY <4>1, <4>2, <2>2
    <3>7. QED
      BY <3>2, <3>3, <3>4, <3>5, <3>6
  <2>3. QED
    BY <2>1, <2>2, OtherSteps
<1>3. QED
  BY <1>1, <1>2, TypeCorrect, PTL DEF Spec

-----------------------------------------------------------------------------
(***************************************************************************)
(* A change of mode reaches the torpedo within one control cycle.          *)
(***************************************************************************)
THEOREM StalePackets == Spec => []AtMostOneStalePacket
<1>1. IInv => AtMostOneStalePacket
  BY DEF IInv, Fresh, AtMostOneStalePacket
<1>2. QED
  BY <1>1, Invariance, PTL

(***************************************************************************)
(* A position the lidar has lost is sent once more at most.                *)
(***************************************************************************)
THEOREM LatePackets == Spec => []AtMostOneLatePacket
<1>1. IInv => AtMostOneLatePacket
  BY DEF IInv, Withdrawn, AtMostOneLatePacket
<1>2. QED
  BY <1>1, Invariance, PTL

(***************************************************************************)
(* What a step does to the downlink: nothing, or it sends one packet that  *)
(* a DownlinkStream may send next.                                         *)
(***************************************************************************)
LEMMA PacketStep ==
  ASSUME TypeOK, IInv, [Next]_vars
  PROVE  \/ UNCHANGED <<downlink, downlink_seq>>
         \/ /\ downlink_seq' = (downlink_seq + 1) % SeqMod
            /\ downlink' \in Packet
            /\ downlink # NoPacket /\ downlink.flags = ARRIVE
                 => downlink'.flags = ARRIVE
            /\ downlink'.flags # MIDCOURSE => downlink'.steer = 0
            /\ downlink'.steer \in -SteerLimit .. SteerLimit
<1> USE DEF CtlQuiet, Goto, Iterate
<1>0. /\ downlink_seq \in 0 .. SeqMod - 1
      /\ tar \in Point /\ fix \in [x : Coord, y : Coord, valid : BOOLEAN]
      /\ ctl \in [x : Coord, y : Coord, seq : Nat, lx : Coord, ly : Coord,
                  tx : Coord, ty : Coord, steer : Int, valid : BOOLEAN]
  BY DEF TypeOK
<1>1. CASE CtlMode \/ CtlLaunched \/ CtlCopyPose
  BY <1>1 DEF CtlMode, CtlLaunched, CtlCopyPose
<1>2. CASE CtlLoadLx \/ CtlLoadLy \/ CtlLoadTx \/ CtlLoadTyArrived
  BY <1>2 DEF CtlLoadLx, CtlLoadLy, CtlLoadTx, CtlLoadTyArrived
<1>3. CASE CtlLoadTyJudge \/ CtlLoadValid \/ \E s \in Requests : CtlSteer(s)
  BY <1>3 DEF CtlLoadTyJudge, CtlLoadValid, CtlSteer
<1>4. CASE CtlSendTerminal
  <2>1. /\ pc["ctl"] = "terminal"
        /\ downlink_seq' = (downlink_seq + 1) % SeqMod
        /\ downlink' = [flags |-> TERMINAL, seq |-> downlink_seq, steer |-> 0,
                        tx |-> NaN, ty |-> NaN, lx |-> NaN, ly |-> NaN]
    BY <1>4 DEF CtlSendTerminal, Send
  <2>2. ~(downlink # NoPacket /\ downlink.flags = ARRIVE)
    BY <2>1 DEF IInv, Latch
  <2>3. downlink' \in Packet
    BY <2>1, <1>0 DEF Packet
  <2>4. QED
    BY <2>1, <2>2, <2>3, SteerAssumption
<1>5. CASE CtlSend
  <2>1. PICK v \in {<<ctl.valid, fix.valid>>, <<fix.valid, ctl.valid>>} :
          Send(IF is_arrived THEN ARRIVE ELSE MIDCOURSE, ctl.steer, ctl.tx,
               ctl.ty, IF v[1] THEN ctl.lx ELSE NaN, IF v[2] THEN ctl.ly ELSE NaN)
    BY <1>5 DEF CtlSend
  <2>2. /\ downlink_seq' = (downlink_seq + 1) % SeqMod
        /\ downlink'.flags = (IF is_arrived THEN ARRIVE ELSE MIDCOURSE)
        /\ downlink'.steer = ctl.steer
    BY <2>1 DEF Send
  <2>3. downlink' \in Packet
    BY <2>1, <1>0 DEF Send, Packet, Point
  <2>4. downlink # NoPacket /\ downlink.flags = ARRIVE => is_arrived
    BY DEF IInv, Latch
  <2>5. is_arrived => ctl.steer = 0
    BY DEF IInv, Rudder
  <2>6. ctl.steer \in -SteerLimit .. SteerLimit
    BY <1>0, SteerAssumption DEF IInv, Limits
  <2>7. QED
    BY <2>2, <2>3, <2>4, <2>5, <2>6
<1>6. CASE UNCHANGED ctlVars
  BY <1>6 DEF ctlVars
<1>7. QED
  BY <1>1, <1>2, <1>3, <1>4, <1>5, <1>6, OtherSteps DEF CtlNext

(***************************************************************************)
(* A torpedo that was told to stop is never told anything else.            *)
(***************************************************************************)
THEOREM StopFinal == Spec => StopIsFinal
<1>1. TypeOK /\ IInv /\ [Next]_vars
        => [downlink # NoPacket /\ downlink.flags = ARRIVE
              => downlink'.flags = ARRIVE]_downlink
  BY PacketStep
<1>2. QED
  BY <1>1, TypeCorrect, Invariance, PTL DEF Spec, StopIsFinal

(***************************************************************************)
(* The downlink implements the stream the torpedo is promised.             *)
(***************************************************************************)
THEOREM StreamImplemented == Spec => ImplementsStream
<1> DEFINE Mode(d) == IF d = NoPacket THEN 0 ELSE d.flags
           Steer(d) == IF d = NoPacket THEN 0 ELSE d.steer
<1>1. Init => Stream!Init
  BY DEF Init, Stream!Init
<1>2. TypeOK /\ IInv /\ [Next]_vars => [Stream!Next]_Stream!stream
  <2> SUFFICES ASSUME TypeOK, IInv, [Next]_vars
               PROVE  [Stream!Next]_Stream!stream
    OBVIOUS
  <2>1. CASE UNCHANGED <<downlink, downlink_seq>>
    BY <2>1 DEF Stream!stream
  <2>2. CASE /\ downlink_seq' = (downlink_seq + 1) % SeqMod
             /\ downlink' \in Packet
             /\ downlink # NoPacket /\ downlink.flags = ARRIVE
                  => downlink'.flags = ARRIVE
             /\ downlink'.flags # MIDCOURSE => downlink'.steer = 0
             /\ downlink'.steer \in -SteerLimit .. SteerLimit
    <3>1. /\ downlink' # NoPacket
          /\ downlink'.flags \in {MIDCOURSE, TERMINAL, ARRIVE}
      BY <2>2, PacketAssumption DEF Packet
    <3>2. Mode(downlink) = ARRIVE => downlink'.flags = ARRIVE
      BY <2>2 DEF ARRIVE
    <3>3. Stream!Send(downlink'.flags, downlink'.steer)
      BY <2>2, <3>1, <3>2 DEF Stream!Send
    <3>4. Stream!Next
      BY <2>2, <3>1, <3>3 DEF Stream!Next
    <3>5. QED
      BY <3>4
  <2>3. QED
    BY <2>1, <2>2, PacketStep
<1>3. QED
  BY <1>1, <1>2, TypeCorrect, Invariance, PTL
     DEF Spec, ImplementsStream, Stream!Spec
=============================================================================
