----------------------- MODULE DriverOperationsProofs -----------------------
(***************************************************************************)
(* What a call of the driver leaves behind, on every path through it and   *)
(* for any lidars, channels and modes: it is told apart from the call's    *)
(* result, because a call that fails half way must leave the driver as     *)
(* sound as one that succeeds. The proofs go up the calls as they are      *)
(* built: the command, the request, the motor, the connection, the start   *)
(* of a scan.                                                              *)
(***************************************************************************)
EXTENDS DriverOperations, TLAPS

\* What a lidar may be doing, what is sent to it, what the unpackers are
\* told.
Commands == [op : {"STOP", "SCAN", "EXPRESS_SCAN"}, arg : Nat]
Ops ==
  {"STOP", "RESET", "SCAN", "EXPRESS_SCAN", "MOTOR", "NEW_BAUDRATE_CONFIRM",
   "GET_LIDAR_CONF", "GET_DEVICE_INFO", "GET_SAMPLERATE", "GET_ACC_BOARD_FLAG",
   "GET_DEVICE_HEALTH", "SET_LIDAR_CONF"}
Orders == [op : Ops, arg : Nat]
Timings == [baud : Nat, duration : Nat]
Ends == Channels \union {NoChannel}
ScanOps == {"SCAN", "EXPRESS_SCAN"}

\* The states of the driver.
System ==
  [alive : BOOLEAN, connected : BOOLEAN, bound : Ends,
   motorCtrl : {"None", "Rpm", "Pwm"}, info : Ends, enabled : BOOLEAN,
   timing : Timings, opened : BOOLEAN, last : Ops,
   scanning : [Channels -> Commands], turning : [Channels -> BOOLEAN]]

Results == [s : System, ans : {"OK", "FAIL", "CRASH"}]

\* A command changes nothing of the driver but the command handed over last.
SameDriver(s, t) ==
  /\ t.alive = s.alive /\ t.connected = s.connected /\ t.bound = s.bound
  /\ t.motorCtrl = s.motorCtrl /\ t.info = s.info /\ t.enabled = s.enabled
  /\ t.timing = s.timing /\ t.opened = s.opened

-----------------------------------------------------------------------------
\* A lidar that gets a command changes nothing of the driver, and scans as it
\* is told.
LEMMA Performed ==
  ASSUME NEW s \in System, s.bound # NoChannel, NEW cmd \in Orders
  PROVE  /\ Perform(s, cmd) \in System
         /\ SameDriver(s, Perform(s, cmd)) /\ Perform(s, cmd).last = s.last
         /\ cmd.op \in ScanOps => Perform(s, cmd).scanning[s.bound] = cmd
<1> USE DEF System, Orders, SameDriver, Ends, ScanOps
<1>1. CASE cmd.op \in {"STOP", "RESET"}
  <2>1. Idle \in Commands
    BY DEF Idle, Cmd, Commands
  <2>2. Perform(s, cmd) = [s EXCEPT !.scanning[s.bound] = Idle]
    BY <1>1 DEF Perform
  <2>. QED
    BY <1>1, <2>1, <2>2
<1>2. CASE cmd.op \in {"SCAN", "EXPRESS_SCAN"}
  <2>1. cmd \in Commands
    BY <1>2 DEF Commands
  <2>2. Perform(s, cmd) = [s EXCEPT !.scanning[s.bound] = cmd]
    BY <1>2 DEF Perform
  <2>. QED
    BY <1>2, <2>1, <2>2
<1>3. CASE cmd.op = "MOTOR"
  <2> DEFINE on == cmd.arg > 0
  <2>1. Perform(s, cmd) = [s EXCEPT !.turning[s.bound] = on]
    BY <1>3 DEF Perform
  <2>2. on \in BOOLEAN
    OBVIOUS
  <2> HIDE DEF on
  <2>. QED
    BY <1>3, <2>1, <2>2
<1>4. CASE cmd.op \notin {"STOP", "RESET", "SCAN", "EXPRESS_SCAN", "MOTOR"}
  <2>1. Perform(s, cmd) = s
    BY <1>4 DEF Perform
  <2>. QED
    BY <1>4, <2>1
<1>. QED
  BY <1>1, <1>2, <1>3, <1>4

\* A message fails without a channel, and otherwise may.
LEMMA MessageSent ==
  ASSUME NEW s \in System, NEW cmd \in Orders, NEW o \in SendMessage(s, cmd)
  PROVE  /\ o \in Results /\ SameDriver(s, o.s) /\ o.ans # "CRASH"
         /\ o.s.last = IF cmd.op = "MOTOR" THEN s.last ELSE cmd.op
         /\ o.ans = "OK" => s.bound # NoChannel
         /\ o.ans = "OK" /\ cmd.op \in ScanOps => o.s.scanning[s.bound] = cmd
<1> DEFINE t == IF cmd.op = "MOTOR" THEN s ELSE [s EXCEPT !.last = cmd.op]
<1>1. /\ t \in System /\ SameDriver(s, t) /\ t.bound = s.bound
      /\ t.last = IF cmd.op = "MOTOR" THEN s.last ELSE cmd.op
  BY DEF System, Orders, SameDriver
<1>2. s.bound # NoChannel =>
         /\ Perform(t, cmd) \in System
         /\ SameDriver(t, Perform(t, cmd)) /\ Perform(t, cmd).last = t.last
         /\ cmd.op \in ScanOps => Perform(t, cmd).scanning[s.bound] = cmd
  <2> HIDE DEF t
  <2>. QED
    BY <1>1, Performed
<1>3. \/ o = Out(t, "FAIL")
      \/ s.bound # NoChannel /\ o = Out(Perform(t, cmd), "OK")
  BY <1>1 DEF SendMessage, SameDriver
<1> HIDE DEF t
<1>4. CASE o = Out(t, "FAIL")
  BY <1>1, <1>4 DEF Out, Results
<1>5. CASE s.bound # NoChannel /\ o = Out(Perform(t, cmd), "OK")
  BY <1>1, <1>2, <1>5 DEF Out, Results, SameDriver
<1>. QED
  BY <1>3, <1>4, <1>5

(***************************************************************************)
(* The inductive invariant, of a state of the driver.  Only a connected    *)
(* driver has a channel; what it knows of the motor is of the lidar at its *)
(* end; the command before samples are grabbed is a scan.                  *)
(***************************************************************************)
Known(s) ==
  s.bound # NoChannel =>
    \/ s.motorCtrl = "None"
    \/ s.motorCtrl = "Rpm" /\ lidars[s.bound].major >= 6
    \/ s.motorCtrl = "Pwm" /\ lidars[s.bound].pwm

Sound(s) ==
  /\ s \in System
  /\ s.bound # NoChannel => s.connected
  /\ s.connected /\ s.opened => s.bound # NoChannel
  /\ s.enabled => s.last \in ScanOps
  /\ Known(s)

\* What every call keeps that neither connects nor starts a scan.
Kept(s, t) ==
  /\ t.connected = s.connected /\ t.bound = s.bound /\ t.timing = s.timing
  /\ s.info = s.bound => t.info = t.bound

\* Outcomes of a call made in s; of one that succeeds only on a channel.
After(s) == {o \in Results : Sound(o.s) /\ Kept(s, o.s)}
Heard(s) == {o \in After(s) : o.ans = "OK" => s.bound # NoChannel}

\* A call made after another one: its outcomes are outcomes of both.
LEMMA Chained ==
  ASSUME NEW s, NEW o \in After(s)
  PROVE  /\ Sound(o.s) /\ o.s.bound = s.bound /\ o.s.connected = s.connected
         /\ After(o.s) \subseteq After(s)
         /\ Heard(o.s) \subseteq Heard(s)
BY DEF After, Heard, Kept

\* A result may be replaced by another one.
LEMMA Again ==
  ASSUME NEW s, NEW o \in After(s), NEW a \in {"OK", "FAIL", "CRASH"}
  PROVE  Out(o.s, a) \in After(s)
BY DEF After, Results, Out

\* The same after a call that heard from the lidar.
LEMMA HeardAgain ==
  ASSUME NEW s, NEW o \in Heard(s), o.ans = "OK",
         NEW a \in {"OK", "FAIL", "CRASH"}
  PROVE  Out(o.s, a) \in Heard(s)
BY DEF Heard, After, Results, Out

\* A call that returns at once.
LEMMA Nothing ==
  ASSUME NEW s, Sound(s)
  PROVE  /\ Out(s, "FAIL") \in Heard(s)
         /\ \A a \in {"OK", "FAIL", "CRASH"} : Out(s, a) \in After(s)
         /\ s.bound # NoChannel => Out(s, "OK") \in Heard(s)
BY DEF Heard, After, Results, Out, Sound, Kept

\* _disableDataGrabbing keeps the invariant.
LEMMA Disabled ==
  ASSUME NEW s, Sound(s)
  PROVE  /\ Sound(DisableDataGrabbing(s)) /\ Kept(s, DisableDataGrabbing(s))
         /\ ~DisableDataGrabbing(s).enabled
         /\ DisableDataGrabbing(s).motorCtrl = s.motorCtrl
BY DEF DisableDataGrabbing, Sound, Kept, Known, System

\* A message may go out while samples are grabbed only if it starts a scan or
\* drives the motor.
LEMMA Message ==
  ASSUME NEW s, Sound(s), NEW cmd \in Orders,
         s.enabled => cmd.op \in ScanOps \union {"MOTOR"}
  PROVE  SendMessage(s, cmd) \subseteq Heard(s)
<1>1. s \in System
  BY DEF Sound
<1>2. ASSUME NEW o \in SendMessage(s, cmd)
      PROVE  o \in Heard(s)
  <2>1. /\ o \in Results /\ SameDriver(s, o.s)
        /\ o.s.last = IF cmd.op = "MOTOR" THEN s.last ELSE cmd.op
        /\ o.ans = "OK" => s.bound # NoChannel
    BY <1>1, MessageSent
  <2>2. o.s \in System
    BY <2>1 DEF Results
  <2>3. Sound(o.s)
    BY <2>1, <2>2 DEF Sound, SameDriver, Known
  <2>4. Kept(s, o.s)
    BY <2>1 DEF SameDriver, Kept
  <2>. QED
    BY <2>1, <2>3, <2>4 DEF Heard, After
<1>. QED
  BY <1>2

\* _sendCommandWithoutResponse: every other command ends the grabbing first.
LEMMA NoResponse ==
  ASSUME NEW s, Sound(s), NEW cmd \in Orders, NEW noForceStop \in BOOLEAN,
         noForceStop => cmd.op \in ScanOps \union {"MOTOR"}
  PROVE  SendCommandWithoutResponse(s, cmd, noForceStop) \subseteq Heard(s)
<1>1. CASE noForceStop
  BY <1>1, Message DEF SendCommandWithoutResponse
<1>2. CASE ~noForceStop
  <2> DEFINE t == DisableDataGrabbing(s)
  <2>1. Sound(t) /\ Kept(s, t) /\ ~t.enabled
    BY Disabled
  <2>2. SendCommandWithoutResponse(s, cmd, noForceStop) = SendMessage(t, cmd)
    BY <1>2 DEF SendCommandWithoutResponse
  <2> HIDE DEF t
  <2>3. SendMessage(t, cmd) \subseteq Heard(t)
    BY <2>1, Message
  <2>4. Heard(t) \subseteq Heard(s)
    BY <2>1 DEF Heard, After, Kept
  <2>. QED
    BY <2>2, <2>3, <2>4
<1>. QED
  BY <1>1, <1>2

\* _sendCommandWithResponse ends it too, and hears an answer only on a
\* channel.
LEMMA Response ==
  ASSUME NEW s, Sound(s), NEW op \in Ops
  PROVE  SendCommandWithResponse(s, op) \subseteq Heard(s)
<1> DEFINE cmd == Cmd(op, 0)
           sent == SendMessage(DisableDataGrabbing(s), cmd)
<1>1. cmd \in Orders
  BY DEF Cmd, Orders
<1>2. sent = SendCommandWithoutResponse(s, cmd, FALSE)
  BY DEF SendCommandWithoutResponse
<1>3. sent \subseteq Heard(s)
  BY <1>1, <1>2, NoResponse
<1>4. SendCommandWithResponse(s, op) = Answered(sent)
  BY DEF SendCommandWithResponse
<1> HIDE DEF sent
<1>5. \A o \in sent : o.ans = "OK" =>
         Out(o.s, "OK") \in Heard(s) /\ Out(o.s, "FAIL") \in Heard(s)
  BY <1>3, HeardAgain
<1>. QED
  BY <1>3, <1>4, <1>5 DEF Answered, IfOk

-----------------------------------------------------------------------------
\* getLidarConf is such a request.
LEMMA Conf ==
  ASSUME NEW s, Sound(s)
  PROVE  GetLidarConf(s) \subseteq Heard(s)
<1>1. "GET_LIDAR_CONF" \in Ops
  BY DEF Ops
<1>. QED
  BY <1>1, Response DEF GetLidarConf

\* A number read from an answer may crash the process and changes nothing.
LEMMA Unchecked ==
  ASSUME NEW s, Sound(s)
  PROVE  UncheckedNumber(s) \subseteq Heard(s)
<1>1. \A o \in GetLidarConf(s) :
        /\ o \in Heard(s)
        /\ o.ans = "OK" =>
             Out(o.s, "OK") \in Heard(s) /\ Out(o.s, "CRASH") \in Heard(s)
  BY Conf, HeardAgain
<1>2. UncheckedNumber(s) =
        UNION {IF o.ans = "OK" THEN {Out(o.s, "OK"), Out(o.s, "CRASH")} ELSE {o} :
                 o \in GetLidarConf(s)}
  BY DEF UncheckedNumber, IfOk
<1>. QED
  BY <1>1, <1>2

\* A device info that is answered is that of the lidar connected to.
LEMMA Info ==
  ASSUME NEW s, Sound(s)
  PROVE  \A o \in GetDeviceInfo(s) :
           o \in Heard(s) /\ (o.ans = "OK" => o.s.info = o.s.bound)
<1> DEFINE asked == SendCommandWithResponse(s, "GET_DEVICE_INFO")
           Informed(t) == [t EXCEPT !.info = t.bound]
<1>1. asked \subseteq Heard(s)
  <2>1. "GET_DEVICE_INFO" \in Ops
    BY DEF Ops
  <2>. QED
    BY <2>1, Response
<1>2. ASSUME NEW o \in asked, o.ans = "OK"
      PROVE  /\ Out(Informed(o.s), "OK") \in Heard(s)
             /\ Informed(o.s).info = Informed(o.s).bound
  <2>1. o \in Heard(s) /\ Sound(o.s) /\ o.s \in System
    BY <1>1 DEF Heard, After, Sound
  <2>2. /\ Informed(o.s) \in System
        /\ Informed(o.s).info = o.s.bound /\ Informed(o.s).bound = o.s.bound
        /\ Informed(o.s).connected = o.s.connected
        /\ Informed(o.s).opened = o.s.opened
        /\ Informed(o.s).motorCtrl = o.s.motorCtrl
        /\ Informed(o.s).enabled = o.s.enabled
        /\ Informed(o.s).last = o.s.last
        /\ Informed(o.s).timing = o.s.timing
    BY <2>1 DEF System
  <2> HIDE DEF Informed
  <2>3. Sound(Informed(o.s))
    BY <2>1, <2>2 DEF Sound, Known
  <2>. QED
    BY <1>2, <2>1, <2>2, <2>3 DEF Heard, After, Kept, Out, Results
<1>3. Out(s, "FAIL") \in Heard(s) /\ Out(s, "FAIL").ans = "FAIL"
  BY Nothing DEF Out
<1>4. \A t : Out(Informed(t), "OK").s = Informed(t)
  BY DEF Out
<1>5. GetDeviceInfo(s) =
        IF ~s.connected THEN {Out(s, "FAIL")}
        ELSE UNION {IF o.ans = "OK" THEN {Out(Informed(o.s), "OK")} ELSE {o} :
                      o \in asked}
  BY DEF GetDeviceInfo, IfOk
<1> HIDE DEF asked, Informed
<1>. QED
  BY <1>1, <1>2, <1>3, <1>4, <1>5

\* getDeviceMacAddr is one request or none.
LEMMA MacAddr ==
  ASSUME NEW s, Sound(s)
  PROVE  GetDeviceMacAddr(s) \subseteq Heard(s)
BY Conf, Nothing DEF GetDeviceMacAddr

\* Requests in a row, for the four of a scan mode.
LEMMA TwoRequests ==
  ASSUME NEW s, Sound(s)
  PROVE  IfOk(GetLidarConf(s), GetLidarConf) \subseteq Heard(s)
<1>1. \A o \in GetLidarConf(s) :
        o \in Heard(s) /\ GetLidarConf(o.s) \subseteq Heard(s)
  <2>1. ASSUME NEW o \in GetLidarConf(s)
        PROVE  o \in Heard(s) /\ GetLidarConf(o.s) \subseteq Heard(s)
    <3>1. o \in Heard(s) /\ o \in After(s)
      BY Conf DEF Heard
    <3>. QED
      BY <3>1, Conf, Chained
  <2>. QED
    BY <2>1
<1>. QED
  BY <1>1 DEF IfOk

\* One more.
LEMMA ThreeRequests ==
  ASSUME NEW s, Sound(s)
  PROVE  IfOk(GetLidarConf(s), LAMBDA u : IfOk(GetLidarConf(u), GetLidarConf))
           \subseteq Heard(s)
<1> DEFINE G(u) == IfOk(GetLidarConf(u), GetLidarConf)
<1>1. ASSUME NEW o \in GetLidarConf(s)
      PROVE  o \in Heard(s) /\ G(o.s) \subseteq Heard(s)
  <2>1. o \in Heard(s) /\ o \in After(s)
    BY Conf DEF Heard
  <2>2. G(o.s) \subseteq Heard(o.s)
    BY <2>1, TwoRequests, Chained
  <2>. QED
    BY <2>1, <2>2, Chained
<1>2. IfOk(GetLidarConf(s), LAMBDA u : IfOk(GetLidarConf(u), GetLidarConf))
        = UNION {IF o.ans = "OK" THEN G(o.s) ELSE {o} : o \in GetLidarConf(s)}
  BY DEF IfOk
<1> HIDE DEF G
<1>. QED
  BY <1>1, <1>2

\* The four requests about a scan mode.
LEMMA ModeConf ==
  ASSUME NEW s, Sound(s)
  PROVE  GetScanModeConf(s) \subseteq Heard(s)
<1> DEFINE G(t) ==
      IfOk(GetLidarConf(t), LAMBDA u : IfOk(GetLidarConf(u), GetLidarConf))
<1>1. ASSUME NEW o \in GetLidarConf(s)
      PROVE  o \in Heard(s) /\ G(o.s) \subseteq Heard(s)
  <2>1. o \in Heard(s) /\ o \in After(s)
    BY Conf DEF Heard
  <2>2. G(o.s) \subseteq Heard(o.s)
    BY <2>1, ThreeRequests, Chained
  <2>. QED
    BY <2>1, <2>2, Chained
<1>2. GetScanModeConf(s)
        = UNION {IF o.ans = "OK" THEN G(o.s) ELSE {o} : o \in GetLidarConf(s)}
  BY DEF IfOk, GetScanModeConf
<1> HIDE DEF G
<1>. QED
  BY <1>1, <1>2

\* The requests about the sample duration of an old lidar.
LEMMA LegacySampleDuration ==
  ASSUME NEW s, Sound(s)
  PROVE  GetLegacySampleDuration(s) \subseteq Heard(s)
<1> DEFINE G(t) == IF VeryOld(lidars[t.bound]) THEN {Out(t, "OK")}
                   ELSE SendCommandWithResponse(t, "GET_SAMPLERATE")
<1>1. ASSUME NEW o \in GetDeviceInfo(s), o.ans = "OK"
      PROVE  G(o.s) \subseteq Heard(s)
  <2>1. o \in Heard(s) /\ o \in After(s)
    BY Info DEF Heard
  <2>2. Out(o.s, "OK") \in Heard(s)
    BY <1>1, <2>1, HeardAgain
  <2>3. "GET_SAMPLERATE" \in Ops
    BY DEF Ops
  <2>4. SendCommandWithResponse(o.s, "GET_SAMPLERATE") \subseteq Heard(s)
    BY <2>1, <2>3, Response, Chained
  <2>. QED
    BY <2>2, <2>4
<1>2. GetLegacySampleDuration(s)
        = UNION {IF o.ans = "OK" THEN G(o.s) ELSE {o} : o \in GetDeviceInfo(s)}
  BY DEF IfOk, GetLegacySampleDuration
<1>3. \A o \in GetDeviceInfo(s) : o \in Heard(s)
  BY Info
<1> HIDE DEF G
<1>. QED
  BY <1>1, <1>2, <1>3

-----------------------------------------------------------------------------
\* Driving the motor, by command or by the line DTR.
LEMMA Driven ==
  ASSUME NEW s, Sound(s), NEW speed \in Nat
  PROVE  DriveMotor(s, speed) \subseteq After(s)
<1>1. CASE s.motorCtrl = "None" /\ s.bound = NoChannel
  BY <1>1, Nothing DEF DriveMotor
<1>2. CASE s.motorCtrl = "None" /\ s.bound # NoChannel
  <2> DEFINE on == speed > 0
             t == IF s.bound \in Serial
                    THEN [s EXCEPT !.turning[s.bound] = on] ELSE s
  <2>1. DriveMotor(s, speed) = {Out(t, "OK")}
    BY <1>2 DEF DriveMotor
  <2>2. on \in BOOLEAN
    OBVIOUS
  <2> HIDE DEF on
  <2>3. t \in System /\ SameDriver(s, t) /\ t.last = s.last
    BY <2>2 DEF System, SameDriver, Sound, Ends
  <2> HIDE DEF t
  <2>4. Sound(t) /\ Kept(s, t)
    BY <2>3 DEF Sound, SameDriver, Known, Kept
  <2>. QED
    BY <2>1, <2>3, <2>4 DEF After, Results, Out
<1>3. CASE s.motorCtrl # "None"
  <2>1. Cmd("MOTOR", speed) \in Orders /\ Cmd("MOTOR", speed).op = "MOTOR"
    BY DEF Cmd, Orders, Ops
  <2>2. DriveMotor(s, speed)
          = SendCommandWithoutResponse(s, Cmd("MOTOR", speed), TRUE)
    BY <1>3 DEF DriveMotor
  <2>. QED
    BY <2>1, <2>2, NoResponse DEF Heard
<1>. QED
  BY <1>1, <1>2, <1>3

\* setMotorSpeed with any speed, the lidar's own choice too.
LEMMA SpeedSet ==
  ASSUME NEW s, Sound(s), NEW speed \in Nat
  PROVE  SetMotorSpeed(s, speed) \subseteq After(s)
<1>1. CASE ~s.connected
  BY <1>1, Nothing DEF SetMotorSpeed
<1>2. CASE s.connected /\ speed # DEFAULT_MOTOR_SPEED
  BY <1>2, Driven DEF SetMotorSpeed
<1>3. CASE s.connected /\ speed = DEFAULT_MOTOR_SPEED
  <2> DEFINE G(o) == UNION {DriveMotor(o.s, v) :
                              v \in IF o.ans = "OK" THEN Speeds ELSE {600}}
  <2>1. ASSUME NEW o \in UncheckedNumber(s)
        PROVE  o \in After(s) /\ G(o) \subseteq After(s)
    <3>1. o \in After(s)
      BY Unchecked DEF Heard
    <3>2. ASSUME NEW v \in IF o.ans = "OK" THEN Speeds ELSE {600}
          PROVE  DriveMotor(o.s, v) \subseteq After(s)
      <4>1. v \in Nat
        BY OperationsAssumption
      <4>. QED
        BY <3>1, <4>1, Driven, Chained
    <3>. QED
      BY <3>1, <3>2
  <2>2. SetMotorSpeed(s, speed)
          = UNION {IF o.ans = "CRASH" THEN {o} ELSE G(o) : o \in UncheckedNumber(s)}
    BY <1>3 DEF SetMotorSpeed, Then
  <2> HIDE DEF G
  <2>. QED
    BY <2>1, <2>2
<1>. QED
  BY <1>1, <1>2, <1>3

\* The kind of motor control that is set is one this lidar has.
LEMMA MotorAsked ==
  ASSUME NEW s, Sound(s)
  PROVE  MotorSupport(s) \subseteq After(s)
<1> DEFINE l == lidars[s.bound]
           asked == SendCommandWithResponse(s, "GET_ACC_BOARD_FLAG")
           Pwm(t) == IF l.pwm THEN [t EXCEPT !.motorCtrl = "Pwm"] ELSE t
<1>1. CASE l.major >= 6
  <2> DEFINE t == [s EXCEPT !.motorCtrl = "Rpm"]
  <2>1. MotorSupport(s) = {Out(t, "OK")}
    BY <1>1 DEF MotorSupport
  <2>2. Sound(t) /\ Kept(s, t)
    BY <1>1 DEF Sound, Kept, Known, System
  <2> HIDE DEF t
  <2>. QED
    BY <2>1, <2>2 DEF After, Results, Out, Sound
<1>2. CASE ~(l.major >= 6) /\ l.major >= 2
  <2>1. "GET_ACC_BOARD_FLAG" \in Ops
    BY DEF Ops
  <2>2. asked \subseteq After(s)
    BY <2>1, Response DEF Heard
  <2>3. ASSUME NEW o \in asked
        PROVE  Out(Pwm(o.s), "OK") \in After(s)
    <3>1. o \in After(s) /\ Sound(o.s) /\ Kept(s, o.s) /\ o.s.bound = s.bound
      BY <2>2 DEF After, Kept
    <3>2. Sound(Pwm(o.s)) /\ Kept(s, Pwm(o.s))
      BY <3>1 DEF Sound, Kept, Known, System
    <3> HIDE DEF Pwm
    <3>. QED
      BY <3>2 DEF After, Results, Out, Sound
  <2>4. MotorSupport(s)
          = UNION {IF o.ans = "OK" THEN {Out(Pwm(o.s), "OK")} ELSE {o} : o \in asked}
    BY <1>2 DEF MotorSupport, IfOk
  <2> HIDE DEF Pwm, asked
  <2>. QED
    BY <2>2, <2>3, <2>4
<1>3. CASE ~(l.major >= 6) /\ ~(l.major >= 2)
  <2>1. MotorSupport(s) = {Out(s, "OK")}
    BY <1>3 DEF MotorSupport
  <2>. QED
    BY <2>1, Nothing
<1>. QED
  BY <1>1, <1>2, <1>3

\* checkMotorCtrlSupport forgets what it knew first: it needs no knowledge of
\* the motor to leave a sound one, and no command to be a scan.
LEMMA MotorChecked ==
  ASSUME NEW s \in System, s.connected, s.opened => s.bound # NoChannel,
         NEW o \in CheckMotorCtrlSupport(s)
  PROVE  o \in Results /\ Sound(o.s) /\ Kept(s, o.s)
<1> DEFINE t == [DisableDataGrabbing(s) EXCEPT !.motorCtrl = "None"]
<1>1. Sound(t) /\ Kept(s, t)
  BY DEF DisableDataGrabbing, System, Sound, Known, Kept
<1>2. CheckMotorCtrlSupport(s)
        = UNION {IF p.ans = "OK" THEN MotorSupport(p.s) ELSE {p} : p \in GetDeviceInfo(t)}
  BY DEF CheckMotorCtrlSupport, IfOk
<1> HIDE DEF t
<1>3. ASSUME NEW p \in GetDeviceInfo(t)
      PROVE  p \in After(t) /\ MotorSupport(p.s) \subseteq After(t)
  <2>1. p \in After(t)
    BY <1>1, Info DEF Heard
  <2>. QED
    BY <2>1, MotorAsked, Chained
<1>4. o \in After(t)
  BY <1>2, <1>3
<1>. QED
  BY <1>1, <1>4 DEF After, Kept

\* getMotorInfo is three requests.
LEMMA MotorInfo ==
  ASSUME NEW s, Sound(s)
  PROVE  GetMotorInfo(s) \subseteq After(s)
<1> DEFINE G(t) == IfOk(GetLidarConf(t), UncheckedNumber)
<1>1. ASSUME NEW t, Sound(t)
      PROVE  G(t) \subseteq After(t)
  <2>1. ASSUME NEW o \in GetLidarConf(t)
        PROVE  o \in After(t) /\ UncheckedNumber(o.s) \subseteq After(t)
    <3>1. o \in After(t)
      BY <1>1, Conf DEF Heard
    <3>2. UncheckedNumber(o.s) \subseteq After(o.s)
      BY <3>1, Unchecked, Chained DEF Heard
    <3>. QED
      BY <3>1, <3>2, Chained
  <2>. QED
    BY <2>1 DEF IfOk
<1>2. ASSUME NEW o \in UncheckedNumber(s)
      PROVE  o \in After(s) /\ G(o.s) \subseteq After(s)
  <2>1. o \in After(s)
    BY Unchecked DEF Heard
  <2> HIDE DEF G
  <2>. QED
    BY <1>1, <2>1, Chained
<1>3. s.connected =>
        GetMotorInfo(s)
          = UNION {IF o.ans = "OK" THEN G(o.s) ELSE {o} : o \in UncheckedNumber(s)}
  BY DEF GetMotorInfo, IfOk
<1> HIDE DEF G
<1>4. CASE s.connected
  BY <1>2, <1>3, <1>4
<1>5. CASE ~s.connected
  BY <1>5, Nothing DEF GetMotorInfo
<1>. QED
  BY <1>4, <1>5

\* stop() leaves a sound driver, whether or not the motor stops with it.
LEMMA Stopped ==
  ASSUME NEW s, Sound(s)
  PROVE  Stop(s) \subseteq After(s)
<1> DEFINE sent == SendCommandWithoutResponse(s, Idle, FALSE)
           Still(t) == UNION {IF o.ans = "CRASH" THEN {o} ELSE {Out(o.s, "OK")} :
                                o \in SetMotorSpeed(t, 0)}
           G(t) == IF t.motorCtrl = "Pwm" THEN Still(t) ELSE {Out(t, "OK")}
<1>1. ASSUME NEW o \in sent
      PROVE  o \in After(s) /\ G(o.s) \subseteq After(s)
  <2>1. Idle \in Orders
    BY DEF Idle, Cmd, Orders, Ops
  <2>2. o \in After(s) /\ Sound(o.s) /\ After(o.s) \subseteq After(s)
    BY <2>1, NoResponse, Chained DEF Heard
  <2>3. SetMotorSpeed(o.s, 0) \subseteq After(o.s)
    BY <2>2, SpeedSet
  <2>4. Still(o.s) \subseteq After(o.s)
    BY <2>3, Again
  <2>5. Out(o.s, "OK") \in After(s)
    BY <2>2, Again
  <2> HIDE DEF Still
  <2>. QED
    BY <2>2, <2>4, <2>5
<1>2. Stop(s) = UNION {IF o.ans = "OK" THEN G(o.s) ELSE {o} : o \in sent}
  BY DEF Stop, IfOk, Then
<1> HIDE DEF G, sent
<1>. QED
  BY <1>1, <1>2

-----------------------------------------------------------------------------
\* openChannelAndBind reports success; `opened' says what happened.
LEMMA Opened ==
  ASSUME NEW s \in System, NEW c \in Channels, NEW o \in OpenChannelAndBind(s, c)
  PROVE  /\ o \in Results /\ o.ans = "OK" /\ o.s.connected = s.connected
         /\ o.s.opened => o.s.bound = c
         /\ ~o.s.opened => o.s.bound = NoChannel
         /\ o.s.motorCtrl = s.motorCtrl /\ o.s.enabled = s.enabled
         /\ o.s.last = s.last
<1> DEFINE t == [s EXCEPT !.bound = NoChannel]
           u == [t EXCEPT !.bound = c, !.opened = TRUE]
           v == [t EXCEPT !.opened = FALSE]
<1>1. o = Out(u, "OK") \/ o = Out(v, "OK")
  BY DEF OpenChannelAndBind, UnbindAndClose
<1>2. /\ u \in System /\ u.bound = c /\ u.opened /\ u.connected = s.connected
      /\ u.motorCtrl = s.motorCtrl /\ u.enabled = s.enabled /\ u.last = s.last
  BY DEF System, Ends
<1>3. /\ v \in System /\ v.bound = NoChannel /\ ~v.opened
      /\ v.connected = s.connected /\ v.motorCtrl = s.motorCtrl
      /\ v.enabled = s.enabled /\ v.last = s.last
  BY DEF System, Ends
<1> HIDE DEF u, v
<1>. QED
  BY <1>1, <1>2, <1>3 DEF Out, Results

\* Outcomes of any call.
Returns == {o \in Results : Sound(o.s)}

\* The outcomes above are such.
LEMMA AfterReturns ==
  ASSUME NEW s
  PROVE  After(s) \subseteq Returns /\ Heard(s) \subseteq Returns
BY DEF Heard, After, Returns

\* Another result changes nothing of that.
LEMMA ReturnAgain ==
  ASSUME NEW o \in Returns, NEW a \in {"OK", "FAIL", "CRASH"}
  PROVE  Out(o.s, a) \in Returns
BY DEF Returns, Results, Out

\* connect(): what was known of the motor of another lidar is forgotten in
\* time.
LEMMA Connected ==
  ASSUME NEW s, Sound(s), NEW c \in Channels
  PROVE  Connect(s, c) \subseteq Returns
<1>1. CASE s.connected
  BY <1>1, Nothing, AfterReturns DEF Connect
<1>2. CASE ~s.connected
  <2> DEFINE up(t) == [t EXCEPT !.connected = TRUE]
             G(t) == UNION {IF p.ans = "CRASH" THEN {p} ELSE {Out(p.s, "OK")} :
                              p \in CheckMotorCtrlSupport(up(t))}
  <2>1. ASSUME NEW o \in OpenChannelAndBind(s, c)
        PROVE  G(o.s) \subseteq Returns /\ o.ans = "OK"
    <3>1. /\ o \in Results /\ o.ans = "OK"
          /\ o.s.opened => o.s.bound = c
          /\ ~o.s.opened => o.s.bound = NoChannel
      BY Opened DEF Sound
    <3>2. /\ up(o.s) \in System /\ up(o.s).connected
          /\ up(o.s).opened => up(o.s).bound # NoChannel
      BY <3>1, OperationsAssumption DEF Results, System
    <3> HIDE DEF up
    <3>3. \A p \in CheckMotorCtrlSupport(up(o.s)) : p \in Returns
      BY <3>2, MotorChecked DEF Returns
    <3>4. \A p \in CheckMotorCtrlSupport(up(o.s)) : Out(p.s, "OK") \in Returns
      BY <3>3, ReturnAgain
    <3>. QED
      BY <3>1, <3>3, <3>4
  <2>2. Connect(s, c) = UNION {IF o.ans = "OK" THEN G(o.s) ELSE {o} :
                                 o \in OpenChannelAndBind(s, c)}
    BY <1>2 DEF Connect, IfOk, Then
  <2> HIDE DEF G
  <2>. QED
    BY <2>1, <2>2
<1>. QED
  BY <1>1, <1>2

\* disconnect() ends the grabbing and leaves no channel.
LEMMA Disconnected ==
  ASSUME NEW s, Sound(s)
  PROVE  Sound(Disconnect(s)) /\ ~Disconnect(s).connected
BY DEF Disconnect, UnbindAndClose, DisableDataGrabbing, Sound, Known, System, Ends

\* The channel a negotiation gives back is the one it took: what is known of
\* its lidar still holds.
LEMMA Reopened ==
  ASSUME NEW s, Sound(s), s.bound # NoChannel, NEW opened \in BOOLEAN,
         NEW o \in OpenChannelAndBind([UnbindAndClose(s) EXCEPT !.opened = opened],
                                      s.bound)
  PROVE  o \in Returns /\ o.ans = "OK"
<1> DEFINE t == [UnbindAndClose(s) EXCEPT !.opened = opened]
<1>1. /\ t \in System /\ t.connected = s.connected /\ t.motorCtrl = s.motorCtrl
      /\ t.enabled = s.enabled /\ t.last = s.last
  BY DEF UnbindAndClose, Sound, System, Ends
<1>2. s.bound \in Channels /\ s.connected
  BY DEF Sound, System, Ends
<1> HIDE DEF t
<1>3. /\ o \in Results /\ o.ans = "OK" /\ o.s.connected = t.connected
      /\ o.s.opened => o.s.bound = s.bound
      /\ ~o.s.opened => o.s.bound = NoChannel
      /\ o.s.motorCtrl = t.motorCtrl /\ o.s.enabled = t.enabled
      /\ o.s.last = t.last
  BY <1>1, <1>2, Opened DEF t
<1>4. Sound(o.s)
  BY <1>1, <1>2, <1>3 DEF Sound, Known, Results
<1>. QED
  BY <1>3, <1>4 DEF Returns

\* Every path of a negotiation gives the channel back.
LEMMA Negotiated ==
  ASSUME NEW s, Sound(s), s.bound # NoChannel
  PROVE  Negotiate(s, s.bound) \subseteq Returns
<1> DEFINE c == s.bound
           closed == UnbindAndClose(s)
           t(b) == [closed EXCEPT !.opened = b]
           confirm == Cmd("NEW_BAUDRATE_CONFIRM", 0)
<1>1. ASSUME NEW b \in BOOLEAN, NEW a \in {"OK", "FAIL"}
      PROVE  GiveBack(t(b), c, a) \subseteq Returns
  <2>1. \A o \in OpenChannelAndBind(t(b), c) : o \in Returns /\ o.ans = "OK"
    BY Reopened
  <2>2. GiveBack(t(b), c, a)
          = UNION {IF o.ans = "CRASH" THEN {o} ELSE {Out(o.s, a)} :
                     o \in OpenChannelAndBind(t(b), c)}
    BY DEF GiveBack, Then
  <2> HIDE DEF t
  <2>. QED
    BY <2>1, <2>2, ReturnAgain
<1>2. Confirm(t(TRUE), c) \subseteq Returns
  <2>1. confirm \in Orders
    BY DEF Cmd, Orders, Ops
  <2>2. Confirm(t(TRUE), c)
          = UNION {IF o.ans = "OK"
                   THEN SendCommandWithoutResponse(o.s, confirm, FALSE) ELSE {o} :
                     o \in OpenChannelAndBind(t(TRUE), c)}
    BY DEF Confirm, IfOk
  <2>3. \A o \in OpenChannelAndBind(t(TRUE), c) : o \in Returns
    BY Reopened
  <2> HIDE DEF t, confirm
  <2>4. \A o \in OpenChannelAndBind(t(TRUE), c) :
          SendCommandWithoutResponse(o.s, confirm, FALSE) \subseteq Returns
    BY <2>1, <2>3, NoResponse, AfterReturns DEF Returns
  <2>. QED
    BY <2>2, <2>3, <2>4
<1>3. Negotiate(s, c)
        = GiveBack(t(FALSE), c, "FAIL") \union GiveBack(t(TRUE), c, "FAIL")
            \union GiveBack(t(TRUE), c, "OK") \union Confirm(t(TRUE), c)
  BY DEF Negotiate
<1> HIDE DEF t, c
<1>4. Negotiate(s, c) \subseteq Returns
  BY <1>1, <1>2, <1>3
<1>. QED
  BY <1>4 DEF c

\* Before it the scan is stopped.
LEMMA BaudRateNegotiated ==
  ASSUME NEW s, Sound(s)
  PROVE  NegotiateSerialBaudRate(s) \subseteq Returns
<1> DEFINE G(t) == IF t.bound \in Serial THEN Negotiate(t, t.bound)
                   ELSE {Out(t, "FAIL")}
<1>1. ASSUME NEW o \in Stop(s)
      PROVE  o \in Returns /\ G(o.s) \subseteq Returns
  <2>1. o \in After(s) /\ o \in Returns /\ Sound(o.s)
    BY Stopped, AfterReturns DEF Returns
  <2>2. o.s.bound \in Serial => o.s.bound # NoChannel
    BY OperationsAssumption
  <2>. QED
    BY <2>1, <2>2, Negotiated, ReturnAgain
<1>2. NegotiateSerialBaudRate(s)
        = UNION {IF o.ans = "CRASH" THEN {o} ELSE G(o.s) : o \in Stop(s)}
  BY DEF NegotiateSerialBaudRate, Then
<1> HIDE DEF G
<1>. QED
  BY <1>1, <1>2

-----------------------------------------------------------------------------
\* Outcomes of a start: a success is a scan as reported.
Starts == {o \in Returns : o.ans = "OK" => AsReported(o.s)}

\* The device info cached is that of the lidar connected to.
Informed(s) == s.bound # NoChannel /\ s.info = s.bound

\* A start that does not succeed promises nothing.
LEMMA NotStarted ==
  ASSUME NEW o \in Returns, o.ans # "OK"
  PROVE  o \in Starts
BY DEF Starts

\* The cases of NativeBaudRate.
LEMMA BaudRateIsNatural ==
  ASSUME NEW l \in Lidar
  PROVE  NativeBaudRate(l) \in Nat
<1>1. l.major \in Nat
  BY DEF Lidar
<1>2. CASE l.major \in 1 .. 3
  BY <1>2 DEF NativeBaudRate
<1>3. CASE l.major = 4
  BY <1>3 DEF NativeBaudRate
<1>4. CASE l.major = 6
  BY <1>4 DEF NativeBaudRate
<1>5. CASE l.major \in 7 .. 8
  BY <1>5 DEF NativeBaudRate
<1>6. CASE l.major \notin 1 .. 3 \union {4, 6} \union 7 .. 8
  BY <1>1, <1>6 DEF NativeBaudRate
<1>. QED
  BY <1>2, <1>3, <1>4, <1>5, <1>6

\* Connected to a lidar.
LEMMA OneLidar ==
  ASSUME lidars \in Fleets, NEW s, Sound(s), s.bound # NoChannel
  PROVE  s.bound \in Channels /\ lidars[s.bound] \in Lidar
BY OperationsAssumption DEF Sound, System, Ends

\* _updateTimingDesc takes the baud rate of this lidar, if it is this lidar's
\* info that is cached.
LEMMA TimingUpdated ==
  ASSUME lidars \in Fleets, NEW s, Sound(s), Informed(s), NEW duration \in Nat,
         NEW o \in UpdateTimingDesc(s, duration)
  PROVE  /\ o \in Returns /\ o.s.bound = s.bound /\ Informed(o.s)
         /\ o.s.timing = [baud |-> NativeBaudRate(lidars[s.bound]),
                          duration |-> duration]
<1> DEFINE timing == [baud |-> NativeBaudRate(lidars[s.bound]),
                      duration |-> duration]
           t == [s EXCEPT !.timing = timing]
<1>1. timing \in Timings
  BY OneLidar, BaudRateIsNatural DEF Informed, Timings
<1>2. UpdateTimingDesc(s, duration)
        = IF ParseLIDARMajorType(lidars[s.info].major) = "S"
          THEN UNION {IF p.ans = "CRASH" THEN {p} ELSE {Out(p.s, "OK")} :
                        p \in GetDeviceMacAddr(t)}
          ELSE {Out(t, "OK")}
  BY DEF UpdateTimingDesc, Informed, Then
<1> HIDE DEF timing
<1>3. Sound(t) /\ Informed(t) /\ t.timing = timing /\ t.bound = s.bound
  BY <1>1 DEF Sound, Informed, Known, System
<1> HIDE DEF t
<1>4. ASSUME NEW p \in GetDeviceMacAddr(t)
      PROVE  p \in After(t) /\ Out(p.s, "OK") \in After(t)
  BY <1>3, MacAddr, Again DEF Heard
<1>5. o \in After(t)
  BY <1>2, <1>3, <1>4, Nothing
<1>. QED
  BY <1>3, <1>5, AfterReturns DEF After, Kept, Informed, timing

\* The end of a start: grabbing is enabled after the last request, so a scan
\* command that goes out finds it enabled.
LEMMA Launched ==
  ASSUME lidars \in Fleets, NEW s, Sound(s), Informed(s),
         NEW cmd \in Commands, cmd.op \in ScanOps, NEW duration \in Nat,
         duration = RunningDuration(lidars[s.bound], cmd)
  PROVE  Launch(s, duration, cmd) \subseteq Starts
<1> DEFINE timing == [baud |-> NativeBaudRate(lidars[s.bound]),
                      duration |-> duration]
           on(t) == [t EXCEPT !.enabled = TRUE]
           F(p) == SendCommandWithoutResponse(on(p.s), cmd, TRUE)
           G(t) == UNION {IF p.ans = "CRASH" THEN {p} ELSE F(p) : p \in StartMotor(t)}
<1>1. ASSUME NEW t, Sound(t), t.bound = s.bound, t.timing = timing
      PROVE  F(Out(t, "OK")) \subseteq Starts
  <2> DEFINE u == on(t)
  <2>1. /\ u \in System /\ u.enabled /\ u.bound = s.bound /\ u.timing = timing
        /\ u.connected = t.connected /\ u.opened = t.opened
        /\ u.motorCtrl = t.motorCtrl
    BY <1>1 DEF Sound, System
  <2>2. F(Out(t, "OK")) = SendMessage(u, cmd)
    BY DEF Out, SendCommandWithoutResponse
  <2>3. cmd \in Orders
    BY DEF Commands, Orders, Ops
  <2> HIDE DEF u
  <2>4. ASSUME NEW o \in SendMessage(u, cmd)
        PROVE  o \in Starts
    <3>1. /\ o \in Results /\ SameDriver(u, o.s)
          /\ o.s.last = cmd.op
          /\ o.ans = "OK" => o.s.scanning[u.bound] = cmd
      BY <2>1, <2>3, MessageSent DEF ScanOps
    <3>2. Sound(o.s)
      BY <1>1, <2>1, <3>1 DEF Sound, SameDriver, Known, Results
    <3>3. o.ans = "OK" => AsReported(o.s)
      BY <2>1, <3>1 DEF AsReported, SameDriver, ScanOps
    <3>. QED
      BY <3>1, <3>2, <3>3 DEF Starts, Returns
  <2>. QED
    BY <2>2, <2>4
<1>2. ASSUME NEW o \in UpdateTimingDesc(s, duration)
      PROVE  o.ans # "CRASH" => G(o.s) \subseteq Starts
  <2>1. /\ o \in Returns /\ Sound(o.s) /\ o.s.bound = s.bound
        /\ o.s.timing = timing
    BY TimingUpdated DEF Returns
  <2>2. ASSUME NEW p \in StartMotor(o.s)
        PROVE  p \in Returns /\ F(p) \subseteq Starts
    <3>1. p \in After(o.s)
      BY <2>1, <2>2, SpeedSet DEF StartMotor, DEFAULT_MOTOR_SPEED
    <3>2. Sound(p.s) /\ p.s.bound = s.bound /\ p.s.timing = timing
      BY <2>1, <3>1 DEF After, Kept
    <3>3. F(p) = F(Out(p.s, "OK"))
      BY DEF Out
    <3> HIDE DEF F
    <3>. QED
      BY <1>1, <3>1, <3>2, <3>3, AfterReturns
  <2> HIDE DEF F
  <2>. QED
    BY <2>2, NotStarted
<1>3. Launch(s, duration, cmd)
        = UNION {IF o.ans = "CRASH" THEN {o} ELSE G(o.s) :
                   o \in UpdateTimingDesc(s, duration)}
  BY DEF Launch, Then
<1>4. \A o \in UpdateTimingDesc(s, duration) : o \in Returns
  BY TimingUpdated
<1> HIDE DEF G
<1>. QED
  BY <1>2, <1>3, <1>4, NotStarted

\* After a request the driver knows what it knew, or the request failed.
LEMMA StillInformed ==
  ASSUME NEW s, Informed(s), NEW o \in After(s)
  PROVE  Sound(o.s) /\ Informed(o.s) /\ o.s.bound = s.bound
BY DEF After, Kept, Informed

\* startScanNormal_commonpath launches with the duration of the mode.
LEMMA NormalStarted ==
  ASSUME lidars \in Fleets, NEW s, Sound(s), Informed(s)
  PROVE  StartScanNormal_commonpath(s) \subseteq Starts
<1> DEFINE l == lidars[s.bound]
           cmd == Cmd("SCAN", 0)
<1>1. l \in Lidar /\ l.duration[STD] \in Nat /\ s.bound \in Channels
  BY OneLidar, OperationsAssumption DEF Informed, Lidar
<1>2. /\ cmd \in Commands /\ cmd.op \in ScanOps
      /\ RunningDuration(l, cmd) = l.duration[STD]
  BY DEF cmd, Cmd, Commands, ScanOps, RunningDuration
<1>3. LegacyDuration(l, STD) = l.duration[STD]
  BY <1>1, LegacyAssumption DEF LegacyDuration
<1> HIDE DEF l, cmd
<1>4. ASSUME NEW o \in After(s)
      PROVE  Launch(o.s, l.duration[STD], cmd) \subseteq Starts
  BY <1>1, <1>2, StillInformed, Launched DEF l
<1>5. CASE SupportsConf(l)
  <2>1. StartScanNormal_commonpath(s)
          = UNION {IF o.ans = "OK" THEN Launch(o.s, l.duration[STD], cmd) ELSE {o} :
                     o \in GetScanModeConf(s)}
    BY <1>5 DEF StartScanNormal_commonpath, IfOk, l, cmd
  <2>2. \A o \in GetScanModeConf(s) : o \in After(s)
    BY ModeConf DEF Heard
  <2>. QED
    BY <1>4, <2>1, <2>2, AfterReturns, NotStarted
<1>6. CASE ~SupportsConf(l)
  <2>1. StartScanNormal_commonpath(s)
          = UNION {IF o.ans = "OK" THEN Launch(o.s, LegacyDuration(l, STD), cmd)
                   ELSE {o} : o \in GetLegacySampleDuration(s)}
    BY <1>6 DEF StartScanNormal_commonpath, IfOk, l, cmd
  <2>2. \A o \in GetLegacySampleDuration(s) : o \in After(s)
    BY LegacySampleDuration DEF Heard
  <2>. QED
    BY <1>3, <1>4, <2>1, <2>2, AfterReturns, NotStarted
<1>. QED
  BY <1>5, <1>6

\* The question every start begins with fetches the device info.
LEMMA SupportChecked ==
  ASSUME NEW s, Sound(s), NEW o \in CheckSupportConfigCommands(s)
  PROVE  o \in After(s) /\ o \in Returns /\ (o.ans = "OK" => Informed(o.s))
<1>1. o \in Heard(s) /\ (o.ans = "OK" => o.s.info = o.s.bound)
  BY Info DEF CheckSupportConfigCommands
<1>2. o.ans = "OK" => o.s.bound # NoChannel
  BY <1>1 DEF Heard, After, Kept
<1>. QED
  BY <1>1, <1>2, AfterReturns DEF Heard, Informed

\* startScanNormal.
LEMMA NormalScan ==
  ASSUME lidars \in Fleets, NEW s, Sound(s)
  PROVE  StartScanNormal(s) \subseteq Starts
<1> DEFINE G(t) == UNION {IF o.ans = "OK" THEN StartScanNormal_commonpath(o.s)
                          ELSE {o} : o \in CheckSupportConfigCommands(t)}
<1>1. ASSUME NEW t, Sound(t)
      PROVE  G(t) \subseteq Starts
  BY <1>1, SupportChecked, NormalStarted, NotStarted DEF Returns
<1>2. s.connected =>
        StartScanNormal(s)
          = UNION {IF o.ans = "CRASH" THEN {o} ELSE G(o.s) : o \in Stop(s)}
  BY DEF StartScanNormal, Then, IfOk
<1>3. \A o \in Stop(s) : o \in Returns /\ Sound(o.s)
  BY Stopped, AfterReturns DEF Returns
<1>4. ~s.connected => StartScanNormal(s) = {Out(s, "FAIL")}
  BY DEF StartScanNormal
<1>5. Out(s, "FAIL") \in Starts
  BY Nothing, AfterReturns, NotStarted DEF Out
<1> HIDE DEF G
<1>. QED
  BY <1>1, <1>2, <1>3, <1>4, <1>5, NotStarted

\* startScanExpress after its first question: the duration is that of the
\* mode which the command names to this lidar.
LEMMA ExpressStarted ==
  ASSUME lidars \in Fleets, NEW s, Sound(s), Informed(s), NEW mode \in Modes
  PROVE  ExpressScan(s, mode) \subseteq Starts
<1> DEFINE l == lidars[s.bound]
           cmd == Cmd("EXPRESS_SCAN", mode)
           old == Cmd("EXPRESS_SCAN", IF mode = EXPRESS THEN 0 ELSE mode)
<1>1. /\ l \in Lidar /\ s.bound \in Channels
      /\ l.duration[mode] \in Nat /\ l.duration[EXPRESS] \in Nat
  BY OneLidar, OperationsAssumption DEF Informed, Lidar
<1>2. cmd \in Commands /\ old \in Commands
      /\ cmd.op \in ScanOps /\ old.op \in ScanOps
  BY OperationsAssumption DEF Cmd, Commands, ScanOps
<1>3. LegacyDuration(l, EXPRESS) = l.duration[EXPRESS]
  BY <1>1, LegacyAssumption DEF LegacyDuration
<1>4. CASE SupportsConf(l)
  <2> DEFINE G(t) == IF mode = STD THEN StartScanNormal(t)
                     ELSE Launch(t, l.duration[mode], cmd)
  <2>1. RunningDuration(l, cmd) = l.duration[mode]
    BY <1>4 DEF RunningDuration, Cmd
  <2>2. ASSUME NEW o \in GetScanModeConf(s)
        PROVE  o \in Returns /\ G(o.s) \subseteq Starts
    <3>1. o \in After(s)
      BY ModeConf DEF Heard
    <3> HIDE DEF cmd
    <3>2. Launch(o.s, l.duration[mode], cmd) \subseteq Starts
      BY <1>1, <1>2, <2>1, <3>1, StillInformed, Launched
    <3>3. StartScanNormal(o.s) \subseteq Starts
      BY <3>1, Chained, NormalScan
    <3>. QED
      BY <3>1, <3>2, <3>3, AfterReturns
  <2>3. ExpressScan(s, mode)
          = UNION {IF o.ans = "OK" THEN G(o.s) ELSE {o} : o \in GetScanModeConf(s)}
    BY <1>4 DEF ExpressScan, IfOk
  <2> HIDE DEF G
  <2>. QED
    BY <2>2, <2>3, NotStarted
<1>5. CASE ~SupportsConf(l) /\ mode = STD
  <2>1. ExpressScan(s, mode) = StartScanNormal(s)
    BY <1>5 DEF ExpressScan
  <2>. QED
    BY <2>1, NormalScan
<1>6. CASE ~SupportsConf(l) /\ mode # STD
  <2>1. RunningDuration(l, old) = l.duration[EXPRESS]
    BY <1>6 DEF RunningDuration, Cmd
  <2>2. ASSUME NEW o \in GetLegacySampleDuration(s)
        PROVE  /\ o \in Returns
               /\ Launch(o.s, LegacyDuration(l, EXPRESS), old) \subseteq Starts
    <3>1. o \in After(s)
      BY LegacySampleDuration DEF Heard
    <3> HIDE DEF old
    <3>. QED
      BY <1>1, <1>2, <1>3, <2>1, <3>1, StillInformed, Launched, AfterReturns
  <2>3. ExpressScan(s, mode)
          = UNION {IF o.ans = "OK" THEN Launch(o.s, LegacyDuration(l, EXPRESS), old)
                   ELSE {o} : o \in GetLegacySampleDuration(s)}
    BY <1>6 DEF ExpressScan, IfOk
  <2>. QED
    BY <2>2, <2>3, NotStarted
<1>. QED
  BY <1>4, <1>5, <1>6

\* startScanExpress.
LEMMA ExpressScanned ==
  ASSUME lidars \in Fleets, NEW s, Sound(s), NEW mode \in Modes
  PROVE  StartScanExpress(s, mode) \subseteq Starts
<1> DEFINE G(t) == UNION {IF o.ans = "OK" THEN ExpressScan(o.s, mode) ELSE {o} :
                            o \in CheckSupportConfigCommands(t)}
<1>1. ASSUME NEW t, Sound(t)
      PROVE  G(t) \subseteq Starts
  BY <1>1, SupportChecked, ExpressStarted, NotStarted DEF Returns
<1>2. s.connected =>
        StartScanExpress(s, mode)
          = UNION {IF o.ans = "CRASH" THEN {o} ELSE G(o.s) : o \in Stop(s)}
  BY DEF StartScanExpress, Then, IfOk
<1>3. \A o \in Stop(s) : o \in Returns /\ Sound(o.s)
  BY Stopped, AfterReturns DEF Returns
<1>4. ~s.connected => StartScanExpress(s, mode) = {Out(s, "FAIL")}
  BY DEF StartScanExpress
<1>5. Out(s, "FAIL") \in Starts
  BY Nothing, AfterReturns, NotStarted DEF Out
<1> HIDE DEF G
<1>. QED
  BY <1>1, <1>2, <1>3, <1>4, <1>5, NotStarted

\* getTypicalScanMode.
LEMMA TypicalAsked ==
  ASSUME NEW s, Sound(s)
  PROVE  GetTypicalScanMode(s) \subseteq After(s)
<1> DEFINE G(t) == IF SupportsConf(lidars[t.bound]) THEN GetLidarConf(t)
                   ELSE {Out(t, "OK")}
<1>1. ASSUME NEW o \in CheckSupportConfigCommands(s)
      PROVE  o \in After(s) /\ G(o.s) \subseteq After(s)
  <2>1. o \in After(s) /\ Sound(o.s) /\ After(o.s) \subseteq After(s)
    BY SupportChecked, Chained
  <2>2. GetLidarConf(o.s) \subseteq After(o.s)
    BY <2>1, Conf DEF Heard
  <2>. QED
    BY <2>1, <2>2, Again
<1>2. GetTypicalScanMode(s) =
        IF ~s.connected THEN {Out(s, "FAIL")}
        ELSE UNION {IF o.ans = "OK" THEN G(o.s) ELSE {o} :
                      o \in CheckSupportConfigCommands(s)}
  BY DEF GetTypicalScanMode, IfOk
<1> HIDE DEF G
<1>. QED
  BY <1>1, <1>2, Nothing

\* getAllSupportedScanModes.
LEMMA AllModesAsked ==
  ASSUME NEW s, Sound(s)
  PROVE  GetAllSupportedScanModes(s) \subseteq After(s)
<1> DEFINE E(t) == UNION {IF o.ans = "OK" THEN GetScanModeConf(o.s) ELSE {o} :
                            o \in GetLidarConf(t)}
           G(t) == IF SupportsConf(lidars[t.bound]) THEN E(t) ELSE {Out(t, "OK")}
<1>1. ASSUME NEW t, Sound(t)
      PROVE  E(t) \subseteq After(t)
  <2>1. ASSUME NEW o \in GetLidarConf(t)
        PROVE  o \in After(t) /\ GetScanModeConf(o.s) \subseteq After(t)
    <3>1. o \in After(t)
      BY <1>1, Conf DEF Heard
    <3>2. GetScanModeConf(o.s) \subseteq After(o.s)
      BY <3>1, Chained, ModeConf DEF Heard
    <3>. QED
      BY <3>1, <3>2, Chained
  <2>. QED
    BY <2>1
<1>2. ASSUME NEW o \in CheckSupportConfigCommands(s)
      PROVE  o \in After(s) /\ G(o.s) \subseteq After(s)
  <2>1. o \in After(s) /\ Sound(o.s) /\ After(o.s) \subseteq After(s)
    BY SupportChecked, Chained
  <2> HIDE DEF E
  <2>. QED
    BY <1>1, <2>1, Again
<1>3. GetAllSupportedScanModes(s) =
        IF ~s.connected THEN {Out(s, "FAIL")}
        ELSE UNION {IF o.ans = "OK" THEN G(o.s) ELSE {o} :
                      o \in CheckSupportConfigCommands(s)}
  BY DEF GetAllSupportedScanModes, IfOk
<1> HIDE DEF G
<1>. QED
  BY <1>2, <1>3, Nothing

\* startScan, in the typical mode or not.
LEMMA Scanned ==
  ASSUME lidars \in Fleets, NEW s, Sound(s), NEW typical \in BOOLEAN
  PROVE  StartScan(s, typical) \subseteq Starts
<1> DEFINE F(u) == StartScanExpress(u, TypicalMode(lidars[u.bound]))
           E(t) == UNION {IF o.ans = "OK" THEN F(o.s) ELSE {o} :
                            o \in GetTypicalScanMode(t)}
           G(t) == IF typical THEN E(t) ELSE StartScanNormal_commonpath(t)
           H(t) == UNION {IF o.ans = "OK" THEN G(o.s) ELSE {o} :
                            o \in CheckSupportConfigCommands(t)}
<1>1. ASSUME NEW t, Sound(t), Informed(t)
      PROVE  E(t) \subseteq Starts
  <2>1. ASSUME NEW o \in GetTypicalScanMode(t)
        PROVE  o \in Returns /\ F(o.s) \subseteq Starts
    <3>1. o \in After(t) /\ Sound(o.s) /\ Informed(o.s)
      BY <1>1, TypicalAsked, StillInformed
    <3>2. lidars[o.s.bound] \in Lidar
      BY <3>1, OneLidar DEF Informed
    <3>3. TypicalMode(lidars[o.s.bound]) \in Modes
      BY <3>2, OperationsAssumption DEF TypicalMode, Lidar
    <3>. QED
      BY <3>1, <3>3, ExpressScanned, AfterReturns
  <2> HIDE DEF F
  <2>. QED
    BY <2>1, NotStarted
<1> HIDE DEF E
<1>2. ASSUME NEW t, Sound(t)
      PROVE  H(t) \subseteq Starts
  <2>1. ASSUME NEW o \in CheckSupportConfigCommands(t)
        PROVE  o \in Returns /\ (o.ans = "OK" => G(o.s) \subseteq Starts)
    <3>1. o \in Returns /\ Sound(o.s) /\ (o.ans = "OK" => Informed(o.s))
      BY <1>2, SupportChecked DEF Returns
    <3>. QED
      BY <1>1, <3>1, NormalStarted
  <2> HIDE DEF G
  <2>. QED
    BY <2>1, NotStarted
<1>3. s.connected =>
        StartScan(s, typical)
          = UNION {IF o.ans = "CRASH" THEN {o} ELSE H(o.s) : o \in Stop(s)}
  BY DEF StartScan, Then, IfOk, E
<1>4. \A o \in Stop(s) : o \in Returns /\ Sound(o.s)
  BY Stopped, AfterReturns DEF Returns
<1>5. ~s.connected => StartScan(s, typical) = {Out(s, "FAIL")}
  BY DEF StartScan
<1>6. Out(s, "FAIL") \in Starts
  BY Nothing, AfterReturns, NotStarted DEF Out
<1> HIDE DEF H
<1>. QED
  BY <1>2, <1>3, <1>4, <1>5, <1>6, NotStarted

-----------------------------------------------------------------------------
\* The requests that keep nothing.
LEMMA Requested ==
  ASSUME NEW s, Sound(s)
  PROVE  /\ Reset(s) \subseteq Returns /\ GetHealth(s) \subseteq Returns
         /\ SetLidarIpConf(s) \subseteq Returns
         /\ GetLidarIpConf(s) \subseteq Returns
         /\ \A alias \in BOOLEAN :
              GetModelNameDescriptionString(s, alias) \subseteq Returns
<1>1. \A a \in {"OK", "FAIL", "CRASH"} : Out(s, a) \in Returns
  BY Nothing, AfterReturns
<1>2. Reset(s) \subseteq Returns
  <2>1. Cmd("RESET", 0) \in Orders
    BY DEF Cmd, Orders, Ops
  <2>. QED
    BY <2>1, NoResponse, AfterReturns DEF Reset
<1>3. "GET_DEVICE_HEALTH" \in Ops /\ "SET_LIDAR_CONF" \in Ops
  BY DEF Ops
<1>4. GetHealth(s) \subseteq Returns
  BY <1>1, <1>3, Response, AfterReturns DEF GetHealth
<1>5. SetLidarIpConf(s) \subseteq Returns
  BY <1>1, <1>3, Response, AfterReturns DEF SetLidarIpConf
<1>6. GetLidarIpConf(s) \subseteq Returns
  BY <1>1, Conf, AfterReturns DEF GetLidarIpConf
<1>7. ASSUME NEW alias \in BOOLEAN
      PROVE  GetModelNameDescriptionString(s, alias) \subseteq Returns
  <2>1. \A o \in GetLidarConf(s) : o \in Returns /\ Out(o.s, "OK") \in Returns
    BY Conf, AfterReturns, ReturnAgain
  <2>2. GetModelNameDescriptionString(s, alias) =
          IF alias
          THEN UNION {IF o.ans = "CRASH" THEN {o} ELSE {Out(o.s, "OK")} :
                        o \in GetLidarConf(s)}
          ELSE {Out(s, "OK")}
    BY DEF GetModelNameDescriptionString, Then
  <2>. QED
    BY <1>1, <2>1, <2>2
<1>. QED
  BY <1>2, <1>4, <1>5, <1>6, <1>7

\* A caller's question about the motor does not change what the driver knows.
LEMMA SupportAsked ==
  ASSUME NEW s, Sound(s)
  PROVE  AskMotorCtrlSupport(s) \subseteq Returns
<1> DEFINE with(t) == [t EXCEPT !.motorCtrl = s.motorCtrl]
<1>1. ASSUME NEW o \in CheckMotorCtrlSupport(s)
      PROVE  Out(with(o.s), o.ans) \in Returns
  <2>1. o \in Results /\ Sound(o.s) /\ Kept(s, o.s)
    <3>1. CASE s.connected
      BY <3>1, MotorChecked DEF Sound
    <3>2. CASE ~s.connected
      <4>1. o = Out(s, "FAIL")
        BY <3>2 DEF CheckMotorCtrlSupport
      <4>. QED
        BY <4>1 DEF Out, Results, Sound, Kept
    <3>. QED
      BY <3>1, <3>2
  <2>2. Sound(with(o.s))
    BY <2>1 DEF Sound, Kept, Known, System
  <2> HIDE DEF with
  <2>. QED
    BY <2>1, <2>2 DEF Returns, Results, Out, Sound
<1>2. AskMotorCtrlSupport(s)
        = UNION {IF o.ans = "CRASH" THEN {o} ELSE {Out(with(o.s), o.ans)} :
                   o \in CheckMotorCtrlSupport(s)}
  BY DEF AskMotorCtrlSupport, Then
<1>3. ASSUME NEW o \in CheckMotorCtrlSupport(s), o.ans = "CRASH"
      PROVE  o \in Returns
  <2>1. CASE s.connected
    BY <2>1, MotorChecked DEF Sound, Returns
  <2>2. CASE ~s.connected
    BY <1>3, <2>2 DEF CheckMotorCtrlSupport, Out
  <2>. QED
    BY <2>1, <2>2
<1> HIDE DEF with
<1>. QED
  BY <1>1, <1>2, <1>3

\* createLidarDriver.
LEMMA Created ==
  ASSUME NEW s, Sound(s)
  PROVE  Sound(CreateLidarDriver(s))
BY DEF CreateLidarDriver, Sound, Known, System

\* ~SlamtecLidarDriver.
LEMMA Deleted ==
  ASSUME NEW s, Sound(s)
  PROVE  Sound(Delete(s))
<1> DEFINE t == Disconnect(s)
<1>1. t \in System
  BY Disconnected DEF Sound
<1> HIDE DEF t
<1>2. Sound(Fresh(t))
  BY <1>1 DEF Fresh, Sound, Known, System, Ends, Timings, Ops
<1>. QED
  BY <1>2 DEF Delete, t

\* A step that cannot fail.
LEMMA SoundReturns ==
  ASSUME NEW s, Sound(s)
  PROVE  Out(s, "OK") \in Returns
BY DEF Returns, Results, Out, Sound

\* LidarNode's constructor, which ignores what fails after the connection.
LEMMA NodeCreated ==
  ASSUME lidars \in Fleets, NEW s, Sound(s), NEW c \in Channels
  PROVE  LidarNode(s, c) \subseteq Returns
<1> DEFINE E(t) == UNION {IF p.ans = "CRASH" THEN {p} ELSE {Out(p.s, "OK")} :
                            p \in StartScan(t, TRUE)}
           G(t) == UNION {IF o.ans = "CRASH" THEN {o} ELSE E(o.s) :
                            o \in SetMotorSpeed(t, DEFAULT_MOTOR_SPEED)}
<1>1. ASSUME NEW t, Sound(t)
      PROVE  E(t) \subseteq Returns
  <2>1. \A p \in StartScan(t, TRUE) : p \in Returns /\ Out(p.s, "OK") \in Returns
    BY <1>1, Scanned, ReturnAgain DEF Starts
  <2>. QED
    BY <2>1
<1> HIDE DEF E
<1>2. ASSUME NEW t, Sound(t)
      PROVE  G(t) \subseteq Returns
  <2>1. DEFAULT_MOTOR_SPEED \in Nat
    BY DEF DEFAULT_MOTOR_SPEED
  <2>2. \A o \in SetMotorSpeed(t, DEFAULT_MOTOR_SPEED) : o \in Returns /\ Sound(o.s)
    BY <1>2, <2>1, SpeedSet, AfterReturns DEF Returns
  <2>. QED
    BY <1>1, <2>2
<1>3. \A o \in Connect(CreateLidarDriver(s), c) : o \in Returns /\ Sound(o.s)
  BY Created, Connected DEF Returns
<1>4. LidarNode(s, c)
        = UNION {IF o.ans = "OK" THEN G(o.s) ELSE {o} :
                   o \in Connect(CreateLidarDriver(s), c)}
  BY DEF LidarNode, IfOk, Then, E
<1> HIDE DEF G
<1>. QED
  BY <1>2, <1>3, <1>4

\* LidarNode's destructor.
LEMMA NodeDestroyed ==
  ASSUME NEW s, Sound(s)
  PROVE  LidarNodeDestructor(s) \subseteq Returns
<1> DEFINE G(t) == UNION {IF p.ans = "CRASH" THEN {p} ELSE {Out(Delete(p.s), "OK")} :
                            p \in SetMotorSpeed(t, 0)}
<1>1. ASSUME NEW t, Sound(t)
      PROVE  G(t) \subseteq Returns
  <2>1. \A p \in SetMotorSpeed(t, 0) : p \in Returns /\ Sound(p.s)
    BY <1>1, SpeedSet, AfterReturns DEF Returns
  <2>2. \A p \in SetMotorSpeed(t, 0) : Out(Delete(p.s), "OK") \in Returns
    BY <2>1, Deleted, SoundReturns
  <2>. QED
    BY <2>1, <2>2
<1>2. \A o \in Stop(s) : o \in Returns /\ Sound(o.s)
  BY Stopped, AfterReturns DEF Returns
<1>3. LidarNodeDestructor(s)
        = UNION {IF o.ans = "CRASH" THEN {o} ELSE G(o.s) : o \in Stop(s)}
  BY DEF LidarNodeDestructor, Then
<1> HIDE DEF G
<1>. QED
  BY <1>1, <1>2, <1>3

-----------------------------------------------------------------------------
\* The invariant of the system.
IInv ==
  /\ lidars \in Fleets
  /\ Sound(sys)
  /\ ScanAsReported

\* It holds at the beginning.
LEMMA Begins == Init => IInv
<1> SUFFICES ASSUME Init
             PROVE  IInv
  OBVIOUS
<1>1. [c \in Channels |-> Idle] \in [Channels -> Commands]
  BY DEF Idle, Cmd, Commands
<1>2. sys \in System
  BY <1>1 DEF Init, System, Ends, Ops, Timings
<1>3. Sound(sys) /\ ScanAsReported
  BY <1>2 DEF Init, Sound, Known, ScanAsReported
<1>. QED
  BY <1>3 DEF Init, IInv

\* A start that returns keeps it.
LEMMA StartReturns ==
  ASSUME NEW outcomes, outcomes \subseteq Starts, IInv, Return("startScan", outcomes)
  PROVE  IInv'
<1>1. PICK o \in outcomes : sys' = o.s /\ call' = [op |-> "startScan", ans |-> o.ans]
  BY DEF Return
<1>2. Sound(o.s) /\ (o.ans = "OK" => AsReported(o.s))
  BY DEF Starts, Returns
<1>3. lidars' = lidars
  BY DEF Return
<1>4. Sound(sys)'
  BY <1>1, <1>2, <1>3 DEF Sound, Known
<1>5. ScanAsReported'
  BY <1>1, <1>2, <1>3 DEF ScanAsReported, AsReported, ScanOps
<1>. QED
  BY <1>3, <1>4, <1>5 DEF IInv

\* So does any other call.
LEMMA CallReturns ==
  ASSUME NEW outcomes, outcomes \subseteq Returns, NEW op, op # "startScan",
         IInv, Return(op, outcomes)
  PROVE  IInv'
<1>1. PICK o \in outcomes : sys' = o.s /\ call' = [op |-> op, ans |-> o.ans]
  BY DEF Return
<1>2. Sound(o.s)
  BY DEF Returns
<1>3. lidars' = lidars
  BY DEF Return
<1>4. Sound(sys)'
  BY <1>1, <1>2, <1>3 DEF Sound, Known
<1>5. ScanAsReported'
  BY <1>1 DEF ScanAsReported
<1>. QED
  BY <1>3, <1>4, <1>5 DEF IInv

\* Every call keeps it.
LEMMA StepsKeep ==
  ASSUME IInv, [Next]_vars
  PROVE  IInv'
<1>1. lidars \in Fleets /\ Sound(sys)
  BY DEF IInv
<1>2. CASE Lifetime
  <2>1. {Out(CreateLidarDriver(sys), "OK")} \subseteq Returns
    BY <1>1, Created, SoundReturns
  <2>2. {Out(Delete(sys), "OK")} \subseteq Returns
    BY <1>1, Deleted, SoundReturns
  <2>. QED
    BY <1>1, <1>2, <2>1, <2>2, NodeCreated, NodeDestroyed, CallReturns
    DEF Lifetime
<1>3. CASE Connection
  <2>1. {Out(Disconnect(sys), "OK")} \subseteq Returns
    BY <1>1, Disconnected, SoundReturns
  <2>. QED
    BY <1>1, <1>3, <2>1, Connected, BaudRateNegotiated, CallReturns DEF Connection
<1>4. CASE Scanning
  <2>1. CASE \E typical \in BOOLEAN : Return("startScan", StartScan(sys, typical))
    BY <1>1, <2>1, Scanned, StartReturns
  <2>2. CASE \E mode \in Modes : Return("startScan", StartScanExpress(sys, mode))
    BY <1>1, <2>2, ExpressScanned, StartReturns
  <2>3. CASE Return("other", Stop(sys))
    BY <1>1, <2>3, Stopped, AfterReturns, CallReturns
  <2>4. CASE Return("other", Reset(sys))
    BY <1>1, <2>4, Requested, CallReturns
  <2>. QED
    BY <1>4, <2>1, <2>2, <2>3, <2>4 DEF Scanning
<1>5. CASE Motor
  <2>1. ASSUME NEW v \in Speeds \union {DEFAULT_MOTOR_SPEED}
        PROVE  SetMotorSpeed(sys, v) \subseteq Returns
    BY <1>1, OperationsAssumption, SpeedSet, AfterReturns DEF DEFAULT_MOTOR_SPEED
  <2>2. GetMotorInfo(sys) \subseteq Returns
    BY <1>1, MotorInfo, AfterReturns
  <2>. QED
    BY <1>1, <1>5, <2>1, <2>2, SupportAsked, CallReturns DEF Motor
<1>6. CASE Asking
  <2>1. /\ GetDeviceInfo(sys) \subseteq Returns
        /\ GetDeviceMacAddr(sys) \subseteq Returns
        /\ GetTypicalScanMode(sys) \subseteq Returns
        /\ GetAllSupportedScanModes(sys) \subseteq Returns
    BY <1>1, Info, MacAddr, TypicalAsked, AllModesAsked, AfterReturns
  <2>. QED
    BY <1>1, <1>6, <2>1, Requested, CallReturns DEF Asking
<1>7. CASE UNCHANGED vars
  BY <1>7 DEF vars, IInv, Sound, Known, ScanAsReported, AsReported
<1>. QED
  BY <1>2, <1>3, <1>4, <1>5, <1>6, <1>7 DEF Next

\* The invariant holds in every state, for any lidars, channels, modes and
\* speeds.
THEOREM OperationsInvariance == Spec => []IInv
BY Begins, StepsKeep, PTL DEF Spec

\* A start that succeeds is a scan with the timing of this lidar in this
\* mode, whichever lidar and mode came before.
THEOREM StartsAsReported == Spec => []ScanAsReported
<1>1. IInv => ScanAsReported
  BY DEF IInv
<1>. QED
  BY <1>1, OperationsInvariance, PTL

\* While samples are grabbed no request was made after the command that
\* started the scan, on any path of any call.
THEOREM GrabsForScan == Spec => []GrabbingOnlyForScan
<1>1. IInv => GrabbingOnlyForScan
  BY DEF IInv, Sound, GrabbingOnlyForScan, ScanOps
<1>. QED
  BY <1>1, OperationsInvariance, PTL

\* The motor is controlled in a way that the lidar at the end of the channel
\* knows.
THEOREM MotorKnown == Spec => []MotorControlOfThisLidar
<1>1. IInv => MotorControlOfThisLidar
  BY DEF IInv, Sound, Known, MotorControlOfThisLidar
<1>. QED
  BY <1>1, OperationsInvariance, PTL

\* A connected driver whose port opened the last time has its channel, also
\* after a negotiation that failed.
THEOREM ChannelKept == Spec => []ChannelGivenBack
<1>1. IInv => ChannelGivenBack
  BY DEF IInv, Sound, ChannelGivenBack
<1>. QED
  BY <1>1, OperationsInvariance, PTL
=============================================================================
