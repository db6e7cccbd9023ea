-------------------------- MODULE DriverOperations --------------------------
(***************************************************************************)
(* The calls of the lidar driver (sl_lidar_driver.cpp) and of LidarNode,   *)
(* which the station builds on them.                                       *)
(*                                                                         *)
(* Every call holds _op_locker to its end, so a call is one step; what it  *)
(* may do is a set of outcomes.  An outcome is a state and a result, "OK", *)
(* "FAIL" or "CRASH" (the process dies).  A call that makes other calls    *)
(* chains their outcomes with Then and IfOk, in the order and with the     *)
(* early returns of the code.                                              *)
(*                                                                         *)
(* Outside: a port opens or not; a command is written or not; what is      *)
(* written reaches the lidar; an answer comes whole, too short, too late   *)
(* or never (the races of late answers are in DriverCommands).             *)
(***************************************************************************)
EXTENDS Naturals

CONSTANTS
  Channels,   \* the channels connect() may be given
  Serial,     \* those that are serial ports
  NoChannel,  \* no channel, or no lidar heard of yet
  Fleets,     \* which lidar is at the end of each channel: choices
  Modes,      \* scan mode ids
  Speeds      \* speeds the lidar may name as the one it wants

STD == 0       \* SL_LIDAR_CONF_SCAN_COMMAND_STD
EXPRESS == 1   \* SL_LIDAR_CONF_SCAN_COMMAND_EXPRESS
DEFAULT_MOTOR_SPEED == 65535
LEGACY_SAMPLE_DURATION == 476

Lidar == [major : Nat, minor : Nat, hardware : Nat, firmware : Nat,
          pwm : BOOLEAN, typical : Modes, duration : [Modes -> Nat]]

ASSUME OperationsAssumption ==
  /\ NoChannel \notin Channels /\ Serial \subseteq Channels
  /\ {STD, EXPRESS} \subseteq Modes /\ Modes \subseteq Nat
  /\ Speeds \subseteq Nat
  /\ \A f \in Fleets : f \in [Channels -> Lidar]

VARIABLES
  lidars,  \* the lidar at the end of each channel
  sys,     \* the driver and what the lidars do
  call     \* history: the last call and its result

vars == <<lidars, sys, call>>

(***************************************************************************)
(* Outcomes.                                                               *)
(***************************************************************************)
Out(s, ans) == [s |-> s, ans |-> ans]

Then(outcomes, F(_)) ==
  UNION {IF o.ans = "CRASH" THEN {o} ELSE F(o) : o \in outcomes}

IfOk(outcomes, F(_)) ==
  UNION {IF o.ans = "OK" THEN F(o.s) ELSE {o} : o \in outcomes}

Cmd(op, arg) == [op |-> op, arg |-> arg]
Idle == Cmd("STOP", 0)

(***************************************************************************)
(* What the model byte tells.                                              *)
(***************************************************************************)
ParseLIDARMajorType(major) ==
  CASE major >= 12 -> "M" [] major \in 9 .. 11 -> "T"
    [] major \in 6 .. 8 -> "S" [] major \in 4 .. 5 -> "C" [] OTHER -> "A"

CheckNDMagicNumber(major) == major >= 4

\* firmware versions are (major << 8) | minor
SupportsConf(l) == CheckNDMagicNumber(l.major) \/ l.firmware >= 256 + 24

NativeBaudRate(l) ==
  CASE l.major \in 1 .. 3 -> IF l.hardware >= 6 THEN 256000 ELSE 115200
    [] l.major = 4 -> 460800
    [] l.major = 6 -> 256000
    [] l.major \in 7 .. 8 ->
         IF l.major = 8 /\ l.minor = 2 THEN 460800 ELSE 1000000
    [] OTHER -> 0

(***************************************************************************)
(* The transceiver: a command is written to the channel or fails.          *)
(***************************************************************************)
\* what the lidar does on a command
Perform(s, cmd) ==
  CASE cmd.op \in {"STOP", "RESET"} -> [s EXCEPT !.scanning[s.bound] = Idle]
    [] cmd.op \in {"SCAN", "EXPRESS_SCAN"} ->
         [s EXCEPT !.scanning[s.bound] = cmd]
    [] cmd.op = "MOTOR" -> [s EXCEPT !.turning[s.bound] = cmd.arg > 0]
    [] OTHER -> s

SendMessage(s, cmd) ==
  LET t == IF cmd.op = "MOTOR" THEN s ELSE [s EXCEPT !.last = cmd.op]
  IN IF s.bound = NoChannel THEN {Out(t, "FAIL")}
     ELSE {Out(Perform(t, cmd), "OK"), Out(t, "FAIL")}

UnbindAndClose(s) == [s EXCEPT !.bound = NoChannel]

\* the inner declaration of `ans' hides the one that is returned
OpenChannelAndBind(s, c) ==
  LET t == UnbindAndClose(s)
  IN {Out([t EXCEPT !.bound = c, !.opened = TRUE], "OK"),
      Out([t EXCEPT !.opened = FALSE], "OK")}

(***************************************************************************)
(* Commands and requests.                                                  *)
(***************************************************************************)
DisableDataGrabbing(s) == [s EXCEPT !.enabled = FALSE]

SendCommandWithoutResponse(s, cmd, noForceStop) ==
  SendMessage(IF noForceStop THEN s ELSE DisableDataGrabbing(s), cmd)

\* the answer may also be missing, too short or of another type
Answered(outcomes) == IfOk(outcomes, LAMBDA t : {Out(t, "OK"), Out(t, "FAIL")})

\* mutated: grabbing goes on while the answer is waited for
SendCommandWithResponse_Grabbing(s, op) == Answered(SendMessage(s, Cmd(op, 0)))

\* a request ends the grabbing
SendCommandWithResponse(s, op) ==
  Answered(SendMessage(DisableDataGrabbing(s), Cmd(op, 0)))

GetLidarConf(s) == SendCommandWithResponse(s, "GET_LIDAR_CONF")

\* a number read from an answer whose size nobody looked at: an answer
\* without payload leaves a vector without storage
UncheckedNumber(s) ==
  IfOk(GetLidarConf(s), LAMBDA t : {Out(t, "OK"), Out(t, "CRASH")})

GetDeviceInfo(s) ==
  IF ~s.connected THEN {Out(s, "FAIL")}
  ELSE IfOk(SendCommandWithResponse(s, "GET_DEVICE_INFO"),
            LAMBDA t : {Out([t EXCEPT !.info = t.bound], "OK")})

CheckSupportConfigCommands(s) == GetDeviceInfo(s)

GetDeviceMacAddr(s) ==
  IF ~s.connected THEN {Out(s, "FAIL")} ELSE GetLidarConf(s)

\* sample duration, largest distance, answer type and name of a mode
GetScanModeConf(s) ==
  IfOk(GetLidarConf(s), LAMBDA t : IfOk(GetLidarConf(t), LAMBDA u :
    IfOk(GetLidarConf(u), GetLidarConf)))

VeryOld(l) == ParseLIDARMajorType(l.major) = "A" /\ l.firmware < 256 + 17

GetLegacySampleDuration(s) ==
  IfOk(GetDeviceInfo(s), LAMBDA t :
    IF VeryOld(lidars[t.bound]) THEN {Out(t, "OK")}
    ELSE SendCommandWithResponse(t, "GET_SAMPLERATE"))

LegacyDuration(l, mode) ==
  IF VeryOld(l) THEN LEGACY_SAMPLE_DURATION ELSE l.duration[mode]

\* what the driver takes for granted of a lidar that cannot be asked
ASSUME LegacyAssumption ==
  \A f \in Fleets, c \in Channels, mode \in {STD, EXPRESS} :
    VeryOld(f[c]) => f[c].duration[mode] = LEGACY_SAMPLE_DURATION

(***************************************************************************)
(* The motor.                                                              *)
(***************************************************************************)
DriveMotor(s, speed) ==
  CASE s.motorCtrl = "None" /\ s.bound = NoChannel -> {Out(s, "CRASH")}
    [] s.motorCtrl = "None" /\ s.bound # NoChannel ->
         {Out(IF s.bound \in Serial        \* by the line DTR
                THEN [s EXCEPT !.turning[s.bound] = speed > 0] ELSE s, "OK")}
    [] OTHER -> SendCommandWithoutResponse(s, Cmd("MOTOR", speed), TRUE)

SetMotorSpeed(s, speed) ==
  IF ~s.connected THEN {Out(s, "FAIL")}
  ELSE IF speed # DEFAULT_MOTOR_SPEED THEN DriveMotor(s, speed)
  ELSE Then(UncheckedNumber(s), LAMBDA o :
         UNION {DriveMotor(o.s, v) :
                  v \in IF o.ans = "OK" THEN Speeds ELSE {600}})

StartMotor(s) == SetMotorSpeed(s, DEFAULT_MOTOR_SPEED)

MotorSupport(s) ==
  LET l == lidars[s.bound]
  IN IF l.major >= 6 THEN {Out([s EXCEPT !.motorCtrl = "Rpm"], "OK")}
     ELSE IF l.major >= 2
       THEN IfOk(SendCommandWithResponse(s, "GET_ACC_BOARD_FLAG"), LAMBDA t :
              {Out(IF l.pwm THEN [t EXCEPT !.motorCtrl = "Pwm"] ELSE t, "OK")})
     ELSE {Out(s, "OK")}

\* mutated: what another lidar supported is kept until this one answers
CheckMotorCtrlSupport_Kept(s) ==
  IF ~s.connected THEN {Out(s, "FAIL")}
  ELSE IfOk(GetDeviceInfo(DisableDataGrabbing(s)), MotorSupport)

CheckMotorCtrlSupport(s) ==
  IF ~s.connected THEN {Out(s, "FAIL")}
  ELSE LET t == [DisableDataGrabbing(s) EXCEPT !.motorCtrl = "None"]
       IN IfOk(GetDeviceInfo(t), MotorSupport)

GetMotorInfo(s) ==
  IF ~s.connected THEN {Out(s, "FAIL")}
  ELSE IfOk(UncheckedNumber(s), LAMBDA t :
         IfOk(GetLidarConf(t), UncheckedNumber))

(***************************************************************************)
(* Connecting.                                                             *)
(***************************************************************************)
Connect(s, c) ==
  IF s.connected THEN {Out(s, "OK")}       \* SL_RESULT_ALREADY_DONE
  ELSE IfOk(OpenChannelAndBind(s, c), LAMBDA t :
         Then(CheckMotorCtrlSupport([t EXCEPT !.connected = TRUE]),
              LAMBDA o : {Out(o.s, "OK")}))

Disconnect(s) ==
  IF s.connected
    THEN [UnbindAndClose(DisableDataGrabbing(s)) EXCEPT !.connected = FALSE]
    ELSE s

(***************************************************************************)
(* Scanning.                                                               *)
(***************************************************************************)
Stop(s) ==
  IfOk(SendCommandWithoutResponse(s, Idle, FALSE), LAMBDA t :
    IF t.motorCtrl = "Pwm"
      THEN Then(SetMotorSpeed(t, 0), LAMBDA o : {Out(o.s, "OK")})
      ELSE {Out(t, "OK")})

\* the zeroed _cached_DevInfo belongs to no series with a baud rate
UpdateTimingDesc(s, duration) ==
  LET heard == s.info # NoChannel
      t == [s EXCEPT !.timing =
              [baud |-> IF heard THEN NativeBaudRate(lidars[s.info]) ELSE 0,
               duration |-> duration]]
  IN IF heard /\ ParseLIDARMajorType(lidars[s.info].major) = "S"
       THEN Then(GetDeviceMacAddr(t), LAMBDA o : {Out(o.s, "OK")})
       ELSE {Out(t, "OK")}

\* mutated: grabbing is enabled before the motor is started
Launch_EnableFirst(s, duration, cmd) ==
  Then(UpdateTimingDesc(s, duration), LAMBDA o :
    Then(StartMotor([o.s EXCEPT !.enabled = TRUE]), LAMBDA p :
      SendCommandWithoutResponse(p.s, cmd, TRUE)))

\* the end of both start functions
Launch(s, duration, cmd) ==
  Then(UpdateTimingDesc(s, duration), LAMBDA o :
    Then(StartMotor(o.s), LAMBDA p :
      SendCommandWithoutResponse([p.s EXCEPT !.enabled = TRUE], cmd, TRUE)))

StartScanNormal_commonpath(s) ==
  LET l == lidars[s.bound]
  IN IF SupportsConf(l)
       THEN IfOk(GetScanModeConf(s),
                 LAMBDA t : Launch(t, l.duration[STD], Cmd("SCAN", 0)))
       ELSE IfOk(GetLegacySampleDuration(s),
                 LAMBDA t : Launch(t, LegacyDuration(l, STD), Cmd("SCAN", 0)))

StartScanNormal(s) ==
  IF ~s.connected THEN {Out(s, "FAIL")}
  ELSE Then(Stop(s), LAMBDA o :
         IfOk(CheckSupportConfigCommands(o.s), StartScanNormal_commonpath))

\* only the standard mode answers with single measurements
ExpressScan(s, mode) ==
  LET l == lidars[s.bound]
  IN IF SupportsConf(l)
       THEN IfOk(GetScanModeConf(s), LAMBDA t :
              IF mode = STD THEN StartScanNormal(t)
              ELSE Launch(t, l.duration[mode], Cmd("EXPRESS_SCAN", mode)))
       ELSE IF mode = STD THEN StartScanNormal(s)
       ELSE IfOk(GetLegacySampleDuration(s), LAMBDA t :
              Launch(t, LegacyDuration(l, EXPRESS),
                     Cmd("EXPRESS_SCAN", IF mode = EXPRESS THEN 0 ELSE mode)))

StartScanExpress(s, mode) ==
  IF ~s.connected THEN {Out(s, "FAIL")}
  ELSE Then(Stop(s), LAMBDA o :
         IfOk(CheckSupportConfigCommands(o.s), LAMBDA t : ExpressScan(t, mode)))

GetTypicalScanMode(s) ==
  IF ~s.connected THEN {Out(s, "FAIL")}
  ELSE IfOk(CheckSupportConfigCommands(s), LAMBDA t :
         IF SupportsConf(lidars[t.bound]) THEN GetLidarConf(t)
         ELSE {Out(t, "OK")})

TypicalMode(l) == IF SupportsConf(l) THEN l.typical ELSE EXPRESS

StartScan(s, useTypicalScan) ==
  IF ~s.connected THEN {Out(s, "FAIL")}
  ELSE Then(Stop(s), LAMBDA o :
         IfOk(CheckSupportConfigCommands(o.s), LAMBDA t :
           IF useTypicalScan
             THEN IfOk(GetTypicalScanMode(t), LAMBDA u :
                    StartScanExpress(u, TypicalMode(lidars[u.bound])))
             ELSE StartScanNormal_commonpath(t)))

\* the count, then every mode; a second mode asks what the first one asked
GetAllSupportedScanModes(s) ==
  IF ~s.connected THEN {Out(s, "FAIL")}
  ELSE IfOk(CheckSupportConfigCommands(s), LAMBDA t :
         IF SupportsConf(lidars[t.bound])
           THEN IfOk(GetLidarConf(t), GetScanModeConf)
           ELSE {Out(t, "OK")})

(***************************************************************************)
(* Negotiation of the baud rate: the port is taken from the transceiver,   *)
(* opened, fed with magic bytes, and given back.                           *)
(***************************************************************************)
\* the lidar answered with the rate it measured
Confirm(s, c) ==
  IfOk(OpenChannelAndBind(s, c), LAMBDA t :
    SendCommandWithoutResponse(t, Cmd("NEW_BAUDRATE_CONFIRM", 0), FALSE))

\* mutated: the negotiation returns without the channel
GiveBack_Forgotten(s, c, ans) == {Out(s, ans)}

\* the port does not open, a write fails, or no rate comes (which is no error)
GiveBack(s, c, ans) ==
  Then(OpenChannelAndBind(s, c), LAMBDA o : {Out(o.s, ans)})

Negotiate(s, c) ==
  LET t == UnbindAndClose(s)
      opened == [t EXCEPT !.opened = TRUE]
  IN GiveBack([t EXCEPT !.opened = FALSE], c, "FAIL")
       \union GiveBack(opened, c, "FAIL")
       \union GiveBack(opened, c, "OK")
       \union Confirm(opened, c)

NegotiateSerialBaudRate(s) ==
  Then(Stop(s), LAMBDA o :
    IF o.s.bound \in Serial THEN Negotiate(o.s, o.s.bound)
    ELSE {Out(o.s, "FAIL")})

(***************************************************************************)
(* Requests that keep nothing: reset, health, addresses, the alias.        *)
(***************************************************************************)
Reset(s) == SendCommandWithoutResponse(s, Cmd("RESET", 0), FALSE)

GetHealth(s) ==
  IF ~s.connected THEN {Out(s, "FAIL")}
  ELSE SendCommandWithResponse(s, "GET_DEVICE_HEALTH")

SetLidarIpConf(s) ==
  IF ~s.connected THEN {Out(s, "FAIL")}
  ELSE SendCommandWithResponse(s, "SET_LIDAR_CONF")

GetLidarIpConf(s) ==
  IF ~s.connected THEN {Out(s, "FAIL")} ELSE GetLidarConf(s)

\* without an alias the name is made from the cached model
GetModelNameDescriptionString(s, fetchAliasName) ==
  IF fetchAliasName
    THEN Then(GetLidarConf(s), LAMBDA o : {Out(o.s, "OK")})
    ELSE {Out(s, "OK")}

\* the caller's variable takes the answer, not _isSupportingMotorCtrl
AskMotorCtrlSupport(s) ==
  Then(CheckMotorCtrlSupport(s),
       LAMBDA o : {Out([o.s EXCEPT !.motorCtrl = s.motorCtrl], o.ans)})

(***************************************************************************)
(* Construction and destruction.                                           *)
(***************************************************************************)
Fresh(s) ==
  [s EXCEPT !.alive = FALSE, !.connected = FALSE, !.bound = NoChannel,
            !.motorCtrl = "None", !.info = NoChannel, !.enabled = FALSE,
            !.timing = [baud |-> 0, duration |-> 0], !.opened = TRUE,
            !.last = "STOP"]

CreateLidarDriver(s) == [s EXCEPT !.alive = TRUE]

\* ~SlamtecLidarDriver
Delete(s) == Fresh(Disconnect(s))

LidarNode(s, c) ==
  IfOk(Connect(CreateLidarDriver(s), c), LAMBDA t :
    Then(SetMotorSpeed(t, DEFAULT_MOTOR_SPEED), LAMBDA o :
      Then(StartScan(o.s, TRUE), LAMBDA p : {Out(p.s, "OK")})))

LidarNodeDestructor(s) ==
  Then(Stop(s), LAMBDA o :
    Then(SetMotorSpeed(o.s, 0), LAMBDA p : {Out(Delete(p.s), "OK")}))

(***************************************************************************)
(* Behaviours.                                                             *)
(***************************************************************************)
Init ==
  /\ lidars \in Fleets
  /\ sys = [alive |-> FALSE, connected |-> FALSE, bound |-> NoChannel,
            motorCtrl |-> "None", info |-> NoChannel, enabled |-> FALSE,
            timing |-> [baud |-> 0, duration |-> 0], opened |-> TRUE,
            last |-> "STOP", scanning |-> [c \in Channels |-> Idle],
            turning |-> [c \in Channels |-> FALSE]]
  /\ call = [op |-> "other", ans |-> "OK"]

Return(op, outcomes) ==
  /\ call.ans # "CRASH"
  /\ \E o \in outcomes : sys' = o.s /\ call' = [op |-> op, ans |-> o.ans]
  /\ UNCHANGED lidars

Lifetime ==
  \/ ~sys.alive /\ Return("other", {Out(CreateLidarDriver(sys), "OK")})
  \/ ~sys.alive /\ \E c \in Channels : Return("other", LidarNode(sys, c))
  \/ sys.alive /\ Return("other", {Out(Delete(sys), "OK")})
  \/ sys.alive /\ Return("other", LidarNodeDestructor(sys))

Connection ==
  \/ \E c \in Channels : Return("connect", Connect(sys, c))
  \/ Return("other", {Out(Disconnect(sys), "OK")})
  \/ Return("other", NegotiateSerialBaudRate(sys))

Scanning ==
  \/ \E typical \in BOOLEAN : Return("startScan", StartScan(sys, typical))
  \/ \E mode \in Modes : Return("startScan", StartScanExpress(sys, mode))
  \/ Return("other", Stop(sys))
  \/ Return("other", Reset(sys))

Motor ==
  \/ \E v \in Speeds \union {DEFAULT_MOTOR_SPEED} :
       Return("other", SetMotorSpeed(sys, v))
  \/ Return("other", GetMotorInfo(sys))
  \/ Return("other", AskMotorCtrlSupport(sys))

Asking ==
  \/ Return("other", GetDeviceInfo(sys))
  \/ Return("other", GetHealth(sys))
  \/ Return("other", SetLidarIpConf(sys))
  \/ Return("other", GetLidarIpConf(sys))
  \/ Return("other", GetDeviceMacAddr(sys))
  \/ Return("other", GetTypicalScanMode(sys))
  \/ Return("other", GetAllSupportedScanModes(sys))
  \/ \E alias \in BOOLEAN :
       Return("other", GetModelNameDescriptionString(sys, alias))

Next ==
  \/ Lifetime
  \/ sys.alive /\ (Connection \/ Scanning \/ Motor \/ Asking)

Spec == Init /\ [][Next]_vars

(***************************************************************************)
(* Properties.                                                             *)
(***************************************************************************)
\* The time the lidar takes for a sample in what it was told to do.
RunningDuration(l, cmd) ==
  l.duration[IF cmd.op = "SCAN" THEN STD
             ELSE IF SupportsConf(l) THEN cmd.arg ELSE EXPRESS]

\* grabbing, scanning, and decoding with the timing of that scan
AsReported(s) ==
  LET l == lidars[s.bound]
      cmd == s.scanning[s.bound]
  IN /\ s.enabled
     /\ cmd.op \in {"SCAN", "EXPRESS_SCAN"}
     /\ s.timing = [baud |-> NativeBaudRate(l),
                    duration |-> RunningDuration(l, cmd)]

\* A start that reports success leaves the driver grabbing, the lidar
\* scanning, and the unpackers with the timing of this lidar in this mode:
\* no request made on the way (startMotor, the MAC address) ends the grabbing
\* again, and no answer cached from another lidar or another mode is used.
ScanAsReported ==
  (call = [op |-> "startScan", ans |-> "OK"]) => AsReported(sys)

\* While samples are grabbed the last command handed over, but for the
\* motor's, was one that starts a scan: every request, and every call that
\* fails before its scan command, ends the grabbing, so that no answer is
\* waited for while the codec is still in loop mode.
GrabbingOnlyForScan ==
  sys.enabled => sys.last \in {"SCAN", "EXPRESS_SCAN"}

\* The motor is controlled in the way this lidar knows, whichever lidars the
\* driver was connected to before and whichever of its questions failed.
MotorControlOfThisLidar ==
  (sys.connected /\ sys.bound # NoChannel) =>
    \/ sys.motorCtrl = "None"
    \/ sys.motorCtrl = "Rpm" /\ lidars[sys.bound].major >= 6
    \/ sys.motorCtrl = "Pwm" /\ lidars[sys.bound].pwm

\* A negotiation gives the channel back on every path: a connected driver
\* is without a channel only if the port itself did not open the last time.
ChannelGivenBack == (sys.connected /\ sys.opened) => sys.bound # NoChannel

\* isConnected() tells whether the connection is established
\* (include/sl_lidar_driver.h:325).
ConnectedMeansBound == sys.connected => sys.bound # NoChannel
=============================================================================
