# A verification development of the Aqua-Vector control station

This directory holds TLA+ models of the control station's software (the C++
program under `src/`), the TLC configurations that check them, and theorems
about them that TLAPS proves. It is kept beside the code: every definition of a
model names, in `PROJECT.json` under `map`, the lines it stands for.

Contents: [1 The system](#1-the-system) - [2 The models](#2-the-models) -
[3 What the runs show](#3-what-the-runs-show) - [4 Fairness](#4-fairness) -
[5 What is proved](#5-what-is-proved) - [6 Disagreements found](#6-disagreements-found) -
[7 What is not modelled](#7-what-is-not-modelled) - [8 Plan](#8-plan) -
[9 Conventions](#9-conventions)

## 1 The system

The station is one Linux process on a ZYBO board. It guides a torpedo: it
follows it with a lidar, receives its status over a serial line, takes commands
from an operator's laptop over TCP and UDP, and every control cycle sends one
downlink packet with the mode, the rudder angle, the target and the position.
`main` (`src/src/main.cpp`) constructs the nodes in a fixed order (lidar and its
calibration, the torpedo's UART, the GUI's UART, servo, control law and planner,
network), starts eight threads, detaches one and joins the others. Below the
first-party code lies a Slamtec RPLidar SDK that is compiled into the program and
has two threads of its own.

### 1.1 Components

| component | state it keeps | operations | talks to |
|---|---|---|---|
| shared state, T1-T8 (`main.cpp`) | atomics for target, lidar fix, mode; `current_torpedo_state` and the obstacle points under `mtx`; T5's latch and rate limiter | one loop per thread | every node |
| `UartNode` | a non-blocking serial port | `sendDownlink`, `receiveUplinkStatus`, GUI packets | torpedo, GUI |
| `NetworkNode` | UDP sockets, a TCP listener, `tcp_client_fd` | `acceptTcpClient` (T6), `receiveCommandTCP` (T3), `receiveTargetUDP` (T7), `sendGuiPacketUDP` (T4) | GUI laptop |
| `LidarNode` | background points, last clusters | construction, calibration, `processLidarFrame` (T1) | SDK driver |
| `AStarPlanner` | a path under `path_mtx` | `computePath` (T8), `getNextWaypointY` (T5) | - |
| `LatencyAwareCtrl` | filter memory | `compute` (T5) | - |
| `ServoNode` | PWM file in sysfs | `setAngle` (T3) | kernel |
| SDK driver: calls | connection, motor control, timing, cached device info | connect, start and stop a scan, motor, queries, baud rate | requests, holder |
| SDK driver: requests | the waiter's pending answer | send, wait, take; the decoder's callback | codec, transceiver |
| SDK driver: scan holder | two buffers, an event | push, grab, reset | unpackers, `LidarNode` |
| SDK codec | decoder state, the message under way | bytes into messages, requests into bytes | driver |
| SDK transceiver | receive queue, two threads, working flag | open, close, send | channel, codec |
| SDK unpackers | active handler; position, previous capsule | capsules into samples | driver |
| SDK HAL and channels | events, locks, serial port, sockets | wait, signal, select, read | kernel |

`PROJECT.json` lists the components, with the files of each, and says of each
whether it is modelled.

### 1.2 How they interact

- **Shared atomics.** T3 and T7 store a target as two atomics; T1 stores a fix as
  three; T5 and T8 load them one by one. T3 stores `is_launched` and
  `is_terminal_guidance`; T5 loads them at the head of a cycle.
- **`mtx`.** T2 replaces `current_torpedo_state`, T5 copies it; T1 and T4 use it
  for the points the GUI shows. Sections are short and call nothing that locks.
- **A plain int.** T6 closes and replaces `tcp_client_fd` while T3 receives on it.
- **Callbacks.** The transceiver's decoder thread calls the codec, which calls the
  driver, which stores an answer under `_data_locker` or pushes a sample into the
  scan holder under the holder's lock, and signals an auto-reset event. The thread
  that called the driver waits for the event with `_op_locker` held.
- **Shutdown.** A signal handler clears `system_running`; every thread looks at it
  at the head of its loop; `main` joins all but T6.

### 1.3 What is hard in it, and what makes each component correct

| component | hard behaviour | what has to hold |
|---|---|---|
| control loop T5 | commands and poses change between the head of a cycle and its packet; the latch, the limiter's memory and the last guard act in one cycle after another | a mode change takes effect within one cycle; after a stop nothing else; every angle within the limit; a lost fix is withdrawn |
| planner T8 | four loads spread in time; validity never cleared | the path ends up at the last target |
| uplink T2 | lost bytes, sync bytes inside a body, reads that return less, a port that breaks | statuses are whole packets in order; silence is reported; T2 can be joined |
| TCP T3/T6 | partial `recv()`, a client replaced in the middle of a command, clients that stop | commands executed whole, once and in order; of one client; a poll returns |
| scan holder | the decoder completes, swaps, rewinds between the event and the copy; a restart between two scans | a grab returns one complete scan with its own time |
| requests to the lidar | timeouts with late answers, two locks in two orders, a type compared outside the lock | an answer belongs to its request; no deadlock |
| transceiver, codec | closing while both threads work; a reset in the middle of a message; lost bytes in a header | messages whole and in order; nothing of an earlier session; both threads end |
| unpackers | a capsule is paired with the one before it, across losses and restarts, and the caller's reset takes no lock | no sample is made of two capsules between which another was heard; publication resumes |
| decoding, tracking, steering | wraps at 360 degrees, unsigned products, made-up angles, runs of points across 0, rounding before a dead zone | a turn is marked once; readings keep their angles; the object in the room is found; the steering settles |
| calls of the driver | up to ten requests in one call, each of which ends the grabbing; a second connection after one that failed | a start that succeeds is a scan; nothing known of one lidar is used for another; a channel taken is given back |
| start and shutdown | T6 runs on while static nodes are destroyed | no thread uses a node before or after its life |

The hazards these give rise to are listed one by one, with the line where each
bites and the properties that watch it, in `PROJECT.json` under `hazards`.

## 2 The models

Each model has one module for the component, an `MC` module with the sets its runs
use, and, where there are theorems, a `...Proofs` module that extends it.

| module | of | composes |
|---|---|---|
| `ControlStation`, `DownlinkStream` | the station's threads; what the torpedo may rely on | `ControlStation` implements `DownlinkStream` |
| `Uplink` | `receiveUplinkStatus`, T2 | |
| `TcpCommand` | T3, T6 | |
| `LidarLink` | serial port, transceiver, codec | |
| `Unpackers` | `SampleDataUnpacker` and its handlers | |
| `DriverParameters` | constants of the driver's parts | |
| `ScanHolder`, `ScanFeed` | scan holder; what a grab may rely on | `ScanHolder` implements `ScanFeed` |
| `DriverCommands` | requests and answers | |
| `LidarDriver` | the driver at work | `ScanHolder` and `DriverCommands` share a caller and a decoder |
| `DriverOperations` | the calls of the driver, `LidarNode`'s life | |
| `SampleDecoding`, `LidarTracking`, `Steering`, `Integrity` | pure algorithms | |
| `Algorithms` | them, on inputs | the four modules above |

### 2.1 `ControlStation` (T1, T2, T3, T5, T7, T8, the signal handler)

One step is one access to a shared variable. The atomics are `tar`, `fix`,
`launched`, `terminal`, `astar_valid`, `running`, each stored and loaded where the
code stores and loads it; a section of `mtx` is one step. `pc[t]` is where thread
`t` stands, named after what it does next. T5's cycle is the actions `CtlMode` ...
`CtlSend`: the latch is looked at before the terminal flag, the fix is loaded
before the target in midcourse and after it once arrived, the validity flag is
loaded once per field (in an order C++ leaves to the compiler), and `CtlSteer`
stores `last_steer` before the guard that may zero the angle.

Abstracted: coordinates are integers (the code's are floats, compared with
tolerances only); the steering law (2.9) asks for any angle of `Requests`; the path
is its two end points. Not abstracted: saturation, rate limiter and guard, the
counter's width (`SeqMod`), the order of all accesses. The memory order of the
atomics is the default, sequentially consistent one in the code, so interleaving
is enough.

`commanded`, `stale` and `late` are history variables; the last two saturate at
`CountCap` = 2, for the properties have only to tell one from more.

**`DownlinkStream`** is the abstract specification: what the torpedo may rely on,
a stream of packets numbered without gaps, with angles within the limit and zero
outside midcourse, and nothing but stops after a stop. `ControlStation` implements
it with `next`, `mode` and `steer` read off `downlink_seq` and `downlink`.

### 2.2 `Uplink` (T2, `receiveUplinkStatus`, the line, the torpedo)

A byte is `[pkt, pos]`; what it looks like to the receiver is `Value`, so a body
can hold bytes that look like sync bytes, one after the other too (`LooksSync1`,
`LooksSync2`). The torpedo and the line are external:
bytes arrive in order, some are lost, the port may break. T2's poll is three
states, one per `read()`: both sync reads fail the poll when nothing is there, the
body's loop retries. The checksum is ideal (it accepts a body sent and nothing
else). The fail count, its report and its restart at `FailResume` are T2's.

### 2.3 `TcpCommand` (T3, T6, clients)

A byte is `[conn, no, part]`; header and payload have several, so short reads happen,
and bytes of the parts `LooksSync` have the value of the sync byte, so T3 may take them
for one when it hunts through what a short read left. `Following` says which byte a
client writes next. T6 is three steps (accept, close the
old descriptor, store the new one); T3 is the non-blocking read of the sync byte
and, for header and payload, a call (which loads `tcp_client_fd`) and a return: a
call in progress keeps its connection although T6 closes the descriptor. What a
command does is in `ControlStation`; here it is `Execute`, with the bytes the
command was put together from. The history variable `cut` has the connections on which
a `recv()` fell short. Descriptor numbers are not reused in the model: the
number stands for the connection it was opened for.

### 2.4 `ScanHolder` (`ScanDataHolder`, `grabScanDataHq`, the reset of `startScan`)

Each operation under the holder's lock is a step; `GrabCall`, `GrabWake` and
`GrabCopy` are apart, for the decoder runs between them. The event is a flag that
a wait takes (`Event::wait` looks at it once before it sleeps and not after).
`Spurious` says whether the condition variable may wake for nothing, which POSIX
allows. A push is four actions by the kind of sample and the state of the buffer.

**`ScanFeed`** is the abstract specification: a scan under way, the newest complete
one, and a number of grabs it can still satisfy. The holder implements it with
`credit` = pending signal + woken grab.

### 2.5 `DriverCommands` (`_sendCommandWithResponse`, `_sendCommandWithoutResponse`, `onProtocolMessageDecoded`, the codec's lock)

The caller names the type it waits for, clears the event, sends, waits, and takes
the answer; the decoder's thread decodes, compares the type (without the lock),
stores and signals. The two locks are `_data_locker` and the codec's own; the
decoder releases the second around its callback (`sl_lidarprotocol_codec.cpp:220`)
and the caller takes it while it holds the first. The device answers at most once.

What the codec makes of the bytes between two answers is in `LidarLink`; a reset in
the middle of an answer loses it, and a reset while a decoded answer is copied
spoils the copy (`whole` is false): the code frees the message that is being
copied. Types of two packets are model values, so that a late answer can be of the
type the next request waits for, or of another.

`ScanHolder` and `DriverCommands` take their constants from `DriverParameters`, so
that `LidarDriver` can instantiate both.

### 2.6 `LidarDriver` (`startScan`, `grabScanDataHq` and requests together)

The holder and the requests are instances over one set of variables. What connects
them are three: whether grabbing is enabled, whether the decoder's thread is inside
the unpacker (it looked at the flag once, before it went in), and where a start of a
scan stands: stop, ask, motor, reset, enable, send. A start resets the holder with
nothing that would keep the decoder's thread from still pushing samples of the scan
before; `NoScanAcrossStarts` says that it never does, and why is not in any one
function: the start makes a request that has to be answered, the answer comes through
the same thread, and grabbing was disabled before the request was sent. The mutated
start that does not ask shows that this is what it hangs on.

### 2.7 `LidarLink` (serial port, transceiver, codec)

The device's bytes are a script, each with the message it belongs to. The line may
lose some, the port may fail, and a caller opens and closes the transceiver and resets
the codec. The rx thread waits, reads and pushes in separate steps, for the wait says
how many bytes there are and the read takes them later; the decoder's thread pops a
buffer under `_rxLocker`, feeds the codec byte by byte and calls the listener without
the codec's lock. The event is set by a push and by close. The codec is the machine of
`onDecodeData` with its loop mode. It knows a sync byte by its value, as the code does
(`sl_lidarprotocol_codec.cpp:155`, `162`): bytes of any kind may have the value 0xA5 or
0x5A (`HasSync1`, `HasSync2`), and a codec that hunts in the middle of a message locks on
them. A size field that is not the device's own, because bytes were lost or the codec
locked on a payload, may say any size of `Lens`. The history variable `inStep` tells a
codec that has locked on a header since its reset from one that has not. Requests,
checksums and the contents of
payloads are elsewhere.

### 2.8 `Unpackers` (`dataunpacker.cpp`, the six handlers)

A byte is `[s, c, i]`: scan, capsule, position. The handlers are one machine, and the
records `NormalNode` ... `UltraDenseCapsuleNode` name where they differ: the sync
marks, whether there is a checksum, whether samples need the capsule before, whether
`reset()` forgets that there is one (the dense handlers' does not), and whether a pair
too far apart is dropped. The line loses bursts of bytes, which shifts the frames
inside the payloads. `disable()` and `reset()` take no lock, so each of their
assignments is a step between the decoder's: the handler pointer can be null when it
is called (`crashed`), and a reset can be overwritten by a position loaded before it.
The history variable `missing` has the bytes that were lost; with it `PairsAdjacent`
says of every publication that all between the two capsules it joins is lost.

### 2.9 `SampleDecoding`, `LidarTracking`, `Steering`, `Integrity`, `Algorithms`

Operators, in integers. `SampleDecoding` has the arithmetic of the capsule handlers in
the code's fixed-point formats, with 32-bit unsigned products where the code has them;
`LidarTracking` goes from `ascendScanData` over preprocessing, calibration and the
background filter to the clusters and the torpedo's position, with sines from a table
in thousandths, its loops over points as recursive functions on the place in the scan; `Steering` has the planner's path and waypoint and the control law
with its filters; `Integrity` the requests' encoder with its checksum, the CRC-32 of
the HQ capsules (table, padding) and the CRC-16 of the packets, on bytes as sets of
bits. `Algorithms` makes behaviours of them: a lidar that turns capsule by capsule, a
room that is calibrated scan by scan and then watched, a control law that is given a
steady error for `MaxPeriods` periods; the other cases are inputs without steps. Of the
turning lidar it keeps what is measured between the marks (`FromMark`): the way since
the last mark (`since`), the turns that ended in the last capsule (`gaps`), and the
width of the sample that was marked (`markStep`). Of the room that is watched it keeps
all points the calibration saw (`seen`) beside those it kept (`background`), and the
readings of the object in the room apart from the others. `SettlingPeriods` = 60 periods
(0.6 s) are what the slowest of the three filters needs.

### 2.10 `DriverOperations` (the calls of `SlamtecLidarDriver`, `LidarNode`'s life)

Every call holds `_op_locker` to its end and so is one step; its definition is the set
of its outcomes, each a state and a result, put together with `Then` (whatever the
result) and `IfOk` (early return) in the order of the code. A port opens or not, a
write succeeds or not, an answer is right or not, at every place where the code asks.
A write that succeeds reaches the lidar. Each channel has a lidar of another
generation at its end, because what the driver does depends on it. Two calls read a
number out of an answer without looking at its size (`UncheckedNumber`): the process
may die there.

## 3 What the runs show

| run | question | instance | result |
|---|---|---|---|
| `station` | can commands, poses, fixes, targets and the loops, in any order, send a torpedo a stale mode or a lost position, wake it after a stop, or give it an angle past the limit; does the planner miss a target? | angles -9 and 9 against a limit of 2 and a step of 1; a pose in the straight zone with counter 0 and one outside it; a second target; a fix that is found and lost; `SeqMod` = 2; fairness | one stale packet, and one late one, at most (`AtMostOneStalePacket`, `AtMostOneLatePacket`); no (`TypeOK`, `StopIsFinal`, `ImplementsStream`, `PathFollowsTarget`) |
| `station_torn_target` | is the arrival judged on a target somebody set? | two targets that differ in both coordinates | **no**: half of each (`ArrivalOnCommandedTarget` violated) |
| `uplink_line` | does a lossy line, or a body that looks like a packet, mislead the receiver, and a silent one go unnoticed? | three packets of two sync bytes and three others that look like first, second, first sync byte; up to two bytes lost; a queue of five | statuses are whole and in order (`StatusesInOrder`); silence is reported and a signal obeyed unless T2 waits in a body, which takes a lost byte or a body taken for a packet (`SilenceIsReported`, `StopsOnSignal`) |
| `uplink_truncated` | can silence go unreported? | one packet, one byte lost | **yes**: T2 waits for the rest for ever (`LinkLossIsReported` violated) |
| `tcp_clients` | do cut streams, or a new client, make T3 execute what nobody sent? | two connections, each a target command and a simple one, with headers of two bytes and payloads of three and two, one of them 0xBB; every byte may arrive alone; clients may stop anywhere | no byte is executed twice or out of order, and what does not begin with a command began in a rest that a short read left (`ExecutedInOrder`); a replaced client takes part in one more command at most (`ReplacedClientActsOnce`); a poll ends unless a client stops within a command (`PollReturns`) |
| `lidar_driver` | is a grab one scan, does a request return another's answer, do they hang, and what does a start leave of the scan before? | buffers of two samples, four samples; two requests of two types, losses, timeouts, failed sends, commands, starts | a grab is one scan (`GrabbedIsOneScan`, `ImplementsFeed`); an answer is never an older one, and its own unless a request timed out (`AnswerIsCurrent`, `OwnAnswerUnlessLate`); no hang (`CallReturns`); nothing is left (`NoScanAcrossStarts`) |
| `lidar_link` | do messages survive losses, resets and reopening, and does the link close? | an answer of two bytes, A5 5A, and a stream of two payloads of one; one byte lost; two sessions; two bytes between port and codec | in order always (`BytesInOrder`), whole if nothing is lost and the codec has found a header since its reset (`MessagesWhole`), never of an earlier session (`NothingFromBefore`); close returns (`CloseReturns`), no buffer stays (`QueueDrains`) |
| `unpackers` | can samples be made of capsules that do not belong together, and does a handler find its place again? | two scans of four capsules of three bytes, with a pairing handler or a dense one, and one scan each with two that do not pair; two bursts of one or two bytes | no, but for a dense handler that a stop has reset (`PairsAdjacent`); at the third whole capsule (`Resyncs`) |
| `algorithms` | do the pure parts do what they are for? | chosen inputs, 3.1 | yes, but for scans as the driver promises them, where `TurnMarkedOnce` and `SampleValues` say how far off marks and times can be (`AscendKeepsReadings`, `TargetIsTheObject`, `BytesAreChecked`, `WaypointAhead`, `SteeringSettles`) |
| `scan_promises` | is a scan the samples of one turn, and its time right? | an ultra dense lidar that slows down where a turn ends | **no**: a turn marked again, a time 71 minutes early (`ScanAsPromised` violated) |
| `driver_operations` | what do the calls leave behind when any step of them fails? | a serial port and a network channel with lidars of four generations, two at a time; two modes | a start that succeeds is a scan with its own timing (`ScanAsReported`), requests end the grabbing (`GrabbingOnlyForScan`), the motor is driven as this lidar knows (`MotorControlOfThisLidar`), a negotiation gives its channel back (`ChannelGivenBack`) |
| `driver_connect` | is a driver that says it is connected? | the same | **no**: a port that does not open counts (`ConnectedMeansBound` violated) |

### 3.1 Bounds, and why they are enough

- **Station.** Nothing in the loop counts further than the last packet, so the
  state is finite without bounds on time; what is bounded are the inputs. The
  limiter's memory takes every value from -2 to 2, so a step of 1 needs several
  cycles to the limit and passes every state between. `SeqMod` = 2 wraps every
  other packet. Two coordinates suffice for tearing: a torn target differs from
  both. Everything at once is too many states, so the run `station` has an action
  constraint, `Apart`: a behaviour is about a second target, or a track of the lidar (any
  number of them, one after the other), or poses of the uplink; planning goes on and on
  beside the target, and stops after its first path beside the other two; and the threads
  leave in one order, which nothing can tell from another. What it leaves out is covered
  by the theorems of section 5, which hold of the unrestricted specification and of all
  inputs at once.
- **Uplink.** Three packets are the fewest in which a frame can be put together
  from two and be followed by a whole one; a body of three bytes that look like AA 55 AA
  begins like a packet, and its end and the next packet's second byte look like one too, so
  T2 can lock inside a body after a loss and, when a second sync byte is only late
  (`UartNode.cpp:184`), after none; the queue is shorter than two packets,
  so it overflows; two losses can hit two packets or one twice. `FailLimit` = 3 and
  `FailResume` = 1 keep the code's order 0 < 80 < 100.
- **TCP.** Two connections make one replacement; what is left of a replaced client
  is gone after one command, which the counter `strays` shows. A third would repeat
  it. A payload byte of the value 0xBB has bytes after it in its command and in the next,
  so what a short read leaves can be executed as a command. Commands of two lengths tell
  apart a payload read with the wrong length.
- **Driver.** Two samples overflow a buffer at the third; four make two scans, one to
  hand over while the next is filled. Two requests make one that is late for the
  other. The parts have theorems for all sizes (section 5); the run is about their
  composition.
- **Link.** One message of each kind, and a loop mode that repeats; the answer's payload is
  A5 5A, so a codec that is opened after its header locks on it, and takes the stream's
  header for the rest of a message; a size field of
  one byte is read in one state as four are; a backlog of two makes buffers of one
  and two bytes, a queue that is not empty when the link closes, and a header cut
  between buffers. Two sessions make one reopening.
- **Unpackers.** Marks at two positions and one byte without: a shifted frame passes
  or fails at each. Two bursts of one or two bytes can shift the frames, shift them
  back, or take a whole capsule together (no shift, but a gap); four capsules are two to
  pair before a loss or after one, and are more than the gap that a dense handler takes
  for a neighbour (`MaxGap` = 2). The two scans meet the
  handler's state of the first in the second.
- **Algorithms.** The turning lidar makes `MaxCapsules` = 16 capsules, three turns, at
  two speeds in any order that are nearly the fastest a dense handler takes, started where
  a capsule ends at exactly 0 a turn after a mark, and between the steps of the two speeds
  just after one (`scan_promises`: the latter alone); all codes of the compressed distances
  that can occur and all fields of the near scale; 16 readings a scan with arcs of
  objects across 0 and not, noise, lost readings; all lengths of a block modulo four,
  with bursts of 1 to 32 bits from three places on, in the order of the CRC-32 and
  mirrored, in that of the CRC-16; payloads on both sides of 256; 0.8 s of steering from
  the states at its limits. None of them bounds what is proved (section 5).
- **Calls.** Four lidars: very old, with an accessory board, C series, S series: each
  takes other branches. Two channels tell what is kept from one to the other. A call
  is the only step, so any sequence of calls is checked; the state is finite by itself.

`CHECK_DEADLOCK FALSE` is set where the system really stops: the torpedo has sent
its packets and T2 has left (`uplink_*`), the clients have sent theirs and T3 has
left (`tcp_clients`), the device has sent its script (`lidar_link`, `unpackers`), the
decoder's thread called a null handler (`unpackers`) or a call killed the process
(`driver_*`), an input has no step or no more (`algorithms`). The station's runs have a
stuttering `Joined` for the joined process, so that every other standstill is
reported, and `lidar_driver` may not stop at all.

## 4 Fairness

The threads are `std::thread`s and pthreads under a preemptive scheduler and are
never starved, so each thread's own steps are weakly fair where a liveness property
needs them. The environment owes nothing, except what is named here:

| specification | weakly fair | why |
|---|---|---|
| `ControlStation!FairSpec` | T5, T8, and the second store of a command begun | periodic loops that block on nothing; two stores in a row |
| `Uplink!FairSpec` | T2 | polls every 5 ms |
| `TcpCommand!FairSpec` | T3, T6 | threads |
| `DriverCommands!FairSpec`, `LidarDriver!FairSpec` | the caller within a call, the decoder's thread | the caller's wait has a finite timeout, so it is a step that can always be taken; a message of samples has an end |
| `LidarLink!FairSpec` | both threads, the caller within close | their waits have timeouts or are woken by close |

No specification assumes that a command or the rest of one, a pose, a fix, a byte of the
torpedo or of the lidar, or an answer ever arrives: a poll, or a stop, that waits for one
is in the property (`Blocked`, `AwaitsBody`). `CallReturns` is about the locks: that a
wait ends is given by its timeout.

## 5 What is proved

All theorems hold for every value of the constants that satisfies the modules'
named assumptions (`CoordAssumption`, `SteerAssumption`, `SeqAssumption`,
`ToleranceAssumption`, `NaNAssumption`, `PacketAssumption`; `HolderAssumption`;
`CommandAssumption`; `UplinkAssumption`; `LinkAssumption`, `DeviceAssumption`;
`UnpackersAssumption`; `OperationsAssumption`, `LegacyAssumption`;
`AlgorithmsAssumption`), which TLC evaluates in the runs. Most give the constants their
types. Those that say more: `DeviceAssumption`, that the lidar sends after a header
the size, the type and the payload it announced, of bytes of any value, and then the next
header (or, in loop mode, the next payload); `LegacyAssumption`, below; and
`AlgorithmsAssumption`:

- no lidar turns so fast that the dense handlers drop one of its capsules;
- a cluster has three points at least (`MIN_CLUSTER_POINTS` is 3), and the table of sines
  has integers in it (no more is asked of it);
- no block is longer than the 16 bits in which `cal` is told its length (`Longest`), and
  what arrives of a block is as long as it was;
- the steering was left with its angles within 45 degrees and a rate of y within
  `FastestRate` = 300 mm/s, twice the torpedo's velocity, and it is watched for
  `SettlingPeriods` or longer.

The theorems about the driver are under `Spurious = FALSE` besides: a
wakeup for nothing makes a grab copy a scan that is not there (section 6).

**`ControlStationProofs`.** `TypeCorrect` proves the type invariant. `Invariance`
proves `IInv`, which has five parts, each needed because the property it serves is
not inductive alone:

- `Latch`: a stop was sent only after the latch was set, and with the latch set T5
  stands on none of the other branches. `StopIsFinal` speaks of two packets; between
  them T5 must be kept off the midcourse and terminal branches.
- `Rudder`: T5 holds an angle only between computing and sending it, which is why
  terminal and stop packets have none.
- `Limits`: `last_steer` and the angle about to be sent are within the limit. The
  limiter runs after the saturation; that it cannot leave the limit again is lemma
  `LimitedSteerBounds`: it moves from a value within it towards another within it.
- `Fresh`: while the cycle under way disagrees with the terminal flag, no stale
  packet has been sent; so the count is 0 when the one that may still be is sent.
- `Withdrawn`: the same for a position whose validity was loaded before the loss.

Lemma `OtherSteps` says once what all the steps of other threads can do to T5; the
proof of each part then has one step per action of T5. `StalePackets`,
`LatePackets` and `StopFinal` follow, and `StreamImplemented`: every step is a step
of `DownlinkStream` or leaves its variables alone.

**`LidarDriverProofs`**, of the driver and of the two systems it is composed of, which
have their own specifications (`Holder!Spec`, `Requests!Spec`).

- The holder. `HolderInvariance`: the buffer being filled holds the samples from the
  last sync to the newest (`Filling`), the other one a complete scan with its own time
  (`Complete`), a pending wakeup has a scan to find (`Pending`), and what was delivered
  stays a scan (`Delivered`). `HolderGrabs`, `HolderWoken` (the assertion of
  `sl_lidar_driver.cpp:322`) and `HolderFeed` (the holder implements `ScanFeed`) follow,
  for any buffer size and any number of samples.
- The requests. `AnswerInvariance`: who holds which lock (`Calls`), that a signal a call
  can take announces an answer stored during the call (`Current`), and that, while
  nothing timed out, the one answer about is the current request's (`InTime`).
  `RequestsCurrent` and `RequestsOwn` follow, for any types and any number of requests.
- The driver. `StartsSeparate` proves `NoScanAcrossStarts`. The property says nothing
  of the request that makes it true, so the invariant does: from its stop to its reset a
  start has grabbing disabled (`Disabled`); while it asks, the signal that announces an
  answer was given by a decoder's thread that has left the unpacker (`Answered`); after
  the answer nobody is in it (`Flushed`). `HolderImplemented` and `RequestsImplemented`
  prove that every step of the driver is a step of the holder, or of the requests, or
  leaves them alone. With them the theorems of the two parts hold of the driver at work:
  `GrabsWhole`, `FeedKept`, `AnswersCurrent` and `AnswersOwn` state what the run
  `lidar_driver` checks.

**`LidarLinkProofs`.** `TypeCorrect`, with the codec's payload never longer than
announced (`CodecShape`). `NothingStale`: bytes of an earlier session are nowhere past
the port because the threads that could hold them have ended when the port is opened
(`Life`), so all bytes between port and codec are of the session (`Current`).
`OrderKept`: each buffer on the way is increasing and all before those further from the
codec: the port and the reader's buffer, which is a copy of the port's head until the
read takes it (`PortOrder`), the queue (`QueueOrder`), and the buffer under way, the
payload received so far and the last message (`CodecOrder`). `WholeMessages` proves
`MessagesWhole`: while nothing is lost, no byte is missing between those that wait for
the codec and the one the device sends next (`Gapless`); and once the codec has locked on a
header, what its state says of the byte it took last is what the device says of it
(`InPlace`: which header it belongs to, how much of the size or the payload was received,
whether it loops), until it is reset, because where a message ends the next byte is a
header's. Before that it may have locked on any two bytes, and the theorem says nothing of
those messages; `OrderKept` does. For any script, any values of its bytes, sizes, losses and
reopenings.

**`UnpackersProofs`.** `Invariance` proves `IInv`, and from it follow `UnpackersTyped`,
`PairsKept` (`PairsAdjacent`) and `PlaceFound` (`Resyncs`), for any capsules, handlers,
scans and bursts. Its parts:

- `Typed`; `Threads`: the handler's pointer and the type it was chosen for, by where the
  caller is in its stop.
- `InOrder` and `Heard`: what is still to be unpacked was sent after what has been, in
  order, and everything in between that is not among it is lost.
- `Cached`: while a capsule is ready to be paired, every byte after it that was heard is
  in the handler's buffer. This is what `PairsAdjacent` needs: the frame that is
  published next is that buffer, and one whose checksum fits is of one capsule
  (`Joining`). It cannot be had of a dense handler that a stop has just reset, and
  there the property is false (section 6).
- `InStep`: while no other byte passed for a sync mark, a handler is in step within the
  first capsule that arrives whole, or ends a frame in it (`First`), has unpacked the
  second (`Second`) and published the third (`Third`).

**`UplinkProofs`.** `TypeCorrect`, and `StatusesOrdered`: what waits in the queue is in the
order sent (`LineOrder`), and nothing in the station or still to come is of the packet
whose status was published last or of one before it (`Consumed`); a frame the checksum
accepts is the body of one packet, so statuses go up. For any packets, losses, queue and
bytes that look like sync bytes. `HeldOutOfStep` is the safety half of
`SilenceIsReported`: when the torpedo is silent and T2 waits in a body, a byte was lost or
T2 took a body for a packet. While nothing is lost no byte is missing between those T2
holds, those in the queue and the one that comes next (`Gapless`), so a body whose first
byte was in its place comes to its end.

**`TcpCommandProofs`.** `TypeCorrect`, and `ActsOnce` (`ReplacedClientActsOnce`): the
bytes of a stream are its client's own (`Owned`), and once a command with bytes of a
replaced client was executed, T3 neither holds a byte of it nor is in a call on its
connection (`Spent`). T3 loads the descriptor at each call, so it cannot begin another:
lemma `ReplacedStays` says that a client that was replaced never comes back. For any
number of connections, where the run has two. `CommandsInOrder` proves `ExecutedInOrder`
for commands of any bytes, 0xBB among them. What the kernel holds of a connection is a
stretch of what its client wrote, up to the last byte (`Stretches`); T6 takes connections in
the order of their numbers and closes the old descriptor before it stores the new one
(`Owners`, `Numbered`). `Order` is what T3 has received of it: bytes that follow each other,
from a byte with the value of a sync byte on (`Begun`), behind those executed and before
those to come (`Behind`), of no connection later than the descriptor's (`Calling`,
`Untouched`); and while no client was replaced T3 is in step with its client, at the first
byte of a command whenever it hunts, until a `recv()` falls short (`InStep`).

**`DriverOperationsProofs`.** All four properties of the run `driver_operations`, for any
lidars, channels, modes and speeds. The invariant is one of a state of the driver
(`Sound`): only a connected driver has a channel, it has it if its port opened the last
time, what it knows of the motor is of the lidar at its end (`Known`), and the last
command before samples are grabbed is a scan. There is one lemma for each call, saying
that every outcome of it, failures and crashes included, is sound and keeps what the
calls around it rely on (`Kept`); a lemma about a call cites those about the calls it
makes. The outcomes of a start (`Starts`) promise the scan as well: the question every
start begins with makes the cached device info that of this lidar (`Informed`), and no
request after it changes that. `LegacyAssumption` says what the driver takes for granted
of a very old lidar, which it cannot ask: 476 microseconds for a sample.

**`AlgorithmsProofs`**, about the operators themselves, with lemmas for division and
remainder, wrapped angles and 32-bit products.

- `WaypointsAhead` (`WaypointAhead`): for any legs, positions and velocities, the waypoint
  is on the line from start to goal, within what rounding the path's points and the
  interpolation between two of them loses, and it is ahead of the torpedo or at the end.
  That there is a first segment that spans it comes from `LeastElement`.
- `SamplesPublished` (`SampleValues`): for any field of a capsule's samples, any raw
  angles and any timings, the angles, distances and times that are published; times modulo
  2^32, and which of them are off by that much (section 6).
- `AscendingKept` (`AscendKeepsReadings`): for scans of any length. Sorting is modelled by
  counting, for each reading, those that come before it (`UpTo`); that the counts are a
  permutation is a matter of cardinalities, not of induction. The angles made up for the
  tail, a recursive function, do not matter: `Fill invalid angle` makes them up once more.
- `TurnsMarked` (`TurnMarkedOnce`): for any start, and speeds that change from capsule
  to capsule, with all steps of the fixed-point formats. The property speaks of a mark
  and the one before it, the code of a capsule's own samples only. What connects them
  (`MarkInv`) is that the way since the last mark (`since`) and the way since the
  lidar passed 0 differ by one sample at most (`Lag`), where a dense capsule that starts
  at exactly 0 still owes its mark (`Pending`). `CapsuleMarks` says in numbers
  which samples of a capsule are marked: the two ways in which `ScanAsPromised` fails are
  there, and the theorem says there is no third; `TurnStep` has a step for each way a capsule
  can go: its first sample is marked late (22), none is (23), or one after it passed 0
  (24).

- `TargetFound` (`TargetIsTheObject`): for any rooms, scans of the calibration, scans that
  are watched and table of sines. The invariant (`TargetInv`) is that every point the
  calibration saw is within 50 mm of one it kept: `Calibration` follows its loop. That a
  point within 250 mm of a seen one is then filtered, within 300 mm of a kept one, is the
  triangle inequality in integers (`NearBoth`, by `InnerProduct`). An object's readings
  pass the filter, are one chain, and a chain is one run (`OneRun`) and one cluster
  (`OneCluster`).
- `BytesChecked` (`BytesAreChecked`): for requests with payloads of any size and blocks of
  any length. Both CRCs are a register that is shifted down and fed bit by bit
  (`Register`), which is linear (`ShiftedLinear`): the registers of a block and of what
  arrived of it differ by the register of the errors alone. A burst sets it to something
  other than zero, and zeros shifted in cannot bring it back (`ShiftedBack`): `BurstSeen`.
  `TableRight` says of the CRC-32's table and padding that they compute this register
  (`ByTable`, `CalSteps`), and `Crc16Steps` the same of the CRC-16, which shifts the other
  way, in the mirror (`UpIsDown`, `MirroredByte`).
- `SteeringSettled` (`SteeringSettles`): for any steady error and yaw, any state the law was
  left in, and any number of periods from 60 on. The invariant (`Steadying`) bounds after
  each period how far the rate, the filtered steering and the last angle sent are from
  their goals. The first two bounds are recurrences (`RateOff`, `FilteredOff`) of the
  slowest filter, which bounds the faster two because the raw steering is never further off
  than the filtered (`FilteredOver`); they only fall (`OffFalls`), and `Settling` computes
  them. The third falls by two degrees a period, the least the slew limit lets through,
  and then follows the second within dead zone and rounding (`LastOffFalls`).

What a recursive function or a recurrence computes is got without induction over an
operator: `Upwards` takes the least number that is not in a set, from the well-founded
order of the natural numbers, and `Recursion` the function that a recurrence has.

**Model-checked only.** All liveness (`PathFollowsTarget`, `SilenceIsReported`,
`StopsOnSignal`, `PollReturns`, `CallReturns`, `CloseReturns`, `QueueDrains`): fairness
is outside the prover's reach. Every invariant and every action property of a passing
run is stated by a theorem. Spurious wakeups are checked by no run and excluded in the
proofs, for the promises fail with them.

## 6 Disagreements found

Four runs end in a violation, each of a statement the repository makes; the quotes
are in `PROJECT.json` under `findings`.

1. `station_torn_target`: the arrival can be judged, and latched for good, on a
   target nobody commanded, because its coordinates are two atomics.
2. `uplink_truncated`: once synchronised, the body's loop of `receiveUplinkStatus`
   ends with a whole body or a hard error only; a link that dies inside a packet is
   never reported and T2 cannot be joined.
3. `driver_connect`: `openChannelAndBind` loses the failure of `open()` in a variable
   that hides another, so `connect` succeeds without a channel; a call that then drives
   the motor uses a null pointer.
4. `scan_promises`: the driver promises that a scan is exactly one turn, with the time of
   its first sample but for a slight deviation, and two comments that the sync bit is
   exactly detected. A dense handler whose steps grow across 0 degrees marks the turn again
   two samples after its mark: a scan of two samples. From the 33rd sample of an ultra dense
   capsule on the delay is an unsigned product of a negative number, and the time lies 71
   minutes back. The counterexample has both in one step. The promise fails in one more way:
   the ultra handler misses the mark of a turn that ends at exactly 0 degrees where one
   capsule meets the next, and two turns are one scan. `TurnsMarked` and `SamplesPublished`
   prove that there is no other.

What the models show besides. Of most of it the repository says nothing; where it does,
the line is named and no run states it:

- The guard at `main.cpp:387-390` zeroes the angle after the limiter's memory was
  stored at 379, so transmitted angles can jump by more than the limiter's step.
- T6 replaces the client between two `recv()` of one command: its header can be of one
  client and its payload of another. `ReplacedClientActsOnce` bounds the damage.
- The event's wait takes every return of `pthread_cond_timedwait` for a signal
  (`hal/event.h:134`); with a wakeup for nothing the grab reads a scan that is not
  there, and the assertion that would tell (`sl_lidar_driver.cpp:322`) fails.
- After a short read T3 takes any byte 0xBB of what is left for the start of a command
  (`NetworkNode.cpp:220`) and executes what follows as one. `ExecutedInOrder` says that this
  is the only way, short of a replaced client, to execute what does not begin with a
  command.
- The comment at `NetworkNode.cpp:208` calls the receiving of a command non-blocking; only
  the sync byte is. A client that stops after it holds T3 in `recv()` (226, 238, 245), and
  `main`, which joins T3, with it. `PollReturns` says that nothing else does.
- A second sync byte that is only late drops the first (`UartNode.cpp:184`): with no byte
  lost T2 can lock on AA 55 inside a body, and wait there for ever when the torpedo falls
  silent. `SilenceIsReported` and `StopsOnSignal` except this wait, and no other.
- A codec that is reset or opened in the middle of a message hunts by value and can lock
  on A5 5A in a payload (`sl_lidarprotocol_codec.cpp:155`, `162`): with no byte lost the
  listener is called with a message that is not one. `MessagesWhole` speaks of a codec
  that has found a header since.
- A target can stay torn when T3 and T7 store one each (`x` of one, `y` of the other).
- After a timeout a request may be given the late answer to an earlier one.
- The decoder's thread can call a handler pointer that `disable()` has set to null
  after the test (`dataunpacker.cpp`): `Unpackers` reaches `crashed`.
- The dense handlers' reset drops what is cached of a capsule and keeps the one before
  (`handler_capsules.cpp:730`), while the decoder's thread goes on to the end of its
  payload: after a stop it can pair two capsules with a third between them that was
  heard. `PairsAdjacent` and its theorem exempt this.
- A path whose ends have the same `x` leads nowhere: the waypoint stays at its start.

## 7 What is not modelled

- **Telemetry (T4)**, GUI packets, logging: output only, of a snapshot. Nor is the size
  of a UDP datagram that carries a target.
- **The points under `mtx`** that T1 leaves for the GUI.
- **Destruction under the detached T6**: undefined behaviour, after which nothing can
  be stated. Up to it T6 is in `TcpCommand`.
- **`RawSampleNodeHolder`**: filled, never fetched from by the station.
- **TCP and UDP channels, `net_socket.cpp`**, thread priorities, timers, byte order: the
  station opens a serial port; the others are thin layers over system calls.
- **Floating point**: steering and tracking are in integers, with the rounding of
  integer division where the code has floats; nothing is claimed closer than that.
- **Contents of answers** that the driver only passes on (names, addresses, health),
  and the quality of samples.
- **`ControlLogic`, `CrcCalculator`, `receiveGuiCommand`, `ServoNode`, the old driver
  interface, `test.c`, `test/`, `build/`**: not called by the station, stateless, or
  generated.

## 8 Plan

What would add most, in this order:

1. `LidarLink` under `LidarDriver`: the abstract request of `DriverCommands` implemented
   over the queue and the codec. The product is beyond TLC at useful sizes; it is a
   refinement to prove.
2. The UDP path with the length of its datagrams, and T4's packets, if their format gets
   a consumer in this repository.

## 9 Conventions

- Variables and actions keep the code's names where TLA+ allows it.
- `MC...` modules hold constants only; a run's `.cfg` replaces no definition.
- A definition whose name ends in `_Something` and whose comment begins with
  "mutated:" is a plausible mistake in the definition that follows it. No
  specification uses it; `PROJECT.json` lists under `mutants` which property each of
  them breaks, so that every property is known to depend on the code it is about.
- `\* bound:` marks a constant that exists for model checking; `\* history:` a
  variable the code does not have.
