# Verification of the inspection robot

TLA+ models of the first-party code of this workspace, the TLC runs that check
them on small instances, and TLAPS proofs of their main properties for every
value of the constants. Paths below are relative to the repository; `base/`,
`core/` and `safety/` stand for `src/inspection_robot_base/`,
`src/inspection_robot_core/` and `src/inspection_robot_safety/`.

## 1. The system

A velocity travels from a source to the wheels through four processes:

    /cmd_vel/{manual,nav,follow} -> VelocityManager -> /control/cmd_vel
      -> SafetyNode -> /base/safe_cmd_vel
      -> BaseDriverNode => SharedControlState => BaseIoWorker -> serial line -> MCU

Single arrows are ROS topics (reliable, a queue of one) or the serial line; the
double arrows are shared memory inside the base process. Feedback goes the
other way: bytes -> `SerialTransport` -> `SerialFrameRouter` -> protocol parsers ->
`HardwareStateStore` -> a 20 ms timer -> `/wheel/odometry`, `/ultrasonic/*`,
`/base/status`; the ranges go on to the safety node. Beside these, a script drives
single segments through the MANUAL source, and a filter thins out the depth clouds.

### Inventory

| Component | State | Operations | Interacts with |
|---|---|---|---|
| Base fault manager (`base/src/base_fault_manager.cpp`) | state, first fault, port/feedback/command flags and instants, e-stop level | `notify*`, `setEmergencyStop`, `evaluate`, `resetIfHealthy`, `canMove`, `snapshot` | called by the I/O thread only |
| Shared control state (`base/src/control_state.cpp`) | last command and its sequence number, e-stop level, reset counter, device-request queue; one mutex | `submitVelocity`, `setEmergencyStop`, `requestReset`, `enqueueDeviceRequest`, `invalidateCommand`, `snapshot`, `drainDeviceRequests` | callbacks on one side, I/O thread on the other |
| Base I/O worker (`base/src/base_io_worker.cpp`) | `latest_command_`, `seen_*_seq_`, reconnect and connection instants, its copy of the hardware state | `start`, `stop`, `run`, `connectAndHandshake`, `disconnectForFault`, `readAndProcess`, `processDeviceRequests`, `sendMotion` | all of the base |
| Base driver node (`base/src/base_driver_node.cpp`) | published sequence numbers of the three kinds of frames | callbacks, services, the publishing timer, destructor | control state, hardware store, worker |
| Hardware state store (`base/src/hardware_state.cpp`) | the last snapshot; one mutex | `update`, `snapshot` | I/O thread writes, timer reads |
| Serial transport (`base/src/serial_transport.cpp`) | the library's port, last error | `open`, `close`, `isOpen`, `flushInput`, `readAvailable`, `write` | I/O thread only; the vendored serial library |
| Serial frame router (`base/src/serial_frame_router.cpp`) | byte buffer, counters | `pushBytes`, `popNext`, `clear` | I/O thread only |
| Frame codecs (`base/src/*_protocol.cpp`) | none | encode and parse | I/O thread only |
| Odometry integrator (`base/src/odometry_integrator.cpp`) | pose | `update`, `reset` | I/O thread only |
| Velocity manager (`core/src/velocity_manager_node.cpp`) | mode, last message and instant of three sources | three subscriptions, `/control/set_mode`, `tick` | sources, safety node |
| Safety node (`safety/src/safety_node.cpp`) | last command, e-stop, six ranges, front laser minimum, and their instants | subscriptions, `tick` | manager, base, sensors |
| Closed-loop script (`src/inspection_robot_bringup/scripts/closed_loop_segment.py`) | last odometry and safety status with the instants at which they were served, since when unhealthy | two subscriptions, `wait_until_ready`, `set_mode`, `run_distance`, `run_turn`, `publish_zero`, the `finally` of `main` | safety status and odometry; `/cmd_vel/manual` and `/control/set_mode` of the manager |
| Depth cloud filter (`src/inspection_robot_camera/src/depth_cloud_filter_node.cpp`) | instant of the last publication | `onCloud` | camera driver, transforms, navigation |
| Launch files, vendored drivers | see section 7 | | |

### What is hard here

* The base callbacks run in another thread than `run()`, and one iteration of
  `run()` reads the control state once and writes it later: invalidation and the
  re-read of the sequence number are two critical sections.
* The line may fail at every call. Each failure has to leave a kept fault, the
  wheels at rest if that is still possible, and a way back.
* Four watchdogs stand one behind the other (source, safety node, base, MCU) and
  each starts counting when the message of the one before it *arrives*.
* A reset must clear the fault but not what caused it, and a reconnection must
  clear the command but not the fault.
* The byte stream is cut anywhere, may be damaged anywhere, and frame headers are
  ordinary payload values too.
* Feedback crosses three clocks: frames, the timer, the safety node. Each stamps what
  it gets when it gets it, so a reading that is passed on twice looks alive.
* The script is one thread that serves one message per pass of its loops, gives calls
  up that are handled later, and may be interrupted or killed anywhere.

Each of these is a hazard of `PROJECT.json`, at the line where it bites.

### What makes each component correct

* Fault manager: the first cause stays until a granted reset; READY only with an
  open port and feedback.
* Control state and worker: no velocity without a current, fresh, authorised
  command of the present connection; a bounded reaction to the emergency stop; the
  port is left at rest; the status is true; the thread neither hangs nor gives up.
* Velocity manager: only the source that is the mode drives the robot, with a
  command received since the mode was set, and never a NaN.
* Safety node: nothing is passed on while the emergency stop is on, an obstacle is
  near, or a sensor has not been heard.
* The path: the age of what is written is bounded.
* Router: no good frame lost, none delivered twice, no frame of two connections,
  a bounded buffer, counters that account for every byte.
* Publishing: every new frame is published in time, none twice, over any number of
  reconnections; what the safety node takes for a healthy reading is a recent one.
* Transport: a read or write that fails closes the port, so that the worker reconnects;
  nothing from before a connection is read on it unless its flush failed.
* Codecs: a velocity goes out as asked for or not at all; no frame can be taken for
  another request. Odometry: no interval is counted twice.
* Script: it ends, it notices trouble in bounded time, it leaves the robot at rest and
  the manager in STOP. Cloud filter: new clouds at a bounded rate.

## 2. The modules

| Module | Stands for |
|---|---|
| `BaseFaultManager` | `BaseFaultManager`: each method an operator from the record of its fields to the record after the call |
| `SharedControlState` | `SharedControlState`: each method, atomic because the mutex covers its body |
| `BaseIoWorker` | composes the two with the I/O thread, the callbacks that write the control state, the serial line as an environment, and `stop()` |
| `BaseIoWorkerProperties` | its properties, and the strengthening `IInv` |
| `BaseContract` | the abstract base: state, link, moving |
| `BaseIoWorkerRefinement` | the refinement mapping from the worker to the contract, and `ContractInv` |
| `Twist` | velocity messages and one-place topics |
| `VelocityManager`, `SafetyNode` | the two nodes: each callback and the timer |
| `CommandPath` | composes them with the sources, the topics and the base |
| `CommandPathModes`, `CommandPathSafety` | `CommandPath` with history: how long a source is unselected; how long the sensors forbid motion |
| `FeedbackPath` | the hardware store, `publishState` and the ultrasonic topics, composed with `SafetyNode` |
| `Checksum` | `xorBcc`, over an exclusive-or that is a parameter |
| `SerialFrameRouter` | the router and the read loop around it |
| `SerialTransport` | the serial transport over the outcomes of the library |
| `ByteTransport` | the abstract port on which the worker relies |
| `FrameCodecs` | the byte layouts, both ways |
| `Odometry` | the integrator and the clock handling of `processFrame` |
| `DepthCloudFilter` | the cloud filter in its time |
| `ClosedLoopSegment` | the script, composed with `VelocityManager` |
| `Parts` | the five parts that share no variable with the rest, side by side |
| `MC*` | values for TLC |
| `*Proofs` | theorems and proofs (section 6) |

### The worker and its code

`pc` names a point of `run()`; an action is the code between two points where
another thread can change something that is read later.

| Action | `base_io_worker.cpp` |
|---|---|
| `Sample(d)` | top of the loop: `now`, `snapshot()`, the fault manager's `setEmergencyStop`, which branch |
| `OpenFails`, `OpenSucceeds`, `ConnectResync`, `HandshakeDone`, `HandshakeZeroFails`, `HandshakeMcuSafetyFails` | `connectAndHandshake` |
| `ReadFails`, `ReadAndProcess` | `readAndProcess` |
| `ResetFault`, `SkipReset`, `ResetResync` | the reset branch |
| `NoNewCommand`, `AcceptCommand`, `RejectCommand`, `InvalidResync`, `CommandWithdrawn` | the command branch |
| `FeedbackTimedOut`, `Evaluate` | `evaluate` and the two feedback timeouts |
| `WriteDeviceRequests`, `DeviceWriteFails` | `processDeviceRequests` |
| `SendMotion`, `SendMotionFails` | `chooseOutput`, `sendMotion` |
| `Publish` | `refreshPublishedSnapshot` |
| `DisconnectResync` | the second half of `disconnectForFault`; its first half, `FailedIo` or `HangUp`, is part of the action that fails |
| `ExitLoop`, `Stop`, `JoinAndClose` | the loop condition and `stop()` |

The `...Resync` actions are the second critical section of an
`invalidateCommand()`; `snapshot()` pair. A callback can come between.

`line`, `barrier` and `overrun` are history: what the controller received on this
connection, the sequence number of the last invalidation by a connection or a
reset, and how many frames went out that a stop or a reset should have prevented.
Definitions preceded by `\* Mutation:` are altered forms of the definition below
them; nothing uses them. They record for every property a change of the code that
it would notice.

### The command path and its code

Each node has a single-threaded executor, so a callback or a timer tick is one
step and nothing has to be cut. A topic has a queue of one: a new message replaces
the one not taken yet. Of the base `CommandPath` keeps the command, its age, and a
gate: OPEN; LATCHED by any fault; REVIVED by a granted reset, after which the last
command goes out once more and is then forgotten. That is a summary of
`BaseIoWorker`, in which the base may also fault and reset at any time; the worker's
own runs and theorems show the detail. `Driving` leaves out the frame of a REVIVED
gate, which is the subject of the run `base_reset_revives`.

`from` and `age` of a message are history: who asked for this velocity, and when.

### The router and its code

`Pop` gives up the bytes that `popNext` gives up one by one before it returns (the
number is chosen by the first position at which the loop stops) and delivers a frame
if one is there. `readAndProcess` repeats it until nothing is returned. Acceptance
is the code's own: length, tail, XOR checksum. Payload parsing is left out. The
exclusive-or of two bytes is a parameter (`ExclusiveOr`): the run takes the real one, and the
proofs need nothing of it.

### The feedback path and its code

`ReadFrames` is one iteration that reads: the worker changes a snapshot of its own and
stores it whole under the mutex. `PortLost` and `Reconnect` are what the iteration
does to the sensor fields (`have_*` is cleared on connecting, the sequence numbers go
on). `PublishState` is the timer: for every kind it compares two sequence numbers.
Message contents other than the ranges have left the model there. A range message is
best effort: it may be lost, or be the oldest of a full history. `measured` and
`pending` are history: how old the reading in the safety node really is, and which
kinds have a frame that was never published.

### The transport and its code

Every method is one step, since one thread calls them. Any library call may throw, and
the methods' handlers are in the model with what they do and leave undone:

* `open()` of the library takes a descriptor before it configures the port and counts as
  open only afterwards; `SerialTransport::open` then calls `close()`, which does nothing
  to a port that does not count as open: that descriptor is lost. `LeaksOnlyInOpen` says
  that this is the only such place.
* Where the kernel's `close` fails, the library throws and keeps `is_open_`, and with it a
  number that Linux has released all the same: the port is `stuck`. Reads then come from
  whatever file has got that number, and a later `close` may succeed by closing it.
* `flushInput` answers no and leaves the port open where the library throws
  (`serial_transport.cpp:61-64`); it answers yes where `tcflush` fails, since the library
  ignores that (`unix.cc:806`). `flush` is a history of which of these it was.

Waiting bytes are counted as those from before and after `flushInput()`.
`OldBytesNeedFailure` and `ErrorIsCurrent` say what these cases can do: old bytes are
read, or an open port shows an error, only in them.

`BaseIoWorker` uses the port through the answers that `ByteTransport` allows, and
`KeepsContract` is the refinement: a read or write that answers no has closed the port or
left it stuck, and a flush that answers no tells nothing. The worker ignores the flush's
answer; nothing in its model depends on it, since any frame may arrive there at any
time, whole old ones included. The worker is modelled on a port that is never stuck. On a
stuck one `run()` would find `isOpen()` true for ever: it would go on reading and hanging
up, and not reopen the port until a close succeeds.

### The codecs and their code

Velocities are counted in tenths of the unit that a frame carries, so that rounding is
in the model; bytes, two's complement and the XOR are as in the code. The factors from
raw quantities to metres are left out. The controller's own frames are not in the
repository: `FeedbackFrame` is what `decode()` implies. `RechargeFlag` is 0 and
`ReservedByte` is not one of the two bytes that mark a MCU-safety frame, as shipped:
with one of these a motion frame would be such a frame.

### The odometry and its code

The robot turns by quarters, so that sine and cosine are whole numbers; everything else
of `update` and of the `dt` rule of `processFrame` is there. Frames of one read share
the clock reading, so all but the first have `dt = 0`.

### The cloud filter and its code

One callback is `OnCloud` (which may drop the cloud for the rate), a wait, and
`Publish` or `Discard`. A cloud is its age. `recent` is history.

### The script and its code

A unit of time is one pass of the driving loop. Each pass serves at most one message
(`spin_once`), statuses and odometry in turn as rclpy does while both wait. A status is
"healthy", "unhealthy" or "stop". Where the robot is, and whether odometry is stale, is
a choice in every pass: any pass may leave the loop. `set_mode` is a search for the
service and a wait for the answer, each with its deadline; a request given up stays in
`requests` until the manager handles it. `Interrupt` is Ctrl-C where the code's
`finally` still runs, or the end of the process anywhere. `trouble`, `gone` and
`excuse` are history.

### Abstractions

* **A velocity is one integer.** The three axes are limited and checked alike.
  `NonFinite` is a command with a NaN or infinite axis. Limits and encodable range
  are separate constants because the code lets the first exceed the second.
* **Base time.** The thread reads the clock once per iteration and every timeout of
  that iteration compares with this reading; `Sample(d)` advances it by 1 to
  `MaxStep` units. An instant is kept as an age which stops one above the timeout,
  since no comparison of the code distinguishes larger ages. One simplification:
  `disconnectForFault` sets `next_reconnect_` from a clock read of its own, the model
  from the iteration's reading, so the modelled wait may end up to one iteration
  earlier. A longer one is covered by larger `d`.
* **Path time.** One clock in units; `Elapse` may happen while no message has been
  under way for longer than `MaxDelay`. That bound is an assumption about
  middleware and executors, without which none of the bounds could exist. How often
  sources and timers fire is left entirely open.
* **The line.** Any call may fail at any time. A failed read or write closes the
  port, as `SerialTransport` does; an encoding that is refused does not. The worker's
  model assumes that the kernel's `close` succeeds (`stuck` never holds in the contract).
  Bytes that a failing `write` did get out are not counted as a frame.
* **The start.** The node's constructor ends by starting the thread, so every
  behaviour begins with the thread running; `stop()` has one caller, the
  destructor, after which no callback runs.

## 3. The runs

| Run | Question | Distinct states |
|---|---|---|
| `base_safety` | Does any interleaving of callbacks, iterations, line failures, refused encodings and one reset break a safety property of the worker? | 3.5 million |
| `base_liveness` | Does the worker implement the contract, and do its watchdogs, its reconnection, the answer to a reset and `stop()` get there? | 0.13 million |
| `base_devices` | Does the status show what the controller was last told when device requests, refused encodings and failures mix? | 3.6 million |
| `path` | How old can a written velocity be, and who drives the robot after a mode switch? | 1.2 million |
| `path_blocked` | How long may the robot move once the safety node was told not to? | 2.1 million |
| `feedback` | Is every new frame published once and in time, and are the safety node's healthy readings recent, over bursts, lost ports and lost messages? | 2.1 million |
| `parts` | Transport, router, codecs, odometry and cloud filter: do they keep what section 1 asks of them? | 0.90 million |
| `segment` | Does the script end, react and leave the robot at rest, whatever is late, lost or killed? | 0.77 million |
| `base_reset_revives`, `base_estop_pulse`, `base_frozen_link`, `segment_stale` | four statements of the documents or the code that the code does not keep (section 5) | |

`parts` is one run for five components: a behaviour chooses one of them and the others
stand still, so its states are the sum of theirs, not the product.

Properties, each with the code it is about, are stated in front of their
definitions.

### Bounds

* `MaxCommandSeq = 4` (2 for liveness, devices): every command, connection, reset
  and disconnection takes a sequence number. Four is enough for
  connect, command, disconnect, reconnect, and for connect, command, reset, command;
  every finding is reached with fewer. Callbacks stop below the bound;
  invalidations by a disconnection do not, so the thread never gets stuck at it. The
  theorems hold for every value.
* `MaxResetSeq = 1`: a reset followed by another differs from the first only in what
  it follows; the theorems hold for every number.
* Timeouts of 1 or 2 units with steps of 1 or 2 make each age fresh, at the limit and
  beyond it. The command timeout of `base_safety` is longer than its feedback timeout,
  so that a command outlives feedback.
* `base_safety` has the velocities 1 and 3, `MaxSpeed = 2` and `MaxEncodable = 1`: the
  first goes out, the second is clamped to what no frame can carry, so that `sendMotion`
  refuses it on an open port while the robot moves. `base_liveness` and `base_devices`
  have one velocity, 2, clamped in the one and beyond a frame in the other.
* Path runs have one source besides STOP and one sensor. A command of source `s` is
  only ever read through `mode = s`, so a second source adds a mode that is not `s`,
  which STOP already is. The theorems cover any number of both.
* `path` has a source's message under way for up to 1 unit, so that one sent before a mode
  switch arrives after it, and three timeouts of 1; the topics behind take their time in
  `path_blocked` (`MaxDelay = 1`) and here only interleave (0). Both at once is beyond the
  runs' time; the theorems are about any values. `Horizon = 5` is one above the bound on
  the age (4). In `path_blocked` ages
  of commands are irrelevant and `Horizon` is 0; timeouts of 0 there mean "not
  older than this instant", which keeps 14 variables within reach. The theorem covers
  all values.
* `parts`, router: frame sizes 5 and 3 stand for 8, 19 and 24: `popNext` never does
  anything with a size but compare the buffer's length with it. Seven bytes hold two
  short frames with a byte to spare, and the false claim of a long header can hold a
  whole short frame and the beginning of the next. With sizes 3 and 4, where no claim
  has room for a whole frame, a stronger and false `NoFrameSkipped` passes (section 6).
  The alphabet 0..3 makes headers, tails and checksums coincide.
* `parts`, transport: three descriptors allow two leaks and a port; reads of two of four
  waiting bytes leave some behind; every connection may be flushed, unflushed or stuck. Codecs: the values around 0, the limits of a byte and
  of 16 bits, and the halves where rounding decides. Odometry: gaps of 1 to 3 units
  around a limit of 2, over 6 units. Filter: a callback of up to 6 units against a
  period of 5, so that either may be the longer.
* `feedback`: bursts of two frames, three frames per kind: published and unpublished
  ones on both sides of a reconnection. One sensor; the theorem is about any number.
  `motion` beside `ultrasonic` shows that the kinds do not disturb each other.
* `segment`: a queue of two, stale after 2 units, unhealthy for 1, passes of 1 or 2
  units; the bound of `ReactsInTime` is reached (one less is violated). `segment_stale` has the
  real values in units of 40 ms: queue 20, stale after 8, two statuses per unit.

### Deadlock

Deadlock is checked in every run; none of the models has a state in which nothing can
happen any more, the base after `stop()` excepted, where `Stopped` is a step of its own.

## 4. Fairness

`FairSpec` has weak fairness of `Worker` and of `JoinAndClose`: the thread
is scheduled, every serial call returns (open, read and write are bounded by
timeouts or non-blocking), and the thread that called `stop()` is scheduled.
Nothing is assumed of callbacks, of which calls succeed, or of feedback. The
callbacks submit finitely many commands; "eventually at rest" thus means once no
command comes any more. The command path, the feedback path and the parts state no
liveness and assume no fairness.

The script's `FairSpec` has weak fairness of `Script` (the process runs; `spin_once` and
the waits have timeouts), `ManagerTakes` and `Elapse`. Nothing is assumed of the service,
the safety node, or people: a manager that never answers, or a safety node that is gone,
does not keep the script from ending.

## 5. What the code does not do as documented

1. **A reset revives the old command for one iteration** (`ResetNeedsNewCommand`,
   `base_io_worker.cpp:209`). `docs/ARCHITECTURE.md:22` says that resetting a fault
   invalidates the old command. `run()` invalidates the shared one, but continues with
   the snapshot taken at the loop top; its sequence number now differs from the one
   just recorded, so the old velocity is adopted afresh and sent. Needed: a fault, a
   command still in the control state when the fault clears, a reset.
   `StaleAfterResetBounded` shows that it is one frame at most.
2. **A short emergency stop leaves nothing** (`EstopPulseLatches`,
   `control_state.cpp:9`). It is a level that the thread samples once per iteration.
   Pressed and released in between, it latches nothing, against
   `docs/ARCHITECTURE.md:20`.
3. **Frozen feedback behind another fault does not reconnect**
   (`FrozenLinkReconnects`, `base_fault_manager.cpp:62`). `evaluate()` returns at once
   while a fault is kept, so the transition that closes the port never comes: the
   port stays open, the reset is refused for want of feedback, against
   `docs/ARCHITECTURE.md:18` and `docs/COMMISSIONING_CHECKLIST.md:8`.
   `FrozenLinkNoticed` is what does hold.
4. **A status is judged by when it was served** (`StatusCurrent`,
   `closed_loop_segment.py:105`). The check says "safety status is stale" after 0.3 s, but
   `on_safety` notes the time of the callback. The loop serves at most one message per
   pass of 30 ms or more, in turn with odometry, and 50 statuses a second come into a
   queue of 20: it stays full, and a status that counts as new is 0.4 s old. `ReactsInTime`
   is the bound that does hold, the queue included.

## 6. What is proved

All theorems hold for every value of the constants that the ASSUMEs of the modules
allow: timeouts and bounds natural numbers, velocities integers, a slow distance above
the hard stop.

**The worker.** `BaseIoWorkerProofs` proves `TypeCorrect`, from lemmas about each method
of the fault manager.
`BaseIoWorkerSafetyProofs` proves that `IInv` is inductive and derives the eight
safety properties of `base_safety`. None of them is inductive by itself. `IInv` adds

* `PortInv`: which program points have the port open, and where the fault
  manager's idea of it lags behind;
* `FaultInv`: a code is kept exactly while latched, and the manager's stop flag is
  that of the snapshot;
* `FeedbackInv`: READY at the point of sending rests on feedback just checked;
* `CommandInv`: whatever could still be adopted or sent (shared command, snapshot,
  `latest_command_`, line) is newer than the connection's barrier;
* `LineInv`, `EstopInv`, `StaleInv`: what is on the line, and why a second frame after
  a stop or a reset is impossible: the snapshot of the next iteration is newer.

`StatusMcuSafety` needs a second invariant, `McuInv`: on an open port the recorded
setting is that of the last frame the controller got. A queue of requests has at most
one last setting, which both sides take, or the write fails and the port closes.

There is one lemma per conjunct, one step per group of actions. `FaultStays` is the
action property, from the same invariant.

**The contract.** The last part of `BaseIoWorkerSafetyProofs` proves `Implementation`: every
step of the worker is a step of `BaseContract` or leaves it alone, from `IInv` and
`ContractInv`.

**The path.** `CommandPathProofs` proves `PathTypeCorrect` and `CommandAgeBounded`
through `AgesAddUp`: at each of the five holders (source record, topic, safety node,
topic, base), what may still be passed on is at most so much older than its stay
there; the bound at one holder is that of the one before plus its timeout or way.
`CommandPathHistoryProofs` repeats the argument for two other clocks:
`SwitchesAddUp` and `ReceivedSinceChosen` give `DeselectedSourceStops` and
`SwitchNeedsFreshCommand`; `BlocksAddUp` gives `BlockedRobotStops`.

**The feedback path.** `FeedbackPathProofs` proves `TypeCorrect`;
`NewestIsPublishedHolds` from `FramesInv` (published numbers never overtake the counted
ones, and what is unpublished is not older than the last tick); `SensorsCurrentHolds`
from `RangesInv`, which adds up the ages at the three holders: in flight, in the safety
node, and the history of when it was measured.

**The router.** `SerialFramesProofs`, for every size of frame and every checksum, derives
four facts from `RouterInv`:

* `BufferInv`: the buffer is the end of what was received; between reads its front waits;
* `TakenInv`: the delivered frames lie one behind the other before the buffer, none
  across the point where the connection began;
* `GivenUpInv`: at a byte of this connection that is gone and in no delivered frame, the
  code's own test (`Verdict`) fails *on all that was received since*: what was noise or a
  bad frame when it was given up is so for ever, since a verdict other than "wait" never
  changes with further bytes;
* `AccountInv`: bytes consumed are those discarded, lost with a connection, or delivered,
  counted once.

`FramesDisjointHolds` is `TakenInv`, `BytesAccountedHolds` is `AccountInv` with
`BufferInv`, and `NoFrameSkippedHolds` comes from `GivenUpInv`: a good frame is where the
test succeeds, so it cannot have been given up. The proof found the property too strong:
behind the header of an incomplete frame a whole good frame may wait, and longer than a
read. `Behind` is that case, and the run's sizes now make it happen.

**The codecs.** Also in `SerialFramesProofs`: `VelocityAccurateHolds` and
`UnderstoodAsMeantHolds`, for every velocity and quantity of 16 bits, from lemmas on the
two halves: a number of 16 bits put into two bytes and read back is the same number, and
the ten bytes of a frame are the header, the body, the checksum and the tail, in place.

**The other parts.** `PartsProofs`: `WithinReachHolds` from `ReachInv` (the way was gone by
the last frame, and every frame moves that instant); `OldBytesNeedFailureHolds`,
`ErrorIsCurrentHolds` and `LeaksOnlyInOpenHolds` from `TransportInv` (of an open port: it
holds a descriptor or is stuck, nothing old waits where the flush took effect, an error is
its own); `TransportImplements`, the refinement of `ByteTransport`, with closes and flushes
that fail; `NoThirdInPeriodHolds` and
`CloudsAreNewHolds` from `RateInv` and `AgeInv`. `PartsTypeCorrect` and `PartsCorrect` carry
all of these, and those of the router and the codecs, over to `PartsSpec`, the
specification that the run checks.

**The script.** `ClosedLoopSegmentProofs`: `ComesToRest` from `RestInv` (the script has
been gone for at most as long as its last command has been under way, or the longest way
and the time since that arrived); `EndsStopped` from `StopInv` (no call that waits comes
after the one for STOP); `ReactsInTimeHolds` from `ReactInv`, for every depth of the queue,
length of a pass and rate of statuses. `WaitFor(i)` is how long the i-th status that waits
may still have to: two passes for each before it, one less if odometry has just had its
turn. `QueueInv` says that the time without a healthy status, plus that wait, less what
has gone by of this pass, is within `Drained`, the time to empty a full queue; `ServedInv`
bounds the same time by what was served last. Every pass takes one pass from the wait,
new statuses only come behind, and a full queue drops its front, which shortens the wait.
The proof found `ReactBound` right for passes of one unit only: a longer pass delays each
status that waits, so the queue's share is multiplied by it. The run now has such passes.

**Only model-checked.** The liveness properties (`base_liveness` but `ImplementsContract`,
and `Ends`): fairness and ENABLED are outside the prover. Every invariant and every action
property of the passing runs is also a theorem. What a recursive definition computes is
not proved: `XorBcc` is taken as it is (a fold), and no proof looks into it.

## 7. What is not modelled

* **Contents of messages**: beyond the ranges and the status fields of the worker, what
  the driver node copies from the store into its messages, and the unit factors of the
  decoders: assignments without state.
* **Geometry of the clouds**: transform, crop and thinning are functions of one cloud;
  whether enough points remain is a choice.
* **The shape of the script's speeds**, how far the robot got, and the last pass, which
  settles and prints.
* **Serial library and kernel**: vendored; their outcomes are a choice (section 2).
* **Launch files, maps, vendored drivers**: no first-party behaviour.

## 8. The plan

Done, in this order: fault manager, control state and worker; their proofs; the
contract and its refinement; the command path and its proofs; the router; the answer to
a reset; the feedback path and its proofs; transport, codecs, odometry and cloud filter
with the proofs of three of them; the script and its proofs; the MCU-safety status; the
proofs about the router, the codecs, the composition of the parts, and `ReactsInTime`.

Left:

1. `CommandPath` composed with `BaseIoWorker`: today its base is a summary; a refinement
   would show that the worker implements it. Their clocks differ (iterations against
   units), which is what makes this more than a mapping.
