---------------------------- MODULE BaseIoWorker ----------------------------
(***************************************************************************)
(* The I/O thread of inspection_robot_base (BaseIoWorker::run), its        *)
(* BaseFaultManager, the SharedControlState it shares with the ROS         *)
(* callbacks, and the serial line to the motor controller.                 *)
(*                                                                         *)
(* One iteration of run() is cut wherever another thread can get in        *)
(* between two accesses to the shared state; pc names the program point.   *)
(*                                                                         *)
(* Time.  Each iteration reads the clock once, at its top, and every       *)
(* timeout of the iteration compares with that reading.  Sample(d) is that *)
(* reading: d units have passed since the last one.  A blocking open, a    *)
(* slow write and the sleep at the end of the iteration all show as a      *)
(* larger d at the next reading.                                           *)
(*                                                                         *)
(* The serial port (SerialTransport): any call may fail, and a failing     *)
(* read or write closes the port itself.                                   *)
(***************************************************************************)
EXTENDS BaseFaultManager, SharedControlState

CONSTANTS
  FirstFeedbackTimeout,  \* config_.first_feedback_timeout
  ReconnectPeriod,       \* config_.reconnect_period
  MaxSpeed,              \* config_.max_vx, max_vy, max_wz
  MaxEncodable,          \* largest magnitude a motion frame can carry
  AutoEnableMcuSafety,   \* config_.auto_enable_mcu_safety
  MaxStep                \* bound: clock units between two iterations

ASSUME WorkerAssumption ==
  /\ FirstFeedbackTimeout \in Nat
  /\ ReconnectPeriod \in Nat
  /\ MaxSpeed \in Nat
  /\ MaxEncodable \in Nat
  /\ AutoEnableMcuSafety \in BOOLEAN
  /\ MaxStep \in Nat \ {0}

VARIABLES
  running,             \* running_
  pc,                  \* program point of the I/O thread
  ctl,                 \* the local ControlSnapshot of the iteration
  faultReason,         \* the argument of the running disconnectForFault
  fm,                  \* fault_manager_
  portOpen,            \* transport_->isOpen()
  latest,              \* latest_command_, with the commandSeq it came from
  seenCommandSeq,      \* seen_command_seq_
  seenResetSeq,        \* seen_reset_seq_
  haveMotion,          \* local_hw_.have_motion
  connectedAge,        \* time since connected_since_
  reconnectWait,       \* time until next_reconnect_
  mcuSafetyRequested,  \* local_hw_.mcu_safety_requested
  hardware             \* what HardwareStateStore holds of the above

\* History the code does not keep; no action reads it.
VARIABLES
  line,      \* what the controller received on this connection
  barrier,   \* commandSeq at the last invalidation, by cause
  overrun    \* nonzero frames sent where none is welcome, saturating at 2

sharedVars == <<control, deviceRequests>>
timeVars == <<connectedAge, reconnectWait>>
seenVars == <<seenCommandSeq, seenResetSeq>>
historyVars == <<line, barrier, overrun>>
vars == <<sharedVars, running, pc, ctl, faultReason, fm, portOpen, latest,
          seenVars, haveMotion, timeVars, mcuSafetyRequested, hardware,
          historyVars>>

-----------------------------------------------------------------------------
PCs == {"top", "connect", "connectResync", "handshake", "read", "reset",
        "resetResync", "command", "invalidResync", "check", "device", "send",
        "disconnectResync", "publish", "exited", "stopped"}

NoCommand == [v |-> 0, seq |-> 0]
Outputs == [v : -MaxSpeed .. MaxSpeed, seq : Nat]

FreshLine == [sent |-> NoCommand, mcuOn |-> FALSE, failed |-> FALSE]
Lines == [sent : Outputs, mcuOn : BOOLEAN, failed : BOOLEAN]

\* Mutation: no limit on the speed.
ClampNothing(v) == v

Clamp(v) ==
  IF v > MaxSpeed THEN MaxSpeed ELSE IF v < -MaxSpeed THEN -MaxSpeed ELSE v

\* MotionProtocol::encodeVelocity refuses what does not fit an int16.
Encodable(v) == v \in -MaxEncodable .. MaxEncodable

Saturated(n) == IF n >= 2 THEN 2 ELSE n + 1

Init ==
  /\ control = InitialControl
  /\ deviceRequests = << >>
  /\ running = TRUE
  /\ pc = "top"
  /\ ctl = InitialControl
  /\ faultReason = "None"
  /\ fm = InitialFaultManager
  /\ portOpen = FALSE
  /\ latest = NoCommand
  /\ seenCommandSeq = 0 /\ seenResetSeq = 0
  /\ haveMotion = FALSE
  /\ connectedAge = 0 /\ reconnectWait = 0
  /\ mcuSafetyRequested = FALSE
  /\ hardware = [fault |-> FaultSnapshot(InitialFaultManager),
                 mcuSafetyRequested |-> FALSE]
  /\ line = FreshLine
  /\ barrier = [connect |-> 0, reset |-> 0]
  /\ overrun = [estop |-> 0, stale |-> 0]

-----------------------------------------------------------------------------
(***************************************************************************)
(* The ROS callbacks: at any point while the node spins.                   *)
(***************************************************************************)
workerVars == <<running, pc, ctl, faultReason, fm, portOpen, latest, seenVars,
                haveMotion, timeVars, mcuSafetyRequested, hardware>>

OnVelocity(v) ==
  /\ running
  /\ SubmitVelocity(v)
  /\ UNCHANGED <<workerVars, historyVars>>

OnEmergencyStop(active) ==
  /\ running
  /\ SetEmergencyStop(active)
  /\ overrun' = [overrun EXCEPT !.estop = IF active THEN @ ELSE 0]
  /\ UNCHANGED <<workerVars, line, barrier>>

OnReset ==
  /\ running
  /\ RequestReset
  /\ UNCHANGED <<workerVars, historyVars>>

OnDeviceRequest(r) ==
  /\ running
  /\ EnqueueDeviceRequest(r)
  /\ UNCHANGED <<workerVars, historyVars>>

Callback ==
  \/ \E v \in Velocities \cup {NonFinite} : OnVelocity(v)
  \/ \E active \in BOOLEAN : OnEmergencyStop(active)
  \/ OnReset
  \/ \E r \in DeviceRequests : OnDeviceRequest(r)

-----------------------------------------------------------------------------
(***************************************************************************)
(* disconnectForFault(reason), up to its second access to the control      *)
(* state.  FailedIo: the call that failed has closed the port.  HangUp:    *)
(* the port is open, so a zero frame is tried first.  That the close       *)
(* itself succeeds is assumed here (not in SerialTransport).               *)
(***************************************************************************)
Disconnecting(reason) ==
  /\ portOpen' = FALSE
  /\ latest' = NoCommand
  /\ control' = InvalidateCommand(control)
  /\ faultReason' = reason
  /\ pc' = "disconnectResync"

FailedIo(reason) ==
  /\ Disconnecting(reason)
  /\ line' = [line EXCEPT !.failed = TRUE]

\* Mutation: the port is closed without the zero frame.
HangUpAbruptly(reason) ==
  /\ Disconnecting(reason)
  /\ UNCHANGED line

HangUp(reason) ==
  /\ Disconnecting(reason)
  /\ line' \in {[line EXCEPT !.sent = NoCommand], [line EXCEPT !.failed = TRUE]}

DisconnectResync ==
  /\ pc = "disconnectResync"
  /\ seenCommandSeq' = control.commandSeq
  /\ fm' = NotifySerialDisconnected(fm, faultReason)
  /\ reconnectWait' = ReconnectPeriod
  /\ faultReason' = "None"
  /\ pc' = "publish"
  /\ UNCHANGED <<sharedVars, running, ctl, portOpen, latest, seenResetSeq,
                 haveMotion, connectedAge, mcuSafetyRequested, hardware,
                 historyVars>>

-----------------------------------------------------------------------------
\* Mutation: every pass with the port closed starts the wait again.
ReconnectWaitRestarted(d) == ReconnectPeriod

\* Time left until next_reconnect_, d units after the last reading.
ReconnectWaitAfter(d) == IF d > reconnectWait THEN 0 ELSE reconnectWait - d

\* The top of the loop: clock, snapshot, e-stop, and which branch is taken.
Sample(d) ==
  /\ pc = "top" /\ running
  /\ ctl' = control
  /\ fm' = ObserveEmergencyStop(Elapse(fm, d), control.emergencyStop)
  /\ connectedAge' = IF portOpen /\ ~haveMotion
                     THEN Older(connectedAge, d, FirstFeedbackTimeout)
                     ELSE connectedAge
  /\ reconnectWait' = ReconnectWaitAfter(d)
  /\ pc' = IF portOpen THEN "read"
           ELSE IF reconnectWait' = 0 THEN "connect" ELSE "publish"
  /\ UNCHANGED <<sharedVars, running, faultReason, portOpen, latest, seenVars,
                 haveMotion, mcuSafetyRequested, hardware, historyVars>>

ExitLoop ==
  /\ pc = "top" /\ ~running
  /\ pc' = "exited"
  /\ UNCHANGED <<sharedVars, running, ctl, faultReason, fm, portOpen, latest,
                 seenVars, haveMotion, timeVars, mcuSafetyRequested, hardware,
                 historyVars>>

-----------------------------------------------------------------------------
(***************************************************************************)
(* connectAndHandshake.                                                    *)
(***************************************************************************)
OpenFails ==
  /\ pc = "connect"
  /\ reconnectWait' = ReconnectPeriod
  /\ pc' = "publish"
  /\ UNCHANGED <<sharedVars, running, ctl, faultReason, fm, portOpen, latest,
                 seenVars, haveMotion, connectedAge, mcuSafetyRequested,
                 hardware, historyVars>>

\* Bounded: every new connection consumes a commandSeq.
OpenSucceeds ==
  /\ pc = "connect"
  /\ control.commandSeq < MaxCommandSeq
  /\ portOpen' = TRUE
  /\ latest' = NoCommand
  /\ control' = InvalidateCommand(control)
  /\ line' = FreshLine
  /\ barrier' = [barrier EXCEPT !.connect = control'.commandSeq]
  /\ pc' = "connectResync"
  /\ UNCHANGED <<deviceRequests, running, ctl, faultReason, fm, seenVars,
                 haveMotion, timeVars, mcuSafetyRequested, hardware, overrun>>

ConnectResync ==
  /\ pc = "connectResync"
  /\ seenCommandSeq' = control.commandSeq
  /\ fm' = NotifySerialConnected(fm)
  /\ connectedAge' = 0
  /\ haveMotion' = FALSE
  /\ pc' = "handshake"
  /\ UNCHANGED <<sharedVars, running, ctl, faultReason, portOpen, latest,
                 seenResetSeq, reconnectWait, mcuSafetyRequested, hardware,
                 historyVars>>

\* Mutation: the iteration that connected goes on with the ctl it began with.
HandshakeDoneGoingOn ==
  /\ pc = "handshake"
  /\ line' = [line EXCEPT !.sent = NoCommand,
                          !.mcuOn = IF AutoEnableMcuSafety THEN TRUE ELSE @]
  /\ mcuSafetyRequested' = (AutoEnableMcuSafety \/ mcuSafetyRequested)
  /\ pc' = "read"
  /\ UNCHANGED <<sharedVars, running, ctl, faultReason, fm, portOpen, latest,
                 seenVars, haveMotion, timeVars, hardware, barrier, overrun>>

\* Mutation: the MCU safety request is left out of the handshake.
HandshakeDoneWithoutMcuSafety ==
  /\ pc = "handshake"
  /\ line' = [line EXCEPT !.sent = NoCommand]
  /\ pc' = "publish"
  /\ UNCHANGED <<sharedVars, running, ctl, faultReason, fm, portOpen, latest,
                 seenVars, haveMotion, timeVars, mcuSafetyRequested, hardware,
                 barrier, overrun>>

\* Mutation: the request is written and not recorded.
HandshakeDoneUnrecorded ==
  /\ pc = "handshake"
  /\ line' = [line EXCEPT !.sent = NoCommand,
                          !.mcuOn = IF AutoEnableMcuSafety THEN TRUE ELSE @]
  /\ pc' = "publish"
  /\ UNCHANGED <<sharedVars, running, ctl, faultReason, fm, portOpen, latest,
                 seenVars, haveMotion, timeVars, mcuSafetyRequested, hardware,
                 barrier, overrun>>

\* A zero frame, then the MCU safety request when it is configured.
HandshakeDone ==
  /\ pc = "handshake"
  /\ line' = [line EXCEPT !.sent = NoCommand,
                          !.mcuOn = IF AutoEnableMcuSafety THEN TRUE ELSE @]
  /\ mcuSafetyRequested' = (AutoEnableMcuSafety \/ mcuSafetyRequested)
  /\ pc' = "publish"
  /\ UNCHANGED <<sharedVars, running, ctl, faultReason, fm, portOpen, latest,
                 seenVars, haveMotion, timeVars, hardware, barrier, overrun>>

HandshakeZeroFails ==
  /\ pc = "handshake"
  /\ FailedIo("SerialIo")
  /\ UNCHANGED <<deviceRequests, running, ctl, fm, seenVars, haveMotion,
                 timeVars, mcuSafetyRequested, hardware, barrier, overrun>>

HandshakeMcuSafetyFails ==
  /\ pc = "handshake" /\ AutoEnableMcuSafety
  /\ fm' = NotifyMcuSafetyConfigFailure(fm)
  /\ FailedIo("McuSafetyConfig")
  /\ UNCHANGED <<deviceRequests, running, ctl, seenVars, haveMotion, timeVars,
                 mcuSafetyRequested, hardware, barrier, overrun>>

-----------------------------------------------------------------------------
(***************************************************************************)
(* An iteration with the port open.                                        *)
(***************************************************************************)
ReadFails ==
  /\ pc = "read"
  /\ FailedIo("SerialIo")
  /\ UNCHANGED <<deviceRequests, running, ctl, fm, seenVars, haveMotion,
                 timeVars, mcuSafetyRequested, hardware, barrier, overrun>>

\* The bytes read complete at least one motion feedback frame, or none.
ReadAndProcess(motion) ==
  /\ pc = "read"
  /\ fm' = IF motion THEN NotifyMotionFeedback(fm) ELSE fm
  /\ haveMotion' = (motion \/ haveMotion)
  /\ pc' = "reset"
  /\ UNCHANGED <<sharedVars, running, ctl, faultReason, portOpen, latest,
                 seenVars, timeVars, mcuSafetyRequested, hardware, historyVars>>

ResetPending == ctl.resetSeq # seenResetSeq

ResetFault ==
  /\ pc = "reset" /\ ResetPending /\ ResetPossible(fm)
  /\ seenResetSeq' = ctl.resetSeq
  /\ fm' = ResetDone(fm)
  /\ control' = InvalidateCommand(control)
  /\ barrier' = [barrier EXCEPT !.reset = control'.commandSeq]
  /\ overrun' = [overrun EXCEPT !.stale = 0]
  /\ pc' = "resetResync"
  /\ UNCHANGED <<deviceRequests, running, ctl, faultReason, portOpen, latest,
                 seenCommandSeq, haveMotion, timeVars, mcuSafetyRequested,
                 hardware, line>>

\* Mutation: a request that is refused waits for better times.
SkipResetKeeping ==
  /\ pc = "reset" /\ ~(ResetPending /\ ResetPossible(fm))
  /\ pc' = "command"
  /\ UNCHANGED <<sharedVars, running, ctl, faultReason, fm, portOpen, latest,
                 seenVars, haveMotion, timeVars, mcuSafetyRequested,
                 hardware, historyVars>>

\* No request, or one that the state of the line refuses: it is used up.
SkipReset ==
  /\ pc = "reset" /\ ~(ResetPending /\ ResetPossible(fm))
  /\ seenResetSeq' = ctl.resetSeq
  /\ pc' = "command"
  /\ UNCHANGED <<sharedVars, running, ctl, faultReason, fm, portOpen, latest,
                 seenCommandSeq, haveMotion, timeVars, mcuSafetyRequested,
                 hardware, historyVars>>

\* seen_command_seq_ moves on; the local ctl is still the one of the top.
ResetResync ==
  /\ pc = "resetResync"
  /\ seenCommandSeq' = control.commandSeq
  /\ latest' = NoCommand
  /\ pc' = "command"
  /\ UNCHANGED <<sharedVars, running, ctl, faultReason, fm, portOpen,
                 seenResetSeq, haveMotion, timeVars, mcuSafetyRequested,
                 hardware, historyVars>>

CommandPending == ctl.commandSeq # seenCommandSeq

NoNewCommand ==
  /\ pc = "command" /\ ~CommandPending
  /\ pc' = "check"
  /\ UNCHANGED <<sharedVars, running, ctl, faultReason, fm, portOpen, latest,
                 seenVars, haveMotion, timeVars, mcuSafetyRequested, hardware,
                 historyVars>>

AcceptCommand ==
  /\ pc = "command" /\ CommandPending
  /\ ctl.haveCommand /\ ctl.command # NonFinite
  /\ seenCommandSeq' = ctl.commandSeq
  /\ latest' = [v |-> Clamp(ctl.command), seq |-> ctl.commandSeq]
  /\ fm' = NotifyValidCommand(fm)
  /\ pc' = "check"
  /\ UNCHANGED <<sharedVars, running, ctl, faultReason, portOpen, seenResetSeq,
                 haveMotion, timeVars, mcuSafetyRequested, hardware,
                 historyVars>>

RejectCommand ==
  /\ pc = "command" /\ CommandPending
  /\ ctl.haveCommand /\ ctl.command = NonFinite
  /\ seenCommandSeq' = ctl.commandSeq
  /\ latest' = NoCommand
  /\ fm' = NotifyInvalidCommand(fm)
  /\ control' = InvalidateCommand(control)
  /\ pc' = "invalidResync"
  /\ UNCHANGED <<deviceRequests, running, ctl, faultReason, portOpen,
                 seenResetSeq, haveMotion, timeVars, mcuSafetyRequested,
                 hardware, historyVars>>

InvalidResync ==
  /\ pc = "invalidResync"
  /\ seenCommandSeq' = control.commandSeq
  /\ pc' = "check"
  /\ UNCHANGED <<sharedVars, running, ctl, faultReason, fm, portOpen, latest,
                 seenResetSeq, haveMotion, timeVars, mcuSafetyRequested,
                 hardware, historyVars>>

\* Mutation: a withdrawn command is noted and goes on being sent.
CommandWithdrawnOnlyNoted ==
  /\ pc = "command" /\ CommandPending /\ ~ctl.haveCommand
  /\ seenCommandSeq' = ctl.commandSeq
  /\ pc' = "check"
  /\ UNCHANGED <<sharedVars, running, ctl, faultReason, fm, portOpen, latest,
                 seenResetSeq, haveMotion, timeVars, mcuSafetyRequested,
                 hardware, historyVars>>

CommandWithdrawn ==
  /\ pc = "command" /\ CommandPending /\ ~ctl.haveCommand
  /\ seenCommandSeq' = ctl.commandSeq
  /\ latest' = NoCommand
  /\ fm' = ForgetCommand(fm)
  /\ pc' = "check"
  /\ UNCHANGED <<sharedVars, running, ctl, faultReason, portOpen, seenResetSeq,
                 haveMotion, timeVars, mcuSafetyRequested, hardware,
                 historyVars>>

\* Mutation: the wait for the first frame is measured once it has come.
FirstFeedbackLate == haveMotion /\ connectedAge > FirstFeedbackTimeout

FirstFeedbackOverdue == ~haveMotion /\ connectedAge > FirstFeedbackTimeout

FeedbackTimedOut ==
  /\ pc = "check"
  /\ FeedbackTimeoutTransition(fm) \/ FirstFeedbackOverdue
  /\ fm' = Evaluated(fm)
  /\ HangUp("FeedbackTimeout")
  /\ UNCHANGED <<deviceRequests, running, ctl, seenVars, haveMotion, timeVars,
                 mcuSafetyRequested, hardware, barrier, overrun>>

Evaluate ==
  /\ pc = "check"
  /\ ~FeedbackTimeoutTransition(fm) /\ ~FirstFeedbackOverdue
  /\ fm' = Evaluated(fm)
  /\ pc' = "device"
  /\ UNCHANGED <<sharedVars, running, ctl, faultReason, portOpen, latest,
                 seenVars, haveMotion, timeVars, mcuSafetyRequested, hardware,
                 historyVars>>

-----------------------------------------------------------------------------
(***************************************************************************)
(* processDeviceRequests: the queue is drained, then written one by one.   *)
(***************************************************************************)
\* The positions of the queue that are written rather than skipped.
Permitted ==
  {i \in DOMAIN deviceRequests :
     deviceRequests[i].type = "McuSafety" =>
       deviceRequests[i].enabled \/ AllowMcuSafetyDisable}

LastMcuSafety(S) ==
  {i \in S : /\ deviceRequests[i].type = "McuSafety"
             /\ \A j \in S : deviceRequests[j].type = "McuSafety" => j <= i}

\* The MCU safety setting once the requests at S are handled, as a singleton.
McuSafetyAfter(S, before) ==
  IF LastMcuSafety(S) = {} THEN {before}
  ELSE {deviceRequests[i].enabled : i \in LastMcuSafety(S)}

WriteDeviceRequests ==
  /\ pc = "device"
  /\ deviceRequests' = << >>
  /\ mcuSafetyRequested' \in McuSafetyAfter(Permitted, mcuSafetyRequested)
  /\ \E on \in McuSafetyAfter(Permitted, line.mcuOn) :
       line' = [line EXCEPT !.mcuOn = on]
  /\ pc' = "send"
  /\ UNCHANGED <<control, running, ctl, faultReason, fm, portOpen, latest,
                 seenVars, haveMotion, timeVars, hardware, barrier, overrun>>

\* The write of request i fails: its setting is recorded, the rest is lost.
DeviceWriteFails(i) ==
  /\ pc = "device" /\ i \in Permitted
  /\ deviceRequests' = << >>
  /\ mcuSafetyRequested' \in
       McuSafetyAfter({j \in Permitted : j <= i}, mcuSafetyRequested)
  /\ FailedIo("SerialIo")
  /\ UNCHANGED <<running, ctl, fm, seenVars, haveMotion, timeVars, hardware,
                 barrier, overrun>>

-----------------------------------------------------------------------------
\* Mutation: the policy is bypassed.
OutputUnchecked == latest

\* chooseOutput
Output == IF CanMove(fm) THEN latest ELSE NoCommand

SendMotion ==
  /\ pc = "send" /\ Encodable(Output.v)
  /\ line' = [line EXCEPT !.sent = Output]
  /\ overrun' =
       [estop |-> IF Output.v # 0 /\ control.emergencyStop
                  THEN Saturated(overrun.estop) ELSE overrun.estop,
        stale |-> IF Output.v # 0 /\ Output.seq <= barrier.reset
                  THEN Saturated(overrun.stale) ELSE overrun.stale]
  /\ pc' = "publish"
  /\ UNCHANGED <<sharedVars, running, ctl, faultReason, fm, portOpen, latest,
                 seenVars, haveMotion, timeVars, mcuSafetyRequested, hardware,
                 barrier>>

\* The write fails and closes the port, or no frame can carry the velocity.
SendMotionFails ==
  /\ pc = "send"
  /\ IF Encodable(Output.v) THEN FailedIo("SerialIo") ELSE HangUp("SerialIo")
  /\ UNCHANGED <<deviceRequests, running, ctl, fm, seenVars, haveMotion,
                 timeVars, mcuSafetyRequested, hardware, barrier, overrun>>

\* refreshPublishedSnapshot and the end of the loop body: ctl goes out of scope.
Publish ==
  /\ pc = "publish"
  /\ hardware' = [fault |-> FaultSnapshot(fm),
                  mcuSafetyRequested |-> mcuSafetyRequested]
  /\ ctl' = InitialControl
  /\ pc' = "top"
  /\ UNCHANGED <<sharedVars, running, faultReason, fm, portOpen, latest,
                 seenVars, haveMotion, timeVars, mcuSafetyRequested,
                 historyVars>>

-----------------------------------------------------------------------------
(***************************************************************************)
(* stop(), from the destructor of the node once nothing spins any more:    *)
(* clear running_, join, and leave the line at rest.                       *)
(***************************************************************************)
Stop ==
  /\ running
  /\ running' = FALSE
  /\ UNCHANGED <<sharedVars, pc, ctl, faultReason, fm, portOpen, latest,
                 seenVars, haveMotion, timeVars, mcuSafetyRequested, hardware,
                 historyVars>>

\* Mutation: the port is left open.
JoinOnly ==
  /\ pc = "exited"
  /\ pc' = "stopped"
  /\ UNCHANGED <<sharedVars, running, ctl, faultReason, fm, portOpen, latest,
                 seenVars, haveMotion, timeVars, mcuSafetyRequested, hardware,
                 historyVars>>

JoinAndClose ==
  /\ pc = "exited"
  /\ portOpen' = FALSE
  /\ line' \in IF portOpen THEN {[line EXCEPT !.sent = NoCommand],
                                 [line EXCEPT !.failed = TRUE]}
               ELSE {line}
  /\ pc' = "stopped"
  /\ UNCHANGED <<sharedVars, running, ctl, faultReason, fm, latest, seenVars,
                 haveMotion, timeVars, mcuSafetyRequested, hardware, barrier,
                 overrun>>

Stopped == pc = "stopped" /\ UNCHANGED vars

-----------------------------------------------------------------------------
Connect ==
  \/ OpenFails \/ OpenSucceeds \/ ConnectResync
  \/ HandshakeDone \/ HandshakeZeroFails \/ HandshakeMcuSafetyFails

HandleControl ==
  \/ ResetFault \/ SkipReset \/ ResetResync
  \/ NoNewCommand \/ AcceptCommand \/ RejectCommand \/ InvalidResync
  \/ CommandWithdrawn

DriveLine ==
  \/ ReadFails \/ \E motion \in BOOLEAN : ReadAndProcess(motion)
  \/ FeedbackTimedOut \/ Evaluate
  \/ WriteDeviceRequests \/ \E i \in Permitted : DeviceWriteFails(i)
  \/ SendMotion \/ SendMotionFails

Worker ==
  \/ \E d \in 1 .. MaxStep : Sample(d)
  \/ ExitLoop
  \/ Connect
  \/ HandleControl
  \/ DriveLine
  \/ DisconnectResync
  \/ Publish

Next == Callback \/ Worker \/ Stop \/ JoinAndClose \/ Stopped

Spec == Init /\ [][Next]_vars

\* The thread is scheduled and each serial call returns, with or without
\* success; nothing is assumed of the callbacks or of the line's success.
FairSpec == Spec /\ WF_vars(Worker) /\ WF_vars(JoinAndClose)
=============================================================================
