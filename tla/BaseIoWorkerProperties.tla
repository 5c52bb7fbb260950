----------------------- MODULE BaseIoWorkerProperties -----------------------
(***************************************************************************)
(* What BaseIoWorker promises: to the people near the robot (no motion     *)
(* nobody currently asks for), to the operator (faults are kept and shown  *)
(* as they are), and to the rest of the system (the line comes back).      *)
(***************************************************************************)
EXTENDS BaseIoWorker

\* Every variable keeps to its type; ages and waits stay within their limits.
TypeOK ==
  /\ control \in ControlSnapshots
  /\ deviceRequests \in Seq(DeviceRequests)
  /\ running \in BOOLEAN
  /\ pc \in PCs
  /\ ctl \in ControlSnapshots
  /\ faultReason \in FaultCodes
  /\ fm \in FaultManagers
  /\ portOpen \in BOOLEAN
  /\ latest \in Outputs
  /\ seenCommandSeq \in Nat /\ seenResetSeq \in Nat
  /\ haveMotion \in BOOLEAN
  /\ connectedAge \in 0 .. FirstFeedbackTimeout + 1
  /\ reconnectWait \in 0 .. ReconnectPeriod
  /\ mcuSafetyRequested \in BOOLEAN
  /\ hardware \in [fault : FaultSnapshots, mcuSafetyRequested : BOOLEAN]
  /\ line \in Lines
  /\ barrier \in [connect : Nat, reset : Nat]
  /\ overrun \in [estop : 0 .. 2, stale : 0 .. 2]

Moving == line.sent.v # 0
BetweenIterations == pc \in {"publish", "top", "exited"}

-----------------------------------------------------------------------------
\* Once an iteration is over, an open line carries a nonzero velocity only if
\* the manager that iteration left behind allows motion: ready, no fault kept,
\* feedback and command both within their timeouts (run, 249-252).
MotionIsAuthorised ==
  BetweenIterations /\ portOpen /\ Moving =>
    CanMove(fm) /\ fm.fault = "None" /\ haveMotion

\* Whatever was asked before a connection was opened never moves the robot
\* over that connection: only a command submitted after it, and only after a
\* motion frame arrived on it (connectAndHandshake, disconnectForFault).
ConnectionFreshness ==
  portOpen /\ Moving => line.sent.seq > barrier.connect /\ haveMotion

\* While the emergency stop is held, at most one nonzero frame goes out: that
\* of the iteration which had read the control state before it was pressed.
EstopLatency == overrun.estop <= 1

\* After a successful reset at most one frame carries a command given before
\* it (the one ResetNeedsNewCommand exhibits); the next iteration withdraws it.
StaleAfterResetBounded == overrun.stale <= 1

\* A port the program closed was left at rest, unless the line itself failed.
ClosedAtRest == ~portOpen /\ Moving => line.failed

\* With the MCU's own safety configured on and not to be disabled, the robot
\* never moves on a connection before the request to enable it was written,
\* nor after any other; and the status says so.
McuSafetyBeforeMotion ==
  AutoEnableMcuSafety /\ ~AllowMcuSafetyDisable /\ portOpen /\ Moving =>
    line.mcuOn /\ mcuSafetyRequested

\* Where the safety may be switched off on request, the status shows what the
\* controller was last told, once an iteration is over (processDeviceRequests
\* records a request before it is written; connectAndHandshake after).
StatusShowsMcuSafety ==
  BetweenIterations /\ portOpen /\ AutoEnableMcuSafety =>
    mcuSafetyRequested = line.mcuOn

\* Between iterations the published status agrees with the line: READY means
\* an open port, fresh feedback, no emergency stop seen and no fault code, and
\* a fault code is shown exactly while the fault is kept.
PublishedStatusTrue ==
  LET s == hardware.fault
  IN  /\ s.state = "Ready" =>
           s.serialOpen /\ s.feedbackHealthy /\ ~s.emergencyStop
      /\ s.state = "FaultLatched" <=> s.fault # "None"
      /\ s.emergencyStop => s.state = "FaultLatched"
      /\ pc \in {"top", "exited"} => s.serialOpen = portOpen

-----------------------------------------------------------------------------
\* A fault, and its first cause, stay until a reset request is handled with
\* the port open, the feedback fresh and the emergency stop released
\* (latch, resetIfHealthy; run 201-208).
FaultKept ==
  Latched(fm) =>
    \/ Latched(fm') /\ fm'.fault = fm.fault
    \/ /\ seenResetSeq' # seenResetSeq
       /\ FeedbackHealthy(fm) /\ portOpen /\ ~ctl.emergencyStop

FaultKeptUntilReset == [][FaultKept]_vars

-----------------------------------------------------------------------------
(***************************************************************************)
(* Liveness, under FairSpec.  The callbacks submit finitely many commands  *)
(* (MaxCommandSeq), so "eventually" below means: once no command comes.    *)
(***************************************************************************)
\* Without new commands the robot comes to rest for good, whatever else
\* happens: the command timeout keeps sending zero (canMove, run 249).
CommandWatchdogStops == <>[](portOpen => ~Moving)

\* A held emergency stop ends in a kept fault and a line at rest.
HeldEstopStops ==
  control.emergencyStop ~>
    \/ ~control.emergencyStop \/ ~running
    \/ Latched(fm) /\ (portOpen => ~Moving)

\* A connection that never delivers a motion frame is given up
\* (first_feedback_timeout, run 234-241).
SilentLinkGivenUp == portOpen /\ ~haveMotion ~> haveMotion \/ ~portOpen

\* A link whose feedback stopped is closed, or revives, or the robot is
\* already held by a fault (evaluate, base_fault_manager.cpp 60-79).
FrozenLink ==
  portOpen /\ fm.haveFeedback /\ fm.feedbackAge > FeedbackTimeout
FrozenLinkNoticed == FrozenLink ~> ~FrozenLink \/ Latched(fm)

\* A reset that is requested is decided upon once a port is open: granted, or
\* used up rather than kept until the line recovers; while the port is
\* closed it waits (the only comparison of reset_seq is in run, 201).
ResetPendingOpen == control.resetSeq # seenResetSeq /\ portOpen
ResetAnswered == ResetPendingOpen ~> ~ResetPendingOpen \/ ~running

\* The thread never stops trying: a closed port is opened again, or tried
\* again and again (next_reconnect_, run 186-193).
KeepsReconnecting == []<>(portOpen \/ pc = "connect" \/ ~running)

\* stop() always returns, from wherever the thread was, with the port closed.
StopReturns == ~running ~> pc = "stopped" /\ ~portOpen

-----------------------------------------------------------------------------
(***************************************************************************)
(* What the repository's documents say and the code does not do.           *)
(***************************************************************************)
\* docs/ARCHITECTURE.md: "resetting a fault invalidates the old command; a
\* new command is required".  run() still holds the ctl of the loop top after
\* the reset, finds its commandSeq different from the one just recorded, and
\* adopts the old command afresh (201-225).
ResetNeedsNewCommand == portOpen /\ Moving => line.sent.seq > barrier.reset

\* docs/ARCHITECTURE.md: "e-stop -> latched fault + zero output".  The stop is
\* a level that the thread looks at once per iteration; pressed and released
\* between two looks it leaves no trace (control_state.cpp 9-12, run 184-185).
EstopPulseLatches == control.emergencyStop ~> Latched(fm) \/ ~running

\* docs/ARCHITECTURE.md: "feedback timeout -> zero best effort, latched fault,
\* close serial, reconnect".  While any fault is kept, evaluate() returns
\* before it looks at the feedback, and the frozen port stays open for good.
FrozenLinkReconnects == FrozenLink ~> ~FrozenLink \/ ~running

-----------------------------------------------------------------------------
(***************************************************************************)
(* The strengthening under which the invariants above are inductive: what  *)
(* the program points say of the port, of the fault manager, and of where  *)
(* the commands that are still around come from.                           *)
(***************************************************************************)
\* The points of an iteration at which the port is open and ctl is in use.
OpenIteration ==
  {"read", "reset", "resetResync", "command", "invalidResync", "check",
   "device", "send"}

PortInv ==
  /\ pc \in OpenIteration \cup {"connectResync", "handshake"} => portOpen
  /\ pc \in {"connect", "disconnectResync", "stopped"} => ~portOpen
  /\ pc \notin {"connectResync", "disconnectResync", "stopped"} =>
       fm.serialOpen = portOpen
  /\ pc = "disconnectResync" <=> faultReason # "None"

FaultInv ==
  /\ Consistent(fm)
  /\ pc \in OpenIteration => fm.emergencyStop = ctl.emergencyStop

FeedbackInv ==
  /\ portOpen /\ pc # "connectResync" => fm.haveFeedback = haveMotion
  /\ pc = "handshake" => ~haveMotion
  /\ pc \in {"device", "send", "publish"} /\ fm.state = "Ready" =>
       FeedbackHealthy(fm)

\* A command that could still be adopted or sent is newer than the barrier.
CommandInv ==
  /\ barrier.connect <= control.commandSeq
  /\ barrier.reset <= control.commandSeq
  /\ seenCommandSeq <= control.commandSeq
  /\ control.haveCommand => control.commandSeq > barrier.reset
  /\ pc \in {"connectResync", "disconnectResync", "invalidResync"} =>
       latest.v = 0
  /\ portOpen =>
       /\ control.haveCommand => control.commandSeq > barrier.connect
       /\ latest.v # 0 => latest.seq > barrier.connect
       /\ Moving => line.sent.seq > barrier.connect
  /\ pc \in OpenIteration =>
       /\ ctl.commandSeq <= control.commandSeq
       /\ ctl.haveCommand => /\ ctl.commandSeq > barrier.connect
                             /\ ctl.commandSeq # barrier.reset

LineInv ==
  /\ pc \in {"connectResync", "handshake"} => ~Moving
  /\ portOpen /\ Moving => haveMotion
  /\ ClosedAtRest
  /\ MotionIsAuthorised
  /\ AutoEnableMcuSafety /\ ~AllowMcuSafetyDisable /\ portOpen
     /\ pc \notin {"connectResync", "handshake"} =>
       line.mcuOn /\ mcuSafetyRequested

EstopInv ==
  /\ EstopLatency
  /\ overrun.estop # 0 =>
       control.emergencyStop /\ (pc \in OpenIteration => ctl.emergencyStop)

\* Once a stale frame is out, the very next look at the control state
\* replaces latest_command_.
StaleLatest == latest.v # 0 /\ latest.seq <= barrier.reset

StaleInv ==
  /\ StaleAfterResetBounded
  /\ StaleLatest => seenCommandSeq < barrier.reset
  /\ overrun.stale # 0 =>
       /\ pc \in OpenIteration =>
            /\ ctl.commandSeq >= barrier.reset
            /\ ctl.haveCommand => ctl.commandSeq > barrier.reset
       /\ pc \in {"invalidResync", "check", "device", "send"} => ~StaleLatest

\* Once the handshake is over, record and line agree at every point.
McuInv ==
  portOpen /\ AutoEnableMcuSafety /\ pc \notin {"connectResync", "handshake"} =>
    mcuSafetyRequested = line.mcuOn

\* The inductive invariant of BaseIoWorkerSafetyProofs; McuInv is one on top of it.
IInv ==
  /\ TypeOK
  /\ PortInv /\ FaultInv /\ FeedbackInv /\ CommandInv
  /\ LineInv /\ EstopInv /\ StaleInv
  /\ PublishedStatusTrue
=============================================================================
