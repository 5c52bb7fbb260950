---------------------- MODULE BaseIoWorkerSafetyProofs ----------------------
(***************************************************************************)
(* IInv of BaseIoWorkerProperties is inductive, and what follows from it.  *)
(* One lemma per conjunct says that every step keeps it; each names the    *)
(* conjuncts of the state before that it needs.  The last part, which      *)
(* rests on it, is that the worker implements BaseContract.                *)
(***************************************************************************)
EXTENDS BaseIoWorkerProofs, BaseIoWorkerRefinement

\* Where the port is open, and what the fault manager believes of it.
LEMMA PortStep ==
  ASSUME TypeOK, PortInv, [Next]_vars
  PROVE  PortInv'
<1> USE DEF PortInv, OpenIteration, sharedVars, seenVars, timeVars, historyVars
<1>1. CASE Callback \/ Stop \/ JoinAndClose \/ Stopped \/ UNCHANGED vars
  BY <1>1 DEF Callback, OnVelocity, OnEmergencyStop, OnReset, OnDeviceRequest,
              Stop, JoinAndClose, Stopped, vars, workerVars
<1>2. ASSUME NEW d \in 1 .. MaxStep, Sample(d) PROVE PortInv'
  BY <1>2 DEF Sample, ObserveEmergencyStop, Elapse, Latch, TypeOK, FaultManagers
<1>3. CASE ExitLoop \/ Publish
  BY <1>3 DEF ExitLoop, Publish
<1>4. CASE DisconnectResync
  BY <1>4 DEF DisconnectResync, NotifySerialDisconnected, ClearFreshness, Latch,
              TypeOK, FaultManagers
<1>5. CASE Connect
  BY <1>5 DEF Connect, OpenFails, OpenSucceeds, ConnectResync, HandshakeDone,
              HandshakeZeroFails, HandshakeMcuSafetyFails, FailedIo,
              Disconnecting, NotifySerialConnected, ClearFreshness,
              NotifyMcuSafetyConfigFailure, Latch, TypeOK, FaultManagers
<1>6. CASE HandleControl
  BY <1>6 DEF HandleControl, ResetFault, SkipReset, ResetResync, NoNewCommand,
              AcceptCommand, RejectCommand, InvalidResync, CommandWithdrawn,
              ResetDone, ForgetCommand, NotifyValidCommand,
              NotifyInvalidCommand, Latch, TypeOK, FaultManagers
<1>7. CASE DriveLine
  BY <1>7 DEF DriveLine, ReadFails, ReadAndProcess, FeedbackTimedOut, Evaluate,
              WriteDeviceRequests, DeviceWriteFails, SendMotion,
              SendMotionFails, FailedIo, HangUp, Disconnecting,
              NotifyMotionFeedback, Evaluated, Latch, TypeOK, FaultManagers
<1> QED BY <1>1, <1>2, <1>3, <1>4, <1>5, <1>6, <1>7 DEF Next, Worker

\* The steps that leave the fault manager alone, and what else they leave.
LEMMA QuietSteps ==
  ASSUME Callback \/ Stop \/ JoinAndClose \/ Stopped \/ UNCHANGED vars
  PROVE  /\ UNCHANGED <<ctl, faultReason, fm, latest, seenVars, haveMotion,
                        timeVars, mcuSafetyRequested, hardware, barrier>>
         /\ UNCHANGED pc \/ (pc = "exited" /\ pc' = "stopped")
         /\ UNCHANGED portOpen \/ ~portOpen'
BY DEF Callback, OnVelocity, OnEmergencyStop, OnReset, OnDeviceRequest, Stop,
       JoinAndClose, Stopped, vars, workerVars, sharedVars, seenVars, timeVars,
       historyVars

\* The fault manager stays consistent, and has seen the switch of its ctl.
LEMMA FaultStep ==
  ASSUME TypeOK, PortInv, FaultInv, [Next]_vars
  PROVE  FaultInv'
<1> USE DEF FaultInv, OpenIteration
<1>1. fm \in FaultManagers /\ Consistent(fm)
  BY DEF TypeOK
<1>2. /\ {"SerialIo", "FeedbackTimeout"} \subseteq FaultCodes \ {"None"}
      /\ pc = "disconnectResync" => faultReason \in FaultCodes \ {"None"}
  BY DEF FaultCodes, TypeOK, PortInv
<1>3. CASE Callback \/ Stop \/ JoinAndClose \/ Stopped \/ UNCHANGED vars
  BY <1>3, QuietSteps
<1>4. ASSUME NEW d \in 1 .. MaxStep, Sample(d) PROVE FaultInv'
  <2>1. d \in Nat /\ control.emergencyStop \in BOOLEAN
    BY WorkerAssumption DEF TypeOK, ControlSnapshots
  <2>2. Elapse(fm, d) \in FaultManagers /\ Consistent(Elapse(fm, d))
    BY <1>1, <2>1, ElapseType, EvaluateConsistent
  <2>3. Consistent(fm') /\ fm'.emergencyStop = control.emergencyStop
    BY <1>1, <1>4, <2>1, <2>2, EvaluateConsistent, SampleFrame DEF Sample
  <2> QED BY <1>4, <2>3 DEF Sample
<1>5. CASE ExitLoop \/ Publish
  BY <1>5 DEF ExitLoop, Publish
<1>6. CASE DisconnectResync
  BY <1>1, <1>2, <1>6, NotifyConsistent DEF DisconnectResync
<1>7. CASE Connect
  <2>1. Consistent(fm')
    BY <1>1, <1>2, <1>7, NotifyConsistent
    DEF Connect, OpenFails, OpenSucceeds, ConnectResync, HandshakeDone,
        HandshakeZeroFails, HandshakeMcuSafetyFails
  <2>2. pc' \notin OpenIteration
    BY <1>7
    DEF Connect, OpenFails, OpenSucceeds, ConnectResync, HandshakeDone,
        HandshakeZeroFails, HandshakeMcuSafetyFails, FailedIo, Disconnecting
  <2> QED BY <2>1, <2>2
<1>8. CASE HandleControl
  <2>1. pc \in OpenIteration /\ ctl' = ctl
    BY <1>8
    DEF HandleControl, ResetFault, SkipReset, ResetResync, NoNewCommand,
        AcceptCommand, RejectCommand, InvalidResync, CommandWithdrawn
  <2>2. \/ fm' = ResetDone(fm) /\ ResetPossible(fm)
        \/ fm' \in {fm, NotifyValidCommand(fm), NotifyInvalidCommand(fm),
                   ForgetCommand(fm)}
    BY <1>8
    DEF HandleControl, ResetFault, SkipReset, ResetResync, NoNewCommand,
        AcceptCommand, RejectCommand, InvalidResync, CommandWithdrawn
  <2>3. Consistent(fm')
    BY <1>1, <1>2, <2>2, NotifyConsistent, EvaluateConsistent
  <2>4. fm'.emergencyStop = fm.emergencyStop
    BY <1>1, <2>2, OtherFrame
  <2> QED BY <2>1, <2>3, <2>4
<1>9. CASE DriveLine
  <2>1. pc \in OpenIteration /\ (pc' \in OpenIteration => ctl' = ctl)
    BY <1>9
    DEF DriveLine, ReadFails, ReadAndProcess, FeedbackTimedOut, Evaluate,
        WriteDeviceRequests, DeviceWriteFails, SendMotion, SendMotionFails
  <2>2. fm' \in {fm, NotifyMotionFeedback(fm), Evaluated(fm)}
    BY <1>9
    DEF DriveLine, ReadFails, ReadAndProcess, FeedbackTimedOut, Evaluate,
        WriteDeviceRequests, DeviceWriteFails, SendMotion, SendMotionFails
  <2>3. fm.serialOpen
    BY <2>1 DEF PortInv
  <2>4. Consistent(fm')
    BY <1>1, <1>2, <2>2, <2>3, NotifyConsistent, EvaluateConsistent
  <2>5. fm'.emergencyStop = fm.emergencyStop
    <3>1. NotifyMotionFeedback(fm).emergencyStop = fm.emergencyStop
      BY <1>1, <1>2, SerialFrame
    <3> QED BY <1>1, <2>2, <3>1, OtherFrame
  <2> QED BY <2>1, <2>4, <2>5
<1> QED
  BY <1>3, <1>4, <1>5, <1>6, <1>7, <1>8, <1>9 DEF Next, Worker

\* Feedback counts for this connection only, and READY is re-earned each time.
LEMMA FeedbackStep ==
  ASSUME TypeOK, PortInv, FaultInv, FeedbackInv, [Next]_vars
  PROVE  FeedbackInv'
<1> USE DEF FeedbackInv
<1>1. fm \in FaultManagers /\ faultReason \in FaultCodes
      /\ {"SerialIo", "FeedbackTimeout"} \subseteq FaultCodes
  BY DEF TypeOK, FaultCodes
<1>2. ASSUME ~portOpen, pc \notin {"connectResync", "disconnectResync", "stopped"}
      PROVE  fm.state # "Ready" /\ ~fm.haveFeedback
  BY <1>2 DEF PortInv, FaultInv, Consistent
<1>3. CASE Callback \/ Stop \/ JoinAndClose \/ Stopped \/ UNCHANGED vars
  BY <1>3, QuietSteps
<1>4. ASSUME NEW d \in 1 .. MaxStep, Sample(d) PROVE FeedbackInv'
  <2>1. d \in Nat /\ control.emergencyStop \in BOOLEAN
    BY WorkerAssumption DEF TypeOK, ControlSnapshots
  <2>2. fm'.haveFeedback = fm.haveFeedback
    BY <1>1, <1>4, <2>1, SampleFrame DEF Sample
  <2>3. pc' = "publish" => fm.state # "Ready" /\ ~portOpen
    BY <1>2, <1>4 DEF Sample
  <2>4. fm'.state = "Ready" => fm.state = "Ready"
    BY <1>1, <1>4, <2>1
    DEF Sample, ObserveEmergencyStop, Elapse, Latch, FaultManagers
  <2>5. /\ pc \notin {"connectResync", "handshake"}
        /\ pc' \in {"read", "connect", "publish"}
        /\ portOpen' = portOpen /\ haveMotion' = haveMotion
    BY <1>4 DEF Sample
  <2> QED BY <2>2, <2>3, <2>4, <2>5
<1>5. CASE ExitLoop \/ Publish
  BY <1>5 DEF ExitLoop, Publish
<1>6. CASE DisconnectResync
  <2>1. fm'.state # "Ready"
    BY <1>1, <1>6
    DEF DisconnectResync, NotifySerialDisconnected, ClearFreshness, Latch,
        FaultManagers
  <2> QED BY <1>6, <2>1 DEF DisconnectResync, PortInv
<1>7. CASE Connect
  <2>1. CASE OpenFails
    BY <1>2, <2>1 DEF OpenFails, PortInv
  <2>2. CASE OpenSucceeds
    BY <2>2 DEF OpenSucceeds
  <2>3. CASE ConnectResync
    BY <1>1, <2>3, SerialFrame DEF ConnectResync
  <2>4. CASE HandshakeDone
    <3>1. portOpen /\ ~haveMotion /\ pc = "handshake"
      BY <2>4 DEF HandshakeDone, PortInv
    <3>2. fm.state # "Ready"
      BY <3>1 DEF FaultInv, Consistent
    <3> QED BY <2>4, <3>1, <3>2 DEF HandshakeDone
  <2>5. CASE HandshakeZeroFails \/ HandshakeMcuSafetyFails
    BY <2>5 DEF HandshakeZeroFails, HandshakeMcuSafetyFails, FailedIo,
                Disconnecting
  <2> QED BY <1>7, <2>1, <2>2, <2>3, <2>4, <2>5 DEF Connect
<1>8. CASE HandleControl
  <2>1. /\ pc' \in {"resetResync", "command", "invalidResync", "check"}
        /\ haveMotion' = haveMotion /\ portOpen' = portOpen
        /\ pc # "connectResync"
    BY <1>8
    DEF HandleControl, ResetFault, SkipReset, ResetResync, NoNewCommand,
        AcceptCommand, RejectCommand, InvalidResync, CommandWithdrawn
  <2>2. fm' \in {fm, ResetDone(fm), NotifyValidCommand(fm),
               NotifyInvalidCommand(fm), ForgetCommand(fm)}
    BY <1>8
    DEF HandleControl, ResetFault, SkipReset, ResetResync, NoNewCommand,
        AcceptCommand, RejectCommand, InvalidResync, CommandWithdrawn
  <2>3. fm'.haveFeedback = fm.haveFeedback
    BY <1>1, <2>2, OtherFrame
  <2> QED BY <2>1, <2>3
<1>9. CASE DriveLine
  <2>1. CASE ReadFails \/ FeedbackTimedOut \/ SendMotionFails
             \/ \E i \in Permitted : DeviceWriteFails(i)
    BY <2>1 DEF ReadFails, FeedbackTimedOut, SendMotionFails, DeviceWriteFails,
                FailedIo, HangUp, Disconnecting
  <2>2. ASSUME NEW motion \in BOOLEAN, ReadAndProcess(motion)
        PROVE  FeedbackInv'
    <3>1. CASE motion = TRUE
      BY <1>1, <2>2, <3>1, SerialFrame DEF ReadAndProcess, TypeOK
    <3>2. CASE motion = FALSE
      BY <2>2, <3>2 DEF ReadAndProcess, TypeOK
    <3> QED BY <3>1, <3>2
  <2>3. CASE Evaluate
    BY <1>1, <2>3, OtherFrame, EvaluatedReady DEF Evaluate
  <2>4. CASE WriteDeviceRequests
    BY <2>4 DEF WriteDeviceRequests
  <2>5. CASE SendMotion
    BY <2>5 DEF SendMotion
  <2> QED BY <1>9, <2>1, <2>2, <2>3, <2>4, <2>5 DEF DriveLine
<1> QED
  BY <1>3, <1>4, <1>5, <1>6, <1>7, <1>8, <1>9 DEF Next, Worker

-----------------------------------------------------------------------------
\* What an invalidation does to the shared state.
LEMMA InvalidateFrame ==
  ASSUME NEW c \in ControlSnapshots
  PROVE  /\ InvalidateCommand(c).commandSeq = c.commandSeq + 1
         /\ InvalidateCommand(c).haveCommand = FALSE
         /\ InvalidateCommand(c).emergencyStop = c.emergencyStop
         /\ c.commandSeq \in Nat
BY DEF InvalidateCommand, ControlSnapshots

\* What the callbacks do to it: a command comes with a fresh commandSeq.
LEMMA CallbackControl ==
  ASSUME TypeOK,
         Callback \/ Stop \/ JoinAndClose \/ Stopped \/ UNCHANGED vars
  PROVE  \/ /\ control'.commandSeq = control.commandSeq
            /\ control'.haveCommand = control.haveCommand
         \/ control'.commandSeq = control.commandSeq + 1
BY DEF TypeOK, ControlSnapshots, Callback, OnVelocity, SubmitVelocity,
       OnEmergencyStop, SetEmergencyStop, OnReset, RequestReset,
       OnDeviceRequest, EnqueueDeviceRequest, Stop, JoinAndClose, Stopped,
       vars, workerVars, sharedVars, seenVars, timeVars, historyVars

\* What a failed call, or the program itself, does when it hangs up.
LEMMA HangUpFrame ==
  ASSUME TypeOK, NEW reason, FailedIo(reason) \/ HangUp(reason)
  PROVE  /\ portOpen' = FALSE /\ latest' = NoCommand
         /\ control'.commandSeq = control.commandSeq + 1
         /\ control'.haveCommand = FALSE
         /\ control'.emergencyStop = control.emergencyStop
         /\ faultReason' = reason /\ pc' = "disconnectResync"
         /\ line'.sent.v = 0 \/ line'.failed
<1>1. line' \in {[line EXCEPT !.sent = NoCommand], [line EXCEPT !.failed = TRUE]}
  BY DEF FailedIo, HangUp
<1>2. line'.sent.v = 0 \/ line'.failed
  BY <1>1 DEF TypeOK, Lines, NoCommand
<1> QED
  BY <1>2, InvalidateFrame DEF FailedIo, HangUp, Disconnecting, TypeOK

\* The steps that hang up, and what they leave.
HangUpStep ==
  \/ HandshakeZeroFails \/ HandshakeMcuSafetyFails
  \/ ReadFails \/ FeedbackTimedOut \/ SendMotionFails
  \/ \E i \in Permitted : DeviceWriteFails(i)

\* They differ in the cause and in what they did to the fault manager only.
LEMMA HangUpStepFrame ==
  ASSUME TypeOK, HangUpStep
  PROVE  /\ \E reason \in {"SerialIo", "McuSafetyConfig", "FeedbackTimeout"} :
              FailedIo(reason) \/ HangUp(reason)
         /\ UNCHANGED <<ctl, seenVars, haveMotion, timeVars, barrier, overrun>>
         /\ pc' = "disconnectResync" /\ portOpen' = FALSE
         /\ latest' = NoCommand
         /\ control'.commandSeq = control.commandSeq + 1
         /\ control'.haveCommand = FALSE
         /\ control'.emergencyStop = control.emergencyStop
         /\ line'.sent.v = 0 \/ line'.failed
<1>1. \E reason \in {"SerialIo", "McuSafetyConfig", "FeedbackTimeout"} :
        FailedIo(reason) \/ HangUp(reason)
  BY DEF HangUpStep, HandshakeZeroFails, HandshakeMcuSafetyFails, ReadFails,
         FeedbackTimedOut, SendMotionFails, DeviceWriteFails
<1>2. UNCHANGED <<ctl, seenVars, haveMotion, timeVars, barrier, overrun>>
  BY DEF HangUpStep, HandshakeZeroFails, HandshakeMcuSafetyFails, ReadFails,
         FeedbackTimedOut, SendMotionFails, DeviceWriteFails
<1> QED BY <1>1, <1>2, HangUpFrame

-----------------------------------------------------------------------------
\* Whatever can still be adopted or sent is newer than the invalidations.
LEMMA CommandStep ==
  ASSUME TypeOK, PortInv, FeedbackInv, CommandInv, [Next]_vars
  PROVE  CommandInv'
<1> USE DEF CommandInv, OpenIteration, Moving
<1>1. /\ control \in ControlSnapshots /\ control.commandSeq \in Nat
      /\ barrier.connect \in Nat /\ barrier.reset \in Nat
      /\ seenCommandSeq \in Nat
      /\ pc \in OpenIteration => ctl.commandSeq \in Nat
  BY DEF TypeOK, ControlSnapshots
<1>2. CASE Callback \/ Stop \/ JoinAndClose \/ Stopped \/ UNCHANGED vars
  <2>1. UNCHANGED line \/ JoinAndClose
    BY <1>2 DEF Callback, OnVelocity, OnEmergencyStop, OnReset, OnDeviceRequest,
                Stop, Stopped, vars, workerVars, historyVars
  <2>2. JoinAndClose => ~portOpen'
    BY DEF JoinAndClose
  <2> QED BY <1>1, <1>2, <2>1, <2>2, QuietSteps, CallbackControl DEF seenVars
<1>3. CASE HangUpStep
  BY <1>1, <1>3, HangUpStepFrame DEF NoCommand, seenVars
<1>4. ASSUME NEW d \in 1 .. MaxStep, Sample(d) PROVE CommandInv'
  <2>1. /\ ctl' = control /\ pc' \in {"read", "connect", "publish"}
        /\ pc' = "read" => portOpen
        /\ UNCHANGED <<control, portOpen, latest, seenCommandSeq, line, barrier>>
    BY <1>4 DEF Sample, sharedVars, seenVars, historyVars
  <2> QED BY <1>1, <2>1
<1>5. CASE ExitLoop \/ Publish \/ OpenFails
  BY <1>5 DEF ExitLoop, Publish, OpenFails, sharedVars, seenVars, historyVars
<1>6. CASE DisconnectResync
  BY <1>1, <1>6 DEF DisconnectResync, PortInv, sharedVars, historyVars
<1>7. CASE OpenSucceeds
  <2>1. /\ control'.commandSeq = control.commandSeq + 1
        /\ control'.haveCommand = FALSE
        /\ barrier'.connect = control'.commandSeq
        /\ barrier'.reset = barrier.reset
        /\ latest' = NoCommand /\ line' = FreshLine
        /\ seenCommandSeq' = seenCommandSeq /\ pc' = "connectResync"
    BY <1>1, <1>7, InvalidateFrame DEF OpenSucceeds, TypeOK, seenVars
  <2> QED BY <1>1, <2>1 DEF NoCommand, FreshLine
<1>8. CASE ConnectResync \/ HandshakeDone
  <2>1. /\ UNCHANGED <<control, portOpen, latest, barrier>>
        /\ pc' \in {"handshake", "publish"}
        /\ seenCommandSeq' \in {seenCommandSeq, control.commandSeq}
    BY <1>8 DEF ConnectResync, HandshakeDone, sharedVars, seenVars, historyVars
  <2>2. line'.sent \in {line.sent, NoCommand}
    BY <1>8 DEF ConnectResync, HandshakeDone, historyVars, TypeOK, Lines
  <2> QED BY <1>1, <2>1, <2>2 DEF NoCommand
<1>9. CASE ResetFault
  <2>1. /\ control'.commandSeq = control.commandSeq + 1
        /\ control'.haveCommand = FALSE
        /\ barrier'.reset = control'.commandSeq
        /\ barrier'.connect = barrier.connect
        /\ UNCHANGED <<ctl, portOpen, latest, seenCommandSeq, line>>
        /\ pc \in OpenIteration /\ pc' = "resetResync"
    BY <1>1, <1>9, InvalidateFrame DEF ResetFault, TypeOK, seenVars
  <2> QED BY <1>1, <2>1
<1>10. CASE SkipReset \/ ResetResync \/ NoNewCommand \/ InvalidResync
            \/ CommandWithdrawn
  BY <1>1, <1>10 DEF SkipReset, ResetResync, NoNewCommand, InvalidResync,
                     CommandWithdrawn, sharedVars, seenVars, historyVars,
                     NoCommand
<1>11. CASE AcceptCommand
  <2>1. /\ latest'.seq = ctl.commandSeq /\ seenCommandSeq' = ctl.commandSeq
        /\ UNCHANGED <<control, ctl, portOpen, line, barrier>>
        /\ ctl.haveCommand /\ pc = "command" /\ pc' = "check"
    BY <1>11 DEF AcceptCommand, sharedVars, historyVars
  <2> QED BY <1>1, <2>1
<1>12. CASE RejectCommand
  <2>1. /\ control'.commandSeq = control.commandSeq + 1
        /\ control'.haveCommand = FALSE
        /\ latest' = NoCommand /\ seenCommandSeq' = ctl.commandSeq
        /\ UNCHANGED <<ctl, portOpen, line, barrier>>
        /\ pc = "command"
    BY <1>1, <1>12, InvalidateFrame DEF RejectCommand, TypeOK, historyVars
  <2> QED BY <1>1, <2>1 DEF NoCommand
<1>13. CASE Evaluate \/ \E motion \in BOOLEAN : ReadAndProcess(motion)
  BY <1>1, <1>13 DEF Evaluate, ReadAndProcess, sharedVars, seenVars,
                     historyVars
<1>14. CASE WriteDeviceRequests
  <2>1. /\ line'.sent = line.sent
        /\ UNCHANGED <<control, ctl, portOpen, latest, seenCommandSeq, barrier>>
        /\ pc = "device" /\ pc' = "send"
    BY <1>14 DEF WriteDeviceRequests, seenVars, TypeOK, Lines
  <2> QED BY <1>1, <2>1
<1>15. CASE SendMotion
  <2>1. /\ line'.sent = Output
        /\ UNCHANGED <<control, ctl, portOpen, latest, seenCommandSeq, barrier>>
        /\ pc = "send" /\ pc' = "publish"
    BY <1>15 DEF SendMotion, sharedVars, seenVars, TypeOK, Lines
  <2> QED BY <1>1, <2>1 DEF Output, NoCommand
<1> QED
  BY <1>2, <1>3, <1>4, <1>5, <1>6, <1>7, <1>8, <1>9, <1>10, <1>11, <1>12,
     <1>13, <1>14, <1>15
  DEF Next, Worker, Connect, HandleControl, DriveLine, HangUpStep

-----------------------------------------------------------------------------
\* Without permission to disable it, the requests only switch MCU safety on.
LEMMA McuSafetyStaysOn ==
  ASSUME TypeOK, ~AllowMcuSafetyDisable
  PROVE  McuSafetyAfter(Permitted, TRUE) \subseteq {TRUE}
<1>1. \A i \in LastMcuSafety(Permitted) : deviceRequests[i].enabled = TRUE
  <2> SUFFICES ASSUME NEW i \in LastMcuSafety(Permitted)
               PROVE  deviceRequests[i].enabled = TRUE
    OBVIOUS
  <2>1. i \in DOMAIN deviceRequests /\ deviceRequests[i].enabled
    BY DEF LastMcuSafety, Permitted
  <2>2. deviceRequests[i] \in DeviceRequests
    BY <2>1 DEF TypeOK
  <2> QED BY <2>1, <2>2 DEF DeviceRequests
<1> QED BY <1>1 DEF McuSafetyAfter

\* What the line carries is authorised; a closed line is at rest or failed.
LEMMA LineStep ==
  ASSUME TypeOK, PortInv, FaultInv, FeedbackInv, LineInv, [Next]_vars
  PROVE  LineInv'
<1> USE DEF LineInv, ClosedAtRest, MotionIsAuthorised, BetweenIterations,
            Moving
<1>1. line \in Lines /\ portOpen \in BOOLEAN
  BY DEF TypeOK
<1>2. CASE Callback \/ Stop \/ Stopped \/ UNCHANGED vars
  <2>1. UNCHANGED <<pc, fm, portOpen, haveMotion, mcuSafetyRequested, line>>
    BY <1>2 DEF Callback, OnVelocity, OnEmergencyStop, OnReset, OnDeviceRequest,
                Stop, Stopped, vars, workerVars, historyVars
  <2> QED BY <2>1
<1>3. CASE JoinAndClose
  <2>1. /\ portOpen' = FALSE /\ pc' = "stopped"
        /\ line'.sent.v = 0 \/ line'.failed \/ (line' = line /\ ~portOpen)
    BY <1>1, <1>3 DEF JoinAndClose, Lines, NoCommand
  <2> QED BY <2>1
<1>4. CASE HangUpStep
  BY <1>4, HangUpStepFrame
<1>5. ASSUME NEW d \in 1 .. MaxStep, Sample(d) PROVE LineInv'
  <2>1. /\ pc' \in {"read", "connect", "publish"}
        /\ pc' = "publish" => ~portOpen
        /\ UNCHANGED <<portOpen, haveMotion, mcuSafetyRequested, line>>
        /\ pc = "top"
    BY <1>5 DEF Sample, historyVars
  <2> QED BY <2>1
<1>6. CASE ExitLoop \/ Publish
  BY <1>6 DEF ExitLoop, Publish, historyVars
<1>7. CASE OpenFails \/ DisconnectResync
  <2>1. ~portOpen /\ UNCHANGED <<portOpen, line>> /\ pc' = "publish"
    BY <1>7 DEF OpenFails, DisconnectResync, historyVars, PortInv
  <2> QED BY <2>1
<1>8. CASE OpenSucceeds
  BY <1>8 DEF OpenSucceeds, FreshLine, NoCommand
<1>9. CASE ConnectResync
  <2>1. /\ ~Moving /\ UNCHANGED <<portOpen, line>> /\ pc' = "handshake"
        /\ portOpen
    BY <1>9 DEF ConnectResync, historyVars, PortInv
  <2> QED BY <2>1
<1>10. CASE HandshakeDone
  <2>1. /\ line'.sent = NoCommand
        /\ AutoEnableMcuSafety => line'.mcuOn /\ mcuSafetyRequested'
        /\ portOpen' = portOpen /\ portOpen /\ pc' = "publish"
    BY <1>1, <1>10 DEF HandshakeDone, Lines, PortInv
  <2> QED BY <2>1 DEF NoCommand
<1>11. CASE HandleControl
  <2>1. /\ UNCHANGED <<portOpen, haveMotion, mcuSafetyRequested, line>>
        /\ pc \in OpenIteration /\ pc' \in OpenIteration
    BY <1>11
    DEF HandleControl, ResetFault, SkipReset, ResetResync, NoNewCommand,
        AcceptCommand, RejectCommand, InvalidResync, CommandWithdrawn,
        OpenIteration, historyVars
  <2> QED BY <2>1 DEF OpenIteration, PortInv
<1>12. CASE Evaluate \/ \E motion \in BOOLEAN : ReadAndProcess(motion)
  <2>1. /\ UNCHANGED <<portOpen, mcuSafetyRequested, line>>
        /\ pc \in OpenIteration /\ pc' \in {"reset", "device"}
    BY <1>12 DEF Evaluate, ReadAndProcess, OpenIteration, historyVars
  <2>2. haveMotion => haveMotion'
    BY <1>12 DEF Evaluate, ReadAndProcess
  <2> QED BY <2>1, <2>2 DEF OpenIteration, PortInv
<1>13. CASE WriteDeviceRequests
  <2>1. /\ line'.sent = line.sent /\ line'.failed = line.failed
        /\ line'.mcuOn \in McuSafetyAfter(Permitted, line.mcuOn)
        /\ mcuSafetyRequested' \in McuSafetyAfter(Permitted, mcuSafetyRequested)
        /\ UNCHANGED <<portOpen, haveMotion>>
        /\ pc = "device" /\ pc' = "send"
    BY <1>1, <1>13 DEF WriteDeviceRequests, Lines
  <2>2. ASSUME AutoEnableMcuSafety, ~AllowMcuSafetyDisable, portOpen
        PROVE  line'.mcuOn /\ mcuSafetyRequested'
    <3>1. line.mcuOn = TRUE /\ mcuSafetyRequested = TRUE
      BY <1>1, <2>1, <2>2 DEF TypeOK, Lines
    <3> QED BY <2>1, <2>2, <3>1, McuSafetyStaysOn
  <2> QED BY <2>1, <2>2
<1>14. CASE SendMotion
  <2>1. /\ line'.sent = Output /\ line'.mcuOn = line.mcuOn
        /\ UNCHANGED <<fm, portOpen, haveMotion, mcuSafetyRequested>>
        /\ pc = "send" /\ pc' = "publish"
    BY <1>1, <1>14 DEF SendMotion, Lines
  <2>2. portOpen
    BY <2>1 DEF PortInv, OpenIteration
  <2>3. CanMove(fm) => fm.fault = "None" /\ fm.haveFeedback
    BY DEF CanMove, FeedbackHealthy, FaultInv, Consistent, Latched
  <2>4. fm.haveFeedback = haveMotion
    BY <2>1, <2>2 DEF FeedbackInv
  <2>5. Output.v # 0 => CanMove(fm)
    BY DEF Output, NoCommand
  <2>6. CanMove(fm)' <=> CanMove(fm)
    BY <2>1 DEF CanMove, FeedbackHealthy, CommandHealthy
  <2> QED BY <2>1, <2>2, <2>3, <2>4, <2>5, <2>6
<1> QED
  BY <1>2, <1>3, <1>4, <1>5, <1>6, <1>7, <1>8, <1>9, <1>10, <1>11, <1>12,
     <1>13, <1>14
  DEF Next, Worker, Connect, DriveLine, HangUpStep

-----------------------------------------------------------------------------
\* The steps of the thread that neither look at the clock nor send motion.
OtherStep ==
  \/ ExitLoop \/ Publish \/ DisconnectResync
  \/ OpenFails \/ OpenSucceeds \/ ConnectResync \/ HandshakeDone
  \/ HandleControl \/ Evaluate \/ WriteDeviceRequests
  \/ \E motion \in BOOLEAN : ReadAndProcess(motion)

\* They read the switch nowhere, and an iteration keeps the ctl it began with.
LEMMA OtherStepFrame ==
  ASSUME TypeOK, OtherStep
  PROVE  /\ control'.emergencyStop = control.emergencyStop
         /\ overrun'.estop = overrun.estop
         /\ pc' \in OpenIteration => pc \in OpenIteration /\ ctl' = ctl
<1> USE InvalidateFrame DEF TypeOK, sharedVars, historyVars, OpenIteration
<1>1. CASE ExitLoop \/ Publish \/ DisconnectResync
  BY <1>1 DEF ExitLoop, Publish, DisconnectResync
<1>2. CASE OpenFails \/ OpenSucceeds \/ ConnectResync \/ HandshakeDone
  BY <1>2 DEF OpenFails, OpenSucceeds, ConnectResync, HandshakeDone
<1>3. CASE HandleControl
  BY <1>3
  DEF HandleControl, ResetFault, SkipReset, ResetResync, NoNewCommand,
      AcceptCommand, RejectCommand, InvalidResync, CommandWithdrawn
<1>4. CASE Evaluate \/ WriteDeviceRequests
             \/ \E motion \in BOOLEAN : ReadAndProcess(motion)
  BY <1>4 DEF Evaluate, WriteDeviceRequests, ReadAndProcess
<1> QED BY <1>1, <1>2, <1>3, <1>4 DEF OtherStep

\* At most one frame overtakes the emergency stop.
LEMMA EstopStep ==
  ASSUME TypeOK, FaultInv, EstopInv, [Next]_vars
  PROVE  EstopInv'
<1> USE DEF EstopInv, EstopLatency
<1>1. overrun \in [estop : 0 .. 2, stale : 0 .. 2]
  BY DEF TypeOK
<1>2. CASE Callback \/ Stop \/ JoinAndClose \/ Stopped \/ UNCHANGED vars
  <2>1. /\ ctl' = ctl /\ (pc' \in OpenIteration => pc \in OpenIteration)
    BY <1>2, QuietSteps DEF OpenIteration
  <2>2. \/ /\ overrun'.estop = overrun.estop
           /\ control'.emergencyStop = control.emergencyStop
        \/ overrun'.estop = 0
        \/ overrun'.estop = overrun.estop /\ control'.emergencyStop
    BY <1>1, <1>2
    DEF Callback, OnVelocity, SubmitVelocity, OnEmergencyStop,
        SetEmergencyStop, OnReset, RequestReset, OnDeviceRequest,
        EnqueueDeviceRequest, Stop, JoinAndClose, Stopped, vars, sharedVars,
        historyVars, TypeOK, ControlSnapshots
  <2> QED BY <1>1, <2>1, <2>2
<1>3. CASE HangUpStep
  BY <1>3, HangUpStepFrame DEF OpenIteration
<1>4. ASSUME NEW d \in 1 .. MaxStep, Sample(d) PROVE EstopInv'
  BY <1>4 DEF Sample, sharedVars, historyVars
<1>5. CASE OtherStep
  BY <1>5, OtherStepFrame
<1>6. CASE SendMotion
  <2>1. /\ UNCHANGED <<control, ctl, fm>> /\ pc = "send" /\ pc' = "publish"
        /\ overrun'.estop = IF Output.v # 0 /\ control.emergencyStop
                            THEN Saturated(overrun.estop) ELSE overrun.estop
    BY <1>6 DEF SendMotion, sharedVars
  <2>2. Output.v # 0 => ~ctl.emergencyStop
    BY <2>1 DEF Output, NoCommand, CanMove, FaultInv, OpenIteration
  <2>3. Output.v # 0 => overrun.estop = 0
    BY <1>1, <2>1, <2>2 DEF OpenIteration
  <2> QED BY <1>1, <2>1, <2>3 DEF Saturated, OpenIteration
<1> QED
  BY <1>2, <1>3, <1>4, <1>5, <1>6
  DEF Next, Worker, Connect, DriveLine, HangUpStep, OtherStep

\* At most one frame overtakes a reset.
LEMMA StaleStep ==
  ASSUME TypeOK, PortInv, CommandInv, StaleInv, [Next]_vars
  PROVE  StaleInv'
<1> USE DEF StaleInv, StaleAfterResetBounded, StaleLatest, OpenIteration
<1>1. /\ overrun \in [estop : 0 .. 2, stale : 0 .. 2]
      /\ control \in ControlSnapshots /\ control.commandSeq \in Nat
      /\ barrier.reset \in Nat /\ seenCommandSeq \in Nat
      /\ ctl.commandSeq \in Nat /\ latest.seq \in Nat
  BY DEF TypeOK, ControlSnapshots, Outputs
<1>2. CASE Callback \/ Stop \/ JoinAndClose \/ Stopped \/ UNCHANGED vars
  <2>1. overrun'.stale = overrun.stale
    BY <1>1, <1>2
    DEF Callback, OnVelocity, OnEmergencyStop, OnReset, OnDeviceRequest, Stop,
        JoinAndClose, Stopped, vars, historyVars
  <2> QED BY <1>2, <2>1, QuietSteps DEF seenVars
<1>3. CASE HangUpStep
  BY <1>3, HangUpStepFrame DEF NoCommand, seenVars
<1>4. ASSUME NEW d \in 1 .. MaxStep, Sample(d) PROVE StaleInv'
  <2>1. /\ ctl' = control /\ pc' \in {"read", "connect", "publish"}
        /\ UNCHANGED <<latest, seenCommandSeq, barrier, overrun>>
    BY <1>4 DEF Sample, seenVars, historyVars
  <2>2. /\ control.commandSeq >= barrier.reset
        /\ control.haveCommand => control.commandSeq > barrier.reset
    BY <1>1 DEF CommandInv
  <2> QED BY <2>1, <2>2
<1>5. CASE ExitLoop \/ Publish \/ OpenFails
  BY <1>5 DEF ExitLoop, Publish, OpenFails, seenVars, historyVars
<1>6. CASE OpenSucceeds
  BY <1>6 DEF OpenSucceeds, NoCommand, TypeOK
<1>7. CASE ConnectResync \/ DisconnectResync \/ HandshakeDone
  <2>1. /\ UNCHANGED <<latest, barrier, overrun>>
        /\ pc' \in {"handshake", "publish"}
        /\ seenCommandSeq' = seenCommandSeq \/ latest.v = 0
    BY <1>7
    DEF ConnectResync, DisconnectResync, HandshakeDone, CommandInv, seenVars,
        historyVars
  <2> QED BY <2>1
<1>8. CASE ResetFault
  <2>1. /\ UNCHANGED <<latest, seenCommandSeq, ctl>>
        /\ barrier'.reset = control.commandSeq + 1
        /\ overrun'.stale = 0 /\ pc' = "resetResync"
    BY <1>1, <1>8, InvalidateFrame DEF ResetFault, TypeOK
  <2> QED BY <1>1, <2>1 DEF CommandInv
<1>9. CASE SkipReset \/ NoNewCommand
  <2>1. /\ UNCHANGED <<latest, seenCommandSeq, ctl, barrier, overrun>>
        /\ \/ pc = "reset" /\ pc' = "command"
           \/ pc = "command" /\ pc' = "check" /\ ctl.commandSeq = seenCommandSeq
    BY <1>9 DEF SkipReset, NoNewCommand, CommandPending, seenVars, historyVars
  <2> QED BY <1>1, <2>1
<1>10. CASE ResetResync \/ CommandWithdrawn \/ RejectCommand
  <2>1. /\ latest' = NoCommand /\ UNCHANGED <<ctl, barrier, overrun>>
        /\ pc \in OpenIteration
    BY <1>10
    DEF ResetResync, CommandWithdrawn, RejectCommand, seenVars, historyVars
  <2> QED BY <1>1, <2>1 DEF NoCommand
<1>11. CASE AcceptCommand
  <2>1. /\ latest'.seq = ctl.commandSeq /\ seenCommandSeq' = ctl.commandSeq
        /\ UNCHANGED <<ctl, barrier, overrun>>
        /\ ctl.haveCommand /\ pc = "command" /\ pc' = "check"
    BY <1>11 DEF AcceptCommand, historyVars
  <2>2. ctl.commandSeq # barrier.reset
    BY <2>1 DEF CommandInv
  <2> QED BY <1>1, <2>1, <2>2
<1>12. CASE InvalidResync
  <2>1. UNCHANGED <<latest, ctl, barrier, overrun>> /\ pc' = "check"
        /\ pc = "invalidResync" /\ latest.v = 0
    BY <1>12 DEF InvalidResync, CommandInv, historyVars
  <2> QED BY <1>1, <2>1
<1>13. CASE Evaluate \/ \E motion \in BOOLEAN : ReadAndProcess(motion)
  BY <1>13 DEF Evaluate, ReadAndProcess, seenVars, historyVars
<1>14. CASE WriteDeviceRequests
  BY <1>14 DEF WriteDeviceRequests, seenVars
<1>15. CASE SendMotion
  <2>1. /\ UNCHANGED <<latest, seenCommandSeq, ctl, barrier>>
        /\ pc = "send" /\ pc' = "publish"
        /\ overrun'.stale = IF Output.v # 0 /\ Output.seq <= barrier.reset
                            THEN Saturated(overrun.stale) ELSE overrun.stale
    BY <1>15 DEF SendMotion, seenVars
  <2>2. Output.v # 0 => Output = latest
    BY DEF Output, NoCommand
  <2>3. Output.v # 0 /\ Output.seq <= barrier.reset => overrun.stale = 0
    BY <2>1, <2>2
  <2> QED BY <1>1, <2>1, <2>3 DEF Saturated
<1> QED
  BY <1>2, <1>3, <1>4, <1>5, <1>6, <1>7, <1>8, <1>9, <1>10, <1>11, <1>12,
     <1>13, <1>14, <1>15
  DEF Next, Worker, Connect, HandleControl, DriveLine, HangUpStep

-----------------------------------------------------------------------------
\* The published status agrees with the line between iterations.
LEMMA StatusStep ==
  ASSUME TypeOK, PortInv, FaultInv, FeedbackInv, PublishedStatusTrue, [Next]_vars
  PROVE  PublishedStatusTrue'
<1> USE DEF PublishedStatusTrue
<1>1. CASE Publish
  <2>1. /\ hardware'.fault = FaultSnapshot(fm) /\ pc' = "top"
        /\ portOpen' = portOpen /\ pc = "publish"
    BY <1>1 DEF Publish
  <2>2. fm.state = "Ready" =>
          fm.serialOpen /\ FeedbackHealthy(fm) /\ ~fm.emergencyStop
    BY <2>1 DEF FeedbackInv, FaultInv, Consistent, Latched, FeedbackHealthy
  <2>3. /\ fm.state = "FaultLatched" <=> fm.fault # "None"
        /\ fm.emergencyStop => fm.state = "FaultLatched"
    BY DEF FaultInv, Consistent, Latched
  <2>4. fm.serialOpen = portOpen
    BY <2>1 DEF PortInv
  <2> QED BY <2>1, <2>2, <2>3, <2>4 DEF FaultSnapshot
<1>2. CASE ExitLoop \/ Stop
  BY <1>2 DEF ExitLoop, Stop
<1>3. CASE Callback \/ Stopped \/ UNCHANGED vars
  BY <1>3 DEF Callback, OnVelocity, OnEmergencyStop, OnReset, OnDeviceRequest,
              Stopped, vars, workerVars
<1>4. CASE JoinAndClose \/ HangUpStep
  BY <1>4 DEF JoinAndClose, HangUpStep, HandshakeZeroFails,
              HandshakeMcuSafetyFails, ReadFails, FeedbackTimedOut,
              SendMotionFails, DeviceWriteFails, FailedIo, HangUp, Disconnecting
<1>5. CASE DisconnectResync \/ \E d \in 1 .. MaxStep : Sample(d)
  BY <1>5 DEF DisconnectResync, Sample
<1>6. CASE OpenFails \/ OpenSucceeds \/ ConnectResync \/ HandshakeDone
  BY <1>6 DEF OpenFails, OpenSucceeds, ConnectResync, HandshakeDone
<1>7. CASE HandleControl
  BY <1>7
  DEF HandleControl, ResetFault, SkipReset, ResetResync, NoNewCommand,
      AcceptCommand, RejectCommand, InvalidResync, CommandWithdrawn
<1>8. CASE Evaluate \/ WriteDeviceRequests \/ SendMotion
             \/ \E motion \in BOOLEAN : ReadAndProcess(motion)
  BY <1>8 DEF Evaluate, WriteDeviceRequests, SendMotion, ReadAndProcess
<1> QED
  BY <1>1, <1>2, <1>3, <1>4, <1>5, <1>6, <1>7, <1>8
  DEF Next, Worker, Connect, DriveLine, HangUpStep

-----------------------------------------------------------------------------
\* The invariant holds at the start.
LEMMA InitIInv == Init => IInv
<1> SUFFICES ASSUME Init PROVE IInv
  OBVIOUS
<1>1. TypeOK
  BY TypeInit
<1>2. PortInv /\ FaultInv /\ FeedbackInv
  BY DEF Init, PortInv, FaultInv, FeedbackInv, InitialFaultManager,
         OpenIteration, Consistent, Latched
<1>3. CommandInv /\ LineInv
  BY DEF Init, CommandInv, LineInv, InitialControl, NoCommand, FreshLine,
         Moving, ClosedAtRest, MotionIsAuthorised, OpenIteration
<1>4. EstopInv /\ StaleInv
  BY DEF Init, EstopInv, EstopLatency, StaleInv, StaleAfterResetBounded,
         StaleLatest, NoCommand
<1>5. PublishedStatusTrue
  BY DEF Init, PublishedStatusTrue, FaultSnapshot, InitialFaultManager,
         FeedbackHealthy
<1> QED BY <1>1, <1>2, <1>3, <1>4, <1>5 DEF IInv

\* The whole strengthening holds in every reachable state.
THEOREM Inductive == Spec => []IInv
<1>1. IInv /\ [Next]_vars => IInv'
  <2> SUFFICES ASSUME IInv, [Next]_vars PROVE IInv'
    OBVIOUS
  <2>1. TypeOK'
    BY TypeStep DEF IInv
  <2> QED
    BY <2>1, PortStep, FaultStep, FeedbackStep, CommandStep, LineStep,
       EstopStep, StaleStep, StatusStep
    DEF IInv
<1> QED BY <1>1, InitIInv, PTL DEF Spec

\* The robot moves only while the fault manager allows it.
THEOREM MotionAuthorised == Spec => []MotionIsAuthorised
<1>1. IInv => MotionIsAuthorised
  BY DEF IInv, LineInv
<1> QED BY <1>1, Inductive, PTL

\* Nothing asked for before a connection moves the robot over it, however the
\* callbacks interleave with the disconnections and however often they happen.
THEOREM FreshConnection == Spec => []ConnectionFreshness
<1>1. IInv => ConnectionFreshness
  BY DEF IInv, ConnectionFreshness, CommandInv, LineInv
<1> QED BY <1>1, Inductive, PTL

\* At most one nonzero frame goes out while the emergency stop is held.
THEOREM EmergencyStopLatency == Spec => []EstopLatency
<1>1. IInv => EstopLatency
  BY DEF IInv, EstopInv
<1> QED BY <1>1, Inductive, PTL

\* At most one frame carries a command given before the last reset.
THEOREM StaleAfterReset == Spec => []StaleAfterResetBounded
<1>1. IInv => StaleAfterResetBounded
  BY DEF IInv, StaleInv
<1> QED BY <1>1, Inductive, PTL

\* A port closed by the program was left at rest, or its line failed.
THEOREM PortClosedAtRest == Spec => []ClosedAtRest
<1>1. IInv => ClosedAtRest
  BY DEF IInv, LineInv
<1> QED BY <1>1, Inductive, PTL

\* The robot moves only with the controller's own safety requested.
THEOREM McuSafetyFirst == Spec => []McuSafetyBeforeMotion
<1>1. IInv => McuSafetyBeforeMotion
  BY DEF IInv, LineInv, McuSafetyBeforeMotion
<1> QED BY <1>1, Inductive, PTL

\* Of the requests in a queue at most one is the last: there is one setting.
LEMMA McuSafetyAfterSingle ==
  ASSUME TypeOK, NEW S \in SUBSET DOMAIN deviceRequests, NEW before
  PROVE  \A a, b \in McuSafetyAfter(S, before) : a = b
<1>1. DOMAIN deviceRequests \subseteq Nat
  BY DEF TypeOK
<1>2. \A i, j \in LastMcuSafety(S) : i = j
  BY <1>1 DEF LastMcuSafety
<1> QED BY <1>2 DEF McuSafetyAfter

\* Record and line take the same setting, or the line is closed.
LEMMA McuStep ==
  ASSUME TypeOK, PortInv, McuInv, [Next]_vars
  PROVE  McuInv'
<1> USE DEF McuInv
<1>1. CASE HangUpStep \/ JoinAndClose
  BY <1>1, HangUpStepFrame DEF JoinAndClose
<1>2. CASE Callback \/ Stop \/ Stopped \/ UNCHANGED vars
  <2>1. UNCHANGED <<pc, portOpen, mcuSafetyRequested, line>>
    BY <1>2 DEF Callback, OnVelocity, OnEmergencyStop, OnReset, OnDeviceRequest,
                Stop, Stopped, vars, workerVars, historyVars
  <2> QED BY <2>1
<1>3. CASE \/ \E d \in 1 .. MaxStep : Sample(d)
           \/ ExitLoop \/ Publish \/ OpenFails \/ DisconnectResync
  <2>1. /\ UNCHANGED <<portOpen, mcuSafetyRequested, line>>
        /\ pc \notin {"connectResync", "handshake"}
    BY <1>3 DEF Sample, ExitLoop, Publish, OpenFails, DisconnectResync,
                historyVars
  <2> QED BY <2>1
<1>4. CASE OpenSucceeds \/ ConnectResync
  BY <1>4 DEF OpenSucceeds, ConnectResync
<1>5. CASE HandshakeDone
  BY <1>5 DEF HandshakeDone, TypeOK, Lines
<1>6. CASE \/ HandleControl \/ Evaluate \/ SendMotion
           \/ \E motion \in BOOLEAN : ReadAndProcess(motion)
  <2>1. /\ UNCHANGED <<portOpen, mcuSafetyRequested>>
        /\ pc \notin {"connectResync", "handshake"}
    BY <1>6
    DEF HandleControl, ResetFault, SkipReset, ResetResync, NoNewCommand,
        AcceptCommand, RejectCommand, InvalidResync, CommandWithdrawn,
        Evaluate, SendMotion, ReadAndProcess
  <2>2. line'.mcuOn = line.mcuOn
    BY <1>6
    DEF HandleControl, ResetFault, SkipReset, ResetResync, NoNewCommand,
        AcceptCommand, RejectCommand, InvalidResync, CommandWithdrawn,
        Evaluate, SendMotion, ReadAndProcess, historyVars, TypeOK, Lines
  <2> QED BY <2>1, <2>2
<1>7. CASE WriteDeviceRequests
  <2>1. /\ line'.mcuOn \in McuSafetyAfter(Permitted, line.mcuOn)
        /\ mcuSafetyRequested' \in McuSafetyAfter(Permitted, mcuSafetyRequested)
        /\ portOpen' = portOpen /\ pc = "device"
    BY <1>7 DEF WriteDeviceRequests, TypeOK, Lines
  <2>2. Permitted \in SUBSET DOMAIN deviceRequests
    BY DEF Permitted
  <2> QED BY <2>1, <2>2, McuSafetyAfterSingle
<1> QED
  BY <1>1, <1>2, <1>3, <1>4, <1>5, <1>6, <1>7
  DEF Next, Worker, Connect, DriveLine, HangUpStep

\* Between two iterations the record says what the controller was last told,
\* whatever requests were queued, skipped or lost over however many connections.
THEOREM StatusMcuSafety == Spec => []StatusShowsMcuSafety
<1>1. Init => McuInv
  BY DEF Init, McuInv
<1>2. IInv /\ McuInv /\ [Next]_vars => McuInv'
  BY McuStep DEF IInv
<1>3. McuInv => StatusShowsMcuSafety
  BY DEF McuInv, StatusShowsMcuSafety, BetweenIterations
<1> QED BY <1>1, <1>2, <1>3, Inductive, PTL DEF Spec

\* What /base/status can show is true of the line.
THEOREM StatusIsTrue == Spec => []PublishedStatusTrue
<1>1. IInv => PublishedStatusTrue
  BY DEF IInv
<1> QED BY <1>1, Inductive, PTL

\* No step but a handled reset takes a fault away or changes its cause.
LEMMA FaultKeptStep ==
  ASSUME TypeOK, PortInv, FaultInv, [Next]_vars
  PROVE  [FaultKept]_vars
<1> SUFFICES ASSUME Latched(fm) PROVE FaultKept
  BY DEF FaultKept
<1>1. fm \in FaultManagers /\ faultReason \in FaultCodes
      /\ control.emergencyStop \in BOOLEAN /\ 1 .. MaxStep \subseteq Nat
  BY WorkerAssumption DEF TypeOK, ControlSnapshots
<1>2. CASE ResetFault
  BY <1>2 DEF ResetFault, ResetPending, ResetPossible, FaultKept, PortInv,
              FaultInv, OpenIteration
<1>3. CASE ~ResetFault
  <2> DEFINE After ==
        {fm, NotifySerialConnected(fm),
         NotifySerialDisconnected(fm, faultReason), NotifyMotionFeedback(fm),
         NotifyValidCommand(fm), NotifyInvalidCommand(fm),
         NotifyMcuSafetyConfigFailure(fm), ForgetCommand(fm), Evaluated(fm)}
  <2>1. CASE Callback \/ Stop \/ JoinAndClose \/ Stopped \/ UNCHANGED vars
    BY <2>1, QuietSteps DEF FaultKept
  <2>2. ASSUME NEW d \in 1 .. MaxStep, Sample(d) PROVE FaultKept
    BY <1>1, <2>2, LatchedStays DEF Sample, FaultKept
  <2>3. CASE ExitLoop \/ Publish \/ DisconnectResync \/ Connect
    <3>1. fm' \in After
      BY <2>3
      DEF ExitLoop, Publish, DisconnectResync, Connect, OpenFails, OpenSucceeds,
          ConnectResync, HandshakeDone, HandshakeZeroFails,
          HandshakeMcuSafetyFails
    <3> QED BY <1>1, <3>1, LatchedStays DEF FaultKept
  <2>4. CASE HandleControl
    <3>1. fm' \in After
      BY <1>3, <2>4
      DEF HandleControl, SkipReset, ResetResync, NoNewCommand, AcceptCommand,
          RejectCommand, InvalidResync, CommandWithdrawn
    <3> QED BY <1>1, <3>1, LatchedStays DEF FaultKept
  <2>5. CASE DriveLine
    <3>1. fm' \in After
      BY <2>5
      DEF DriveLine, ReadFails, ReadAndProcess, FeedbackTimedOut, Evaluate,
          WriteDeviceRequests, DeviceWriteFails, SendMotion, SendMotionFails
    <3> QED BY <1>1, <3>1, LatchedStays DEF FaultKept
  <2> QED BY <2>1, <2>2, <2>3, <2>4, <2>5 DEF Next, Worker
<1> QED BY <1>2, <1>3

\* A fault and its first cause stay until the operator resets a healthy robot.
THEOREM FaultStays == Spec => FaultKeptUntilReset
<1>1. IInv /\ [Next]_vars => [FaultKept]_vars
  BY FaultKeptStep DEF IInv
<1> QED BY <1>1, Inductive, PTL DEF Spec, FaultKeptUntilReset

-----------------------------------------------------------------------------
\* Every step of BaseIoWorker is a step of BaseContract or none at all.

\* What each notification of the fault manager makes of the state.
LEMMA StateAfter ==
  ASSUME NEW m \in FaultManagers
  PROVE  /\ NotifySerialConnected(m).state =
              IF Latched(m) THEN m.state ELSE "WaitingForFeedback"
         /\ NotifyMotionFeedback(m).state =
              IF m.serialOpen /\ ~Latched(m) THEN "Ready" ELSE m.state
         /\ NotifyValidCommand(m).state = m.state
         /\ ForgetCommand(m).state = m.state
         /\ NotifyInvalidCommand(m).state = "FaultLatched"
         /\ NotifyMcuSafetyConfigFailure(m).state = "FaultLatched"
         /\ ResetDone(m).state = "Ready"
BY DEF FaultManagers, NotifySerialConnected, NotifyMotionFeedback,
       NotifyValidCommand, ForgetCommand, NotifyInvalidCommand,
       NotifyMcuSafetyConfigFailure, ResetDone, ClearFreshness, Latch, Latched

\* And what a lost port makes of it.
LEMMA StateAfterLoss ==
  ASSUME NEW m \in FaultManagers, NEW reason \in FaultCodes
  PROVE  /\ NotifySerialDisconnected(m, reason).state = "FaultLatched"
         /\ NotifySerialDisconnected(m, reason).serialOpen = FALSE
         /\ NotifySerialDisconnected(m, reason).haveFeedback = FALSE
BY DEF FaultManagers, NotifySerialDisconnected, ClearFreshness, Latch, Latched

\* The state after a look at the clock and at the emergency stop.
LEMMA StateAfterSample ==
  ASSUME NEW m \in FaultManagers, NEW active \in BOOLEAN, NEW d \in Nat
  PROVE  ObserveEmergencyStop(Elapse(m, d), active).state =
           IF active THEN "FaultLatched" ELSE m.state
BY DEF FaultManagers, ObserveEmergencyStop, Elapse, Latch, Latched

\* Evaluation only ever latches a fault; the rest of it confirms the state.
LEMMA StateEvaluated ==
  ASSUME NEW m \in FaultManagers, Consistent(m), m.serialOpen,
         m.state # "Disconnected",
         m.haveFeedback => m.state \in {"Ready", "FaultLatched"}
  PROVE  Evaluated(m).state =
           IF FeedbackTimeoutTransition(m) THEN "FaultLatched" ELSE m.state
BY DEF FaultManagers, BaseStates, Consistent, Evaluated, Latch, Latched,
       FeedbackTimeoutTransition

-----------------------------------------------------------------------------
\* The robot is at rest when a fault is cleared.
LEMMA HeldAtReset ==
  ASSUME IInv, ContractInv, ResetFault, Latched(fm)
  PROVE  ~Moving
BY DEF ContractInv, ResetFault, ResetPossible

\* Motion between iterations comes with READY.
LEMMA MovingIsReady ==
  ASSUME IInv, pc = "top", portOpen, Moving
  PROVE  fm.state = "Ready"
BY DEF IInv, LineInv, MotionIsAuthorised, BetweenIterations, CanMove

\* One case per step that matters to the mapping or to ContractInv.
LEMMA ContractStep ==
  ASSUME IInv, ContractInv, [Next]_vars
  PROVE  ContractInv' /\ [Contract!Next]_(Contract!contract)
<1> DEFINE Stutter == UNCHANGED Contract!contract
           moves == portOpen /\ Moving
<1> USE DEF Contract!contract, Contract!Next, Contract!Held
<1>1. fm \in FaultManagers /\ Consistent(fm) /\ faultReason \in FaultCodes
      /\ TypeOK /\ PortInv /\ FaultInv
  BY DEF IInv, TypeOK, FaultInv
<1>a. \A m \in {fm, fm'} :
        /\ m.serialOpen \in BOOLEAN /\ m.haveFeedback \in BOOLEAN
        /\ m.emergencyStop \in BOOLEAN
  <2>1. fm' \in FaultManagers
    BY <1>1, TypeStep DEF TypeOK
  <2> QED BY <1>1, <2>1 DEF FaultManagers
<1>2. CASE Callback \/ Stop \/ Stopped \/ UNCHANGED vars
  BY <1>2
  DEF Callback, OnVelocity, OnEmergencyStop, OnReset, OnDeviceRequest, Stop,
      Stopped, vars, workerVars, historyVars, Moving, ContractInv
<1>3. CASE ExitLoop \/ Publish \/ OpenFails
  BY <1>3 DEF ExitLoop, Publish, OpenFails, historyVars, Moving, ContractInv
<1>4. CASE JoinAndClose
  BY <1>4 DEF JoinAndClose, Moving, ContractInv, Contract!Halt
<1>5. ASSUME NEW d \in 1 .. MaxStep, Sample(d)
      PROVE  ContractInv' /\ [Contract!Next]_(Contract!contract)
  <2>1. d \in Nat /\ control.emergencyStop \in BOOLEAN
    BY <1>1, WorkerAssumption DEF TypeOK, ControlSnapshots
  <2>2. /\ fm'.state = IF control.emergencyStop THEN "FaultLatched" ELSE fm.state
        /\ fm'.serialOpen = fm.serialOpen
        /\ fm'.haveFeedback = fm.haveFeedback
        /\ fm'.emergencyStop = control.emergencyStop
    BY <1>1, <1>5, <2>1, StateAfterSample, SampleFrame DEF Sample
  <2>3. pc = "top" /\ pc' \in {"read", "connect", "publish"}
        /\ (pc' = "read" => portOpen) /\ portOpen' = portOpen /\ line' = line
    BY <1>5 DEF Sample, historyVars
  <2>4. ContractInv'
    BY <2>2, <2>3, MovingIsReady DEF ContractInv, Latched, Moving
  <2>5. [Contract!Next]_(Contract!contract)
    BY <2>2, <2>3 DEF Contract!Fault, Moving
  <2> QED BY <2>4, <2>5
<1>6. CASE OpenSucceeds
  BY <1>1, <1>6 DEF OpenSucceeds, FreshLine, NoCommand, Moving, ContractInv,
                    PortInv
<1>7. CASE ConnectResync
  <2>1. /\ fm'.state = IF Latched(fm) THEN fm.state ELSE "WaitingForFeedback"
        /\ fm'.serialOpen = TRUE /\ fm'.haveFeedback = FALSE
    BY <1>1, <1>7, StateAfter, SerialFrame DEF ConnectResync
  <2>2. ~Moving /\ ~Moving' /\ portOpen' = portOpen
    BY <1>7 DEF ConnectResync, historyVars, Moving, IInv, LineInv
  <2> QED
    BY <1>7, <2>1, <2>2
    DEF ConnectResync, ContractInv, Latched, Contract!OpenLink
<1>8. CASE DisconnectResync
  <2>1. /\ fm'.state = "FaultLatched"
        /\ fm'.serialOpen = FALSE /\ fm'.haveFeedback = FALSE
    <3>1. fm' = NotifySerialDisconnected(fm, faultReason)
      BY <1>8 DEF DisconnectResync
    <3>2. fm \in FaultManagers /\ faultReason \in FaultCodes
      BY <1>1
    <3> QED BY <3>1, <3>2, StateAfterLoss
  <2>2. ~portOpen /\ ~portOpen'
    BY <1>1, <1>8 DEF DisconnectResync, PortInv
  <2> QED
    BY <1>8, <2>1, <2>2 DEF DisconnectResync, ContractInv, Contract!LoseLink
<1>9. CASE HandshakeDone \/ HandshakeZeroFails \/ HandshakeMcuSafetyFails
  <2>1. pc = "handshake" /\ fm.serialOpen /\ ~Moving /\ ~Moving'
    <3>1. pc = "handshake"
      BY <1>9 DEF HandshakeDone, HandshakeZeroFails, HandshakeMcuSafetyFails
    <3>2. ~Moving /\ fm.serialOpen
      BY <1>1, <3>1 DEF IInv, LineInv, PortInv
    <3>3. line'.sent = NoCommand \/ line'.sent = line.sent
      BY <1>1, <1>9 DEF HandshakeDone, HandshakeZeroFails,
         HandshakeMcuSafetyFails, FailedIo, TypeOK, Lines
    <3> QED BY <3>1, <3>2, <3>3 DEF Moving, NoCommand
  <2>2. fm' = fm \/ fm' = NotifyMcuSafetyConfigFailure(fm)
    BY <1>9 DEF HandshakeDone, HandshakeZeroFails, HandshakeMcuSafetyFails
  <2>3. pc' \in {"publish", "disconnectResync"}
    BY <1>9 DEF HandshakeDone, HandshakeZeroFails, HandshakeMcuSafetyFails,
                FailedIo, Disconnecting
  <2>4. /\ fm'.state = fm.state \/ fm'.state = "FaultLatched"
        /\ fm'.serialOpen = fm.serialOpen /\ fm'.haveFeedback = fm.haveFeedback
    BY <1>1, <1>a, <2>2, StateAfter, OtherFrame
  <2> QED BY <1>a, <2>1, <2>3, <2>4 DEF ContractInv, Contract!Fault
<1>10. CASE ReadFails \/ SendMotionFails
            \/ \E i \in Permitted : DeviceWriteFails(i)
  <2>1. portOpen' = FALSE /\ fm' = fm /\ pc' = "disconnectResync"
        /\ pc \in OpenIteration
    BY <1>10 DEF ReadFails, SendMotionFails, DeviceWriteFails, FailedIo,
                 HangUp, Disconnecting, OpenIteration
  <2>2. fm.serialOpen
    BY <1>1, <2>1 DEF PortInv, OpenIteration
  <2> QED BY <2>1, <2>2 DEF ContractInv, Contract!Halt
<1>11. ASSUME NEW motion \in BOOLEAN, ReadAndProcess(motion)
       PROVE  ContractInv' /\ [Contract!Next]_(Contract!contract)
  <2>1. /\ pc = "read" /\ pc' = "reset" /\ portOpen' = portOpen /\ line' = line
        /\ fm' = fm \/ fm' = NotifyMotionFeedback(fm)
    BY <1>11 DEF ReadAndProcess, historyVars
  <2>2. fm.serialOpen /\ fm.state \in BaseStates
    BY <1>1, <2>1 DEF PortInv, OpenIteration, FaultManagers
  <2>3. /\ fm' = fm \/ fm'.state = IF Latched(fm) THEN fm.state ELSE "Ready"
        /\ fm'.serialOpen = fm.serialOpen
        /\ fm'.emergencyStop = fm.emergencyStop
    BY <1>1, <2>1, <2>2 DEF NotifyMotionFeedback, FaultManagers, Latched
  <2> QED
    BY <1>a, <2>1, <2>2, <2>3
    DEF ContractInv, BaseStates, Latched, Moving, Contract!Feedback
<1>12. CASE ResetFault
  <2>1. /\ pc = "reset" /\ pc' = "resetResync" /\ fm' = ResetDone(fm)
        /\ portOpen' = portOpen /\ line' = line /\ ResetPossible(fm)
    BY <1>12 DEF ResetFault
  <2>2. /\ fm'.state = "Ready" /\ fm'.serialOpen = fm.serialOpen
        /\ fm.serialOpen /\ fm.haveFeedback
    BY <1>1, <2>1, StateAfter, OtherFrame DEF ResetPossible, FeedbackHealthy
  <2>3. fm.state = "FaultLatched" => ~Moving
    BY <1>12, HeldAtReset DEF Latched
  <2> QED
    BY <2>1, <2>2, <2>3 DEF ContractInv, Latched, Moving, Contract!Reset
<1>13. CASE HandleControl /\ ~ResetFault
  <2>1. /\ portOpen' = portOpen /\ line' = line
        /\ pc \in {"reset", "resetResync", "command", "invalidResync"}
        /\ pc' \in {"command", "check", "invalidResync"}
        /\ fm' \in {fm, NotifyValidCommand(fm), NotifyInvalidCommand(fm),
                    ForgetCommand(fm)}
    BY <1>13 DEF HandleControl, SkipReset, ResetResync, NoNewCommand,
                 AcceptCommand, RejectCommand, InvalidResync, CommandWithdrawn,
                 historyVars
  <2>2. /\ fm'.state = fm.state \/ fm'.state = "FaultLatched"
        /\ fm'.serialOpen = fm.serialOpen /\ fm'.haveFeedback = fm.haveFeedback
    BY <1>1, <2>1, StateAfter, OtherFrame
  <2>3. fm.serialOpen
    BY <1>1, <2>1 DEF PortInv, OpenIteration
  <2> QED BY <2>1, <2>2, <2>3 DEF ContractInv, Moving, Contract!Fault
<1>14. CASE FeedbackTimedOut \/ Evaluate
  <2>1. /\ pc = "check" /\ fm' = Evaluated(fm)
        /\ \/ pc' = "disconnectResync" /\ portOpen' = FALSE
           \/ pc' = "device" /\ portOpen' = portOpen /\ line' = line
    BY <1>14 DEF FeedbackTimedOut, Evaluate, HangUp, Disconnecting, historyVars
  <2>2. fm.serialOpen /\ fm.state # "Disconnected"
    BY <1>1, <2>1 DEF PortInv, OpenIteration, ContractInv
  <2>3. /\ fm'.state = fm.state \/ fm'.state = "FaultLatched"
        /\ fm'.serialOpen = fm.serialOpen /\ fm'.haveFeedback = fm.haveFeedback
    BY <1>1, <2>1, <2>2, StateEvaluated, OtherFrame DEF ContractInv
  <2> QED
    BY <1>a, <2>1, <2>2, <2>3
    DEF ContractInv, Moving, Contract!Fault, Contract!Halt
<1>15. CASE WriteDeviceRequests
  <2>1. line'.sent = line.sent
    BY <1>1, <1>15 DEF WriteDeviceRequests, TypeOK, Lines
  <2> QED
    BY <1>15, <2>1 DEF WriteDeviceRequests, ContractInv, Moving
<1>16. CASE SendMotion
  <2>1. /\ pc' = "publish" /\ fm' = fm /\ portOpen' = portOpen
        /\ line'.sent = Output /\ pc = "send"
    BY <1>1, <1>16 DEF SendMotion, TypeOK, Lines
  <2>2. Output.v # 0 => fm.state = "Ready"
    BY DEF Output, NoCommand, CanMove
  <2>3. portOpen /\ fm.serialOpen
    BY <1>1, <2>1 DEF PortInv, OpenIteration
  <2> QED
    BY <1>a, <2>1, <2>2, <2>3
    DEF ContractInv, Moving, Contract!Move, Contract!Halt
<1> QED
  BY <1>2, <1>3, <1>4, <1>5, <1>6, <1>7, <1>8, <1>9, <1>10, <1>11, <1>12,
     <1>13, <1>14, <1>15, <1>16
  DEF Next, Worker, Connect, DriveLine, HandleControl

\* The promise of BaseContract holds of the I/O thread, for every sequence of
\* callbacks, failures and delays, and for every setting of its limits.
THEOREM Implementation == Spec => ImplementsContract
<1>1. Init => ContractInv /\ Contract!Init
  BY DEF Init, ContractInv, Contract!Init, InitialFaultManager, Latched
<1>2. IInv /\ ContractInv /\ [Next]_vars
        => ContractInv' /\ [Contract!Next]_(Contract!contract)
  BY ContractStep
<1> QED
  BY <1>1, <1>2, Inductive, PTL DEF Spec, ImplementsContract, Contract!Spec
=============================================================================
