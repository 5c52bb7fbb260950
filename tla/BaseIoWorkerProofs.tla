------------------------- MODULE BaseIoWorkerProofs -------------------------
(***************************************************************************)
(* What the methods of BaseFaultManager preserve and establish, and that   *)
(* BaseIoWorker keeps its types, for every value of the timeouts, the      *)
(* speed limits and the configuration flags, and for any number of         *)
(* commands, resets, requests and reconnections.                           *)
(***************************************************************************)
EXTENDS BaseIoWorkerProperties, TLAPS

-----------------------------------------------------------------------------
(* The fault manager.                                                      *)

\* A fresh age is an age.
LEMMA ZeroAges ==
  0 \in 0 .. FeedbackTimeout + 1 /\ 0 \in 0 .. CommandTimeout + 1
BY TimeoutsAssumption

\* Every method takes a fault manager to a fault manager.
LEMMA LatchType ==
  ASSUME NEW m \in FaultManagers, NEW code \in FaultCodes
  PROVE  Latch(m, code) \in FaultManagers
BY DEF Latch, Latched, FaultManagers, FaultCodes, BaseStates

\* Both freshness flags and their ages may be cleared.
LEMMA ClearFreshnessType ==
  ASSUME NEW m \in FaultManagers
  PROVE  /\ ClearFreshness(m) \in FaultManagers
         /\ ForgetCommand(m) \in FaultManagers
BY ZeroAges DEF ClearFreshness, ForgetCommand, FaultManagers

\* The notifications of the I/O thread.
LEMMA NotifyType ==
  ASSUME NEW m \in FaultManagers, NEW reason \in FaultCodes
  PROVE  /\ NotifySerialConnected(m) \in FaultManagers
         /\ NotifySerialDisconnected(m, reason) \in FaultManagers
         /\ NotifyMotionFeedback(m) \in FaultManagers
         /\ NotifyValidCommand(m) \in FaultManagers
         /\ NotifyInvalidCommand(m) \in FaultManagers
         /\ NotifyMcuSafetyConfigFailure(m) \in FaultManagers
<1>1. NotifySerialConnected(m) \in FaultManagers
  BY ClearFreshnessType
  DEF NotifySerialConnected, FaultManagers, BaseStates, Latched
<1>2. NotifySerialDisconnected(m, reason) \in FaultManagers
  <2>1. [ClearFreshness(m) EXCEPT !.serialOpen = FALSE] \in FaultManagers
    BY ClearFreshnessType DEF FaultManagers
  <2> QED BY <2>1, LatchType DEF NotifySerialDisconnected
<1>3. NotifyMotionFeedback(m) \in FaultManagers
  BY ZeroAges DEF NotifyMotionFeedback, FaultManagers, BaseStates
<1>4. NotifyValidCommand(m) \in FaultManagers
  BY ZeroAges DEF NotifyValidCommand, FaultManagers
<1>5. /\ "InvalidCommand" \in FaultCodes
      /\ "McuSafetyConfig" \in FaultCodes
  BY DEF FaultCodes
<1> QED
  BY <1>1, <1>2, <1>3, <1>4, <1>5, LatchType
  DEF NotifyInvalidCommand, NotifyMcuSafetyConfigFailure

\* The emergency stop input.
LEMMA ObserveEmergencyStopType ==
  ASSUME NEW m \in FaultManagers, NEW active \in BOOLEAN
  PROVE  ObserveEmergencyStop(m, active) \in FaultManagers
<1>1. [m EXCEPT !.emergencyStop = active] \in FaultManagers
  BY DEF FaultManagers
<1>2. "EmergencyStop" \in FaultCodes
  BY DEF FaultCodes
<1> QED BY <1>1, <1>2, LatchType DEF ObserveEmergencyStop

\* Evaluation and reset.
LEMMA EvaluatedType ==
  ASSUME NEW m \in FaultManagers
  PROVE  Evaluated(m) \in FaultManagers /\ ResetDone(m) \in FaultManagers
<1>1. "FeedbackTimeout" \in FaultCodes
  BY DEF FaultCodes
<1>2. Latch(m, "FeedbackTimeout") \in FaultManagers
  BY <1>1, LatchType
<1>3. [m EXCEPT !.fault = "None", !.state = "Ready"] \in FaultManagers
  BY DEF FaultManagers, BaseStates, FaultCodes
<1>4. ResetDone(m) \in FaultManagers
  BY <1>3, ClearFreshnessType DEF ResetDone
<1>5. Evaluated(m) \in FaultManagers
  BY <1>2 DEF Evaluated, FaultManagers, BaseStates
<1> QED BY <1>4, <1>5

\* The passing of time.
LEMMA ElapseType ==
  ASSUME NEW m \in FaultManagers, NEW d \in Nat
  PROVE  Elapse(m, d) \in FaultManagers
<1>1. ASSUME NEW limit \in Nat, NEW age \in 0 .. limit + 1
      PROVE  Older(age, d, limit) \in 0 .. limit + 1
  BY DEF Older
<1>2. Older(m.feedbackAge, d, FeedbackTimeout) \in 0 .. FeedbackTimeout + 1
  BY <1>1, TimeoutsAssumption DEF FaultManagers
<1>3. Older(m.commandAge, d, CommandTimeout) \in 0 .. CommandTimeout + 1
  BY <1>1, TimeoutsAssumption DEF FaultManagers
<1> QED BY <1>2, <1>3, ZeroAges DEF Elapse, FaultManagers

\* What the published status says of a fault manager.
LEMMA FaultSnapshotType ==
  ASSUME NEW m \in FaultManagers
  PROVE  FaultSnapshot(m) \in FaultSnapshots
BY DEF FaultSnapshot, FaultSnapshots, FaultManagers, FeedbackHealthy,
       CommandHealthy

-----------------------------------------------------------------------------
\* Latching keeps a manager consistent and leaves all but state and fault.
LEMMA LatchConsistent ==
  ASSUME NEW m \in FaultManagers, NEW code \in FaultCodes \ {"None"},
         Latched(m) <=> m.fault # "None",
         m.haveFeedback => m.serialOpen
  PROVE  /\ Consistent(Latch(m, code))
         /\ Latched(Latch(m, code))
BY DEF Consistent, Latch, Latched, FaultManagers

\* So do the notifications, a frame only with the port open.
LEMMA NotifyConsistent ==
  ASSUME NEW m \in FaultManagers, Consistent(m),
         NEW reason \in FaultCodes \ {"None"}
  PROVE  /\ Consistent(NotifySerialConnected(m))
         /\ Consistent(NotifySerialDisconnected(m, reason))
         /\ m.serialOpen => Consistent(NotifyMotionFeedback(m))
         /\ Consistent(NotifyValidCommand(m))
         /\ Consistent(NotifyInvalidCommand(m))
         /\ Consistent(NotifyMcuSafetyConfigFailure(m))
         /\ Consistent(ForgetCommand(m))
<1> USE DEF Consistent, Latched
<1>1. Consistent(NotifySerialConnected(m))
  BY DEF NotifySerialConnected, ClearFreshness, FaultManagers
<1>2. Consistent(NotifySerialDisconnected(m, reason))
  BY DEF NotifySerialDisconnected, ClearFreshness, Latch, FaultManagers
<1>3. m.serialOpen => Consistent(NotifyMotionFeedback(m))
  BY DEF NotifyMotionFeedback, FaultManagers
<1>4. Consistent(NotifyValidCommand(m)) /\ Consistent(ForgetCommand(m))
  BY DEF NotifyValidCommand, ForgetCommand, FaultManagers
<1>5. "InvalidCommand" \in FaultCodes \ {"None"}
      /\ "McuSafetyConfig" \in FaultCodes \ {"None"}
  BY DEF FaultCodes
<1>6. /\ Consistent(NotifyInvalidCommand(m))
      /\ Consistent(NotifyMcuSafetyConfigFailure(m))
  BY <1>5, LatchConsistent
  DEF NotifyInvalidCommand, NotifyMcuSafetyConfigFailure
<1> QED BY <1>1, <1>2, <1>3, <1>4, <1>6

\* So do the emergency stop input, the clock, evaluation and a reset.
LEMMA EvaluateConsistent ==
  ASSUME NEW m \in FaultManagers, Consistent(m),
         NEW active \in BOOLEAN, NEW d \in Nat
  PROVE  /\ Consistent(ObserveEmergencyStop(m, active))
         /\ Consistent(Elapse(m, d))
         /\ Consistent(Evaluated(m))
         /\ ResetPossible(m) => Consistent(ResetDone(m))
<1> USE DEF Consistent, Latched
<1>1. Consistent(ObserveEmergencyStop(m, active))
  BY DEF ObserveEmergencyStop, Latch, FaultManagers
<1>2. Consistent(Elapse(m, d))
  BY DEF Elapse, FaultManagers
<1>3. Consistent(Evaluated(m))
  BY DEF Evaluated, Latch, FaultManagers
<1>4. ResetPossible(m) => Consistent(ResetDone(m))
  BY DEF ResetPossible, ResetDone, ForgetCommand, FeedbackHealthy,
         FaultManagers
<1> QED BY <1>1, <1>2, <1>3, <1>4

\* A manager that is ready once it has been evaluated has fresh feedback.
LEMMA EvaluatedReady ==
  ASSUME NEW m \in FaultManagers, Evaluated(m).state = "Ready"
  PROVE  FeedbackHealthy(Evaluated(m))
BY DEF Evaluated, Latch, Latched, FeedbackHealthy, FaultManagers

\* What the notifications about the port and its feedback leave behind.
LEMMA SerialFrame ==
  ASSUME NEW m \in FaultManagers, NEW reason \in FaultCodes
  PROVE  /\ NotifySerialConnected(m).serialOpen = TRUE
         /\ NotifySerialConnected(m).haveFeedback = FALSE
         /\ NotifySerialDisconnected(m, reason).serialOpen = FALSE
         /\ NotifyMotionFeedback(m).haveFeedback = TRUE
         /\ NotifyMotionFeedback(m).serialOpen = m.serialOpen
         /\ NotifyMotionFeedback(m).emergencyStop = m.emergencyStop
BY DEF NotifySerialConnected, NotifySerialDisconnected, NotifyMotionFeedback,
       Latch, ClearFreshness, FaultManagers

\* Everything else leaves the port, the feedback and the switch alone.
LEMMA OtherFrame ==
  ASSUME NEW m \in FaultManagers,
         NEW n \in {m, NotifyValidCommand(m), NotifyInvalidCommand(m),
                   NotifyMcuSafetyConfigFailure(m), ForgetCommand(m),
                   Evaluated(m), ResetDone(m)}
  PROVE  /\ n.serialOpen = m.serialOpen
         /\ n.emergencyStop = m.emergencyStop
         /\ n.haveFeedback = m.haveFeedback
BY DEF FaultManagers, Latch, ForgetCommand, NotifyValidCommand,
       NotifyInvalidCommand, NotifyMcuSafetyConfigFailure, Evaluated, ResetDone

\* A look at the clock and at the emergency stop.
LEMMA SampleFrame ==
  ASSUME NEW m \in FaultManagers, NEW active \in BOOLEAN, NEW d \in Nat
  PROVE  LET n == ObserveEmergencyStop(Elapse(m, d), active)
         IN  /\ n.serialOpen = m.serialOpen
             /\ n.haveFeedback = m.haveFeedback
             /\ n.emergencyStop = active
BY DEF ObserveEmergencyStop, Elapse, Latch, FaultManagers

\* Nothing but a reset takes a fault away, or puts another in its place.
LEMMA LatchedStays ==
  ASSUME NEW m \in FaultManagers, Latched(m), NEW reason \in FaultCodes,
         NEW active \in BOOLEAN, NEW d \in Nat,
         NEW n \in {m, NotifySerialConnected(m),
                   NotifySerialDisconnected(m, reason),
                   NotifyMotionFeedback(m), NotifyValidCommand(m),
                   NotifyInvalidCommand(m), NotifyMcuSafetyConfigFailure(m),
                   ForgetCommand(m), Evaluated(m),
                   ObserveEmergencyStop(Elapse(m, d), active)}
  PROVE  Latched(n) /\ n.fault = m.fault
<1> USE DEF Latched, Latch, ClearFreshness, FaultManagers
<1>1. CASE n \in {m, NotifySerialConnected(m),
                NotifySerialDisconnected(m, reason), NotifyMotionFeedback(m)}
  BY <1>1 DEF NotifySerialConnected, NotifySerialDisconnected,
              NotifyMotionFeedback
<1>2. CASE n \in {NotifyValidCommand(m), NotifyInvalidCommand(m),
                NotifyMcuSafetyConfigFailure(m), ForgetCommand(m),
                Evaluated(m)}
  BY <1>2 DEF NotifyValidCommand, NotifyInvalidCommand, ForgetCommand,
              NotifyMcuSafetyConfigFailure, Evaluated
<1>3. CASE n = ObserveEmergencyStop(Elapse(m, d), active)
  BY <1>3 DEF ObserveEmergencyStop, Elapse
<1> QED BY <1>1, <1>2, <1>3

-----------------------------------------------------------------------------
(* The worker.                                                             *)

\* What the I/O thread leaves in the shared state is a control snapshot.
LEMMA InvalidateCommandType ==
  ASSUME NEW c \in ControlSnapshots
  PROVE  InvalidateCommand(c) \in ControlSnapshots
<1>1. 0 \in Commands /\ c.commandSeq + 1 \in Nat
  BY DEF Commands, ControlSnapshots
<1> QED BY <1>1 DEF InvalidateCommand, ControlSnapshots

\* A clamped velocity is within the limit.
LEMMA ClampType ==
  ASSUME NEW v \in Int
  PROVE  Clamp(v) \in -MaxSpeed .. MaxSpeed
BY WorkerAssumption DEF Clamp

\* Nothing moves by default.
LEMMA NoCommandType == NoCommand \in Outputs /\ FreshLine \in Lines
BY WorkerAssumption DEF NoCommand, Outputs, FreshLine, Lines

\* A line that is cut or put to rest is a line.
LEMMA LineType ==
  ASSUME NEW l \in Lines
  PROVE  /\ [l EXCEPT !.failed = TRUE] \in Lines
         /\ [l EXCEPT !.sent = NoCommand] \in Lines
         /\ \A on \in BOOLEAN : [l EXCEPT !.mcuOn = on] \in Lines
BY NoCommandType DEF Lines

-----------------------------------------------------------------------------
\* The first half of a disconnection.
LEMMA DisconnectingType ==
  ASSUME TypeOK, NEW reason \in FaultCodes, FailedIo(reason) \/ HangUp(reason)
  PROVE  /\ control' \in ControlSnapshots
         /\ portOpen' \in BOOLEAN /\ latest' \in Outputs
         /\ faultReason' \in FaultCodes /\ pc' \in PCs
         /\ line' \in Lines
BY InvalidateCommandType, LineType, NoCommandType
DEF TypeOK, FailedIo, HangUp, Disconnecting, PCs

\* The MCU safety setting stays a flag.
LEMMA McuSafetyAfterType ==
  ASSUME TypeOK, NEW S, S \subseteq DOMAIN deviceRequests,
         NEW before \in BOOLEAN
  PROVE  McuSafetyAfter(S, before) \subseteq BOOLEAN
<1>1. \A i \in DOMAIN deviceRequests : deviceRequests[i] \in DeviceRequests
  BY DEF TypeOK
<1>2. \A i \in LastMcuSafety(S) : deviceRequests[i].enabled \in BOOLEAN
  BY <1>1 DEF LastMcuSafety, DeviceRequests
<1> QED BY <1>2 DEF McuSafetyAfter

-----------------------------------------------------------------------------
\* The initial state is of its type.
LEMMA TypeInit == Init => TypeOK
<1> SUFFICES ASSUME Init PROVE TypeOK
  OBVIOUS
<1>1. InitialControl \in ControlSnapshots
  BY DEF InitialControl, ControlSnapshots, Commands
<1>2. InitialFaultManager \in FaultManagers
  BY ZeroAges DEF InitialFaultManager, FaultManagers, BaseStates, FaultCodes
<1>3. FaultSnapshot(InitialFaultManager) \in FaultSnapshots
  BY <1>2, FaultSnapshotType
<1>4. << >> \in Seq(DeviceRequests)
  OBVIOUS
<1>5. 0 \in 0 .. FirstFeedbackTimeout + 1 /\ 0 \in 0 .. ReconnectPeriod
  BY WorkerAssumption
<1>6. /\ hardware \in [fault : FaultSnapshots, mcuSafetyRequested : BOOLEAN]
      /\ barrier \in [connect : Nat, reset : Nat]
      /\ overrun \in [estop : 0 .. 2, stale : 0 .. 2]
  BY <1>3 DEF Init
<1>7. pc \in PCs /\ faultReason \in FaultCodes
  BY DEF Init, PCs, FaultCodes
<1> QED
  BY <1>1, <1>2, <1>4, <1>5, <1>6, <1>7, NoCommandType DEF Init, TypeOK

\* The callbacks and stop() keep the types.
LEMMA TypeCallback ==
  ASSUME TypeOK, Callback \/ Stop \/ JoinAndClose
  PROVE  TypeOK'
<1> USE DEF TypeOK, workerVars, historyVars, sharedVars, seenVars, timeVars
<1>1. ASSUME NEW v \in Velocities \cup {NonFinite}, OnVelocity(v)
      PROVE  TypeOK'
  <2>1. v \in Commands /\ control.commandSeq + 1 \in Nat
    BY ControlAssumption DEF Commands, ControlSnapshots
  <2>2. control' \in ControlSnapshots
    BY <1>1, <2>1 DEF OnVelocity, SubmitVelocity, ControlSnapshots
  <2> QED BY <1>1, <2>2 DEF OnVelocity, SubmitVelocity
<1>2. ASSUME NEW active \in BOOLEAN, OnEmergencyStop(active)
      PROVE  TypeOK'
  <2>1. control' \in ControlSnapshots
    BY <1>2 DEF OnEmergencyStop, SetEmergencyStop, ControlSnapshots
  <2>2. overrun' \in [estop : 0 .. 2, stale : 0 .. 2]
    BY <1>2 DEF OnEmergencyStop
  <2> QED BY <1>2, <2>1, <2>2 DEF OnEmergencyStop, SetEmergencyStop
<1>3. CASE OnReset
  <2>1. control.resetSeq + 1 \in Nat
    BY DEF ControlSnapshots
  <2>2. control' \in ControlSnapshots
    BY <1>3, <2>1 DEF OnReset, RequestReset, ControlSnapshots
  <2> QED BY <1>3, <2>2 DEF OnReset, RequestReset
<1>4. ASSUME NEW r \in DeviceRequests, OnDeviceRequest(r)
      PROVE  TypeOK'
  BY <1>4 DEF OnDeviceRequest, EnqueueDeviceRequest
<1>5. CASE Stop
  BY <1>5 DEF Stop
<1>6. CASE JoinAndClose
  BY <1>6, LineType DEF JoinAndClose, PCs
<1> QED BY <1>1, <1>2, <1>3, <1>4, <1>5, <1>6 DEF Callback

\* The top of the loop and its end.
LEMMA TypeLoop ==
  ASSUME TypeOK,
         \/ \E d \in 1 .. MaxStep : Sample(d)
         \/ ExitLoop \/ Publish \/ DisconnectResync
  PROVE  TypeOK'
<1> USE DEF TypeOK, historyVars, sharedVars, seenVars, timeVars, PCs
<1>1. ASSUME NEW d \in 1 .. MaxStep, Sample(d)
      PROVE  TypeOK'
  <2>1. d \in Nat
    BY WorkerAssumption
  <2>2. control.emergencyStop \in BOOLEAN
    BY DEF ControlSnapshots
  <2>3. fm' \in FaultManagers
    BY <1>1, <2>1, <2>2, ElapseType, ObserveEmergencyStopType DEF Sample
  <2>4. connectedAge' \in 0 .. FirstFeedbackTimeout + 1
    BY <1>1, <2>1, WorkerAssumption DEF Sample, Older
  <2>5. reconnectWait' \in 0 .. ReconnectPeriod
    BY <1>1, <2>1, WorkerAssumption DEF Sample, ReconnectWaitAfter
  <2> QED BY <1>1, <2>3, <2>4, <2>5 DEF Sample
<1>2. CASE ExitLoop
  BY <1>2 DEF ExitLoop
<1>3. CASE Publish
  <2>1. InitialControl \in ControlSnapshots
    BY DEF InitialControl, ControlSnapshots, Commands
  <2>2. FaultSnapshot(fm) \in FaultSnapshots
    BY FaultSnapshotType
  <2> QED BY <1>3, <2>1, <2>2 DEF Publish
<1>4. CASE DisconnectResync
  <2>1. control.commandSeq \in Nat
    BY DEF ControlSnapshots
  <2>2. NotifySerialDisconnected(fm, faultReason) \in FaultManagers
    BY NotifyType
  <2>3. ReconnectPeriod \in 0 .. ReconnectPeriod
    BY WorkerAssumption
  <2>4. "None" \in FaultCodes
    BY DEF FaultCodes
  <2> QED BY <1>4, <2>1, <2>2, <2>3, <2>4 DEF DisconnectResync
<1> QED BY <1>1, <1>2, <1>3, <1>4

\* Connecting.
LEMMA TypeConnect ==
  ASSUME TypeOK, Connect
  PROVE  TypeOK'
<1> USE DEF TypeOK, historyVars, sharedVars, seenVars, timeVars, PCs
<1>1. /\ "SerialIo" \in FaultCodes /\ "McuSafetyConfig" \in FaultCodes
      /\ control.commandSeq \in Nat
  BY DEF FaultCodes, ControlSnapshots
<1>2. CASE OpenFails
  BY <1>2, WorkerAssumption DEF OpenFails
<1>3. CASE OpenSucceeds
  <2>1. control' \in ControlSnapshots
    BY <1>3, InvalidateCommandType DEF OpenSucceeds
  <2>2. control'.commandSeq \in Nat
    BY <2>1 DEF ControlSnapshots
  <2>3. barrier' \in [connect : Nat, reset : Nat]
    BY <1>3, <2>2 DEF OpenSucceeds
  <2> QED BY <1>3, <2>1, <2>3, NoCommandType DEF OpenSucceeds
<1>4. CASE ConnectResync
  <2>1. NotifySerialConnected(fm) \in FaultManagers
    BY <1>1, NotifyType
  <2>2. 0 \in 0 .. FirstFeedbackTimeout + 1
    BY WorkerAssumption
  <2> QED BY <1>1, <1>4, <2>1, <2>2 DEF ConnectResync
<1>5. CASE HandshakeDone
  <2>1. line' \in Lines
    BY <1>5, NoCommandType DEF HandshakeDone, Lines
  <2> QED BY <1>5, <2>1, WorkerAssumption DEF HandshakeDone
<1>6. CASE HandshakeZeroFails
  BY <1>1, <1>6, DisconnectingType DEF HandshakeZeroFails
<1>7. CASE HandshakeMcuSafetyFails
  <2>1. fm' \in FaultManagers
    BY <1>1, <1>7, NotifyType DEF HandshakeMcuSafetyFails
  <2> QED BY <1>1, <1>7, <2>1, DisconnectingType DEF HandshakeMcuSafetyFails
<1> QED BY <1>2, <1>3, <1>4, <1>5, <1>6, <1>7 DEF Connect

\* Resets and commands.
LEMMA TypeHandleControl ==
  ASSUME TypeOK, HandleControl
  PROVE  TypeOK'
<1> USE DEF TypeOK, historyVars, sharedVars, seenVars, timeVars, PCs
<1>1. /\ control.commandSeq \in Nat
      /\ ctl.commandSeq \in Nat /\ ctl.resetSeq \in Nat
      /\ ctl.command \in Commands
  BY DEF ControlSnapshots
<1>2. InvalidateCommand(control) \in ControlSnapshots
  BY InvalidateCommandType
<1>3. "None" \in FaultCodes
  BY DEF FaultCodes
<1>4. CASE ResetFault
  <2>1. ResetDone(fm) \in FaultManagers
    BY EvaluatedType
  <2>2. control'.commandSeq \in Nat
    BY <1>2, <1>4 DEF ResetFault, ControlSnapshots
  <2>3. barrier' \in [connect : Nat, reset : Nat]
    BY <1>4, <2>2 DEF ResetFault
  <2>4. overrun' \in [estop : 0 .. 2, stale : 0 .. 2]
    BY <1>4 DEF ResetFault
  <2> QED BY <1>1, <1>2, <1>4, <2>1, <2>3, <2>4 DEF ResetFault
<1>5. CASE SkipReset
  BY <1>1, <1>5 DEF SkipReset
<1>6. CASE ResetResync
  BY <1>1, <1>6, NoCommandType DEF ResetResync
<1>7. CASE NoNewCommand
  BY <1>7 DEF NoNewCommand
<1>8. CASE AcceptCommand
  <2>1. ctl.command \in Int
    BY <1>1, <1>8 DEF AcceptCommand, Commands
  <2>2. [v |-> Clamp(ctl.command), seq |-> ctl.commandSeq] \in Outputs
    BY <1>1, <2>1, ClampType DEF Outputs
  <2>3. NotifyValidCommand(fm) \in FaultManagers
    BY <1>3, NotifyType
  <2> QED BY <1>1, <1>8, <2>2, <2>3 DEF AcceptCommand
<1>9. CASE RejectCommand
  <2>1. NotifyInvalidCommand(fm) \in FaultManagers
    BY <1>3, NotifyType
  <2> QED BY <1>1, <1>2, <1>9, <2>1, NoCommandType DEF RejectCommand
<1>10. CASE InvalidResync
  BY <1>1, <1>10 DEF InvalidResync
<1>11. CASE CommandWithdrawn
  <2>1. ForgetCommand(fm) \in FaultManagers
    BY ClearFreshnessType
  <2> QED BY <1>1, <1>11, <2>1, NoCommandType DEF CommandWithdrawn
<1> QED
  BY <1>4, <1>5, <1>6, <1>7, <1>8, <1>9, <1>10, <1>11 DEF HandleControl

\* Reading, judging the feedback, and writing.
LEMMA TypeDriveLine ==
  ASSUME TypeOK, DriveLine
  PROVE  TypeOK'
<1> USE DEF TypeOK, historyVars, sharedVars, seenVars, timeVars, PCs
<1>1. {"None", "SerialIo", "FeedbackTimeout"} \subseteq FaultCodes
  BY DEF FaultCodes
<1>2. << >> \in Seq(DeviceRequests)
  OBVIOUS
<1>3. Permitted \subseteq DOMAIN deviceRequests /\ line.mcuOn \in BOOLEAN
  BY DEF Permitted, Lines
<1>4. CASE ReadFails
  BY <1>1, <1>4, DisconnectingType DEF ReadFails
<1>5. ASSUME NEW motion \in BOOLEAN, ReadAndProcess(motion)
      PROVE  TypeOK'
  <2>1. NotifyMotionFeedback(fm) \in FaultManagers
    BY <1>1, NotifyType
  <2> QED BY <1>5, <2>1 DEF ReadAndProcess
<1>6. Evaluated(fm) \in FaultManagers
  BY EvaluatedType
<1>7. CASE FeedbackTimedOut
  BY <1>1, <1>6, <1>7, DisconnectingType DEF FeedbackTimedOut
<1>8. CASE Evaluate
  BY <1>6, <1>8 DEF Evaluate
<1>9. CASE WriteDeviceRequests
  <2>1. mcuSafetyRequested' \in BOOLEAN
    BY <1>3, <1>9, McuSafetyAfterType DEF WriteDeviceRequests
  <2>2. McuSafetyAfter(Permitted, line.mcuOn) \subseteq BOOLEAN
    BY <1>3, McuSafetyAfterType
  <2>3. line' \in Lines
    BY <1>9, <2>2, LineType DEF WriteDeviceRequests
  <2> QED BY <1>2, <1>9, <2>1, <2>3 DEF WriteDeviceRequests
<1>10. ASSUME NEW i \in Permitted, DeviceWriteFails(i)
       PROVE  TypeOK'
  <2>1. {j \in Permitted : j <= i} \subseteq DOMAIN deviceRequests
    BY <1>3
  <2>2. mcuSafetyRequested' \in BOOLEAN
    BY <1>10, <2>1, McuSafetyAfterType DEF DeviceWriteFails
  <2> QED BY <1>1, <1>2, <1>10, <2>2, DisconnectingType DEF DeviceWriteFails
<1>11. CASE SendMotion
  <2>1. Output \in Outputs
    BY NoCommandType DEF Output
  <2>2. line' \in Lines
    BY <1>11, <2>1 DEF SendMotion, Lines
  <2>3. overrun' \in [estop : 0 .. 2, stale : 0 .. 2]
    BY <1>11 DEF SendMotion, Saturated
  <2> QED BY <1>11, <2>2, <2>3 DEF SendMotion
<1>12. CASE SendMotionFails
  BY <1>1, <1>12, DisconnectingType DEF SendMotionFails
<1> QED
  BY <1>4, <1>5, <1>7, <1>8, <1>9, <1>10, <1>11, <1>12 DEF DriveLine

\* Every step keeps the types.
LEMMA TypeStep ==
  ASSUME TypeOK, [Next]_vars
  PROVE  TypeOK'
<1>1. CASE Worker
  BY <1>1, TypeLoop, TypeConnect, TypeHandleControl, TypeDriveLine DEF Worker
<1>2. CASE Stopped \/ UNCHANGED vars
  BY <1>2 DEF Stopped, TypeOK, vars, sharedVars, seenVars, timeVars,
              historyVars
<1> QED BY <1>1, <1>2, TypeCallback DEF Next

\* Every variable keeps to its type, whatever the timeouts, speeds, flags and
\* bounds are.
THEOREM TypeCorrect == Spec => []TypeOK
<1>1. TypeOK /\ [Next]_vars => TypeOK'
  BY TypeStep
<1> QED BY <1>1, TypeInit, PTL DEF Spec
=============================================================================
