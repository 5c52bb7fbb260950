-------------------------- MODULE BaseFaultManager --------------------------
(***************************************************************************)
(* The fault state machine of inspection_robot_base (BaseFaultManager), as *)
(* operators on a record m that holds the fields of one manager.  The      *)
(* class has a single owner, the I/O thread, so each method is a function  *)
(* from the record before the call to the record after it.                 *)
(*                                                                         *)
(* The code keeps the instants last_feedback_ and last_command_ and        *)
(* compares now - instant with a timeout.  The record keeps the two        *)
(* differences instead (feedbackAge, commandAge), which Elapse advances    *)
(* and which stop growing one past the timeout: no comparison of the code  *)
(* tells larger ages apart.                                                *)
(***************************************************************************)
EXTENDS Integers

CONSTANTS
  CommandTimeout,   \* command_timeout_, in clock units
  FeedbackTimeout   \* feedback_timeout_, in clock units

ASSUME TimeoutsAssumption ==
  /\ CommandTimeout \in Nat
  /\ FeedbackTimeout \in Nat

BaseStates == {"Disconnected", "WaitingForFeedback", "Ready", "FaultLatched"}

FaultCodes == {"None", "InvalidCommand", "FeedbackTimeout", "SerialIo",
               "EmergencyStop", "McuSafetyConfig"}

FaultManagers ==
  [state : BaseStates,
   fault : FaultCodes,
   serialOpen : BOOLEAN,
   haveFeedback : BOOLEAN,
   haveCommand : BOOLEAN,
   emergencyStop : BOOLEAN,
   feedbackAge : 0 .. FeedbackTimeout + 1,
   commandAge : 0 .. CommandTimeout + 1]

InitialFaultManager ==
  [state |-> "Disconnected", fault |-> "None", serialOpen |-> FALSE,
   haveFeedback |-> FALSE, haveCommand |-> FALSE, emergencyStop |-> FALSE,
   feedbackAge |-> 0, commandAge |-> 0]

-----------------------------------------------------------------------------
Latched(m) == m.state = "FaultLatched"

\* The first cause is kept: a latch while latched changes nothing.
Latch(m, code) ==
  [m EXCEPT !.fault = IF Latched(m) THEN @ ELSE code,
            !.state = "FaultLatched"]

ClearFreshness(m) ==
  [m EXCEPT !.haveFeedback = FALSE, !.haveCommand = FALSE,
            !.feedbackAge = 0, !.commandAge = 0]

ForgetCommand(m) == [m EXCEPT !.haveCommand = FALSE, !.commandAge = 0]

\* Mutation: a reconnection forgets that a fault is kept.
NotifySerialConnectedUnlatching(m) ==
  [ClearFreshness(m) EXCEPT !.serialOpen = TRUE, !.state = "WaitingForFeedback"]

NotifySerialConnected(m) ==
  [ClearFreshness(m) EXCEPT
     !.serialOpen = TRUE,
     !.state = IF Latched(m) THEN @ ELSE "WaitingForFeedback"]

\* Mutation: the loss of the port is not latched.
NotifySerialDisconnectedSilently(m, reason) ==
  [ClearFreshness(m) EXCEPT !.serialOpen = FALSE]

\* The worker always names a cause, so the branch for kNone has no caller.
NotifySerialDisconnected(m, reason) ==
  Latch([ClearFreshness(m) EXCEPT !.serialOpen = FALSE], reason)

NotifyMotionFeedback(m) ==
  [m EXCEPT !.haveFeedback = TRUE, !.feedbackAge = 0,
            !.state = IF m.serialOpen /\ ~Latched(m) THEN "Ready" ELSE @]

NotifyValidCommand(m) == [m EXCEPT !.haveCommand = TRUE, !.commandAge = 0]

NotifyInvalidCommand(m) == Latch(m, "InvalidCommand")

NotifyMcuSafetyConfigFailure(m) == Latch(m, "McuSafetyConfig")

\* Mutation: the stop is latched but the level is not stored.
ObserveEmergencyStopEdge(m, active) ==
  IF active THEN Latch(m, "EmergencyStop") ELSE m

\* Mutation: the level is stored but raises no fault.
ObserveEmergencyStopLevel(m, active) == [m EXCEPT !.emergencyStop = active]

\* The flag follows the switch; the fault it raises stays when it is let go.
ObserveEmergencyStop(m, active) ==
  LET seen == [m EXCEPT !.emergencyStop = active]
  IN  IF active THEN Latch(seen, "EmergencyStop") ELSE seen

-----------------------------------------------------------------------------
\* Mutation: feedback once received counts as healthy for ever.
FeedbackEverReceived(m) == m.serialOpen /\ m.haveFeedback

FeedbackHealthy(m) ==
  m.serialOpen /\ m.haveFeedback /\ m.feedbackAge <= FeedbackTimeout

\* Mutation: a command once accepted counts as healthy for ever.
CommandEverAccepted(m) == m.haveCommand

CommandHealthy(m) == m.haveCommand /\ m.commandAge <= CommandTimeout

CanMove(m) ==
  /\ m.state = "Ready"
  /\ ~m.emergencyStop
  /\ FeedbackHealthy(m)
  /\ CommandHealthy(m)

\* evaluate(): a latched manager is not evaluated at all.
FeedbackTimeoutTransition(m) ==
  ~Latched(m) /\ m.serialOpen /\ m.haveFeedback /\ ~FeedbackHealthy(m)

Evaluated(m) ==
  IF Latched(m) THEN m
  ELSE IF ~m.serialOpen THEN [m EXCEPT !.state = "Disconnected"]
  ELSE IF ~m.haveFeedback THEN [m EXCEPT !.state = "WaitingForFeedback"]
  ELSE IF ~FeedbackHealthy(m) THEN Latch(m, "FeedbackTimeout")
  ELSE [m EXCEPT !.state = "Ready"]

\* Mutation: a reset with the emergency stop held is granted.
ResetPossibleUnderStop(m) == m.serialOpen /\ FeedbackHealthy(m)

\* resetIfHealthy(): the condition and the effect of a successful reset.
ResetPossible(m) == m.serialOpen /\ ~m.emergencyStop /\ FeedbackHealthy(m)

ResetDone(m) ==
  ForgetCommand([m EXCEPT !.fault = "None", !.state = "Ready"])

FaultSnapshot(m) ==
  [state |-> m.state, fault |-> m.fault, serialOpen |-> m.serialOpen,
   feedbackHealthy |-> FeedbackHealthy(m),
   commandHealthy |-> CommandHealthy(m),
   emergencyStop |-> m.emergencyStop]

FaultSnapshots ==
  [state : BaseStates, fault : FaultCodes, serialOpen : BOOLEAN,
   feedbackHealthy : BOOLEAN, commandHealthy : BOOLEAN,
   emergencyStop : BOOLEAN]

-----------------------------------------------------------------------------
\* An age, d clock units later.
Older(age, d, limit) == IF age + d > limit THEN limit + 1 ELSE age + d

\* The clock is read d units later than it was last read.
Elapse(m, d) ==
  [m EXCEPT
     !.feedbackAge = IF m.haveFeedback THEN Older(@, d, FeedbackTimeout) ELSE 0,
     !.commandAge = IF m.haveCommand THEN Older(@, d, CommandTimeout) ELSE 0]

-----------------------------------------------------------------------------
\* What every reachable fault manager satisfies: a code is kept exactly while
\* latched, a stop that is seen is latched, and READY rests on feedback that
\* came over the open port.
Consistent(m) ==
  /\ Latched(m) <=> m.fault # "None"
  /\ m.emergencyStop => Latched(m)
  /\ m.haveFeedback => m.serialOpen
  /\ m.state = "Ready" => m.haveFeedback
=============================================================================
