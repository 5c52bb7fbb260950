------------------------- MODULE SharedControlState -------------------------
(***************************************************************************)
(* SharedControlState: the mailbox between the ROS callbacks of            *)
(* BaseDriverNode and the I/O thread.  Every method holds the mutex for    *)
(* its whole body, so every method is one atomic step; what is not atomic  *)
(* is a SEQUENCE of calls, which is why the I/O thread's invalidate-then-  *)
(* snapshot appears as two steps in BaseIoWorker.                          *)
(*                                                                         *)
(* A velocity is one signed integer (the three axes are clamped and        *)
(* checked alike); NonFinite stands for a command with a NaN or infinite   *)
(* axis.                                                                   *)
(***************************************************************************)
EXTENDS Integers, Sequences

CONSTANTS
  Velocities,            \* the finite velocities the callbacks may submit
  NonFinite,             \* a command with a NaN or infinite component
  AllowMcuSafetyDisable, \* mcu.allow_safety_disable
  MaxCommandSeq,         \* bound: callbacks submit below this commandSeq
  MaxResetSeq,           \* bound: number of reset requests
  MaxQueue               \* bound: length of the device-request queue

ASSUME ControlAssumption ==
  /\ Velocities \subseteq Int
  /\ NonFinite \notin Int
  /\ AllowMcuSafetyDisable \in BOOLEAN
  /\ MaxCommandSeq \in Nat
  /\ MaxResetSeq \in Nat
  /\ MaxQueue \in Nat

VARIABLES
  control,        \* state_ : the ControlSnapshot
  deviceRequests  \* device_requests_

Commands == Int \cup {NonFinite}

ControlSnapshots ==
  [command : Commands, commandSeq : Nat, haveCommand : BOOLEAN,
   emergencyStop : BOOLEAN, resetSeq : Nat]

InitialControl ==
  [command |-> 0, commandSeq |-> 0, haveCommand |-> FALSE,
   emergencyStop |-> FALSE, resetSeq |-> 0]

\* The colour of a light request is payload that nothing distinguishes.
DeviceRequests ==
  [type : {"Recharge", "McuSafety", "Light"}, enabled : BOOLEAN]

-----------------------------------------------------------------------------
\* onVelocity -> submitVelocity
SubmitVelocity(v) ==
  /\ control.commandSeq < MaxCommandSeq
  /\ control' = [control EXCEPT !.command = v, !.haveCommand = TRUE,
                                !.commandSeq = @ + 1]
  /\ UNCHANGED deviceRequests

\* onEmergencyStop -> setEmergencyStop: a level, not a counted event
SetEmergencyStop(active) ==
  /\ control' = [control EXCEPT !.emergencyStop = active]
  /\ UNCHANGED deviceRequests

\* onReset -> requestReset: counted, and only ever compared for inequality
RequestReset ==
  /\ control.resetSeq < MaxResetSeq
  /\ control' = [control EXCEPT !.resetSeq = @ + 1]
  /\ UNCHANGED deviceRequests

\* onRecharge, onLight and onMcuSafety -> enqueueDeviceRequest; onMcuSafety
\* answers a disable with a refusal unless the configuration allows it.
EnqueueDeviceRequest(r) ==
  /\ Len(deviceRequests) < MaxQueue
  /\ r.type = "McuSafety" => r.enabled \/ AllowMcuSafetyDisable
  /\ deviceRequests' = Append(deviceRequests, r)
  /\ UNCHANGED control

\* What invalidateCommand() leaves behind; called by the I/O thread only.
InvalidateCommand(c) ==
  [c EXCEPT !.command = 0, !.haveCommand = FALSE, !.commandSeq = @ + 1]
=============================================================================
