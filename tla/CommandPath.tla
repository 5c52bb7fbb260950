----------------------------- MODULE CommandPath -----------------------------
(***************************************************************************)
(* The command path end to end: a source, the VelocityManager, the         *)
(* SafetyNode and the base, three processes that share only the topics     *)
(* /control/cmd_vel and /base/safe_cmd_vel.                                *)
(*                                                                         *)
(* Of the base (BaseIoWorker has the whole of it) this module keeps what   *)
(* decides which velocity it writes: the command it took, how long ago,    *)
(* and a gate.  The gate closes for any fault and is opened by a reset,    *)
(* after which the last command is written once more before it is          *)
(* forgotten (see ResetNeedsNewCommand).                                   *)
(*                                                                         *)
(* A message is taken at most MaxDelay (from a source, SourceDelay) units  *)
(* after it was published: an assumption about the middleware and the      *)
(* executors.  Nothing is assumed of how often a source speaks or a timer  *)
(* fires.                                                                  *)
(***************************************************************************)
EXTENDS VelocityManager, SafetyNode

CONSTANTS
  SourceDelay, \* how long a source's message may be under way
  MaxDelay,    \* how long a message of /control or /base may be
  BaseTimeout  \* command_timeout_ms of the base

ASSUME PathAssumption ==
  SourceDelay \in 0 .. Horizon /\ MaxDelay \in Nat /\ BaseTimeout \in Nat

VARIABLES
  control,     \* /control/cmd_vel
  safe,        \* /base/safe_cmd_vel
  base         \* the command that the base holds, and its gate

pathVars == <<control, safe, base>>
vars == <<managerVars, safetyVars, pathVars>>

Gates == {"OPEN", "LATCHED", "REVIVED"}
Bases == [cmd : Twists, age : Nat, gate : Gates]

NoBaseCommand == [cmd |-> Rest, age |-> BaseTimeout + 1, gate |-> "OPEN"]

\* The velocity that an iteration of the base writes.
Written ==
  IF \/ base.gate = "OPEN" /\ base.age <= BaseTimeout
     \/ base.gate = "REVIVED"
  THEN base.cmd ELSE Rest

TypeOK ==
  /\ mode \in Modes /\ source \in [Sources -> SourceStates]
  /\ safetyCmd \in [msg : Twists, age : Nat, have : BOOLEAN]
  /\ safetyEstop \in BOOLEAN
  /\ ranges \in [Sensors -> [value : Readings, age : Nat, have : BOOLEAN]]
  /\ laser \in [front : SUBSET Distances, age : Nat, have : BOOLEAN]
  /\ control \in Topics /\ safe \in Topics /\ base \in Bases

Init ==
  /\ ManagerInit /\ SafetyInit
  /\ control = NoTwist /\ safe = NoTwist /\ base = NoBaseCommand

-----------------------------------------------------------------------------
(* The velocity manager.                                                   *)
OnSource ==
  \E s \in Sources, delay \in 0 .. SourceDelay :
  \E m \in {Rest} \cup [v : Velocities \cup {NonFinite}, from : {s}, age : {delay}] :
    /\ Update(s, m)
    /\ UNCHANGED <<safetyVars, pathVars>>

OnSetMode ==
  \E m \in Modes :
    /\ SetMode(m)
    /\ UNCHANGED <<safetyVars, pathVars>>

ManagerTick ==
  /\ control' = Sent(Selected)
  /\ UNCHANGED <<managerVars, safetyVars, safe, base>>

-----------------------------------------------------------------------------
(* The safety node.                                                        *)
DeliverControl ==
  /\ control.full
  /\ OnCommand(control.msg)
  /\ control' = NoTwist
  /\ UNCHANGED <<managerVars, safe, base>>

SensorsReport ==
  /\ \/ \E active \in BOOLEAN : OnSafetyEstop(active)
     \/ \E i \in Sensors, reading \in Readings : OnRange(i, reading)
     \/ \E front \in SUBSET Distances : UseLaser /\ OnScan(front)
  /\ UNCHANGED <<managerVars, pathVars>>

SafetyTick ==
  /\ safe' = Sent(SafeOutput)
  /\ UNCHANGED <<managerVars, safetyVars, control, base>>

-----------------------------------------------------------------------------
(* The base.                                                               *)
BaseTakes ==
  /\ safe.full
  /\ safe' = NoTwist
  /\ base' = [cmd |-> safe.msg, age |-> 0,
              gate |-> IF base.gate = "REVIVED" THEN "OPEN" ELSE base.gate]
  /\ UNCHANGED <<managerVars, safetyVars, control>>

\* A fault; if the port was lost, the command is forgotten.
BaseFault ==
  /\ base' \in {[base EXCEPT !.gate = "LATCHED"],
                [NoBaseCommand EXCEPT !.gate = "LATCHED"]}
  /\ UNCHANGED <<managerVars, safetyVars, control, safe>>

\* A reset is granted: whatever its age, the last command is written once.
BaseReset ==
  /\ base.gate = "LATCHED"
  /\ base' = [base EXCEPT !.gate = "REVIVED", !.age = 0]
  /\ UNCHANGED <<managerVars, safetyVars, control, safe>>

\* The next iteration withdraws it.
BaseForgets ==
  /\ base.gate = "REVIVED"
  /\ base' = NoBaseCommand
  /\ UNCHANGED <<managerVars, safetyVars, control, safe>>

-----------------------------------------------------------------------------
BaseElapse ==
  base' = [base EXCEPT !.cmd = Aged(@), !.age = Later(@, BaseTimeout)]

Elapse ==
  /\ control.full => control.age < MaxDelay
  /\ safe.full => safe.age < MaxDelay
  /\ ManagerElapse /\ SafetyElapse /\ BaseElapse
  /\ control' = LaterIn(control) /\ safe' = LaterIn(safe)

OtherStep ==
  \/ OnSource \/ ManagerTick
  \/ DeliverControl \/ SensorsReport \/ SafetyTick
  \/ BaseTakes \/ BaseFault \/ BaseReset \/ BaseForgets

Step == OnSetMode \/ OtherStep

Next == Step \/ Elapse

Spec == Init /\ [][Next]_vars

-----------------------------------------------------------------------------
Driving == Moves(Written) /\ base.gate # "REVIVED"

AgeBound == SourceDelay + SourceTimeout + CommandStale + BaseTimeout + 2 * MaxDelay

\* The invariant behind CommandAge: at each holder, a command that the holder
\* may still pass on is at most so much older than its stay there.
AgeAtControl == SourceDelay + SourceTimeout
AgeAtSafety == AgeAtControl + MaxDelay
AgeAtSafe == AgeAtSafety + CommandStale
AgeAtBase == AgeAtSafe + MaxDelay

AgesAddUp ==
  /\ \A s \in Sources : source[s].age <= SourceTimeout =>
       source[s].msg.age <= SourceDelay + source[s].age
  /\ control.age <= MaxDelay /\ control.msg.age <= AgeAtControl + control.age
  /\ safetyCmd.age <= CommandStale => safetyCmd.msg.age <= AgeAtSafety + safetyCmd.age
  /\ safe.age <= MaxDelay /\ safe.msg.age <= AgeAtSafe + safe.age
  /\ base.gate = "OPEN" /\ base.age <= BaseTimeout =>
       base.cmd.age <= AgeAtBase + base.age

\* No velocity is written that a source asked for longer ago than the three
\* timeouts and the three ways take together, however the watchdogs of the
\* manager (fresh), the safety node (cmd_ok) and the base (commandHealthy)
\* combine.
CommandAge == Driving => Written.age <= AgeBound
=============================================================================
