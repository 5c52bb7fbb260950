--------------------------- MODULE VelocityManager ---------------------------
(***************************************************************************)
(* inspection_robot_core: the VelocityManager node, which lets one source  *)
(* through to /control/cmd_vel.  A single-threaded executor runs its       *)
(* callbacks, so each one is a step; an instant t of the code is kept as   *)
(* the age of what it stamps.                                              *)
(***************************************************************************)
EXTENDS Twist

CONSTANTS
  SourceTimeout,  \* source_timeout_ms
  InitialMode     \* initial_mode

VARIABLES
  mode,   \* mode_
  source  \* manual_s_, nav_s_ and follow_s_

managerVars == <<mode, source>>

Modes == Sources \cup {"STOP"}

ASSUME ManagerAssumption == SourceTimeout \in Nat /\ InitialMode \in Modes

SourceStates == [msg : Twists \cup BadTwists, age : Nat, have : BOOLEAN]

\* The time stamp is as good as never.
NoMessage == [msg |-> Rest, age |-> SourceTimeout + 1, have |-> FALSE]

ManagerInit ==
  /\ mode = InitialMode
  /\ source = [s \in Sources |-> NoMessage]

\* A message of source s arrives.
Update(s, m) ==
  /\ source' = [source EXCEPT ![s] = [msg |-> m, age |-> 0, have |-> TRUE]]
  /\ UNCHANGED mode

\* Mutation: the mode changes and the source it names keeps what it had.
SetModeKeeping(m) == mode' = m /\ UNCHANGED source

\* /control/set_mode with a valid name; any other name changes nothing.
SetMode(m) ==
  /\ mode' = m
  /\ source' = [s \in Sources |-> [source[s] EXCEPT !.have = @ /\ s # m]]

\* Mutation: what was once received stays fresh.
FreshForEver(s) == source[s].have

Fresh(s) == source[s].have /\ source[s].age <= SourceTimeout

\* Mutation: a command with a NaN is let through.
SelectedUnchecked ==
  IF mode \in Sources /\ Fresh(mode) THEN source[mode].msg ELSE Rest

\* What tick() publishes.
Selected ==
  IF mode \in Sources /\ Fresh(mode) /\ Finite(source[mode].msg)
  THEN source[mode].msg ELSE Rest

ManagerElapse ==
  /\ source' = [s \in Sources |->
                  [source[s] EXCEPT !.msg = Aged(@), !.age = Later(@, SourceTimeout)]]
  /\ UNCHANGED mode
=============================================================================
