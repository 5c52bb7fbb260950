--------------------------- MODULE CommandPathModes ---------------------------
(***************************************************************************)
(* The command path with a record of how long each source has not been the *)
(* mode of the velocity manager, and how long ago the mode was last set.   *)
(***************************************************************************)
EXTENDS CommandPath

VARIABLES unselected, chosen

modesVars == <<vars, unselected, chosen>>

\* Selected before the switch: one way to the safety node, its timeout, one
\* way to the base, its timeout.
SwitchBound == CommandStale + BaseTimeout + 2 * MaxDelay

ModesTypeOK == TypeOK /\ unselected \in [Sources -> Nat] /\ chosen \in Nat

ModesInit == Init /\ unselected = [s \in Sources |-> 0] /\ chosen = 0

ModesStep ==
  \/ /\ OnSetMode
     /\ unselected' = [s \in Sources |-> IF s = mode' THEN 0 ELSE unselected[s]]
     /\ chosen' = 0
  \/ OtherStep /\ UNCHANGED <<unselected, chosen>>

ModesElapse ==
  /\ Elapse
  /\ unselected' = [s \in Sources |->
                      IF s = mode THEN 0 ELSE Later(unselected[s], SwitchBound)]
  /\ chosen' = Later(chosen, SourceTimeout)

ModesSpec == ModesInit /\ [][ModesStep \/ ModesElapse]_modesVars

\* The invariants behind the two properties: at each holder, a command that may
\* still be passed on was selected while its source was the mode, or so long
\* after that; and what the manager may select came after the last setMode.
SelectedWithin(m, n) ==
  Moves(m) => m.from \in Sources /\ unselected[m.from] <= n

SwitchesAddUp ==
  /\ \A s \in Sources : Moves(source[s].msg) => source[s].msg.from = s
  /\ mode \in Sources => unselected[mode] = 0
  /\ Moves(control.msg) => control.full
  /\ SelectedWithin(control.msg, control.age)
  /\ safetyCmd.age <= CommandStale =>
       SelectedWithin(safetyCmd.msg, MaxDelay + safetyCmd.age)
  /\ Moves(safe.msg) => safe.full
  /\ SelectedWithin(safe.msg, MaxDelay + CommandStale + safe.age)
  /\ base.gate = "OPEN" /\ base.age <= BaseTimeout =>
       SelectedWithin(base.cmd, 2 * MaxDelay + CommandStale + base.age)

ReceivedSinceChosen ==
  mode \in Sources /\ Fresh(mode) => source[mode].age <= chosen

\* A source that is no longer the mode (setMode) stops driving the robot:
\* only what was selected before the switch may still be on its way, and every
\* watchdog behind the manager must let go of it.
ModeHonoured == Driving => unselected[Written.from] <= SwitchBound

\* Every setMode asks for a fresh source command ("a fresh source command is
\* required"): what the manager selects was not received before the last one;
\* it may have been under way.
FreshAfterSwitch == Moves(Selected) => Selected.age <= chosen + SourceDelay
=============================================================================
