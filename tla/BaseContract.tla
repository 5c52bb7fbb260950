---------------------------- MODULE BaseContract ----------------------------
(***************************************************************************)
(* What the base promises to an observer of /base/status and of the        *)
(* wheels, with no queue, clock, thread or frame in sight.  A lost link    *)
(* always leaves a kept fault; a kept fault is only cleared over a live    *)
(* link with the robot at rest; motion starts, and goes on, only from      *)
(* READY, and READY is only reached through feedback or a reset.           *)
(***************************************************************************)
VARIABLES
  state,   \* one of the four base states
  link,    \* the base believes the port open
  moving   \* the last frame on an open port carried a velocity

contract == <<state, link, moving>>

Held == state = "FaultLatched"

Init == state = "Disconnected" /\ ~link /\ ~moving

OpenLink ==
  /\ ~link /\ ~moving
  /\ link' = TRUE
  /\ state' = IF Held THEN state ELSE "WaitingForFeedback"
  /\ UNCHANGED moving

Feedback ==
  /\ link /\ state = "WaitingForFeedback"
  /\ state' = "Ready"
  /\ UNCHANGED <<link, moving>>

\* A fault may come with the zero frame that answers it.
Fault ==
  /\ ~Held
  /\ state' = "FaultLatched"
  /\ moving' => moving
  /\ UNCHANGED link

LoseLink ==
  /\ link /\ ~moving
  /\ link' = FALSE
  /\ state' = "FaultLatched"
  /\ UNCHANGED moving

Reset ==
  /\ Held /\ link /\ ~moving
  /\ state' = "Ready"
  /\ UNCHANGED <<link, moving>>

Move ==
  /\ link /\ state = "Ready"
  /\ moving' = TRUE
  /\ UNCHANGED <<state, link>>

Halt ==
  /\ moving
  /\ moving' = FALSE
  /\ UNCHANGED <<state, link>>

Next ==
  OpenLink \/ Feedback \/ Fault \/ LoseLink \/ Reset \/ Move \/ Halt

Spec == Init /\ [][Next]_contract
=============================================================================
