-------------------------- MODULE ClosedLoopSegment --------------------------
(***************************************************************************)
(* closed_loop_segment.py, which drives one segment through the MANUAL     *)
(* source of the VelocityManager while it watches /safety/status.          *)
(*                                                                         *)
(* The script is one thread.  Each pass of one of its loops serves at most *)
(* one waiting message (rclpy.spin_once), and statuses wait in the         *)
(* subscription's queue.  rclpy takes the two subscriptions in turn:       *)
(* while a status waits, no two passes in a row serve odometry.  How far   *)
(* the robot got, and stale odometry, are a choice in every pass; the      *)
(* shape of the speed is left out.  A unit of time is one pass of the      *)
(* driving loop.                                                           *)
(***************************************************************************)
EXTENDS VelocityManager, Sequences

CONSTANTS
  Statuses,        \* what a status may say: "healthy", "unhealthy", or "stop"
                   \* for an emergency or obstacle stop, never healthy either
  Rates,           \* how many statuses the safety node may publish in a unit
  Depth,           \* the queue of the subscription
  StaleLimit,      \* a status that was served longer ago is stale
  UnhealthyLimit,  \* unhealthy for longer, and the segment is given up
  ReadyTimeout, ServiceTimeout, MotionTimeout,  \* of the script's waits
  Zeros,           \* messages of publish_zero()
  MaxPass,         \* the longest pass of a loop
  MaxDelay,        \* how long a command may be on its way
  StatusHorizon    \* bound: where the age of a status stops

ASSUME SegmentAssumption ==
  /\ Sources = {"MANUAL"} /\ Velocities # {}
  /\ Statuses \subseteq {"healthy", "unhealthy", "stop"} /\ Rates \subseteq Nat
  /\ \A n \in {StaleLimit, UnhealthyLimit, ReadyTimeout, ServiceTimeout,
               MotionTimeout, MaxDelay, StatusHorizon} : n \in Nat
  /\ Depth \in Nat \ {0} /\ Zeros \in Nat \ {0} /\ MaxPass \in Nat \ {0}

VARIABLES
  pc,         \* where the script is
  goal,       \* the mode that set_mode() is asking for
  left,       \* time left to the deadline, or messages left to publish_zero()
  idle,       \* time since the last pass began
  queue,      \* statuses not served, the oldest first
  passedBy,   \* the last pass served odometry though a status waited
  safety,     \* the status served last, with the time since it was published
  served,     \* time since last_safety_time
  unhealthy,  \* time since unhealthy_since, -1 for None
  command,    \* /cmd_vel/manual
  requests    \* calls of /control/set_mode not yet handled

\* History: how long, while the segment was driven, no status said healthy;
\* how long the script has been gone; which of its ways out it could not take.
VARIABLES trouble, gone, excuse

scriptVars == <<pc, goal, left, idle>>
statusVars == <<queue, passedBy, safety, served, unhealthy>>
historyVars == <<trouble, gone, excuse>>
vars == <<managerVars, scriptVars, statusVars, command, requests, historyVars>>

PCs == {"ready", "find", "await", "drive", "zero", "over"}

StatusMessages == [says : Statuses, age : 0 .. StatusHorizon]
NoStatus == [says |-> "none", age |-> 0]

\* The passes in which a queue is served, half of them lost to odometry; the
\* pass that begins just before the last healthy status is stale; and the two
\* limits.
ReactBound == (2 * Depth + 1) * MaxPass - 1 + StaleLimit + UnhealthyLimit

TypeOK ==
  /\ mode \in Modes /\ source \in [Sources -> SourceStates]
  /\ pc \in PCs /\ goal \in {"MANUAL", "STOP"}
  /\ left \in Nat /\ idle \in 0 .. MaxPass
  /\ queue \in Seq(StatusMessages) /\ Len(queue) <= Depth
  /\ passedBy \in BOOLEAN
  /\ safety \in StatusMessages \cup {NoStatus}
  /\ served \in 0 .. StaleLimit + 1 /\ unhealthy \in -1 .. UnhealthyLimit + 1
  /\ command \in Topics /\ requests \in Seq(Modes)
  /\ trouble \in Nat /\ gone \in 0 .. MaxDelay + SourceTimeout + 1
  /\ excuse \in BOOLEAN

Init ==
  /\ ManagerInit
  /\ pc = "ready" /\ goal = "MANUAL" /\ left = ReadyTimeout /\ idle = 0
  /\ queue = <<>> /\ passedBy = FALSE
  /\ safety = NoStatus /\ served = StaleLimit + 1 /\ unhealthy = -1
  /\ command = NoTwist /\ requests = <<>>
  /\ trouble = 0 /\ gone = 0 /\ excuse = FALSE

-----------------------------------------------------------------------------
(* One callback.                                                           *)
\* Mutation: every unhealthy status starts the interval again.
UnhealthySinceNow(says) == IF says = "healthy" THEN -1 ELSE 0

UnhealthyOn(says) ==
  IF says = "healthy" THEN -1 ELSE IF unhealthy = -1 THEN 0 ELSE unhealthy

OnSafety ==
  /\ queue # <<>>
  /\ safety' = Head(queue) /\ queue' = Tail(queue)
  /\ served' = 0
  /\ unhealthy' = UnhealthyOn(Head(queue).says)
  /\ passedBy' = FALSE

\* Odometry, a future, or nothing within the time allowed.
OnOther ==
  /\ queue = <<>> \/ ~passedBy
  /\ passedBy' = (queue # <<>>)
  /\ UNCHANGED <<queue, safety, served, unhealthy>>

SpinOnce == (OnSafety \/ OnOther) /\ idle' = 0

GoTo(place, time) == pc' = place /\ left' = time

Stay == UNCHANGED <<pc, left>>

\* The finally of main().
Finally == GoTo("zero", Zeros)

-----------------------------------------------------------------------------
(* The script.                                                             *)
WaitUntilReady ==
  /\ pc = "ready"
  /\ IF left = 0 THEN Finally /\ UNCHANGED <<statusVars, idle>>
     ELSE /\ SpinOnce
          /\ \/ Stay
             \/ safety'.says = "healthy" /\ GoTo("find", ServiceTimeout)
  /\ UNCHANGED <<managerVars, goal, command, requests, historyVars>>

\* Mutation: without the mode there is nothing to undo.
GiveUpAtOnce == GoTo("over", 0)

\* set_mode() returns False.
NotSet == IF goal = "MANUAL" THEN Finally ELSE GoTo("over", 0)

FindService ==
  /\ pc = "find"
  /\ \/ GoTo("await", ServiceTimeout) /\ requests' = Append(requests, goal) /\ UNCHANGED excuse
     \/ left > 0 /\ Stay /\ UNCHANGED <<requests, excuse>>
     \/ left = 0 /\ NotSet /\ UNCHANGED requests /\ excuse' = (excuse \/ goal = "STOP")
  /\ idle' = 0
  /\ UNCHANGED <<managerVars, goal, statusVars, command, trouble, gone>>

AwaitMode ==
  /\ pc = "await"
  /\ SpinOnce
  /\ IF requests = <<>>
     THEN IF goal = "MANUAL" THEN GoTo("drive", MotionTimeout) ELSE GoTo("over", 0)
     ELSE IF left = 0 THEN NotSet ELSE Stay
  /\ UNCHANGED <<managerVars, goal, command, requests, historyVars>>

Healthy ==
  /\ served' <= StaleLimit
  /\ safety'.says # "stop"
  /\ unhealthy' <= UnhealthyLimit

\* Mutation: the time the segment takes is not limited.
NotTimedOutEver == TRUE

NotTimedOut == left > 0

\* One pass of run_distance or run_turn: go on, or leave the loop because the
\* target is reached, something is wrong or time is up.
Drive ==
  /\ pc = "drive" /\ idle > 0
  /\ SpinOnce
  /\ \/ /\ Healthy /\ NotTimedOut
        /\ \E v \in Velocities : command' = Sent([v |-> v, from |-> "MANUAL", age |-> 0])
        /\ Stay
     \/ Finally /\ UNCHANGED command
  /\ UNCHANGED <<managerVars, goal, requests, historyVars>>

PublishZero ==
  /\ pc = "zero" /\ (left = Zeros \/ idle > 0)
  /\ command' = Sent(Rest)
  /\ SpinOnce
  /\ IF left > 1 THEN GoTo("zero", left - 1) /\ UNCHANGED goal
                 ELSE GoTo("find", ServiceTimeout) /\ goal' = "STOP"
  /\ UNCHANGED <<managerVars, requests, historyVars>>

\* A KeyboardInterrupt in the try, or the end of the process: killed, or
\* interrupted when the context or main() cannot go on.
Interrupt ==
  /\ pc # "over"
  /\ \/ /\ pc \in {"ready", "drive"} \/ (pc \in {"find", "await"} /\ goal = "MANUAL")
        /\ Finally /\ UNCHANGED excuse
     \/ GoTo("over", 0) /\ excuse' = TRUE
  /\ UNCHANGED <<managerVars, goal, idle, statusVars, command, requests, trouble, gone>>

Script == WaitUntilReady \/ FindService \/ AwaitMode \/ Drive \/ PublishZero

-----------------------------------------------------------------------------
(* The others.                                                             *)
ManagerTakes ==
  /\ command.full
  /\ Update("MANUAL", command.msg) /\ command' = NoTwist
  /\ UNCHANGED <<scriptVars, statusVars, requests, historyVars>>

ManagerAnswers ==
  /\ requests # <<>>
  /\ SetMode(Head(requests)) /\ requests' = Tail(requests)
  /\ UNCHANGED <<scriptVars, statusVars, command, historyVars>>

\* Somebody else chooses a mode.
OthersSetMode ==
  /\ \E m \in Modes : SetMode(m)
  /\ excuse' = TRUE
  /\ UNCHANGED <<scriptVars, statusVars, command, requests, trouble, gone>>

\* keep_last: of what has come, the newest wait.
KeepLast(q) == IF Len(q) > Depth THEN SubSeq(q, Len(q) - Depth + 1, Len(q)) ELSE q

Older(s) == IF s.age < StatusHorizon THEN [s EXCEPT !.age = @ + 1] ELSE s

Elapse ==
  /\ pc = "over" \/ idle < MaxPass
  /\ command.full => command.age < MaxDelay
  /\ \E n \in Rates : \E said \in [1 .. n -> Statuses] :
       /\ queue' = KeepLast([i \in DOMAIN queue |-> Older(queue[i])]
                            \o [i \in 1 .. n |-> [says |-> said[i], age |-> 0]])
       /\ trouble' = IF pc # "drive" \/ \E i \in 1 .. n : said[i] = "healthy" THEN 0
                     ELSE Later(trouble, ReactBound)
  /\ ManagerElapse
  /\ command' = LaterIn(command)
  /\ safety' = IF safety = NoStatus THEN NoStatus ELSE Older(safety)
  /\ served' = Later(served, StaleLimit)
  /\ unhealthy' = IF unhealthy = -1 THEN -1 ELSE Later(unhealthy, UnhealthyLimit)
  /\ left' = IF pc = "zero" \/ left = 0 THEN left ELSE left - 1
  /\ idle' = IF pc = "over" THEN idle ELSE idle + 1
  /\ gone' = IF pc = "over" THEN Later(gone, MaxDelay + SourceTimeout) ELSE 0
  /\ UNCHANGED <<pc, goal, passedBy, requests, excuse>>

Next ==
  \/ Script \/ Interrupt
  \/ ManagerTakes \/ ManagerAnswers \/ OthersSetMode
  \/ Elapse

Spec == Init /\ [][Next]_vars

\* The script runs, commands reach the manager and time passes; nothing is
\* assumed of the service, the safety node and the people.
FairSpec == Spec /\ WF_vars(Script) /\ WF_vars(ManagerTakes) /\ WF_vars(Elapse)

-----------------------------------------------------------------------------
\* Once the safety node has stopped saying healthy, because of what it sees or
\* because it is gone, no velocity is published for longer than the statuses
\* of one queue take to be served and the two limits of check_runtime_health().
ReactsInTime ==
  command.full /\ Moves(command.msg) => trouble <= ReactBound + command.age

\* However the script ends, even killed, the manager selects no motion any
\* more after one way and one timeout.
LeavesAtRest == gone > MaxDelay + SourceTimeout => ~Moves(Selected)

\* A script that ended by itself leaves the manager in STOP once all its calls
\* are handled, even a set_mode("MANUAL") that it had given up waiting for;
\* unless the service was gone at the end or somebody else chose the mode.
EndsInStop == pc = "over" /\ requests = <<>> /\ ~excuse => mode = "STOP"

\* No wait of the script is without end.
Ends == <>(pc = "over")

\* check_runtime_health: "safety status is stale".  A status is judged by the
\* time at which it was served; in a queue that is filled faster than it is
\* served, that is not the time at which it was true.
StatusCurrent == command.full /\ Moves(command.msg) /\ command.age = 0 => safety.age <= StaleLimit
=============================================================================
