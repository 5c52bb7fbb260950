----------------------- MODULE ClosedLoopSegmentProofs -----------------------
(***************************************************************************)
(* What the closed-loop script leaves behind, for every value of its       *)
(* limits, of the delays and of the queue: a robot at rest, and a manager  *)
(* in STOP; and how soon it reacts when the safety node stops saying       *)
(* healthy.                                                                *)
(***************************************************************************)
EXTENDS ClosedLoopSegment, SequenceTheorems, TLAPS

-----------------------------------------------------------------------------
(* The robot comes to rest.                                                *)

\* What the manager and the topic hold are messages.
HeldOK == source \in [Sources -> SourceStates] /\ command \in Topics

\* Messages keep their type while they age.
LEMMA AgedIsTyped ==
  /\ \A m \in Twists : Aged(m) \in Twists
  /\ \A m \in BadTwists : Aged(m) \in BadTwists
  BY TwistAssumption DEF Aged, Twists, BadTwists, Moves, Finite

\* A message that is sent makes a topic.
LEMMA SentIsTyped == ASSUME NEW m \in Twists PROVE Sent(m) \in Topics
  BY DEF Sent, Topics

\* Sources and topics keep their type while time passes.
LEMMA OlderIsTyped ==
  ASSUME HeldOK
  PROVE  /\ [s \in Sources |-> [source[s] EXCEPT !.msg = Aged(@), !.age = Later(@, SourceTimeout)]]
              \in [Sources -> SourceStates]
         /\ LaterIn(command) \in Topics
<1>1. ASSUME NEW s \in Sources
      PROVE  [source[s] EXCEPT !.msg = Aged(@), !.age = Later(@, SourceTimeout)] \in SourceStates
  <2>1. source[s] \in SourceStates
    BY DEF HeldOK
  <2>2. Aged(source[s].msg) \in Twists \cup BadTwists
    BY <2>1, AgedIsTyped DEF SourceStates
  <2>3. Later(source[s].age, SourceTimeout) \in Nat
    BY <2>1, ManagerAssumption DEF SourceStates, Later
  <2>. QED  BY <2>1, <2>2, <2>3 DEF SourceStates
<1>2. LaterIn(command) \in Topics
  <2>1. command.msg \in Twists /\ command.age \in Nat /\ command.full \in BOOLEAN
    BY DEF HeldOK, Topics
  <2>2. Aged(command.msg) \in Twists /\ command.age + 1 \in Nat
    BY <2>1, AgedIsTyped
  <2>. QED  BY <2>1, <2>2 DEF LaterIn, Topics, HeldOK
<1>. QED  BY <1>1, <1>2

\* The steps that neither send nor take a command, but for a change of mode.
LEMMA OthersHold ==
  ASSUME HeldOK, \/ UNCHANGED <<source, command>>
                 \/ (\E m : SetMode(m)) /\ UNCHANGED command
  PROVE  /\ HeldOK'
         /\ command' = command
         /\ \A s \in Sources : source'[s].age = source[s].age
<1>1. CASE UNCHANGED <<source, command>>
  BY <1>1 DEF HeldOK
<1>2. ASSUME NEW m, SetMode(m), UNCHANGED command
      PROVE  /\ HeldOK'
             /\ \A s \in Sources : source'[s].age = source[s].age
  <2>1. ASSUME NEW s \in Sources
        PROVE  source'[s] \in SourceStates /\ source'[s].age = source[s].age
    <3>1. source[s] \in SourceStates
      BY DEF HeldOK
    <3>2. source'[s] = [source[s] EXCEPT !.have = @ /\ s # m]
      BY <1>2 DEF SetMode
    <3>3. (source[s].have /\ s # m) \in BOOLEAN
      OBVIOUS
    <3>. QED  BY <3>1, <3>2, <3>3 DEF SourceStates
  <2>2. source' = [s \in Sources |-> source'[s]]
    BY <1>2 DEF SetMode
  <2>. QED  BY <1>2, <2>1, <2>2 DEF HeldOK
<1>. QED  BY <1>1, <1>2

\* How long the script has been gone is at most the time that its last command
\* has been on its way, or the longest way and the time since it arrived.
RestInv ==
  /\ HeldOK
  /\ gone \in 0 .. MaxDelay + SourceTimeout + 1
  /\ gone # 0 => pc = "over"
  /\ command.full => command.age <= MaxDelay /\ gone <= command.age
  /\ \A s \in Sources : gone <= MaxDelay + source[s].age

\* The steps in which neither the robot's side nor the time goes on.
LEMMA RestStays ==
  ASSUME RestInv, HeldOK', UNCHANGED gone, pc = "over" => pc' = "over",
         command' = command,
         \A s \in Sources : source'[s].age = source[s].age
  PROVE  RestInv'
BY DEF RestInv

\* A command that the script sends; then it is not gone.
LEMMA RestSent ==
  ASSUME RestInv, UNCHANGED <<gone, source>>, pc # "over",
         NEW m \in Twists, command' = Sent(m)
  PROVE  RestInv'
<1>1. HeldOK'
  BY SentIsTyped DEF RestInv, HeldOK
<1>2. gone = 0
  BY DEF RestInv
<1>3. command'.age = 0
  BY DEF Sent
<1>. QED  BY <1>1, <1>2, <1>3, SegmentAssumption DEF RestInv

\* RestInv is inductive.
LEMMA RestInductive == Spec => []RestInv
<1>. USE SegmentAssumption, ManagerAssumption, TwistAssumption
<1>1. Init => RestInv
  <2>. SUFFICES ASSUME Init PROVE RestInv
    OBVIOUS
  <2>1. Rest \in Twists
    BY DEF Rest, Twists
  <2>2. NoMessage \in SourceStates
    BY <2>1 DEF NoMessage, SourceStates
  <2>3. HeldOK
    BY <2>1, <2>2 DEF Init, ManagerInit, HeldOK, NoTwist, Topics
  <2>4. gone = 0 /\ command.full = FALSE
    BY DEF Init, NoTwist
  <2>5. \A s \in Sources : source[s].age \in Nat
    BY <2>3 DEF HeldOK, SourceStates
  <2>. QED  BY <2>3, <2>4, <2>5 DEF RestInv
<1>2. RestInv /\ [Next]_vars => RestInv'
  <2>. SUFFICES ASSUME RestInv, [Next]_vars PROVE RestInv'
    OBVIOUS
  <2>1. CASE WaitUntilReady \/ FindService \/ AwaitMode \/ Interrupt \/ UNCHANGED vars
    <3>1. UNCHANGED <<source, command, gone>>
      BY <2>1 DEF WaitUntilReady, FindService, AwaitMode, Interrupt, managerVars, historyVars, vars
    <3>2. pc = "over" => pc' = "over"
      BY <2>1 DEF WaitUntilReady, FindService, AwaitMode, Interrupt, scriptVars, vars
    <3>. QED  BY <3>1, <3>2, OthersHold, RestStays DEF RestInv
  <2>2. CASE Drive
    <3>0. UNCHANGED <<gone, source>> /\ pc # "over"
      BY <2>2 DEF Drive, managerVars, historyVars
    <3>1. CASE command' = command
      BY <3>0, <3>1, OthersHold, RestStays DEF RestInv
    <3>2. ASSUME NEW v \in Velocities, command' = Sent([v |-> v, from |-> "MANUAL", age |-> 0])
          PROVE  RestInv'
      <4>1. [v |-> v, from |-> "MANUAL", age |-> 0] \in Twists
        BY DEF Twists
      <4>. QED  BY <3>0, <3>2, <4>1, RestSent
    <3>. QED  BY <2>2, <3>1, <3>2 DEF Drive
  <2>3. CASE PublishZero
    <3>1. UNCHANGED <<gone, source>> /\ pc # "over" /\ command' = Sent(Rest)
      BY <2>3 DEF PublishZero, managerVars, historyVars
    <3>2. Rest \in Twists
      BY DEF Rest, Twists
    <3>. QED  BY <3>1, <3>2, RestSent
  <2>4. CASE ManagerTakes
    <3>1. /\ command.full /\ command' = NoTwist /\ UNCHANGED <<pc, gone>>
          /\ source' = [source EXCEPT !["MANUAL"] = [msg |-> command.msg, age |-> 0, have |-> TRUE]]
      BY <2>4 DEF ManagerTakes, Update, scriptVars, historyVars
    <3>2. Rest \in Twists
      BY DEF Rest, Twists
    <3>3. [msg |-> command.msg, age |-> 0, have |-> TRUE] \in SourceStates
      BY DEF RestInv, HeldOK, Topics, SourceStates
    <3>4. HeldOK'
      BY <3>1, <3>2, <3>3 DEF RestInv, HeldOK, NoTwist, Topics
    <3>5. gone <= MaxDelay
      BY <3>1 DEF RestInv, HeldOK, Topics
    <3>6. source'["MANUAL"].age = 0
      BY <3>1 DEF RestInv, HeldOK
    <3>7. command'.full = FALSE
      BY <3>1 DEF NoTwist
    <3>. QED  BY <3>1, <3>4, <3>5, <3>6, <3>7 DEF RestInv
  <2>5. CASE ManagerAnswers \/ OthersSetMode
    <3>1. UNCHANGED <<pc, command, gone>>
      BY <2>5 DEF ManagerAnswers, OthersSetMode, scriptVars, historyVars
    <3>2. \E m : SetMode(m)
      BY <2>5 DEF ManagerAnswers, OthersSetMode
    <3>. QED  BY <3>1, <3>2, OthersHold, RestStays DEF RestInv
  <2>6. CASE Elapse
    <3>1. /\ source' = [s \in Sources |-> [source[s] EXCEPT !.msg = Aged(@), !.age = Later(@, SourceTimeout)]]
          /\ command' = LaterIn(command) /\ pc' = pc
          /\ command.full => command.age < MaxDelay
          /\ gone' = IF pc = "over" THEN Later(gone, MaxDelay + SourceTimeout) ELSE 0
      BY <2>6 DEF Elapse, ManagerElapse
    <3>2. HeldOK'
      BY <3>1, OlderIsTyped DEF RestInv, HeldOK
    <3>3. gone' \in 0 .. MaxDelay + SourceTimeout + 1 /\ gone' <= gone + 1 /\ (gone' # 0 => pc' = "over")
      BY <3>1 DEF RestInv, Later
    <3>4. command'.full => command'.age <= MaxDelay /\ gone' <= command'.age
      <4>1. CASE command.full
        <5>1. command'.age = command.age + 1
          BY <3>1, <4>1 DEF LaterIn, RestInv, HeldOK, Topics
        <5>. QED  BY <3>1, <3>3, <4>1, <5>1 DEF RestInv, HeldOK, Topics
      <4>2. CASE ~command.full
        BY <3>1, <4>2 DEF LaterIn
      <4>. QED  BY <4>1, <4>2
    <3>5. ASSUME NEW s \in Sources PROVE gone' <= MaxDelay + source'[s].age
      <4>1. source[s].age \in Nat
        BY DEF RestInv, HeldOK, SourceStates
      <4>2. source'[s].age = Later(source[s].age, SourceTimeout)
        BY <3>1 DEF RestInv, HeldOK, SourceStates
      <4>3. gone <= MaxDelay + source[s].age /\ gone \in Nat
        BY DEF RestInv
      <4>. QED  BY <3>3, <4>1, <4>2, <4>3 DEF Later
    <3>. QED  BY <3>2, <3>3, <3>4, <3>5 DEF RestInv
  <2>. QED  BY <2>1, <2>2, <2>3, <2>4, <2>5, <2>6 DEF Next, Script
<1>. QED  BY <1>1, <1>2, PTL DEF Spec

\* However the script ends, the manager selects no motion any more once the
\* longest way and its own timeout are over.
THEOREM ComesToRest == Spec => []LeavesAtRest
<1>1. RestInv => LeavesAtRest
  <2>. SUFFICES ASSUME RestInv, gone > MaxDelay + SourceTimeout PROVE ~Moves(Selected)
    BY DEF LeavesAtRest
  <2>1. ASSUME NEW s \in Sources PROVE ~Fresh(s)
    <3>1. source[s].age \in Nat /\ gone \in Nat /\ gone <= MaxDelay + source[s].age
      BY DEF RestInv, HeldOK, SourceStates
    <3>2. source[s].age > SourceTimeout
      BY <3>1, SegmentAssumption, ManagerAssumption
    <3>. QED  BY <3>1, <3>2, ManagerAssumption DEF Fresh
  <2>2. Selected = Rest
    BY <2>1 DEF Selected
  <2>. QED  BY <2>2 DEF Moves, Rest
<1>. QED  BY <1>1, RestInductive, PTL

-----------------------------------------------------------------------------
(* The manager ends in STOP.                                               *)

\* STOP has been asked for, and no call that waits comes after that one.
Stopping ==
  IF requests = <<>> THEN mode = "STOP" ELSE requests[Len(requests)] = "STOP"

\* The script's way from its last call to its end.
StopInv ==
  /\ requests \in Seq(Modes)
  /\ goal \in {"MANUAL", "STOP"}
  /\ pc \notin {"find", "await", "over"} => goal = "MANUAL"
  /\ pc = "over" \/ (pc = "await" /\ goal = "STOP") => Stopping \/ excuse

\* A call that is handled is the first one; the last one stays the last.
LEMMA AnswerStops ==
  ASSUME NEW q \in Seq(Modes), q # <<>>
  PROVE  /\ Tail(q) \in Seq(Modes)
         /\ Tail(q) = <<>> => Head(q) = q[Len(q)]
         /\ Tail(q) # <<>> => Tail(q)[Len(Tail(q))] = q[Len(q)]
<1>. DEFINE t == Tail(q)
<1>1. t \in Seq(Modes) /\ Len(t) = Len(q) - 1
  OBVIOUS
<1>2. Len(q) \in Nat /\ Len(q) >= 1 /\ Head(q) = q[1]
  OBVIOUS
<1>3. \A i \in 1 .. Len(q) - 1 : t[i] = q[i + 1]
  OBVIOUS
<1>. HIDE DEF t
<1>4. t = <<>> => Len(t) = 0
  OBVIOUS
<1>5. t # <<>> => Len(t) >= 1
  <2>1. t \in Seq(Modes)
    BY <1>1
  <2>. QED  BY <2>1
<1>6. t = <<>> => Head(q) = q[Len(q)]
  <2>1. Len(t) = Len(q) - 1 /\ Len(q) \in Nat
    BY <1>1, <1>2
  <2>2. t = <<>> => Len(q) = 1
    BY <1>4, <2>1
  <2>. QED  BY <1>2, <2>2
<1>7. t # <<>> => t[Len(t)] = q[Len(q)]
  <2>1. ASSUME t # <<>> PROVE Len(q) - 1 \in 1 .. Len(q) - 1 /\ Len(t) = Len(q) - 1
    BY <1>1, <1>2, <1>5, <2>1
  <2>2. ASSUME t # <<>> PROVE t[Len(q) - 1] = q[(Len(q) - 1) + 1]
    BY <1>3, <2>1, <2>2
  <2>. QED  BY <1>2, <2>1, <2>2
<1>. QED  BY <1>1, <1>6, <1>7 DEF t

LEMMA AppendStops ==
  ASSUME NEW q \in Seq(Modes), NEW m \in Modes
  PROVE  /\ Append(q, m) \in Seq(Modes)
         /\ Append(q, m) # <<>>
         /\ Append(q, m)[Len(Append(q, m))] = m
OBVIOUS

\* StopInv is inductive.
LEMMA StopInductive == Spec => []StopInv
<1>. USE SegmentAssumption, ManagerAssumption DEF Modes
<1>1. Init => StopInv
  BY DEF Init, StopInv
<1>2. StopInv /\ [Next]_vars => StopInv'
  <2>. SUFFICES ASSUME StopInv, [Next]_vars PROVE StopInv'
    OBVIOUS
  <2>. USE DEF StopInv, Stopping
  <2>1. CASE WaitUntilReady \/ Drive \/ PublishZero
    <3>1. UNCHANGED <<requests, mode>> /\ pc' \notin {"over", "await"}
      BY <2>1 DEF WaitUntilReady, Drive, PublishZero, managerVars, Finally, GoTo, Stay
    <3>2. goal' \in {"MANUAL", "STOP"} /\ (goal' # "MANUAL" => pc' = "find")
      BY <2>1 DEF WaitUntilReady, Drive, PublishZero, GoTo
    <3>. QED  BY <3>1, <3>2
  <2>2. CASE FindService
    <3>1. goal' = goal /\ mode' = mode /\ pc = "find"
      BY <2>2 DEF FindService, managerVars
    <3>2. CASE GoTo("await", ServiceTimeout) /\ requests' = Append(requests, goal)
      BY <3>1, <3>2, AppendStops DEF GoTo
    <3>3. CASE Stay /\ UNCHANGED requests
      BY <3>1, <3>3 DEF Stay
    <3>4. CASE NotSet /\ UNCHANGED requests /\ excuse' = (excuse \/ goal = "STOP")
      BY <3>1, <3>4 DEF NotSet, Finally, GoTo
    <3>. QED  BY <2>2, <3>2, <3>3, <3>4 DEF FindService
  <2>3. CASE AwaitMode
    BY <2>3 DEF AwaitMode, NotSet, Finally, GoTo, Stay, managerVars, historyVars
  <2>4. CASE Interrupt
    BY <2>4 DEF Interrupt, Finally, GoTo, managerVars
  <2>5. CASE ManagerAnswers
    BY <2>5, AnswerStops DEF ManagerAnswers, SetMode, scriptVars, historyVars
  <2>6. CASE ManagerTakes \/ Elapse \/ UNCHANGED vars
    <3>1. UNCHANGED <<requests, mode, goal, pc, excuse>>
      BY <2>6 DEF ManagerTakes, Elapse, Update, ManagerElapse, managerVars, scriptVars, historyVars, vars
    <3>. QED  BY <3>1
  <2>7. CASE OthersSetMode
    BY <2>7 DEF OthersSetMode, scriptVars
  <2>. QED  BY <2>1, <2>2, <2>3, <2>4, <2>5, <2>6, <2>7 DEF Next, Script
<1>. QED  BY <1>1, <1>2, PTL DEF Spec

\* A script that was neither killed nor left alone by the service ends with the
\* manager in STOP, however late its calls are handled.
THEOREM EndsStopped == Spec => []EndsInStop
<1>1. StopInv => EndsInStop
  BY DEF StopInv, Stopping, EndsInStop
<1>. QED  BY <1>1, StopInductive, PTL

-----------------------------------------------------------------------------
(* The script reacts in time.                                              *)

\* The time in which the status at place i of the queue is served at the
\* latest, from the beginning of a pass: while statuses wait, every other pass
\* serves one, and the next one does if the last did not.
WaitFor(i, passed) == (2 * i - (IF passed THEN 1 ELSE 0)) * MaxPass

\* The time in which a status that has just come is served, after the pass in
\* which it came.
Drained == 2 * Depth * MaxPass - 1

LEMMA Waits ==
  ASSUME NEW i \in Nat, NEW j \in Nat, i <= j, j <= Depth, NEW passed \in BOOLEAN
  PROVE  /\ WaitFor(i, passed) \in Int /\ Drained \in Nat
         /\ WaitFor(i, passed) <= WaitFor(j, passed)
         /\ WaitFor(j, passed) <= Drained + 1
         /\ WaitFor(i, FALSE) = WaitFor(i, TRUE) + MaxPass
         /\ WaitFor(i + 1, passed) >= WaitFor(i, FALSE) + MaxPass
         /\ WaitFor(1, passed) >= MaxPass
<1>. DEFINE n == IF passed THEN 1 ELSE 0
            M == MaxPass
<1>1. M \in Nat /\ M >= 1 /\ Depth \in Nat /\ Depth >= 1 /\ n \in {0, 1}
  BY SegmentAssumption
<1>2. /\ WaitFor(i, passed) = (2 * i - n) * M /\ WaitFor(j, passed) = (2 * j - n) * M
      /\ WaitFor(i, FALSE) = (2 * i - 0) * M /\ WaitFor(i, TRUE) = (2 * i - 1) * M
      /\ WaitFor(i + 1, passed) = (2 * (i + 1) - n) * M
      /\ WaitFor(1, passed) = (2 * 1 - n) * M
      /\ Drained = (2 * Depth) * M - 1
  BY DEF WaitFor, Drained
<1>. HIDE DEF n, M
<1>3. \A a, b \in Int : a <= b => a * M <= b * M
  <2>. TAKE a, b \in Int
  <2>. HAVE a <= b
  <2>1. (b - a) * M >= 0  BY <1>1
  <2>2. (b - a) * M = b * M - a * M  BY <1>1
  <2>. QED  BY <1>1, <2>1, <2>2
<1>4. (2 * i - n) * M <= (2 * j - n) * M
  <2>1. 2 * i - n \in Int /\ 2 * j - n \in Int /\ 2 * i - n <= 2 * j - n  BY <1>1
  <2>. QED  BY <1>3, <2>1
<1>5. (2 * j - n) * M <= (2 * Depth) * M
  <2>1. 2 * j - n \in Int /\ 2 * Depth \in Int /\ 2 * j - n <= 2 * Depth  BY <1>1
  <2>. QED  BY <1>3, <2>1
<1>6. (2 * i - 0) * M = (2 * i - 1) * M + M
  BY <1>1
<1>7. (2 * (i + 1) - n) * M >= (2 * i - 0) * M + M
  <2>1. (2 * i + 1) * M = (2 * i - 0) * M + M  BY <1>1
  <2>2. 2 * i + 1 \in Int /\ 2 * (i + 1) - n \in Int /\ 2 * i + 1 <= 2 * (i + 1) - n  BY <1>1
  <2>3. (2 * i + 1) * M <= (2 * (i + 1) - n) * M  BY <1>3, <2>2
  <2>. QED  BY <2>1, <2>3
<1>8. (2 * 1 - n) * M >= M
  <2>1. 1 * M = M /\ 2 * 1 - n \in Int /\ 1 <= 2 * 1 - n  BY <1>1
  <2>2. 1 * M <= (2 * 1 - n) * M  BY <1>3, <2>1
  <2>. QED  BY <2>1, <2>2
<1>9. (2 * i - n) * M \in Int /\ (2 * Depth) * M - 1 \in Nat
  <2>1. (2 * i - n) * M \in Int /\ (2 * Depth) * M \in Int  BY <1>1
  <2>2. 1 * M <= (2 * Depth) * M  BY <1>1, <1>3
  <2>. QED  BY <1>1, <2>1, <2>2
<1>10. (2 * j - n) * M <= (2 * Depth) * M - 1 + 1
  BY <1>1, <1>5
<1>11. M = MaxPass  BY DEF M
<1>. QED  BY <1>2, <1>4, <1>6, <1>7, <1>8, <1>9, <1>10, <1>11

ReactTypes ==
  /\ trouble \in Nat /\ idle \in 0 .. MaxPass /\ passedBy \in BOOLEAN
  /\ served \in 0 .. StaleLimit + 1
  /\ unhealthy \in Int /\ unhealthy >= -1 /\ unhealthy <= UnhealthyLimit + 1
  /\ queue \in Seq(StatusMessages) /\ Len(queue) <= Depth

\* A healthy status that waits ends the time without one before it is too late.
QueueInv ==
  \A i \in 1 .. Len(queue) :
    queue[i].says = "healthy" => trouble + WaitFor(i, passedBy) - idle <= Drained

\* How long there was none, by what was served last.
ServedInv ==
  /\ unhealthy = -1 /\ served <= StaleLimit => trouble <= Drained + served
  /\ unhealthy = -1 => trouble <= Drained + StaleLimit + idle
  /\ unhealthy >= 0 /\ unhealthy <= UnhealthyLimit =>
       trouble <= Drained + StaleLimit + MaxPass + unhealthy

\* The time is counted from the first pass of the driving loop.
BeforeInv ==
  pc = "ready" \/ (pc \in {"find", "await"} /\ goal = "MANUAL") => trouble = 0

ReactInv ==
  /\ ReactTypes
  /\ pc = "drive" => QueueInv /\ ServedInv
  /\ BeforeInv
  /\ ReactsInTime

LEMMA ReactNumbers ==
  /\ MaxPass \in Nat /\ MaxPass >= 1 /\ Depth \in Nat /\ Depth >= 1
  /\ StaleLimit \in Nat /\ UnhealthyLimit \in Nat /\ Drained \in Nat
<1>1. /\ MaxPass \in Nat /\ MaxPass >= 1 /\ Depth \in Nat /\ Depth >= 1
      /\ StaleLimit \in Nat /\ UnhealthyLimit \in Nat
  BY SegmentAssumption
<1>2. Drained \in Nat
  <2>1. (Depth - 1) * MaxPass >= 0  BY <1>1
  <2>2. 2 * Depth * MaxPass = 2 * ((Depth - 1) * MaxPass) + 2 * MaxPass  BY <1>1
  <2>3. (Depth - 1) * MaxPass \in Int  BY <1>1
  <2>. QED  BY <1>1, <2>1, <2>2, <2>3 DEF Drained
<1>. QED  BY <1>1, <1>2

\* The parts of the bound.
LEMMA ReactBoundIs ==
  /\ ReactBound \in Nat
  /\ ReactBound = Drained + MaxPass + StaleLimit + UnhealthyLimit
<1>1. (2 * Depth + 1) * MaxPass = 2 * Depth * MaxPass + MaxPass
  BY ReactNumbers
<1>2. 2 * Depth * MaxPass \in Int
  BY ReactNumbers
<1>3. ReactBound = Drained + MaxPass + StaleLimit + UnhealthyLimit
  BY <1>1, <1>2, ReactNumbers DEF ReactBound, Drained
<1>. QED  BY <1>3, ReactNumbers

LEMMA WithinBound ==
  ASSUME NEW t \in Nat, NEW u \in Int, u <= UnhealthyLimit,
         t <= Drained + StaleLimit + MaxPass + u
  PROVE  t <= ReactBound
<1>1. t <= Drained + MaxPass + StaleLimit + UnhealthyLimit
  BY ReactNumbers
<1>. QED  BY <1>1, ReactBoundIs

\* A pass takes its longest time from what is left to wait.
LEMMA ServedSooner ==
  ASSUME NEW v \in Int, NEW w \in Int, w <= Drained + 1, w >= v + MaxPass
  PROVE  v <= Drained + 1 - MaxPass
BY ReactNumbers

LEMMA StillDrained ==
  ASSUME NEW t \in Nat, NEW d \in Nat, NEW v \in Int, NEW w \in Int,
         t + w - d <= Drained, d <= MaxPass, w >= v + MaxPass
  PROVE  t + v - 0 <= Drained
BY ReactNumbers

LEMMA NoneYet ==
  ASSUME NEW t \in Nat, NEW d \in Nat, t <= Drained + d, d <= StaleLimit
  PROVE  t <= Drained + StaleLimit + MaxPass + 0
<1>1. Drained \in Nat /\ StaleLimit \in Nat /\ MaxPass \in Nat  BY ReactNumbers
<1>. QED  BY <1>1

\* What a pass does to the queue.
LEMMA ServedIsHead ==
  ASSUME NEW q \in Seq(StatusMessages), q # <<>>
  PROVE  /\ Len(q) \in Nat /\ Len(q) >= 1 /\ Head(q) = q[1]
         /\ Tail(q) \in Seq(StatusMessages) /\ Len(Tail(q)) = Len(q) - 1
         /\ \A i \in 1 .. Len(Tail(q)) : Tail(q)[i] = q[i + 1]
<1>1. Len(q) \in Nat /\ Len(q) >= 1 /\ Head(q) = q[1]
  OBVIOUS
<1>2. Tail(q) \in Seq(StatusMessages) /\ Len(Tail(q)) = Len(q) - 1
  BY HeadTailProperties
<1>3. \A i \in 1 .. Len(Tail(q)) : Tail(q)[i] = q[i + 1]
  BY HeadTailProperties
<1>. QED  BY <1>1, <1>2, <1>3

LEMMA SpinKeepsTypes ==
  ASSUME ReactTypes, SpinOnce, UNCHANGED trouble
  PROVE  ReactTypes'
<1>1. CASE OnSafety
  <2>1. /\ queue \in Seq(StatusMessages) /\ queue # <<>> /\ queue' = Tail(queue)
        /\ served' = 0 /\ passedBy' = FALSE /\ idle' = 0
        /\ unhealthy' = -1 \/ unhealthy' = 0 \/ unhealthy' = unhealthy
    BY <1>1 DEF ReactTypes, OnSafety, SpinOnce, UnhealthyOn
  <2>2. queue' \in Seq(StatusMessages) /\ Len(queue') = Len(queue) - 1 /\ Len(queue) \in Nat
    BY <2>1, ServedIsHead
  <2>3. unhealthy' \in Int /\ unhealthy' >= -1 /\ unhealthy' <= UnhealthyLimit + 1
    BY <2>1, ReactNumbers DEF ReactTypes
  <2>4. served' \in 0 .. StaleLimit + 1 /\ idle' \in 0 .. MaxPass /\ trouble' \in Nat
    BY <2>1, ReactNumbers DEF ReactTypes
  <2>5. Len(queue') <= Depth
    BY <2>2, ReactNumbers DEF ReactTypes
  <2>. QED  BY <2>1, <2>2, <2>3, <2>4, <2>5 DEF ReactTypes
<1>2. CASE OnOther
  <2>1. /\ UNCHANGED <<queue, served, unhealthy>> /\ idle' = 0
        /\ passedBy' = (queue # <<>>)
    BY <1>2 DEF OnOther, SpinOnce
  <2>2. passedBy' \in BOOLEAN
    BY <2>1
  <2>3. idle' \in 0 .. MaxPass
    BY <2>1, ReactNumbers
  <2>. QED  BY <2>1, <2>2, <2>3 DEF ReactTypes
<1>. QED  BY <1>1, <1>2 DEF SpinOnce

\* After a pass what waits has a pass less to wait: it has moved up, or
\* odometry has had its turn.
LEMMA SpinDrains ==
  ASSUME ReactTypes, SpinOnce, UNCHANGED trouble
  PROVE  /\ \A i \in 1 .. Len(queue') : WaitFor(i, passedBy') <= Drained + 1 - MaxPass
         /\ QueueInv => QueueInv'
<1>0. /\ queue \in Seq(StatusMessages) /\ Len(queue) \in Nat /\ Len(queue) <= Depth
      /\ idle \in Nat /\ idle <= MaxPass /\ trouble \in Nat /\ passedBy \in BOOLEAN
      /\ idle' = 0 /\ trouble' = trouble
  BY ReactNumbers DEF ReactTypes, SpinOnce
<1>1. CASE OnSafety
  <2>1. /\ queue # <<>> /\ queue' = Tail(queue) /\ passedBy' = FALSE
    BY <1>1 DEF OnSafety
  <2>2. /\ Len(queue') = Len(queue) - 1
        /\ \A i \in 1 .. Len(queue') : queue'[i] = queue[i + 1]
    BY <1>0, <2>1, ServedIsHead
  <2>3. ASSUME NEW i \in 1 .. Len(queue')
        PROVE  /\ i + 1 \in 1 .. Len(queue) /\ queue'[i] = queue[i + 1]
               /\ WaitFor(i, FALSE) \in Int
               /\ WaitFor(i + 1, passedBy) \in Int
               /\ WaitFor(i + 1, passedBy) <= Drained + 1
               /\ WaitFor(i + 1, passedBy) >= WaitFor(i, FALSE) + MaxPass
    <3>1. i \in Nat /\ i + 1 \in 1 .. Len(queue) /\ queue'[i] = queue[i + 1]
      BY <1>0, <2>2
    <3>2. i + 1 \in Nat /\ i + 1 <= Depth /\ i <= Depth /\ i <= i + 1
      BY <1>0, <3>1, ReactNumbers
    <3>3. WaitFor(i, FALSE) \in Int /\ WaitFor(i + 1, passedBy) >= WaitFor(i, FALSE) + MaxPass
      <4>1. FALSE \in BOOLEAN  OBVIOUS
      <4>. QED  BY <1>0, <3>1, <3>2, <4>1, Waits
    <3>4. WaitFor(i + 1, passedBy) \in Int /\ WaitFor(i + 1, passedBy) <= Drained + 1
      <4>. DEFINE k == i + 1
      <4>1. k \in Nat /\ k <= k /\ k <= Depth  BY <3>2
      <4>. HIDE DEF k
      <4>2. WaitFor(k, passedBy) \in Int /\ WaitFor(k, passedBy) <= Drained + 1
        BY <1>0, <4>1, Waits
      <4>. QED  BY <4>2 DEF k
    <3>. QED  BY <3>1, <3>3, <3>4
  <2>4. ASSUME NEW i \in 1 .. Len(queue') PROVE WaitFor(i, passedBy') <= Drained + 1 - MaxPass
    <3>1. WaitFor(i, passedBy') = WaitFor(i, FALSE)  BY <2>1, Zenon
    <3>2. /\ WaitFor(i, FALSE) \in Int /\ WaitFor(i + 1, passedBy) \in Int
          /\ WaitFor(i + 1, passedBy) <= Drained + 1
          /\ WaitFor(i + 1, passedBy) >= WaitFor(i, FALSE) + MaxPass
      BY <2>3, Zenon
    <3>3. WaitFor(i, FALSE) <= Drained + 1 - MaxPass  BY <3>2, ServedSooner, Zenon
    <3>. QED  BY <3>1, <3>3, Zenon
  <2>5. ASSUME QueueInv, NEW i \in 1 .. Len(queue'), queue'[i].says = "healthy"
        PROVE  trouble' + WaitFor(i, passedBy') - idle' <= Drained
    <3>1. trouble + WaitFor(i + 1, passedBy) - idle <= Drained
      BY <2>3, <2>5 DEF QueueInv
    <3>2. WaitFor(i, passedBy') = WaitFor(i, FALSE)  BY <2>1, Zenon
    <3>3. /\ WaitFor(i, FALSE) \in Int /\ WaitFor(i + 1, passedBy) \in Int
          /\ WaitFor(i + 1, passedBy) >= WaitFor(i, FALSE) + MaxPass
      BY <2>3, Zenon
    <3>4. trouble + WaitFor(i, FALSE) - 0 <= Drained
      BY <1>0, <3>1, <3>3, StillDrained, Zenon
    <3>. QED  BY <1>0, <3>2, <3>4, Zenon
  <2>. QED  BY <2>4, <2>5 DEF QueueInv
<1>2. CASE OnOther
  <2>1. queue' = queue /\ (queue # <<>> => ~passedBy /\ passedBy' = TRUE)
    BY <1>2 DEF OnOther
  <2>2. ASSUME NEW i \in 1 .. Len(queue)
        PROVE  /\ WaitFor(i, passedBy) = WaitFor(i, FALSE)
               /\ WaitFor(i, passedBy') = WaitFor(i, TRUE)
               /\ WaitFor(i, TRUE) \in Int /\ WaitFor(i, FALSE) \in Int
               /\ WaitFor(i, FALSE) <= Drained + 1
               /\ WaitFor(i, FALSE) >= WaitFor(i, TRUE) + MaxPass
    <3>1. queue # <<>>
      BY <1>0
    <3>2. i \in Nat /\ i <= Depth /\ i <= i
      BY <1>0, ReactNumbers
    <3>3. TRUE \in BOOLEAN /\ FALSE \in BOOLEAN
      OBVIOUS
    <3>4. WaitFor(i, TRUE) \in Int /\ WaitFor(i, FALSE) = WaitFor(i, TRUE) + MaxPass
      BY <3>2, <3>3, Waits
    <3>5. WaitFor(i, FALSE) \in Int /\ WaitFor(i, FALSE) <= Drained + 1
      BY <3>2, <3>3, Waits
    <3>6. passedBy = FALSE /\ passedBy' = TRUE
      BY <1>0, <2>1, <3>1
    <3>7. WaitFor(i, passedBy) = WaitFor(i, FALSE) /\ WaitFor(i, passedBy') = WaitFor(i, TRUE)
      BY <3>6, Zenon
    <3>8. WaitFor(i, FALSE) >= WaitFor(i, TRUE) + MaxPass
      <4>. DEFINE v == WaitFor(i, TRUE)  w == WaitFor(i, FALSE)
      <4>1. v \in Int /\ w = v + MaxPass  BY <3>4
      <4>. HIDE DEF v, w
      <4>2. w >= v + MaxPass  BY <4>1, ReactNumbers
      <4>. QED  BY <4>2 DEF v, w
    <3>. QED  BY <3>4, <3>5, <3>7, <3>8, Zenon
  <2>3. ASSUME NEW i \in 1 .. Len(queue') PROVE WaitFor(i, passedBy') <= Drained + 1 - MaxPass
    <3>1. /\ WaitFor(i, passedBy') = WaitFor(i, TRUE)
          /\ WaitFor(i, TRUE) \in Int /\ WaitFor(i, FALSE) \in Int
          /\ WaitFor(i, FALSE) <= Drained + 1
          /\ WaitFor(i, FALSE) >= WaitFor(i, TRUE) + MaxPass
      BY <2>1, <2>2, Zenon
    <3>2. WaitFor(i, TRUE) <= Drained + 1 - MaxPass  BY <3>1, ServedSooner, Zenon
    <3>. QED  BY <3>1, <3>2, Zenon
  <2>4. ASSUME QueueInv, NEW i \in 1 .. Len(queue'), queue'[i].says = "healthy"
        PROVE  trouble' + WaitFor(i, passedBy') - idle' <= Drained
    <3>1. trouble + WaitFor(i, FALSE) - idle <= Drained
      BY <2>1, <2>2, <2>4 DEF QueueInv
    <3>2. /\ WaitFor(i, passedBy') = WaitFor(i, TRUE)
          /\ WaitFor(i, TRUE) \in Int /\ WaitFor(i, FALSE) \in Int
          /\ WaitFor(i, FALSE) >= WaitFor(i, TRUE) + MaxPass
      BY <2>1, <2>2, Zenon
    <3>3. trouble + WaitFor(i, TRUE) - 0 <= Drained
      BY <1>0, <3>1, <3>2, StillDrained, Zenon
    <3>. QED  BY <1>0, <3>2, <3>3, Zenon
  <2>. QED  BY <2>3, <2>4 DEF QueueInv
<1>. QED  BY <1>1, <1>2 DEF SpinOnce

\* A pass after which the last status served is not stale.
LEMMA SpinServes ==
  ASSUME ReactTypes, SpinOnce, UNCHANGED trouble, QueueInv, ServedInv, served' <= StaleLimit
  PROVE  ServedInv'
<1>0. /\ queue \in Seq(StatusMessages) /\ Len(queue) \in Nat /\ Len(queue) <= Depth
      /\ idle \in Nat /\ idle <= MaxPass /\ trouble \in Nat /\ passedBy \in BOOLEAN
      /\ served \in Nat /\ unhealthy \in Int /\ unhealthy >= -1
      /\ idle' = 0 /\ trouble' = trouble
  BY ReactNumbers DEF ReactTypes, SpinOnce
<1>1. CASE OnSafety
  <2>1. /\ queue # <<>> /\ served' = 0 /\ unhealthy' = UnhealthyOn(Head(queue).says)
    BY <1>1 DEF OnSafety
  <2>2. Len(queue) >= 1 /\ Head(queue) = queue[1]
    BY <1>0, <2>1, ServedIsHead
  <2>3. CASE Head(queue).says = "healthy"
    <3>1. unhealthy' = -1
      BY <2>1, <2>3 DEF UnhealthyOn
    <3>2. trouble + WaitFor(1, passedBy) - idle <= Drained
      BY <1>0, <2>2, <2>3 DEF QueueInv
    <3>3. WaitFor(1, passedBy) \in Int /\ WaitFor(1, passedBy) >= MaxPass
      <4>1. 1 \in Nat /\ 1 <= Depth /\ 1 <= 1  BY ReactNumbers
      <4>. QED  BY <1>0, <4>1, Waits
    <3>4. trouble <= Drained
      BY <1>0, <3>2, <3>3, ReactNumbers
    <3>. QED  BY <1>0, <2>1, <3>1, <3>4, ReactNumbers DEF ServedInv
  <2>4. CASE Head(queue).says # "healthy" /\ unhealthy = -1
    <3>1. unhealthy' = 0
      BY <2>1, <2>4 DEF UnhealthyOn
    <3>. QED  BY <1>0, <2>4, <3>1, ReactNumbers DEF ServedInv
  <2>5. CASE Head(queue).says # "healthy" /\ unhealthy # -1
    <3>1. unhealthy' = unhealthy
      BY <2>1, <2>5 DEF UnhealthyOn
    <3>. QED  BY <1>0, <2>5, <3>1, ReactNumbers DEF ServedInv
  <2>. QED  BY <2>3, <2>4, <2>5
<1>2. CASE OnOther
  <2>1. served' = served /\ unhealthy' = unhealthy
    BY <1>2 DEF OnOther
  <2>. QED  BY <1>0, <2>1, ReactNumbers DEF ServedInv
<1>. QED  BY <1>1, <1>2 DEF SpinOnce

\* What time does to the queue: statuses come behind the others, which move up
\* if there is no room.
LEMMA QueueMovesUp ==
  ASSUME NEW q \in Seq(StatusMessages), Len(q) <= Depth,
         NEW n \in Nat, NEW said \in [1 .. n -> Statuses]
  PROVE  LET next == KeepLast([i \in DOMAIN q |-> Older(q[i])]
                              \o [i \in 1 .. n |-> [says |-> said[i], age |-> 0]])
         IN  /\ next \in Seq(StatusMessages) /\ Len(next) <= Depth
             /\ (\A k \in 1 .. n : said[k] # "healthy") =>
                  \A i \in 1 .. Len(next) : next[i].says = "healthy" =>
                    \E j \in 1 .. Len(q) : i <= j /\ q[j].says = "healthy"
<1>. DEFINE S == StatusMessages
            old == [i \in DOMAIN q |-> Older(q[i])]
            new == [i \in 1 .. n |-> [says |-> said[i], age |-> 0]]
            both == old \o new
            L == Len(both)
            next == KeepLast(both)
<1>1. Len(q) \in Nat /\ DOMAIN q = 1 .. Len(q) /\ \A i \in 1 .. Len(q) : q[i] \in S
  <2>1. Len(q) \in Nat /\ DOMAIN q = 1 .. Len(q)  BY LenProperties
  <2>2. \A i \in 1 .. Len(q) : q[i] \in S  BY ElementOfSeq
  <2>. QED  BY <2>1, <2>2
<1>2. \A s \in S : Older(s) \in S /\ Older(s).says = s.says
  BY SegmentAssumption, SMTT(30) DEF Older, StatusMessages
<1>3. old \in Seq(S) /\ Len(old) = Len(q)
  BY <1>1, <1>2
<1>4. \A i \in 1 .. Len(q) : old[i].says = q[i].says
  BY <1>1, <1>2
<1>5. new \in Seq(S) /\ Len(new) = n
  <2>1. \A i \in 1 .. n : [says |-> said[i], age |-> 0] \in S
    BY SegmentAssumption DEF StatusMessages
  <2>. HIDE DEF S
  <2>. QED  BY <2>1
<1>6. \A i \in 1 .. n : new[i].says = said[i]
  OBVIOUS
<1>. HIDE DEF S, old, new
<1>7. both \in Seq(S) /\ L = Len(q) + n
  <2>1. both \in Seq(S)  BY <1>3, <1>5, ConcatProperties
  <2>2. L = Len(old) + Len(new)  BY <1>3, <1>5, ConcatProperties
  <2>. QED  BY <1>3, <1>5, <2>1, <2>2
<1>0. \A i \in 1 .. Len(old) + Len(new) : both[i] = IF i <= Len(old) THEN old[i] ELSE new[i - Len(old)]
  BY <1>3, <1>5, ConcatProperties
<1>. HIDE DEF both
<1>8. \A i \in 1 .. Len(q) : both[i] = old[i]
  BY <1>0, <1>1, <1>3, <1>5
<1>9. \A i \in Len(q) + 1 .. Len(q) + n : both[i] = new[i - Len(q)]
  BY <1>0, <1>1, <1>3, <1>5
<1>10. \A i \in 1 .. L : both[i] \in S
  BY <1>7, ElementOfSeq
<1>. HIDE DEF L
<1>11. next \in Seq(S) /\ Len(next) <= Depth /\ Len(next) \in Nat
       /\ \A i \in 1 .. Len(next) : \E k \in 1 .. L : i <= k /\ next[i] = both[k]
  <2>1. CASE L <= Depth
    <3>1. next = both  BY <1>1, <1>7, <2>1, ReactNumbers DEF KeepLast, L
    <3>2. Len(both) = L  BY DEF L
    <3>3. \A i \in 1 .. L : i \in 1 .. L /\ i <= i
      BY <1>1, <1>7
    <3>. QED  BY <1>1, <1>7, <2>1, <3>1, <3>2, <3>3
  <2>2. CASE L > Depth
    <3>. DEFINE m == L - Depth + 1
    <3>0. L \in Nat /\ m \in Int /\ m >= 1 /\ L - m + 1 = Depth /\ m <= L
      BY <1>1, <1>7, <2>2, ReactNumbers
    <3>1. next = SubSeq(both, m, L)  BY <2>2 DEF KeepLast, L
    <3>2. \A i \in m .. L : both[i] \in S  BY <1>10, <3>0
    <3>. HIDE DEF next, m
    <3>3. SubSeq(both, m, L) \in Seq(S)  BY <3>0, <3>2, SubSeqProperties
    <3>4. Len(SubSeq(both, m, L)) = L - m + 1  BY <3>0, <3>2, SubSeqProperties
    <3>5. \A i \in 1 .. L - m + 1 : SubSeq(both, m, L)[i] = both[m + i - 1]
      BY <3>0, <3>2, SubSeqProperties
    <3>6. Len(next) = Depth  BY <3>0, <3>1, <3>4
    <3>7. ASSUME NEW i \in 1 .. Len(next) PROVE \E k \in 1 .. L : i <= k /\ next[i] = both[k]
      <4>1. i \in 1 .. L - m + 1  BY <3>0, <3>6
      <4>2. m + i - 1 \in 1 .. L /\ i <= m + i - 1  BY <3>0, <4>1
      <4>3. next[i] = both[m + i - 1]  BY <3>1, <3>5, <4>1
      <4>. QED  BY <4>2, <4>3
    <3>8. next \in Seq(S)  BY <3>1, <3>3
    <3>9. Len(next) <= Depth /\ Len(next) \in Nat  BY <3>6, ReactNumbers
    <3>. QED  BY <3>7, <3>8, <3>9
  <2>. QED  BY <1>1, <1>7, <2>1, <2>2, ReactNumbers
<1>. HIDE DEF next
<1>12. ASSUME \A k \in 1 .. n : said[k] # "healthy",
              NEW i \in 1 .. Len(next), next[i].says = "healthy"
       PROVE  \E j \in 1 .. Len(q) : i <= j /\ q[j].says = "healthy"
  <2>1. PICK k \in 1 .. L : i <= k /\ next[i] = both[k]
    BY <1>11
  <2>2. CASE k <= Len(q)
    <3>1. k \in 1 .. Len(q)  BY <1>1, <1>7, <2>2
    <3>2. q[k].says = "healthy"  BY <1>4, <1>8, <1>12, <2>1, <3>1
    <3>. QED  BY <2>1, <3>1, <3>2
  <2>3. CASE k > Len(q)
    <3>1. k \in Len(q) + 1 .. Len(q) + n /\ k - Len(q) \in 1 .. n  BY <1>1, <1>7, <2>3
    <3>2. both[k].says = said[k - Len(q)]  BY <1>6, <1>9, <3>1
    <3>. QED  BY <1>12, <2>1, <3>1, <3>2
  <2>. QED  BY <1>1, <1>7, <2>2, <2>3
<1>. QED  BY <1>11, <1>12 DEF next, both, old, new, S

\* Without trouble there is nothing to wait for.
LEMMA NoTroubleYet ==
  ASSUME trouble' = 0, served' \in Nat, idle' \in Nat, unhealthy' \in Int
  PROVE  ServedInv'
<1>1. PICK d \in Nat, i \in Nat, u \in Int : d = served' /\ i = idle' /\ u = unhealthy'
  OBVIOUS
<1>2. /\ 0 <= Drained + d /\ 0 <= Drained + StaleLimit + i
      /\ u >= 0 => 0 <= Drained + StaleLimit + MaxPass + u
  BY ReactNumbers
<1>. QED  BY <1>1, <1>2 DEF ServedInv

LEMMA StillWaits ==
  ASSUME NEW t \in Nat, NEW t1 \in Nat, t1 <= t + 1, NEW d \in Nat, NEW d1 \in Nat, d1 = d + 1,
         NEW w \in Int, NEW w1 \in Int, w <= w1, t + w1 - d <= Drained
  PROVE  t1 + w - d1 <= Drained
BY ReactNumbers

\* Each of the three bounds moves with the clock that it is stated by.
LEMMA ServedLater ==
  ASSUME NEW t \in Nat, NEW t1 \in Nat, t1 <= t + 1, NEW s \in Nat,
         s <= StaleLimit => t <= Drained + s,
         Later(s, StaleLimit) <= StaleLimit
  PROVE  t1 <= Drained + Later(s, StaleLimit)
<1>1. Later(s, StaleLimit) = s + 1 /\ s <= StaleLimit
  BY ReactNumbers DEF Later
<1>. QED  BY <1>1, ReactNumbers

LEMMA UnhealthyLater ==
  ASSUME NEW t \in Nat, NEW t1 \in Nat, t1 <= t + 1, NEW u \in Nat,
         u <= UnhealthyLimit => t <= Drained + StaleLimit + MaxPass + u,
         Later(u, UnhealthyLimit) <= UnhealthyLimit
  PROVE  t1 <= Drained + StaleLimit + MaxPass + Later(u, UnhealthyLimit)
<1>1. Later(u, UnhealthyLimit) = u + 1 /\ u <= UnhealthyLimit
  BY ReactNumbers DEF Later
<1>. QED  BY <1>1, ReactNumbers

\* Time passes in the driving loop.
LEMMA DriveElapses ==
  ASSUME ReactTypes, pc = "drive", QueueInv, ServedInv, Elapse
  PROVE  ReactTypes' /\ QueueInv' /\ ServedInv' /\ trouble' <= trouble + 1
<1>0. PICK n \in Rates : \E said \in [1 .. n -> Statuses] :
        /\ queue' = KeepLast([i \in DOMAIN queue |-> Older(queue[i])]
                              \o [i \in 1 .. n |-> [says |-> said[i], age |-> 0]])
        /\ trouble' = IF pc # "drive" \/ \E i \in 1 .. n : said[i] = "healthy" THEN 0
                      ELSE Later(trouble, ReactBound)
  BY DEF Elapse
<1>1. PICK said \in [1 .. n -> Statuses] :
        /\ queue' = KeepLast([i \in DOMAIN queue |-> Older(queue[i])]
                              \o [i \in 1 .. n |-> [says |-> said[i], age |-> 0]])
        /\ trouble' = IF pc # "drive" \/ \E i \in 1 .. n : said[i] = "healthy" THEN 0
                      ELSE Later(trouble, ReactBound)
  BY <1>0
<1>2. /\ idle < MaxPass /\ idle' = idle + 1 /\ passedBy' = passedBy
      /\ served' = Later(served, StaleLimit)
      /\ unhealthy' = IF unhealthy = -1 THEN -1 ELSE Later(unhealthy, UnhealthyLimit)
  BY DEF Elapse
<1>3. /\ queue \in Seq(StatusMessages) /\ Len(queue) \in Nat /\ Len(queue) <= Depth
      /\ idle \in Nat /\ idle <= MaxPass /\ trouble \in Nat /\ passedBy \in BOOLEAN
      /\ served \in Nat /\ served <= StaleLimit + 1
      /\ unhealthy \in Int /\ unhealthy >= -1 /\ unhealthy <= UnhealthyLimit + 1
  BY ReactNumbers DEF ReactTypes
<1>4. n \in Nat
  BY SegmentAssumption
<1>5. /\ queue' \in Seq(StatusMessages) /\ Len(queue') <= Depth
      /\ (\A k \in 1 .. n : said[k] # "healthy") =>
           \A i \in 1 .. Len(queue') : queue'[i].says = "healthy" =>
             \E j \in 1 .. Len(queue) : i <= j /\ queue[j].says = "healthy"
  BY <1>1, <1>3, <1>4, QueueMovesUp
<1>6. trouble' \in Nat /\ trouble' <= trouble + 1
  BY <1>1, <1>3, ReactBoundIs DEF Later
<1>7. /\ idle' \in 0 .. MaxPass /\ served' \in 0 .. StaleLimit + 1
      /\ unhealthy' \in Int /\ unhealthy' >= -1 /\ unhealthy' <= UnhealthyLimit + 1
  BY <1>2, <1>3, ReactNumbers DEF Later
<1>8. ReactTypes'
  BY <1>2, <1>3, <1>5, <1>6, <1>7 DEF ReactTypes
<1>9. Len(queue') \in Nat
  BY <1>5, LenProperties
<1>10. CASE \E k \in 1 .. n : said[k] = "healthy"
  <2>1. trouble' = 0
    BY <1>1, <1>10
  <2>2. ASSUME NEW i \in 1 .. Len(queue')
        PROVE  trouble' + WaitFor(i, passedBy') - idle' <= Drained
    <3>1. i \in Nat /\ i <= i /\ i <= Depth
      BY <1>5, <1>9, ReactNumbers
    <3>2. WaitFor(i, passedBy) \in Int /\ WaitFor(i, passedBy) <= Drained + 1
      BY <1>3, <3>1, Waits
    <3>3. WaitFor(i, passedBy') = WaitFor(i, passedBy)
      BY <1>2
    <3>. QED  BY <1>2, <1>3, <2>1, <3>2, <3>3, ReactNumbers
  <2>3. ServedInv'
    <3>1. served' \in Nat /\ idle' \in Nat /\ unhealthy' \in Int  BY <1>7, ReactNumbers
    <3>. QED  BY <2>1, <3>1, NoTroubleYet
  <2>. QED  BY <1>6, <1>8, <2>2, <2>3 DEF QueueInv
<1>11. CASE \A k \in 1 .. n : said[k] # "healthy"
  <2>1. ASSUME NEW i \in 1 .. Len(queue'), queue'[i].says = "healthy"
        PROVE  trouble' + WaitFor(i, passedBy') - idle' <= Drained
    <3>1. PICK j \in 1 .. Len(queue) : i <= j /\ queue[j].says = "healthy"
      BY <1>5, <1>11, <2>1
    <3>2. i \in Nat /\ j \in Nat /\ i <= j /\ j <= j /\ j <= Depth
      BY <1>3, <1>9, <3>1, ReactNumbers
    <3>3. /\ WaitFor(i, passedBy) \in Int /\ WaitFor(j, passedBy) \in Int
          /\ WaitFor(i, passedBy) <= WaitFor(j, passedBy)
      BY <1>3, <3>2, Waits
    <3>4. trouble + WaitFor(j, passedBy) - idle <= Drained
      BY <3>1 DEF QueueInv
    <3>5. WaitFor(i, passedBy') = WaitFor(i, passedBy)
      BY <1>2
    <3>6. PICK t \in Nat, t1 \in Nat, d \in Nat, d1 \in Nat :
            t = trouble /\ t1 = trouble' /\ d = idle /\ d1 = idle' /\ t1 <= t + 1 /\ d1 = d + 1
      BY <1>2, <1>3, <1>6
    <3>7. PICK w \in Int, w1 \in Int :
            w = WaitFor(i, passedBy) /\ w1 = WaitFor(j, passedBy) /\ w <= w1 /\ t + w1 - d <= Drained
      BY <3>3, <3>4, <3>6, Zenon
    <3>8. t1 + w - d1 <= Drained
      BY <3>6, <3>7, StillWaits
    <3>. QED  BY <3>5, <3>6, <3>7, <3>8, Zenon
  <2>2. ServedInv'
    <3>1. ASSUME unhealthy' = -1, served' <= StaleLimit
          PROVE  trouble' <= Drained + served'
      <4>1. unhealthy = -1
        BY <1>2, <1>3, <3>1, ReactNumbers DEF Later
      <4>. QED  BY <1>2, <1>3, <1>6, <3>1, <4>1, ServedLater DEF ServedInv
    <3>2. ASSUME unhealthy' = -1
          PROVE  trouble' <= Drained + StaleLimit + idle'
      <4>1. unhealthy = -1
        BY <1>2, <1>3, <3>2, ReactNumbers DEF Later
      <4>2. trouble <= Drained + StaleLimit + idle
        BY <4>1 DEF ServedInv
      <4>3. PICK t \in Nat, i \in Nat : t = trouble' /\ i = idle /\ t <= Drained + StaleLimit + i + 1
        BY <1>3, <1>6, <4>2, ReactNumbers
      <4>. QED  BY <1>2, <4>3, ReactNumbers
    <3>3. ASSUME unhealthy' >= 0, unhealthy' <= UnhealthyLimit
          PROVE  trouble' <= Drained + StaleLimit + MaxPass + unhealthy'
      <4>1. unhealthy \in Nat /\ unhealthy' = Later(unhealthy, UnhealthyLimit)
        BY <1>2, <1>3, <3>3, ReactNumbers DEF Later
      <4>. QED  BY <1>3, <1>6, <3>3, <4>1, UnhealthyLater DEF ServedInv
    <3>. QED  BY <3>1, <3>2, <3>3 DEF ServedInv
  <2>. QED  BY <1>6, <1>8, <2>1, <2>2 DEF QueueInv
<1>. QED  BY <1>10, <1>11

\* It passes elsewhere.
LEMMA ElsewhereElapses ==
  ASSUME ReactTypes, pc # "drive", Elapse
  PROVE  ReactTypes' /\ trouble' = 0
<1>0. PICK n \in Rates : \E said \in [1 .. n -> Statuses] :
        queue' = KeepLast([i \in DOMAIN queue |-> Older(queue[i])]
                           \o [i \in 1 .. n |-> [says |-> said[i], age |-> 0]])
  BY DEF Elapse
<1>1. PICK said \in [1 .. n -> Statuses] :
        queue' = KeepLast([i \in DOMAIN queue |-> Older(queue[i])]
                           \o [i \in 1 .. n |-> [says |-> said[i], age |-> 0]])
  BY <1>0
<1>2. /\ trouble' = 0 /\ passedBy' = passedBy
      /\ served' = Later(served, StaleLimit)
      /\ unhealthy' = IF unhealthy = -1 THEN -1 ELSE Later(unhealthy, UnhealthyLimit)
      /\ pc = "over" \/ idle < MaxPass
      /\ idle' = IF pc = "over" THEN idle ELSE idle + 1
  BY DEF Elapse
<1>3. n \in Nat /\ queue \in Seq(StatusMessages) /\ Len(queue) <= Depth
  BY SegmentAssumption DEF ReactTypes
<1>4. queue' \in Seq(StatusMessages) /\ Len(queue') <= Depth
  BY <1>1, <1>3, QueueMovesUp
<1>5. /\ idle' \in 0 .. MaxPass /\ served' \in 0 .. StaleLimit + 1
      /\ unhealthy' \in Int /\ unhealthy' >= -1 /\ unhealthy' <= UnhealthyLimit + 1
  BY <1>2, ReactNumbers DEF Later, ReactTypes
<1>. QED  BY <1>2, <1>4, <1>5 DEF ReactTypes

\* ReactInv is inductive.
LEMMA ReactInductive == Spec => []ReactInv
<1>1. Init => ReactInv
  <2>. SUFFICES ASSUME Init PROVE ReactInv
    OBVIOUS
  <2>1. /\ pc = "ready" /\ trouble = 0 /\ idle = 0 /\ passedBy = FALSE
        /\ served = StaleLimit + 1 /\ unhealthy = -1 /\ queue = <<>> /\ command.full = FALSE
    BY DEF Init, NoTwist
  <2>2. queue \in Seq(StatusMessages) /\ Len(queue) <= Depth
    BY <2>1, ReactNumbers
  <2>3. ReactTypes
    <3>0. trouble \in Nat /\ passedBy \in BOOLEAN
      BY <2>1
    <3>1. idle \in 0 .. MaxPass
      BY <2>1, ReactNumbers
    <3>2. served \in 0 .. StaleLimit + 1
      BY <2>1, ReactNumbers
    <3>3. unhealthy \in Int /\ unhealthy >= -1 /\ unhealthy <= UnhealthyLimit + 1
      BY <2>1, ReactNumbers
    <3>. QED  BY <2>2, <3>0, <3>1, <3>2, <3>3 DEF ReactTypes
  <2>. QED  BY <2>1, <2>3 DEF ReactInv, BeforeInv, ReactsInTime
<1>2. RestInv /\ ReactInv /\ [Next]_vars => ReactInv'
  <2>. SUFFICES ASSUME RestInv, ReactInv, [Next]_vars PROVE ReactInv'
    OBVIOUS
  <2>0. /\ ReactTypes /\ BeforeInv /\ ReactsInTime /\ trouble \in Nat
        /\ command \in Topics /\ command.age \in Nat
        /\ pc = "drive" => QueueInv /\ ServedInv
    BY DEF ReactInv, ReactTypes, RestInv, HeldOK, Topics
  <2>1. CASE WaitUntilReady
    <3>1. pc = "ready" /\ trouble = 0 /\ UNCHANGED <<trouble, goal, command>>
      BY <2>0, <2>1 DEF WaitUntilReady, historyVars, BeforeInv
    <3>2. pc' \in {"ready", "find", "zero"}
      BY <2>1, <3>1 DEF WaitUntilReady, Finally, GoTo, Stay
    <3>3. CASE UNCHANGED <<statusVars, idle>>
      <4>1. ReactTypes'
        BY <2>0, <3>1, <3>3 DEF statusVars, ReactTypes
      <4>. QED  BY <2>0, <3>1, <3>2, <4>1 DEF ReactInv, BeforeInv, ReactsInTime
    <3>4. CASE SpinOnce
      <4>1. ReactTypes'
        BY <2>0, <3>1, <3>4, SpinKeepsTypes
      <4>. QED  BY <2>0, <3>1, <3>2, <4>1 DEF ReactInv, BeforeInv, ReactsInTime
    <3>. QED  BY <2>1, <3>3, <3>4 DEF WaitUntilReady
  <2>2. CASE FindService
    <3>1. /\ pc = "find" /\ idle' = 0 /\ UNCHANGED <<trouble, goal, command>>
          /\ UNCHANGED statusVars
      BY <2>2 DEF FindService
    <3>2. pc' # "drive" /\ pc' # "ready"
      BY <2>2, <3>1 DEF FindService, NotSet, Finally, GoTo, Stay
    <3>3. ReactTypes'
      BY <2>0, <3>1, ReactNumbers DEF statusVars, ReactTypes
    <3>. QED  BY <2>0, <3>1, <3>2, <3>3 DEF ReactInv, BeforeInv, ReactsInTime
  <2>3. CASE AwaitMode
    <3>1. pc = "await" /\ SpinOnce /\ UNCHANGED <<trouble, goal, command>>
      BY <2>3 DEF AwaitMode, historyVars
    <3>2. ReactTypes'
      BY <2>0, <3>1, SpinKeepsTypes
    <3>3. pc' \in {"await", "zero", "over", "drive"} /\ (pc' = "drive" => goal = "MANUAL")
      BY <2>3, <3>1 DEF AwaitMode, NotSet, Finally, GoTo, Stay
    <3>4. ASSUME pc' = "drive" PROVE QueueInv' /\ ServedInv'
      <4>1. trouble' = 0
        BY <2>0, <3>1, <3>3, <3>4 DEF BeforeInv
      <4>2. idle' = 0 /\ served' \in Nat /\ unhealthy' \in Int
        BY <3>1, <3>2, ReactNumbers DEF ReactTypes, SpinOnce
      <4>3. ASSUME NEW i \in 1 .. Len(queue')
            PROVE  trouble' + WaitFor(i, passedBy') - idle' <= Drained
        <5>1. WaitFor(i, passedBy') <= Drained + 1 - MaxPass
          BY <2>0, <3>1, SpinDrains
        <5>2. WaitFor(i, passedBy') \in Int
          <6>1. i \in Nat /\ i <= i /\ i <= Depth /\ passedBy' \in BOOLEAN
            BY <3>2, ReactNumbers, LenProperties DEF ReactTypes
          <6>. QED  BY <6>1, Waits
        <5>. QED  BY <4>1, <4>2, <5>1, <5>2, ReactNumbers
      <4>4. ServedInv'
        <5>1. idle' \in Nat  BY <4>2
        <5>. QED  BY <4>1, <4>2, <5>1, NoTroubleYet
      <4>. QED  BY <4>3, <4>4 DEF QueueInv
    <3>. QED  BY <2>0, <3>1, <3>2, <3>3, <3>4 DEF ReactInv, BeforeInv, ReactsInTime
  <2>4. CASE Drive
    <3>1. /\ pc = "drive" /\ SpinOnce /\ UNCHANGED <<trouble, goal>>
          /\ QueueInv /\ ServedInv
      BY <2>0, <2>4 DEF Drive, historyVars
    <3>2. ReactTypes' /\ QueueInv'
      BY <2>0, <3>1, SpinKeepsTypes, SpinDrains
    <3>3. CASE Healthy /\ Stay /\ \E v \in Velocities : command' = Sent([v |-> v, from |-> "MANUAL", age |-> 0])
      <4>1. pc' = "drive" /\ command'.age = 0
        BY <3>1, <3>3 DEF Stay, Sent
      <4>2. served' <= StaleLimit /\ unhealthy' <= UnhealthyLimit
        BY <3>3 DEF Healthy
      <4>3. ServedInv'
        BY <2>0, <3>1, <4>2, SpinServes
      <4>4. trouble' <= ReactBound
        <5>1. /\ unhealthy' \in Int /\ unhealthy' >= -1 /\ served' \in Nat /\ trouble' \in Nat
          BY <3>2, ReactNumbers DEF ReactTypes
        <5>2. PICK t \in Nat, u \in Int, d \in Nat :
                t = trouble' /\ u = unhealthy' /\ d = served'
          BY <5>1
        <5>3. CASE u = -1
          <6>1. t <= Drained + d /\ d <= StaleLimit
            BY <4>2, <4>3, <5>2, <5>3 DEF ServedInv
          <6>2. t <= Drained + StaleLimit + MaxPass + 0
            BY <5>2, <6>1, NoneYet, Zenon
          <6>3. 0 \in Int /\ 0 <= UnhealthyLimit  BY ReactNumbers
          <6>4. t <= ReactBound  BY <5>2, <6>2, <6>3, WithinBound
          <6>. QED  BY <5>2, <6>4
        <5>4. CASE u # -1
          <6>1. u >= 0 /\ u <= UnhealthyLimit
            BY <4>2, <5>1, <5>2, <5>4
          <6>2. t <= Drained + StaleLimit + MaxPass + u
            BY <4>3, <5>2, <6>1 DEF ServedInv
          <6>. QED  BY <5>2, <6>1, <6>2, WithinBound
        <5>. QED  BY <5>3, <5>4
      <4>5. trouble' <= ReactBound + command'.age
        BY <3>2, <4>1, <4>4, ReactBoundIs DEF ReactTypes
      <4>. QED  BY <3>2, <4>1, <4>3, <4>5 DEF ReactInv, BeforeInv, ReactsInTime
    <3>4. CASE Finally /\ UNCHANGED command
      <4>1. pc' = "zero"
        BY <3>4 DEF Finally, GoTo
      <4>. QED  BY <2>0, <3>1, <3>2, <3>4, <4>1 DEF ReactInv, BeforeInv, ReactsInTime
    <3>. QED  BY <2>4, <3>3, <3>4 DEF Drive
  <2>5. CASE PublishZero
    <3>1. SpinOnce /\ UNCHANGED trouble /\ command' = Sent(Rest)
      BY <2>5 DEF PublishZero, historyVars
    <3>2. ReactTypes'
      BY <2>0, <3>1, SpinKeepsTypes
    <3>3. pc' = "zero" \/ (pc' = "find" /\ goal' = "STOP")
      BY <2>5 DEF PublishZero, GoTo
    <3>4. ~Moves(command'.msg)
      BY <3>1 DEF Sent, Rest, Moves
    <3>. QED  BY <3>2, <3>3, <3>4 DEF ReactInv, BeforeInv, ReactsInTime
  <2>6. CASE Interrupt
    <3>1. /\ pc' \in {"zero", "over"}
          /\ UNCHANGED <<idle, statusVars, command, trouble>>
      BY <2>6 DEF Interrupt, Finally, GoTo
    <3>2. ReactTypes'
      BY <2>0, <3>1 DEF statusVars, ReactTypes
    <3>. QED  BY <2>0, <3>1, <3>2 DEF ReactInv, BeforeInv, ReactsInTime
  <2>7. CASE ManagerTakes \/ ManagerAnswers \/ OthersSetMode \/ UNCHANGED vars
    <3>1. /\ UNCHANGED <<pc, goal, idle, statusVars, trouble>>
          /\ command' = NoTwist \/ UNCHANGED command
      BY <2>7 DEF ManagerTakes, ManagerAnswers, OthersSetMode, scriptVars, historyVars, vars
    <3>2. ReactTypes'
      BY <2>0, <3>1 DEF statusVars, ReactTypes
    <3>3. BeforeInv'
      BY <2>0, <3>1 DEF BeforeInv
    <3>4. ReactsInTime'
      <4>1. NoTwist.full = FALSE  BY DEF NoTwist
      <4>. QED  BY <2>0, <3>1, <4>1 DEF ReactsInTime
    <3>5. pc' = "drive" => QueueInv' /\ ServedInv'
      BY <2>0, <3>1 DEF statusVars, QueueInv, ServedInv
    <3>. QED  BY <3>2, <3>3, <3>4, <3>5 DEF ReactInv
  <2>8. CASE Elapse
    <3>1. UNCHANGED <<pc, goal>> /\ command' = LaterIn(command)
      BY <2>8 DEF Elapse
    <3>2. /\ ReactTypes' /\ trouble' <= trouble + 1
          /\ pc = "drive" => QueueInv' /\ ServedInv'
          /\ pc # "drive" => trouble' = 0
      <4>1. CASE pc = "drive"
        BY <2>0, <2>8, <4>1, DriveElapses
      <4>2. CASE pc # "drive"
        BY <2>0, <2>8, <4>2, ElsewhereElapses
      <4>. QED  BY <4>1, <4>2
    <3>3. BeforeInv'
      BY <3>1, <3>2 DEF BeforeInv
    <3>4. ReactsInTime'
      <4>1. CASE command.full
        <5>1. command'.age = command.age + 1 /\ command'.msg = Aged(command.msg)
          BY <2>0, <3>1, <4>1 DEF LaterIn, Topics
        <5>2. command.msg \in Twists
          BY <2>0 DEF Topics
        <5>3. Moves(command'.msg) => Moves(command.msg)
          BY <5>1, <5>2 DEF Aged, Moves, Twists
        <5>4. trouble' \in Nat
          BY <3>2 DEF ReactTypes
        <5>. QED  BY <2>0, <3>2, <4>1, <5>1, <5>3, <5>4, ReactBoundIs DEF ReactsInTime
      <4>2. CASE ~command.full
        BY <3>1, <4>2 DEF LaterIn, ReactsInTime
      <4>. QED  BY <4>1, <4>2
    <3>. QED  BY <3>1, <3>2, <3>3, <3>4 DEF ReactInv
  <2>. QED  BY <2>1, <2>2, <2>3, <2>4, <2>5, <2>6, <2>7, <2>8 DEF Next, Script
<1>. QED  BY <1>1, <1>2, RestInductive, PTL DEF Spec

\* Whatever the queue holds, however long the passes are and whenever the
\* statuses stop or turn bad: the last velocity was published no later than
\* ReactBound after the last healthy status came.
THEOREM ReactsInTimeHolds == Spec => []ReactsInTime
<1>1. ReactInv => ReactsInTime
  BY DEF ReactInv
<1>. QED  BY <1>1, ReactInductive, PTL
=============================================================================
