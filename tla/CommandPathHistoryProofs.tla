----------------------- MODULE CommandPathHistoryProofs ------------------------
(***************************************************************************)
(* That a source which is no longer the mode, and a velocity which the     *)
(* safety node no longer permits, stop driving the robot in time, for      *)
(* every value of the timeouts and delays.                                 *)
(***************************************************************************)
EXTENDS CommandPathModes, CommandPathSafety, CommandPathProofs

\* The bounds of both records are natural numbers.
LEMMA HistoryBoundsAreNat == SwitchBound \in Nat /\ StopBound \in Nat
  BY SafetyAssumption, PathAssumption DEF SwitchBound, StopBound

\* Ages moved by Later: never by more than one, and not past the limit unseen.
LEMMA LaterSteps ==
  ASSUME NEW a \in Nat, NEW limit \in Nat
  PROVE  /\ Later(a, limit) <= a + 1
         /\ Later(a, limit) <= limit => a <= limit /\ Later(a, limit) = a + 1
  BY DEF Later

\* Ageing changes neither the velocity nor the source of a message.
LEMMA AgedKeeps ==
  ASSUME NEW m \in Twists \cup BadTwists
  PROVE  Aged(m).v = m.v /\ Aged(m).from = m.from
  BY DEF Aged, Twists, BadTwists

\* A topic that time passes in.
LEMMA LaterInSteps ==
  ASSUME NEW topic \in Topics
  PROVE  /\ topic.full => LaterIn(topic).age = topic.age + 1
         /\ LaterIn(topic).full = topic.full
         /\ LaterIn(topic).msg.v = topic.msg.v
         /\ LaterIn(topic).msg.from = topic.msg.from
<1>1. topic.msg \in Twists
  BY DEF Topics
<1>2. CASE topic.full
  <2>1. /\ LaterIn(topic).age = topic.age + 1 /\ LaterIn(topic).full = topic.full
        /\ LaterIn(topic).msg = Aged(topic.msg)
    BY <1>2 DEF LaterIn, Topics
  <2> QED BY <2>1, <1>1, AgedKeeps
<1>3. CASE ~topic.full
  BY <1>3 DEF LaterIn
<1> QED BY <1>2, <1>3

-----------------------------------------------------------------------------
(* What the safety node permits.                                           *)

\* What healthy lets through (tick) is what it was told permits.
LEMMA HealthyIsTold == TypeOK /\ Healthy => Told
<1> SUFFICES ASSUME TypeOK, Healthy PROVE Told
  OBVIOUS
<1>1. ~safetyEstop /\ ~Obstacle /\ LaserHealthy
  BY DEF Healthy
<1>2. ASSUME NEW i \in Sensors, ranges[i].value \in Distances
      PROVE  ranges[i].value > HardStop
  <2>1. ranges[i].value \in Measured
    BY <1>2 DEF Measured
  <2>2. ~(ranges[i].value <= HardStop)
    BY <1>1, <2>1 DEF Obstacle
  <2> QED BY <1>2, <2>2, SafetyAssumption
<1>3. FailClosed => \A i \in Sensors :
        /\ ranges[i].have /\ ranges[i].value # Invalid
        /\ ranges[i].age <= UltrasonicStale
  BY DEF Healthy, UltrasonicHealthy, Heard
<1>4. ASSUME UseLaser, NEW x \in laser.front PROVE x > LaserHardStop
  <2>1. ~(x <= LaserHardStop)
    BY <1>1, <1>4 DEF Obstacle
  <2>2. x \in Int
    BY <1>4, SafetyAssumption DEF TypeOK
  <2> QED BY <2>1, <2>2, SafetyAssumption
<1> QED BY <1>1, <1>2, <1>3, <1>4 DEF Told, LaserHealthy

\* Only a velocity that was asked for leaves the safety node, and only while
\* what it was told permits motion.
LEMMA SafeOutputMoves ==
  ASSUME TypeOK, Moves(SafeOutput)
  PROVE  /\ Healthy /\ Moves(safetyCmd.msg)
         /\ SafeOutput.from = safetyCmd.msg.from
<1>1. Healthy
  BY DEF SafeOutput, Moves, Rest
<1>2. safetyCmd.msg \in Twists
  BY DEF TypeOK
<1>3. SafeOutput.v = Slowed(safetyCmd.msg.v) /\ SafeOutput.from = safetyCmd.msg.from
  BY <1>1, <1>2 DEF SafeOutput, Twists
<1>4. safetyCmd.msg.v = 0 => Slowed(safetyCmd.msg.v) = 0
  BY DEF Slowed
<1> QED BY <1>1, <1>3, <1>4 DEF Moves

\* Time takes permissions away and gives none.
LEMMA ToldInTime == TypeOK /\ Elapse /\ Told' => Told
<1> SUFFICES ASSUME TypeOK, Elapse, Told' PROVE Told
  OBVIOUS
<1>1. /\ safetyEstop' = safetyEstop
      /\ \A i \in Sensors :
           /\ ranges'[i].value = ranges[i].value /\ ranges'[i].have = ranges[i].have
           /\ ranges'[i].age = Later(ranges[i].age, UltrasonicStale)
      /\ laser'.front = laser.front /\ laser'.have = laser.have
      /\ laser'.age = Later(laser.age, LaserStale)
  BY DEF Elapse, SafetyElapse, TypeOK
<1>2. /\ \A i \in Sensors : ranges'[i].age <= UltrasonicStale => ranges[i].age <= UltrasonicStale
      /\ laser'.age <= LaserStale => laser.age <= LaserStale
  BY <1>1, LaterSteps, SafetyAssumption DEF TypeOK
<1> QED BY <1>1, <1>2 DEF Told

\* A velocity on its way was permitted when it was passed on: kept by every
\* step.
LEMMA BlocksAddUpStays ==
  ASSUME SafetyPathTypeOK, AgesAddUp, BlocksAddUp,
         [SafetyPathStep \/ SafetyPathElapse]_safetyPathVars
  PROVE  BlocksAddUp'
<1> TypeOK /\ blocked \in Nat
  BY DEF SafetyPathTypeOK
<1>1. CASE SafetyPathStep
  <2>1. Step /\ blocked' \in {0, blocked} /\ (Told' => blocked' = 0)
    BY <1>1 DEF SafetyPathStep
  <2>2. blocked' <= blocked /\ blocked' \in Nat
    BY <2>1
  <2>3. Moves(safe'.msg) => safe'.full /\ blocked' <= safe'.age
    <3>1. CASE SafetyTick
      <4>1. Moves(SafeOutput) => Told
        BY SafeOutputMoves, HealthyIsTold
      <4>2. Told' <=> Told
        BY <3>1 DEF SafetyTick, safetyVars, Told
      <4> QED BY <2>1, <3>1, <4>1, <4>2 DEF SafetyTick, Sent, Moves
    <3>2. CASE BaseTakes
      BY <3>2 DEF BaseTakes, NoTwist, Rest, Moves
    <3>3. CASE safe' = safe
      BY <2>2, <3>3 DEF BlocksAddUp, Moves, TypeOK, Topics
    <3> QED BY <2>1, <3>1, <3>2, <3>3
            DEF Step, OtherStep, OnSource, OnSetMode, ManagerTick, DeliverControl,
                SensorsReport, BaseFault, BaseReset, BaseForgets, pathVars
  <2>4. base'.gate = "OPEN" /\ base'.age <= BaseTimeout /\ Moves(base'.cmd) =>
          blocked' <= MaxDelay + base'.age
    <3>1. CASE BaseTakes
      <4>1. base'.cmd = safe.msg /\ base'.age = 0
        BY <3>1 DEF BaseTakes
      <4>2. safe.age <= MaxDelay /\ safe.age \in Nat
        BY DEF AgesAddUp, TypeOK, Topics
      <4> QED BY <2>2, <4>1, <4>2, PathAssumption DEF BlocksAddUp, Moves
    <3>2. CASE BaseFault \/ BaseReset
      BY <3>2 DEF BaseFault, BaseReset, NoBaseCommand, TypeOK, Bases
    <3>3. CASE BaseForgets
      BY <3>3 DEF BaseForgets, NoBaseCommand, Rest, Moves
    <3>4. CASE base' = base
      BY <2>2, <3>4, PathAssumption DEF BlocksAddUp, Moves, TypeOK, Bases
    <3> QED BY <2>1, <3>1, <3>2, <3>3, <3>4
            DEF Step, OtherStep, OnSource, OnSetMode, ManagerTick, DeliverControl,
                SensorsReport, SafetyTick, pathVars
  <2> QED BY <2>1, <2>3, <2>4 DEF BlocksAddUp
<1>2. CASE SafetyPathElapse
  <2>1. Elapse /\ blocked' = IF Told THEN 0 ELSE Later(blocked, StopBound)
    BY <1>2 DEF SafetyPathElapse
  <2>2. blocked' \in Nat /\ blocked' <= blocked + 1
    BY <2>1, LaterSteps, LaterIsNat, HistoryBoundsAreNat
  <2>3. Told' => blocked' = 0
    BY <2>1, ToldInTime
  <2>4. Moves(safe'.msg) => safe'.full /\ blocked' <= safe'.age
    <3>1. safe' = LaterIn(safe) /\ safe \in Topics
      BY <2>1 DEF Elapse, TypeOK
    <3>2. CASE safe.full
      <4>1. /\ safe'.age = safe.age + 1 /\ safe'.full
            /\ safe'.msg.v = safe.msg.v /\ safe.age \in Nat
        BY <3>1, <3>2, LaterInSteps DEF Topics
      <4> QED BY <2>2, <4>1 DEF BlocksAddUp, Moves
    <3>3. CASE ~safe.full
      BY <3>1, <3>3 DEF LaterIn, BlocksAddUp
    <3> QED BY <3>2, <3>3
  <2>5. ASSUME base'.gate = "OPEN", base'.age <= BaseTimeout, Moves(base'.cmd)
        PROVE  blocked' <= MaxDelay + base'.age
    <3>1. /\ base'.cmd = Aged(base.cmd) /\ base'.gate = base.gate
          /\ base'.age = Later(base.age, BaseTimeout)
          /\ base.cmd \in Twists /\ base.age \in Nat
      BY <2>1 DEF Elapse, BaseElapse, TypeOK, Bases
    <3>2. base.age <= BaseTimeout /\ base'.age = base.age + 1
      BY <2>5, <3>1, LaterSteps, PathAssumption
    <3>3. Moves(base.cmd)
      BY <2>5, <3>1, AgedKeeps DEF Moves
    <3> QED BY <2>2, <2>5, <3>1, <3>2, <3>3, PathAssumption DEF BlocksAddUp
  <2> QED BY <2>3, <2>4, <2>5 DEF BlocksAddUp
<1>3. CASE UNCHANGED safetyPathVars
  BY <1>3 DEF safetyPathVars, vars, managerVars, safetyVars, pathVars, BlocksAddUp,
              Told, Moves
<1> QED BY <1>1, <1>2, <1>3

\* Whatever the timeouts and delays: when the emergency stop is on, an
\* obstacle is near or a sensor has not been heard, as far as the safety node
\* was told (tick), the robot rests after one delivery and one timeout.
THEOREM BlockedRobotStops == SafetyPathSpec => []BlockedStops
<1> DEFINE Inv == SafetyPathTypeOK /\ AgesAddUp /\ BlocksAddUp
<1>1. SafetyPathInit => Inv
  <2>1. SafetyPathInit => TypeOK /\ AgesAddUp
    BY TypeAtFirst, AgesAddUpAtFirst DEF SafetyPathInit
  <2>2. SafetyPathInit => blocked \in Nat /\ BlocksAddUp
    BY DEF SafetyPathInit, Init, BlocksAddUp, NoTwist, NoBaseCommand, Rest, Moves
  <2> QED BY <2>1, <2>2 DEF SafetyPathTypeOK
<1>2. Inv /\ [SafetyPathStep \/ SafetyPathElapse]_safetyPathVars => Inv'
  <2> SUFFICES ASSUME Inv, [SafetyPathStep \/ SafetyPathElapse]_safetyPathVars PROVE Inv'
    OBVIOUS
  <2>1. [Next]_vars
    BY DEF SafetyPathStep, SafetyPathElapse, Next, safetyPathVars
  <2>2. TypeOK' /\ AgesAddUp'
    BY <2>1, TypeStays, AgesAddUpStays DEF SafetyPathTypeOK
  <2>3. blocked' \in Nat
    <3>1. blocked \in Nat /\ Later(blocked, StopBound) \in Nat
      BY LaterIsNat, HistoryBoundsAreNat DEF SafetyPathTypeOK
    <3>2. blocked' \in {0, blocked, Later(blocked, StopBound)}
      BY DEF SafetyPathStep, SafetyPathElapse, safetyPathVars
    <3> QED BY <3>1, <3>2
  <2>4. BlocksAddUp'
    BY BlocksAddUpStays
  <2> QED BY <2>2, <2>3, <2>4 DEF SafetyPathTypeOK
<1>3. Inv => BlockedStops
  <2> SUFFICES ASSUME Inv, Driving PROVE blocked <= StopBound
    BY DEF BlockedStops
  <2>1. base.gate = "OPEN" /\ base.age <= BaseTimeout /\ Moves(base.cmd)
    BY DEF Driving, Written, Rest, Moves
  <2>2. blocked <= MaxDelay + base.age /\ base.age \in Nat /\ blocked \in Nat
    BY <2>1 DEF BlocksAddUp, SafetyPathTypeOK, TypeOK, Bases
  <2> QED BY <2>1, <2>2, PathAssumption DEF StopBound
<1> QED BY <1>1, <1>2, <1>3, PTL DEF SafetyPathSpec

-----------------------------------------------------------------------------
(* What the velocity manager selects.                                      *)

\* What is selected moves only for a source that is the mode (tick).
LEMMA SelectedIsMode ==
  ASSUME SwitchesAddUp, Moves(Selected)
  PROVE  mode \in Sources /\ Selected.from = mode /\ unselected[mode] = 0
  BY DEF Selected, SwitchesAddUp, Moves, Rest

\* SelectedWithin, of any record of when sources were the mode.
Within(u, m, n) == Moves(m) => m.from \in Sources /\ u[m.from] <= n

\* A record that grows by at most one per unit keeps within a bound that does.
LEMMA WithinGrows ==
  ASSUME NEW u \in [Sources -> Nat], NEW w \in [Sources -> Nat],
         \A s \in Sources : w[s] <= u[s] + 1,
         NEW m \in Twists, NEW n \in Nat, Within(u, m, n)
  PROVE  Within(w, Aged(m), n + 1)
  BY AgedKeeps DEF Within, Moves

\* A bound may be raised, and the record may fall.
LEMMA WithinFalls ==
  ASSUME NEW u \in [Sources -> Nat], NEW w \in [Sources -> Nat],
         \A s \in Sources : w[s] <= u[s],
         NEW m \in Twists, NEW n \in Nat, NEW k \in Nat, n <= k, Within(u, m, n)
  PROVE  Within(w, m, k)
  BY DEF Within, Moves

\* The same of a topic that time passes in.
LEMMA WithinGrowsInTopic ==
  ASSUME NEW u \in [Sources -> Nat], NEW w \in [Sources -> Nat],
         \A s \in Sources : w[s] <= u[s] + 1,
         NEW topic \in Topics, NEW n \in Nat,
         Moves(topic.msg) => topic.full, Within(u, topic.msg, n + topic.age)
  PROVE  /\ Moves(LaterIn(topic).msg) => LaterIn(topic).full
         /\ Within(w, LaterIn(topic).msg, n + LaterIn(topic).age)
<1>1. topic.msg \in Twists /\ topic.age \in Nat
  BY DEF Topics
<1>2. CASE topic.full
  BY <1>1, <1>2, LaterInSteps DEF Within, Moves
<1>3. CASE ~topic.full
  BY <1>3, LaterInSteps DEF Within, Moves, LaterIn
<1> QED BY <1>2, <1>3

\* A mode switch or any other instantaneous step only lowers the record, and
\* leaves the ages alone.
LEMMA SwitchesAddUpInStep ==
  ASSUME ModesTypeOK, ModesTypeOK', AgesAddUp, SwitchesAddUp, ModesStep
  PROVE  SwitchesAddUp'
<1> USE DEF ModesTypeOK
<1>0. /\ unselected \in [Sources -> Nat] /\ unselected' \in [Sources -> Nat]
      /\ \A s \in Sources : unselected'[s] <= unselected[s]
      /\ mode' \in Sources => unselected'[mode'] = 0
  <2>1. CASE OnSetMode /\ unselected' = [s \in Sources |-> IF s = mode' THEN 0 ELSE unselected[s]]
    BY <2>1
  <2>2. CASE OtherStep /\ unselected' = unselected
    <3>1. mode' = mode
      BY <2>2 DEF OtherStep, OnSource, Update, ManagerTick, DeliverControl, SensorsReport,
                  SafetyTick, BaseTakes, BaseFault, BaseReset, BaseForgets, managerVars
    <3> QED BY <2>2, <3>1 DEF SwitchesAddUp
  <2> QED BY <2>1, <2>2 DEF ModesStep
<1>1. \A s \in Sources : Moves(source'[s].msg) => source'[s].msg.from = s
  <2>1. CASE OnSource
    <3>1. PICK s \in Sources, delay \in 0 .. SourceDelay :
          \E m \in {Rest} \cup [v : Velocities \cup {NonFinite}, from : {s}, age : {delay}] :
            Update(s, m)
      BY <2>1 DEF OnSource
    <3>2. PICK m \in {Rest} \cup [v : Velocities \cup {NonFinite}, from : {s}, age : {delay}] :
            Update(s, m)
      BY <3>1
    <3>3. Moves(m) => m.from = s
      BY DEF Moves, Rest
    <3> QED BY <3>2, <3>3 DEF Update, TypeOK, SwitchesAddUp, Moves
  <2>2. CASE OnSetMode
    <3>1. ASSUME NEW s \in Sources PROVE source'[s].msg = source[s].msg
      BY <2>2, <3>1 DEF OnSetMode, SetMode, TypeOK, SourceStates
    <3> QED BY <3>1 DEF SwitchesAddUp, Moves
  <2>3. CASE source' = source
    BY <2>3 DEF SwitchesAddUp, Moves
  <2> QED BY <2>1, <2>2, <2>3
          DEF ModesStep, OtherStep, ManagerTick, DeliverControl, SensorsReport, SafetyTick,
              BaseTakes, BaseFault, BaseReset, BaseForgets, managerVars
<1>2. /\ Moves(control'.msg) => control'.full
      /\ Within(unselected', control'.msg, control'.age)
  <2>1. CASE ManagerTick
    <3>1. Within(unselected, Selected, 0)
      BY SelectedIsMode DEF Within
    <3>2. Within(unselected', Selected, 0)
      <4>1. Selected \in Twists
        BY SelectedIsTyped DEF TypeOK
      <4> HIDE DEF ModesTypeOK
      <4> QED BY <1>0, <3>1, <4>1 DEF Within, Moves
    <3> QED BY <2>1, <3>2 DEF ManagerTick, Sent
  <2>2. CASE DeliverControl
    BY <2>2 DEF DeliverControl, NoTwist, Rest, Moves, Within
  <2>3. CASE control' = control
    BY <1>0, <2>3, WithinFalls DEF SwitchesAddUp, SelectedWithin, Within, TypeOK, Topics, Moves
  <2> QED BY <2>1, <2>2, <2>3
          DEF ModesStep, OtherStep, OnSource, OnSetMode, SensorsReport, SafetyTick,
              BaseTakes, BaseFault, BaseReset, BaseForgets, pathVars
<1>3. safetyCmd'.age <= CommandStale =>
        Within(unselected', safetyCmd'.msg, MaxDelay + safetyCmd'.age)
  <2>1. CASE DeliverControl
    <3>1. safetyCmd'.msg = control.msg /\ safetyCmd'.age = 0
      BY <2>1 DEF DeliverControl, OnCommand
    <3>2. /\ control.msg \in Twists /\ control.age \in Nat /\ control.age <= MaxDelay
          /\ Within(unselected, control.msg, control.age)
      BY DEF TypeOK, Topics, AgesAddUp, SwitchesAddUp, SelectedWithin, Within
    <3>3. Within(unselected', control.msg, MaxDelay)
      BY <1>0, <3>2, WithinFalls, PathAssumption
    <3> QED BY <3>1, <3>3, PathAssumption
  <2>2. CASE safetyCmd' = safetyCmd
    <3>1. /\ safetyCmd.msg \in Twists /\ safetyCmd.age \in Nat
          /\ MaxDelay + safetyCmd.age \in Nat
      BY PathAssumption DEF TypeOK
    <3> QED BY <1>0, <2>2, <3>1, WithinFalls DEF SwitchesAddUp, SelectedWithin, Within
  <2> QED BY <2>1, <2>2
          DEF ModesStep, OtherStep, OnSource, OnSetMode, ManagerTick, SensorsReport,
              OnSafetyEstop, OnRange, OnScan, SafetyTick,
              BaseTakes, BaseFault, BaseReset, BaseForgets, safetyVars
<1>4. /\ Moves(safe'.msg) => safe'.full
      /\ Within(unselected', safe'.msg, MaxDelay + CommandStale + safe'.age)
  <2>1. CASE SafetyTick
    <3>1. Within(unselected, SafeOutput, MaxDelay + CommandStale)
      <4>1. CASE Moves(SafeOutput)
        <5>1. /\ SafeOutput.from = safetyCmd.msg.from /\ Moves(safetyCmd.msg)
              /\ safetyCmd.age \in Nat /\ safetyCmd.age <= CommandStale
          BY <4>1, SafeOutputMoves DEF Healthy, CommandValid, TypeOK
        <5>2. /\ safetyCmd.msg.from \in Sources
              /\ unselected[safetyCmd.msg.from] <= MaxDelay + safetyCmd.age
          BY <5>1 DEF SwitchesAddUp, SelectedWithin
        <5> QED BY <1>0, <5>1, <5>2, PathAssumption, SafetyAssumption DEF Within
      <4> QED BY <4>1 DEF Within
    <3>2. Within(unselected', SafeOutput, MaxDelay + CommandStale)
      <4>1. SafeOutput \in Twists /\ MaxDelay + CommandStale \in Nat
        BY SafeOutputIsTyped, PathAssumption, SafetyAssumption DEF TypeOK
      <4> QED BY <1>0, <3>1, <4>1, WithinFalls
    <3> QED BY <2>1, <3>2, PathAssumption, SafetyAssumption DEF SafetyTick, Sent
  <2>2. CASE BaseTakes
    BY <2>2 DEF BaseTakes, NoTwist, Rest, Moves, Within
  <2>3. CASE safe' = safe
    <3>1. safe.msg \in Twists /\ MaxDelay + CommandStale + safe.age \in Nat
      BY PathAssumption, SafetyAssumption DEF TypeOK, Topics
    <3> QED BY <1>0, <2>3, <3>1, WithinFalls DEF SwitchesAddUp, SelectedWithin, Within, Moves
  <2> QED BY <2>1, <2>2, <2>3
          DEF ModesStep, OtherStep, OnSource, OnSetMode, ManagerTick, DeliverControl,
              SensorsReport, BaseFault, BaseReset, BaseForgets, pathVars
<1>5. base'.gate = "OPEN" /\ base'.age <= BaseTimeout =>
        Within(unselected', base'.cmd, 2 * MaxDelay + CommandStale + base'.age)
  <2>1. CASE BaseTakes
    <3>1. base'.cmd = safe.msg /\ base'.age = 0
      BY <2>1 DEF BaseTakes
    <3>2. /\ safe.msg \in Twists /\ safe.age \in Nat /\ safe.age <= MaxDelay
          /\ Within(unselected, safe.msg, MaxDelay + CommandStale + safe.age)
      BY DEF TypeOK, Topics, AgesAddUp, SwitchesAddUp, SelectedWithin, Within
    <3>3. Within(unselected', safe.msg, 2 * MaxDelay + CommandStale)
      BY <1>0, <3>2, WithinFalls, PathAssumption, SafetyAssumption
    <3> QED BY <3>1, <3>3, PathAssumption, SafetyAssumption
  <2>2. CASE BaseFault \/ BaseReset
    BY <2>2 DEF BaseFault, BaseReset, NoBaseCommand, TypeOK, Bases
  <2>3. CASE BaseForgets
    BY <2>3 DEF BaseForgets, NoBaseCommand, Rest, Moves, Within
  <2>4. CASE base' = base
    <3>1. base.cmd \in Twists /\ 2 * MaxDelay + CommandStale + base.age \in Nat
      BY PathAssumption, SafetyAssumption DEF TypeOK, Bases
    <3> QED BY <1>0, <2>4, <3>1, WithinFalls DEF SwitchesAddUp, SelectedWithin, Within
  <2> QED BY <2>1, <2>2, <2>3, <2>4
          DEF ModesStep, OtherStep, OnSource, OnSetMode, ManagerTick, DeliverControl,
              SensorsReport, SafetyTick, pathVars
<1> QED BY <1>0, <1>1, <1>2, <1>3, <1>4, <1>5 DEF SwitchesAddUp, SelectedWithin, Within

\* While time passes, the record and the stay at a holder grow together.
LEMMA SwitchesAddUpInTime ==
  ASSUME ModesTypeOK, ModesTypeOK', SwitchesAddUp, ModesElapse
  PROVE  SwitchesAddUp'
<1>0. /\ unselected \in [Sources -> Nat] /\ unselected' \in [Sources -> Nat]
      /\ \A s \in Sources : unselected'[s] <= unselected[s] + 1
      /\ mode' \in Sources => unselected'[mode'] = 0
      /\ mode' = mode
  <2>1. /\ unselected \in [Sources -> Nat] /\ unselected' \in [Sources -> Nat]
        /\ mode' = mode
    BY DEF ModesTypeOK, ModesElapse, Elapse, ManagerElapse
  <2>2. ASSUME NEW s \in Sources
        PROVE  unselected'[s] <= unselected[s] + 1 /\ (s = mode => unselected'[s] = 0)
    <3>1. unselected'[s] \in {0, Later(unselected[s], SwitchBound)}
      BY DEF ModesElapse
    <3>2. s = mode => unselected'[s] = 0
      BY DEF ModesElapse
    <3>3. unselected[s] \in Nat
      BY <2>1
    <3> QED BY <3>1, <3>2, <3>3, LaterSteps, HistoryBoundsAreNat
  <2> QED BY <2>1, <2>2
<1>1. ASSUME NEW s \in Sources, Moves(source'[s].msg)
      PROVE  source'[s].msg.from = s
  <2>1. source'[s].msg = Aged(source[s].msg) /\ source[s].msg \in Twists \cup BadTwists
    BY DEF ModesElapse, Elapse, ManagerElapse, ModesTypeOK, TypeOK, SourceStates
  <2> QED BY <1>1, <2>1, AgedKeeps DEF SwitchesAddUp, Moves
<1>2. /\ Moves(control'.msg) => control'.full
      /\ Within(unselected', control'.msg, control'.age)
  <2>1. control \in Topics /\ control' = LaterIn(control) /\ control' \in Topics
    BY DEF ModesElapse, Elapse, ModesTypeOK, TypeOK
  <2>2. control.age \in Nat /\ control'.age \in Nat
    BY <2>1 DEF Topics
  <2>3. Within(unselected, control.msg, 0 + control.age)
    BY <2>2 DEF SwitchesAddUp, SelectedWithin, Within
  <2>4. /\ Moves(control'.msg) => control'.full
        /\ Within(unselected', control'.msg, 0 + control'.age)
    BY <1>0, <2>1, <2>3, WithinGrowsInTopic DEF SwitchesAddUp
  <2> QED BY <2>2, <2>4
<1>3. ASSUME safetyCmd'.age <= CommandStale
      PROVE  Within(unselected', safetyCmd'.msg, MaxDelay + safetyCmd'.age)
  <2>1. /\ safetyCmd'.msg = Aged(safetyCmd.msg)
        /\ safetyCmd'.age = Later(safetyCmd.age, CommandStale)
        /\ safetyCmd.msg \in Twists /\ safetyCmd.age \in Nat
    BY DEF ModesElapse, Elapse, SafetyElapse, ModesTypeOK, TypeOK
  <2>2. safetyCmd.age <= CommandStale /\ safetyCmd'.age = safetyCmd.age + 1
    BY <1>3, <2>1, LaterSteps, SafetyAssumption
  <2>3. /\ Within(unselected, safetyCmd.msg, MaxDelay + safetyCmd.age)
        /\ MaxDelay + safetyCmd.age \in Nat
    BY <2>1, <2>2, PathAssumption DEF SwitchesAddUp, SelectedWithin, Within
  <2>4. Within(unselected', safetyCmd'.msg, (MaxDelay + safetyCmd.age) + 1)
    BY <1>0, <2>1, <2>3, WithinGrows
  <2>5. (MaxDelay + safetyCmd.age) + 1 = MaxDelay + safetyCmd'.age
    BY <2>1, <2>2, PathAssumption
  <2> QED BY <2>4, <2>5
<1>4. /\ Moves(safe'.msg) => safe'.full
      /\ Within(unselected', safe'.msg, MaxDelay + CommandStale + safe'.age)
  <2>1. safe \in Topics /\ safe' = LaterIn(safe) /\ MaxDelay + CommandStale \in Nat
    BY PathAssumption, SafetyAssumption DEF ModesElapse, Elapse, ModesTypeOK, TypeOK
  <2>2. Within(unselected, safe.msg, MaxDelay + CommandStale + safe.age)
    BY DEF SwitchesAddUp, SelectedWithin, Within
  <2> QED BY <1>0, <2>1, <2>2, WithinGrowsInTopic DEF SwitchesAddUp
<1>5. ASSUME base'.gate = "OPEN", base'.age <= BaseTimeout
      PROVE  Within(unselected', base'.cmd, 2 * MaxDelay + CommandStale + base'.age)
  <2>1. /\ base'.cmd = Aged(base.cmd) /\ base'.gate = base.gate
        /\ base'.age = Later(base.age, BaseTimeout)
        /\ base.cmd \in Twists /\ base.age \in Nat
    BY DEF ModesElapse, Elapse, BaseElapse, ModesTypeOK, TypeOK, Bases
  <2>2. base.age <= BaseTimeout /\ base'.age = base.age + 1
    BY <1>5, <2>1, LaterSteps, PathAssumption
  <2>3. /\ Within(unselected, base.cmd, 2 * MaxDelay + CommandStale + base.age)
        /\ 2 * MaxDelay + CommandStale + base.age \in Nat
    BY <1>5, <2>1, <2>2, PathAssumption, SafetyAssumption
       DEF SwitchesAddUp, SelectedWithin, Within
  <2>4. Within(unselected', base'.cmd, (2 * MaxDelay + CommandStale + base.age) + 1)
    BY <1>0, <2>1, <2>3, WithinGrows
  <2>5. (2 * MaxDelay + CommandStale + base.age) + 1
          = 2 * MaxDelay + CommandStale + base'.age
    BY <2>1, <2>2, PathAssumption, SafetyAssumption
  <2> QED BY <2>4, <2>5
<1> QED BY <1>0, <1>1, <1>2, <1>3, <1>4, <1>5 DEF SwitchesAddUp, SelectedWithin, Within

\* A fresh command of the mode came after the last setMode: kept by every step.
LEMMA ReceivedSinceChosenStays ==
  ASSUME ModesTypeOK, ReceivedSinceChosen, [ModesStep \/ ModesElapse]_modesVars
  PROVE  ReceivedSinceChosen'
<1> USE DEF ModesTypeOK
<1>1. CASE ModesStep
  <2>1. CASE OnSetMode
    <3>1. PICK m \in Modes : SetMode(m)
      BY <2>1 DEF OnSetMode
    <3>2. ASSUME m \in Sources PROVE source'[m].have = FALSE
      BY <3>1, <3>2 DEF SetMode, TypeOK, SourceStates
    <3>3. mode' = m
      BY <3>1 DEF SetMode
    <3> QED BY <3>2, <3>3 DEF ReceivedSinceChosen, Fresh
  <2>2. CASE OnSource /\ chosen' = chosen
    <3>1. PICK s \in Sources, delay \in 0 .. SourceDelay :
          \E m \in {Rest} \cup [v : Velocities \cup {NonFinite}, from : {s}, age : {delay}] :
            Update(s, m)
      BY <2>2 DEF OnSource
    <3>2. /\ mode' = mode /\ source'[s].age = 0
          /\ \A t \in Sources \ {s} : source'[t] = source[t]
      BY <3>1 DEF Update, TypeOK
    <3> QED BY <2>2, <3>2 DEF ReceivedSinceChosen, Fresh
  <2>3. CASE UNCHANGED <<mode, source, chosen>>
    BY <2>3 DEF ReceivedSinceChosen, Fresh
  <2> QED BY <1>1, <2>1, <2>2, <2>3
          DEF ModesStep, OtherStep, ManagerTick, DeliverControl, SensorsReport, SafetyTick,
              BaseTakes, BaseFault, BaseReset, BaseForgets, managerVars
<1>2. CASE ModesElapse
  <2>1. mode' = mode /\ chosen' = Later(chosen, SourceTimeout) /\ chosen \in Nat
    BY <1>2 DEF ModesElapse, Elapse, ManagerElapse
  <2>2. ASSUME mode' \in Sources, Fresh(mode)' PROVE source'[mode'].age <= chosen'
    <3>1. /\ source[mode].have /\ source[mode].age \in Nat
          /\ source'[mode].age = Later(source[mode].age, SourceTimeout)
          /\ source'[mode].age <= SourceTimeout
      BY <1>2, <2>1, <2>2 DEF ModesElapse, Elapse, ManagerElapse, TypeOK, SourceStates, Fresh
    <3>2. source[mode].age <= SourceTimeout /\ source'[mode].age = source[mode].age + 1
      BY <3>1, LaterSteps, ManagerAssumption
    <3>3. source[mode].age <= chosen
      BY <2>1, <2>2, <3>1, <3>2 DEF ReceivedSinceChosen, Fresh
    <3> QED BY <2>1, <3>1, <3>2, <3>3, ManagerAssumption DEF Later
  <2> QED BY <2>2 DEF ReceivedSinceChosen
<1>3. CASE UNCHANGED modesVars
  BY <1>3 DEF modesVars, vars, managerVars, ReceivedSinceChosen, Fresh
<1> QED BY <1>1, <1>2, <1>3

\* The record of modes keeps its type and its invariants.
LEMMA ModesInductive ==
  ModesSpec => [](ModesTypeOK /\ AgesAddUp /\ SwitchesAddUp /\ ReceivedSinceChosen)
<1> DEFINE Inv == ModesTypeOK /\ AgesAddUp /\ SwitchesAddUp /\ ReceivedSinceChosen
<1>1. ModesInit => Inv
  <2> SUFFICES ASSUME ModesInit PROVE Inv
    OBVIOUS
  <2>1. TypeOK /\ AgesAddUp /\ ModesTypeOK
    BY TypeAtFirst, AgesAddUpAtFirst DEF ModesInit, ModesTypeOK
  <2>2. SwitchesAddUp
    BY DEF ModesInit, Init, ManagerInit, SafetyInit, NoMessage, NoTwist, NoBaseCommand, Rest,
           SwitchesAddUp, SelectedWithin, Moves
  <2>3. ReceivedSinceChosen
    BY DEF ModesInit, Init, ManagerInit, NoMessage, ReceivedSinceChosen, Fresh
  <2> QED BY <2>1, <2>2, <2>3
<1>2. Inv /\ [ModesStep \/ ModesElapse]_modesVars => Inv'
  <2> SUFFICES ASSUME Inv, [ModesStep \/ ModesElapse]_modesVars PROVE Inv'
    OBVIOUS
  <2>1. [Next]_vars
    BY DEF ModesStep, ModesElapse, Next, Step, modesVars
  <2>2. TypeOK' /\ AgesAddUp'
    BY <2>1, TypeStays, AgesAddUpStays DEF ModesTypeOK
  <2>3. unselected' \in [Sources -> Nat] /\ chosen' \in Nat
    <3>1. \A s \in Sources : unselected[s] \in Nat /\ Later(unselected[s], SwitchBound) \in Nat
      BY LaterIsNat, HistoryBoundsAreNat DEF ModesTypeOK
    <3>2. chosen \in Nat /\ Later(chosen, SourceTimeout) \in Nat
      BY LaterIsNat, ManagerAssumption DEF ModesTypeOK
    <3> QED BY <3>1, <3>2 DEF ModesStep, ModesElapse, modesVars, ModesTypeOK
  <2>4. ModesTypeOK'
    BY <2>2, <2>3 DEF ModesTypeOK
  <2>5. SwitchesAddUp'
    <3>1. CASE UNCHANGED modesVars
      BY <3>1 DEF modesVars, vars, managerVars, safetyVars, pathVars,
                  SwitchesAddUp, SelectedWithin, Moves
    <3> QED BY <2>4, <3>1, SwitchesAddUpInStep, SwitchesAddUpInTime
  <2>6. ReceivedSinceChosen'
    BY ReceivedSinceChosenStays
  <2> QED BY <2>2, <2>4, <2>5, <2>6
<1> QED BY <1>1, <1>2, PTL DEF ModesSpec

\* Whatever the timeouts and delays, a source that is no longer the mode
\* (setMode) stops driving the robot once what was selected is used up.
THEOREM DeselectedSourceStops == ModesSpec => []ModeHonoured
<1>1. ModesTypeOK /\ SwitchesAddUp => ModeHonoured
  <2> SUFFICES ASSUME ModesTypeOK, SwitchesAddUp, Driving
               PROVE  unselected[Written.from] <= SwitchBound
    BY DEF ModeHonoured
  <2>1. /\ base.gate = "OPEN" /\ base.age <= BaseTimeout /\ Moves(base.cmd)
        /\ Written = base.cmd
    BY DEF Driving, Written, Rest, Moves
  <2>2. /\ base.cmd.from \in Sources /\ base.age \in Nat
        /\ unselected[base.cmd.from] \in Nat
        /\ unselected[base.cmd.from] <= 2 * MaxDelay + CommandStale + base.age
    BY <2>1 DEF SwitchesAddUp, SelectedWithin, ModesTypeOK, TypeOK, Bases
  <2> QED BY <2>1, <2>2, PathAssumption, SafetyAssumption DEF SwitchBound
<1> QED BY <1>1, ModesInductive, PTL

\* Every setMode asks for a fresh source command (setMode): what the manager
\* selects was received after the last one.
THEOREM SwitchNeedsFreshCommand == ModesSpec => []FreshAfterSwitch
<1>1. ModesTypeOK /\ AgesAddUp /\ ReceivedSinceChosen => FreshAfterSwitch
  <2> SUFFICES ASSUME ModesTypeOK, AgesAddUp, ReceivedSinceChosen, Moves(Selected)
               PROVE  Selected.age <= chosen + SourceDelay
    BY DEF FreshAfterSwitch
  <2>1. mode \in Sources /\ Fresh(mode) /\ Selected = source[mode].msg
    BY DEF Selected, Moves, Rest
  <2>2. /\ source[mode].age \in Nat /\ source[mode].msg.age \in Int
        /\ source[mode].msg.age <= SourceDelay + source[mode].age
    BY <2>1, TwistAssumption
       DEF AgesAddUp, Fresh, ModesTypeOK, TypeOK, SourceStates, Twists, BadTwists
  <2>3. source[mode].age <= chosen /\ chosen \in Nat
    BY <2>1 DEF ReceivedSinceChosen, ModesTypeOK
  <2> QED BY <2>1, <2>2, <2>3, BoundsAreNat
<1> QED BY <1>1, ModesInductive, PTL
=============================================================================
