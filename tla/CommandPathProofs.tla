--------------------------- MODULE CommandPathProofs ---------------------------
(***************************************************************************)
(* Type correctness of the command path, and the bound on the age of what  *)
(* it writes, for every value of the timeouts and delays.                  *)
(***************************************************************************)
EXTENDS CommandPath, TLAPS

\* Ages stay natural numbers.
LEMMA LaterIsNat ==
  ASSUME NEW a \in Nat, NEW limit \in Nat
  PROVE  Later(a, limit) \in Nat
  BY DEF Later

\* Messages keep their type while they age.
LEMMA AgedIsTyped ==
  /\ \A m \in Twists : Aged(m) \in Twists
  /\ \A m \in BadTwists : Aged(m) \in BadTwists
  BY TwistAssumption DEF Aged, Twists, BadTwists, Moves, Finite

\* Topics keep their type while time passes.
LEMMA LaterInIsTyped ==
  ASSUME NEW topic \in Topics PROVE LaterIn(topic) \in Topics
<1>1. topic.msg \in Twists /\ topic.age \in Nat /\ topic.full \in BOOLEAN
  BY DEF Topics
<1>2. Aged(topic.msg) \in Twists /\ topic.age + 1 \in Nat
  BY <1>1, AgedIsTyped
<1> QED BY <1>1, <1>2 DEF LaterIn, Topics

\* The message of all zeroes is one.
LEMMA RestIsTyped == Rest \in Twists
  BY TwistAssumption DEF Rest, Twists

\* A filtered message is finite (finite in tick).
LEMMA SelectedIsTyped ==
  ASSUME source \in [Sources -> SourceStates] PROVE Selected \in Twists
  BY RestIsTyped DEF Selected, SourceStates, BadTwists, Finite

\* Slowing down keeps a velocity an integer (tick).
LEMMA SlowedIsInt ==
  ASSUME NEW v \in Int PROVE Slowed(v) \in Int
<1> DEFINE nearest == CHOOSE x \in Distances : Nearest(x)
<1>1. CASE v > 0 /\ \E x \in Distances : Nearest(x) /\ x < SlowDistance
  <2>1. nearest \in Int
    BY <1>1, SafetyAssumption
  <2> DEFINE gap == SlowDistance - HardStop
             scaled == v * (nearest - HardStop)
  <2>2. gap \in Int /\ gap > 0 /\ nearest - HardStop \in Int
    BY <2>1, SafetyAssumption
  <2> HIDE DEF nearest
  <2>3. scaled \in Int
    BY <2>1, <2>2, SafetyAssumption
  <2> HIDE DEF gap, scaled
  <2>4. scaled \div gap \in Int
    BY <2>2, <2>3
  <2>5. Slowed(v) = scaled \div gap
    BY <1>1 DEF Slowed, scaled, gap, nearest
  <2> QED BY <2>4, <2>5
<1>2. CASE ~(v > 0 /\ \E x \in Distances : Nearest(x) /\ x < SlowDistance)
  BY <1>2 DEF Slowed
<1> QED BY <1>1, <1>2

\* What the safety node passes on is a message (tick).
LEMMA SafeOutputIsTyped ==
  ASSUME safetyCmd.msg \in Twists PROVE SafeOutput \in Twists
  BY RestIsTyped, SlowedIsInt DEF SafeOutput, Twists

\* The first values have their types.
LEMMA TypeAtFirst == Init => TypeOK
<1> USE TwistAssumption, ManagerAssumption, SafetyAssumption, PathAssumption
<1> SUFFICES ASSUME Init PROVE TypeOK
  OBVIOUS
<1> USE RestIsTyped DEF Init
<1>1. mode \in Modes /\ source \in [Sources -> SourceStates]
  BY DEF ManagerInit, SourceStates, NoMessage
<1>2. /\ safetyCmd \in [msg : Twists, age : Nat, have : BOOLEAN]
      /\ safetyEstop \in BOOLEAN
      /\ ranges \in [Sensors -> [value : Readings, age : Nat, have : BOOLEAN]]
      /\ laser \in [front : SUBSET Distances, age : Nat, have : BOOLEAN]
  <2>1. CommandStale + 1 \in Nat /\ UltrasonicStale + 1 \in Nat /\ LaserStale + 1 \in Nat
    OBVIOUS
  <2>2. ranges \in [Sensors -> [value : Readings, age : Nat, have : BOOLEAN]]
    BY <2>1 DEF SafetyInit, Readings
  <2>3. laser \in [front : SUBSET Distances, age : Nat, have : BOOLEAN]
    BY <2>1 DEF SafetyInit
  <2> QED BY <2>1, <2>2, <2>3 DEF SafetyInit
<1>3. control \in Topics /\ safe \in Topics /\ base \in Bases
  BY DEF NoTwist, Topics, NoBaseCommand, Bases, Gates
<1> QED BY <1>1, <1>2, <1>3 DEF TypeOK

\* Every step keeps the types.
LEMMA TypeStays == TypeOK /\ [Next]_vars => TypeOK'
<1> USE TwistAssumption, ManagerAssumption, SafetyAssumption, PathAssumption
<1> SUFFICES ASSUME TypeOK, [Next]_vars PROVE TypeOK'
  OBVIOUS
<1>1. CASE OnSource
  <2>1. PICK s \in Sources, delay \in 0 .. SourceDelay :
        \E m \in {Rest} \cup [v : Velocities \cup {NonFinite}, from : {s}, age : {delay}] :
          /\ Update(s, m) /\ UNCHANGED <<safetyVars, pathVars>>
    BY <1>1 DEF OnSource
  <2>2. PICK m \in {Rest} \cup [v : Velocities \cup {NonFinite}, from : {s}, age : {delay}] :
          /\ Update(s, m) /\ UNCHANGED <<safetyVars, pathVars>>
    BY <2>1
  <2>3. m \in Twists \cup BadTwists
    <3>0. delay \in 0 .. Horizon /\ Velocities \subseteq Int
      OBVIOUS
    <3>1. CASE m = Rest
      BY <3>1, RestIsTyped
    <3>2. CASE m \in [v : Velocities, from : {s}, age : {delay}]
      BY <3>0, <3>2 DEF Twists
    <3>3. CASE m \in [v : {NonFinite}, from : {s}, age : {delay}]
      BY <3>0, <3>3 DEF BadTwists
    <3> QED BY <3>1, <3>2, <3>3
  <2> QED BY <2>2, <2>3 DEF TypeOK, Update, SourceStates, safetyVars, pathVars
<1>2. CASE OnSetMode
  <2>1. PICK m \in Modes : SetMode(m) /\ UNCHANGED <<safetyVars, pathVars>>
    BY <1>2 DEF OnSetMode
  <2>2. ASSUME NEW s \in Sources
        PROVE  [source[s] EXCEPT !.have = source[s].have /\ s # m] \in SourceStates
    <3>1. (source[s].have /\ s # m) \in BOOLEAN
      OBVIOUS
    <3> QED BY <3>1 DEF TypeOK, SourceStates
  <2>3. source' \in [Sources -> SourceStates]
    BY <2>1, <2>2 DEF SetMode
  <2> QED BY <2>1, <2>3 DEF SetMode, TypeOK, safetyVars, pathVars
<1>3. CASE ManagerTick
  BY <1>3, SelectedIsTyped
     DEF ManagerTick, TypeOK, Sent, Topics, managerVars, safetyVars
<1>4. CASE DeliverControl
  BY <1>4, RestIsTyped
     DEF DeliverControl, OnCommand, TypeOK, NoTwist, Topics, managerVars
<1>5. CASE SensorsReport
  <2> USE DEF TypeOK, managerVars, pathVars
  <2>1. CASE \E active \in BOOLEAN : OnSafetyEstop(active)
    BY <1>5, <2>1 DEF SensorsReport, OnSafetyEstop
  <2>2. CASE \E i \in Sensors, reading \in Readings : OnRange(i, reading)
    BY <1>5, <2>2 DEF SensorsReport, OnRange
  <2>3. CASE \E front \in SUBSET Distances : OnScan(front)
    BY <1>5, <2>3 DEF SensorsReport, OnScan
  <2> QED BY <1>5, <2>1, <2>2, <2>3 DEF SensorsReport
<1>6. CASE SafetyTick
  BY <1>6, SafeOutputIsTyped
     DEF SafetyTick, TypeOK, Sent, Topics, managerVars, safetyVars
<1>7. CASE BaseTakes
  BY <1>7, RestIsTyped
     DEF BaseTakes, TypeOK, NoTwist, Topics, Bases, Gates, managerVars, safetyVars
<1>8. CASE BaseFault
  BY <1>8, RestIsTyped
     DEF BaseFault, TypeOK, NoBaseCommand, Bases, Gates, managerVars, safetyVars
<1>9. CASE BaseReset
  BY <1>9 DEF BaseReset, TypeOK, Bases, Gates, managerVars, safetyVars
<1>10. CASE BaseForgets
  BY <1>10, RestIsTyped
     DEF BaseForgets, TypeOK, NoBaseCommand, Bases, Gates, managerVars, safetyVars
<1>11. CASE Elapse
  <2> USE <1>11, LaterIsNat, AgedIsTyped DEF TypeOK, Elapse
  <2>1. mode' \in Modes /\ source' \in [Sources -> SourceStates]
    <3>1. ASSUME NEW s \in Sources
          PROVE  [source[s] EXCEPT !.msg = Aged(source[s].msg),
                                   !.age = Later(source[s].age, SourceTimeout)]
                   \in SourceStates
      BY DEF SourceStates
    <3> QED BY <3>1 DEF ManagerElapse
  <2>2. /\ safetyCmd' \in [msg : Twists, age : Nat, have : BOOLEAN]
        /\ safetyEstop' \in BOOLEAN
        /\ ranges' \in [Sensors -> [value : Readings, age : Nat, have : BOOLEAN]]
        /\ laser' \in [front : SUBSET Distances, age : Nat, have : BOOLEAN]
    <3>1. safetyCmd' \in [msg : Twists, age : Nat, have : BOOLEAN]
      BY DEF SafetyElapse
    <3>2. safetyEstop' \in BOOLEAN
      BY DEF SafetyElapse
    <3>3. ranges' \in [Sensors -> [value : Readings, age : Nat, have : BOOLEAN]]
      BY DEF SafetyElapse
    <3>4. laser' \in [front : SUBSET Distances, age : Nat, have : BOOLEAN]
      BY DEF SafetyElapse
    <3> QED BY ONLY <3>1, <3>2, <3>3, <3>4
  <2>3. control' \in Topics /\ safe' \in Topics
    BY LaterInIsTyped
  <2>4. base' \in Bases
    BY DEF BaseElapse, Bases
  <2> QED BY <2>1, <2>2, <2>3, <2>4
<1>12. CASE UNCHANGED vars
  BY <1>12 DEF vars, managerVars, safetyVars, pathVars, TypeOK
<1> QED BY <1>1, <1>2, <1>3, <1>4, <1>5, <1>6, <1>7, <1>8, <1>9, <1>10, <1>11, <1>12
        DEF Next, Step, OtherStep

\* Every variable keeps to its type; in particular no command with a NaN
\* leaves the velocity manager (finite).
THEOREM PathTypeCorrect == Spec => []TypeOK
  BY TypeAtFirst, TypeStays, PTL DEF Spec

-----------------------------------------------------------------------------
\* A command ages by at most one unit when its holder does, and keeps within
\* the bound of that holder.
LEMMA AgingKeepsBound ==
  ASSUME NEW m \in Twists \cup BadTwists, NEW a \in Nat, NEW limit \in Nat, NEW d \in Nat,
         a <= limit => m.age <= d + a,
         Later(a, limit) <= limit
  PROVE  Aged(m).age <= d + Later(a, limit)
<1>1. m.age \in Int
  BY TwistAssumption DEF Twists, BadTwists
<1>2. Aged(m).age \in {m.age, m.age + 1}
  <2>1. CASE Aged(m) = m
    BY <2>1
  <2>2. CASE Aged(m) = [m EXCEPT !.age = m.age + 1]
    BY <2>2 DEF Twists, BadTwists
  <2> QED BY <2>1, <2>2 DEF Aged
<1>3. a <= limit /\ Later(a, limit) = a + 1
  BY DEF Later
<1> QED BY <1>1, <1>2, <1>3

\* The same of a topic, whose messages are taken within MaxDelay.
LEMMA AgingInTopic ==
  ASSUME NEW topic \in Topics, NEW d \in Nat,
         topic.age <= MaxDelay, topic.full => topic.age < MaxDelay,
         topic.msg.age <= d + topic.age
  PROVE  /\ LaterIn(topic).age <= MaxDelay
         /\ LaterIn(topic).msg.age <= d + LaterIn(topic).age
<1>1. CASE ~topic.full
  BY <1>1 DEF LaterIn
<1>2. CASE topic.full
  <2>1. topic.msg \in Twists /\ topic.age \in Nat
    BY DEF Topics
  <2>2. LaterIn(topic).age = topic.age + 1 /\ LaterIn(topic).msg = Aged(topic.msg)
    BY <1>2 DEF LaterIn, Topics
  <2>3. Later(topic.age, MaxDelay) = topic.age + 1
    BY <2>1, PathAssumption DEF Later
  <2>4. Later(topic.age, MaxDelay) <= MaxDelay
    BY <1>2, <2>1, <2>3, PathAssumption
  <2>5. Aged(topic.msg).age <= d + Later(topic.age, MaxDelay)
    BY <2>1, <2>4, AgingKeepsBound, PathAssumption
  <2> QED BY <1>2, <2>1, <2>2, <2>3, <2>5, PathAssumption
<1> QED BY <1>1, <1>2

\* The ages at which a command may leave each holder are natural numbers.
LEMMA BoundsAreNat ==
  /\ SourceDelay \in Nat /\ AgeAtControl \in Nat /\ AgeAtSafety \in Nat
  /\ AgeAtSafe \in Nat /\ AgeAtBase \in Nat
  BY TwistAssumption, ManagerAssumption, SafetyAssumption, PathAssumption
  DEF AgeAtControl, AgeAtSafety, AgeAtSafe, AgeAtBase

\* What the velocity manager selects is as young as its timeout says (tick).
LEMMA SelectedIsYoung ==
  ASSUME TypeOK, AgesAddUp PROVE Selected.age <= AgeAtControl
<1>1. CASE mode \in Sources /\ Fresh(mode) /\ Finite(source[mode].msg)
  <2>1. /\ source[mode].age \in Nat /\ source[mode].age <= SourceTimeout
        /\ source[mode].msg.age <= SourceDelay + source[mode].age
    BY <1>1 DEF TypeOK, SourceStates, Fresh, AgesAddUp
  <2>2. source[mode].msg.age \in Int
    BY <1>1, TwistAssumption DEF TypeOK, SourceStates, Twists, BadTwists
  <2> QED BY <1>1, <2>1, <2>2, ManagerAssumption, BoundsAreNat DEF Selected, AgeAtControl
<1>2. CASE ~(mode \in Sources /\ Fresh(mode) /\ Finite(source[mode].msg))
  BY <1>2, BoundsAreNat DEF Selected, Rest
<1> QED BY <1>1, <1>2

\* What the safety node passes on is as young as its timeout says (tick).
LEMMA SafeOutputIsYoung ==
  ASSUME TypeOK, AgesAddUp PROVE SafeOutput.age <= AgeAtSafe
<1>1. CASE Healthy
  <2>1. /\ safetyCmd.age \in Nat /\ safetyCmd.age <= CommandStale
        /\ safetyCmd.msg.age <= AgeAtSafety + safetyCmd.age
    BY <1>1 DEF TypeOK, Healthy, CommandValid, AgesAddUp
  <2>2. safetyCmd.msg \in Twists /\ safetyCmd.msg.age \in Int
    BY TwistAssumption DEF TypeOK, Twists
  <2>3. SafeOutput.age = safetyCmd.msg.age
    BY <1>1, <2>2 DEF SafeOutput, Twists
  <2> QED BY <2>1, <2>2, <2>3, SafetyAssumption, BoundsAreNat DEF AgeAtSafe
<1>2. CASE ~Healthy
  BY <1>2, BoundsAreNat DEF SafeOutput, Rest
<1> QED BY <1>1, <1>2

\* No holder has a command yet.
LEMMA AgesAddUpAtFirst == Init => AgesAddUp
<1> SUFFICES ASSUME Init PROVE AgesAddUp
  OBVIOUS
<1> USE BoundsAreNat, ManagerAssumption, SafetyAssumption, PathAssumption DEF Init, Rest
<1>1. \A s \in Sources : source[s].age <= SourceTimeout =>
        source[s].msg.age <= SourceDelay + source[s].age
  BY DEF ManagerInit, NoMessage
<1>2. safetyCmd.age <= CommandStale => safetyCmd.msg.age <= AgeAtSafety + safetyCmd.age
  BY DEF SafetyInit
<1>3. /\ control.age <= MaxDelay /\ control.msg.age <= AgeAtControl + control.age
      /\ safe.age <= MaxDelay /\ safe.msg.age <= AgeAtSafe + safe.age
  BY DEF NoTwist
<1>4. ~(base.age <= BaseTimeout)
  BY DEF NoBaseCommand
<1> QED BY <1>1, <1>2, <1>3, <1>4 DEF AgesAddUp

\* Every holder lets a command go in time, and the next one takes it up with
\* the age that it then has.
LEMMA AgesAddUpStays ==
  ASSUME TypeOK, AgesAddUp, [Next]_vars PROVE AgesAddUp'
<1> USE BoundsAreNat
<1>1. CASE OnSource
  <2>1. PICK s \in Sources, delay \in 0 .. SourceDelay :
        \E m \in {Rest} \cup [v : Velocities \cup {NonFinite}, from : {s}, age : {delay}] :
          /\ Update(s, m) /\ UNCHANGED <<safetyVars, pathVars>>
    BY <1>1 DEF OnSource
  <2>2. PICK m \in {Rest} \cup [v : Velocities \cup {NonFinite}, from : {s}, age : {delay}] :
          /\ Update(s, m) /\ UNCHANGED <<safetyVars, pathVars>>
    BY <2>1
  <2>3. m.age <= SourceDelay
    <3>1. CASE m = Rest
      BY <3>1 DEF Rest
    <3>2. CASE m \in [v : Velocities \cup {NonFinite}, from : {s}, age : {delay}]
      BY <3>2
    <3> QED BY <3>1, <3>2
  <2>4. ASSUME NEW t \in Sources, source'[t].age <= SourceTimeout
        PROVE  source'[t].msg.age <= SourceDelay + source'[t].age
    <3>1. CASE t = s
      BY <2>2, <2>3, <3>1 DEF Update, TypeOK
    <3>2. CASE t # s
      BY <2>2, <2>4, <3>2 DEF Update, TypeOK, AgesAddUp
    <3> QED BY <3>1, <3>2
  <2> QED BY <2>2, <2>4 DEF AgesAddUp, safetyVars, pathVars
<1>2. CASE OnSetMode
  <2>1. PICK m \in Modes : SetMode(m) /\ UNCHANGED <<safetyVars, pathVars>>
    BY <1>2 DEF OnSetMode
  <2>2. ASSUME NEW t \in Sources
        PROVE  source'[t].age = source[t].age /\ source'[t].msg = source[t].msg
    BY <2>1 DEF SetMode, TypeOK, SourceStates
  <2> QED BY <2>1, <2>2 DEF AgesAddUp, safetyVars, pathVars
<1>3. CASE ManagerTick
  <2>1. Selected.age \in Int
    BY SelectedIsTyped DEF TypeOK, Twists
  <2> QED BY <1>3, <2>1, SelectedIsYoung, PathAssumption
          DEF ManagerTick, Sent, AgesAddUp, managerVars, safetyVars
<1>4. CASE DeliverControl
  <2>1. /\ control.age \in Nat /\ control.age <= MaxDelay /\ control.msg.age \in Int
        /\ control.msg.age <= AgeAtControl + control.age
    BY DEF TypeOK, Topics, Twists, AgesAddUp
  <2>2. safetyCmd'.age = 0 /\ safetyCmd'.msg = control.msg
    BY <1>4 DEF DeliverControl, OnCommand
  <2>3. safetyCmd'.msg.age <= AgeAtSafety + safetyCmd'.age
    BY <2>1, <2>2, PathAssumption DEF AgeAtSafety
  <2>4. control'.age <= MaxDelay /\ control'.msg.age <= AgeAtControl + control'.age
    BY <1>4, PathAssumption DEF DeliverControl, NoTwist, Rest
  <2> QED BY <1>4, <2>3, <2>4 DEF DeliverControl, AgesAddUp, managerVars
<1>5. CASE SensorsReport
  <2>1. safetyCmd' = safetyCmd
    BY <1>5 DEF SensorsReport, OnSafetyEstop, OnRange, OnScan
  <2> QED BY <1>5, <2>1 DEF SensorsReport, AgesAddUp, managerVars, pathVars
<1>6. CASE SafetyTick
  <2>1. SafeOutput.age \in Int
    BY SafeOutputIsTyped, TwistAssumption DEF TypeOK, Twists
  <2> QED BY <1>6, <2>1, SafeOutputIsYoung, PathAssumption
          DEF SafetyTick, Sent, AgesAddUp, managerVars, safetyVars
<1>7. CASE BaseTakes
  <2>1. /\ safe.age \in Nat /\ safe.age <= MaxDelay /\ safe.msg.age \in Int
        /\ safe.msg.age <= AgeAtSafe + safe.age
    BY DEF TypeOK, Topics, Twists, AgesAddUp
  <2>2. base'.age = 0 /\ base'.cmd = safe.msg
    BY <1>7 DEF BaseTakes
  <2>3. base'.cmd.age <= AgeAtBase + base'.age
    BY <2>1, <2>2, PathAssumption DEF AgeAtBase
  <2>4. safe'.age <= MaxDelay /\ safe'.msg.age <= AgeAtSafe + safe'.age
    BY <1>7, PathAssumption DEF BaseTakes, NoTwist, Rest
  <2> QED BY <1>7, <2>3, <2>4 DEF BaseTakes, AgesAddUp, managerVars, safetyVars
<1>8. CASE BaseFault
  <2>1. base'.gate = "LATCHED"
    BY <1>8 DEF BaseFault, TypeOK, Bases, NoBaseCommand
  <2> QED BY <1>8, <2>1 DEF BaseFault, AgesAddUp, managerVars, safetyVars
<1>9. CASE BaseReset
  <2>1. base'.gate = "REVIVED"
    BY <1>9 DEF BaseReset, TypeOK, Bases
  <2> QED BY <1>9, <2>1 DEF BaseReset, AgesAddUp, managerVars, safetyVars
<1>10. CASE BaseForgets
  <2>1. ~(base'.age <= BaseTimeout)
    BY <1>10, PathAssumption DEF BaseForgets, NoBaseCommand
  <2> QED BY <1>10, <2>1 DEF BaseForgets, AgesAddUp, managerVars, safetyVars
<1>11. CASE Elapse
  <2>1. ASSUME NEW s \in Sources, source'[s].age <= SourceTimeout
        PROVE  source'[s].msg.age <= SourceDelay + source'[s].age
    <3>1. /\ source'[s].msg = Aged(source[s].msg)
          /\ source'[s].age = Later(source[s].age, SourceTimeout)
      BY <1>11 DEF Elapse, ManagerElapse, TypeOK, SourceStates
    <3>2. source[s].msg \in Twists \cup BadTwists /\ source[s].age \in Nat
      BY DEF TypeOK, SourceStates
    <3> QED BY <2>1, <3>1, <3>2, AgingKeepsBound, ManagerAssumption DEF AgesAddUp
  <2>2. /\ control'.age <= MaxDelay /\ control'.msg.age <= AgeAtControl + control'.age
        /\ safe'.age <= MaxDelay /\ safe'.msg.age <= AgeAtSafe + safe'.age
    BY <1>11, AgingInTopic DEF Elapse, TypeOK, AgesAddUp
  <2>3. ASSUME safetyCmd'.age <= CommandStale
        PROVE  safetyCmd'.msg.age <= AgeAtSafety + safetyCmd'.age
    <3>1. /\ safetyCmd'.msg = Aged(safetyCmd.msg)
          /\ safetyCmd'.age = Later(safetyCmd.age, CommandStale)
      BY <1>11 DEF Elapse, SafetyElapse, TypeOK
    <3>2. safetyCmd.msg \in Twists /\ safetyCmd.age \in Nat
      BY DEF TypeOK
    <3> QED BY <2>3, <3>1, <3>2, AgingKeepsBound, SafetyAssumption DEF AgesAddUp
  <2>4. ASSUME base'.gate = "OPEN", base'.age <= BaseTimeout
        PROVE  base'.cmd.age <= AgeAtBase + base'.age
    <3>1. /\ base'.cmd = Aged(base.cmd) /\ base'.gate = base.gate
          /\ base'.age = Later(base.age, BaseTimeout)
      BY <1>11 DEF Elapse, BaseElapse, TypeOK, Bases
    <3>2. base.cmd \in Twists /\ base.age \in Nat
      BY DEF TypeOK, Bases
    <3> QED BY <2>4, <3>1, <3>2, AgingKeepsBound, PathAssumption DEF AgesAddUp
  <2> QED BY <2>1, <2>2, <2>3, <2>4 DEF AgesAddUp
<1>12. CASE UNCHANGED vars
  BY <1>12 DEF vars, managerVars, safetyVars, pathVars, AgesAddUp
<1> QED BY <1>1, <1>2, <1>3, <1>4, <1>5, <1>6, <1>7, <1>8, <1>9, <1>10, <1>11, <1>12
        DEF Next, Step, OtherStep

\* The bound at the base, in full, is the bound of CommandAge.
LEMMA BaseIsYoung == TypeOK /\ AgesAddUp => CommandAge
<1> SUFFICES ASSUME TypeOK, AgesAddUp, Driving PROVE Written.age <= AgeBound
  BY DEF CommandAge
<1>1. base.gate = "OPEN" /\ base.age <= BaseTimeout /\ Written = base.cmd
  BY DEF Driving, Written, Rest, Moves
<1>2. base.cmd.age <= AgeAtBase + base.age /\ base.age \in Nat /\ base.cmd.age \in Int
  BY <1>1 DEF AgesAddUp, TypeOK, Bases, Twists
<1>3. AgeBound = AgeAtBase + BaseTimeout
  BY TwistAssumption, ManagerAssumption, SafetyAssumption, PathAssumption
  DEF AgeBound, AgeAtBase, AgeAtSafe, AgeAtSafety, AgeAtControl
<1> QED BY <1>1, <1>2, <1>3, BoundsAreNat, PathAssumption

\* Whatever the timeouts and delays, no velocity is written that a source
\* asked for longer ago than they take together (fresh, cmd_ok and
\* commandHealthy).
THEOREM CommandAgeBounded == Spec => []CommandAge
<1>1. Spec => []TypeOK
  BY PathTypeCorrect
<1>2. Init => AgesAddUp
  BY AgesAddUpAtFirst
<1>3. TypeOK /\ AgesAddUp /\ [Next]_vars => AgesAddUp'
  BY AgesAddUpStays
<1>4. TypeOK /\ AgesAddUp => CommandAge
  BY BaseIsYoung
<1> QED BY <1>1, <1>2, <1>3, <1>4, PTL DEF Spec
=============================================================================
