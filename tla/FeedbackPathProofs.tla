------------------------- MODULE FeedbackPathProofs -------------------------
(***************************************************************************)
(* Proofs about FeedbackPath, for every number of sensors and kinds of     *)
(* frames and every period, delay, timeout and bound.                      *)
(***************************************************************************)
EXTENDS FeedbackPath, TLAPS

LEMMA Limits ==
  /\ TimerPeriod \in Nat /\ SensorDelay \in Nat /\ UltrasonicStale \in Nat /\ Horizon \in Nat
  /\ HistoryDepth \in Nat \ {0} /\ MaxBurst \in Nat
  /\ "ultrasonic" \in Kinds /\ 0 \in RawReadings
BY SafetyAssumption, TwistAssumption, FeedbackAssumption

USE Limits

LEMMA ReadingType == ASSUME NEW raw \in RawReadings PROVE Reading(raw) \in Readings
BY FeedbackAssumption DEF Reading, Readings

LEMMA OlderType ==
  ASSUME NEW age \in 0 .. Horizon
  PROVE  Older(age) \in 0 .. Horizon /\ Older(age) <= age + 1
BY DEF Older

LEMMA ForgottenType ==
  ASSUME NEW frame \in Frames
  PROVE  Forgotten(frame) \in Frames /\ ~Forgotten(frame).have
BY DEF Forgotten, Frames

LEMMA OlderFrameType ==
  ASSUME NEW frame \in Frames
  PROVE  /\ OlderFrame(frame) \in Frames
         /\ OlderFrame(frame).have = frame.have /\ OlderFrame(frame).seq = frame.seq
         /\ OlderFrame(frame).age <= frame.age + 1
BY OlderType DEF OlderFrame, Frames

LEMMA OlderMessageType ==
  ASSUME NEW m \in Messages
  PROVE  /\ OlderMessage(m) \in Messages
         /\ OlderMessage(m).age = m.age + 1 /\ OlderMessage(m).measured <= m.measured + 1
<1>1. m.age \in Nat /\ m.measured \in 0 .. Horizon  BY DEF Messages
<1>2. Older(m.measured) \in 0 .. Horizon /\ Older(m.measured) <= m.measured + 1
  BY <1>1, OlderType
<1>3. /\ OlderMessage(m) \in [value : Readings, measured : 0 .. Horizon, age : Nat]
      /\ OlderMessage(m).age = m.age + 1
      /\ OlderMessage(m).measured = Older(m.measured)
  BY <1>1, <1>2 DEF OlderMessage, Messages
<1>. QED  BY <1>2, <1>3 DEF Messages

\* One unit later the same messages are under way, each a unit older.
LEMMA OlderQueues ==
  ASSUME TypeOK, Elapse
  PROVE  /\ inFlight' \in [Sensors -> Seq(Messages)]
         /\ \A i \in Sensors :
              /\ Len(inFlight'[i]) = Len(inFlight[i])
              /\ \A n \in DOMAIN inFlight[i] :
                   /\ inFlight[i][n].age < SensorDelay
                   /\ inFlight'[i][n].age = inFlight[i][n].age + 1
                   /\ inFlight'[i][n].measured <= inFlight[i][n].measured + 1
<1>1. /\ inFlight' = [i \in Sensors |-> [n \in DOMAIN inFlight[i] |-> OlderMessage(inFlight[i][n])]]
      /\ \A i \in Sensors : \A n \in DOMAIN inFlight[i] : inFlight[i][n].age < SensorDelay
  BY Zenon DEF Elapse
<1>2. ASSUME NEW i \in Sensors
      PROVE  /\ inFlight'[i] \in Seq(Messages) /\ Len(inFlight'[i]) = Len(inFlight[i])
             /\ \A n \in DOMAIN inFlight[i] : inFlight'[i][n] = OlderMessage(inFlight[i][n])
  <2>1. inFlight[i] \in Seq(Messages)  BY DEF TypeOK
  <2>2. inFlight'[i] = [n \in 1 .. Len(inFlight[i]) |-> OlderMessage(inFlight[i][n])]
    BY <1>1, <2>1
  <2>3. \A n \in 1 .. Len(inFlight[i]) : OlderMessage(inFlight[i][n]) \in Messages  BY OlderMessageType, <2>1
  <2>. QED  BY <2>1, <2>2, <2>3
<1>3. \A i \in Sensors : \A n \in DOMAIN inFlight[i] : inFlight[i][n] \in Messages
  BY DEF TypeOK
<1>4. inFlight' \in [Sensors -> Seq(Messages)]  BY <1>1, <1>2
<1>. QED  BY <1>1, <1>2, <1>3, <1>4, OlderMessageType

\* A queue of the history holds what it held and the new message.
LEMMA PushedIsOldOrNew ==
  ASSUME NEW queue \in Seq(Messages), Len(queue) <= HistoryDepth, NEW m \in Messages
  PROVE  /\ Pushed(queue, m) \in Seq(Messages)
         /\ Len(Pushed(queue, m)) <= HistoryDepth
         /\ \A n \in DOMAIN Pushed(queue, m) :
              Pushed(queue, m)[n] = m \/ \E l \in DOMAIN queue : Pushed(queue, m)[n] = queue[l]
<1>1. CASE Len(queue) < HistoryDepth
  <2>1. Pushed(queue, m) = Append(queue, m)  BY <1>1 DEF Pushed
  <2>. QED  BY <1>1, <2>1
<1>2. CASE ~(Len(queue) < HistoryDepth)
  <2>1. queue # <<>> /\ Len(queue) = HistoryDepth  BY <1>2
  <2>2. Tail(queue) \in Seq(Messages) /\ Len(Tail(queue)) = HistoryDepth - 1  BY <2>1
  <2>3. \A n \in DOMAIN Tail(queue) : Tail(queue)[n] = queue[n + 1] /\ n + 1 \in DOMAIN queue
    BY <2>1, <2>2
  <2>4. Pushed(queue, m) = Append(Tail(queue), m)  BY <1>2 DEF Pushed
  <2>. QED  BY <2>2, <2>3, <2>4
<1>. QED  BY <1>1, <1>2

-----------------------------------------------------------------------------
(* Type correctness.                                                       *)
THEOREM TypeCorrect == Spec => []TypeOK
<1>1. Init => TypeOK
  <2>. SUFFICES ASSUME Init PROVE TypeOK
    OBVIOUS
  <2>1. ranges \in [Sensors -> [value : Readings, age : Nat, have : BOOLEAN]]
    BY DEF Init, SafetyInit, Readings
  <2>2. hardware \in [frames : [Kinds -> Frames], raw : [Sensors -> RawReadings]]
    BY DEF Init, Frames
  <2>3. \A i \in Sensors : inFlight[i] = <<>>  BY DEF Init
  <2>4. inFlight \in [Sensors -> Seq(Messages)]  BY DEF Init
  <2>5. measured \in [Sensors -> 0 .. Horizon]
    <3>1. Horizon \in 0 .. Horizon  OBVIOUS
    <3>. QED  BY <3>1, Zenon DEF Init
  <2>6. /\ published \in [Kinds -> Nat] /\ sinceTick \in 0 .. TimerPeriod
        /\ portOpen \in BOOLEAN /\ pending \subseteq Kinds
    <3>1. published \in [Kinds -> Nat]  BY DEF Init
    <3>2. sinceTick \in 0 .. TimerPeriod  BY DEF Init
    <3>3. portOpen \in BOOLEAN /\ pending \subseteq Kinds  BY Zenon DEF Init
    <3>. QED  BY <3>1, <3>2, <3>3
  <2>7. \A i \in Sensors : Len(inFlight[i]) <= HistoryDepth  BY <2>3
  <2>. QED  BY <2>1, <2>2, <2>4, <2>5, <2>6, <2>7 DEF TypeOK
<1>2. TypeOK /\ [Next]_vars => TypeOK'
  <2>. SUFFICES ASSUME TypeOK, [Next]_vars PROVE TypeOK'
    OBVIOUS
  <2>1. CASE ReadFrames
    <3>. PICK n \in [Kinds -> 0 .. MaxBurst], raw \in [Sensors -> RawReadings] :
           /\ hardware' =
                [frames |-> [k \in Kinds |-> Received(hardware.frames[k], n[k])],
                 raw |-> IF n["ultrasonic"] > 0 THEN raw ELSE hardware.raw]
           /\ pending' = pending \cup {k \in Kinds : n[k] > 0}
      BY <2>1 DEF ReadFrames
    <3>1. \A k \in Kinds : Received(hardware.frames[k], n[k]) \in Frames
      <4>1. ASSUME NEW frame \in Frames, NEW m \in 0 .. MaxBurst PROVE Received(frame, m) \in Frames
        BY DEF Received, Frames
      <4>. QED  BY <4>1 DEF TypeOK
    <3>. QED  BY <2>1, <3>1 DEF TypeOK, ReadFrames, safetyVars
  <2>2. CASE PortLost  BY <2>2 DEF TypeOK, PortLost, safetyVars
  <2>3. CASE Reconnect
    <3>1. \A k \in Kinds : Forgotten(hardware.frames[k]) \in Frames
      BY ForgottenType DEF TypeOK
    <3>. QED  BY <2>3, <3>1 DEF TypeOK, Reconnect, safetyVars
  <2>4. CASE PublishState
    <3>1. published' \in [Kinds -> Nat] /\ pending' \subseteq Kinds
      BY <2>4 DEF PublishState, TypeOK, Frames
    <3>2. /\ inFlight' \in [Sensors -> Seq(Messages)]
          /\ \A i \in Sensors : Len(inFlight'[i]) <= HistoryDepth
      <4>1. CASE Unpublished("ultrasonic")
        <5>. DEFINE M(i) == [value |-> Reading(hardware.raw[i]),
                             measured |-> hardware.frames["ultrasonic"].age, age |-> 0]
        <5>1. \A i \in Sensors : M(i) \in Messages
          BY ReadingType DEF TypeOK, Frames, Messages
        <5>2. \A i \in Sensors : inFlight[i] \in Seq(Messages) /\ Len(inFlight[i]) <= HistoryDepth
          BY DEF TypeOK
        <5>3. \A i \in Sensors :
                 Pushed(inFlight[i], M(i)) \in Seq(Messages) /\ Len(Pushed(inFlight[i], M(i))) <= HistoryDepth
          BY <5>1, <5>2, PushedIsOldOrNew
        <5>4. PICK lost \in SUBSET Sensors :
                inFlight' = [i \in Sensors |->
                  IF i \in lost THEN inFlight[i] ELSE Pushed(inFlight[i], M(i))]
          BY <2>4, <4>1 DEF PublishState, PublishUltrasonic
        <5>. HIDE DEF M
        <5>. QED  BY <5>2, <5>3, <5>4
      <4>2. CASE ~Unpublished("ultrasonic")
        BY <2>4, <4>2 DEF PublishState, TypeOK
      <4>. QED  BY <4>1, <4>2
    <3>. QED  BY <2>4, <3>1, <3>2 DEF TypeOK, PublishState, safetyVars
  <2>5. CASE DeliverRange
    <3>1. PICK i \in Sensors :
            /\ inFlight[i] # <<>>
            /\ OnRange(i, Head(inFlight[i]).value)
            /\ measured' = [measured EXCEPT ![i] = Head(inFlight[i]).measured]
            /\ inFlight' = [inFlight EXCEPT ![i] = Tail(@)]
      BY <2>5 DEF DeliverRange
    <3>2. Head(inFlight[i]) \in Messages /\ Tail(inFlight[i]) \in Seq(Messages)
          /\ Len(Tail(inFlight[i])) <= HistoryDepth
      BY <3>1 DEF TypeOK
    <3>3. ranges' \in [Sensors -> [value : Readings, age : Nat, have : BOOLEAN]]
      BY <3>1, <3>2 DEF TypeOK, OnRange, Messages
    <3>. QED  BY <2>5, <3>1, <3>2, <3>3 DEF TypeOK, DeliverRange, Messages
  <2>6. CASE Elapse
    <3>1. sinceTick' \in 0 .. TimerPeriod
      <4>1. sinceTick < TimerPeriod /\ sinceTick' = sinceTick + 1  BY <2>6, Zenon DEF Elapse
      <4>. QED  BY <4>1 DEF TypeOK
    <3>2. hardware' \in [frames : [Kinds -> Frames], raw : [Sensors -> RawReadings]]
      <4>1. hardware' = [hardware EXCEPT !.frames = [k \in Kinds |-> OlderFrame(hardware.frames[k])]]
        BY <2>6, Zenon DEF Elapse
      <4>2. \A k \in Kinds : OlderFrame(hardware.frames[k]) \in Frames
        BY OlderFrameType DEF TypeOK
      <4>. QED  BY <4>1, <4>2 DEF TypeOK
    <3>3. ranges' \in [Sensors -> [value : Readings, age : Nat, have : BOOLEAN]]
      <4>1. ranges' = [i \in Sensors |-> [ranges[i] EXCEPT !.age = Later(@, UltrasonicStale)]]
        BY <2>6, Zenon DEF Elapse, SafetyElapse
      <4>2. \A i \in Sensors : Later(ranges[i].age, UltrasonicStale) \in Nat
        BY DEF TypeOK, Later
      <4>3. \A i \in Sensors : [ranges[i] EXCEPT !.age = Later(@, UltrasonicStale)]
                              \in [value : Readings, age : Nat, have : BOOLEAN]
        BY <4>2 DEF TypeOK
      <4>. QED  BY <4>1, <4>3
    <3>4. measured' \in [Sensors -> 0 .. Horizon]
      <4>1. measured' = [i \in Sensors |-> Older(measured[i])]  BY <2>6, Zenon DEF Elapse
      <4>. QED  BY <4>1, OlderType DEF TypeOK
    <3>5. inFlight' \in [Sensors -> Seq(Messages)]
          /\ \A i \in Sensors : Len(inFlight'[i]) = Len(inFlight[i])
      BY <2>6, OlderQueues
    <3>. QED  BY <2>6, <3>1, <3>2, <3>3, <3>4, <3>5 DEF TypeOK, Elapse
  <2>7. CASE UNCHANGED vars  BY <2>7 DEF TypeOK, vars, safetyVars, feedbackVars
  <2>. QED  BY <2>1, <2>2, <2>3, <2>4, <2>5, <2>6, <2>7 DEF Next
<1>. QED  BY <1>1, <1>2, PTL DEF Spec

-----------------------------------------------------------------------------
(* The newest frame is published in time.                                  *)

\* What has not been published came after the last tick, and publishState()
\* will tell it from what was: the number it remembers is an earlier one.
FramesInv ==
  \A k \in Kinds :
    /\ published[k] <= hardware.frames[k].seq
    /\ Unpublished(k) => hardware.frames[k].age <= sinceTick
    /\ k \in pending /\ hardware.frames[k].have => published[k] # hardware.frames[k].seq

LEMMA FramesInvHolds == Spec => []FramesInv
<1>1. Init => FramesInv
  BY DEF Init, FramesInv, Unpublished
<1>2. TypeOK /\ FramesInv /\ [Next]_vars => FramesInv'
  <2>. SUFFICES ASSUME TypeOK, FramesInv, [Next]_vars, NEW k \in Kinds
                PROVE  /\ published'[k] <= hardware'.frames[k].seq
                       /\ Unpublished(k)' => hardware'.frames[k].age <= sinceTick'
                       /\ k \in pending' /\ hardware'.frames[k].have
                            => published'[k] # hardware'.frames[k].seq
    BY DEF FramesInv
  <2>. DEFINE f == hardware.frames[k]
  <2>0. /\ f \in Frames /\ published[k] \in Nat /\ published[k] <= f.seq
        /\ sinceTick \in 0 .. TimerPeriod
        /\ f.have /\ f.seq # published[k] => f.age <= sinceTick
        /\ k \in pending /\ f.have => published[k] # f.seq
    BY DEF TypeOK, FramesInv, Unpublished
  <2>1. CASE ReadFrames
    <3>1. PICK n \in [Kinds -> 0 .. MaxBurst], raw \in [Sensors -> RawReadings] :
            /\ hardware' =
                 [frames |-> [l \in Kinds |-> Received(hardware.frames[l], n[l])],
                  raw |-> IF n["ultrasonic"] > 0 THEN raw ELSE hardware.raw]
            /\ pending' = pending \cup {l \in Kinds : n[l] > 0}
      BY <2>1 DEF ReadFrames
    <3>2. hardware'.frames[k] = Received(f, n[k]) /\ published' = published /\ sinceTick' = sinceTick
      BY <2>1, <3>1 DEF ReadFrames
    <3>3. CASE n[k] = 0
      BY <2>0, <3>1, <3>2, <3>3 DEF Received, Unpublished, Frames
    <3>4. CASE n[k] > 0
      <4>1. hardware'.frames[k] = [have |-> TRUE, seq |-> f.seq + n[k], age |-> 0]
        BY <3>2, <3>4 DEF Received
      <4>. QED  BY <2>0, <3>2, <3>4, <4>1 DEF Unpublished, Frames
    <3>. QED  BY <3>3, <3>4
  <2>2. CASE PortLost  BY <2>0, <2>2 DEF PortLost, Unpublished
  <2>3. CASE Reconnect
    <3>1. hardware'.frames[k] = Forgotten(f) /\ UNCHANGED <<published, sinceTick, pending>>
      BY <2>3 DEF Reconnect, TypeOK
    <3>2. hardware'.frames[k].have = FALSE /\ hardware'.frames[k].seq = f.seq
      BY <2>0, <3>1 DEF Forgotten, Frames
    <3>. QED  BY <2>0, <3>1, <3>2 DEF Unpublished
  <2>4. CASE PublishState
    <3>1. /\ hardware' = hardware
          /\ published'[k] = IF Unpublished(k) THEN f.seq ELSE published[k]
          /\ k \in pending' <=> k \in pending /\ ~Unpublished(k)
      BY <2>4 DEF PublishState, TypeOK
    <3>2. f.have => published'[k] = f.seq  BY <3>1 DEF Unpublished
    <3>3. published'[k] <= f.seq  BY <2>0, <3>1 DEF Frames
    <3>. QED  BY <2>0, <3>1, <3>2, <3>3 DEF Unpublished, Frames
  <2>5. CASE DeliverRange  BY <2>0, <2>5 DEF DeliverRange, Unpublished
  <2>6. CASE Elapse
    <3>1. /\ hardware' = [hardware EXCEPT !.frames = [l \in Kinds |-> OlderFrame(hardware.frames[l])]]
          /\ sinceTick' = sinceTick + 1 /\ UNCHANGED <<published, pending>>
      BY <2>6, Zenon DEF Elapse
    <3>2. hardware'.frames[k] = OlderFrame(f)  BY <3>1 DEF TypeOK
    <3>3. /\ hardware'.frames[k].have = f.have /\ hardware'.frames[k].seq = f.seq
          /\ hardware'.frames[k].age <= f.age + 1 /\ hardware'.frames[k].age \in 0 .. Horizon
      BY <2>0, <3>2, OlderFrameType DEF Frames
    <3>. QED  BY <2>0, <3>1, <3>3 DEF Unpublished, Frames
  <2>7. CASE UNCHANGED vars  BY <2>0, <2>7 DEF vars, feedbackVars, Unpublished
  <2>. QED  BY <2>1, <2>2, <2>3, <2>4, <2>5, <2>6, <2>7 DEF Next
<1>. QED  BY <1>1, <1>2, TypeCorrect, PTL DEF Spec

\* The numbering of the frames over the connections keeps every new frame
\* distinguishable: none waits longer than a period of the timer.
THEOREM NewestIsPublishedHolds == Spec => []NewestIsPublished
<1>1. TypeOK /\ FramesInv => NewestIsPublished
  BY DEF TypeOK, FramesInv, NewestIsPublished, Unpublished, Frames
<1>. QED  BY <1>1, TypeCorrect, FramesInvHolds, PTL

-----------------------------------------------------------------------------
(* The readings are as current as the safety node takes them for.          *)

\* A message was published of a frame that was new at the tick; a reading that
\* has not timed out came with such a message.
RangesInv ==
  \A i \in Sensors :
    /\ \A n \in DOMAIN inFlight[i] :
         /\ inFlight[i][n].age <= SensorDelay
         /\ inFlight[i][n].measured <= TimerPeriod + inFlight[i][n].age
    /\ ranges[i].have /\ ranges[i].age <= UltrasonicStale
         => measured[i] <= TimerPeriod + SensorDelay + ranges[i].age

LEMMA RangesInvHolds == Spec => []RangesInv
<1>1. Init => RangesInv
  BY DEF Init, SafetyInit, RangesInv
<1>2. TypeOK /\ FramesInv /\ RangesInv /\ [Next]_vars => RangesInv'
  <2>. SUFFICES ASSUME TypeOK, FramesInv, RangesInv, [Next]_vars, NEW i \in Sensors
                PROVE  /\ \A n \in DOMAIN inFlight'[i] :
                            /\ inFlight'[i][n].age <= SensorDelay
                            /\ inFlight'[i][n].measured <= TimerPeriod + inFlight'[i][n].age
                       /\ ranges'[i].have /\ ranges'[i].age <= UltrasonicStale
                            => measured'[i] <= TimerPeriod + SensorDelay + ranges'[i].age
    BY DEF RangesInv
  <2>. DEFINE Timely(m) == m.age <= SensorDelay /\ m.measured <= TimerPeriod + m.age
              Current == ranges[i].have /\ ranges[i].age <= UltrasonicStale
                           => measured[i] <= TimerPeriod + SensorDelay + ranges[i].age
  <2>0. /\ inFlight[i] \in Seq(Messages) /\ Len(inFlight[i]) <= HistoryDepth
        /\ \A n \in DOMAIN inFlight[i] : Timely(inFlight[i][n])
        /\ Current
        /\ ranges[i] \in [value : Readings, age : Nat, have : BOOLEAN]
        /\ measured[i] \in 0 .. Horizon
    BY DEF TypeOK, RangesInv
  <2>1. CASE ReadFrames  BY <2>0, <2>1, Zenon DEF ReadFrames, safetyVars
  <2>2. CASE PortLost  BY <2>0, <2>2, Zenon DEF PortLost, safetyVars
  <2>3. CASE Reconnect  BY <2>0, <2>3, Zenon DEF Reconnect, safetyVars
  <2>4. CASE PublishState
    <3>1. ranges' = ranges /\ measured' = measured  BY <2>4 DEF PublishState, safetyVars
    <3>2. \A n \in DOMAIN inFlight'[i] : Timely(inFlight'[i][n])
      <4>1. CASE Unpublished("ultrasonic")
        <5>. DEFINE M(j) == [value |-> Reading(hardware.raw[j]),
                             measured |-> hardware.frames["ultrasonic"].age, age |-> 0]
        <5>1. M(i) \in Messages  BY ReadingType DEF TypeOK, Frames, Messages
        <5>2. Timely(M(i))
          BY <4>1 DEF FramesInv, TypeOK, Frames
        <5>3. PICK lost \in SUBSET Sensors :
                inFlight' = [j \in Sensors |->
                  IF j \in lost THEN inFlight[j] ELSE Pushed(inFlight[j], M(j))]
          BY <2>4, <4>1 DEF PublishState, PublishUltrasonic
        <5>. HIDE DEF M, Timely
        <5>4. inFlight'[i] = inFlight[i] \/ inFlight'[i] = Pushed(inFlight[i], M(i))
          BY <5>3
        <5>5. \A n \in DOMAIN Pushed(inFlight[i], M(i)) : Timely(Pushed(inFlight[i], M(i))[n])
          <6>1. \A n \in DOMAIN Pushed(inFlight[i], M(i)) :
                  \/ Pushed(inFlight[i], M(i))[n] = M(i)
                  \/ \E l \in DOMAIN inFlight[i] : Pushed(inFlight[i], M(i))[n] = inFlight[i][l]
            BY <2>0, <5>1, PushedIsOldOrNew
          <6>. QED  BY <2>0, <5>2, <6>1, Zenon
        <5>. QED  BY <2>0, <5>4, <5>5
      <4>2. CASE ~Unpublished("ultrasonic")
        BY <2>0, <2>4, <4>2 DEF PublishState
      <4>. QED  BY <4>1, <4>2
    <3>. QED  BY <2>0, <3>1, <3>2
  <2>5. CASE DeliverRange
    <3>1. PICK j \in Sensors :
            /\ inFlight[j] # <<>>
            /\ OnRange(j, Head(inFlight[j]).value)
            /\ measured' = [measured EXCEPT ![j] = Head(inFlight[j]).measured]
            /\ inFlight' = [inFlight EXCEPT ![j] = Tail(@)]
      BY <2>5 DEF DeliverRange
    <3>2. CASE j = i
      <4>1. Head(inFlight[i]) = inFlight[i][1] /\ 1 \in DOMAIN inFlight[i]
        BY <2>0, <3>1, <3>2
      <4>2. Head(inFlight[i]) \in Messages /\ Timely(Head(inFlight[i]))
        BY <2>0, <4>1
      <4>3. inFlight'[i] = Tail(inFlight[i])  BY <3>1, <3>2 DEF TypeOK
      <4>4. \A n \in DOMAIN Tail(inFlight[i]) :
              Tail(inFlight[i])[n] = inFlight[i][n + 1] /\ n + 1 \in DOMAIN inFlight[i]
        BY <2>0, <3>1, <3>2
      <4>5. ranges'[i].age = 0 /\ measured'[i] = Head(inFlight[i]).measured
        BY <3>1, <3>2 DEF OnRange, TypeOK
      <4>6. \A n \in DOMAIN inFlight'[i] : Timely(inFlight'[i][n])
        BY <2>0, <4>3, <4>4, Zenon
      <4>7. measured'[i] <= TimerPeriod + SensorDelay + ranges'[i].age
        BY <4>2, <4>5 DEF Messages
      <4>. QED  BY <4>6, <4>7
    <3>3. CASE j # i
      <4>1. inFlight'[i] = inFlight[i] /\ ranges'[i] = ranges[i] /\ measured'[i] = measured[i]
        BY <3>1, <3>3 DEF OnRange, TypeOK
      <4>. QED  BY <2>0, <4>1
    <3>. QED  BY <3>2, <3>3
  <2>6. CASE Elapse
    <3>1. /\ ranges' = [j \in Sensors |-> [ranges[j] EXCEPT !.age = Later(@, UltrasonicStale)]]
          /\ measured' = [j \in Sensors |-> Older(measured[j])]
      BY <2>6, Zenon DEF Elapse, SafetyElapse
    <3>2. /\ ranges'[i].have = ranges[i].have
          /\ ranges'[i].age = Later(ranges[i].age, UltrasonicStale)
      BY <2>0, <3>1
    <3>3. measured'[i] <= measured[i] + 1 /\ measured'[i] \in 0 .. Horizon
      BY <2>0, <3>1, OlderType
    <3>4. Current'  BY <2>0, <3>2, <3>3 DEF Later
    <3>5. ASSUME NEW n \in DOMAIN inFlight'[i] PROVE Timely(inFlight'[i][n])
      <4>1. inFlight'[i] \in Seq(Messages) /\ n \in DOMAIN inFlight[i]
        BY <2>0, <2>6, OlderQueues
      <4>2. inFlight[i][n] \in Messages /\ inFlight'[i][n] \in Messages  BY <2>0, <4>1
      <4>3. /\ inFlight[i][n].age < SensorDelay
            /\ inFlight'[i][n].age = inFlight[i][n].age + 1
            /\ inFlight'[i][n].measured <= inFlight[i][n].measured + 1
        BY <2>6, <4>1, OlderQueues
      <4>4. Timely(inFlight[i][n])  BY <2>0, <4>1
      <4>5. /\ inFlight[i][n].age \in Nat /\ inFlight[i][n].measured \in 0 .. Horizon
            /\ inFlight'[i][n].age \in Nat /\ inFlight'[i][n].measured \in 0 .. Horizon
        BY <4>2 DEF Messages
      <4>. QED  BY <4>3, <4>4, <4>5
    <3>. QED  BY <3>4, <3>5
  <2>7. CASE UNCHANGED vars  BY <2>0, <2>7, Zenon DEF vars, safetyVars, feedbackVars
  <2>. QED  BY <2>1, <2>2, <2>3, <2>4, <2>5, <2>6, <2>7 DEF Next
<1>. QED  BY <1>1, <1>2, TypeCorrect, FramesInvHolds, PTL DEF Spec

\* Healthy sensors are current ones, whatever the network loses and however
\* often the port is lost: along RangesInv, which adds up what a frame waits
\* for the timer, for the network and in the safety node.
THEOREM SensorsCurrentHolds == Spec => []SensorsCurrent
<1>1. TypeOK /\ RangesInv => SensorsCurrent
  <2>. SUFFICES ASSUME TypeOK, RangesInv, UltrasonicHealthy, NEW i \in Sensors
                PROVE  measured[i] <= RangeAge
    BY DEF SensorsCurrent
  <2>1. ranges[i].have /\ ranges[i].age <= UltrasonicStale /\ ranges[i].age \in Nat
    BY DEF UltrasonicHealthy, Heard, TypeOK
  <2>2. measured[i] <= TimerPeriod + SensorDelay + ranges[i].age /\ measured[i] \in 0 .. Horizon
    BY <2>1 DEF RangesInv, TypeOK
  <2>. QED  BY <2>1, <2>2 DEF RangeAge
<1>. QED  BY <1>1, TypeCorrect, RangesInvHolds, PTL
=============================================================================
