---------------------------- MODULE FeedbackPath ----------------------------
(***************************************************************************)
(* The way of the feedback: the I/O thread fills the HardwareStateStore,   *)
(* the 20 ms timer of BaseDriverNode publishes what is new in it, and the  *)
(* ranges reach the SafetyNode over the topics /ultrasonic/a .. d.         *)
(*                                                                         *)
(* The worker changes a snapshot of its own and stores it whole at the end *)
(* of an iteration, under the mutex of the store, so that an iteration is  *)
(* one step here.  Nothing is assumed of how often frames arrive or        *)
(* iterations run.  The timer fires at least every TimerPeriod units; a    *)
(* message under way is taken within SensorDelay units or, as best effort  *)
(* allows, lost.                                                           *)
(***************************************************************************)
EXTENDS SafetyNode, Sequences

CONSTANTS
  Kinds,        \* the kinds of feedback frames: "motion", "ultrasonic", "charging"
  RawReadings,  \* what an ultrasonic frame may carry for a sensor
  MinRange,     \* ultrasonic.min_range
  MaxRange,     \* ultrasonic.max_range
  TimerPeriod,  \* the period of publish_timer_, and how late it may be
  SensorDelay,  \* how long a range message may be under way
  HistoryDepth, \* the history of SensorDataQoS
  MaxBurst,     \* bound: frames of a kind in one read
  MaxSeq        \* bound: frames of a kind in a behaviour

ASSUME FeedbackAssumption ==
  /\ "ultrasonic" \in Kinds
  /\ RawReadings \subseteq Int /\ 0 \in RawReadings /\ MinRange \in Int /\ MaxRange \in Int
  /\ RawReadings \cap (MinRange .. MaxRange) \subseteq Distances
  /\ TimerPeriod \in Nat /\ SensorDelay \in Nat /\ HistoryDepth \in Nat \ {0}
  /\ TimerPeriod + SensorDelay + UltrasonicStale < Horizon
  /\ MaxBurst \in Nat /\ MaxSeq \in Nat

VARIABLES
  portOpen,   \* transport_->isOpen()
  hardware,   \* have_<kind>, <kind>_seq, <kind>_time and the ranges in the store
  published,  \* published_<kind>_seq_
  sinceTick,  \* how long ago publishState() ran
  inFlight,   \* the messages on /ultrasonic/x that are under way
  measured,   \* history: how long ago the frame behind ranges[i] was read
  pending     \* history: the kinds whose newest frame has not been published

feedbackVars == <<portOpen, hardware, published, sinceTick, inFlight, measured, pending>>
vars == <<safetyVars, feedbackVars>>

\* publishUltrasonic() turns what is beyond the limit into +inf, and the
\* safety node disregards what is below the other.
Reading(raw) ==
  IF raw > MaxRange THEN NoHit ELSE IF raw < MinRange THEN Invalid ELSE raw

Frames == [have : BOOLEAN, seq : Nat, age : 0 .. Horizon]
Messages == [value : Readings, measured : 0 .. Horizon, age : Nat]

TypeOK ==
  /\ portOpen \in BOOLEAN
  /\ ranges \in [Sensors -> [value : Readings, age : Nat, have : BOOLEAN]]
  /\ hardware \in [frames : [Kinds -> Frames], raw : [Sensors -> RawReadings]]
  /\ published \in [Kinds -> Nat] /\ sinceTick \in 0 .. TimerPeriod
  /\ inFlight \in [Sensors -> Seq(Messages)]
  /\ \A i \in Sensors : Len(inFlight[i]) <= HistoryDepth
  /\ measured \in [Sensors -> 0 .. Horizon] /\ pending \subseteq Kinds

Init ==
  /\ SafetyInit
  /\ portOpen = FALSE
  /\ hardware = [frames |-> [k \in Kinds |-> [have |-> FALSE, seq |-> 0, age |-> 0]],
                 raw |-> [i \in Sensors |-> 0]]
  /\ published = [k \in Kinds |-> 0]
  /\ sinceTick = 0
  /\ inFlight = [i \in Sensors |-> <<>>]
  /\ measured = [i \in Sensors |-> Horizon] /\ pending = {}

-----------------------------------------------------------------------------
(* The I/O thread.                                                         *)

\* n frames of a kind: the last one stays, all of them are counted.
Received(frame, n) ==
  IF n = 0 THEN frame ELSE [have |-> TRUE, seq |-> frame.seq + n, age |-> 0]

ReadFrames ==
  /\ portOpen
  /\ \E n \in [Kinds -> 0 .. MaxBurst], raw \in [Sensors -> RawReadings] :
       /\ \A k \in Kinds : hardware.frames[k].seq + n[k] <= MaxSeq
       /\ hardware' =
            [frames |-> [k \in Kinds |-> Received(hardware.frames[k], n[k])],
             raw |-> IF n["ultrasonic"] > 0 THEN raw ELSE hardware.raw]
       /\ pending' = pending \cup {k \in Kinds : n[k] > 0}
  /\ UNCHANGED <<safetyVars, portOpen, published, sinceTick, inFlight, measured>>

\* The store keeps what the last connection brought.
PortLost ==
  /\ portOpen /\ portOpen' = FALSE
  /\ UNCHANGED <<safetyVars, hardware, published, sinceTick, inFlight, measured, pending>>

\* Mutation: a new connection counts its frames anew.
Renumbered(frame) == [frame EXCEPT !.have = FALSE, !.seq = 0]

\* Frames are counted over all connections.
Forgotten(frame) == [frame EXCEPT !.have = FALSE]

Reconnect ==
  /\ ~portOpen /\ portOpen' = TRUE
  /\ hardware' = [hardware EXCEPT !.frames = [k \in Kinds |-> Forgotten(@[k])]]
  /\ UNCHANGED <<safetyVars, published, sinceTick, inFlight, measured, pending>>

-----------------------------------------------------------------------------
(* The timer of the driver node.                                           *)

\* Mutation: whatever the store holds is published at every tick.
AnyHeld(k) == hardware.frames[k].have

Unpublished(k) == hardware.frames[k].have /\ hardware.frames[k].seq # published[k]

\* Only the last HistoryDepth messages wait for the safety node.
Pushed(queue, message) ==
  Append(IF Len(queue) < HistoryDepth THEN queue ELSE Tail(queue), message)

\* Best effort: the network may lose any of the messages.
PublishUltrasonic ==
  \E lost \in SUBSET Sensors :
    inFlight' = [i \in Sensors |->
      IF i \in lost THEN inFlight[i]
      ELSE Pushed(inFlight[i],
                  [value |-> Reading(hardware.raw[i]),
                   measured |-> hardware.frames["ultrasonic"].age, age |-> 0])]

\* The messages about the motion and the charging leave the model here.
PublishState ==
  /\ published' = [k \in Kinds |->
                     IF Unpublished(k) THEN hardware.frames[k].seq ELSE published[k]]
  /\ pending' = {k \in pending : ~Unpublished(k)}
  /\ sinceTick' = 0
  /\ IF Unpublished("ultrasonic") THEN PublishUltrasonic ELSE UNCHANGED inFlight
  /\ UNCHANGED <<safetyVars, portOpen, hardware, measured>>

-----------------------------------------------------------------------------
(* The topics and the safety node.                                         *)
DeliverRange ==
  \E i \in Sensors :
    /\ inFlight[i] # <<>>
    /\ OnRange(i, Head(inFlight[i]).value)
    /\ measured' = [measured EXCEPT ![i] = Head(inFlight[i]).measured]
    /\ inFlight' = [inFlight EXCEPT ![i] = Tail(@)]
  /\ UNCHANGED <<portOpen, hardware, published, sinceTick, pending>>

-----------------------------------------------------------------------------
Older(age) == IF age < Horizon THEN age + 1 ELSE age

OlderFrame(frame) == [frame EXCEPT !.age = Older(@)]

OlderMessage(m) ==
  [value |-> m.value, measured |-> Older(m.measured), age |-> m.age + 1]

Elapse ==
  /\ sinceTick < TimerPeriod
  /\ \A i \in Sensors : \A n \in DOMAIN inFlight[i] : inFlight[i][n].age < SensorDelay
  /\ sinceTick' = sinceTick + 1
  /\ hardware' = [hardware EXCEPT !.frames =
                    [k \in Kinds |-> OlderFrame(@[k])]]
  /\ inFlight' = [i \in Sensors |-> [n \in DOMAIN inFlight[i] |->
                    OlderMessage(inFlight[i][n])]]
  /\ measured' = [i \in Sensors |-> Older(measured[i])]
  /\ SafetyElapse
  /\ UNCHANGED <<portOpen, published, pending>>

Next ==
  \/ ReadFrames \/ PortLost \/ Reconnect \/ PublishState
  \/ DeliverRange \/ Elapse

Spec == Init /\ [][Next]_vars

-----------------------------------------------------------------------------
RangeAge == TimerPeriod + SensorDelay + UltrasonicStale

\* While the safety node takes its ultrasonic sensors for healthy, each reading
\* it holds was measured at most the period of the timer, the way and its own
\* timeout ago: its time stamps are those of the arrival, and only what
\* publishState() leaves out keeps a silent sensor from looking alive.
SensorsCurrent ==
  UltrasonicHealthy => \A i \in Sensors : measured[i] <= RangeAge

\* A frame is published within the period of the timer unless a newer one of
\* its connection takes its place: over any loss of the port, the numbers that
\* the I/O thread counts and those that publishState() remembers stay apart.
NewestIsPublished ==
  \A k \in pending : hardware.frames[k].have => hardware.frames[k].age <= TimerPeriod
=============================================================================
