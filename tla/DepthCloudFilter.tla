--------------------------- MODULE DepthCloudFilter ---------------------------
(***************************************************************************)
(* depth_cloud_filter_node: the newest cloud of the depth camera, thinned  *)
(* out, transformed, cropped, and published at a limited rate.  The        *)
(* executor has one thread; the callback may wait for a transform.  A      *)
(* cloud is the time since the camera published it; its points are left    *)
(* out, but for whether enough of them remain.                             *)
(***************************************************************************)
EXTENDS Integers, Sequences

CONSTANTS
  Period,      \* 1 / max_publish_rate
  MaxCallback  \* the longest callback: transform_timeout_sec and the filters

ASSUME FilterAssumption == Period \in Nat /\ MaxCallback \in Nat

VARIABLES
  waiting,      \* the queue of the subscription: ages of clouds
  busy,         \* the cloud in the callback: its age and that of steady_now
  lastPublish,  \* time since last_publish_, Period if not have_last_publish_
  recent        \* history: time since the last two clouds were published

filterVars == <<waiting, busy, lastPublish, recent>>

NoCloud == [age |-> -1, since |-> -1]
Busy == busy # NoCloud

MaxAge == 2 * MaxCallback

FilterTypeOK ==
  /\ waiting \in Seq(Nat) /\ Len(waiting) <= 1
  /\ busy \in [age : Nat, since : 0 .. MaxCallback] \cup {NoCloud}
  /\ lastPublish \in 0 .. Period
  /\ recent \in [1 .. 2 -> 0 .. Period]

FilterInit ==
  /\ waiting = <<>> /\ busy = NoCloud
  /\ lastPublish = Period /\ recent = [i \in 1 .. 2 |-> Period]

-----------------------------------------------------------------------------
\* SensorDataQoS().keep_last(1)
KeepLastOne(q) == IF Len(q) > 1 THEN Tail(q) ELSE q

CameraPublishes ==
  /\ waiting' = KeepLastOne(Append(waiting, 0))
  /\ UNCHANGED <<busy, lastPublish, recent>>

\* onCloud, up to the filters: too early, the cloud is dropped.
OnCloud ==
  /\ waiting # <<>> /\ ~Busy
  /\ waiting' = Tail(waiting)
  /\ busy' = IF lastPublish < Period THEN NoCloud
             ELSE [age |-> Head(waiting), since |-> 0]
  /\ UNCHANGED <<lastPublish, recent>>

\* The transform did not come in time, or too few points are left.
Discard ==
  /\ Busy
  /\ busy' = NoCloud
  /\ UNCHANGED <<waiting, lastPublish, recent>>

\* Mutation: the rate is measured once.
LastPublishOnce == lastPublish

\* steady_now of the callback, not the time of the publication.
LastPublishAfter == busy.since

Publish ==
  /\ Busy
  /\ busy' = NoCloud
  /\ lastPublish' = IF LastPublishAfter < Period THEN LastPublishAfter ELSE Period
  /\ recent' = [i \in 1 .. 2 |-> IF i = 1 THEN 0 ELSE recent[1]]
  /\ UNCHANGED waiting

\* The executor does not wait to begin a callback.
FilterElapse ==
  /\ IF Busy THEN busy.since < MaxCallback ELSE waiting = <<>>
  /\ waiting' = [i \in DOMAIN waiting |-> waiting[i] + 1]
  /\ busy' = IF Busy THEN [age |-> busy.age + 1, since |-> busy.since + 1] ELSE busy
  /\ lastPublish' = IF lastPublish < Period THEN lastPublish + 1 ELSE Period
  /\ recent' = [i \in 1 .. 2 |-> IF recent[i] < Period THEN recent[i] + 1 ELSE Period]

FilterNext == CameraPublishes \/ OnCloud \/ Discard \/ Publish \/ FilterElapse

FilterSpec == FilterInit /\ [][FilterNext]_filterVars

-----------------------------------------------------------------------------
\* A cloud is not older than two callbacks when it is published: what waits
\* behind a slow callback is replaced by what comes after it.
CloudsAreNew == Busy => busy.age <= MaxAge

\* The rate is counted from the start of a callback, so two publications may
\* be closer than the period, but never three: the second but last was at
\* least a period ago.
NoThirdInPeriod == [][Publish => recent[2] >= Period]_filterVars
==============================================================================
