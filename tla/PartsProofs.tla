----------------------------- MODULE PartsProofs -----------------------------
(***************************************************************************)
(* Proofs about the small parts: Odometry, for all speeds, scales, gaps    *)
(* and clocks; SerialTransport, for all numbers of bytes and descriptors;  *)
(* DepthCloudFilter, for all periods and lengths of a callback; and about  *)
(* Parts, the five together.  The router and the codecs, which it takes    *)
(* from SerialFramesProofs, have their proofs there.                       *)
(***************************************************************************)
EXTENDS Parts, SerialFramesProofs

(* Odometry.                                                               *)

LEMMA ProductMonotone ==
  ASSUME NEW a \in Int, NEW b \in Int, NEW t \in Nat, a <= b
  PROVE  a * t <= b * t
<1>1. (b - a) * t >= 0  OBVIOUS
<1>2. (b - a) * t = b * t - a * t  OBVIOUS
<1>. QED  BY <1>1, <1>2

LEMMA AbsType == ASSUME NEW a \in Int PROVE Abs(a) \in Nat
BY DEF Abs

\* A way of speed a for the time t leads at most |a| * t further.
LEMMA WayOfOneAxis ==
  ASSUME NEW p \in Int, NEW a \in Int, NEW t \in Nat
  PROVE  a * t \in Int /\ Abs(p + a * t) <= Abs(p) + Abs(a) * t
<1>1. a * t \in Int  OBVIOUS
<1>2. CASE a >= 0
  <2>1. Abs(a) * t = a * t /\ a * t >= 0  BY <1>2 DEF Abs
  <2>. QED  BY <1>1, <2>1 DEF Abs
<1>3. CASE a < 0
  <2>1. Abs(a) * t = -(a * t)  BY <1>3 DEF Abs
  <2>2. (-a) * t >= 0 /\ (-a) * t = -(a * t)  BY <1>3
  <2>. QED  BY <1>1, <2>1, <2>2 DEF Abs
<1>. QED  BY <1>2, <1>3

LEMMA TurnsKeepLength ==
  ASSUME NEW x \in Int, NEW y \in Int, NEW yaw \in 0 .. 3
  PROVE  /\ x * Cos(yaw) - y * Sin(yaw) \in Int /\ x * Sin(yaw) + y * Cos(yaw) \in Int
         /\ Abs(x * Cos(yaw) - y * Sin(yaw)) + Abs(x * Sin(yaw) + y * Cos(yaw)) = Abs(x) + Abs(y)
<1>1. CASE yaw = 0  BY <1>1 DEF Cos, Sin, Abs
<1>2. CASE yaw = 1  BY <1>2 DEF Cos, Sin, Abs
<1>3. CASE yaw = 2  BY <1>3 DEF Cos, Sin, Abs
<1>4. CASE yaw = 3  BY <1>4 DEF Cos, Sin, Abs
<1>. QED  BY <1>1, <1>2, <1>3, <1>4

Poses == [x : Int, y : Int, yaw : 0 .. 3]

\* One update leads at most MaxSpeed * dt further, and nowhere in a gap.
LEMMA UpdateReach ==
  ASSUME OdometryAssumption, pose \in Poses,
         NEW vx \in Speeds, NEW vy \in Speeds, NEW wz \in Turns, NEW dt \in Nat
  PROVE  /\ Update(vx, vy, wz, dt) \in Poses
         /\ Abs(Update(vx, vy, wz, dt).x) + Abs(Update(vx, vy, wz, dt).y)
              <= Abs(pose.x) + Abs(pose.y) + MaxSpeed * dt
         /\ dt = 0 => Update(vx, vy, wz, dt) = pose
<1>. DEFINE x == vx * ScaleX
            y == vy * ScaleY
            turn == wz * (IF wz >= 0 THEN ScaleLeft ELSE ScaleRight)
            a == x * Cos(pose.yaw) - y * Sin(pose.yaw)
            b == x * Sin(pose.yaw) + y * Cos(pose.yaw)
            s == Abs(x) + Abs(y)
<1>1. /\ vx \in Int /\ vy \in Int /\ wz \in Int /\ x \in Int /\ y \in Int /\ turn \in Int
      /\ MaxSpeed \in Nat /\ MaxGap \in Nat /\ s <= MaxSpeed
  BY DEF OdometryAssumption
<1>2. pose.x \in Int /\ pose.y \in Int /\ pose.yaw \in 0 .. 3 /\ s \in Int
  BY <1>1, AbsType DEF Poses
<1>. HIDE DEF x, y, turn
<1>3. a \in Int /\ b \in Int /\ Abs(a) + Abs(b) = s
  BY <1>1, <1>2, TurnsKeepLength
<1>4. MaxSpeed * dt >= 0  BY <1>1
<1>5. CASE dt <= 0 \/ dt > MaxGap
  <2>1. Update(vx, vy, wz, dt) = pose  BY <1>5 DEF Update
  <2>2. Abs(pose.x) \in Nat /\ Abs(pose.y) \in Nat /\ MaxSpeed * dt \in Int
    BY <1>1, <1>2, AbsType
  <2>. QED  BY <1>4, <2>1, <2>2
<1>6. CASE ~(dt <= 0 \/ dt > MaxGap)
  <2>. HIDE DEF a, b, s
  <2>1. Update(vx, vy, wz, dt) =
          [x |-> pose.x + a * dt, y |-> pose.y + b * dt, yaw |-> Wrapped(pose.yaw + turn * dt)]
    BY <1>6 DEF Update, a, b, x, y, turn
  <2>2. Wrapped(pose.yaw + turn * dt) \in 0 .. 3
    <3>1. pose.yaw + turn * dt \in Int  BY <1>1, <1>2
    <3>. QED  BY <3>1 DEF Wrapped
  <2>3. /\ a * dt \in Int /\ Abs(pose.x + a * dt) <= Abs(pose.x) + Abs(a) * dt
        /\ b * dt \in Int /\ Abs(pose.y + b * dt) <= Abs(pose.y) + Abs(b) * dt
    BY <1>2, <1>3, WayOfOneAxis
  <2>4. Abs(a) * dt + Abs(b) * dt = s * dt
    <3>1. Abs(a) \in Nat /\ Abs(b) \in Nat  BY <1>3, AbsType
    <3>2. Abs(a) * dt + Abs(b) * dt = (Abs(a) + Abs(b)) * dt  BY <3>1
    <3>. QED  BY <1>3, <3>2
  <2>5. s * dt <= MaxSpeed * dt  BY <1>1, <1>2, ProductMonotone
  <2>6. /\ Abs(pose.x) \in Nat /\ Abs(pose.y) \in Nat
        /\ Abs(pose.x + a * dt) \in Nat /\ Abs(pose.y + b * dt) \in Nat
        /\ Abs(a) * dt \in Int /\ Abs(b) * dt \in Int /\ s * dt \in Int /\ MaxSpeed * dt \in Int
    BY <1>1, <1>2, <1>3, <2>3, AbsType
  <2>7. Abs(pose.x + a * dt) + Abs(pose.y + b * dt) <= Abs(pose.x) + Abs(pose.y) + MaxSpeed * dt
    BY <2>3, <2>4, <2>5, <2>6
  <2>. QED  BY <1>2, <1>6, <2>1, <2>2, <2>3, <2>7 DEF Poses
<1>. QED  BY <1>5, <1>6

-----------------------------------------------------------------------------
\* The way was gone by the last frame, and there is none before the first.
ReachInv ==
  /\ last = 0 => pose.x = 0 /\ pose.y = 0
  /\ last # 0 => Abs(pose.x) + Abs(pose.y) <= MaxSpeed * (last - Start)

LEMMA OdometryInductive == OdometrySpec => [](OdometryTypeOK /\ ReachInv)
<1>. USE OdometryAssumption
<1>1. OdometryInit => OdometryTypeOK /\ ReachInv
  BY DEF OdometryInit, OdometryTypeOK, ReachInv, OdometryAssumption
<1>2. OdometryTypeOK /\ ReachInv /\ [OdometryNext]_odometryVars => OdometryTypeOK' /\ ReachInv'
  <2>. SUFFICES ASSUME OdometryTypeOK, ReachInv, [OdometryNext]_odometryVars PROVE OdometryTypeOK' /\ ReachInv'
    OBVIOUS
  <2>0. /\ now \in Nat /\ now >= Start /\ Start \in Nat \ {0} /\ MaxSpeed \in Nat
        /\ last = 0 \/ last \in Start .. now
        /\ pose \in Poses
    BY DEF OdometryTypeOK, OdometryAssumption, Poses
  <2>1. CASE MotionFrame
    <3>1. PICK vx \in Speeds, vy \in Speeds, wz \in Turns : pose' = Update(vx, vy, wz, Elapsed)
      BY <2>1 DEF MotionFrame
    <3>2. last' = now /\ now' = now  BY <2>1 DEF MotionFrame, Stamp
    <3>3. Elapsed \in Nat /\ (last = 0 => Elapsed = 0) /\ (last # 0 => Elapsed = now - last)
      BY <2>0 DEF Elapsed
    <3>4. /\ pose' \in Poses
          /\ Abs(pose'.x) + Abs(pose'.y) <= Abs(pose.x) + Abs(pose.y) + MaxSpeed * Elapsed
          /\ Elapsed = 0 => pose' = pose
      BY <2>0, <3>1, <3>3, UpdateReach
    <3>5. Abs(pose'.x) + Abs(pose'.y) <= MaxSpeed * (now - Start)
      <4>1. CASE last = 0
        <5>1. Abs(pose'.x) + Abs(pose'.y) = 0  BY <3>3, <3>4, <4>1 DEF ReachInv, Abs
        <5>2. MaxSpeed * (now - Start) >= 0  BY <2>0
        <5>. QED  BY <5>1, <5>2
      <4>2. CASE last # 0
        <5>1. MaxSpeed * (last - Start) + MaxSpeed * (now - last) = MaxSpeed * (now - Start)
          BY <2>0, <4>2
        <5>2. /\ Abs(pose.x) \in Nat /\ Abs(pose.y) \in Nat
              /\ Abs(pose'.x) \in Nat /\ Abs(pose'.y) \in Nat
          BY <2>0, <3>4, AbsType DEF Poses
        <5>3. /\ MaxSpeed * (last - Start) \in Int /\ MaxSpeed * (now - last) \in Int
              /\ MaxSpeed * (now - Start) \in Int
          BY <2>0, <4>2
        <5>4. Abs(pose.x) + Abs(pose.y) <= MaxSpeed * (last - Start)  BY <4>2 DEF ReachInv
        <5>. QED  BY <3>3, <3>4, <4>2, <5>1, <5>2, <5>3, <5>4
      <4>. QED  BY <4>1, <4>2
    <3>. QED  BY <2>0, <3>2, <3>4, <3>5 DEF OdometryTypeOK, ReachInv, Poses
  <2>2. CASE NextRead
    <3>1. now' \in Nat /\ now' >= now /\ last' = last /\ pose' = pose
      BY <2>0, <2>2 DEF NextRead, OdometryAssumption
    <3>. QED  BY <2>0, <3>1 DEF OdometryTypeOK, ReachInv, Poses
  <2>3. CASE UNCHANGED odometryVars  BY <2>3 DEF odometryVars, OdometryTypeOK, ReachInv
  <2>. QED  BY <2>1, <2>2, <2>3 DEF OdometryNext
<1>. QED  BY <1>1, <1>2, PTL DEF OdometrySpec

\* No burst of frames, no gap and no reconnection takes the pose further than
\* the robot can have gone: by ReachInv, since every frame moves the instant
\* from which the next one counts.
THEOREM WithinReachHolds == OdometrySpec => []WithinReach
<1>1. OdometryTypeOK /\ ReachInv => WithinReach
  <2>. SUFFICES ASSUME OdometryTypeOK, ReachInv PROVE WithinReach
    OBVIOUS
  <2>0. /\ now \in Nat /\ Start \in Nat /\ now >= Start /\ MaxSpeed \in Nat
        /\ last = 0 \/ last \in Start .. now
        /\ pose.x \in Int /\ pose.y \in Int
    BY OdometryAssumption DEF OdometryTypeOK, OdometryAssumption
  <2>1. CASE last = 0
    <3>1. MaxSpeed * (now - Start) >= 0  BY <2>0
    <3>. QED  BY <2>1, <3>1 DEF ReachInv, WithinReach, Abs
  <2>2. CASE last # 0
    <3>1. MaxSpeed * (last - Start) <= MaxSpeed * (now - Start)
      <4>1. (last - Start) * MaxSpeed <= (now - Start) * MaxSpeed
        BY <2>0, <2>2, ProductMonotone
      <4>. QED  BY <2>0, <2>2, <4>1
    <3>2. /\ Abs(pose.x) \in Nat /\ Abs(pose.y) \in Nat
          /\ MaxSpeed * (last - Start) \in Int /\ MaxSpeed * (now - Start) \in Int
      BY <2>0, <2>2, AbsType
    <3>. QED  BY <2>2, <3>1, <3>2 DEF ReachInv, WithinReach
  <2>. QED  BY <2>1, <2>2
<1>. QED  BY <1>1, OdometryInductive, PTL

\* The clock, the instant of the last frame and the pose keep to their types;
\* the yaw stays within one turn.
THEOREM OdometryTypeCorrect == OdometrySpec => []OdometryTypeOK
BY OdometryInductive, PTL

-----------------------------------------------------------------------------
(* SerialTransport.                                                        *)

\* The flags, and what is known of the flush, keep to their types.
FlagsInv == isOpen \in BOOLEAN /\ stuck \in BOOLEAN /\ flush \in Flushes

LEMMA TransportFlags == TransportSpec => []FlagsInv
<1>1. TransportInit => FlagsInv
  BY DEF TransportInit, FlagsInv, Flushes
<1>2. FlagsInv /\ [TransportNext]_transportVars => FlagsInv'
  BY Zenon DEF FlagsInv, Flushes, TransportNext, transportVars, portVars, Open, Close,
               FlushInput, ReadAvailable, Write, Arrive, LibraryCloses, Throws, ShortWrite
<1>. QED  BY <1>1, <1>2, PTL DEF TransportSpec

\* Of an open port: it is stuck or holds a descriptor; nothing old waits where
\* the flush took effect; an error is its own.  And what was read last was old
\* only where the flush did not take effect, or the port is stuck.
TransportInv ==
  /\ descriptors \in Nat /\ old \in Nat /\ new \in Nat
  /\ stuck => isOpen
  /\ flush = "due" => isOpen /\ ~stuck
  /\ isOpen => flush # "none" /\ (stuck \/ descriptors > 0)
  /\ isOpen /\ flush = "done" => old = 0
  /\ isOpen /\ lastError # "none" => flush = "threw" \/ stuck
  /\ result.stale \in Nat
  /\ result.stale # 0 => flush \in {"kept", "threw"} \/ stuck

\* A close leaves the port closed or stuck, and its descriptor released.
LEMMA AfterClose ==
  ASSUME FlagsInv, TransportInv, LibraryCloses
  PROVE  /\ isOpen' = stuck' /\ stuck' \in BOOLEAN /\ (stuck' => isOpen)
         /\ Held' = 0 /\ descriptors' = descriptors - Held
         /\ descriptors' \in Nat /\ descriptors' <= descriptors
<1>1. isOpen' = stuck' /\ stuck' \in BOOLEAN /\ (stuck' => isOpen)
  <2>1. stuck' \in {FALSE, isOpen} /\ isOpen' = stuck' /\ isOpen \in BOOLEAN
    BY DEF LibraryCloses, FlagsInv
  <2>2. CASE stuck' = FALSE
    BY <2>1, <2>2
  <2>3. CASE stuck' = isOpen
    BY <2>1, <2>3, Zenon
  <2>. QED  BY <2>1, <2>2, <2>3
<1>2. descriptors' = descriptors - Held
  BY DEF LibraryCloses
<1>3. Held \in {0, 1} /\ (Held = 1 => descriptors > 0)
  BY DEF Held, TransportInv
<1>. QED  BY <1>1, <1>2, <1>3 DEF Held, TransportInv

\* A read takes what is there, and what it takes is old only where old bytes
\* wait or the port is stuck.
LEMMA WhatIsTaken ==
  ASSUME TransportInv, NEW got \in Nat, Taken(got)
  PROVE  /\ old' \in Nat /\ new' \in Nat /\ old' <= old
         /\ Stale(got) \in Nat /\ (Stale(got) # 0 => stuck \/ old # 0)
BY DEF Taken, Stale, Smaller, TransportInv

\* How a read or a write may end.
LEMMA HowReadEnds ==
  ASSUME TransportAssumption, ReadAvailable
  PROVE  /\ flush # "due" /\ UNCHANGED flush
         /\ \/ /\ isOpen /\ UNCHANGED portVars
               /\ \E got \in Nat : Taken(got) /\ Returns("readAvailable", TRUE, Stale(got))
            \/ /\ isOpen /\ Throws /\ Answers("readAvailable", FALSE)
               /\ \E got \in Nat : Taken(got)
            \/ /\ ~isOpen /\ UNCHANGED <<portVars, old, new>>
               /\ Answers("readAvailable", FALSE)
<1>1. 0 .. ReadLimit \subseteq Nat
  BY DEF TransportAssumption
<1>. QED  BY <1>1, Zenon DEF ReadAvailable

LEMMA HowWriteEnds ==
  ASSUME Write
  PROVE  /\ flush # "due" /\ UNCHANGED <<old, new, flush>>
         /\ \/ isOpen /\ UNCHANGED portVars /\ Answers("write", TRUE)
            \/ /\ isOpen /\ LibraryCloses /\ Answers("write", FALSE)
               /\ \/ lastError' = "exception"
                  \/ lastError' = "short write" /\ ~isOpen'
            \/ /\ ~isOpen /\ UNCHANGED <<isOpen, stuck, descriptors>>
               /\ lastError' = "closed" /\ Answers("write", FALSE)
BY Zenon DEF Write, ShortWrite, Throws

LEMMA TransportInductive == TransportSpec => []TransportInv
<1>1. TransportInit => TransportInv
  BY DEF TransportInit, TransportInv
<1>2. FlagsInv /\ TransportInv /\ [TransportNext]_transportVars => TransportInv'
  <2>. SUFFICES ASSUME FlagsInv, TransportInv, [TransportNext]_transportVars PROVE TransportInv'
    OBVIOUS
  <2>. USE DEF Answers, Returns
  <2>1. CASE Open
    BY <2>1 DEF Open, TransportInv
  <2>2. ASSUME isOpen, LibraryCloses, UNCHANGED flush, flush # "due", result'.stale = 0,
               old' \in Nat, new' \in Nat, old' <= old
        PROVE  TransportInv'
    <3>1. isOpen' = stuck' /\ stuck' \in BOOLEAN /\ descriptors' \in Nat
      BY <2>2, AfterClose
    <3>. QED  BY <2>2, <3>1 DEF TransportInv
  <2>3. CASE Close
    <3>1. CASE isOpen
      BY <2>2, <2>3, <3>1 DEF Close, TransportInv
    <3>2. CASE ~isOpen
      <4>1. ~isOpen' /\ ~stuck' /\ descriptors' \in Nat
        BY <2>3, <3>2, AfterClose DEF Close
      <4>. QED  BY <2>3, <4>1 DEF Close, TransportInv
    <3>. QED  BY <3>1, <3>2
  <2>4. CASE FlushInput
    <3>1. CASE isOpen
      <4>1. flush = "due" /\ lastError = "none" /\ ~stuck
        BY <2>4, <3>1 DEF FlushInput, TransportInv
      <4>2. /\ flush' \in {"done", "kept", "threw"} /\ Flushed(flush')
            /\ lastError' = IF flush' = "threw" THEN "exception" ELSE lastError
            /\ result'.stale = 0 /\ UNCHANGED <<isOpen, stuck, descriptors>>
        BY <2>4, <3>1 DEF FlushInput
      <4>3. old' \in Nat /\ new' \in Nat /\ (flush' = "done" => old' = 0)
        BY <4>2 DEF Flushed, TransportInv
      <4>. QED  BY <4>1, <4>2, <4>3 DEF TransportInv
    <3>2. CASE ~isOpen
      BY <2>4, <3>2 DEF FlushInput, TransportInv
    <3>. QED  BY <3>1, <3>2
  <2>5. CASE ReadAvailable
    <3>1. flush # "due" /\ UNCHANGED flush
      BY <2>5, TransportAssumption, HowReadEnds
    <3>2. CASE isOpen /\ UNCHANGED portVars
               /\ \E got \in Nat : Taken(got) /\ Returns("readAvailable", TRUE, Stale(got))
      <4>1. PICK got \in Nat : Taken(got) /\ Returns("readAvailable", TRUE, Stale(got))
        BY <3>2
      <4>2. /\ old' \in Nat /\ new' \in Nat /\ old' <= old /\ result'.stale \in Nat
            /\ result'.stale # 0 => stuck \/ old # 0
        BY <4>1, WhatIsTaken
      <4>3. result'.stale # 0 => flush \in {"kept", "threw"} \/ stuck
        BY <3>1, <3>2, <4>2 DEF TransportInv, FlagsInv, Flushes
      <4>. QED  BY <3>1, <3>2, <4>2, <4>3 DEF portVars, TransportInv
    <3>3. CASE isOpen /\ Throws /\ Answers("readAvailable", FALSE) /\ \E got \in Nat : Taken(got)
      <4>1. PICK got \in Nat : Taken(got)
        BY <3>3
      <4>2. old' \in Nat /\ new' \in Nat /\ old' <= old
        BY <4>1, WhatIsTaken
      <4>. QED  BY <2>2, <3>1, <3>3, <4>2 DEF Throws
    <3>4. CASE ~isOpen /\ UNCHANGED <<portVars, old, new>> /\ Answers("readAvailable", FALSE)
      BY <3>1, <3>4 DEF portVars, TransportInv
    <3>. QED  BY <2>5, <3>2, <3>3, <3>4, TransportAssumption, HowReadEnds
  <2>6. CASE Write
    <3>1. flush # "due" /\ UNCHANGED <<old, new, flush>>
      BY <2>6, HowWriteEnds
    <3>2. CASE isOpen /\ UNCHANGED portVars /\ Answers("write", TRUE)
      BY <3>1, <3>2 DEF portVars, TransportInv
    <3>3. CASE isOpen /\ LibraryCloses /\ Answers("write", FALSE)
      BY <2>2, <3>1, <3>3 DEF TransportInv
    <3>4. CASE ~isOpen /\ UNCHANGED <<isOpen, stuck, descriptors>> /\ Answers("write", FALSE)
      BY <3>1, <3>4 DEF TransportInv
    <3>. QED  BY <2>6, <3>2, <3>3, <3>4, HowWriteEnds
  <2>7. CASE Arrive
    BY <2>7 DEF Arrive, portVars, TransportInv
  <2>8. CASE UNCHANGED transportVars
    BY <2>8 DEF transportVars, TransportInv
  <2>. QED  BY <2>1, <2>3, <2>4, <2>5, <2>6, <2>7, <2>8 DEF TransportNext
<1>. QED  BY <1>1, <1>2, TransportFlags, PTL DEF TransportSpec

\* A byte that came before the flush of this connection is read only where the
\* flush did not take effect or the port could not be closed; every other way
\* in which a call may fail leaves the router with new bytes only.
THEOREM OldBytesNeedFailureHolds == TransportSpec => []OldBytesNeedFailure
<1>1. TransportInv => OldBytesNeedFailure
  BY DEF TransportInv, OldBytesNeedFailure
<1>. QED  BY <1>1, TransportInductive, PTL

\* The error of a connection that was given up does not outlive it: what an
\* open port shows is that its own flush threw, or that it could not be closed.
THEOREM ErrorIsCurrentHolds == TransportSpec => []ErrorIsCurrent
<1>1. TransportInv => ErrorIsCurrent
  BY DEF TransportInv, ErrorIsCurrent
<1>. QED  BY <1>1, TransportInductive, PTL

\* However the library's calls end, the close included, SerialTransport answers
\* as IByteTransport promises the worker: a read or write that answers no has
\* closed the port, or the port is stuck.
THEOREM TransportImplements == TransportSpec => KeepsContract
<1>1. TransportInit => Contract!Init
  BY DEF TransportInit, Contract!Init
<1>2. FlagsInv /\ TransportInv /\ [TransportNext]_transportVars
        => [Contract!Next]_(Contract!transport)
  <2>. SUFFICES ASSUME FlagsInv, TransportInv, [TransportNext]_transportVars
                PROVE  [Contract!Next]_(Contract!transport)
    OBVIOUS
  <2>1. ASSUME NEW call, NEW ok, NEW n, Returns(call, ok, n)
        PROVE  Contract!Answers(call, ok)
    BY <2>1 DEF Returns, Contract!Answers
  <2>2. ASSUME LibraryCloses PROVE Contract!Closed
    BY <2>2, AfterClose DEF Contract!Closed
  <2>. USE DEF Answers
  <2>3. CASE Open
    BY <2>1, <2>3 DEF Open, Contract!Next, Contract!Open
  <2>4. CASE Close
    BY <2>1, <2>2, <2>4 DEF Close, Contract!Next, Contract!Close
  <2>5. CASE FlushInput
    <3>1. \E ok \in {TRUE, FALSE} : (ok => isOpen) /\ Answers("flushInput", ok)
      <4>1. CASE isOpen /\ Answers("flushInput", flush' # "threw")
        <5>1. (flush' # "threw") \in {TRUE, FALSE}
          OBVIOUS
        <5>. QED  BY <4>1, <5>1
      <4>2. CASE ~isOpen /\ Answers("flushInput", FALSE)
        BY <4>2
      <4>. QED  BY <2>5, <4>1, <4>2 DEF FlushInput
    <3>2. UNCHANGED <<isOpen, stuck>>
      BY <2>5 DEF FlushInput
    <3>. QED  BY <2>1, <3>1, <3>2 DEF Contract!Next, Contract!FlushInput
  <2>6. CASE ReadAvailable
    <3>1. \/ isOpen /\ UNCHANGED <<isOpen, stuck>> /\ Contract!Answers("readAvailable", TRUE)
          \/ Contract!Closed /\ Contract!Answers("readAvailable", FALSE)
      <4>1. CASE isOpen /\ UNCHANGED portVars
                 /\ \E got \in Nat : Taken(got) /\ Returns("readAvailable", TRUE, Stale(got))
        BY <2>1, <4>1 DEF portVars
      <4>2. CASE isOpen /\ Throws /\ Answers("readAvailable", FALSE)
        BY <2>1, <2>2, <4>2 DEF Throws
      <4>3. CASE ~isOpen /\ UNCHANGED <<portVars, old, new>> /\ Answers("readAvailable", FALSE)
        <5>1. Contract!Closed
          BY <4>3 DEF portVars, Contract!Closed, TransportInv, FlagsInv
        <5>. QED  BY <2>1, <4>3, <5>1
      <4>. QED  BY <2>6, <4>1, <4>2, <4>3, TransportAssumption, HowReadEnds
    <3>. QED  BY <3>1 DEF Contract!Next, Contract!ReadOrWrite
  <2>7. CASE Write
    <3>1. \/ isOpen /\ UNCHANGED <<isOpen, stuck>> /\ Contract!Answers("write", TRUE)
          \/ Contract!Closed /\ Contract!Answers("write", FALSE)
      <4>1. CASE isOpen /\ UNCHANGED portVars /\ Answers("write", TRUE)
        BY <2>1, <4>1 DEF portVars
      <4>2. CASE isOpen /\ LibraryCloses /\ Answers("write", FALSE)
        BY <2>1, <2>2, <4>2
      <4>3. CASE ~isOpen /\ UNCHANGED <<isOpen, stuck, descriptors>> /\ Answers("write", FALSE)
        <5>1. Contract!Closed
          BY <4>3 DEF Contract!Closed, TransportInv, FlagsInv
        <5>. QED  BY <2>1, <4>3, <5>1
      <4>. QED  BY <2>7, <4>1, <4>2, <4>3, HowWriteEnds
    <3>. QED  BY <3>1 DEF Contract!Next, Contract!ReadOrWrite
  <2>8. CASE Arrive \/ UNCHANGED transportVars
    BY <2>8 DEF Arrive, transportVars, portVars, Contract!transport
  <2>. QED  BY <2>3, <2>4, <2>5, <2>6, <2>7, <2>8 DEF TransportNext
<1>. QED
  BY <1>1, <1>2, TransportFlags, TransportInductive, PTL
  DEF TransportSpec, KeepsContract, Contract!Spec

\* A descriptor is lost in one place only, the open() that fails half way.
THEOREM LeaksOnlyInOpenHolds == TransportSpec => LeaksOnlyInOpen
<1>1. FlagsInv /\ TransportInv /\ [TransportNext]_transportVars
        => [Leaked' # Leaked => result'.call = "open" /\ ~result'.ok]_transportVars
  <2>. SUFFICES ASSUME FlagsInv, TransportInv, TransportNext
                PROVE  Leaked' # Leaked => result'.call = "open" /\ ~result'.ok
    OBVIOUS
  <2>1. CASE Open
    BY <2>1 DEF Open, Answers, Returns, Leaked, Held, TransportInv
  <2>2. CASE LibraryCloses
    <3>1. Held' = 0 /\ descriptors' = descriptors - Held /\ descriptors' \in Nat
      BY <2>2, AfterClose
    <3>. QED  BY <3>1 DEF Leaked
  <2>3. CASE UNCHANGED <<isOpen, stuck, descriptors>>
    BY <2>3 DEF Leaked, Held
  <2>4. Open \/ LibraryCloses \/ UNCHANGED <<isOpen, stuck, descriptors>>
    BY Zenon DEF TransportNext, portVars, Close, FlushInput, ReadAvailable, Write, Arrive,
                 ShortWrite, Throws
  <2>. QED  BY <2>1, <2>2, <2>3, <2>4
<1>. QED  BY <1>1, TransportFlags, TransportInductive, PTL DEF TransportSpec, LeaksOnlyInOpen

\* The process never has more descriptors than it may.
DescriptorsInv == descriptors <= MaxDescriptors

LEMMA DescriptorsInductive == TransportSpec => []DescriptorsInv
<1>. USE TransportAssumption DEF TransportAssumption, DescriptorsInv
<1>1. TransportInit => DescriptorsInv
  BY DEF TransportInit
<1>2. FlagsInv /\ TransportInv /\ DescriptorsInv /\ [TransportNext]_transportVars
        => DescriptorsInv'
  <2>. SUFFICES ASSUME FlagsInv, TransportInv, DescriptorsInv, [TransportNext]_transportVars
                PROVE  DescriptorsInv'
    OBVIOUS
  <2>0. descriptors \in Nat
    BY DEF TransportInv
  <2>1. CASE Open
    BY <2>0, <2>1 DEF Open
  <2>2. CASE LibraryCloses
    <3>1. descriptors' \in Nat /\ descriptors' <= descriptors
      BY <2>2, AfterClose
    <3>. QED  BY <2>0, <3>1
  <2>3. CASE UNCHANGED descriptors
    BY <2>3
  <2>4. LibraryCloses \/ Open \/ UNCHANGED descriptors
    BY Zenon DEF TransportNext, transportVars, portVars, Close, FlushInput, ReadAvailable,
                 Write, Arrive, ShortWrite, Throws
  <2>. QED  BY <2>1, <2>2, <2>3, <2>4
<1>. QED  BY <1>1, <1>2, TransportFlags, TransportInductive, PTL DEF TransportSpec

\* The error and the answer are those that the methods know.
ErrorTexts == {"none", "exception", "short write", "closed"}
Calls == {"none", "open", "close", "flushInput", "readAvailable", "write"}

AnswersInv == lastError \in ErrorTexts /\ result \in [call : Calls, ok : BOOLEAN, stale : Nat]

LEMMA AnswersInductive == TransportSpec => []AnswersInv
<1>1. TransportInit => AnswersInv
  BY DEF TransportInit, AnswersInv, ErrorTexts, Calls
<1>2. FlagsInv' /\ TransportInv /\ AnswersInv /\ [TransportNext]_transportVars => AnswersInv'
  <2>. SUFFICES ASSUME FlagsInv', TransportInv, AnswersInv, [TransportNext]_transportVars
                PROVE  AnswersInv'
    OBVIOUS
  <2>1. lastError' \in ErrorTexts
    BY Zenon DEF AnswersInv, ErrorTexts, TransportNext, transportVars, portVars, Open, Close,
                 FlushInput, ReadAvailable, Write, Arrive, ShortWrite, Throws
  <2>2. ASSUME NEW call \in Calls, NEW ok \in BOOLEAN, NEW n \in Nat, Returns(call, ok, n)
        PROVE  result' \in [call : Calls, ok : BOOLEAN, stale : Nat]
    BY <2>2 DEF Returns
  <2>3. result' \in [call : Calls, ok : BOOLEAN, stale : Nat]
    <3>. USE DEF Answers
    <3>1. CASE Open
      <4>1. Returns("open", isOpen', 0) /\ isOpen' \in BOOLEAN
        BY <3>1 DEF Open, FlagsInv
      <4>. QED  BY <2>2, <4>1 DEF Calls
    <3>2. CASE Close
      BY <2>2, <3>2 DEF Close, Calls
    <3>3. CASE FlushInput
      <4>1. Returns("flushInput", flush' # "threw", 0) \/ Returns("flushInput", FALSE, 0)
        BY <3>3 DEF FlushInput
      <4>2. (flush' # "threw") \in BOOLEAN
        OBVIOUS
      <4>. QED  BY <2>2, <4>1, <4>2 DEF Calls
    <3>4. CASE ReadAvailable
      <4>1. CASE \E got \in Nat : Taken(got) /\ Returns("readAvailable", TRUE, Stale(got))
        <5>1. PICK got \in Nat : Taken(got) /\ Returns("readAvailable", TRUE, Stale(got))
          BY <4>1
        <5>2. Stale(got) \in Nat
          BY <5>1, WhatIsTaken
        <5>. QED  BY <2>2, <5>1, <5>2 DEF Calls
      <4>2. CASE Returns("readAvailable", FALSE, 0)
        BY <2>2, <4>2 DEF Calls
      <4>. QED  BY <3>4, <4>1, <4>2, TransportAssumption, HowReadEnds
    <3>5. CASE Write
      <4>1. Returns("write", TRUE, 0) \/ Returns("write", FALSE, 0)
        BY <3>5, HowWriteEnds
      <4>. QED  BY <2>2, <4>1 DEF Calls
    <3>6. CASE Arrive \/ UNCHANGED transportVars
      BY <3>6 DEF Arrive, transportVars, AnswersInv
    <3>. QED  BY <3>1, <3>2, <3>3, <3>4, <3>5, <3>6 DEF TransportNext
  <2>. QED  BY <2>1, <2>3 DEF AnswersInv
<1>. QED  BY <1>1, <1>2, TransportFlags, TransportInductive, PTL DEF TransportSpec

\* Descriptors within the limit, and errors, calls and answers of the methods.
LEMMA TransportTypeCorrect == TransportSpec => []TransportTypeOK
<1>1. FlagsInv /\ TransportInv /\ DescriptorsInv /\ AnswersInv => TransportTypeOK
  <2>. SUFFICES ASSUME FlagsInv, TransportInv, DescriptorsInv, AnswersInv PROVE TransportTypeOK
    OBVIOUS
  <2>1. descriptors \in 0 .. MaxDescriptors
    BY TransportAssumption DEF TransportAssumption, TransportInv, DescriptorsInv
  <2>. QED
    BY <2>1, Zenon
    DEF TransportTypeOK, TransportInv, FlagsInv, AnswersInv, ErrorTexts, Calls
<1>. QED
  BY <1>1, TransportFlags, TransportInductive, DescriptorsInductive, AnswersInductive, PTL

-----------------------------------------------------------------------------
(* DepthCloudFilter.                                                       *)

\* What is in the callback began no earlier than a period after the one before,
\* and the second but last was published before that one began.
RateInv ==
  /\ lastPublish \in 0 .. Period
  /\ recent \in [1 .. 2 -> 0 .. Period]
  /\ recent[2] >= lastPublish
  /\ Busy => /\ busy.since \in Nat
             /\ recent[2] >= Period
             /\ recent[1] >= busy.since \/ recent[1] = Period

LEMMA RateInductive == FilterSpec => []RateInv
<1>. USE FilterAssumption DEF FilterAssumption, RateInv
<1>1. FilterInit => RateInv
  BY DEF FilterInit, Busy
<1>2. RateInv /\ [FilterNext]_filterVars => RateInv'
  <2>. SUFFICES ASSUME RateInv, [FilterNext]_filterVars PROVE RateInv'
    OBVIOUS
  <2>1. CASE CameraPublishes
    BY <2>1 DEF CameraPublishes, Busy
  <2>2. CASE OnCloud
    BY <2>2 DEF OnCloud, Busy
  <2>3. CASE Discard
    BY <2>3 DEF Discard, Busy
  <2>4. CASE Publish
    BY <2>4 DEF Publish, LastPublishAfter, Busy
  <2>5. CASE FilterElapse
    BY <2>5 DEF FilterElapse, Busy
  <2>6. CASE UNCHANGED filterVars
    BY <2>6 DEF filterVars, Busy
  <2>. QED  BY <2>1, <2>2, <2>3, <2>4, <2>5, <2>6 DEF FilterNext
<1>. QED  BY <1>1, <1>2, PTL DEF FilterSpec

\* However long the callbacks take, of three publications the first is a period
\* before the last.
THEOREM NoThirdInPeriodHolds == FilterSpec => NoThirdInPeriod
<1>1. RateInv /\ [FilterNext]_filterVars => [Publish => recent[2] >= Period]_filterVars
  BY DEF RateInv, Publish
<1>. QED  BY <1>1, RateInductive, PTL DEF FilterSpec, NoThirdInPeriod

\* What waits came during the callback, or during the last one.
AgeInv ==
  /\ \/ waiting = <<>>
     \/ \E a \in Nat : waiting = <<a>> /\ a <= (IF Busy THEN busy.since ELSE MaxCallback)
  /\ Busy => /\ busy.age \in Nat /\ busy.since \in 0 .. MaxCallback
             /\ busy.age <= MaxCallback + busy.since

\* A queue of one cloud keeps the later of two.
LEMMA OnlyTheNewest ==
  ASSUME NEW a \in Nat, NEW b \in Nat
  PROVE  KeepLastOne(Append(<<a>>, b)) = <<b>>
<1>. DEFINE q == <<a>>
<1>1. q \in Seq(Nat)  OBVIOUS
<1>2. Len(q) = 1 /\ q # <<>> /\ Tail(q) = <<>>  OBVIOUS
<1>3. Append(<<>>, b) = <<b>>  OBVIOUS
<1>. HIDE DEF q
<1>4. Len(Append(q, b)) = Len(q) + 1  BY <1>1
<1>5. Tail(Append(q, b)) = <<b>>
  <2>1. q # <<>>  BY <1>2
  <2>2. Tail(Append(q, b)) = Append(Tail(q), b)  BY <1>1, <2>1
  <2>. QED  BY <1>2, <1>3, <2>2
<1>6. Len(Append(q, b)) > 1  BY <1>2, <1>4
<1>7. KeepLastOne(Append(q, b)) = <<b>>  BY <1>5, <1>6 DEF KeepLastOne
<1>. QED  BY <1>7 DEF q

LEMMA AgeInductive == FilterSpec => []AgeInv
<1>. USE FilterAssumption DEF FilterAssumption
<1>1. FilterInit => AgeInv
  BY DEF FilterInit, AgeInv, Busy
<1>2. AgeInv /\ [FilterNext]_filterVars => AgeInv'
  <2>. SUFFICES ASSUME AgeInv, [FilterNext]_filterVars PROVE AgeInv'
    OBVIOUS
  <2>. USE DEF AgeInv
  <2>1. CASE CameraPublishes
    <3>1. waiting' = <<0>>
      <4>1. CASE waiting = <<>>
        BY <2>1, <4>1 DEF CameraPublishes, KeepLastOne
      <4>2. ASSUME NEW a \in Nat, waiting = <<a>> PROVE waiting' = <<0>>
        BY <2>1, <4>2, OnlyTheNewest DEF CameraPublishes
      <4>. QED  BY <4>1, <4>2
    <3>. QED  BY <2>1, <3>1 DEF CameraPublishes, Busy
  <2>2. CASE OnCloud
    <3>1. PICK a \in Nat : waiting = <<a>> /\ a <= MaxCallback
      BY <2>2 DEF OnCloud
    <3>2. waiting' = <<>> /\ Head(waiting) = a
      BY <2>2, <3>1 DEF OnCloud
    <3>. QED  BY <2>2, <3>1, <3>2 DEF OnCloud, Busy
  <2>3. CASE Discard \/ Publish
    BY <2>3 DEF Discard, Publish, Busy
  <2>4. CASE FilterElapse
    <3>1. CASE waiting = <<>>
      <4>1. waiting' = <<>>
        BY <2>4, <3>1 DEF FilterElapse
      <4>. QED  BY <2>4, <4>1 DEF FilterElapse, Busy
    <3>2. CASE waiting # <<>>
      <4>1. PICK a \in Nat : waiting = <<a>> /\ a <= busy.since
        BY <2>4, <3>2 DEF FilterElapse
      <4>2. waiting' = <<a + 1>>
        BY <2>4, <4>1 DEF FilterElapse
      <4>3. Busy /\ busy.since < MaxCallback
        BY <2>4, <3>2 DEF FilterElapse
      <4>4. busy' = [age |-> busy.age + 1, since |-> busy.since + 1]
        BY <2>4, <4>3 DEF FilterElapse
      <4>5. busy'.age <= MaxCallback + busy'.since /\ busy'.age \in Nat /\ busy'.since \in 0 .. MaxCallback
        BY <4>3, <4>4
      <4>6. Busy' /\ a + 1 \in Nat /\ a + 1 <= busy'.since
        BY <4>1, <4>3, <4>4, <4>5 DEF Busy, NoCloud
      <4>. QED  BY <4>2, <4>5, <4>6
    <3>. QED  BY <3>1, <3>2
  <2>5. CASE UNCHANGED filterVars
    BY <2>5 DEF filterVars, Busy
  <2>. QED  BY <2>1, <2>2, <2>3, <2>4, <2>5 DEF FilterNext
<1>. QED  BY <1>1, <1>2, PTL DEF FilterSpec

\* No cloud is published more than two callbacks after it was taken.
THEOREM CloudsAreNewHolds == FilterSpec => []CloudsAreNew
<1>1. AgeInv => CloudsAreNew
  BY FilterAssumption DEF FilterAssumption, AgeInv, CloudsAreNew, MaxAge
<1>. QED  BY <1>1, AgeInductive, PTL

\* What is in the callback is a cloud, or nothing is.
BusyInv == busy \in [age : Nat, since : 0 .. MaxCallback] \cup {NoCloud}

LEMMA BusyInductive == FilterSpec => []BusyInv
<1>. USE FilterAssumption DEF FilterAssumption
<1>1. FilterInit => BusyInv
  BY DEF FilterInit, BusyInv
<1>2. AgeInv /\ BusyInv /\ [FilterNext]_filterVars => BusyInv'
  <2>. SUFFICES ASSUME AgeInv, BusyInv, [FilterNext]_filterVars PROVE BusyInv'
    OBVIOUS
  <2>. USE DEF BusyInv
  <2>1. CASE CameraPublishes
    BY <2>1 DEF CameraPublishes
  <2>2. CASE OnCloud
    <3>1. PICK a \in Nat : waiting = <<a>>
      BY <2>2 DEF OnCloud, AgeInv
    <3>2. Head(waiting) = a
      BY <3>1
    <3>. QED  BY <2>2, <3>1, <3>2 DEF OnCloud
  <2>3. CASE Discard \/ Publish
    BY <2>3 DEF Discard, Publish
  <2>4. CASE FilterElapse
    <3>1. CASE ~Busy
      BY <2>4, <3>1 DEF FilterElapse
    <3>2. CASE Busy
      <4>1. busy.age \in Nat /\ busy.since \in 0 .. MaxCallback /\ busy.since < MaxCallback
        BY <2>4, <3>2 DEF FilterElapse, Busy
      <4>2. busy' = [age |-> busy.age + 1, since |-> busy.since + 1]
        BY <2>4, <3>2 DEF FilterElapse
      <4>3. busy.age + 1 \in Nat /\ busy.since + 1 \in 0 .. MaxCallback
        BY <4>1
      <4>. QED  BY <4>2, <4>3
    <3>. QED  BY <3>1, <3>2
  <2>5. CASE UNCHANGED filterVars
    BY <2>5 DEF filterVars
  <2>. QED  BY <2>1, <2>2, <2>3, <2>4, <2>5 DEF FilterNext
<1>. QED  BY <1>1, <1>2, AgeInductive, PTL DEF FilterSpec

\* Between two steps one cloud waits at most, and the one in the callback has
\* an age.
LEMMA FilterTypeCorrect == FilterSpec => []FilterTypeOK
<1>. USE FilterAssumption DEF FilterAssumption
<1>1. AgeInv /\ RateInv /\ BusyInv => FilterTypeOK
  <2>. SUFFICES ASSUME AgeInv, RateInv, BusyInv PROVE FilterTypeOK
    OBVIOUS
  <2>1. waiting \in Seq(Nat) /\ Len(waiting) <= 1
    <3>1. CASE waiting = <<>>
      BY <3>1
    <3>2. ASSUME NEW a \in Nat, waiting = <<a>> PROVE waiting \in Seq(Nat) /\ Len(waiting) <= 1
      BY <3>2
    <3>. QED  BY <3>1, <3>2 DEF AgeInv
  <2>. QED  BY <2>1 DEF FilterTypeOK, RateInv, BusyInv
<1>. QED  BY <1>1, RateInductive, AgeInductive, BusyInductive, PTL

-----------------------------------------------------------------------------
(* Parts.                                                                  *)

\* A behaviour of the five parts is one of each of them.
LEMMA EachPart ==
  PartsSpec => TransportSpec /\ RouterSpec /\ CodecsSpec /\ OdometrySpec /\ FilterSpec
<1>1. PartsInit => TransportInit /\ RouterInit /\ CodecsInit /\ OdometryInit /\ FilterInit
  BY DEF PartsInit
<1>. DEFINE partsVars == <<part, transportVars, routerVars, codecVars, odometryVars, filterVars>>
<1>2. [PartsNext]_partsVars =>
        /\ [TransportNext]_transportVars /\ [RouterNext]_routerVars /\ [CodecsNext]_codecVars
        /\ [OdometryNext]_odometryVars /\ [FilterNext]_filterVars
  BY Zenon DEF PartsNext
<1>. QED
  BY <1>1, <1>2, PTL
  DEF PartsSpec, TransportSpec, RouterSpec, CodecsSpec, OdometrySpec, FilterSpec

\* Every variable of the five parts keeps to its type.
THEOREM PartsTypeCorrect == PartsSpec => []PartsTypeOK
<1>1. TransportTypeOK /\ RouterTypeOK /\ OdometryTypeOK /\ FilterTypeOK => PartsTypeOK
  BY DEF PartsTypeOK
<1>. QED
  BY <1>1, EachPart, TransportTypeCorrect, RouterTypeCorrect, OdometryTypeCorrect,
     FilterTypeCorrect, PTL

\* What is proved of each part holds of the five together.
THEOREM PartsCorrect ==
  PartsSpec =>
    /\ [](NoFrameSkipped /\ FramesDisjoint /\ BytesAccounted)
    /\ [](VelocityAccurate /\ UnderstoodAsMeant)
    /\ [](OldBytesNeedFailure /\ ErrorIsCurrent) /\ KeepsContract /\ LeaksOnlyInOpen
    /\ []WithinReach
    /\ []CloudsAreNew /\ NoThirdInPeriod
BY EachPart, NoFrameSkippedHolds, FramesDisjointHolds, BytesAccountedHolds,
   VelocityAccurateHolds, UnderstoodAsMeantHolds,
   OldBytesNeedFailureHolds, ErrorIsCurrentHolds, TransportImplements, LeaksOnlyInOpenHolds,
   WithinReachHolds, CloudsAreNewHolds, NoThirdInPeriodHolds, PTL
=============================================================================
