----------------------------- MODULE FrameCodecs -----------------------------
(***************************************************************************)
(* The protocols: the frames that MotionProtocol and                       *)
(* DeviceControlProtocol write, and what MotionProtocol,                   *)
(* UltrasonicProtocol and ChargingProtocol read from the frames of the     *)
(* controller.  A frame is a sequence of bytes, numbered from 1 where the  *)
(* code counts from 0.                                                     *)
(*                                                                         *)
(* A velocity is counted in tenths of a millimetre (or milliradian) per    *)
(* second.  A decoded quantity stays in the unit of the frame: the factors *)
(* that turn it into metres and seconds are left out.  How the controller  *)
(* composes its frames is not in the repository: FeedbackFrame is the      *)
(* counterpart that decode() implies.                                      *)
(***************************************************************************)
EXTENDS Checksum, Integers

CONSTANTS
  Velocities,     \* the velocities that may be asked for, in tenths
  NonFinite,      \* a NaN or infinite velocity
  Colours,        \* the values of a colour of the light
  Quantities,     \* 16-bit quantities that the controller may report
  RechargeFlag,   \* recharge_flag
  ReservedByte    \* motion.reserved_byte

ASSUME CodecAssumption ==
  /\ Velocities \subseteq Int /\ NonFinite \notin Int
  /\ Colours \subseteq 0 .. 255
  /\ \A q \in Quantities : q \in Int /\ q >= -32768 /\ q <= 32767
  /\ RechargeFlag = 0 /\ ReservedByte \in 0 .. 255 \ {176, 177}

VARIABLES
  written,  \* a request and the frame it was turned into
  feedback  \* a frame's content as the controller meant it and as it was read

codecVars == <<written, feedback>>

Refused == <<>>
Nothing == [request |-> [type |-> "None"], frame |-> Refused]
NoFeedback == [meant |-> <<>>, read |-> <<>>]

-----------------------------------------------------------------------------
Header == 123
Tailer == 125

\* Mutation: the fraction is cut off.
Truncated(v) == IF v >= 0 THEN v \div 10 ELSE -(-v \div 10)

\* std::round goes away from zero at a half.
Rounded(v) == IF v >= 0 THEN (v + 5) \div 10 ELSE -((-v + 5) \div 10)

Encodable(v) == v # NonFinite /\ Rounded(v) >= -32768 /\ Rounded(v) <= 32767

\* Two's complement, the high byte first.
Put(r) == <<(r % 65536) \div 256, r % 256>>

U16(h, l) == h * 256 + l

I16(h, l) == IF h < 128 THEN U16(h, l) ELSE U16(h, l) - 65536

Closed(body) ==
  LET nine == <<Header>> \o body IN nine \o <<XorBcc(nine), Tailer>>

-----------------------------------------------------------------------------
EncodeVelocity(vx, vy, wz) ==
  IF Encodable(vx) /\ Encodable(vy) /\ Encodable(wz)
  THEN Closed(<<RechargeFlag, ReservedByte>>
              \o Put(Rounded(vx)) \o Put(Rounded(vy)) \o Put(Rounded(wz)))
  ELSE Refused

\* Mutation: the frame lacks the byte that marks it.
SetRechargeUnmarked(e) == Closed(<<0, IF e THEN 161 ELSE 160, 0, 0, 0, 0, 0, 0>>)

SetRechargeEnabled(e) == Closed(<<1, IF e THEN 161 ELSE 160, 0, 0, 0, 0, 0, 0>>)

SetMcuSafetyEnabled(e) == Closed(<<0, IF e THEN 177 ELSE 176, 0, 0, 0, 0, 0, 0>>)

SetLight(e, r, g, b) == Closed(<<4, IF e THEN 1 ELSE 0, r, g, b, 0, 0, 0>>)

Requests ==
  [type : {"Motion"}, content : (Velocities \cup {NonFinite}) \X Velocities \X Velocities]
  \cup [type : {"Recharge", "McuSafety"}, content : BOOLEAN \X {0}]
  \cup [type : {"Light"}, content : BOOLEAN \X Colours \X Colours \X Colours]

Frame(r) ==
  LET c == r.content
  IN  CASE r.type = "Motion"    -> EncodeVelocity(c[1], c[2], c[3])
        [] r.type = "Recharge"  -> SetRechargeEnabled(c[1])
        [] r.type = "McuSafety" -> SetMcuSafetyEnabled(c[1])
        [] r.type = "Light"     -> SetLight(c[1], c[2], c[3], c[4])

-----------------------------------------------------------------------------
\* The quantities of a frame: which bytes they are in, and which are unsigned.
MotionLayout == [at |-> [i \in 1 .. 10 |-> 2 * i + 1], unsigned |-> {10}, size |-> 24]
UltrasonicLayout == [at |-> [i \in 1 .. 6 |-> 2 * i], unsigned |-> {}, size |-> 19]
ChargingLayout == [at |-> <<2>>, unsigned |-> {1}, size |-> 8]

\* The three decode(): of the flags of the motion and the charging frames,
\* single bytes taken as they are, nothing.
Decoded(layout, bytes) ==
  [i \in DOMAIN layout.at |->
     LET h == bytes[layout.at[i]]
         l == bytes[layout.at[i] + 1]
     IN  IF i \in layout.unsigned THEN U16(h, l) ELSE I16(h, l)]

\* The controller's side.
FeedbackFrame(layout, quantities) ==
  [n \in 1 .. layout.size |->
     IF \E i \in DOMAIN layout.at : n = layout.at[i]
     THEN Put(quantities[CHOOSE i \in DOMAIN layout.at : n = layout.at[i]])[1]
     ELSE IF \E i \in DOMAIN layout.at : n = layout.at[i] + 1
     THEN Put(quantities[CHOOSE i \in DOMAIN layout.at : n = layout.at[i] + 1])[2]
     ELSE 0]

-----------------------------------------------------------------------------
\* The protocols have no state: between two calls nothing is left.
Idle == written = Nothing /\ feedback = NoFeedback

CodecsInit == Idle

WriteRequest ==
  /\ Idle
  /\ \E r \in Requests : written' = [request |-> r, frame |-> Frame(r)]
  /\ UNCHANGED feedback

\* A frame with two quantities in turn, and a third that follows from one of
\* them: neighbours differ, so that a byte out of place shows.
Reading(layout, a, b) ==
  LET quantities == [i \in DOMAIN layout.at |->
                       LET q == IF i % 3 = 0 THEN a ELSE IF i % 3 = 1 THEN b ELSE -a - 1
                       IN  IF i \in layout.unsigned THEN q % 65536 ELSE q]
  IN  [meant |-> quantities, read |-> Decoded(layout, FeedbackFrame(layout, quantities))]

ReadFeedback ==
  /\ Idle
  /\ \E layout \in {MotionLayout, UltrasonicLayout, ChargingLayout}, a, b \in Quantities :
       feedback' = Reading(layout, a, b)
  /\ UNCHANGED written

Return ==
  /\ ~Idle
  /\ written' = Nothing /\ feedback' = NoFeedback

CodecsNext == WriteRequest \/ ReadFeedback \/ Return

CodecsSpec == CodecsInit /\ [][CodecsNext]_codecVars

-----------------------------------------------------------------------------
\* The velocity that a frame carries, axis by axis.
Carried(frame) == [i \in 1 .. 3 |-> I16(frame[2 * i + 2], frame[2 * i + 3])]

Near(v, r) == v # NonFinite /\ v - 10 * r \in -5 .. 5

Beyond(v) == v = NonFinite \/ v >= 327675 \/ v <= -327685

\* A velocity goes out within half a millimetre per second of what was asked
\* for, and is refused exactly when an axis is half of one or more beyond the
\* 16-bit numbers: at the limits the rounding decides, and no velocity wraps
\* around into the opposite direction.
VelocityAccurate ==
  written.request.type = "Motion" =>
    LET c == written.request.content
    IN  IF written.frame # Refused
        THEN \A i \in 1 .. 3 : Near(c[i], Carried(written.frame)[i])
        ELSE \E i \in 1 .. 3 : Beyond(c[i])

\* What the two bytes behind the header make of a frame.
Understood(frame) ==
  CASE frame[2] = 1 -> [type |-> "Recharge", content |-> <<frame[3] = 161, 0>>]
    [] frame[2] = 4 -> [type |-> "Light", content |-> <<frame[3] = 1, frame[4], frame[5], frame[6]>>]
    [] frame[2] = 0 /\ frame[3] \in {176, 177} ->
         [type |-> "McuSafety", content |-> <<frame[3] = 177, 0>>]
    [] OTHER -> [type |-> "Motion", content |-> Carried(frame)]

\* Every frame can be told from those of the other requests, and the requests
\* to a device are there in full: motion uses for its velocity the bytes that
\* a light uses for its colour, and for its reserved byte the one by which
\* recharging and MCU safety are switched.  The other way, a quantity of the
\* controller is read with its sign and from its bytes.
UnderstoodAsMeant ==
  /\ written.frame # Refused =>
       IF written.request.type = "Motion"
       THEN Understood(written.frame).type = "Motion"
       ELSE Understood(written.frame) = written.request
  /\ feedback.read = feedback.meant
=============================================================================
