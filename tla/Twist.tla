-------------------------------- MODULE Twist --------------------------------
(***************************************************************************)
(* The velocity messages that travel from a source over /cmd_vel/*,        *)
(* /control/cmd_vel and /base/safe_cmd_vel.  v is the forward velocity;    *)
(* the other axes share its fate and are left out.  from and age are       *)
(* history: the source that issued the command, and how long ago.          *)
(*                                                                         *)
(* An age that the code compares with a limit stops one above that limit; *)
(* the age of a command stops at Horizon, which only has to be larger than *)
(* the bound it is compared with.                                          *)
(***************************************************************************)
EXTENDS Integers

CONSTANTS
  Sources,     \* the sources of commands: MANUAL, NAVIGATION, FOLLOW
  Velocities,  \* the finite velocities a source may ask for
  NonFinite,   \* a command with a NaN or infinite component
  Horizon      \* where the age of a command stops

ASSUME TwistAssumption ==
  /\ "STOP" \notin Sources
  /\ Velocities \subseteq Int \ {0}
  /\ NonFinite \notin Int
  /\ Horizon \in Nat

\* The message of all zeroes, whoever publishes it.
Rest == [v |-> 0, from |-> "STOP", age |-> 0]

Twists == [v : Int, from : Sources \cup {"STOP"}, age : 0 .. Horizon]
BadTwists == [v : {NonFinite}, from : Sources, age : 0 .. Horizon]

Finite(m) == m.v # NonFinite

Moves(m) == m.v # 0

NoTwist == [msg |-> Rest, age |-> 0, full |-> FALSE]

\* A publisher with a history of one: a new message replaces the one that the
\* subscriber has not taken yet.
Topics == [msg : Twists, age : Nat, full : BOOLEAN]

Sent(m) == [msg |-> m, age |-> 0, full |-> TRUE]

\* One clock unit later, for an age compared with limit.
Later(age, limit) == IF age <= limit THEN age + 1 ELSE age

Aged(m) ==
  IF Moves(m) /\ Finite(m) /\ m.age < Horizon THEN [m EXCEPT !.age = @ + 1] ELSE m

LaterIn(topic) ==
  IF topic.full THEN [topic EXCEPT !.msg = Aged(@), !.age = @ + 1] ELSE topic
=============================================================================
