-------------------------------- MODULE MCParts --------------------------------
(* Values for TLC that a .cfg cannot write.                                   *)
EXTENDS Parts, Bitwise

ByteXor(a, b) == a ^^ b

\* Two kinds of frames, of five and three bytes, over an alphabet of four, in
\* which headers and tails are also payload and checksums: a whole frame of the
\* short kind has room in one of the long kind.
Sizes == [h \in Headers |-> IF h = 3 THEN 5 ELSE 3]
Tails == [h \in Headers |-> IF h = 3 THEN 2 ELSE 1]

\* Around 0, a byte's limits and the limits of 16 bits, at the halves.
SomeVelocities ==
  {-327685, -327684, -2565, -6, -5, 0, 4, 5, 2555, 327674, 327675}

SomeQuantities == {-32768, -32767, -257, -1, 0, 1, 127, 128, 255, 256, 32767}

SomeSpeeds == {-1, 0, 2}
SomeTurns == {-1, 0, 1}
================================================================================
