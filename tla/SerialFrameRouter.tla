-------------------------- MODULE SerialFrameRouter --------------------------
(***************************************************************************)
(* SerialFrameRouter finds the frames in the bytes that BaseIoWorker reads *)
(* from the port in chunks of any size, some of them corrupted, and some   *)
(* of them payload that looks like the start of another frame.             *)
(*                                                                         *)
(* received and taken are history: every byte read so far, and the places  *)
(* of the frames that were accepted; since and lost say where the present  *)
(* connection began and how many bytes clear() threw away.                 *)
(***************************************************************************)
EXTENDS Checksum, Integers, FiniteSets

CONSTANTS
  Bytes,     \* the values of a byte
  Headers,   \* the bytes that start a frame
  SizeOf,    \* header -> the size of its frames
  TailOf,    \* header -> the last byte of its frames
  MaxBytes,  \* bound: the bytes read
  MaxChunk   \* bound: the bytes of one read

ASSUME RouterAssumption ==
  /\ Bytes \subseteq Nat /\ Headers \subseteq Bytes
  /\ SizeOf \in [Headers -> Nat \ (0 .. 2)]
  /\ TailOf \in [Headers -> Bytes]
  /\ MaxBytes \in Nat /\ MaxChunk \in Nat \ {0}

VARIABLES
  buffer,    \* buffer_
  stats,     \* stats_: the counters of bytes and errors
  popping,   \* readAndProcess still calls popNext
  received, taken, since, lost

routerVars == <<buffer, stats, popping, received, taken, since, lost>>

RouterStats == [discarded : Nat, framing : Nat, checksum : Nat]

\* Every variable keeps to its type, and the buffer to its size: what is left
\* after a read is the beginning of one frame (popNext).
RouterTypeOK ==
  /\ buffer \in Seq(Bytes) /\ received \in Seq(Bytes)
  /\ popping \/ buffer = <<>>
     \/ (Head(buffer) \in Headers /\ Len(buffer) < SizeOf[Head(buffer)])
  /\ stats \in RouterStats /\ popping \in BOOLEAN
  /\ taken \subseteq [at : Nat \ {0}, size : Nat]
  /\ since \in Nat /\ lost \in Nat

RouterInit ==
  /\ buffer = <<>> /\ received = <<>>
  /\ stats = [discarded |-> 0, framing |-> 0, checksum |-> 0]
  /\ popping = FALSE
  /\ taken = {} /\ since = 0 /\ lost = 0

-----------------------------------------------------------------------------
\* checksumValid: the last but one byte is the XOR of those before it.
ChecksumValid(s) == XorBcc(SubSeq(s, 1, Len(s) - 2)) = s[Len(s) - 1]

\* What popNext makes of the bytes s at the front of the buffer.
Verdict(s) ==
  IF s = <<>> THEN "wait"
  ELSE IF Head(s) \notin Headers THEN "noise"
  ELSE LET size == SizeOf[Head(s)]
       IN  IF Len(s) < size THEN "wait"
           ELSE IF s[size] # TailOf[Head(s)] THEN "framing"
           ELSE IF ~ChecksumValid(SubSeq(s, 1, size)) THEN "checksum"
           ELSE "frame"

After(k) == SubSeq(buffer, k + 1, Len(buffer))

\* Mutation: a bad checksum gives up the whole frame that it seemed to end.
GivenUpByFrames ==
  LET claimed(j) == SizeOf[buffer[j + 1]]
  IN  CHOOSE k \in 0 .. Len(buffer) :
        /\ Verdict(After(k)) \in {"wait", "frame"}
        /\ \A j \in 0 .. k - 1 :
             \/ Verdict(After(j)) \notin {"wait", "frame"}
             \/ \E i \in 0 .. j - 1 :
                  Verdict(After(i)) = "checksum" /\ j < i + claimed(i)
        /\ \A i \in 0 .. k - 1 : Verdict(After(i)) = "checksum" => k >= i + claimed(i)

\* The bytes given up, one at a time, before popNext returns.
GivenUp ==
  CHOOSE k \in 0 .. Len(buffer) :
    /\ Verdict(After(k)) \in {"wait", "frame"}
    /\ \A j \in 0 .. k - 1 : Verdict(After(j)) \notin {"wait", "frame"}

Errors(kind) == Cardinality({j \in 0 .. GivenUp - 1 : Verdict(After(j)) = kind})

-----------------------------------------------------------------------------
\* Mutation: a buffer of MaxChunk bytes and more takes no others.
PushBytesIfRoom(chunk) ==
  buffer' = IF Len(buffer) < MaxChunk THEN buffer \o chunk ELSE buffer

PushBytes(chunk) == buffer' = buffer \o chunk

\* readAndProcess reads a chunk and calls popNext until it returns nothing.
ReadChunk ==
  /\ ~popping
  /\ \E n \in 1 .. MaxChunk : \E chunk \in [1 .. n -> Bytes] :
       /\ Len(received) + n <= MaxBytes
       /\ PushBytes(chunk)
       /\ received' = received \o chunk
  /\ popping' = TRUE
  /\ UNCHANGED <<stats, taken, since, lost>>

Delivered == Verdict(After(GivenUp)) = "frame"

DeliveredSize == IF Delivered THEN SizeOf[buffer[GivenUp + 1]] ELSE 0

Pop ==
  /\ popping
  /\ buffer' = After(GivenUp + DeliveredSize)
  /\ taken' = IF Delivered
              THEN taken \cup {[at |-> Len(received) - Len(buffer) + GivenUp + 1,
                                size |-> DeliveredSize]}
              ELSE taken
  /\ stats' = [discarded |-> stats.discarded + GivenUp,
               framing |-> stats.framing + Errors("framing"),
               checksum |-> stats.checksum + Errors("checksum")]
  /\ UNCHANGED <<received, since, lost>>

\* Mutation: popNext is called once for each read.
PopNextOnce == Pop /\ popping' = FALSE

PopNext == Pop /\ popping' = Delivered

\* Mutation: what is left of a frame survives the reconnection.
ClearNothing ==
  /\ ~popping
  /\ since' = Len(received)
  /\ UNCHANGED <<buffer, stats, popping, received, taken, lost>>

\* disconnectForFault and connectAndHandshake clear the buffer.
Clear ==
  /\ ~popping
  /\ buffer' = <<>> /\ lost' = lost + Len(buffer) /\ since' = Len(received)
  /\ UNCHANGED <<stats, popping, received, taken>>

RouterNext == ReadChunk \/ PopNext \/ Clear

RouterSpec == RouterInit /\ [][RouterNext]_routerVars

-----------------------------------------------------------------------------
\* A frame, complete and with the right tail and checksum, of this connection.
FrameAt(at, size) ==
  /\ at > since /\ at + size - 1 <= Len(received)
  /\ received[at] \in Headers /\ size = SizeOf[received[at]]
  /\ Verdict(SubSeq(received, at, at + size - 1)) = "frame"

Covers(f, at) == f.at <= at /\ at < f.at + f.size

\* The byte is in the buffer, behind a header whose frame is not complete.
Behind(at) ==
  /\ buffer # <<>> /\ Head(buffer) \in Headers /\ Len(buffer) < SizeOf[Head(buffer)]
  /\ at > Len(received) - Len(buffer) + 1

\* However the stream is cut into reads and whatever comes before it, a good
\* frame is delivered once the read that completed it is processed, unless it
\* starts inside another good frame (popNext gives up one byte at a time) or
\* inside what is still expected to become one.
NoFrameSkipped ==
  ~popping =>
    \A at \in 1 .. Len(received), size \in {SizeOf[h] : h \in Headers} :
      FrameAt(at, size) => Behind(at) \/ \E f \in taken : Covers(f, at)

\* No byte is delivered in two frames, and no frame mixes two connections.
FramesDisjoint ==
  \A f, g \in taken :
    /\ f = g \/ ~Covers(f, g.at)
    /\ f.at > since \/ f.at + f.size - 1 <= since

DeliveredBytes == {at \in 1 .. Len(received) : \E f \in taken : Covers(f, at)}

\* The counters that the status shows account for every byte (popNext, clear).
BytesAccounted ==
  Len(received) = stats.discarded + lost + Len(buffer) + Cardinality(DeliveredBytes)
=============================================================================
