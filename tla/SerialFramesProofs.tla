-------------------------- MODULE SerialFramesProofs --------------------------
(***************************************************************************)
(* Proofs about the frames on the serial line: SerialFrameRouter, for all  *)
(* sets of bytes, kinds of frames and ways to cut the stream into reads;   *)
(* FrameCodecs, for all velocities and quantities.  Neither depends on     *)
(* what the checksum computes.                                             *)
(***************************************************************************)
EXTENDS SerialFrameRouter, FrameCodecs, SequenceTheorems, FiniteSetTheorems, TLAPS

(* SerialFrameRouter.                                                      *)

LEMMA SizesAreThree ==
  ASSUME NEW h \in Headers PROVE SizeOf[h] \in Nat /\ SizeOf[h] >= 3
BY RouterAssumption DEF RouterAssumption

LEMMA HeadIsFirst ==
  ASSUME NEW s \in Seq(Bytes), s # <<>>
  PROVE  Head(s) = s[1] /\ Head(s) \in Bytes /\ Len(s) \in Nat /\ Len(s) >= 1
<1>1. Len(s) \in Nat \ {0}  BY EmptySeq
<1>2. SubSeq(s, 1, Len(s)) = s  BY SubSeqFull
<1>3. Head(SubSeq(s, 1, Len(s))) = s[1]
  BY <1>1, HeadTailOfSubSeq
<1>. QED  BY <1>1, <1>2, <1>3, HeadTailProperties

Verdicts == {"wait", "noise", "framing", "checksum", "frame"}

LEMMA VerdictType == ASSUME NEW s PROVE Verdict(s) \in Verdicts
BY DEF Verdict, Verdicts

LEMMA WaitsForMore ==
  ASSUME NEW s \in Seq(Bytes), Verdict(s) = "wait"
  PROVE  s = <<>> \/ (Head(s) \in Headers /\ Len(s) < SizeOf[Head(s)])
BY DEF Verdict

LEMMA FrameIsComplete ==
  ASSUME NEW s \in Seq(Bytes), Verdict(s) = "frame"
  PROVE  s # <<>> /\ Head(s) \in Headers /\ SizeOf[Head(s)] <= Len(s)
<1>1. s # <<>> /\ Head(s) \in Headers /\ ~(Len(s) < SizeOf[Head(s)])
  BY DEF Verdict
<1>. QED  BY <1>1, SizesAreThree, HeadIsFirst

\* What comes behind the bytes that a verdict is about does not change it.
LEMMA VerdictStands ==
  ASSUME NEW s \in Seq(Bytes), NEW t \in Seq(Bytes), Verdict(s) # "wait"
  PROVE  Verdict(s \o t) = Verdict(s)
<1>1. s # <<>>  BY DEF Verdict
<1>2. /\ s \o t \in Seq(Bytes) /\ Len(s \o t) = Len(s) + Len(t) /\ Len(t) \in Nat
      /\ \A i \in 1 .. Len(s) : (s \o t)[i] = s[i]
  BY ConcatProperties, LenProperties
<1>3. s \o t # <<>> /\ Head(s \o t) = Head(s)
  <2>1. Len(s) \in Nat /\ Len(s) >= 1 /\ Head(s) = s[1]  BY <1>1, HeadIsFirst
  <2>2. s \o t # <<>>
    <3>1. Len(s \o t) # 0  BY <1>2, <2>1
    <3>. QED  BY <3>1
  <2>3. Head(s \o t) = (s \o t)[1]  BY <1>2, <2>2, HeadIsFirst
  <2>. QED  BY <1>2, <2>1, <2>2, <2>3
<1>4. CASE Head(s) \notin Headers
  BY <1>1, <1>3, <1>4 DEF Verdict
<1>5. CASE Head(s) \in Headers
  <2>. DEFINE size == SizeOf[Head(s)]
  <2>1. size \in Nat /\ size >= 3  BY <1>5, SizesAreThree
  <2>2. ~(Len(s) < size)  BY <1>1, <1>5 DEF Verdict
  <2>3. size \in 1 .. Len(s) /\ ~(Len(s \o t) < size)
    BY <1>1, <1>2, <2>1, <2>2, HeadIsFirst
  <2>4. (s \o t)[size] = s[size]  BY <1>2, <2>3
  <2>5. SubSeq(s \o t, 1, size) = SubSeq(s, 1, size)
    <3>1. 1 \in 1 .. Len(s)  BY <1>1, HeadIsFirst
    <3>. QED  BY <2>3, <3>1, SubSeqOfConcat1
  <2>. QED  BY <1>1, <1>3, <1>5, <2>2, <2>3, <2>4, <2>5 DEF Verdict
<1>. QED  BY <1>4, <1>5

-----------------------------------------------------------------------------
\* popNext stops at the first byte that begins a frame or may come to.
LEMMA GivenUpFirst ==
  ASSUME buffer \in Seq(Bytes)
  PROVE  /\ GivenUp \in 0 .. Len(buffer)
         /\ Verdict(After(GivenUp)) \in {"wait", "frame"}
         /\ \A j \in 0 .. GivenUp - 1 : Verdict(After(j)) \notin {"wait", "frame"}
<1>. DEFINE Stops == {k \in 0 .. Len(buffer) : Verdict(After(k)) \in {"wait", "frame"}}
<1>1. Len(buffer) \in Nat  BY LenProperties
<1>2. After(Len(buffer)) = <<>>  BY <1>1, SubSeqEmpty DEF After
<1>3. Stops # {}
  <2>1. Verdict(<<>>) = "wait"  BY DEF Verdict
  <2>2. Len(buffer) \in Stops  BY <1>1, <1>2, <2>1
  <2>. QED  BY <2>2
<1>4. Stops \subseteq Nat  BY <1>1
<1>5. PICK k \in Stops : \A j \in Stops : ~(<<j, k>> \in OpToRel(<, Nat))
  BY <1>3, <1>4, NatLessThanWellFounded, WFMin, Zenon
<1>6. \A j \in 0 .. k - 1 : Verdict(After(j)) \notin {"wait", "frame"}
  <2>. SUFFICES ASSUME NEW j \in 0 .. k - 1, Verdict(After(j)) \in {"wait", "frame"} PROVE FALSE
    OBVIOUS
  <2>1. j \in Stops /\ j < k /\ k \in Nat /\ j \in Nat  BY <1>1
  <2>2. <<j, k>> \in OpToRel(<, Nat)  BY <2>1 DEF OpToRel
  <2>. QED  BY <1>5, <2>1, <2>2
<1>. QED  BY <1>5, <1>6, Zenon DEF GivenUp

-----------------------------------------------------------------------------
(* The inductive invariant of the router.                                  *)

Consumed == Len(received) - Len(buffer)

\* What is in a sequence from a place on.
Rest(s, at) == SubSeq(s, at, Len(s))

\* The buffer is the end of what was received on this connection.
BufferInv ==
  /\ buffer \in Seq(Bytes) /\ received \in Seq(Bytes)
  /\ Consumed \in Nat /\ since \in 0 .. Consumed
  /\ buffer = Rest(received, Consumed + 1)
  /\ ~popping => Verdict(buffer) = "wait"

\* What was delivered lies before the buffer, and not across a reconnection.
TakenInv ==
  /\ taken \subseteq [at : Nat \ {0}, size : Nat \ {0}]
  /\ \A f \in taken :
       /\ f.at + f.size - 1 <= Consumed
       /\ f.at > since \/ f.at + f.size - 1 <= since
  /\ \A f, g \in taken : f # g => f.at + f.size <= g.at \/ g.at + g.size <= f.at

\* What was given up did not begin a frame, whatever has come since.
GivenUpInv ==
  \A at \in since + 1 .. Consumed :
    (\E f \in taken : Covers(f, at)) \/ Verdict(Rest(received, at)) \in {"noise", "framing", "checksum"}

\* What is gone from the buffer was given up, lost or delivered.
AccountInv ==
  /\ stats \in RouterStats /\ lost \in Nat
  /\ Consumed = stats.discarded + lost + Cardinality(DeliveredBytes)

RouterInv == BufferInv /\ TakenInv /\ GivenUpInv /\ AccountInv

LEMMA RestOfConcat ==
  ASSUME NEW s \in Seq(Bytes), NEW t \in Seq(Bytes), NEW at \in 1 .. Len(s) + 1
  PROVE  SubSeq(s \o t, at, Len(s \o t)) = SubSeq(s, at, Len(s)) \o t
<1>. DEFINE a == SubSeq(s \o t, at, Len(s \o t))
            b == SubSeq(s, at, Len(s))
<1>1. /\ Len(s) \in Nat /\ Len(t) \in Nat
      /\ s \o t \in Seq(Bytes) /\ Len(s \o t) = Len(s) + Len(t)
      /\ \A i \in 1 .. Len(s) + Len(t) :
           (s \o t)[i] = IF i <= Len(s) THEN s[i] ELSE t[i - Len(s)]
  BY ConcatProperties, LenProperties
<1>2. /\ a \in Seq(Bytes) /\ Len(a) = Len(s) + Len(t) - at + 1
      /\ \A i \in 1 .. Len(a) : a[i] = (s \o t)[at + i - 1]
  <2>1. \A i \in at .. Len(s \o t) : (s \o t)[i] \in Bytes
    BY <1>1, ElementOfSeq
  <2>. QED  BY <1>1, <2>1, SubSeqProperties
<1>3. /\ b \in Seq(Bytes) /\ Len(b) = Len(s) - at + 1
      /\ \A i \in 1 .. Len(b) : b[i] = s[at + i - 1]
  <2>1. \A i \in at .. Len(s) : s[i] \in Bytes
    BY <1>1, ElementOfSeq
  <2>. QED  BY <1>1, <2>1, SubSeqProperties
<1>. HIDE DEF a, b
<1>4. /\ b \o t \in Seq(Bytes) /\ Len(b \o t) = Len(b) + Len(t)
      /\ \A i \in 1 .. Len(b) + Len(t) : (b \o t)[i] = IF i <= Len(b) THEN b[i] ELSE t[i - Len(b)]
  BY <1>3, ConcatProperties
<1>5. \A i \in 1 .. Len(a) : a[i] = (b \o t)[i]
  <2>. SUFFICES ASSUME NEW i \in 1 .. Len(a) PROVE a[i] = (b \o t)[i]
    OBVIOUS
  <2>1. /\ at \in Int /\ i \in Int /\ i >= 1 /\ at + i - 1 >= 1
        /\ at + i - 1 <= Len(s) + Len(t) /\ i <= Len(b) + Len(t)
        /\ i - Len(b) = at + i - 1 - Len(s)
    BY <1>1, <1>2, <1>3
  <2>2. a[i] = IF at + i - 1 <= Len(s) THEN s[at + i - 1] ELSE t[at + i - 1 - Len(s)]
    BY <1>1, <1>2, <2>1
  <2>3. (b \o t)[i] = IF i <= Len(b) THEN s[at + i - 1] ELSE t[i - Len(b)]
    BY <1>1, <1>3, <1>4, <2>1
  <2>4. (i <= Len(b)) <=> (at + i - 1 <= Len(s))
    BY <1>1, <1>3, <2>1
  <2>. QED  BY <2>1, <2>2, <2>3, <2>4
<1>6. Len(a) = Len(b \o t)  BY <1>1, <1>2, <1>3, <1>4
<1>7. a = b \o t  BY <1>2, <1>4, <1>5, <1>6, SeqEqual
<1>. QED  BY <1>7 DEF a, b

\* What is left behind the first k bytes of the buffer.
LEMMA AfterIsRest ==
  ASSUME BufferInv, NEW k \in 0 .. Len(buffer)
  PROVE  /\ After(k) \in Seq(Bytes) /\ Len(After(k)) = Len(buffer) - k
         /\ After(k) = Rest(received, Consumed + k + 1)
         /\ k < Len(buffer) => After(k)[1] = buffer[k + 1]
<1>1. /\ Len(buffer) \in Nat /\ Len(received) \in Nat /\ Consumed \in Nat
      /\ buffer \in Seq(Bytes) /\ received \in Seq(Bytes)
      /\ Len(buffer) = Len(received) - Consumed /\ k \in Nat
  BY LenProperties DEF BufferInv, Consumed
<1>2. /\ After(k) \in Seq(Bytes) /\ Len(After(k)) = Len(buffer) - k
      /\ k < Len(buffer) => After(k)[1] = buffer[k + 1]
  <2>1. \A i \in k + 1 .. Len(buffer) : buffer[i] \in Bytes  BY <1>1, ElementOfSeq
  <2>. QED  BY <1>1, <2>1, SubSeqProperties DEF After
<1>3. CASE k = Len(buffer)
  <2>1. After(k) = <<>>  BY <1>1, <1>3, SubSeqEmpty DEF After
  <2>2. Rest(received, Consumed + k + 1) = <<>>  BY <1>1, <1>3, SubSeqEmpty DEF Rest
  <2>. QED  BY <1>2, <2>1, <2>2
<1>4. CASE k < Len(buffer)
  <2>1. /\ Consumed + 1 \in 1 .. Len(received) /\ Len(received) \in 1 .. Len(received)
        /\ k + 1 \in 1 .. Len(received) - (Consumed + 1) + 1
        /\ Len(buffer) \in 1 .. Len(received) - (Consumed + 1) + 1
    BY <1>1, <1>4
  <2>2. SubSeq(SubSeq(received, Consumed + 1, Len(received)), k + 1, Len(buffer))
          = SubSeq(received, Consumed + 1 + (k + 1) - 1, Consumed + 1 + Len(buffer) - 1)
    BY <1>1, <2>1, SubSeqOfSubSeq
  <2>3. buffer = SubSeq(received, Consumed + 1, Len(received))
    BY DEF BufferInv, Rest
  <2>4. /\ Consumed + 1 + (k + 1) - 1 = Consumed + k + 1
        /\ Consumed + 1 + Len(buffer) - 1 = Len(received)
    BY <1>1
  <2>5. After(k) = Rest(received, Consumed + k + 1)  BY <2>2, <2>3, <2>4 DEF After, Rest
  <2>. QED  BY <1>2, <2>5
<1>. QED  BY <1>1, <1>3, <1>4

\* What frames before the place c cover does not depend on what comes behind.
LEMMA CoveredBefore ==
  ASSUME NEW T \in SUBSET [at : Nat \ {0}, size : Nat \ {0}], NEW c \in Nat, NEW n \in Nat,
         c <= n, \A f \in T : f.at + f.size - 1 <= c
  PROVE  {at \in 1 .. n : \E f \in T : Covers(f, at)}
           = {at \in 1 .. c : \E f \in T : Covers(f, at)}
<1>1. ASSUME NEW at \in 1 .. n, NEW f \in T, Covers(f, at)
      PROVE  at \in 1 .. c
  <2>1. f.at \in Nat /\ f.size \in Nat /\ f.at + f.size - 1 <= c  OBVIOUS
  <2>. QED  BY <1>1, <2>1 DEF Covers
<1>. QED  BY <1>1

LEMMA IntervalOfSize ==
  ASSUME NEW a \in Nat, NEW n \in Nat
  PROVE  IsFiniteSet(a + 1 .. a + n) /\ Cardinality(a + 1 .. a + n) = n
<1>. DEFINE b == a + 1
            c == a + n
<1>1. b \in Int /\ c \in Int /\ (IF b > c THEN 0 ELSE c - b + 1) = n  OBVIOUS
<1>. HIDE DEF b, c
<1>2. IsFiniteSet(b .. c) /\ Cardinality(b .. c) = IF b > c THEN 0 ELSE c - b + 1
  BY <1>1, FS_Interval
<1>. QED  BY <1>1, <1>2 DEF b, c

-----------------------------------------------------------------------------
(* Every step keeps it.                                                    *)

LEMMA ReadChunkKeeps ==
  ASSUME RouterInv, ReadChunk PROVE RouterInv'
<1>1. PICK chunk : /\ chunk \in Seq(Bytes)
                   /\ buffer' = buffer \o chunk /\ received' = received \o chunk
  <2>1. PICK n \in 1 .. MaxChunk : \E chunk \in [1 .. n -> Bytes] :
           buffer' = buffer \o chunk /\ received' = received \o chunk
    BY DEF ReadChunk, PushBytes
  <2>2. n \in Nat  BY RouterAssumption DEF RouterAssumption
  <2>3. [1 .. n -> Bytes] \subseteq Seq(Bytes)  BY <2>2, SeqDef
  <2>. QED  BY <2>1, <2>3
<1>2. popping' = TRUE /\ UNCHANGED <<stats, taken, since, lost>>
  BY DEF ReadChunk
<1>3. /\ buffer \in Seq(Bytes) /\ received \in Seq(Bytes) /\ Consumed \in Nat
      /\ since \in 0 .. Consumed /\ buffer = Rest(received, Consumed + 1)
  BY DEF RouterInv, BufferInv
<1>4. /\ Len(buffer) \in Nat /\ Len(received) \in Nat /\ Len(chunk) \in Nat
      /\ buffer' \in Seq(Bytes) /\ Len(buffer') = Len(buffer) + Len(chunk)
      /\ received' \in Seq(Bytes) /\ Len(received') = Len(received) + Len(chunk)
  BY <1>1, <1>3, ConcatProperties, LenProperties
<1>5. Consumed' = Consumed  BY <1>4 DEF Consumed
<1>6. \A at \in 1 .. Consumed + 1 :
        Rest(received', at) = Rest(received, at) \o chunk /\ Rest(received, at) \in Seq(Bytes)
  <2>. TAKE at \in 1 .. Consumed + 1
  <2>1. at \in 1 .. Len(received) + 1  BY <1>3, <1>4 DEF Consumed
  <2>2. Rest(received', at) = Rest(received, at) \o chunk
    BY <1>1, <1>3, <2>1, RestOfConcat DEF Rest
  <2>3. \A i \in at .. Len(received) : received[i] \in Bytes
    BY <1>3, <1>4, <2>1, ElementOfSeq
  <2>4. Rest(received, at) \in Seq(Bytes)  BY <1>4, <2>1, <2>3, SubSeqProperties DEF Rest
  <2>. QED  BY <2>2, <2>4
<1>7. BufferInv'
  <2>1. Consumed + 1 \in 1 .. Consumed + 1  BY <1>3
  <2>2. buffer' = Rest(received', Consumed + 1)  BY <1>1, <1>3, <1>6, <2>1
  <2>. QED  BY <1>2, <1>3, <1>4, <1>5, <2>2 DEF BufferInv
<1>8. TakenInv'
  BY <1>2, <1>5 DEF RouterInv, TakenInv
<1>9. GivenUpInv'
  <2>. SUFFICES ASSUME NEW at \in since + 1 .. Consumed, ~\E f \in taken : Covers(f, at)
                PROVE  Verdict(Rest(received', at)) \in {"noise", "framing", "checksum"}
    BY <1>2, <1>5 DEF GivenUpInv, Covers
  <2>1. at \in 1 .. Consumed + 1  BY <1>3
  <2>2. Verdict(Rest(received, at)) \in {"noise", "framing", "checksum"}
    BY DEF RouterInv, GivenUpInv
  <2>3. Verdict(Rest(received, at) \o chunk) = Verdict(Rest(received, at))
    BY <1>1, <1>6, <2>1, <2>2, VerdictStands
  <2>. QED  BY <1>6, <2>1, <2>2, <2>3
<1>10. AccountInv'
  <2>1. /\ taken \in SUBSET [at : Nat \ {0}, size : Nat \ {0}]
        /\ \A f \in taken : f.at + f.size - 1 <= Consumed
    BY DEF RouterInv, TakenInv
  <2>2. Consumed <= Len(received) /\ Consumed <= Len(received')  BY <1>4 DEF Consumed
  <2>3. DeliveredBytes = {at \in 1 .. Consumed : \E f \in taken : Covers(f, at)}
    BY <1>3, <1>4, <2>1, <2>2, CoveredBefore DEF DeliveredBytes
  <2>4. DeliveredBytes' = {at \in 1 .. Consumed : \E f \in taken : Covers(f, at)}
    <3>1. DeliveredBytes' = {at \in 1 .. Len(received') : \E f \in taken : Covers(f, at)}
      BY <1>2 DEF DeliveredBytes
    <3>2. Len(received') \in Nat  BY <1>4
    <3>. QED  BY <1>3, <2>1, <2>2, <3>1, <3>2, CoveredBefore
  <2>. QED  BY <1>2, <1>5, <2>3, <2>4 DEF RouterInv, AccountInv
<1>. QED  BY <1>7, <1>8, <1>9, <1>10 DEF RouterInv

LEMMA WhatIsLeft ==
  ASSUME NEW c \in Nat, NEW a \in Nat, NEW l \in Nat, NEW k \in Nat, c = a + l + k
  PROVE  k = c - a - l
OBVIOUS

LEMMA MovedOn ==
  ASSUME NEW c \in Nat, NEW a \in Nat, NEW l \in Nat, NEW k \in Nat, c = a + l + k,
         NEW g \in Nat, NEW z \in Nat
  PROVE  c + g + z = (a + g) + l + (k + z)
OBVIOUS

LEMMA MoreDiscarded ==
  ASSUME NEW s \in RouterStats, NEW d \in Nat, NEW f \in Nat, NEW c \in Nat
  PROVE  LET more == [discarded |-> s.discarded + d, framing |-> s.framing + f,
                      checksum |-> s.checksum + c]
         IN more \in RouterStats /\ more.discarded = s.discarded + d
BY DEF RouterStats

LEMMA ClearKeeps ==
  ASSUME RouterInv, Clear PROVE RouterInv'
<1>1. /\ ~popping /\ buffer' = <<>> /\ lost' = lost + Len(buffer) /\ since' = Len(received)
      /\ UNCHANGED <<stats, popping, received, taken>>
  BY DEF Clear
<1>2. /\ buffer \in Seq(Bytes) /\ received \in Seq(Bytes) /\ Len(buffer) \in Nat
      /\ Len(received) \in Nat /\ Consumed \in Nat /\ Consumed <= Len(received)
      /\ Len(buffer) = Len(received) - Consumed
  BY LenProperties DEF RouterInv, BufferInv, Consumed
<1>3. Len(buffer') = 0 /\ buffer' \in Seq(Bytes)  BY <1>1
<1>4. Consumed' = Len(received)  BY <1>1, <1>2, <1>3 DEF Consumed
<1>5. BufferInv'
  <2>1. Rest(received, Len(received) + 1) = <<>>  BY <1>2, SubSeqEmpty DEF Rest
  <2>2. Verdict(<<>>) = "wait"  BY DEF Verdict
  <2>. QED  BY <1>1, <1>2, <1>3, <1>4, <2>1, <2>2 DEF BufferInv
<1>6. TakenInv'
  <2>1. \A f \in taken : f.at + f.size - 1 <= Len(received)
    <3>. TAKE f \in taken
    <3>1. f.at \in Nat /\ f.size \in Nat /\ f.at + f.size - 1 <= Consumed
      BY DEF RouterInv, TakenInv
    <3>. QED  BY <1>2, <3>1
  <2>. QED  BY <1>1, <1>4, <2>1 DEF RouterInv, TakenInv
<1>7. GivenUpInv'
  BY <1>1, <1>2, <1>4 DEF GivenUpInv
<1>8. AccountInv'
  <2>1. DeliveredBytes' = DeliveredBytes  BY <1>1 DEF DeliveredBytes
  <2>2. /\ stats \in RouterStats /\ lost \in Nat
        /\ Consumed = stats.discarded + lost + Cardinality(DeliveredBytes)
    BY DEF RouterInv, AccountInv
  <2>3. Cardinality(DeliveredBytes) = Consumed - stats.discarded - lost
    <3>1. DeliveredBytes \in SUBSET (1 .. Len(received))  BY DEF DeliveredBytes
    <3>2. IsFiniteSet(1 .. Len(received))  BY <1>2, FS_Interval
    <3>3. Cardinality(DeliveredBytes) \in Nat  BY <3>1, <3>2, FS_Subset, FS_CardinalityType
    <3>4. stats.discarded \in Nat /\ lost \in Nat  BY <2>2 DEF RouterStats
    <3>5. Consumed \in Nat /\ Consumed = stats.discarded + lost + Cardinality(DeliveredBytes)
      BY <1>2, <2>2
    <3>. QED  BY <3>3, <3>4, <3>5, WhatIsLeft
  <2>4. stats.discarded \in Nat  BY <2>2 DEF RouterStats
  <2>5. lost' \in Nat /\ lost' = lost + Len(buffer)  BY <1>1, <1>2, <2>2
  <2>6. Consumed' = stats.discarded + lost' + Cardinality(DeliveredBytes)
    <3>1. Len(received) = Consumed + Len(buffer)  BY <1>2
    <3>2. lost \in Nat  BY <2>2
    <3>. QED  BY <1>2, <1>4, <2>3, <2>4, <2>5, <3>1, <3>2
  <2>. QED  BY <1>1, <2>1, <2>2, <2>5, <2>6 DEF AccountInv
<1>. QED  BY <1>5, <1>6, <1>7, <1>8 DEF RouterInv

\* What popNext takes from the buffer: the bytes given up, and a frame or none.
LEMMA PopTakes ==
  ASSUME RouterInv, Pop
  PROVE  /\ GivenUp \in Nat /\ DeliveredSize \in Nat /\ GivenUp + DeliveredSize <= Len(buffer)
         /\ buffer' = After(GivenUp + DeliveredSize)
         /\ Delivered => DeliveredSize >= 3 /\ Consumed + GivenUp + 1 \in Nat \ {0}
         /\ ~Delivered => DeliveredSize = 0 /\ Verdict(buffer') = "wait"
         /\ Consumed' = Consumed + GivenUp + DeliveredSize
<1>1. /\ buffer \in Seq(Bytes) /\ Len(buffer) \in Nat /\ BufferInv /\ Consumed \in Nat
      /\ Len(received) \in Nat /\ Consumed = Len(received) - Len(buffer)
  BY LenProperties DEF RouterInv, BufferInv, Consumed
<1>2. GivenUp \in 0 .. Len(buffer) /\ Verdict(After(GivenUp)) \in {"wait", "frame"}
  BY <1>1, GivenUpFirst
<1>. DEFINE s == After(GivenUp)
<1>3. /\ s \in Seq(Bytes) /\ Len(s) = Len(buffer) - GivenUp
      /\ GivenUp < Len(buffer) => s[1] = buffer[GivenUp + 1]
  BY <1>1, <1>2, AfterIsRest
<1>4. buffer' = After(GivenUp + DeliveredSize) /\ received' = received
  BY DEF Pop
<1>. HIDE DEF s
<1>5. CASE Delivered
  <2>1. s # <<>> /\ Head(s) \in Headers /\ SizeOf[Head(s)] <= Len(s)
    BY <1>3, <1>5, FrameIsComplete DEF Delivered, s
  <2>2. Head(s) = s[1] /\ Len(s) >= 1 /\ GivenUp < Len(buffer)
    BY <1>1, <1>2, <1>3, <2>1, HeadIsFirst
  <2>3. DeliveredSize = SizeOf[Head(s)]  BY <1>3, <1>5, <2>2 DEF DeliveredSize
  <2>4. DeliveredSize \in Nat /\ DeliveredSize >= 3 /\ DeliveredSize <= Len(buffer) - GivenUp
    BY <1>3, <2>1, <2>3, SizesAreThree
  <2>5. GivenUp + DeliveredSize \in 0 .. Len(buffer)  BY <1>1, <1>2, <2>4
  <2>6. Len(buffer') = Len(buffer) - (GivenUp + DeliveredSize)
    BY <1>1, <1>4, <2>5, AfterIsRest
  <2>. QED  BY <1>1, <1>2, <1>4, <1>5, <2>4, <2>5, <2>6 DEF Consumed
<1>6. CASE ~Delivered
  <2>1. DeliveredSize = 0  BY <1>6 DEF DeliveredSize
  <2>2. GivenUp + DeliveredSize = GivenUp  BY <1>2, <2>1
  <2>3. Verdict(buffer') = "wait"  BY <1>2, <1>4, <1>6, <2>2 DEF Delivered
  <2>4. Len(buffer') = Len(buffer) - GivenUp  BY <1>3, <1>4, <2>2 DEF s
  <2>. QED  BY <1>1, <1>2, <1>4, <1>6, <2>1, <2>2, <2>3, <2>4 DEF Consumed
<1>. QED  BY <1>5, <1>6

LEMMA PopNextKeeps ==
  ASSUME RouterInv, PopNext PROVE RouterInv'
<1>. DEFINE gap == GivenUp
            size == DeliveredSize
            new == [at |-> Consumed + gap + 1, size |-> size]
<1>1. /\ gap \in Nat /\ size \in Nat /\ gap + size <= Len(buffer)
      /\ buffer' = After(gap + size)
      /\ Delivered => size >= 3
      /\ ~Delivered => size = 0 /\ Verdict(buffer') = "wait"
      /\ Consumed' = Consumed + gap + size
  BY PopTakes DEF PopNext
<1>2. /\ taken' = IF Delivered THEN taken \cup {new} ELSE taken
      /\ stats' = [discarded |-> stats.discarded + gap,
                   framing |-> stats.framing + Errors("framing"),
                   checksum |-> stats.checksum + Errors("checksum")]
      /\ received' = received /\ since' = since /\ lost' = lost
      /\ popping' = Delivered
  BY DEF PopNext, Pop, Consumed
<1>3. /\ buffer \in Seq(Bytes) /\ Len(buffer) \in Nat /\ BufferInv /\ Consumed \in Nat
      /\ received \in Seq(Bytes) /\ Len(received) \in Nat
      /\ Consumed = Len(received) - Len(buffer) /\ since \in 0 .. Consumed
  BY LenProperties DEF RouterInv, BufferInv, Consumed
<1>4. \A j \in 0 .. gap - 1 : Verdict(After(j)) \notin {"wait", "frame"}
  BY <1>3, GivenUpFirst
<1>5. /\ taken \in SUBSET [at : Nat \ {0}, size : Nat \ {0}]
      /\ \A f \in taken :
           /\ f.at \in Nat /\ f.size \in Nat /\ f.at + f.size - 1 <= Consumed
           /\ f.at > since \/ f.at + f.size - 1 <= since
  BY DEF RouterInv, TakenInv
<1>. HIDE DEF gap, size
<1>6. BufferInv'
  <2>1. gap + size \in 0 .. Len(buffer)  BY <1>1, <1>3
  <2>2. After(gap + size) \in Seq(Bytes)
        /\ After(gap + size) = Rest(received, Consumed + (gap + size) + 1)
    BY <1>3, <2>1, AfterIsRest
  <2>3. Consumed + (gap + size) + 1 = Consumed' + 1  BY <1>1, <1>3
  <2>4. buffer' = Rest(received', Consumed' + 1)  BY <1>1, <1>2, <2>2, <2>3
  <2>5. Consumed' \in Nat /\ since' \in 0 .. Consumed'  BY <1>1, <1>2, <1>3
  <2>6. ~popping' => Verdict(buffer') = "wait"  BY <1>1, <1>2
  <2>. QED  BY <1>1, <1>2, <1>3, <2>2, <2>4, <2>5, <2>6 DEF BufferInv
<1>7. TakenInv'
  <2>1. \A f \in taken : f.at + f.size - 1 <= Consumed'  BY <1>1, <1>3, <1>5
  <2>2. CASE ~Delivered
    BY <1>2, <2>1, <2>2 DEF RouterInv, TakenInv
  <2>3. CASE Delivered
    <3>1. /\ new \in [at : Nat \ {0}, size : Nat \ {0}]
          /\ new.at = Consumed + gap + 1 /\ new.size = size
      BY <1>1, <1>3, <2>3
    <3>2. new.at + new.size - 1 <= Consumed' /\ new.at > since'  BY <1>1, <1>2, <1>3, <3>1
    <3>3. \A f \in taken : f.at + f.size <= new.at  BY <1>1, <1>3, <1>5, <3>1
    <3>. HIDE DEF new
    <3>4. taken' = taken \cup {new}  BY <1>2, <2>3
    <3>. QED  BY <1>2, <1>5, <2>1, <3>1, <3>2, <3>3, <3>4 DEF RouterInv, TakenInv
  <2>. QED  BY <2>2, <2>3
<1>8. GivenUpInv'
  <2>. SUFFICES ASSUME NEW at \in since + 1 .. Consumed', ~\E f \in taken' : Covers(f, at)
                PROVE  Verdict(Rest(received, at)) \in {"noise", "framing", "checksum"}
    BY <1>2 DEF GivenUpInv
  <2>1. CASE at <= Consumed
    <3>1. ~\E f \in taken : Covers(f, at)  BY <1>2
    <3>. QED  BY <1>3, <2>1, <3>1 DEF RouterInv, GivenUpInv
  <2>2. CASE Consumed < at /\ at <= Consumed + gap
    <3>1. at - Consumed - 1 \in 0 .. gap - 1 /\ at - Consumed - 1 \in 0 .. Len(buffer)
          /\ Consumed + (at - Consumed - 1) + 1 = at
      BY <1>1, <1>3, <2>2
    <3>2. After(at - Consumed - 1) = Rest(received, at)
      BY <1>3, <3>1, AfterIsRest
    <3>. QED  BY <1>4, <3>1, <3>2, VerdictType DEF Verdicts
  <2>3. CASE at > Consumed + gap
    <3>1. size > 0 /\ Delivered  BY <1>1, <1>3, <2>3
    <3>2. new \in taken'  BY <1>2, <3>1
    <3>3. Covers(new, at)  BY <1>1, <1>3, <2>3 DEF Covers
    <3>. QED  BY <3>2, <3>3
  <2>. QED  BY <1>1, <1>3, <2>1, <2>2, <2>3
<1>9. AccountInv'
  <2>. DEFINE before == {at \in 1 .. Consumed : \E f \in taken : Covers(f, at)}
              frame == Consumed + gap + 1 .. Consumed + gap + size
  <2>1. DeliveredBytes = before
    <3>1. Consumed <= Len(received)  BY <1>3
    <3>. QED  BY <1>3, <1>5, <3>1, CoveredBefore DEF DeliveredBytes
  <2>2. DeliveredBytes' = before \cup frame
    <3>1. \A at \in 1 .. Len(received) :
            (\E f \in taken' : Covers(f, at)) <=> (at \in before \/ at \in frame)
      <4>. TAKE at \in 1 .. Len(received)
      <4>1. (\E f \in taken : Covers(f, at)) <=> at \in before
        BY <2>1 DEF DeliveredBytes
      <4>2. Covers(new, at) <=> at \in frame
        BY <1>1, <1>3 DEF Covers
      <4>3. CASE Delivered  BY <1>2, <4>1, <4>2, <4>3
      <4>4. CASE ~Delivered
        <5>1. at \notin frame  BY <1>1, <1>3, <4>4
        <5>. QED  BY <1>2, <4>1, <4>4, <5>1
      <4>. QED  BY <4>3, <4>4
    <3>2. before \subseteq 1 .. Len(received) /\ frame \subseteq 1 .. Len(received)
      BY <1>1, <1>3
    <3>. HIDE DEF before, frame
    <3>. QED  BY <1>2, <3>1, <3>2 DEF DeliveredBytes
  <2>3. IsFiniteSet(before) /\ Cardinality(before) \in Nat
    <3>1. before \in SUBSET (1 .. Consumed)  OBVIOUS
    <3>2. IsFiniteSet(1 .. Consumed)  BY <1>3, FS_Interval
    <3>. QED  BY <3>1, <3>2, FS_Subset, FS_CardinalityType
  <2>4. IsFiniteSet(frame) /\ Cardinality(frame) = size
    <3>1. Consumed + gap \in Nat  BY <1>1, <1>3
    <3>. QED  BY <1>1, <3>1, IntervalOfSize
  <2>5. before \cap frame = {}  BY <1>1, <1>3
  <2>. HIDE DEF before, frame
  <2>6. Cardinality(before \cup frame) = Cardinality(before) + size
    <3>1. Cardinality(before \cap frame) = 0  BY <2>5, FS_EmptySet
    <3>2. Cardinality(before \cup frame)
            = Cardinality(before) + Cardinality(frame) - Cardinality(before \cap frame)
      BY <2>3, <2>4, FS_Union
    <3>. QED  BY <1>1, <2>3, <2>4, <3>1, <3>2
  <2>7. Errors("framing") \in Nat /\ Errors("checksum") \in Nat
    <3>. SUFFICES ASSUME NEW kind PROVE Errors(kind) \in Nat
      OBVIOUS
    <3>1. {j \in 0 .. GivenUp - 1 : Verdict(After(j)) = kind} \in SUBSET (0 .. gap - 1)
      BY DEF gap
    <3>2. IsFiniteSet(0 .. gap - 1)  BY <1>1, FS_Interval
    <3>. QED  BY <3>1, <3>2, FS_Subset, FS_CardinalityType DEF Errors
  <2>8. /\ stats \in RouterStats /\ lost \in Nat
        /\ Consumed = stats.discarded + lost + Cardinality(before)
    BY <2>1 DEF RouterInv, AccountInv
  <2>9. stats' \in RouterStats /\ stats'.discarded = stats.discarded + gap
    <3>1. stats' = [discarded |-> stats.discarded + gap,
                    framing |-> stats.framing + Errors("framing"),
                    checksum |-> stats.checksum + Errors("checksum")]
      BY <1>2, <2>8 DEF RouterStats
    <3>. QED  BY <1>1, <2>7, <2>8, <3>1, MoreDiscarded, Zenon
  <2>10. Consumed' = stats'.discarded + lost' + Cardinality(DeliveredBytes')
    <3>1. stats.discarded \in Nat  BY <2>8 DEF RouterStats
    <3>2. Cardinality(DeliveredBytes') = Cardinality(before) + size  BY <2>2, <2>6
    <3>3. lost' = lost /\ Consumed' = Consumed + gap + size  BY <1>1, <1>2
    <3>4. stats'.discarded = stats.discarded + gap  BY <2>9
    <3>5. Consumed + gap + size
            = (stats.discarded + gap) + lost + (Cardinality(before) + size)
      <4>1. Consumed \in Nat /\ Consumed = stats.discarded + lost + Cardinality(before)
            /\ lost \in Nat /\ gap \in Nat /\ size \in Nat
        BY <1>1, <1>3, <2>8
      <4>. QED  BY <2>3, <3>1, <4>1, MovedOn
    <3>. HIDE DEF new
    <3>. QED  BY <3>2, <3>3, <3>4, <3>5
  <2>. QED  BY <1>2, <2>8, <2>9, <2>10 DEF AccountInv
<1>. QED  BY <1>6, <1>7, <1>8, <1>9 DEF RouterInv

LEMMA RouterInductive == RouterSpec => []RouterInv
<1>1. RouterInit => RouterInv
  <2>. SUFFICES ASSUME RouterInit PROVE RouterInv
    OBVIOUS
  <2>1. buffer = <<>> /\ received = <<>> /\ taken = {} /\ since = 0 /\ lost = 0
    BY DEF RouterInit
  <2>2. Consumed = 0  BY <2>1 DEF Consumed
  <2>3. DeliveredBytes = {}  BY <2>1 DEF DeliveredBytes
  <2>4. Cardinality(DeliveredBytes) = 0  BY <2>3, FS_EmptySet
  <2>5. AccountInv  BY <2>1, <2>2, <2>4 DEF RouterInit, AccountInv, RouterStats
  <2>6. BufferInv
    <3>1. Rest(received, Consumed + 1) = <<>>  BY <2>1, <2>2, SubSeqEmpty DEF Rest
    <3>2. Verdict(<<>>) = "wait"  BY DEF Verdict
    <3>. QED  BY <2>1, <2>2, <3>1, <3>2 DEF BufferInv
  <2>7. TakenInv /\ GivenUpInv  BY <2>1, <2>2 DEF TakenInv, GivenUpInv
  <2>. QED  BY <2>5, <2>6, <2>7 DEF RouterInv
<1>2. RouterInv /\ [RouterNext]_routerVars => RouterInv'
  <2>. SUFFICES ASSUME RouterInv, [RouterNext]_routerVars PROVE RouterInv'
    OBVIOUS
  <2>1. CASE UNCHANGED routerVars
    BY <2>1 DEF routerVars, RouterInv, BufferInv, TakenInv, GivenUpInv, AccountInv,
                Consumed, DeliveredBytes
  <2>. QED  BY <2>1, ReadChunkKeeps, PopNextKeeps, ClearKeeps DEF RouterNext
<1>. QED  BY <1>1, <1>2, PTL DEF RouterSpec
-----------------------------------------------------------------------------
\* The whole line is accounted for: what was received was given up, lost with a
\* connection, delivered in a frame, or waits in the buffer.
THEOREM BytesAccountedHolds == RouterSpec => []BytesAccounted
<1>1. RouterInv => BytesAccounted
  <2>. SUFFICES ASSUME RouterInv PROVE BytesAccounted
    OBVIOUS
  <2>1. /\ buffer \in Seq(Bytes) /\ received \in Seq(Bytes)
        /\ BufferInv /\ TakenInv /\ AccountInv
    BY DEF RouterInv, BufferInv
  <2>2. Len(buffer) \in Nat /\ Len(received) \in Nat  BY <2>1, LenProperties
  <2>3. DeliveredBytes \in SUBSET (1 .. Len(received))  BY DEF DeliveredBytes
  <2>4. IsFiniteSet(1 .. Len(received))  BY <2>2, FS_Interval
  <2>5. Cardinality(DeliveredBytes) \in Nat  BY <2>3, <2>4, FS_Subset, FS_CardinalityType
  <2>6. stats.discarded \in Nat /\ lost \in Nat  BY <2>1 DEF AccountInv, RouterStats
  <2>. QED  BY <2>1, <2>2, <2>5, <2>6 DEF AccountInv, Consumed, BytesAccounted
<1>. QED  BY <1>1, RouterInductive, PTL

\* Every frame that is delivered ends where or before the next one begins, on
\* one side of every reconnection.
THEOREM FramesDisjointHolds == RouterSpec => []FramesDisjoint
<1>1. RouterInv => FramesDisjoint
  <2>. SUFFICES ASSUME RouterInv, NEW f \in taken, NEW g \in taken
                PROVE  /\ f = g \/ ~Covers(f, g.at)
                       /\ f.at > since \/ f.at + f.size - 1 <= since
    BY DEF FramesDisjoint
  <2>1. /\ f.at \in Nat /\ f.size \in Nat \ {0} /\ g.at \in Nat /\ g.size \in Nat \ {0}
        /\ f # g => f.at + f.size <= g.at \/ g.at + g.size <= f.at
        /\ f.at > since \/ f.at + f.size - 1 <= since
    BY DEF RouterInv, TakenInv
  <2>. QED  BY <2>1 DEF Covers
<1>. QED  BY <1>1, RouterInductive, PTL

\* A good frame in the stream is delivered, unless another that was delivered,
\* or one that may still become complete, began before it: the verdict on the
\* bytes from its first one on is that on the frame.
THEOREM NoFrameSkippedHolds == RouterSpec => []NoFrameSkipped
<1>1. RouterInv => NoFrameSkipped
  <2>. SUFFICES ASSUME RouterInv, ~popping, NEW at \in 1 .. Len(received),
                       NEW size \in {SizeOf[h] : h \in Headers}, FrameAt(at, size)
                PROVE  Behind(at) \/ \E f \in taken : Covers(f, at)
    BY DEF NoFrameSkipped
  <2>. DEFINE frame == SubSeq(received, at, at + size - 1)
              behind == SubSeq(received, at + size, Len(received))
  <2>1. /\ buffer \in Seq(Bytes) /\ received \in Seq(Bytes) /\ BufferInv
        /\ Len(buffer) \in Nat /\ Len(received) \in Nat
        /\ Consumed \in Nat /\ Consumed = Len(received) - Len(buffer)
        /\ Verdict(buffer) = "wait"
    BY LenProperties DEF RouterInv, BufferInv, Consumed
  <2>2. size \in Nat /\ size >= 3 /\ at \in Nat /\ at >= 1 /\ at + size - 1 <= Len(received)
    BY <2>1, SizesAreThree DEF FrameAt
  <2>3. Verdict(frame) = "frame" /\ at > since
    BY DEF FrameAt
  <2>4. frame \in Seq(Bytes) /\ behind \in Seq(Bytes)
    <3>1. \A i \in 1 .. Len(received) : received[i] \in Bytes  BY <2>1, ElementOfSeq
    <3>2. /\ at \in Int /\ at + size - 1 \in Int /\ at + size \in Int
          /\ at .. at + size - 1 \subseteq 1 .. Len(received)
          /\ at + size .. Len(received) \subseteq 1 .. Len(received)
      BY <2>1, <2>2
    <3>. QED  BY <2>1, <3>1, <3>2, SubSeqProperties
  <2>5. Rest(received, at) = frame \o behind
    <3>1. /\ at \in 1 .. Len(received) + 1
          /\ at + size - 1 \in at - 1 .. Len(received)
          /\ Len(received) \in at + size - 1 .. Len(received)
          /\ at + size - 1 + 1 = at + size
      BY <2>1, <2>2
    <3>2. SubSeq(received, at, at + size - 1)
            \o SubSeq(received, at + size - 1 + 1, Len(received))
          = SubSeq(received, at, Len(received))
      BY <2>1, <3>1, ConcatAdjacentSubSeq
    <3>. QED  BY <3>1, <3>2 DEF Rest
  <2>. HIDE DEF frame, behind
  <2>6. Verdict(Rest(received, at)) = "frame"
    BY <2>3, <2>4, <2>5, VerdictStands
  <2>7. CASE at <= Consumed
    <3>1. at \in since + 1 .. Consumed
      BY <2>1, <2>2, <2>3, <2>7 DEF BufferInv
    <3>. QED  BY <2>6, <3>1 DEF RouterInv, GivenUpInv
  <2>8. CASE at = Consumed + 1
    <3>1. buffer = Rest(received, at)  BY <2>1, <2>8 DEF BufferInv
    <3>. QED  BY <2>1, <2>6, <3>1
  <2>9. CASE at > Consumed + 1
    <3>1. Len(buffer) > 0 /\ buffer # <<>>
      <4>1. Len(buffer) > 0  BY <2>1, <2>2, <2>9
      <4>. QED  BY <4>1
    <3>2. Head(buffer) \in Headers /\ Len(buffer) < SizeOf[Head(buffer)]
      BY <2>1, <3>1, WaitsForMore
    <3>. QED  BY <2>1, <2>9, <3>1, <3>2 DEF Behind
  <2>. QED  BY <2>1, <2>2, <2>7, <2>8, <2>9
<1>. QED  BY <1>1, RouterInductive, PTL

PoppingInv == popping \in BOOLEAN

LEMMA PoppingIsBoolean == RouterSpec => []PoppingInv
<1>1. RouterInit => PoppingInv
  BY DEF RouterInit, PoppingInv
<1>2. PoppingInv /\ [RouterNext]_routerVars => PoppingInv'
  BY Zenon DEF PoppingInv, RouterNext, routerVars, ReadChunk, PopNext, Clear, Delivered
<1>. QED  BY <1>1, <1>2, PTL DEF RouterSpec

\* Between two reads the buffer holds less than one frame.
THEOREM RouterTypeCorrect == RouterSpec => []RouterTypeOK
<1>1. RouterInv /\ PoppingInv => RouterTypeOK
  <2>. SUFFICES ASSUME RouterInv, PoppingInv PROVE RouterTypeOK
    OBVIOUS
  <2>1. popping \/ buffer = <<>>
        \/ (Head(buffer) \in Headers /\ Len(buffer) < SizeOf[Head(buffer)])
    BY WaitsForMore DEF RouterInv, BufferInv
  <2>2. /\ buffer \in Seq(Bytes) /\ received \in Seq(Bytes)
        /\ since \in Nat /\ lost \in Nat /\ stats \in RouterStats
    BY DEF RouterInv, BufferInv, AccountInv
  <2>3. taken \subseteq [at : Nat \ {0}, size : Nat]
    BY DEF RouterInv, TakenInv
  <2>. QED  BY <2>1, <2>2, <2>3, Zenon DEF RouterTypeOK, PoppingInv
<1>. QED  BY <1>1, RouterInductive, PoppingIsBoolean, PTL
-----------------------------------------------------------------------------
(* FrameCodecs.                                                            *)

\* Two bytes carry a 16-bit number, with and without a sign.
LEMMA TwoBytes ==
  ASSUME NEW m \in Int, m >= 0, m < 65536
  PROVE  /\ (m \div 256) * 256 + (m % 256) = m
         /\ m % 65536 = m /\ m \div 256 \in Int
OBVIOUS

LEMMA PutAndRead ==
  ASSUME NEW r \in Int, r >= -32768, r <= 32767
  PROVE  I16(Put(r)[1], Put(r)[2]) = r
<1>. DEFINE h == (r % 65536) \div 256
            l == r % 256
<1>1. CASE r >= 0
  <2>1. h = r \div 256 /\ h * 256 + l = r  BY <1>1, TwoBytes
  <2>2. r \div 256 < 128  BY <1>1
  <2>. QED  BY <2>1, <2>2 DEF I16, U16, Put
<1>2. CASE r < 0
  <2>. DEFINE m == r + 65536
  <2>1. m \in Int /\ m >= 32768 /\ m < 65536  BY <1>2
  <2>2. m % 256 = l  OBVIOUS
  <2>3. r % 65536 = m % 65536  OBVIOUS
  <2>4. m \div 256 >= 128  BY <2>1
  <2>5. (m \div 256) * 256 + (m % 256) = m /\ m % 65536 = m /\ m \div 256 \in Int
    BY <2>1, TwoBytes
  <2>6. h = m \div 256  BY <2>3, <2>5
  <2>7. ~(h < 128)  BY <2>4, <2>5, <2>6
  <2>8. h * 256 + l - 65536 = r
    <3>1. h * 256 + l = m  BY <2>2, <2>5, <2>6
    <3>. QED  BY <3>1
  <2>. QED  BY <2>7, <2>8 DEF I16, U16, Put
<1>. QED  BY <1>1, <1>2

LEMMA PutAndReadUnsigned ==
  ASSUME NEW r \in Int, r >= 0, r <= 65535
  PROVE  U16(Put(r)[1], Put(r)[2]) = r
BY TwoBytes DEF U16, Put

\* Rounding is off by half a unit at most, and the limits are where it says.
LEMMA RoundingAccurate ==
  ASSUME NEW v \in Int
  PROVE  /\ Rounded(v) \in Int /\ v - 10 * Rounded(v) >= -5 /\ v - 10 * Rounded(v) <= 5
         /\ Rounded(v) > 32767 => v >= 327675
         /\ Rounded(v) < -32768 => v <= -327685
<1>1. CASE v >= 0
  <2>. DEFINE r == (v + 5) \div 10
  <2>1. r \in Int /\ v - 10 * r >= -5 /\ v - 10 * r <= 5  BY <1>1
  <2>2. r > 32767 => v >= 327675  BY <1>1
  <2>3. r >= 0  BY <1>1
  <2>4. Rounded(v) = r  BY <1>1 DEF Rounded
  <2>. HIDE DEF r
  <2>. QED  BY <2>1, <2>2, <2>3, <2>4
<1>2. CASE v < 0
  <2>. DEFINE r == (-v + 5) \div 10
  <2>1. r \in Int /\ v + 10 * r >= -5 /\ v + 10 * r <= 5  BY <1>2
  <2>2. r > 32768 => v <= -327685  BY <1>2
  <2>3. r >= 0  BY <1>2
  <2>4. Rounded(v) = -r  BY <1>2 DEF Rounded
  <2>. HIDE DEF r
  <2>. QED  BY <2>1, <2>2, <2>3, <2>4
<1>. QED  BY <1>1, <1>2

-----------------------------------------------------------------------------
(* The bytes of a frame.                                                   *)

LEMMA ConcatAt ==
  ASSUME NEW S, NEW s \in Seq(S), NEW t \in Seq(S)
  PROVE  /\ s \o t \in Seq(S) /\ Len(s \o t) = Len(s) + Len(t)
         /\ \A i \in 1 .. Len(s) : (s \o t)[i] = s[i]
         /\ \A i \in Len(s) + 1 .. Len(s) + Len(t) : (s \o t)[i] = t[i - Len(s)]
<1>1. /\ Len(s) \in Nat /\ Len(t) \in Nat
      /\ s \o t \in Seq(S) /\ Len(s \o t) = Len(s) + Len(t)
  BY ConcatProperties, LenProperties
<1>2. ASSUME NEW i \in 1 .. Len(s) PROVE (s \o t)[i] = s[i]
  BY <1>1, ConcatProperties
<1>3. ASSUME NEW i \in Len(s) + 1 .. Len(s) + Len(t) PROVE (s \o t)[i] = t[i - Len(s)]
  BY <1>1, ConcatProperties
<1>. QED  BY <1>1, <1>2, <1>3

\* Two bytes more.
LEMMA ConcatTwo ==
  ASSUME NEW S, NEW s \in Seq(S), NEW t \in Seq(S), Len(t) = 2
  PROVE  /\ s \o t \in Seq(S) /\ Len(s \o t) = Len(s) + 2
         /\ \A i \in 1 .. Len(s) : (s \o t)[i] = s[i]
         /\ (s \o t)[Len(s) + 1] = t[1] /\ (s \o t)[Len(s) + 2] = t[2]
<1>1. s \o t \in Seq(S)  BY ConcatAt
<1>2. Len(s \o t) = Len(s) + Len(t)  BY ConcatAt
<1>3. \A i \in 1 .. Len(s) : (s \o t)[i] = s[i]  BY ConcatAt
<1>4. \A i \in Len(s) + 1 .. Len(s) + Len(t) : (s \o t)[i] = t[i - Len(s)]  BY ConcatAt
<1>5. Len(s) \in Nat  BY LenProperties
<1>6. (s \o t)[Len(s) + 1] = t[1] /\ (s \o t)[Len(s) + 2] = t[2]
  <2>. DEFINE j == Len(s) + 1
              k == Len(s) + 2
  <2>1. j \in Len(s) + 1 .. Len(s) + Len(t) /\ j - Len(s) = 1  BY <1>5
  <2>2. k \in Len(s) + 1 .. Len(s) + Len(t) /\ k - Len(s) = 2  BY <1>5
  <2>. HIDE DEF j, k
  <2>3. (s \o t)[j] = t[j - Len(s)] /\ (s \o t)[k] = t[k - Len(s)]  BY <1>4, <2>1, <2>2
  <2>4. (s \o t)[j] = t[1] /\ (s \o t)[k] = t[2]  BY <2>1, <2>2, <2>3
  <2>. QED  BY <2>4 DEF j, k
<1>. QED  BY <1>1, <1>2, <1>3, <1>6

LEMMA ClosedBytes ==
  ASSUME NEW B, NEW body \in Seq(B), Len(body) = 8
  PROVE  /\ \A i \in 1 .. 8 : Closed(body)[i + 1] = body[i]
         /\ Closed(body) # Refused
<1>. DEFINE one == <<Header>>
            nine == one \o body
            end == <<XorBcc(nine), Tailer>>
            S == B \cup {Header, XorBcc(nine), Tailer}
            all == nine \o end
<1>1. one \in Seq(S) /\ Len(one) = 1 /\ end \in Seq(S) /\ Len(end) = 2  OBVIOUS
<1>2. body \in Seq(S)  BY SeqMonotonic
<1>3. Closed(body) = all  BY DEF Closed
<1>. HIDE DEF one, end, S
<1>4. nine \in Seq(S)  BY <1>1, <1>2, ConcatAt
<1>5. Len(nine) = Len(one) + Len(body)  BY <1>1, <1>2, ConcatAt
<1>6. \A i \in Len(one) + 1 .. Len(one) + Len(body) : nine[i] = body[i - Len(one)]
  BY <1>1, <1>2, ConcatAt
<1>7. Len(nine) = 9 /\ \A i \in 1 .. 8 : nine[1 + i] = body[i]  BY <1>1, <1>5, <1>6
<1>. HIDE DEF nine
<1>8. Len(all) = Len(nine) + Len(end)  BY <1>1, <1>4, ConcatAt
<1>9. \A i \in 1 .. Len(nine) : all[i] = nine[i]  BY <1>1, <1>4, ConcatAt
<1>. HIDE DEF all
<1>10. all # <<>>
  <2>1. Len(all) # 0  BY <1>1, <1>7, <1>8
  <2>. QED  BY <2>1
<1>11. \A i \in 1 .. 8 : all[i + 1] = body[i]
  <2>. TAKE i \in 1 .. 8
  <2>1. i + 1 \in 1 .. Len(nine) /\ i + 1 = 1 + i  BY <1>7
  <2>2. all[i + 1] = nine[i + 1]  BY <1>9, <2>1
  <2>. QED  BY <1>7, <2>1, <2>2
<1>. QED  BY <1>3, <1>10, <1>11 DEF Refused

MotionBytes(a, b, p, q, r) == <<a, b>> \o p \o q \o r

LEMMA MotionBody ==
  ASSUME NEW S, NEW a \in S, NEW b \in S,
         NEW p \in Seq(S), NEW q \in Seq(S), NEW r \in Seq(S),
         Len(p) = 2, Len(q) = 2, Len(r) = 2
  PROVE  LET body == MotionBytes(a, b, p, q, r)
         IN  /\ body \in Seq(S) /\ Len(body) = 8
             /\ body[1] = a /\ body[2] = b /\ body[3] = p[1] /\ body[4] = p[2]
             /\ body[5] = q[1] /\ body[6] = q[2] /\ body[7] = r[1] /\ body[8] = r[2]
<1>. DEFINE two == <<a, b>>
            four == two \o p
            six == four \o q
            eight == six \o r
<1>1. two \in Seq(S) /\ Len(two) = 2 /\ two[1] = a /\ two[2] = b  OBVIOUS
<1>. HIDE DEF two
<1>2. /\ four \in Seq(S) /\ Len(four) = Len(two) + 2
      /\ \A i \in 1 .. Len(two) : four[i] = two[i]
      /\ four[Len(two) + 1] = p[1] /\ four[Len(two) + 2] = p[2]
  <2>1. four \in Seq(S) /\ Len(four) = Len(two) + 2  BY <1>1, ConcatTwo, SMTT(30)
  <2>2. \A i \in 1 .. Len(two) : four[i] = two[i]  BY <1>1, ConcatTwo, SMTT(30)
  <2>3. four[Len(two) + 1] = p[1] /\ four[Len(two) + 2] = p[2]  BY <1>1, ConcatTwo, SMTT(30)
  <2>. QED  BY <2>1, <2>2, <2>3
<1>. HIDE DEF four
<1>3. /\ Len(four) = 4
      /\ four[1] = a /\ four[2] = b /\ four[3] = p[1] /\ four[4] = p[2]
  BY <1>1, <1>2
<1>4. /\ six \in Seq(S) /\ Len(six) = Len(four) + 2
      /\ \A i \in 1 .. Len(four) : six[i] = four[i]
      /\ six[Len(four) + 1] = q[1] /\ six[Len(four) + 2] = q[2]
  <2>1. six \in Seq(S) /\ Len(six) = Len(four) + 2  BY <1>2, ConcatTwo, SMTT(30)
  <2>2. \A i \in 1 .. Len(four) : six[i] = four[i]  BY <1>2, ConcatTwo, SMTT(30)
  <2>3. six[Len(four) + 1] = q[1] /\ six[Len(four) + 2] = q[2]  BY <1>2, ConcatTwo, SMTT(30)
  <2>. QED  BY <2>1, <2>2, <2>3
<1>. HIDE DEF six
<1>5. /\ Len(six) = 6
      /\ six[1] = a /\ six[2] = b /\ six[3] = p[1] /\ six[4] = p[2]
      /\ six[5] = q[1] /\ six[6] = q[2]
  BY <1>3, <1>4
<1>6. /\ eight \in Seq(S) /\ Len(eight) = Len(six) + 2
      /\ \A i \in 1 .. Len(six) : eight[i] = six[i]
      /\ eight[Len(six) + 1] = r[1] /\ eight[Len(six) + 2] = r[2]
  <2>1. eight \in Seq(S) /\ Len(eight) = Len(six) + 2  BY <1>4, ConcatTwo, SMTT(30)
  <2>2. \A i \in 1 .. Len(six) : eight[i] = six[i]  BY <1>4, ConcatTwo, SMTT(30)
  <2>3. eight[Len(six) + 1] = r[1] /\ eight[Len(six) + 2] = r[2]  BY <1>4, ConcatTwo, SMTT(30)
  <2>. QED  BY <2>1, <2>2, <2>3
<1>. HIDE DEF eight
<1>7. /\ Len(eight) = 8
      /\ eight[1] = a /\ eight[2] = b /\ eight[3] = p[1] /\ eight[4] = p[2]
      /\ eight[5] = q[1] /\ eight[6] = q[2] /\ eight[7] = r[1] /\ eight[8] = r[2]
  BY <1>5, <1>6
<1>8. eight = MotionBytes(a, b, p, q, r)  BY DEF MotionBytes, eight, six, four, two
<1>. QED  BY <1>6, <1>7, <1>8

\* The frames, from the second byte on.
LEMMA LiteralFrame ==
  ASSUME NEW b1, NEW b2, NEW b3, NEW b4, NEW b5
  PROVE  LET frame == Closed(<<b1, b2, b3, b4, b5, 0, 0, 0>>)
         IN  /\ frame # Refused
             /\ frame[2] = b1 /\ frame[3] = b2 /\ frame[4] = b3 /\ frame[5] = b4 /\ frame[6] = b5
<1>. DEFINE body == <<b1, b2, b3, b4, b5, 0, 0, 0>>
            B == {0, b1, b2, b3, b4, b5}
            frame == Closed(body)
<1>1. body \in Seq(B) /\ Len(body) = 8  OBVIOUS
<1>2. body[1] = b1 /\ body[2] = b2 /\ body[3] = b3 /\ body[4] = b4 /\ body[5] = b5  OBVIOUS
<1>. HIDE DEF body, B
<1>3. \A i \in 1 .. 8 : Closed(body)[i + 1] = body[i]  BY <1>1, ClosedBytes
<1>4. Closed(body) # Refused  BY <1>1, ClosedBytes
<1>5. /\ Closed(body)[2] = body[1] /\ Closed(body)[3] = body[2] /\ Closed(body)[4] = body[3]
      /\ Closed(body)[5] = body[4] /\ Closed(body)[6] = body[5]
  BY <1>3
<1>. QED  BY <1>2, <1>4, <1>5 DEF body

VelocityFrame(x, y, z) ==
  Closed(<<RechargeFlag, ReservedByte>> \o Put(x) \o Put(y) \o Put(z))

LEMMA EncodedFrame ==
  ASSUME NEW x, NEW y, NEW z
  PROVE  LET frame == VelocityFrame(x, y, z)
         IN  /\ frame # Refused
             /\ frame[2] = RechargeFlag /\ frame[3] = ReservedByte
             /\ frame[4] = Put(x)[1] /\ frame[5] = Put(x)[2]
             /\ frame[6] = Put(y)[1] /\ frame[7] = Put(y)[2]
             /\ frame[8] = Put(z)[1] /\ frame[9] = Put(z)[2]
<1>. DEFINE B == {RechargeFlag, ReservedByte, Put(x)[1], Put(x)[2],
                  Put(y)[1], Put(y)[2], Put(z)[1], Put(z)[2]}
            body == MotionBytes(RechargeFlag, ReservedByte, Put(x), Put(y), Put(z))
            frame == Closed(body)
<1>1. RechargeFlag \in B /\ ReservedByte \in B  OBVIOUS
<1>2. \A v \in {x, y, z} : Put(v) \in Seq(B) /\ Len(Put(v)) = 2
  <2>. TAKE v \in {x, y, z}
  <2>1. Put(v)[1] \in B /\ Put(v)[2] \in B
    <3>1. v = x \/ v = y \/ v = z  OBVIOUS
    <3>. QED  BY <3>1, Zenon
  <2>2. Put(v) = <<Put(v)[1], Put(v)[2]>>  BY DEF Put
  <2>. DEFINE h == Put(v)[1]
              l == Put(v)[2]
  <2>. HIDE DEF B, h, l
  <2>3. h \in B /\ l \in B  BY <2>1 DEF h, l
  <2>4. <<h, l>> \in Seq(B) /\ Len(<<h, l>>) = 2  BY <2>3
  <2>. QED  BY <2>2, <2>4 DEF h, l
<1>. HIDE DEF B
<1>3. /\ body \in Seq(B) /\ Len(body) = 8
      /\ body[1] = RechargeFlag /\ body[2] = ReservedByte
      /\ body[3] = Put(x)[1] /\ body[4] = Put(x)[2]
      /\ body[5] = Put(y)[1] /\ body[6] = Put(y)[2]
      /\ body[7] = Put(z)[1] /\ body[8] = Put(z)[2]
  <2>1. /\ Put(x) \in Seq(B) /\ Len(Put(x)) = 2
        /\ Put(y) \in Seq(B) /\ Len(Put(y)) = 2
        /\ Put(z) \in Seq(B) /\ Len(Put(z)) = 2
    BY <1>2
  <2>. QED  BY <1>1, <2>1, MotionBody
<1>. HIDE DEF body
<1>4. \A i \in 1 .. 8 : Closed(body)[i + 1] = body[i]  BY <1>3, ClosedBytes
<1>5. Closed(body) # Refused  BY <1>3, ClosedBytes
<1>6. /\ frame[2] = body[1] /\ frame[3] = body[2] /\ frame[4] = body[3] /\ frame[5] = body[4]
      /\ frame[6] = body[5] /\ frame[7] = body[6] /\ frame[8] = body[7] /\ frame[9] = body[8]
  BY <1>4
<1>7. frame = VelocityFrame(x, y, z)
  BY DEF body, MotionBytes, VelocityFrame
<1>. HIDE DEF frame
<1>. QED  BY <1>3, <1>5, <1>6, <1>7 DEF frame

\* A quantity is read from the bytes it was put in, if no two share one.
LEMMA ReadAsPut ==
  ASSUME NEW layout, NEW D, DOMAIN layout.at = D,
         layout.size \in Nat, \A i \in D : layout.at[i] \in Nat \ {0} /\ layout.at[i] < layout.size,
         \A i, j \in D : layout.at[i] = layout.at[j] => i = j,
         \A i, j \in D : layout.at[i] # layout.at[j] + 1,
         NEW q, q = [i \in D |-> q[i]],
         \A i \in D : /\ q[i] \in Int
                      /\ i \in layout.unsigned => q[i] >= 0 /\ q[i] <= 65535
                      /\ i \notin layout.unsigned => q[i] >= -32768 /\ q[i] <= 32767
  PROVE  Decoded(layout, FeedbackFrame(layout, q)) = q
<1>. DEFINE frame == FeedbackFrame(layout, q)
<1>1. ASSUME NEW i \in D
      PROVE  frame[layout.at[i]] = Put(q[i])[1] /\ frame[layout.at[i] + 1] = Put(q[i])[2]
  <2>1. layout.at[i] \in 1 .. layout.size /\ layout.at[i] + 1 \in 1 .. layout.size
    OBVIOUS
  <2>2. (CHOOSE j \in D : layout.at[i] = layout.at[j]) = i
    OBVIOUS
  <2>3. (CHOOSE j \in D : layout.at[i] + 1 = layout.at[j] + 1) = i
    <3>1. \A j \in D : layout.at[i] + 1 = layout.at[j] + 1 => j = i  OBVIOUS
    <3>. QED  BY <3>1
  <2>4. frame[layout.at[i]] = Put(q[i])[1]
    BY <2>1, <2>2 DEF FeedbackFrame
  <2>5. ~\E j \in D : layout.at[i] + 1 = layout.at[j]  OBVIOUS
  <2>6. frame[layout.at[i] + 1] = Put(q[i])[2]
    BY <2>1, <2>3, <2>5 DEF FeedbackFrame
  <2>. QED  BY <2>4, <2>6
<1>. HIDE DEF frame
<1>2. ASSUME NEW i \in D
      PROVE  (IF i \in layout.unsigned THEN U16(frame[layout.at[i]], frame[layout.at[i] + 1])
              ELSE I16(frame[layout.at[i]], frame[layout.at[i] + 1])) = q[i]
  <2>1. CASE i \in layout.unsigned
    BY <1>1, <2>1, PutAndReadUnsigned
  <2>2. CASE i \notin layout.unsigned
    BY <1>1, <2>2, PutAndRead
  <2>. QED  BY <2>1, <2>2
<1>3. Decoded(layout, frame) = [i \in D |-> q[i]]
  BY <1>2 DEF Decoded
<1>. QED  BY <1>3 DEF frame

-----------------------------------------------------------------------------
\* Between two calls nothing is left; behind one there is what it produced.
AfterWrite ==
  /\ feedback = NoFeedback
  /\ \E r \in Requests : written = [request |-> r, frame |-> Frame(r)]

AfterRead ==
  /\ written = Nothing
  /\ \E layout \in {MotionLayout, UltrasonicLayout, ChargingLayout}, a, b \in Quantities :
       feedback = Reading(layout, a, b)

CodecInv == Idle \/ AfterWrite \/ AfterRead

LEMMA CodecsInductive == CodecsSpec => []CodecInv
<1>1. CodecsInit => CodecInv
  BY DEF CodecsInit, CodecInv
<1>2. CodecInv /\ [CodecsNext]_codecVars => CodecInv'
  <2>. SUFFICES ASSUME CodecInv, [CodecsNext]_codecVars PROVE CodecInv'
    OBVIOUS
  <2>1. CASE WriteRequest
    <3>1. AfterWrite'
      BY <2>1 DEF WriteRequest, AfterWrite, Idle
    <3>. QED  BY <3>1 DEF CodecInv
  <2>2. CASE ReadFeedback
    <3>1. written' = Nothing
      BY <2>2 DEF ReadFeedback, Idle
    <3>2. \E layout \in {MotionLayout, UltrasonicLayout, ChargingLayout}, a, b \in Quantities :
            feedback' = Reading(layout, a, b)
      BY <2>2 DEF ReadFeedback
    <3>. QED  BY <3>1, <3>2 DEF CodecInv, AfterRead
  <2>3. CASE Return
    BY <2>3 DEF Return, CodecInv, Idle
  <2>4. CASE UNCHANGED codecVars
    <3>1. written' = written /\ feedback' = feedback
      BY <2>4 DEF codecVars
    <3>2. (Idle => Idle') /\ (AfterWrite => AfterWrite') /\ (AfterRead => AfterRead')
      BY <3>1 DEF Idle, AfterWrite, AfterRead
    <3>. QED  BY <3>2 DEF CodecInv
  <2>. QED  BY <2>1, <2>2, <2>3, <2>4 DEF CodecsNext
<1>. QED  BY <1>1, <1>2, PTL DEF CodecsSpec

\* What a request holds.
LEMMA RequestKinds ==
  ASSUME NEW r \in Requests
  PROVE  \/ /\ r.type = "Motion"
            /\ \A i \in 1 .. 3 : r.content[i] \in Velocities \cup {NonFinite}
         \/ r.type \in {"Recharge", "McuSafety"} /\ \E e \in BOOLEAN : r.content = <<e, 0>>
         \/ /\ r.type = "Light"
            /\ \E e \in BOOLEAN, x, y, z \in Colours : r.content = <<e, x, y, z>>
<1>1. CASE r \in [type : {"Motion"},
                  content : (Velocities \cup {NonFinite}) \X Velocities \X Velocities]
  BY <1>1
<1>2. CASE r \in [type : {"Recharge", "McuSafety"}, content : BOOLEAN \X {0}]
  BY <1>2
<1>3. CASE r \in [type : {"Light"}, content : BOOLEAN \X Colours \X Colours \X Colours]
  BY <1>3
<1>. QED  BY <1>1, <1>2, <1>3 DEF Requests

\* A velocity that is written is carried axis by axis, rounded.
LEMMA MotionIsCarried ==
  ASSUME NEW x, NEW y, NEW z, Encodable(x), Encodable(y), Encodable(z),
         Rounded(x) \in Int, Rounded(y) \in Int, Rounded(z) \in Int
  PROVE  LET frame == EncodeVelocity(x, y, z)
         IN  /\ frame # Refused /\ frame[2] = RechargeFlag /\ frame[3] = ReservedByte
             /\ Carried(frame)[1] = Rounded(x)
             /\ Carried(frame)[2] = Rounded(y)
             /\ Carried(frame)[3] = Rounded(z)
<1>. DEFINE frame == EncodeVelocity(x, y, z)
            p == Rounded(x)
            q == Rounded(y)
            r == Rounded(z)
<1>1. frame = VelocityFrame(p, q, r)
  BY DEF EncodeVelocity, VelocityFrame
<1>2. /\ p \in Int /\ p >= -32768 /\ p <= 32767
      /\ q \in Int /\ q >= -32768 /\ q <= 32767
      /\ r \in Int /\ r >= -32768 /\ r <= 32767
  BY DEF Encodable
<1>. HIDE DEF frame, p, q, r
<1>4. /\ VelocityFrame(p, q, r) # Refused
      /\ VelocityFrame(p, q, r)[2] = RechargeFlag /\ VelocityFrame(p, q, r)[3] = ReservedByte
      /\ VelocityFrame(p, q, r)[4] = Put(p)[1] /\ VelocityFrame(p, q, r)[5] = Put(p)[2]
      /\ VelocityFrame(p, q, r)[6] = Put(q)[1] /\ VelocityFrame(p, q, r)[7] = Put(q)[2]
      /\ VelocityFrame(p, q, r)[8] = Put(r)[1] /\ VelocityFrame(p, q, r)[9] = Put(r)[2]
  BY EncodedFrame
<1>7. /\ Carried(frame)[1] = I16(frame[4], frame[5])
      /\ Carried(frame)[2] = I16(frame[6], frame[7])
      /\ Carried(frame)[3] = I16(frame[8], frame[9])
  BY DEF Carried
<1>8. /\ I16(Put(p)[1], Put(p)[2]) = p
      /\ I16(Put(q)[1], Put(q)[2]) = q
      /\ I16(Put(r)[1], Put(r)[2]) = r
  BY <1>2, PutAndRead
<1>9. /\ Carried(frame)[1] = p /\ Carried(frame)[2] = q /\ Carried(frame)[3] = r
  BY <1>1, <1>4, <1>7, <1>8
<1>. QED  BY <1>1, <1>4, <1>9 DEF frame, p, q, r

LEMMA EncodableOrBeyond ==
  ASSUME NEW v \in Velocities \cup {NonFinite}
  PROVE  /\ Encodable(v) => Rounded(v) \in Int /\ Near(v, Rounded(v))
         /\ ~Encodable(v) => Beyond(v)
<1>1. CASE v = NonFinite
  BY <1>1 DEF Encodable, Beyond
<1>2. CASE v # NonFinite
  <2>1. v \in Int  BY <1>2, CodecAssumption
  <2>2. /\ Rounded(v) \in Int /\ v - 10 * Rounded(v) >= -5 /\ v - 10 * Rounded(v) <= 5
        /\ Rounded(v) > 32767 => v >= 327675
        /\ Rounded(v) < -32768 => v <= -327685
    BY <2>1, RoundingAccurate
  <2>. QED  BY <1>2, <2>1, <2>2 DEF Encodable, Near, Beyond
<1>. QED  BY <1>1, <1>2

\* No velocity goes out that is further than rounding from the one asked for,
\* and none is refused that a frame can carry.
THEOREM VelocityAccurateHolds == CodecsSpec => []VelocityAccurate
<1>1. CodecInv => VelocityAccurate
  <2>. SUFFICES ASSUME CodecInv, written.request.type = "Motion"
                PROVE  LET c == written.request.content
                       IN  IF written.frame # Refused
                           THEN \A i \in 1 .. 3 : Near(c[i], Carried(written.frame)[i])
                           ELSE \E i \in 1 .. 3 : Beyond(c[i])
    BY DEF VelocityAccurate
  <2>1. AfterWrite
    BY DEF CodecInv, Idle, AfterRead, Nothing
  <2>2. PICK r \in Requests : written = [request |-> r, frame |-> Frame(r)]
    BY <2>1 DEF AfterWrite
  <2>. DEFINE c == r.content
  <2>3. r.type = "Motion" /\ written.request = r /\ written.frame = Frame(r)
    BY <2>2
  <2>4. \A i \in 1 .. 3 : c[i] \in Velocities \cup {NonFinite}
    BY <2>3, RequestKinds
  <2>5. Frame(r) = EncodeVelocity(c[1], c[2], c[3])
    BY <2>3 DEF Frame
  <2>6. \A i \in 1 .. 3 : /\ Encodable(c[i]) => Rounded(c[i]) \in Int /\ Near(c[i], Rounded(c[i]))
                          /\ ~Encodable(c[i]) => Beyond(c[i])
    BY <2>4, EncodableOrBeyond
  <2>7. CASE \A i \in 1 .. 3 : Encodable(c[i])
    <3>1. /\ Encodable(c[1]) /\ Encodable(c[2]) /\ Encodable(c[3])
          /\ Rounded(c[1]) \in Int /\ Rounded(c[2]) \in Int /\ Rounded(c[3]) \in Int
          /\ Near(c[1], Rounded(c[1])) /\ Near(c[2], Rounded(c[2])) /\ Near(c[3], Rounded(c[3]))
      BY <2>6, <2>7
    <3>2. /\ Frame(r) # Refused
          /\ Carried(Frame(r))[1] = Rounded(c[1])
          /\ Carried(Frame(r))[2] = Rounded(c[2])
          /\ Carried(Frame(r))[3] = Rounded(c[3])
      BY <2>5, <3>1, MotionIsCarried
    <3>3. \A i \in 1 .. 3 : i = 1 \/ i = 2 \/ i = 3  OBVIOUS
    <3>4. \A i \in 1 .. 3 : Near(c[i], Carried(Frame(r))[i])
      BY <3>1, <3>2, <3>3
    <3>. QED  BY <2>3, <3>2, <3>4
  <2>8. CASE \E i \in 1 .. 3 : ~Encodable(c[i])
    <3>1. Frame(r) = Refused
      BY <2>5, <2>8 DEF EncodeVelocity
    <3>. QED  BY <2>3, <2>6, <2>8, <3>1
  <2>. QED  BY <2>7, <2>8
<1>. QED  BY <1>1, CodecsInductive, PTL

\* The layouts keep the bytes of their quantities apart.
LEMMA LayoutsReadAsPut ==
  ASSUME NEW layout \in {MotionLayout, UltrasonicLayout, ChargingLayout},
         NEW q, q = [i \in DOMAIN layout.at |-> q[i]],
         \A i \in DOMAIN layout.at :
            /\ q[i] \in Int
            /\ i \in layout.unsigned => q[i] >= 0 /\ q[i] <= 65535
            /\ i \notin layout.unsigned => q[i] >= -32768 /\ q[i] <= 32767
  PROVE  Decoded(layout, FeedbackFrame(layout, q)) = q
<1>. DEFINE D == DOMAIN layout.at
<1>1. /\ layout.size \in Nat
      /\ \A i \in D : layout.at[i] \in Nat \ {0} /\ layout.at[i] < layout.size
      /\ \A i, j \in D : layout.at[i] = layout.at[j] => i = j
      /\ \A i, j \in D : layout.at[i] # layout.at[j] + 1
  <2>1. CASE layout = MotionLayout
    <3>1. layout.at = [i \in 1 .. 10 |-> 2 * i + 1] /\ layout.size = 24
      BY <2>1 DEF MotionLayout
    <3>2. D = 1 .. 10 /\ \A i \in D : layout.at[i] = 2 * i + 1  BY <3>1
    <3>. HIDE DEF D
    <3>. QED  BY <3>1, <3>2
  <2>2. CASE layout = UltrasonicLayout
    <3>1. layout.at = [i \in 1 .. 6 |-> 2 * i] /\ layout.size = 19
      BY <2>2 DEF UltrasonicLayout
    <3>2. D = 1 .. 6 /\ \A i \in D : layout.at[i] = 2 * i  BY <3>1
    <3>. HIDE DEF D
    <3>. QED  BY <3>1, <3>2
  <2>3. CASE layout = ChargingLayout
    <3>1. layout.at = <<2>> /\ layout.size = 8
      BY <2>3 DEF ChargingLayout
    <3>2. D = {1} /\ \A i \in D : layout.at[i] = 2  BY <3>1
    <3>. HIDE DEF D
    <3>. QED  BY <3>1, <3>2
  <2>. QED  BY <2>1, <2>2, <2>3
<1>. QED  BY <1>1, ReadAsPut

\* No request is taken for another, and no quantity is read from a wrong byte
\* or with a wrong sign.
THEOREM UnderstoodAsMeantHolds == CodecsSpec => []UnderstoodAsMeant
<1>1. AfterWrite => UnderstoodAsMeant
  <2>. SUFFICES ASSUME AfterWrite, NEW r \in Requests,
                       written = [request |-> r, frame |-> Frame(r)], Frame(r) # Refused
                PROVE  IF r.type = "Motion" THEN Understood(Frame(r)).type = "Motion"
                       ELSE Understood(Frame(r)) = r
    BY DEF AfterWrite, UnderstoodAsMeant, NoFeedback
  <2>. DEFINE c == r.content
  <2>1. CASE r.type = "Motion"
    <3>1. \A i \in 1 .. 3 : c[i] \in Velocities \cup {NonFinite}
      BY <2>1, RequestKinds
    <3>2. Frame(r) = EncodeVelocity(c[1], c[2], c[3])
      BY <2>1 DEF Frame
    <3>3. Encodable(c[1]) /\ Encodable(c[2]) /\ Encodable(c[3])
      BY <3>2 DEF EncodeVelocity
    <3>4. Rounded(c[1]) \in Int /\ Rounded(c[2]) \in Int /\ Rounded(c[3]) \in Int
      BY <3>1, <3>3, EncodableOrBeyond
    <3>5. Frame(r)[2] = RechargeFlag /\ Frame(r)[3] = ReservedByte
      BY <3>2, <3>3, <3>4, MotionIsCarried
    <3>6. RechargeFlag = 0 /\ ReservedByte # 176 /\ ReservedByte # 177
      BY CodecAssumption
    <3>. QED  BY <2>1, <3>5, <3>6 DEF Understood
  <2>2. CASE r.type = "Recharge"
    <3>1. PICK e \in BOOLEAN : c = <<e, 0>>  BY <2>2, RequestKinds
    <3>2. r = [type |-> "Recharge", content |-> <<e, 0>>]
      BY <2>2, <3>1 DEF Requests
    <3>3. Frame(r) = Closed(<<1, IF e THEN 161 ELSE 160, 0, 0, 0, 0, 0, 0>>)
      BY <2>2, <3>1 DEF Frame, SetRechargeEnabled
    <3>4. Frame(r)[2] = 1 /\ Frame(r)[3] = IF e THEN 161 ELSE 160
      BY <3>3, LiteralFrame
    <3>5. (Frame(r)[3] = 161) = e
      BY <3>4
    <3>. QED  BY <2>2, <3>2, <3>4, <3>5 DEF Understood
  <2>3. CASE r.type = "McuSafety"
    <3>1. PICK e \in BOOLEAN : c = <<e, 0>>  BY <2>3, RequestKinds
    <3>2. r = [type |-> "McuSafety", content |-> <<e, 0>>]
      BY <2>3, <3>1 DEF Requests
    <3>3. Frame(r) = Closed(<<0, IF e THEN 177 ELSE 176, 0, 0, 0, 0, 0, 0>>)
      BY <2>3, <3>1 DEF Frame, SetMcuSafetyEnabled
    <3>4. Frame(r)[2] = 0 /\ Frame(r)[3] = IF e THEN 177 ELSE 176
      BY <3>3, LiteralFrame
    <3>5. (Frame(r)[3] = 177) = e /\ Frame(r)[3] \in {176, 177}
      BY <3>4
    <3>. QED  BY <2>3, <3>2, <3>4, <3>5 DEF Understood
  <2>4. CASE r.type = "Light"
    <3>1. PICK e \in BOOLEAN, x, y, z \in Colours : c = <<e, x, y, z>>
      BY <2>4, RequestKinds
    <3>2. r = [type |-> "Light", content |-> <<e, x, y, z>>]
      BY <2>4, <3>1 DEF Requests
    <3>3. Frame(r) = Closed(<<4, IF e THEN 1 ELSE 0, x, y, z, 0, 0, 0>>)
      BY <2>4, <3>1 DEF Frame, SetLight
    <3>4. /\ Frame(r)[2] = 4 /\ Frame(r)[3] = (IF e THEN 1 ELSE 0)
          /\ Frame(r)[4] = x /\ Frame(r)[5] = y /\ Frame(r)[6] = z
      BY <3>3, LiteralFrame
    <3>5. (Frame(r)[3] = 1) = e
      BY <3>4
    <3>. QED  BY <2>4, <3>2, <3>4, <3>5 DEF Understood
  <2>. QED  BY <2>1, <2>2, <2>3, <2>4, RequestKinds
<1>2. AfterRead => UnderstoodAsMeant
  <2>. SUFFICES ASSUME AfterRead PROVE UnderstoodAsMeant
    OBVIOUS
  <2>1. PICK layout \in {MotionLayout, UltrasonicLayout, ChargingLayout},
             a \in Quantities, b \in Quantities : feedback = Reading(layout, a, b)
    BY DEF AfterRead
  <2>. DEFINE quantities == [i \in DOMAIN layout.at |->
                               LET q == IF i % 3 = 0 THEN a ELSE IF i % 3 = 1 THEN b ELSE -a - 1
                               IN  IF i \in layout.unsigned THEN q % 65536 ELSE q]
              value(i) == IF i % 3 = 0 THEN a ELSE IF i % 3 = 1 THEN b ELSE -a - 1
  <2>2. feedback = [meant |-> quantities, read |-> Decoded(layout, FeedbackFrame(layout, quantities))]
    BY <2>1 DEF Reading
  <2>3. /\ a \in Int /\ a >= -32768 /\ a <= 32767
        /\ b \in Int /\ b >= -32768 /\ b <= 32767
    BY CodecAssumption
  <2>4. \A i \in DOMAIN layout.at :
          /\ value(i) \in Int /\ value(i) >= -32768 /\ value(i) <= 32767
          /\ value(i) % 65536 \in Int /\ value(i) % 65536 >= 0 /\ value(i) % 65536 <= 65535
    BY <2>3
  <2>5. quantities = [i \in DOMAIN layout.at |->
                        IF i \in layout.unsigned THEN value(i) % 65536 ELSE value(i)]
    OBVIOUS
  <2>. HIDE DEF value, quantities
  <2>6. \A i \in DOMAIN layout.at :
          /\ quantities[i] \in Int
          /\ i \in layout.unsigned => quantities[i] >= 0 /\ quantities[i] <= 65535
          /\ i \notin layout.unsigned => quantities[i] >= -32768 /\ quantities[i] <= 32767
    BY <2>4, <2>5
  <2>7. quantities = [i \in DOMAIN layout.at |-> quantities[i]]
    BY <2>5
  <2>8. Decoded(layout, FeedbackFrame(layout, quantities)) = quantities
    BY <2>6, <2>7, LayoutsReadAsPut
  <2>9. feedback.read = feedback.meant
    BY <2>2, <2>8
  <2>10. written.frame = Refused
    BY DEF AfterRead, Nothing
  <2>. QED  BY <2>9, <2>10 DEF UnderstoodAsMeant
<1>3. Idle => UnderstoodAsMeant
  BY DEF Idle, UnderstoodAsMeant, Nothing, NoFeedback
<1>4. CodecInv => UnderstoodAsMeant
  BY <1>1, <1>2, <1>3 DEF CodecInv
<1>. QED  BY <1>4, CodecsInductive, PTL
=============================================================================
