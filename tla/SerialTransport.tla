--------------------------- MODULE SerialTransport ---------------------------
(***************************************************************************)
(* SerialTransport over the vendored serial library and the kernel: every  *)
(* method of IByteTransport, each a step, since one thread calls them.     *)
(*                                                                         *)
(* Of the library (serial/src/impl/unix.cc) the model keeps what the       *)
(* methods depend on.  Any call may throw.  open() holds a descriptor      *)
(* before it has configured the port, and counts as open only afterwards.  *)
(* Where ::close fails, close() throws and the port goes on counting as    *)
(* open, with a number that Linux has released all the same and may give   *)
(* to another file.  flushInput() ignores what tcflush answers.            *)
(*                                                                         *)
(* The one rule of the caller is that of connectAndHandshake(): after an   *)
(* open() that answered yes, and only there, comes flushInput(), whose     *)
(* answer it ignores.                                                      *)
(***************************************************************************)
EXTENDS Integers

CONSTANTS
  ReadLimit,       \* max_bytes of readAvailable
  MaxDescriptors,  \* the descriptors that the process may have
  MaxWaiting       \* bound: bytes that wait in the kernel

ASSUME TransportAssumption ==
  /\ ReadLimit \in Nat /\ MaxDescriptors \in Nat \ {0} /\ MaxWaiting \in Nat

VARIABLES
  isOpen,       \* serial_.isOpen()
  stuck,        \* is_open_ is left over from a ::close that failed
  descriptors,  \* the descriptors of the port that the process holds
  lastError,    \* last_error_, "none" if empty
  old, new,     \* the bytes waiting that came before and after flushInput()
  flush,        \* history: what became of the flush of this connection
  result        \* the last call, its answer and how many bytes it returned
                \* that this connection did not receive after its flush

transportVars == <<isOpen, stuck, descriptors, lastError, old, new, flush, result>>

portVars == <<isOpen, stuck, descriptors, lastError>>

\* Not yet called; took effect; tcflush failed; threw.
Flushes == {"none", "due", "done", "kept", "threw"}

TransportTypeOK ==
  /\ isOpen \in BOOLEAN /\ stuck \in BOOLEAN
  /\ descriptors \in 0 .. MaxDescriptors
  /\ lastError \in {"none", "exception", "short write", "closed"}
  /\ old \in Nat /\ new \in Nat
  /\ flush \in Flushes
  /\ result \in [call : {"none", "open", "close", "flushInput", "readAvailable", "write"},
                 ok : BOOLEAN, stale : Nat]

TransportInit ==
  /\ isOpen = FALSE /\ stuck = FALSE /\ descriptors = 0 /\ lastError = "none"
  /\ old = 0 /\ new = 0 /\ flush = "none"
  /\ result = [call |-> "none", ok |-> TRUE, stale |-> 0]

Returns(call, ok, n) == result' = [call |-> call, ok |-> ok, stale |-> n]

Answers(call, ok) == Returns(call, ok, 0)

-----------------------------------------------------------------------------
(* The library.                                                            *)

\* Whether this process still holds the descriptor of the open port.
Held == IF isOpen /\ ~stuck THEN 1 ELSE 0

\* Mutation: the port counts as closed, and nothing was closed.
LibraryForgets == isOpen' = FALSE /\ stuck' = FALSE /\ UNCHANGED descriptors

\* serial_.close(), which does nothing to a port that does not count as open.
\* It threw exactly if the port counts as open afterwards.
LibraryCloses ==
  /\ stuck' \in {FALSE, isOpen} /\ isOpen' = stuck'
  /\ descriptors' = descriptors - Held

\* Mutation: what waits is kept, and the caller told otherwise.
FlushedNothing(outcome) == UNCHANGED <<old, new>>

\* serial_.flushInput(): the outcome, and what then waits.
Flushed(outcome) ==
  IF outcome = "done" THEN old' = 0 /\ new' = 0 ELSE UNCHANGED <<old, new>>

Smaller(a, b) == IF a < b THEN a ELSE b

\* serial_.read() takes got bytes, the oldest first; from a number that is
\* another file's by now, whatever that file holds.
Taken(got) ==
  IF stuck THEN UNCHANGED <<old, new>>
  ELSE /\ got <= old + new
       /\ old' = old - Smaller(got, old)
       /\ new' = new - (got - Smaller(got, old))

Stale(got) == IF stuck THEN got ELSE Smaller(got, old)

-----------------------------------------------------------------------------
(* SerialTransport.                                                        *)
Open ==
  /\ ~isOpen
  /\ \/ /\ descriptors < MaxDescriptors
        /\ isOpen' = TRUE /\ descriptors' = descriptors + 1
        /\ lastError' = "none" /\ flush' = "due"
     \/ /\ UNCHANGED descriptors
        /\ isOpen' = FALSE /\ lastError' = "exception" /\ UNCHANGED flush
     \* The close() of the handler finds a port that is not open.
     \/ /\ descriptors < MaxDescriptors
        /\ descriptors' = descriptors + 1
        /\ isOpen' = FALSE /\ lastError' = "exception" /\ UNCHANGED flush
  /\ Answers("open", isOpen')
  /\ old' = old + new /\ new' = 0
  /\ UNCHANGED stuck

Close ==
  /\ flush # "due"
  /\ LibraryCloses
  /\ lastError' = IF isOpen' THEN "exception" ELSE lastError
  /\ Answers("close", TRUE)
  /\ UNCHANGED <<old, new, flush>>

\* Whatever flushInput() runs into, the port stays open.
FlushInput ==
  /\ isOpen => flush = "due"
  /\ \/ /\ isOpen
        /\ flush' \in {"done", "kept", "threw"}
        /\ Flushed(flush')
        /\ lastError' = IF flush' = "threw" THEN "exception" ELSE lastError
        /\ Answers("flushInput", flush' # "threw")
     \/ /\ ~isOpen
        /\ Answers("flushInput", FALSE)
        /\ UNCHANGED <<old, new, lastError, flush>>
  /\ UNCHANGED <<isOpen, stuck, descriptors>>

\* The library threw: the error is noted and the port closed, whatever that
\* close throws.
Throws == LibraryCloses /\ lastError' = "exception"

ReadAvailable ==
  /\ flush # "due"
  /\ \/ /\ isOpen
        /\ \E got \in 0 .. ReadLimit :
             /\ Taken(got)
             /\ \/ Returns("readAvailable", TRUE, Stale(got)) /\ UNCHANGED portVars
                \/ Answers("readAvailable", FALSE) /\ Throws
     \/ /\ ~isOpen
        /\ Answers("readAvailable", FALSE)
        /\ UNCHANGED <<portVars, old, new>>
  /\ UNCHANGED flush

\* Mutation: the caller is told of a short write, and that is all.
ShortWriteOnly == UNCHANGED portVars

\* A close() that throws here ends in the handler, as Throws does.
ShortWrite == LibraryCloses /\ ~isOpen' /\ lastError' = "short write"

Write ==
  /\ flush # "due"
  /\ \/ isOpen /\ Answers("write", TRUE) /\ UNCHANGED portVars
     \/ isOpen /\ Answers("write", FALSE) /\ (ShortWrite \/ Throws)
     \/ /\ ~isOpen
        /\ lastError' = "closed" /\ Answers("write", FALSE)
        /\ UNCHANGED <<isOpen, stuck, descriptors>>
  /\ UNCHANGED <<old, new, flush>>

\* The device sends a byte.
Arrive ==
  /\ old + new < MaxWaiting
  /\ IF isOpen /\ flush # "due" THEN new' = new + 1 /\ UNCHANGED old
                                ELSE old' = old + 1 /\ UNCHANGED new
  /\ UNCHANGED <<portVars, flush, result>>

TransportNext == Open \/ Close \/ FlushInput \/ ReadAvailable \/ Write \/ Arrive

TransportSpec == TransportInit /\ [][TransportNext]_transportVars

-----------------------------------------------------------------------------
Contract ==
  INSTANCE ByteTransport WITH
    port <- isOpen,
    answer <- [call |-> result.call, ok |-> result.ok]

\* Every method, whatever the library throws, keeps the contract by which the
\* worker finds out that it has to reconnect: a read or write that answers no
\* has closed the port, unless the kernel refused the close.
KeepsContract == Contract!Spec

\* No half of an old frame reaches the router: what is read was sent after the
\* flush of this connection, except while that flush has failed (which nobody
\* looks at: base_io_worker.cpp:79, unix.cc:806) or a failed close has left
\* the library with a foreign number.
OldBytesNeedFailure ==
  result.stale # 0 => flush \in {"kept", "threw"} \/ stuck

\* The error shown with the status is never that of a connection given up: an
\* open port shows one only of its own flush or of a close that failed.
ErrorIsCurrent == isOpen /\ lastError # "none" => flush = "threw" \/ stuck

Leaked == descriptors - Held

\* However the calls fail, a descriptor is lost only by an open() that failed
\* after it had taken one (there the close() of the handler does nothing).
LeaksOnlyInOpen ==
  [][Leaked' # Leaked => result'.call = "open" /\ ~result'.ok]_transportVars
=============================================================================
