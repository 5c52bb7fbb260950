---------------------------- MODULE ByteTransport ----------------------------
(***************************************************************************)
(* IByteTransport as BaseIoWorker relies on it: a port, and calls that     *)
(* answer with a boolean.  An open that answers yes leaves the port open   *)
(* and any other leaves it closed; a read or write that answers yes leaves *)
(* it as it is; one that answers no, and a close, have closed it, so that  *)
(* the next iteration of the worker reconnects (FailedIo in BaseIoWorker). *)
(*                                                                         *)
(* The one way out of this is a close that the kernel refuses: the port    *)
(* stays open, and stuck, until a later close succeeds.  A flush that      *)
(* answers no tells nothing.                                               *)
(***************************************************************************)
VARIABLES
  port,   \* isOpen()
  stuck,  \* it is open only because it could not be closed
  answer  \* the last call and what it returned

transport == <<port, stuck, answer>>

Answers(call, ok) == answer' = [call |-> call, ok |-> ok]

Init == ~port /\ ~stuck /\ answer = [call |-> "none", ok |-> TRUE]

\* An open port is closed or stuck, a closed one stays as it is.
Closed == (stuck' => port) /\ port' = stuck'

Open == ~port /\ UNCHANGED stuck /\ Answers("open", port')

Close == Closed /\ Answers("close", TRUE)

FlushInput ==
  \E ok \in {TRUE, FALSE} :
    /\ ok => port
    /\ Answers("flushInput", ok)
    /\ UNCHANGED <<port, stuck>>

ReadOrWrite ==
  \E call \in {"readAvailable", "write"} :
    \/ port /\ UNCHANGED <<port, stuck>> /\ Answers(call, TRUE)
    \/ Closed /\ Answers(call, FALSE)

Next == Open \/ Close \/ FlushInput \/ ReadOrWrite

Spec == Init /\ [][Next]_transport
=============================================================================
