----------------------- MODULE BaseIoWorkerRefinement -----------------------
(***************************************************************************)
(* BaseIoWorker implements BaseContract.                                   *)
(***************************************************************************)
EXTENDS BaseIoWorkerProperties

Contract ==
  INSTANCE BaseContract WITH
    state <- fm.state,
    link <- fm.serialOpen,
    moving <- portOpen /\ Moving

\* The thread, its fault manager and the line together keep the contract,
\* whatever the callbacks and the line do (run, BaseFaultManager).
ImplementsContract == Contract!Spec

\* What the mapping needs beyond IInv: the state says whether the port is
\* open and whether feedback came; the fault manager hears of the port at the
\* two resync points; and a robot that still moves at the point of the reset
\* is held, if at all, by a stop seen in this very iteration.
ContractInv ==
  /\ fm.serialOpen => fm.state # "Disconnected"
  /\ ~fm.serialOpen => fm.state \in {"Disconnected", "FaultLatched"}
  /\ fm.haveFeedback => fm.state \in {"Ready", "FaultLatched"}
  /\ pc = "connectResync" => ~fm.serialOpen
  /\ pc = "disconnectResync" => fm.serialOpen
  /\ pc \in {"read", "reset"} /\ Moving /\ Latched(fm) => fm.emergencyStop
=============================================================================
