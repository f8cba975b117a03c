------------------------------- MODULE MCIpc -------------------------------
(***************************************************************************)
(* Instances of Ipc for TLC.  Process 0 is init, the idle process.         *)
(***************************************************************************)
EXTENDS Ipc

\* Two clients that send to each other and receive selectively.
PairSendTo == [p \in Procs |-> CASE p = 1 -> {2} [] p = 2 -> {1} [] OTHER -> {}]
PairRecvFrom == [p \in Procs |-> CASE p = 1 -> {2} [] p = 2 -> {AnySrc, 1} [] OTHER -> {}]
PairIrqTo == {1}

\* One process sends to another, and an interrupt handler does.
OneWaySendTo == [p \in Procs |-> IF p = 1 THEN {2} ELSE {}]
OneWayRecvFrom == [p \in Procs |-> IF p = 2 THEN {AnySrc, 1} ELSE {}]
OneWayIrqTo == {2}
=============================================================================
