---------------------------- MODULE MCDiskRead ----------------------------
(***************************************************************************)
(* Instances of DiskRead for TLC: process 0 is init, 1 is FM, 2 is IDE,    *)
(* and 3 executes programs.                                                *)
(***************************************************************************)
EXTENDS DiskRead

ChainSendTo ==
    [p \in Procs |-> CASE p = FM -> Users \cup {IDE} [] p = IDE -> {FM}
                       [] p \in Users -> {FM} [] OTHER -> {}]
ChainRecvFrom ==
    [p \in Procs |-> CASE p = FM -> {AnySrc, IDE} [] p = IDE -> {AnySrc, HardIntr}
                       [] p \in Users -> {FM} [] OTHER -> {}]
ChainIrqTo == {IDE}
ChainClients == Users \cup Servers
=============================================================================
