------------------------------ MODULE MCLock ------------------------------
(***************************************************************************)
(* Lock with two processes, sections nested twice (Wake_Up of kernel/pm.c  *)
(* calls send inside a section) and a system call inside a system call.    *)
(***************************************************************************)
EXTENDS Lock
=============================================================================
