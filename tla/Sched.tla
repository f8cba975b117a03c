------------------------------- MODULE Sched -------------------------------
(***************************************************************************)
(* The round-robin scheduler of kernel/process/schedule.c on the single    *)
(* processor the kernel runs on.  The module declares the scheduler's      *)
(* state and the operators every kernel path uses to change it; the        *)
(* modules that EXTEND it say when they are called.                        *)
(*                                                                         *)
(* Proc[0..NProc-1] are the processes that exist.  init_proc and           *)
(* Create_kthread link each new PCB before init, so that the ring          *)
(* current_pcb -> next -> next ... visits them in pid order.  Page tables  *)
(* (cr3) and saved stack pointers are not modelled.                        *)
(***************************************************************************)
EXTENDS Integers

CONSTANT NProc          \* number of processes in the ring

ASSUME NProcAssumption == NProc \in Nat \ {0}

VARIABLES status,       \* PCB status of every process
          current,      \* current_pcb
          needSched,    \* need_sched
          halt          \* "none", or why the processor stopped for good

schedVars == <<status, current, needSched, halt>>

Procs == 0 .. NProc - 1

\* Proc[0], which becomes the idle loop once the first program is loaded.
Idle == 0

Status == {"waiting", "running", "sleeping"}

\* find_next_live_process does not return; the panics of message.c; and the
\* panics of the IDE driver (module DiskRead).
Halts == {"none", "spin", "pool", "empty", "leak", "notready"}

\* Types of the scheduler's state.
SchedTypeOK ==
    /\ status \in [Procs -> Status]
    /\ current \in Procs
    /\ needSched \in BOOLEAN
    /\ halt \in Halts

SchedInit ==
    /\ status = [p \in Procs |-> "waiting"]
    /\ current = Idle
    /\ needSched = TRUE
    /\ halt = "none"

\* A fault of Ahead: the scan starts at Proc[0] each time.
AheadFromFirst(c, p) == p

(***************************************************************************)
(* find_next_live_process: the ring is scanned from the successor of c and *)
(* c itself is looked at last.                                             *)
(***************************************************************************)
Ahead(c, p) == (p - c - 1) % NProc

IsNextLive(st, c, p) ==
    /\ st[p] = "waiting"
    /\ \A r \in Procs : st[r] = "waiting" => Ahead(c, p) <= Ahead(c, r)

\* A fault of Preempted: the wrong status.
PreemptedSleeps(st, c) == [st EXCEPT ![c] = "sleeping"]

\* A running process that is descheduled stays ready.
Preempted(st, c) ==
    IF st[c] = "running" THEN [st EXCEPT ![c] = "waiting"] ELSE st

(***************************************************************************)
(* schedule(), reached with interrupts disabled at the end of every        *)
(* interrupt, when the PCBs have the statuses st and need_sched is need.   *)
(* When no process is ready the scan never ends; interrupts are disabled,  *)
(* so nothing can end it.                                                  *)
(***************************************************************************)
Keep(st, need) ==
    /\ ~need
    /\ status' = st
    /\ needSched' = FALSE
    /\ UNCHANGED <<current, halt>>

Switch(st, need) ==
    /\ need
    /\ \E p \in Procs :
          /\ IsNextLive(Preempted(st, current), current, p)
          /\ status' = [Preempted(st, current) EXCEPT ![p] = "running"]
          /\ current' = p
    /\ needSched' = FALSE
    /\ UNCHANGED halt

Spin(st, need) ==
    /\ need
    /\ \A p \in Procs : Preempted(st, current)[p] # "waiting"
    /\ status' = Preempted(st, current)
    /\ needSched' = TRUE
    /\ halt' = "spin"
    /\ UNCHANGED current

Schedule(st, need) ==
    Keep(st, need) \/ Switch(st, need) \/ Spin(st, need)
=============================================================================
