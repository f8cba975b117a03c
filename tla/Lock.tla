------------------------------- MODULE Lock -------------------------------
(***************************************************************************)
(* lock() and unlock() of kernel/lock.c, instruction by instruction, with  *)
(* the interrupt and system call entries of kernel/irq/do_irq.S.           *)
(*                                                                         *)
(* There is one processor.  lock() is the interrupt flag with a counter    *)
(* that lets sections nest; enter_interrupt keeps unlock() from enabling   *)
(* interrupts inside an interrupt handler.  The module shows what every    *)
(* other module takes for granted: the code between lock() and unlock(),   *)
(* and a whole interrupt, are executed without anything in between.        *)
(*                                                                         *)
(* Which process schedule() picks is left open here (module Sched says).   *)
(***************************************************************************)
EXTENDS Integers, SequencesExt

CONSTANTS
    Threads,       \* the processes
    Irq,           \* the code that runs on an interrupt
    MaxNest,       \* bound on how deep sections nest
    MaxFrames      \* bound on system calls made inside system calls

ASSUME LockAssumption ==
    /\ Irq \notin Threads
    /\ MaxNest \in Nat \ {0}
    /\ MaxFrames \in Nat \ {0}

VARIABLES
    intFlag,       \* the interrupt flag IF of the processor
    counter,       \* global_lock_counter
    enter,         \* enter_interrupt
    cur,           \* current_pcb
    at,            \* at[c]: the next instruction of c
    depth,         \* depth[c]: the lock() calls c has not undone
    frames         \* frames[p]: the IFs that iret will restore, innermost last

vars == <<intFlag, counter, enter, cur, at, depth, frames>>

Contexts == Threads \cup {Irq}

(***************************************************************************)
(* "out"    not in lock() or unlock()         "udec"  -- counter           *)
(* "ltest"  if (global_lock_counter == 0)     "utest" if (counter == 0 &&  *)
(* "lcli"   disable_interrupt()                        enter == 0)         *)
(* "linc"   ++ global_lock_counter            "usti"  enable_interrupt()   *)
(* of a process:     "sched" after the cli of asm_do_int                   *)
(* of the interrupt: "none", "entry" and "exit" of asm_do_irq              *)
(***************************************************************************)
LockPC == {"out", "ltest", "lcli", "linc", "udec", "utest", "usti"}
PC == LockPC \cup {"sched", "none", "entry", "exit"}

\* Types of the processor's and the lock's state.
TypeOK ==
    /\ intFlag \in {0, 1}
    /\ counter \in Int
    /\ enter \in {0, 1}
    /\ cur \in Threads
    /\ at \in [Contexts -> PC]
    /\ depth \in [Contexts -> Int]
    /\ frames \in [Threads -> Seq({0, 1})]

\* Whose instructions the processor executes.
Running == IF at[Irq] = "none" THEN cur ELSE Irq

\* After the enable_interrupt() of os_init.  Create_kthread has built a
\* frame with IF set for every process that has not run yet.
Init ==
    /\ intFlag = 1
    /\ counter = 0
    /\ enter = 0
    /\ cur \in Threads
    /\ at = [c \in Contexts |-> IF c = Irq THEN "none" ELSE "out"]
    /\ depth = [c \in Contexts |-> 0]
    /\ frames = [p \in Threads |-> IF p = cur THEN <<>> ELSE <<1>>]
-----------------------------------------------------------------------------
Goto(c, x, y) == at[c] = x /\ at' = [at EXCEPT ![c] = y]

(***************************************************************************)
(* lock()                                                                  *)
(***************************************************************************)
CallLock(c) ==
    /\ depth[c] < MaxNest
    /\ Goto(c, "out", "ltest")
    /\ UNCHANGED <<intFlag, counter, enter, cur, depth, frames>>

LockTest(c) ==
    /\ Goto(c, "ltest", IF counter = 0 THEN "lcli" ELSE "linc")
    /\ UNCHANGED <<intFlag, counter, enter, cur, depth, frames>>

LockCli(c) ==
    /\ Goto(c, "lcli", "linc")
    /\ intFlag' = 0
    /\ UNCHANGED <<counter, enter, cur, depth, frames>>

LockInc(c) ==
    /\ Goto(c, "linc", "out")
    /\ counter' = counter + 1
    /\ depth' = [depth EXCEPT ![c] = @ + 1]
    /\ UNCHANGED <<intFlag, enter, cur, frames>>

(***************************************************************************)
(* unlock()                                                                *)
(***************************************************************************)
CallUnlock(c) ==
    /\ depth[c] > 0
    /\ Goto(c, "out", "udec")
    /\ UNCHANGED <<intFlag, counter, enter, cur, depth, frames>>

UnlockDec(c) ==
    /\ Goto(c, "udec", "utest")
    /\ counter' = counter - 1
    /\ depth' = [depth EXCEPT ![c] = @ - 1]
    /\ UNCHANGED <<intFlag, enter, cur, frames>>

\* Faults of UnlockTest: one of the two conditions is not tested.
UnlockTestEnter(c) ==
    /\ Goto(c, "utest", IF enter = 0 THEN "usti" ELSE "out")
    /\ UNCHANGED <<intFlag, counter, enter, cur, depth, frames>>

UnlockTestCounter(c) ==
    /\ Goto(c, "utest", IF counter = 0 THEN "usti" ELSE "out")
    /\ UNCHANGED <<intFlag, counter, enter, cur, depth, frames>>

UnlockTest(c) ==
    /\ Goto(c, "utest", IF counter = 0 /\ enter = 0 THEN "usti" ELSE "out")
    /\ UNCHANGED <<intFlag, counter, enter, cur, depth, frames>>

UnlockSti(c) ==
    /\ Goto(c, "usti", "out")
    /\ intFlag' = 1
    /\ UNCHANGED <<counter, enter, cur, depth, frames>>
-----------------------------------------------------------------------------
(***************************************************************************)
(* asm_do_int.  The gate leaves IF alone; the kernel executes int $0x80    *)
(* outside every section (Sem_P unlocks first), also inside a system call. *)
(***************************************************************************)
Int80(p) ==
    /\ at[p] = "out" /\ depth[p] = 0
    /\ Len(frames[p]) < MaxFrames
    /\ frames' = [frames EXCEPT ![p] = Append(@, intFlag)]
    /\ UNCHANGED <<intFlag, counter, enter, cur, at, depth>>

\* A fault of IntCli: no cli before schedule().
IntCliOpen(p) ==
    /\ depth[p] = 0 /\ frames[p] # <<>>
    /\ Goto(p, "out", "sched")
    /\ UNCHANGED <<intFlag, counter, enter, cur, depth, frames>>

\* int_handle has returned: cli ...
IntCli(p) ==
    /\ depth[p] = 0 /\ frames[p] # <<>>
    /\ Goto(p, "out", "sched")
    /\ intFlag' = 0
    /\ UNCHANGED <<counter, enter, cur, depth, frames>>

\* iret to the innermost frame of q
Iret(q) ==
    /\ frames[q] # <<>>
    /\ cur' = q
    /\ intFlag' = Last(frames[q])
    /\ frames' = [frames EXCEPT ![q] = Front(@)]

\* ... and schedule(), which may change stacks, and iret.
IntSched(p) ==
    /\ Goto(p, "sched", "out")
    /\ \E q \in Threads : Iret(q)
    /\ UNCHANGED <<counter, enter, depth>>

(***************************************************************************)
(* asm_do_irq.  The interrupt gate clears IF.                              *)
(***************************************************************************)
IrqEntry ==
    /\ intFlag = 1
    /\ Goto(Irq, "none", "entry")
    /\ frames' = [frames EXCEPT ![cur] = Append(@, intFlag)]
    /\ intFlag' = 0
    /\ UNCHANGED <<counter, enter, cur, depth>>

\* movl $1, enter_interrupt; the handlers then call send, and so lock().
IrqMark ==
    /\ Goto(Irq, "entry", "out")
    /\ enter' = 1
    /\ UNCHANGED <<intFlag, counter, cur, depth, frames>>

\* The handlers have returned: schedule() and the change of stacks ...
IrqSched ==
    /\ depth[Irq] = 0
    /\ Goto(Irq, "out", "exit")
    /\ \E q \in Threads : frames[q] # <<>> /\ cur' = q
    /\ UNCHANGED <<intFlag, counter, enter, depth, frames>>

\* A fault of IrqExit: enter_interrupt stays set.
IrqExitMarked ==
    /\ Goto(Irq, "exit", "none")
    /\ Iret(cur)
    /\ UNCHANGED <<counter, enter, depth>>

\* ... then movl $0, enter_interrupt and iret.
IrqExit ==
    /\ Goto(Irq, "exit", "none")
    /\ enter' = 0
    /\ Iret(cur)
    /\ UNCHANGED <<counter, depth>>

LockCode(c) ==
    \/ CallLock(c) \/ LockTest(c) \/ LockCli(c) \/ LockInc(c)
    \/ CallUnlock(c) \/ UnlockDec(c) \/ UnlockTest(c) \/ UnlockSti(c)

Next ==
    \/ LockCode(Running)
    \/ Running = cur /\ (Int80(cur) \/ IntCli(cur) \/ IntSched(cur))
    \/ IrqEntry \/ IrqMark \/ IrqSched \/ IrqExit

Spec == Init /\ [][Next]_vars
-----------------------------------------------------------------------------
(***************************************************************************)
(* An open section belongs to whoever is running, and nothing can take the *)
(* processor away from it: it was not interrupted, it was not switched     *)
(* away from, and it cannot be interrupted now.                            *)
(***************************************************************************)
SectionsExclusive ==
    \A c \in Contexts : depth[c] > 0 => c = Running /\ intFlag = 0

(***************************************************************************)
(* Closing the outermost section gives interrupts back: a process that is  *)
(* outside sections can be preempted, also after it was interrupted or     *)
(* after a system call or an interrupt switched to it.                     *)
(***************************************************************************)
InterruptsGivenBack ==
    \A p \in Threads : p = Running /\ at[p] = "out" /\ depth[p] = 0 => intFlag = 1

\* An interrupt is not interrupted, whatever its handlers lock and unlock.
InterruptsNotNested == at[Irq] # "none" => intFlag = 0

\* global_lock_counter is the nesting depth of the running code, and
\* enter_interrupt says whether that is a handler.
CounterIsDepth ==
    /\ counter = depth[Running]
    /\ at[Irq] \notin {"none", "entry"} <=> enter = 1

(***************************************************************************)
(* The inductive invariant of the theorems in LockProofs.  A process that  *)
(* does not run stopped where interrupts were enabled.                     *)
(***************************************************************************)
Suspended(p) ==
    /\ at[p] \in {"out", "ltest", "lcli"}
    /\ depth[p] = 0
    /\ frames[p] # <<>>

FramesEnable == \A p \in Threads : \A i \in 1 .. Len(frames[p]) : frames[p][i] = 1

\* Where the running process is, against IF and its open sections.
ThreadRuns(p) ==
    /\ at[p] \in {"out", "ltest"} => (intFlag = 1 <=> depth[p] = 0)
    /\ at[p] = "lcli" => depth[p] = 0
    /\ at[p] \in {"linc", "udec", "utest", "usti", "sched"} => intFlag = 0
    /\ at[p] = "udec" => depth[p] > 0
    /\ at[p] \in {"usti", "sched"} => depth[p] = 0
    /\ at[p] = "sched" => frames[p] # <<>>
    /\ at[p] \notin {"none", "entry", "exit"}

HandlerRuns ==
    /\ intFlag = 0
    /\ at[Irq] = "udec" => depth[Irq] > 0
    /\ at[Irq] \in {"lcli", "entry", "exit"} => depth[Irq] = 0
    /\ at[Irq] \notin {"usti", "sched"}

IInv ==
    /\ TypeOK
    /\ CounterIsDepth
    /\ FramesEnable
    /\ \A c \in Contexts : depth[c] >= 0
    /\ \A p \in Threads : p # Running => Suspended(p)
    /\ IF at[Irq] = "none" THEN depth[Irq] = 0 /\ ThreadRuns(cur) ELSE HandlerRuns
=============================================================================
