-------------------------------- MODULE Ipc --------------------------------
(***************************************************************************)
(* Message passing between the processes of the kernel: send and receive   *)
(* of kernel/message.c, over the semaphores of kernel/semaphore.c and the  *)
(* scheduler of kernel/process/schedule.c, on one processor that           *)
(* interrupts may take away wherever they are enabled.                     *)
(*                                                                         *)
(* An action is one stretch of code that no interrupt can enter: a section *)
(* under lock(), an interrupt handler with the schedule() that ends it     *)
(* (module Lock shows that these are never interleaved), or a step of the  *)
(* running process between two such sections.  What the processes do       *)
(* between two calls is left open: a client may at any time send to the    *)
(* processes SendTo names or receive with the filters RecvFrom names.      *)
(*                                                                         *)
(* The linked lists Msg_rec and Msg_ign are sequences of slot numbers of   *)
(* the process's Msg_rec_Pool.                                             *)
(***************************************************************************)
EXTENDS Sched, Semaphore

CONSTANTS
    PoolSize,     \* slots of a process's message pool (Max_Message_Pool)
    Clients,      \* the processes that call send and receive
    SendTo,       \* SendTo[p]: the processes p sends to
    RecvFrom,     \* RecvFrom[p]: the filters p receives with
    IrqTo,        \* the processes that interrupt handlers send to
    Body,         \* what a message says
    AnySrc,       \* ANY: the filter that accepts every source
    HardIntr      \* MSG_HARD_INTR: the source of a message from a handler

Filters == Procs \cup {AnySrc, HardIntr}

ASSUME PoolAssumption == PoolSize \in Nat \ {0}

ASSUME ClientAssumption ==
    /\ Clients \subseteq Procs
    /\ SendTo \in [Procs -> SUBSET Procs]
    /\ RecvFrom \in [Procs -> SUBSET Filters]
    /\ IrqTo \subseteq Procs

ASSUME SourceAssumption == AnySrc \notin Procs /\ HardIntr \notin Procs /\ AnySrc # HardIntr

VARIABLES
    free,      \* free[p][s]: the flag of slot s of p's pool
    msg,       \* msg[p][s]: the message in slot s of p's pool
    rec,       \* Msg_rec
    ign,       \* Msg_ign
    sem,       \* Msg_lock
    pc,        \* where a process is
    arg,       \* the pid argument of the call it is in
    held,      \* ptr of receive, once it is the message to return
    got        \* *m of the last receive

ipcVars == <<free, msg, rec, ign, sem, pc, arg, held, got>>
vars == <<schedVars, ipcVars>>

Slots == 1 .. PoolSize
Sources == Procs \cup {HardIntr}
Message == [src : Sources, body : Body]

\* No message, and no slot.
Nil == [src |-> AnySrc]
NoSlot == 0

(***************************************************************************)
(* "user"  outside send and receive    "int80" in Sem_P, asleep, before    *)
(* "sendV" in send, before Sem_V               int $0x80                   *)
(* "P"     in receive, before Sem_P    "cli"   back from int_handle        *)
(* "copy"  before *m = ptr -> msg      "deq"   back from Sem_P             *)
(* "free"  before ptr -> flag = TRUE                                       *)
(***************************************************************************)
PC == {"user", "sendV", "P", "int80", "cli", "deq", "copy", "free"}

\* Types; a process holds a message exactly while it is between taking it off
\* a list and giving its slot back.
TypeOK ==
    /\ SchedTypeOK
    /\ free \in [Procs -> [Slots -> BOOLEAN]]
    /\ msg \in [Procs -> [Slots -> Message \cup {Nil}]]
    /\ rec \in [Procs -> Seq(Slots)]
    /\ ign \in [Procs -> Seq(Slots)]
    /\ sem \in [Procs -> SemType(Procs)]
    /\ pc \in [Procs -> PC]
    /\ arg \in [Procs -> Filters]
    /\ \A p \in Procs : pc[p] = "sendV" => arg[p] \in Procs
    /\ held \in [Procs -> Slots \cup {NoSlot}]
    /\ \A p \in Procs : held[p] # NoSlot <=> pc[p] \in {"copy", "free"}
    /\ got \in [Procs -> Message \cup {Nil}]

\* init_proc, Create_kthread and init_message_pool.
Init ==
    /\ SchedInit
    /\ free = [p \in Procs |-> [s \in Slots |-> TRUE]]
    /\ msg = [p \in Procs |-> [s \in Slots |-> Nil]]
    /\ rec = [p \in Procs |-> <<>>]
    /\ ign = [p \in Procs |-> <<>>]
    /\ sem = [p \in Procs |-> SemInit]
    /\ pc = [p \in Procs |-> "user"]
    /\ arg = [p \in Procs |-> AnySrc]
    /\ held = [p \in Procs |-> NoSlot]
    /\ got = [p \in Procs |-> Nil]
-----------------------------------------------------------------------------
(***************************************************************************)
(* send                                                                    *)
(***************************************************************************)

\* Find_Empty_Message(target_pcb -> Msg_rec_Pool) = s
IsFirstEmpty(q, s) == free[q][s] /\ \A r \in Slots : free[q][r] => s <= r

PoolFull(q) == \A s \in Slots : ~free[q][s]

\* A fault of Enqueue: the slot is not marked as used.
EnqueueUnmarked(q, m) ==
    \E s \in Slots :
       /\ IsFirstEmpty(q, s)
       /\ msg' = [msg EXCEPT ![q][s] = m]
       /\ rec' = [rec EXCEPT ![q] = Append(@, s)]
       /\ UNCHANGED free

\* The first section of send: a slot for m is linked at the end of q's list.
Enqueue(q, m) ==
    \E s \in Slots :
       /\ IsFirstEmpty(q, s)
       /\ free' = [free EXCEPT ![q][s] = FALSE]
       /\ msg' = [msg EXCEPT ![q][s] = m]
       /\ rec' = [rec EXCEPT ![q] = Append(@, s)]

\* panic("No enough space for message passing!")
PoolPanic(q) ==
    /\ PoolFull(q)
    /\ halt' = "pool"
    /\ UNCHANGED <<status, current, needSched, ipcVars>>

Post(p, q, b) ==
    /\ Enqueue(q, [src |-> p, body |-> b])
    /\ pc' = [pc EXCEPT ![p] = "sendV"]
    /\ arg' = [arg EXCEPT ![p] = q]
    /\ UNCHANGED <<schedVars, ign, sem, held, got>>

SendEnqueue(p, q, b) ==
    /\ pc[p] = "user"
    /\ p \in Clients
    /\ q \in SendTo[p]
    /\ Post(p, q, b) \/ PoolPanic(q)

SendV(p) ==
    /\ pc[p] = "sendV"
    /\ sem' = [sem EXCEPT ![arg[p]] = V(@)]
    /\ status' = VWake(sem[arg[p]], status)
    /\ pc' = [pc EXCEPT ![p] = "user"]
    /\ UNCHANGED <<current, needSched, halt, free, msg, rec, ign, arg, held, got>>
-----------------------------------------------------------------------------
(***************************************************************************)
(* receive                                                                 *)
(***************************************************************************)

\* pid == ANY || pid == src
Matches(f, src) == f = AnySrc \/ f = src

\* The first message of Msg_ign that f accepts is the i-th.
IsFirstIgnored(p, f, i) ==
    /\ Matches(f, msg[p][ign[p][i]].src)
    /\ \A j \in 1 .. i - 1 : ~Matches(f, msg[p][ign[p][j]].src)

NoneIgnored(p, f) == \A i \in 1 .. Len(ign[p]) : ~Matches(f, msg[p][ign[p][i]].src)

\* A message ignored by an earlier receive is unlinked from Msg_ign ...
ReceiveIgnored(p, f) ==
    /\ pc[p] = "user"
    /\ p \in Clients
    /\ f \in RecvFrom[p]
    /\ \E i \in 1 .. Len(ign[p]) :
          /\ IsFirstIgnored(p, f, i)
          /\ held' = [held EXCEPT ![p] = ign[p][i]]
          /\ ign' = [ign EXCEPT ![p] = RemoveAt(@, i)]
    /\ arg' = [arg EXCEPT ![p] = f]
    /\ pc' = [pc EXCEPT ![p] = "copy"]
    /\ UNCHANGED <<schedVars, free, msg, rec, sem, got>>

\* ... or a new one is awaited.
ReceiveNew(p, f) ==
    /\ pc[p] = "user"
    /\ p \in Clients
    /\ f \in RecvFrom[p]
    /\ NoneIgnored(p, f)
    /\ arg' = [arg EXCEPT ![p] = f]
    /\ pc' = [pc EXCEPT ![p] = "P"]
    /\ UNCHANGED <<schedVars, free, msg, rec, ign, sem, held, got>>

SemTake(p) ==
    /\ HasToken(sem[p])
    /\ sem' = [sem EXCEPT ![p] = PTake(@)]
    /\ pc' = [pc EXCEPT ![p] = "deq"]
    /\ UNCHANGED status

SemSleep(p) ==
    /\ ~HasToken(sem[p])
    /\ sem' = [sem EXCEPT ![p] = PQueue(@, p)]
    /\ status' = PSleep(status, p)
    /\ pc' = [pc EXCEPT ![p] = "int80"]

SemP(p) ==
    /\ pc[p] = "P"
    /\ SemTake(p) \/ SemSleep(p)
    /\ UNCHANGED <<current, needSched, halt, free, msg, rec, ign, arg, held, got>>

\* A fault of RequestSched: need_sched is not set.
RequestNothing(p) ==
    /\ pc[p] = "int80"
    /\ pc' = [pc EXCEPT ![p] = "cli"]
    /\ UNCHANGED <<schedVars, free, msg, rec, ign, sem, arg, held, got>>

\* int $0x80 with INT80_SCHEDULE: int_handle, interrupts still enabled ...
RequestSched(p) ==
    /\ pc[p] = "int80"
    /\ needSched' = TRUE
    /\ pc' = [pc EXCEPT ![p] = "cli"]
    /\ UNCHANGED <<status, current, halt, free, msg, rec, ign, sem, arg, held, got>>

\* ... then cli and schedule(); the process returns when it is next current.
Yield(p) ==
    /\ pc[p] = "cli"
    /\ Schedule(status, needSched)
    /\ pc' = [pc EXCEPT ![p] = "deq"]
    /\ UNCHANGED <<free, msg, rec, ign, sem, arg, held, got>>

\* A fault of PutAside: the message becomes the first of Msg_ign.
PutAsideFirst(p) ==
    /\ ~Matches(arg[p], msg[p][Head(rec[p])].src)
    /\ ign' = [ign EXCEPT ![p] = <<Head(rec[p])>> \o @]
    /\ pc' = [pc EXCEPT ![p] = "P"]
    /\ UNCHANGED <<halt, held>>

\* The head of Msg_rec is the message to return ...
Accept(p) ==
    /\ Matches(arg[p], msg[p][Head(rec[p])].src)
    /\ held' = [held EXCEPT ![p] = Head(rec[p])]
    /\ pc' = [pc EXCEPT ![p] = "copy"]
    /\ UNCHANGED <<halt, ign>>

\* ... or is put aside in Msg_ign.
PutAside(p) ==
    /\ ~Matches(arg[p], msg[p][Head(rec[p])].src)
    /\ ign' = [ign EXCEPT ![p] = Append(@, Head(rec[p]))]
    /\ pc' = [pc EXCEPT ![p] = "P"]
    /\ UNCHANGED <<halt, held>>

\* panic("Message receive is empty, semephore is wrong!")
EmptyPanic == halt' = "empty" /\ UNCHANGED <<rec, ign, held, pc>>

\* The section after Sem_P.
Dequeue(p) ==
    /\ pc[p] = "deq"
    /\ IF rec[p] = <<>>
       THEN EmptyPanic
       ELSE /\ rec' = [rec EXCEPT ![p] = Tail(@)]
            /\ Accept(p) \/ PutAside(p)
    /\ UNCHANGED <<status, current, needSched, free, msg, sem, arg, got>>

Copy(p) ==
    /\ pc[p] = "copy"
    /\ got' = [got EXCEPT ![p] = msg[p][held[p]]]
    /\ pc' = [pc EXCEPT ![p] = "free"]
    /\ UNCHANGED <<schedVars, free, msg, rec, ign, sem, arg, held>>

\* What the slot holds is dead: the model forgets it, the code leaves it.
Free(p) ==
    /\ pc[p] = "free"
    /\ free' = [free EXCEPT ![p][held[p]] = TRUE]
    /\ msg' = [msg EXCEPT ![p][held[p]] = Nil]
    /\ held' = [held EXCEPT ![p] = NoSlot]
    /\ pc' = [pc EXCEPT ![p] = "user"]
    /\ UNCHANGED <<schedVars, rec, ign, sem, arg, got>>
-----------------------------------------------------------------------------
(***************************************************************************)
(* Interrupts: asm_do_irq runs the handlers and schedule() with interrupts *)
(* disabled.  Every NR_PROC_TIME-th timer tick of a process sets           *)
(* need_sched (quantum).                                                   *)
(***************************************************************************)
Tick(quantum) ==
    /\ Schedule(status, needSched \/ quantum)
    /\ UNCHANGED ipcVars

\* A handler sends message b to q; enter_interrupt makes HardIntr its source.
IrqPost(q, b, quantum) ==
    /\ Enqueue(q, [src |-> HardIntr, body |-> b])
    /\ sem' = [sem EXCEPT ![q] = V(@)]
    /\ Schedule(VWake(sem[q], status), needSched \/ quantum)
    /\ UNCHANGED <<ign, pc, arg, held, got>>

DeviceIrq(q, b, quantum) == IrqPost(q, b, quantum) \/ PoolPanic(q)

(***************************************************************************)
(* A step of the process that has the processor inside send or receive,    *)
(* and the calls a process outside them may make.                          *)
(***************************************************************************)
Continue(p) ==
    SendV(p) \/ SemP(p) \/ RequestSched(p) \/ Yield(p) \/ Dequeue(p) \/ Copy(p) \/ Free(p)

Call(p) ==
    \/ \E q \in Procs, b \in Body : SendEnqueue(p, q, b)
    \/ \E f \in Filters : ReceiveIgnored(p, f) \/ ReceiveNew(p, f)

Interrupt ==
    \/ \E quantum \in BOOLEAN : Tick(quantum)
    \/ \E q \in IrqTo, b \in Body, quantum \in BOOLEAN : DeviceIrq(q, b, quantum)

\* After a panic, or in a scan that finds nothing, the processor does nothing.
Halted == halt # "none" /\ UNCHANGED vars

Next ==
    \/ halt = "none" /\ (Continue(current) \/ Call(current) \/ Interrupt)
    \/ Halted

(***************************************************************************)
(* The timer interrupts for ever and a process that runs for five ticks    *)
(* exhausts its quantum.  The processor is fast: a process that is given   *)
(* the processor again and again executes its next section.  A process     *)
(* outside send and receive need not call them.                            *)
(***************************************************************************)
Fairness ==
    /\ WF_vars(halt = "none" /\ Tick(TRUE))
    /\ \A p \in Procs : SF_vars(halt = "none" /\ p = current /\ Continue(p))

Spec == Init /\ [][Next]_vars

FairSpec == Spec /\ Fairness
-----------------------------------------------------------------------------
(***************************************************************************)
(* Safety                                                                  *)
(***************************************************************************)

\* The senders to q that have linked their message and not yet done Sem_V.
Pending(q) == {p \in Procs : pc[p] = "sendV" /\ arg[p] = q}

\* A Sem_P of q has succeeded and the message it stands for is not yet taken.
Granted(q) == pc[q] \in {"int80", "cli", "deq"} /\ status[q] # "sleeping"

GrantCount(q) == IF Granted(q) THEN 1 ELSE 0

\* The processor is always the running process's: no other PCB says RUNNING.
RunningIsCurrent == \A p \in Procs : status[p] = "running" => p = current

(***************************************************************************)
(* Sleeping and queued are the same thing: only a process that is inside   *)
(* Sem_P on its own semaphore sleeps, it is in that queue once, and no one *)
(* else is (the LIFO order of Sem_V is never observed).  It does not sleep *)
(* on a semaphore that has a token.                                        *)
(***************************************************************************)
SleepersQueued ==
    \A q \in Procs :
       /\ sem[q].queue = IF status[q] = "sleeping" THEN <<q>> ELSE <<>>
       /\ status[q] = "sleeping" => /\ pc[q] \in {"int80", "cli", "deq"}
                                    /\ sem[q].token = 0

(***************************************************************************)
(* send links a message and counts it in two separate sections; receive    *)
(* takes the count and the message in two separate sections.  Whatever     *)
(* comes in between, tokens, granted tokens and senders on their way to    *)
(* Sem_V add up to the messages linked.                                    *)
(***************************************************************************)
Accounting ==
    \A q \in Procs :
       sem[q].token + GrantCount(q) + Cardinality(Pending(q)) = Len(rec[q])

\* panic("Message receive is empty, semephore is wrong!") is unreachable.
NoEmptyReceive == halt # "empty"

(***************************************************************************)
(* No wakeup is lost: while a process sleeps in Sem_P with messages linked,*)
(* some sender is still on its way to the Sem_V that wakes it.             *)
(***************************************************************************)
NoLostWakeup ==
    \A q \in Procs : status[q] = "sleeping" /\ rec[q] # <<>> => Pending(q) # {}

(***************************************************************************)
(* A slot that is not free is in exactly one place: linked once in Msg_rec *)
(* or once in Msg_ign, or the one receive is about to give back.           *)
(***************************************************************************)
InUse(p) == {s \in Slots : ~free[p][s]}

Linked(p) == rec[p] \o ign[p] \o (IF held[p] = NoSlot THEN <<>> ELSE <<held[p]>>)

SlotOwnership ==
    \A p \in Procs :
       /\ IsInjective(Linked(p))
       /\ ToSet(Linked(p)) = InUse(p)

\* While the idle process sends and receives nothing there is always
\* somebody to run, and find_next_live_process returns.
NeverSpins == Idle \notin Clients => halt # "spin"

(***************************************************************************)
(* The inductive invariant of the theorems in DiskProofs.  A process that  *)
(* is asleep and still has the processor is on its way to schedule(), and  *)
(* that call will not return to it: need_sched is set before cli.          *)
(***************************************************************************)
SleeperLeaves ==
    halt = "none" /\ status[current] = "sleeping" =>
       \/ pc[current] = "int80"
       \/ pc[current] = "cli" /\ needSched

BystandersOutside == \A p \in Procs \ Clients : pc[p] = "user"

Shape ==
    /\ RunningIsCurrent
    /\ SleepersQueued
    /\ SleeperLeaves
    /\ BystandersOutside
    /\ NeverSpins

IInv == TypeOK /\ Shape /\ Accounting /\ NoEmptyReceive

(***************************************************************************)
(* Liveness                                                                *)
(***************************************************************************)
\* Round robin: a process that is ready gets the processor.
ReadyRuns ==
    \A p \in Procs : status[p] = "waiting" ~> (status[p] = "running" \/ halt # "none")

Receiving(p) == pc[p] \in {"P", "int80", "cli", "deq"}

\* A receive whose message has been sent returns, whoever was preempted where.
Delivery ==
    \A p \in Procs :
       (/\ Receiving(p)
        /\ \E i \in 1 .. Len(rec[p]) : Matches(arg[p], msg[p][rec[p][i]].src))
       ~> (pc[p] = "copy" \/ halt # "none")
-----------------------------------------------------------------------------
(***************************************************************************)
(* Refinement.  The mailbox of p is Msg_ign followed by Msg_rec: what was  *)
(* put aside is older than what is still in Msg_rec, and a receive that    *)
(* looks at Msg_rec has found nothing for itself in Msg_ign.  A message is *)
(* received when it is unlinked; until *m is filled it is in the slot ptr  *)
(* points to.                                                              *)
(***************************************************************************)
Contents(p) == [i \in 1 .. Len(ign[p] \o rec[p]) |-> msg[p][(ign[p] \o rec[p])[i]]]

Mail == INSTANCE Mailbox WITH
    Owners <- Procs,
    Letters <- Message,
    Anyone <- AnySrc,
    Nothing <- Nil,
    box <- [p \in Procs |-> Contents(p)],
    last <- [p \in Procs |-> IF pc[p] = "copy" THEN msg[p][held[p]] ELSE got[p]]

\* send and receive implement the mailboxes: messages are received once, in
\* the order they were sent as far as the filter tells them apart.
MailboxSpec == Mail!BoxSpec
=============================================================================
