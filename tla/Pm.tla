--------------------------------- MODULE Pm ---------------------------------
(***************************************************************************)
(* fork, exit, waitpid and execv: the library calls of lib/oslib.c, the    *)
(* system call handler of kernel/irq/irq_handle.c, which keeps the message *)
(* of every call in one static m, and the process manager of kernel/pm.c,  *)
(* over mailboxes as message.c implements them (module Boxes).           *)
(*                                                                         *)
(* PM waits for MM and FM, which answer it (Ipc, DiskRead); other          *)
(* processes run meanwhile.  What they do is modelled in Pages and Ide.    *)
(***************************************************************************)
EXTENDS Integers, SequencesExt, FiniteSets

CONSTANTS
    NProcs,         \* entries of the process table for user processes
    Codes,          \* the codes exit is called with
    ArgLists,       \* the arguments execv is called with
    BufferSize,     \* Buffer_Size of execv, and argv_size of PM
    Junk,           \* what memory that MM gives may have in it
    Preemptible     \* whether the time slice of a process may end while m
                    \* has something of its call, before send or after receive

Pids == 1 .. NProcs

\* PM and the filter ANY are no user process.
PM == 0
ANY == -1

Bytes == 0 .. 255

\* What execv writes: every string with its 0, and one 0 more.
Written(args) == Append(FlattenSeq([k \in 1 .. Len(args) |-> Append(args[k], 0)]), 0)

\* Strings have no 0 in them.  An empty string or list looks like the end
\* of the list to PM; the programs of user/ pass none.
ASSUME ArgsAssumption ==
    /\ NProcs \in Nat \ {0} /\ BufferSize \in Nat
    /\ Preemptible \in BOOLEAN /\ Codes \subseteq Nat /\ Junk \subseteq Bytes
    /\ ArgLists \subseteq Seq(Seq(Bytes \ {0}) \ {<<>>}) \ {<<>>}
    /\ \A args \in ArgLists : Len(Written(args)) <= BufferSize

VARIABLES
    box,            \* the mailboxes
    m,              \* m of int_handle
    at,             \* where a process is
    call,           \* call[p]: the registers of p's system call
    eax,            \* eax[p]: what the last one returned
    buf,            \* buf[p]: argv_buf of execv, in the memory of p
    argv,           \* argv[p]: what main of p was given
    pm,             \* ProcessManagement: where it is, its m, and new, the
                    \* child of a fork, i, the index of Wake_Up, or argv, the
                    \* arguments of an exec
    queue,          \* WaitQueue
    halt            \* "none", or the panic

vars == <<box, m, at, call, eax, buf, argv, pm, queue, halt>>

Nobody == [src |-> ANY, type |-> "none", pid |-> 0, p1 |-> 0]

INSTANCE Boxes WITH Anyone <- ANY

NoCall == [type |-> "none"]

Calls ==
    [type : {"fork"}] \cup [type : {"exit"}, p1 : Codes]
      \cup [type : {"waitpid"}, p1 : Pids] \cup [type : {"exec"}, args : ArgLists]

(***************************************************************************)
(* "free"    no process            "user"  in its program                  *)
(* "filled"  m has its call        "waits" in receive(PM, &m)              *)
(* "got"     m has the answer                                              *)
(***************************************************************************)
At == {"free", "user", "filled", "waits", "got"}

PmAt == {"top", "serve", "fork", "exit", "wake", "exec"}

\* Types; the child of a fork is an entry of the table.
PmTypeOK ==
    /\ at \in [Pids -> At]
    /\ call \in [Pids -> Calls \cup {NoCall}]
    /\ eax \in [Pids -> Nat]
    /\ pm.at \in PmAt /\ (pm.at = "fork" => pm.new \in Pids)
    /\ \A k \in 1 .. Len(queue) : queue[k] \in [pid : Pids, wait_for : Pids]
    /\ halt \in {"none", "full", "impossible"}

Memory(b) == [k \in 1 .. BufferSize |-> b]

Idle == [at |-> "top", m |-> Nobody, new |-> 0, i |-> 0, argv |-> <<>>]

\* The first program, that os_init creates.
PmInit ==
    /\ box = [p \in Pids \cup {PM} |-> <<>>]
    /\ m = Nobody
    /\ at = [p \in Pids |-> IF p = 1 THEN "user" ELSE "free"]
    /\ call = [p \in Pids |-> NoCall]
    /\ eax = [p \in Pids |-> 0]
    /\ buf \in [Pids -> {Memory(b) : b \in Junk}]
    /\ argv = [p \in Pids |-> <<>>]
    /\ pm = Idle
    /\ queue = <<>>
    /\ halt = "none"
-----------------------------------------------------------------------------
\* execv of oslib.c: what the buffer had behind the strings stays.
Packed(args, old) ==
    [k \in 1 .. BufferSize |-> IF k <= Len(Written(args)) THEN Written(args)[k] ELSE old[k]]

(***************************************************************************)
(* Exec_uthread: the bytes are copied up to two zeros; argv_ptr[k] is      *)
(* where the k-th string begins, behind the 0 of the one before.           *)
(***************************************************************************)
StringsEnd(b) ==
    CHOOSE r \in 2 .. Len(b) :
       /\ b[r] = 0 /\ b[r - 1] = 0
       /\ \A q \in 2 .. r - 1 : b[q] # 0 \/ b[q - 1] # 0

StringAt(b, left) ==
    SubSeq(b, left, (CHOOSE r \in left .. Len(b) : b[r] = 0 /\ \A q \in left .. r - 1 : b[q] # 0) - 1)

Zeros(b) == {r \in 2 .. StringsEnd(b) - 1 : b[r] = 0}

\* The k-th smallest element of a set of numbers.
Kth(S, k) == CHOOSE r \in S : Cardinality({q \in S : q <= r}) = k

Unpacked(b) ==
    [k \in 1 .. Cardinality(Zeros(b)) |->
       StringAt(b, IF k = 1 THEN 1 ELSE Kth(Zeros(b), k - 1) + 1)]
-----------------------------------------------------------------------------
(***************************************************************************)
(* A process, in the system call handler.                                  *)
(***************************************************************************)
\* No other process is between filling m and send, or receive and its end,
\* and PM is not in the locked section of Wake_Up.
MayRun(p) ==
    /\ pm.at # "wake"
    /\ Preemptible \/ \A q \in Pids \ {p} : at[q] \notin {"filled", "got"}

\* The fields of m that a call sets are all that PM reads of it.
Filled(p, c) ==
    [src |-> ANY, type |-> c.type, pid |-> p,
     p1 |-> IF c.type \in {"exit", "waitpid"} THEN c.p1 ELSE 0]

\* What m holds is forgotten when nobody will read it.
LeaveM(p) == m' = IF \E q \in Pids \ {p} : at[q] \in {"filled", "got"} THEN m ELSE Nobody

\* int_handle fills m from p's registers. eax holds the number of the call on
\* entry, so the result of the call before is gone: 0 stands for no result.
Fill(p, c) ==
    /\ at[p] = "user" /\ MayRun(p)
    /\ call' = [call EXCEPT ![p] = c]
    /\ buf' = [buf EXCEPT ![p] = IF c.type = "exec" THEN Packed(c.args, @) ELSE @]
    /\ m' = Filled(p, c)
    /\ eax' = [eax EXCEPT ![p] = 0]
    /\ at' = [at EXCEPT ![p] = "filled"]
    /\ UNCHANGED <<box, argv, pm, queue, halt>>

\* A fault of Sent: the source is left as it was.
SentAsIs(p) == m

Sent(p) == [m EXCEPT !.src = p]

\* send(PM, &m) copies m and sets its source.
Send(p) ==
    /\ at[p] = "filled" /\ MayRun(p)
    /\ Deliver(PM, Sent(p))
    /\ LeaveM(p)
    /\ at' = [at EXCEPT ![p] = "waits"]
    /\ UNCHANGED <<call, eax, buf, argv, pm, queue, halt>>

\* receive(PM, &m) copies the answer into m.
Receive(p) ==
    /\ at[p] = "waits" /\ MayRun(p)
    /\ \E k \in Oldest(p, PM) : Collect(p, k) /\ m' = box[p][k]
    /\ at' = [at EXCEPT ![p] = "got"]
    /\ UNCHANGED <<call, eax, buf, argv, pm, queue, halt>>

\* tf -> eax = m.pm_msg.p1, or the panic behind EXIT and EXEC.
Return(p) ==
    /\ at[p] = "got" /\ MayRun(p)
    /\ IF call[p].type \in {"exit", "exec"}
       THEN halt' = "impossible" /\ UNCHANGED <<at, call, eax>>
       ELSE /\ eax' = [eax EXCEPT ![p] = m.p1]
            /\ call' = [call EXCEPT ![p] = NoCall]
            /\ at' = [at EXCEPT ![p] = "user"]
            /\ UNCHANGED halt
    /\ LeaveM(p)
    /\ UNCHANGED <<box, buf, argv, pm, queue>>
-----------------------------------------------------------------------------
(***************************************************************************)
(* ProcessManagement.                                                      *)
(***************************************************************************)
Answer(value) == [src |-> PM, type |-> "answer", pid |-> pm.m.pid, p1 |-> value]

PmReceive ==
    /\ pm.at = "top"
    /\ \E k \in Oldest(PM, ANY) :
          /\ Collect(PM, k)
          /\ pm' = [pm EXCEPT !.at = "serve", !.m = box[PM][k]]
    /\ UNCHANGED <<m, at, call, eax, buf, argv, queue, halt>>

Serves(type) == pm.at = "serve" /\ pm.m.type = type

PmDone == pm' = Idle

\* init_message_pool
EmptyPool(p) == box' = [box EXCEPT ![p] = <<>>]

\* Fork_uthread: the first free entry is taken, and MM asked for a copy.

Free == {p \in Pids : at[p] = "free"}

ForkBegins ==
    /\ Serves("fork")
    /\ IF Free = {}
       THEN halt' = "full" /\ UNCHANGED <<box, pm>>
       ELSE /\ pm' = [pm EXCEPT !.at = "fork", !.new = CHOOSE q \in Free : \A x \in Free : q <= x]
            /\ EmptyPool(pm'.new)
            /\ UNCHANGED halt
    /\ UNCHANGED <<m, at, call, eax, buf, argv, queue>>

\* A fault of ForkReply: the answer goes to the child.
ForkReplyChild(q) == Deliver(q, Answer(q))

ForkReply(q) == Deliver(pm.m.src, Answer(q))

\* MM has copied the memory; the child is linked to return with 0.
ForkEnds ==
    /\ pm.at = "fork"
    /\ LET p == pm.m.pid
           q == pm.new
       IN  /\ at' = [at EXCEPT ![q] = "user"]
           /\ eax' = [eax EXCEPT ![q] = 0]
           /\ buf' = [buf EXCEPT ![q] = buf[p]]
           /\ argv' = [argv EXCEPT ![q] = argv[p]]
           /\ ForkReply(q)
    /\ PmDone
    /\ UNCHANGED <<m, call, queue, halt>>

\* Exit_uthread: the entry is free at once, MM is asked to free the memory ...
ExitBegins ==
    /\ Serves("exit")
    /\ at' = [at EXCEPT ![pm.m.pid] = "free"]
    /\ call' = [call EXCEPT ![pm.m.pid] = NoCall]
    /\ pm' = [pm EXCEPT !.at = "exit"]
    /\ UNCHANGED <<box, m, eax, buf, argv, queue, halt>>

\* ... with the arguments, and Wake_Up begins.
ExitEnds ==
    /\ pm.at = "exit"
    /\ argv' = [argv EXCEPT ![pm.m.pid] = <<>>]
    /\ pm' = [pm EXCEPT !.at = "wake", !.i = 1]
    /\ UNCHANGED <<box, m, at, call, eax, buf, queue, halt>>

(***************************************************************************)
(* The loop of Wake_Up, round by round, all in one locked section (MayRun):*)
(* those who wait for the process are answered, and the last entry takes   *)
(* the place of one that was.                                              *)
(***************************************************************************)
\* A fault of NextAfter: the entry that took the place is not looked at.
NextAfterSkips(k) == k + 1

NextAfter(k) == k

WaitsForIt(k) == queue[k].wait_for = pm.m.pid

WakeOne ==
    /\ pm.at = "wake" /\ pm.i <= Len(queue) /\ WaitsForIt(pm.i)
    /\ Deliver(queue[pm.i].pid, Answer(pm.m.p1))
    /\ queue' = Front([queue EXCEPT ![pm.i] = queue[Len(queue)]])
    /\ pm' = [pm EXCEPT !.i = NextAfter(@)]
    /\ UNCHANGED <<m, at, call, eax, buf, argv, halt>>

PassOver ==
    /\ pm.at = "wake" /\ pm.i <= Len(queue) /\ ~WaitsForIt(pm.i)
    /\ pm' = [pm EXCEPT !.i = @ + 1]
    /\ UNCHANGED <<box, m, at, call, eax, buf, argv, queue, halt>>

WakeEnds ==
    /\ pm.at = "wake" /\ pm.i > Len(queue)
    /\ PmDone
    /\ UNCHANGED <<box, m, at, call, eax, buf, argv, queue, halt>>

WakeUp == WakeOne \/ PassOver \/ WakeEnds

\* A fault of Waiter: the fields are swapped.
WaiterSwapped == [pid |-> pm.m.p1, wait_for |-> pm.m.pid]

Waiter == [pid |-> pm.m.pid, wait_for |-> pm.m.p1]

Sleep ==
    /\ Serves("waitpid")
    /\ queue' = Append(queue, Waiter)
    /\ PmDone
    /\ UNCHANGED <<box, m, at, call, eax, buf, argv, halt>>

\* Exec_uthread: the pool is emptied, the arguments are copied, and MM and
\* FM asked for the memory and the program ...
ExecBegins ==
    /\ Serves("exec")
    /\ EmptyPool(pm.m.pid)
    /\ pm' = [pm EXCEPT !.at = "exec", !.argv = Unpacked(buf[pm.m.pid])]
    /\ UNCHANGED <<m, at, call, eax, buf, argv, queue, halt>>

\* ... which begins at its entry, with the arguments on its stack.
ExecEnds ==
    /\ pm.at = "exec"
    /\ LET p == pm.m.pid
       IN  /\ at' = [at EXCEPT ![p] = "user"]
           /\ call' = [call EXCEPT ![p] = NoCall]
           /\ argv' = [argv EXCEPT ![p] = pm.argv]
           /\ \E b \in Junk : buf' = [buf EXCEPT ![p] = Memory(b)]
    /\ PmDone
    /\ UNCHANGED <<box, m, eax, queue, halt>>

ProcessManagement ==
    \/ PmReceive \/ ForkBegins \/ ForkEnds \/ ExitBegins \/ ExitEnds \/ WakeUp
    \/ Sleep \/ ExecBegins \/ ExecEnds

User(p) == Send(p) \/ Receive(p) \/ Return(p)

PmNext ==
    /\ halt = "none"
    /\ ProcessManagement \/ \E p \in Pids : User(p) \/ \E c \in Calls : Fill(p, c)

\* Every process that can go on in a call does, and PM; MM and FM answer.
PmFairness ==
    /\ WF_vars(halt = "none" /\ ProcessManagement)
    /\ \A p \in Pids : SF_vars(halt = "none" /\ User(p))

PmSpec == PmInit /\ [][PmNext]_vars /\ PmFairness
-----------------------------------------------------------------------------

(***************************************************************************)
(* Who is in WaitQueue is asleep in the receive of its waitpid, is there   *)
(* once and has no answer yet: so the queue fits into its MAX_PROC entries *)
(* and nobody is answered twice, or after it was replaced.                 *)
(***************************************************************************)
WaitersBlocked ==
    \A k \in 1 .. Len(queue) :
       LET p == queue[k].pid
       IN  /\ at[p] = "waits" /\ box[p] = <<>>
           /\ call[p] = [type |-> "waitpid", p1 |-> queue[k].wait_for]
           /\ \A j \in 1 .. Len(queue) : queue[j].pid = p => j = k

(***************************************************************************)
(* An answer finds the process that made the call, still waiting for it:   *)
(* none is left for a later process with the same pid.                     *)
(***************************************************************************)
AnswersAwaited ==
    \A p \in Pids : box[p] # <<>> =>
       Len(box[p]) = 1 /\ at[p] = "waits" /\ call[p].type \in {"fork", "waitpid"}

(***************************************************************************)
(* Why the two hold while int_handle is not preempted, as an inductive     *)
(* invariant: a call is in one place only, on its way to PM, served, in    *)
(* the queue or answered, and its process is asleep for as long.           *)
(***************************************************************************)
\* A message has p's call, which has no answer and is not in the queue.
Asks(r) ==
    /\ r.pid \in Pids /\ at[r.pid] = "waits" /\ call[r.pid] \in Calls
    /\ r = [Filled(r.pid, call[r.pid]) EXCEPT !.src = r.pid]
    /\ box[r.pid] = <<>> /\ \A k \in 1 .. Len(queue) : queue[k].pid # r.pid

Fields ==
    [src : Int, type : {"none", "answer", "fork", "exit", "waitpid", "exec"}, pid : Int, p1 : Nat]

\* m belongs to one process, and has its call or its answer.
OwnMessage ==
    /\ \A p, q \in Pids : {at[p], at[q]} \subseteq {"filled", "got"} => p = q
    /\ \A p \in Pids :
          /\ at[p] \in {"filled", "waits", "got"} => call[p] \in Calls
          /\ at[p] = "filled" => m = Filled(p, call[p])
          /\ at[p] = "got" => m \in Fields /\ call[p].type \in {"fork", "waitpid"}

Requests ==
    \A k \in 1 .. Len(box[PM]) :
       /\ Asks(box[PM][k])
       /\ \A j \in 1 .. Len(box[PM]) : box[PM][j].pid = box[PM][k].pid => j = k

Served ==
    /\ pm.at \in {"serve", "fork", "exec"} =>
          Asks(pm.m) /\ \A k \in 1 .. Len(box[PM]) : box[PM][k].pid # pm.m.pid
    /\ pm.at = "fork" => pm.m.type = "fork" /\ pm.new \in Free
    /\ pm.at = "exec" => pm.m.type = "exec"
    /\ pm.at \in {"exit", "wake"} => pm.m.pid \in Free
    /\ pm.at = "wake" => pm.i \in Nat \ {0}

PmRecord ==
    /\ pm = [at |-> pm.at, m |-> pm.m, new |-> pm.new, i |-> pm.i, argv |-> pm.argv]
    /\ pm.at = "top" \/ pm.m \in Fields

\* The buffer of a process that executes begins with its arguments, and PM
\* has read them there.
ArgumentsKept ==
    /\ buf \in [Pids -> [1 .. BufferSize -> Bytes]]
    /\ \A p \in Pids : call[p].type = "exec" => buf[p] = Packed(call[p].args, buf[p])
    /\ pm.at = "exec" => pm.argv = call[pm.m.pid].args

\* Whom Wake_Up has passed over does not wait for the process that exits.
PassedOver ==
    pm.at = "wake" => \A k \in 1 .. Len(queue) : k < pm.i => ~WaitsForIt(k)

CallsInv ==
    /\ PmTypeOK /\ PmRecord /\ halt # "impossible"
    /\ queue \in Seq([pid : Pids, wait_for : Pids])
    /\ box \in [Pids \cup {PM} -> Seq(Fields)]
    /\ WaitersBlocked /\ AnswersAwaited /\ OwnMessage /\ Requests /\ Served
    /\ \A p \in Pids : box[p] # <<>> => box[p][1].src = PM

\* Who runs, and an entry that is free, has no call left.
CallsEnd == \A p \in Pids : at[p] \in {"free", "user"} => call[p] = NoCall

PmInv == CallsInv /\ CallsEnd /\ ArgumentsKept /\ PassedOver

(***************************************************************************)
(* PM implements Processes.  The pid of a process that exits is free a     *)
(* while before the exit has its effect.                                   *)
(***************************************************************************)
Exiting(p) == pm.at = "exit" /\ pm.m.pid = p
Queued(p) == \E k \in 1 .. Len(queue) : queue[k].pid = p
Woken(p) == pm.at = "wake" /\ \E k \in 1 .. Len(queue) : queue[k].pid = p /\ WaitsForIt(k)

Phase(p) ==
    IF Exiting(p) THEN "asked"
    ELSE IF at[p] = "free" THEN "none"
    ELSE IF at[p] = "user" THEN "run"
    ELSE IF at[p] = "got" \/ box[p] # <<>> \/ Woken(p) THEN "done"
    ELSE IF Queued(p) THEN "waits" ELSE "asked"

Result(p) ==
    IF at[p] = "got" THEN m.p1
    ELSE IF box[p] # <<>> THEN box[p][1].p1
    ELSE IF Woken(p) THEN pm.m.p1 ELSE eax[p]

CallOf(p) == IF Exiting(p) THEN [type |-> "exit", p1 |-> pm.m.p1] ELSE call[p]

Abstract == INSTANCE Processes WITH
    NoArgs <- <<>>,
    phase <- [p \in Pids |-> Phase(p)],
    call <- [p \in Pids |-> CallOf(p)],
    result <- [p \in Pids |-> Result(p)],
    stopped <- halt # "none"

ImplementsProcesses == Abstract!ProcSpec

\* Its safety part.
ProcSafety == Abstract!ProcInit /\ [][Abstract!ProcNext]_(Abstract!procVars)

(***************************************************************************)
(* panic("Impossible return to INT80_EXIT!!!"), and to INT80_EXEC: nobody  *)
(* answers a process that has exited or was replaced.                      *)
(***************************************************************************)
NoImpossibleReturn == halt # "impossible"
=============================================================================
