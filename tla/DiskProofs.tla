----------------------------- MODULE DiskProofs -----------------------------
(***************************************************************************)
(* Proofs about message passing and about a command to the disk on top of  *)
(* it.  The first part is about Ipc, for every number of processes, pool   *)
(* size, set of clients and set of messages: its invariant, the slots of a *)
(* message pool that are never lost nor shared, and mailboxes that send    *)
(* and receive implement.  The second part, about DiskRead, rests on it:   *)
(* for any number of processes and of readers, any pool that has room, and *)
(* any number of commands and write backs.                                 *)
(***************************************************************************)
EXTENDS DiskRead, ListProofs


(***************************************************************************)
(* The scheduler.  schedule() keeps the types, puts nobody to sleep, wakes *)
(* nobody, leaves RUNNING to current_pcb alone, and does not return to a   *)
(* sleeping process unless need_sched was FALSE.                           *)
(***************************************************************************)
LEMMA PreemptedFacts ==
    ASSUME NEW st \in [Procs -> Status], current \in Procs
    PROVE  /\ Preempted(st, current) \in [Procs -> Status]
           /\ \A p \in Procs : st[p] = "sleeping" <=> Preempted(st, current)[p] = "sleeping"
           /\ (\A p \in Procs : st[p] = "running" => p = current)
                 => \A p \in Procs : Preempted(st, current)[p] # "running"
           /\ \A p \in Procs : st[p] = "waiting" => Preempted(st, current)[p] = "waiting"
  BY DEF Preempted, Status

\* schedule() of process/schedule.c: types, sleepers and the one RUNNING process.
LEMMA ScheduleFacts ==
    ASSUME NEW st \in [Procs -> Status], NEW need \in BOOLEAN,
           SchedTypeOK, Schedule(st, need)
    PROVE  /\ SchedTypeOK'
           /\ \A p \in Procs : st[p] = "sleeping" <=> status'[p] = "sleeping"
           /\ (\A p \in Procs : st[p] = "running" => p = current)
                 => \A p \in Procs : status'[p] = "running" => p = current'
           /\ \/ ~need /\ status' = st /\ current' = current /\ halt' = halt
              \/ status'[current'] = "running" /\ halt' = halt
              \/ /\ halt' = "spin"
                 /\ \A p \in Procs : Preempted(st, current)[p] # "waiting"
<1> DEFINE pre == Preempted(st, current)
<1>1. /\ current \in Procs /\ halt \in Halts
      /\ pre \in [Procs -> Status]
      /\ \A p \in Procs : st[p] = "sleeping" <=> pre[p] = "sleeping"
      /\ (\A p \in Procs : st[p] = "running" => p = current)
            => \A p \in Procs : pre[p] # "running"
  BY PreemptedFacts DEF SchedTypeOK
<1> HIDE DEF pre
<1>2. CASE Keep(st, need)
  BY <1>1, <1>2 DEF Keep, SchedTypeOK
<1>3. CASE Switch(st, need)
  <2>1. PICK p \in Procs : /\ IsNextLive(pre, current, p)
                           /\ status' = [pre EXCEPT ![p] = "running"]
                           /\ current' = p
    BY <1>3 DEF Switch, pre
  <2>2. needSched' = FALSE /\ halt' = halt
    BY <1>3 DEF Switch
  <2>3. pre[p] = "waiting"
    BY <2>1 DEF IsNextLive
  <2> QED
    BY <1>1, <2>1, <2>2, <2>3 DEF SchedTypeOK, Status
<1>4. CASE Spin(st, need)
  <2>1. /\ \A p \in Procs : pre[p] # "waiting"
        /\ status' = pre /\ needSched' = TRUE /\ halt' = "spin" /\ current' = current
    BY <1>4 DEF Spin, pre
  <2> QED
    BY <1>1, <2>1 DEF SchedTypeOK, Halts, pre
<1> QED
  BY <1>2, <1>3, <1>4 DEF Schedule

(***************************************************************************)
(* The semaphores.                                                         *)
(***************************************************************************)
LEMMA SingletonQueue ==
    ASSUME NEW p
    PROVE  /\ Front(<<p>>) = <<>>
           /\ Last(<<p>>) = p
           /\ <<p>> # <<>>
           /\ ToSet(<<p>>) = {p}
           /\ Append(<<>>, p) = <<p>>
  BY DEF Front, Last, ToSet

\* An empty queue_tail stack holds nobody.
LEMMA EmptyQueue == ToSet(<<>>) = {}
  BY DEF ToSet

\* The sections of Sem_P and Sem_V keep the types of semaphore and statuses.
LEMMA SemTypes ==
    ASSUME NEW s \in SemType(Procs), NEW st \in [Procs -> Status], NEW p \in Procs
    PROVE  /\ HasToken(s) => PTake(s) \in SemType(Procs)
           /\ PQueue(s, p) \in SemType(Procs)
           /\ PSleep(st, p) \in [Procs -> Status]
           /\ V(s) \in SemType(Procs)
           /\ VWake(s, st) \in [Procs -> Status]
<1>1. HasToken(s) => PTake(s) \in SemType(Procs)
  BY DEF SemType, HasToken, PTake
<1>2. PQueue(s, p) \in SemType(Procs)
  BY DEF SemType, PQueue
<1>3. PSleep(st, p) \in [Procs -> Status]
  BY DEF PSleep, Status
<1>4. V(s) \in SemType(Procs)
  BY DEF SemType, V, Front
<1>5. VWake(s, st) \in [Procs -> Status]
  BY DEF VWake, Status
<1> QED
  BY <1>1, <1>2, <1>3, <1>4, <1>5
(***************************************************************************)
(* Unlinking an element of a list.                                         *)
(***************************************************************************)
LEMMA RemoveAtType ==
    ASSUME NEW S, NEW s \in Seq(S), NEW i \in 1 .. Len(s)
    PROVE  RemoveAt(s, i) \in Seq(S)
  BY DEF RemoveAt
-----------------------------------------------------------------------------
(***************************************************************************)
(* Type correctness.                                                       *)
(***************************************************************************)
LEMMA ProcsFacts == Procs \subseteq Int /\ Idle \in Procs /\ IsFiniteSet(Procs)
  BY NProcAssumption, FS_Interval DEF Procs, Idle

\* The null pointer is not a slot of the pool.
LEMMA NoSlotFact == NoSlot \notin Slots
  BY PoolAssumption DEF NoSlot, Slots

\* init_proc and init_message_pool establish the types.
LEMMA InitType == Init => TypeOK
<1> SUFFICES ASSUME Init PROVE TypeOK
  OBVIOUS
<1>1. SchedTypeOK
  BY ProcsFacts DEF Init, SchedInit, SchedTypeOK, Status, Halts
<1>2. SemInit \in SemType(Procs)
  BY DEF SemInit, SemType
<1>3. AnySrc \in Filters /\ "user" \in PC
  BY DEF Filters, PC
<1> QED
  BY <1>1, <1>2, <1>3 DEF Init, TypeOK

\* The first section of send keeps the types of pool and list.
LEMMA EnqueueType ==
    ASSUME TypeOK, NEW q \in Procs, NEW m \in Message, Enqueue(q, m)
    PROVE  /\ free' \in [Procs -> [Slots -> BOOLEAN]]
           /\ msg' \in [Procs -> [Slots -> Message \cup {Nil}]]
           /\ rec' \in [Procs -> Seq(Slots)]
  BY DEF TypeOK, Enqueue

\* The panic of Find_Empty_Message changes nothing but halt.
LEMMA PoolPanicType ==
    ASSUME TypeOK, NEW q \in Procs, PoolPanic(q)
    PROVE  TypeOK'
<1>1. SchedTypeOK'
  BY DEF TypeOK, PoolPanic, SchedTypeOK, Halts, Status
<1> QED
  BY <1>1 DEF TypeOK, PoolPanic, ipcVars

\* Types: the steps of a process inside send or receive.
LEMMA ContinueType ==
    ASSUME TypeOK, NEW p \in Procs, Continue(p)
    PROVE  TypeOK'
<1> USE DEF TypeOK, PC
<1>1. CASE SendV(p)
  <2>1. /\ arg[p] \in Procs
        /\ V(sem[arg[p]]) \in SemType(Procs)
        /\ VWake(sem[arg[p]], status) \in [Procs -> Status]
    BY <1>1, SemTypes DEF SchedTypeOK, SendV
  <2>2. SchedTypeOK'
    BY <1>1, <2>1 DEF SendV, SchedTypeOK
  <2>3. sem' \in [Procs -> SemType(Procs)] /\ pc' \in [Procs -> PC]
    BY <1>1, <2>1 DEF SendV
  <2> QED
    BY <1>1, <2>2, <2>3 DEF SendV
<1>2. CASE SemP(p)
  <2>1. /\ HasToken(sem[p]) => PTake(sem[p]) \in SemType(Procs)
        /\ PQueue(sem[p], p) \in SemType(Procs)
        /\ PSleep(status, p) \in [Procs -> Status]
    BY SemTypes DEF SchedTypeOK
  <2>2. SchedTypeOK'
    BY <1>2, <2>1 DEF SemP, SemTake, SemSleep, SchedTypeOK
  <2>3. sem' \in [Procs -> SemType(Procs)]
    BY <1>2, <2>1 DEF SemP, SemTake, SemSleep
  <2>4. \E x \in {"deq", "int80"} : pc' = [pc EXCEPT ![p] = x]
    BY <1>2 DEF SemP, SemTake, SemSleep
  <2> QED
    BY <1>2, <2>2, <2>3, <2>4 DEF SemP
<1>3. CASE RequestSched(p)
  BY <1>3 DEF RequestSched, SchedTypeOK
<1>4. CASE Yield(p)
  <2>1. SchedTypeOK'
    BY <1>4, ScheduleFacts DEF Yield, SchedTypeOK
  <2> QED
    BY <1>4, <2>1 DEF Yield
<1>5. CASE Dequeue(p)
  <2>1. CASE rec[p] = <<>>
    <3>1. SchedTypeOK'
      BY <1>5, <2>1 DEF Dequeue, EmptyPanic, SchedTypeOK, Halts
    <3> QED
      BY <1>5, <2>1, <3>1 DEF Dequeue, EmptyPanic
  <2>2. CASE rec[p] # <<>>
    <3>1. Head(rec[p]) \in Slots /\ Tail(rec[p]) \in Seq(Slots)
      BY <2>2, HeadTailProperties
    <3>2. /\ rec' \in [Procs -> Seq(Slots)]
          /\ SchedTypeOK'
      <4>1. rec' = [rec EXCEPT ![p] = Tail(@)]
        BY <1>5, <2>2 DEF Dequeue
      <4>2. UNCHANGED schedVars
        BY <1>5, <2>2 DEF Dequeue, Accept, PutAside, schedVars
      <4> QED
        BY <3>1, <4>1, <4>2 DEF schedVars, SchedTypeOK
    <3>3. CASE Accept(p)
      <4>1. held' \in [Procs -> Slots \cup {NoSlot}] /\ pc' \in [Procs -> PC]
        BY <3>1, <3>3 DEF Accept
      <4>2. \A r \in Procs : held'[r] # NoSlot <=> pc'[r] \in {"copy", "free"}
        BY <3>1, <3>3, NoSlotFact DEF Accept
      <4>3. \A r \in Procs : pc'[r] = "sendV" => arg[r] \in Procs
        BY <3>3 DEF Accept
      <4> QED
        BY <1>5, <2>2, <3>2, <3>3, <4>1, <4>2, <4>3 DEF Dequeue, Accept
    <3>4. CASE PutAside(p)
      <4>1. ign' \in [Procs -> Seq(Slots)] /\ pc' \in [Procs -> PC]
        BY <3>1, <3>4, AppendProperties DEF PutAside
      <4>2. \A r \in Procs : held[r] # NoSlot <=> pc'[r] \in {"copy", "free"}
        BY <1>5, <3>4 DEF PutAside, Dequeue
      <4>3. \A r \in Procs : pc'[r] = "sendV" => arg[r] \in Procs
        BY <3>4 DEF PutAside
      <4> QED
        BY <1>5, <2>2, <3>2, <3>4, <4>1, <4>2, <4>3 DEF Dequeue, PutAside
    <3> QED
      BY <1>5, <2>2, <3>3, <3>4 DEF Dequeue
  <2> QED
    BY <2>1, <2>2
<1>6. CASE Copy(p)
  BY <1>6 DEF Copy, schedVars, SchedTypeOK
<1>7. CASE Free(p)
  BY <1>7 DEF Free, schedVars, SchedTypeOK
<1> QED
  BY <1>1, <1>2, <1>3, <1>4, <1>5, <1>6, <1>7 DEF Continue

\* Types: the first steps of send and receive.
LEMMA CallType ==
    ASSUME TypeOK, NEW p \in Procs, Call(p)
    PROVE  TypeOK'
<1> USE DEF TypeOK, PC
<1>1. ASSUME NEW q \in Procs, NEW b \in Body, SendEnqueue(p, q, b)
      PROVE  TypeOK'
  <2>1. CASE Post(p, q, b)
    <3>1. [src |-> p, body |-> b] \in Message
      BY DEF Message, Sources
    <3>2. /\ free' \in [Procs -> [Slots -> BOOLEAN]]
          /\ msg' \in [Procs -> [Slots -> Message \cup {Nil}]]
          /\ rec' \in [Procs -> Seq(Slots)]
      BY <2>1, <3>1, EnqueueType DEF Post
    <3>3. SchedTypeOK'
      BY <2>1 DEF Post, schedVars, SchedTypeOK
    <3>4. pc[p] = "user" /\ q \in Filters
      BY <1>1 DEF SendEnqueue, Filters
    <3> QED
      BY <2>1, <3>2, <3>3, <3>4 DEF Post
  <2>2. CASE PoolPanic(q)
    BY <2>2, PoolPanicType
  <2> QED
    BY <1>1, <2>1, <2>2 DEF SendEnqueue
<1>2. ASSUME NEW f \in Filters, ReceiveIgnored(p, f)
      PROVE  TypeOK'
  <2>1. PICK i \in 1 .. Len(ign[p]) :
           /\ held' = [held EXCEPT ![p] = ign[p][i]]
           /\ ign' = [ign EXCEPT ![p] = RemoveAt(@, i)]
    BY <1>2 DEF ReceiveIgnored
  <2>2. ign[p][i] \in Slots /\ NoSlot \notin Slots
    BY ElementOfSeq, NoSlotFact
  <2>3. RemoveAt(ign[p], i) \in Seq(Slots)
    BY RemoveAtType
  <2>4. ign' \in [Procs -> Seq(Slots)]
    BY <2>1, <2>3
  <2>5. SchedTypeOK'
    BY <1>2 DEF ReceiveIgnored, schedVars, SchedTypeOK
  <2> QED
    BY <1>2, <2>1, <2>2, <2>4, <2>5 DEF ReceiveIgnored
<1>3. ASSUME NEW f \in Filters, ReceiveNew(p, f)
      PROVE  TypeOK'
  BY <1>3 DEF ReceiveNew, schedVars, SchedTypeOK
<1> QED
  BY <1>1, <1>2, <1>3 DEF Call

\* Types: the timer tick and a handler that sends.
LEMMA InterruptType ==
    ASSUME TypeOK, Interrupt
    PROVE  TypeOK'
<1> USE DEF TypeOK, PC
<1>1. ASSUME NEW quantum \in BOOLEAN, Tick(quantum)
      PROVE  TypeOK'
  <2>1. SchedTypeOK'
    BY <1>1, ScheduleFacts DEF Tick, SchedTypeOK
  <2> QED
    BY <1>1, <2>1 DEF Tick, ipcVars
<1>2. ASSUME NEW q \in IrqTo, NEW b \in Body, NEW quantum \in BOOLEAN,
             DeviceIrq(q, b, quantum)
      PROVE  TypeOK'
  <2>1. q \in Procs
    BY ClientAssumption
  <2>2. CASE IrqPost(q, b, quantum)
    <3>1. [src |-> HardIntr, body |-> b] \in Message
      BY DEF Message, Sources
    <3>2. /\ free' \in [Procs -> [Slots -> BOOLEAN]]
          /\ msg' \in [Procs -> [Slots -> Message \cup {Nil}]]
          /\ rec' \in [Procs -> Seq(Slots)]
      BY <2>1, <2>2, <3>1, EnqueueType DEF IrqPost
    <3>3. /\ V(sem[q]) \in SemType(Procs)
          /\ VWake(sem[q], status) \in [Procs -> Status]
      BY <2>1, SemTypes DEF SchedTypeOK
    <3>4. SchedTypeOK'
      <4> DEFINE st == VWake(sem[q], status)
      <4>1. st \in [Procs -> Status] /\ Schedule(st, needSched \/ quantum)
        BY <2>2, <3>3 DEF IrqPost
      <4> HIDE DEF st
      <4> QED
        BY <4>1, ScheduleFacts
    <3>5. sem' \in [Procs -> SemType(Procs)]
      BY <2>1, <2>2, <3>3 DEF IrqPost
    <3> QED
      BY <2>2, <3>2, <3>4, <3>5 DEF IrqPost
  <2>3. CASE PoolPanic(q)
    BY <2>1, <2>3, PoolPanicType
  <2> QED
    BY <1>2, <2>2, <2>3 DEF DeviceIrq
<1> QED
  BY <1>1, <1>2 DEF Interrupt

\* Types: every step.
LEMMA StepType == TypeOK /\ [Next]_vars => TypeOK'
<1> SUFFICES ASSUME TypeOK, [Next]_vars PROVE TypeOK'
  OBVIOUS
<1>1. current \in Procs
  BY DEF TypeOK, SchedTypeOK
<1>2. CASE Continue(current)
  BY <1>1, <1>2, ContinueType
<1>3. CASE Call(current)
  BY <1>1, <1>3, CallType
<1>4. CASE Interrupt
  BY <1>4, InterruptType
<1>5. CASE UNCHANGED vars
  BY <1>5 DEF vars, schedVars, ipcVars, TypeOK, SchedTypeOK
<1> QED
  BY <1>2, <1>3, <1>4, <1>5 DEF Next, Halted

\* Every variable keeps its type, whatever is interrupted where.
THEOREM TypeCorrect == Spec => []TypeOK
<1>1. Init => TypeOK
  BY InitType
<1>2. TypeOK /\ [Next]_vars => TypeOK'
  BY StepType
<1> QED
  BY <1>1, <1>2, PTL DEF Spec
-----------------------------------------------------------------------------
(***************************************************************************)
(* Sleeping, queueing and scheduling: Shape is preserved by every step.    *)
(***************************************************************************)
LEMMA VFacts ==
    ASSUME NEW s \in SemType(Procs), NEW st \in [Procs -> Status], NEW q \in Procs,
           s.queue = IF st[q] = "sleeping" THEN <<q>> ELSE <<>>
    PROVE  /\ VWake(s, st) = IF st[q] = "sleeping" THEN [st EXCEPT ![q] = "waiting"] ELSE st
           /\ V(s).queue = <<>>
           /\ V(s).token = IF st[q] = "sleeping" THEN s.token ELSE s.token + 1
<1>1. CASE st[q] = "sleeping"
  <2>1. s.queue = <<q>> /\ s.queue # <<>> /\ Front(s.queue) = <<>> /\ Last(s.queue) = q
    BY <1>1, SingletonQueue
  <2> QED
    BY <1>1, <2>1 DEF VWake, V, SemType
<1>2. CASE st[q] # "sleeping"
  <2>1. s.queue = <<>>
    BY <1>2
  <2> QED
    BY <1>2, <2>1 DEF VWake, V, SemType
<1> QED
  BY <1>1, <1>2

\* At boot nobody sleeps, nobody runs and every queue is empty.
LEMMA InitShape == Init => Shape
<1> SUFFICES ASSUME Init PROVE Shape
  OBVIOUS
<1>1. /\ \A p \in Procs : status[p] = "waiting" /\ pc[p] = "user" /\ sem[p].queue = <<>>
      /\ status[current] = "waiting" /\ halt = "none"
  BY ProcsFacts DEF Init, SchedInit, SemInit
<1> QED
  BY <1>1 DEF Shape, RunningIsCurrent, SleepersQueued, SleeperLeaves, BystandersOutside, NeverSpins

(***************************************************************************)
(* schedule(), called at the end of an interrupt or a system call when the *)
(* statuses are st: if these agree with the queues, it keeps Shape.        *)
(***************************************************************************)
LEMMA ScheduleShape ==
    ASSUME TypeOK, Shape, halt = "none",
           NEW st \in [Procs -> Status], NEW need \in BOOLEAN,
           Schedule(st, need),
           \A p \in Procs : st[p] = "running" => p = current,
           \A p \in Procs : st[p] = "sleeping" => status[p] = "sleeping",
           \A q \in Procs :
              /\ sem'[q].queue = IF st[q] = "sleeping" THEN <<q>> ELSE <<>>
              /\ st[q] = "sleeping" => pc'[q] \in {"int80", "cli", "deq"} /\ sem'[q].token = 0,
           ~need /\ st[current] = "sleeping" => pc'[current] = "int80",
           BystandersOutside'
    PROVE  Shape'
<1>1. /\ SchedTypeOK'
      /\ \A p \in Procs : st[p] = "sleeping" <=> status'[p] = "sleeping"
      /\ \A p \in Procs : status'[p] = "running" => p = current'
      /\ \/ ~need /\ status' = st /\ current' = current /\ halt' = halt
         \/ status'[current'] = "running" /\ halt' = halt
         \/ /\ halt' = "spin"
            /\ \A p \in Procs : Preempted(st, current)[p] # "waiting"
  <2>1. SchedTypeOK
    BY DEF TypeOK
  <2> QED
    BY <2>1, ScheduleFacts
<1>2. RunningIsCurrent'
  BY <1>1 DEF RunningIsCurrent
<1>3. SleepersQueued'
  BY <1>1 DEF SleepersQueued
<1>4. SleeperLeaves'
  BY <1>1 DEF SleeperLeaves, SchedTypeOK
<1>5. NeverSpins'
  <2> SUFFICES ASSUME Idle \notin Clients PROVE halt' # "spin"
    BY DEF NeverSpins
  <2>1. pc[Idle] = "user"
    BY ProcsFacts DEF Shape, BystandersOutside
  <2>2. st[Idle] # "sleeping"
    BY <2>1, ProcsFacts DEF Shape, SleepersQueued
  <2>3. st[Idle] = "waiting" \/ (st[Idle] = "running" /\ Idle = current)
    BY <2>2, ProcsFacts DEF Status
  <2>4. Preempted(st, current)[Idle] = "waiting"
    BY <2>3, ProcsFacts DEF Preempted
  <2> QED
    BY <1>1, <2>4, ProcsFacts
<1> QED
  BY <1>2, <1>3, <1>4, <1>5 DEF Shape

\* Shape: the steps of a process inside send or receive.
LEMMA ContinueShape ==
    ASSUME TypeOK, Shape, halt = "none", Continue(current)
    PROVE  Shape'
<1> DEFINE p == current
<1>1. /\ p \in Procs /\ status \in [Procs -> Status] /\ needSched \in BOOLEAN
      /\ sem \in [Procs -> SemType(Procs)] /\ pc \in [Procs -> PC]
  BY DEF TypeOK, SchedTypeOK
<1>2. /\ \A r \in Procs : status[r] = "running" => r = p
      /\ \A q \in Procs :
            /\ sem[q].queue = IF status[q] = "sleeping" THEN <<q>> ELSE <<>>
            /\ status[q] = "sleeping" => pc[q] \in {"int80", "cli", "deq"} /\ sem[q].token = 0
      /\ status[p] = "sleeping" => pc[p] = "int80" \/ (pc[p] = "cli" /\ needSched)
      /\ \A r \in Procs \ Clients : pc[r] = "user"
      /\ NeverSpins
  BY DEF Shape, RunningIsCurrent, SleepersQueued, SleeperLeaves, BystandersOutside
<1> DEFINE PcStep(x) == pc' = [pc EXCEPT ![p] = x]
<1>3. ASSUME pc[p] # "user", NEW x, PcStep(x) PROVE BystandersOutside'
  BY <1>1, <1>2, <1>3 DEF BystandersOutside
<1> HIDE DEF p
\* The steps that change neither a status nor a queue, and leave receive's waiting part.
<1>4. ASSUME pc[p] \in {"deq", "copy", "free"}, NEW x, PcStep(x),
             UNCHANGED <<status, current, sem>>, halt' \in {halt, "empty"}
      PROVE  Shape'
  <2>1. BystandersOutside'
    BY <1>3, <1>4
  <2>2. status[p] # "sleeping"
    BY <1>2, <1>4
  <2>3. RunningIsCurrent' /\ SleepersQueued' /\ SleeperLeaves' /\ NeverSpins'
    BY <1>1, <1>2, <1>4, <2>2
    DEF RunningIsCurrent, SleepersQueued, SleeperLeaves, NeverSpins, p
  <2> QED
    BY <2>1, <2>3 DEF Shape
<1>5. CASE SendV(p)
  <2> DEFINE q == arg[p]
  <2>1. q \in Procs /\ pc[p] = "sendV"
    BY <1>1, <1>5 DEF SendV, TypeOK
  <2>2. /\ status' = IF status[q] = "sleeping" THEN [status EXCEPT ![q] = "waiting"] ELSE status
        /\ V(sem[q]).queue = <<>>
    <3>1. sem[q] \in SemType(Procs) /\ status \in [Procs -> Status]
      BY <1>1, <2>1
    <3>2. sem[q].queue = IF status[q] = "sleeping" THEN <<q>> ELSE <<>>
      BY <1>2, <2>1
    <3>3. status' = VWake(sem[q], status)
      BY <1>5 DEF SendV
    <3> HIDE DEF q
    <3> QED
      BY <2>1, <3>1, <3>2, <3>3, VFacts
  <2>3. PcStep("user") /\ current' = current /\ halt' = halt /\ sem' = [sem EXCEPT ![q] = V(@)]
    BY <1>5 DEF SendV
  <2>4. \A r \in Procs : /\ sem'[r].queue = IF r = q THEN <<>> ELSE sem[r].queue
                         /\ r # q => sem'[r] = sem[r]
    BY <1>1, <2>1, <2>2, <2>3
  <2>5. \A r \in Procs : status'[r] = IF r = q /\ status[q] = "sleeping" THEN "waiting" ELSE status[r]
    BY <1>1, <2>1, <2>2
  <2>6. status[p] # "sleeping"
    BY <1>1, <1>2, <2>1
  <2>7. BystandersOutside'
    BY <1>3, <2>1, <2>3
  <2> HIDE DEF q
  <2>8. RunningIsCurrent' /\ SleeperLeaves' /\ NeverSpins'
    BY <1>1, <1>2, <2>3, <2>5, <2>6 DEF RunningIsCurrent, SleeperLeaves, NeverSpins, p
  <2>9. SleepersQueued'
    BY <1>1, <1>2, <2>3, <2>4, <2>5, <2>6 DEF SleepersQueued
  <2> QED
    BY <2>7, <2>8, <2>9 DEF Shape
<1>6. CASE SemP(p) /\ SemTake(p)
  <2>1. /\ pc[p] = "P" /\ PcStep("deq") /\ UNCHANGED <<status, current, halt>>
        /\ sem' = [sem EXCEPT ![p] = PTake(@)]
    BY <1>6 DEF SemP, SemTake
  <2>2. \A r \in Procs : sem'[r].queue = sem[r].queue /\ (r # p => sem'[r] = sem[r])
    BY <1>1, <2>1 DEF PTake, SemType
  <2>3. BystandersOutside'
    BY <1>3, <2>1
  <2>4. RunningIsCurrent' /\ SleepersQueued' /\ SleeperLeaves' /\ NeverSpins'
    BY <1>1, <1>2, <2>1, <2>2 DEF RunningIsCurrent, SleepersQueued, SleeperLeaves, NeverSpins, p
  <2> QED
    BY <2>3, <2>4 DEF Shape
<1>7. CASE SemP(p) /\ SemSleep(p)
  <2>1. /\ pc[p] = "P" /\ PcStep("int80") /\ UNCHANGED <<current, halt>>
        /\ sem' = [sem EXCEPT ![p] = PQueue(@, p)]
        /\ status' = [status EXCEPT ![p] = "sleeping"]
    BY <1>7 DEF SemP, SemSleep, PSleep
  <2>2. sem[p].queue = <<>>
    BY <1>1, <1>2, <2>1
  <2>3. sem'[p].queue = <<p>> /\ sem'[p].token = 0
    BY <1>1, <1>7, <2>1, <2>2, SingletonQueue DEF PQueue, SemType, SemSleep, HasToken
  <2>4. \A r \in Procs : /\ sem'[r].queue = IF r = p THEN <<p>> ELSE sem[r].queue
                         /\ r # p => sem'[r] = sem[r]
    BY <1>1, <2>1, <2>3
  <2>5. BystandersOutside'
    BY <1>3, <2>1
  <2>6. RunningIsCurrent' /\ SleeperLeaves' /\ NeverSpins'
    BY <1>1, <1>2, <2>1 DEF RunningIsCurrent, SleeperLeaves, NeverSpins, p
  <2>7. SleepersQueued'
    BY <1>1, <1>2, <2>1, <2>3, <2>4 DEF SleepersQueued
  <2> QED
    BY <2>5, <2>6, <2>7 DEF Shape
<1>8. CASE RequestSched(p)
  <2>1. pc[p] = "int80" /\ PcStep("cli") /\ needSched' /\ UNCHANGED <<status, current, halt, sem>>
    BY <1>8 DEF RequestSched
  <2>2. BystandersOutside'
    BY <1>3, <2>1
  <2>3. RunningIsCurrent' /\ SleepersQueued' /\ SleeperLeaves' /\ NeverSpins'
    BY <1>1, <1>2, <2>1 DEF RunningIsCurrent, SleepersQueued, SleeperLeaves, NeverSpins, p
  <2> QED
    BY <2>2, <2>3 DEF Shape
<1>9. CASE Yield(p)
  <2>1. pc[p] = "cli" /\ PcStep("deq") /\ sem' = sem /\ Schedule(status, needSched)
    BY <1>9 DEF Yield
  <2>2. BystandersOutside'
    BY <1>3, <2>1
  <2>3. ~needSched => status[current] # "sleeping"
    BY <1>2, <2>1 DEF p
  <2>4. \A q \in Procs : status[q] = "sleeping" => pc'[q] \in {"int80", "cli", "deq"}
    BY <1>1, <1>2, <2>1
  <2>5. \A q \in Procs : /\ sem'[q].queue = IF status[q] = "sleeping" THEN <<q>> ELSE <<>>
                         /\ status[q] = "sleeping" => sem'[q].token = 0
    BY <1>2, <2>1
  <2>6. \A r \in Procs : status[r] = "running" => r = current
    BY <1>2 DEF p
  <2> QED
    BY <1>1, <2>1, <2>2, <2>3, <2>4, <2>5, <2>6, ScheduleShape
<1>10. CASE Dequeue(p)
  <2>1. /\ pc[p] = "deq" /\ UNCHANGED <<status, current, sem>> /\ halt' \in {halt, "empty"}
        /\ \E x \in {pc[p], "copy", "P"} : PcStep(x)
    BY <1>1, <1>10 DEF Dequeue, EmptyPanic, Accept, PutAside
  <2> QED
    BY <1>4, <2>1
<1>11. CASE Copy(p)
  BY <1>4, <1>11 DEF Copy, schedVars
<1>12. CASE Free(p)
  BY <1>4, <1>12 DEF Free, schedVars
<1> QED
  BY <1>5, <1>6, <1>7, <1>8, <1>9, <1>10, <1>11, <1>12 DEF Continue, SemP, p

\* A panic stops everything where it is.
LEMMA PoolPanicShape ==
    ASSUME Shape, NEW q \in Procs, PoolPanic(q)
    PROVE  Shape'
<1>1. UNCHANGED <<status, current, needSched, pc, sem>> /\ halt' = "pool"
  BY DEF PoolPanic, ipcVars
<1> QED
  BY <1>1 DEF Shape, RunningIsCurrent, SleepersQueued, SleeperLeaves, BystandersOutside, NeverSpins

\* Shape: the first steps of send and receive.
LEMMA CallShape ==
    ASSUME TypeOK, Shape, halt = "none", Call(current)
    PROVE  Shape'
<1>1. current \in Procs /\ pc \in [Procs -> PC]
  BY DEF TypeOK, SchedTypeOK
<1>2. ASSUME pc[current] = "user", current \in Clients, NEW x,
             pc' = [pc EXCEPT ![current] = x], UNCHANGED <<schedVars, sem>>
      PROVE  Shape'
  <2>1. status[current] # "sleeping"
    BY <1>1, <1>2 DEF Shape, SleepersQueued
  <2>2. UNCHANGED <<status, current, needSched, halt>>
    BY <1>2 DEF schedVars
  <2>3. BystandersOutside'
    BY <1>1, <1>2 DEF Shape, BystandersOutside
  <2>4. RunningIsCurrent' /\ SleepersQueued' /\ SleeperLeaves' /\ NeverSpins'
    BY <1>1, <1>2, <2>1, <2>2
    DEF Shape, RunningIsCurrent, SleepersQueued, SleeperLeaves, NeverSpins
  <2> QED
    BY <2>3, <2>4 DEF Shape
<1>3. ASSUME NEW q \in Procs, NEW b \in Body, SendEnqueue(current, q, b)
      PROVE  Shape'
  <2>1. CASE Post(current, q, b)
    BY <1>2, <1>3, <2>1 DEF SendEnqueue, Post
  <2>2. CASE PoolPanic(q)
    BY <2>2, PoolPanicShape
  <2> QED
    BY <1>3, <2>1, <2>2 DEF SendEnqueue
<1>4. ASSUME NEW f \in Filters, ReceiveIgnored(current, f)
      PROVE  Shape'
  BY <1>2, <1>4 DEF ReceiveIgnored
<1>5. ASSUME NEW f \in Filters, ReceiveNew(current, f)
      PROVE  Shape'
  BY <1>2, <1>5 DEF ReceiveNew
<1> QED
  BY <1>3, <1>4, <1>5 DEF Call

\* Shape: the timer tick and a handler that sends.
LEMMA InterruptShape ==
    ASSUME TypeOK, Shape, halt = "none", Interrupt
    PROVE  Shape'
<1>1. /\ current \in Procs /\ status \in [Procs -> Status] /\ needSched \in BOOLEAN
      /\ sem \in [Procs -> SemType(Procs)]
  BY DEF TypeOK, SchedTypeOK
<1>2. /\ \A r \in Procs : status[r] = "running" => r = current
      /\ \A q \in Procs :
            /\ sem[q].queue = IF status[q] = "sleeping" THEN <<q>> ELSE <<>>
            /\ status[q] = "sleeping" => pc[q] \in {"int80", "cli", "deq"} /\ sem[q].token = 0
      /\ status[current] = "sleeping" => pc[current] = "int80" \/ (pc[current] = "cli" /\ needSched)
  BY DEF Shape, RunningIsCurrent, SleepersQueued, SleeperLeaves
<1>3. ASSUME NEW quantum \in BOOLEAN, Tick(quantum)
      PROVE  Shape'
  <2>1. UNCHANGED <<pc, sem>> /\ Schedule(status, needSched \/ quantum)
    BY <1>3 DEF Tick, ipcVars
  <2>2. BystandersOutside'
    BY <2>1 DEF Shape, BystandersOutside
  <2>3. (needSched \/ quantum) \in BOOLEAN
    OBVIOUS
  <2>4. ~(needSched \/ quantum) /\ status[current] = "sleeping" => pc'[current] = "int80"
    BY <1>2, <2>1
  <2>5. \A q \in Procs :
           /\ sem'[q].queue = IF status[q] = "sleeping" THEN <<q>> ELSE <<>>
           /\ status[q] = "sleeping" => pc'[q] \in {"int80", "cli", "deq"} /\ sem'[q].token = 0
    BY <1>2, <2>1
  <2> QED
    BY <1>1, <1>2, <2>1, <2>2, <2>3, <2>4, <2>5, ScheduleShape
<1>4. ASSUME NEW q \in IrqTo, NEW b \in Body, NEW quantum \in BOOLEAN,
             DeviceIrq(q, b, quantum)
      PROVE  Shape'
  <2>1. q \in Procs
    BY ClientAssumption
  <2>2. CASE IrqPost(q, b, quantum)
    <3> DEFINE st == VWake(sem[q], status)
    <3>1. /\ pc' = pc /\ Schedule(st, needSched \/ quantum)
          /\ sem' = [sem EXCEPT ![q] = V(@)]
      BY <2>2 DEF IrqPost
    <3>2. sem[q] \in SemType(Procs)
      BY <1>1, <2>1
    <3>3. /\ st = IF status[q] = "sleeping" THEN [status EXCEPT ![q] = "waiting"] ELSE status
          /\ V(sem[q]).queue = <<>>
      BY <1>1, <1>2, <2>1, <3>2, VFacts
    <3> HIDE DEF st
    <3>4. /\ st \in [Procs -> Status]
          /\ \A r \in Procs : st[r] = IF r = q /\ status[q] = "sleeping" THEN "waiting" ELSE status[r]
      BY <1>1, <2>1, <3>3 DEF Status
    <3>5. \A r \in Procs : /\ sem'[r].queue = IF r = q THEN <<>> ELSE sem[r].queue
                           /\ r # q => sem'[r] = sem[r]
      BY <1>1, <2>1, <3>1, <3>3
    <3>6. BystandersOutside'
      BY <3>1 DEF Shape, BystandersOutside
    <3>7. /\ \A p \in Procs : st[p] = "running" => p = current
          /\ \A p \in Procs : st[p] = "sleeping" => status[p] = "sleeping"
          /\ ~(needSched \/ quantum) /\ st[current] = "sleeping" => pc'[current] = "int80"
      BY <1>1, <1>2, <3>1, <3>4
    <3>8. \A r \in Procs :
             /\ sem'[r].queue = IF st[r] = "sleeping" THEN <<r>> ELSE <<>>
             /\ st[r] = "sleeping" => pc'[r] \in {"int80", "cli", "deq"} /\ sem'[r].token = 0
      BY <1>1, <1>2, <2>1, <3>1, <3>4, <3>5
    <3> QED
      BY <1>1, <3>1, <3>4, <3>6, <3>7, <3>8, ScheduleShape
  <2>3. CASE PoolPanic(q)
    BY <2>1, <2>3, PoolPanicShape
  <2> QED
    BY <1>4, <2>2, <2>3 DEF DeviceIrq
<1> QED
  BY <1>3, <1>4 DEF Interrupt

\* Shape: every step.
LEMMA StepShape == TypeOK /\ Shape /\ [Next]_vars => Shape'
<1> SUFFICES ASSUME TypeOK, Shape, [Next]_vars PROVE Shape'
  OBVIOUS
<1>1. CASE UNCHANGED vars
  BY <1>1 DEF vars, schedVars, ipcVars, Shape, RunningIsCurrent, SleepersQueued, SleeperLeaves,
              BystandersOutside, NeverSpins
<1> QED
  BY <1>1, ContinueShape, CallShape, InterruptShape DEF Next, Halted

(***************************************************************************)
(* A process says RUNNING only while it is current_pcb; the sleeping       *)
(* processes are exactly the queued ones, each once, in its own semaphore; *)
(* a process that went to sleep is not resumed before a Sem_V; and, if the *)
(* idle process makes no calls, schedule() always finds somebody to run.   *)
(***************************************************************************)
THEOREM ShapeInvariant == Spec => []Shape
<1>1. Init => TypeOK /\ Shape
  BY InitType, InitShape
<1>2. TypeOK /\ Shape /\ [Next]_vars => (TypeOK /\ Shape)'
  BY StepType, StepShape
<1> QED
  BY <1>1, <1>2, PTL DEF Spec

\* find_next_live_process never scans for ever while the idle process is idle.
THEOREM SchedulerFinds == Spec => []NeverSpins
<1>1. Shape => NeverSpins
  BY DEF Shape
<1> QED
  BY <1>1, ShapeInvariant, PTL

\* Sleeping and being queued on one's own semaphore are the same, wherever
\* Sem_P and Sem_V are interrupted.
THEOREM SleepersAreQueued == Spec => []SleepersQueued
<1>1. Shape => SleepersQueued
  BY DEF Shape
<1> QED
  BY <1>1, ShapeInvariant, PTL
-----------------------------------------------------------------------------
(***************************************************************************)
(* Counting messages.                                                      *)
(***************************************************************************)
LEMMA PendingFinite ==
    ASSUME NEW q
    PROVE  IsFiniteSet(Pending(q)) /\ Cardinality(Pending(q)) \in Nat
<1>1. Pending(q) \subseteq Procs
  BY DEF Pending
<1> QED
  BY <1>1, ProcsFacts, FS_Subset, FS_CardinalityType

\* What a step that leaves send alone does to the senders under way: nothing.
LEMMA PendingSame ==
    ASSUME \A p \in Procs : /\ pc'[p] = "sendV" <=> pc[p] = "sendV"
                            /\ pc[p] = "sendV" => arg'[p] = arg[p]
    PROVE  \A q \in Procs : Pending(q)' = Pending(q)
  BY DEF Pending

(***************************************************************************)
(* A step that leaves the semaphores, the lists and the senders alone and  *)
(* neither grants nor uses up a token keeps the count.                     *)
(***************************************************************************)
LEMMA AccountingSame ==
    ASSUME TypeOK, Accounting, UNCHANGED <<sem, rec>>,
           \A p \in Procs : /\ pc'[p] = "sendV" <=> pc[p] = "sendV"
                            /\ pc[p] = "sendV" => arg'[p] = arg[p]
                            /\ Granted(p)' <=> Granted(p)
    PROVE  Accounting'
<1>1. \A q \in Procs : Pending(q)' = Pending(q)
  BY PendingSame
<1>2. \A q \in Procs : GrantCount(q)' = GrantCount(q)
  BY DEF GrantCount
<1> QED
  BY <1>1, <1>2 DEF Accounting

\* Sem_V adds one to the tokens of q, kept or granted.
LEMMA VCounts ==
    ASSUME TypeOK, Shape, NEW q \in Procs,
           sem' = [sem EXCEPT ![q] = V(@)],
           \A r \in Procs : status'[r] = "sleeping" <=> VWake(sem[q], status)[r] = "sleeping",
           \A r \in Procs : pc'[r] \in {"int80", "cli", "deq"} <=> pc[r] \in {"int80", "cli", "deq"}
    PROVE  \A r \in Procs :
              sem'[r].token + GrantCount(r)'
                 = sem[r].token + GrantCount(r) + (IF r = q THEN 1 ELSE 0)
<1>1. sem \in [Procs -> SemType(Procs)] /\ status \in [Procs -> Status]
  BY DEF TypeOK, SchedTypeOK
<1>2. \A r \in Procs : status[r] = "sleeping" => pc[r] \in {"int80", "cli", "deq"}
  BY DEF Shape, SleepersQueued
<1>3. /\ VWake(sem[q], status) = IF status[q] = "sleeping" THEN [status EXCEPT ![q] = "waiting"] ELSE status
      /\ V(sem[q]).token = IF status[q] = "sleeping" THEN sem[q].token ELSE sem[q].token + 1
  BY <1>1, VFacts DEF Shape, SleepersQueued
<1>4. \A r \in Procs : status'[r] = "sleeping" <=> (status[r] = "sleeping" /\ r # q)
  BY <1>1, <1>3
<1>5. sem[q].token \in Nat /\ \A r \in Procs : sem[r].token \in Nat
  BY <1>1 DEF SemType
<1>6. \A r \in Procs : sem'[r].token = IF r = q /\ status[q] # "sleeping" THEN sem[r].token + 1 ELSE sem[r].token
  BY <1>1, <1>3
<1>7. \A r \in Procs : GrantCount(r)' = IF r = q /\ status[q] = "sleeping" THEN 1 ELSE GrantCount(r)
  BY <1>2, <1>4 DEF GrantCount, Granted
<1>8. \A r \in Procs : GrantCount(r) \in {0, 1} /\ (status[r] = "sleeping" => GrantCount(r) = 0)
  BY DEF GrantCount, Granted
<1> QED
  BY <1>5, <1>6, <1>7, <1>8

\* The first section of send adds one message to the list of q.
LEMMA EnqueueCounts ==
    ASSUME TypeOK, NEW q \in Procs, NEW m, Enqueue(q, m)
    PROVE  \A r \in Procs : Len(rec'[r]) = Len(rec[r]) + (IF r = q THEN 1 ELSE 0)
<1>1. PICK s \in Slots : rec' = [rec EXCEPT ![q] = Append(@, s)]
  BY DEF Enqueue
<1>2. rec[q] \in Seq(Slots) /\ rec \in [Procs -> Seq(Slots)]
  BY DEF TypeOK
<1>3. Len(Append(rec[q], s)) = Len(rec[q]) + 1
  BY <1>2, AppendProperties
<1>4. \A r \in Procs : Len(rec[r]) \in Nat
  BY <1>2, LenProperties
<1> QED
  BY <1>1, <1>2, <1>3, <1>4

\* The count as numbers, so that the steps below are sums.
LEMMA CountTypes ==
    ASSUME TypeOK
    PROVE  \A q \in Procs : /\ sem[q].token \in Nat
                            /\ GrantCount(q) \in {0, 1}
                            /\ Cardinality(Pending(q)) \in Nat
                            /\ Len(rec[q]) \in Nat
<1>1. sem \in [Procs -> SemType(Procs)] /\ rec \in [Procs -> Seq(Slots)]
  BY DEF TypeOK
<1> QED
  BY <1>1, PendingFinite, LenProperties DEF SemType, GrantCount



\* A step that adds a to the tokens of r, kept or granted, b to the senders
\* under way and a + b to the messages keeps the count of r.
LEMMA CountKept ==
    ASSUME TypeOK, Accounting, NEW r \in Procs, NEW a \in Int, NEW b \in Int,
           sem'[r].token \in Int, GrantCount(r)' \in Int,
           sem'[r].token + GrantCount(r)' = sem[r].token + GrantCount(r) + a,
           Cardinality(Pending(r)') = Cardinality(Pending(r)) + b,
           Len(rec'[r]) = Len(rec[r]) + a + b
    PROVE  (sem[r].token + GrantCount(r) + Cardinality(Pending(r)) = Len(rec[r]))'
<1>1. /\ sem[r].token \in Int /\ GrantCount(r) \in Int
      /\ Cardinality(Pending(r)) \in Int /\ Len(rec[r]) \in Int
  BY CountTypes
<1>2. sem[r].token + GrantCount(r) + Cardinality(Pending(r)) = Len(rec[r])
  BY DEF Accounting
<1> DEFINE t2 == sem'[r].token
           g2 == GrantCount(r)'
           c2 == Cardinality(Pending(r)')
           l2 == Len(rec'[r])
           t == sem[r].token
           g == GrantCount(r)
           c == Cardinality(Pending(r))
           l == Len(rec[r])
<1>3. /\ t \in Int /\ g \in Int /\ c \in Int /\ l \in Int /\ t2 \in Int /\ g2 \in Int
      /\ t + g + c = l /\ t2 + g2 = t + g + a /\ c2 = c + b /\ l2 = l + a + b
  BY <1>1, <1>2
<1>4. ASSUME t2 + g2 + c2 = l2
      PROVE (sem[r].token + GrantCount(r) + Cardinality(Pending(r)) = Len(rec[r]))'
  BY <1>4
<1> HIDE DEF t, g, c, l, t2, g2, c2, l2
<1>5. t2 + g2 + c2 = l2
  BY <1>3
<1> QED
  BY <1>4, <1>5

\* Sem_V of send: a pending sender becomes a token or a granted token.
LEMMA SendVAccounting ==
    ASSUME TypeOK, Shape, Accounting, NEW p \in Procs, SendV(p)
    PROVE  Accounting'
<1> DEFINE q == arg[p]
<1>1. /\ q \in Procs /\ pc[p] = "sendV" /\ pc' = [pc EXCEPT ![p] = "user"]
      /\ sem' = [sem EXCEPT ![q] = V(@)] /\ status' = VWake(sem[q], status)
      /\ UNCHANGED <<rec, arg>>
  BY DEF SendV, TypeOK
<1>2. pc \in [Procs -> PC]
  BY DEF TypeOK
<1> HIDE DEF q
<1>3. \A r \in Procs : sem'[r].token + GrantCount(r)'
                          = sem[r].token + GrantCount(r) + (IF r = q THEN 1 ELSE 0)
  <2>1. \A r \in Procs : pc'[r] \in {"int80", "cli", "deq"} <=> pc[r] \in {"int80", "cli", "deq"}
    BY <1>1, <1>2
  <2> QED
    BY <1>1, <2>1, VCounts
<1>4. p \in Pending(q)
  BY <1>1 DEF Pending, q
<1>5. \A r \in Procs : Pending(r)' = IF r = q THEN Pending(r) \ {p} ELSE Pending(r)
  BY <1>1, <1>2 DEF Pending, q
<1>6. \A r \in Procs : Cardinality(Pending(r)') = Cardinality(Pending(r)) - (IF r = q THEN 1 ELSE 0)
  BY <1>4, <1>5, PendingFinite, FS_RemoveElement
<1>7. TypeOK'
  BY ContinueType DEF Continue
<1>8. \A r \in Procs : sem'[r].token \in Int /\ GrantCount(r)' \in Int
  BY <1>7 DEF TypeOK, SemType, GrantCount
<1> SUFFICES ASSUME NEW r \in Procs
             PROVE  (sem[r].token + GrantCount(r) + Cardinality(Pending(r)) = Len(rec[r]))'
  BY DEF Accounting
<1> DEFINE d == IF r = q THEN 1 ELSE 0
<1>9. d \in Int /\ -d \in Int
  OBVIOUS
<1>10. sem'[r].token + GrantCount(r)' = sem[r].token + GrantCount(r) + d
  BY <1>3
<1>11. Cardinality(Pending(r)') = Cardinality(Pending(r)) - d
  BY <1>6
<1> HIDE DEF d
<1>12. Cardinality(Pending(r)') = Cardinality(Pending(r)) + (-d)
  BY <1>9, <1>11, PendingFinite
<1>13. Len(rec'[r]) = Len(rec[r]) + d + (-d)
  <2> DEFINE l == Len(rec[r])
  <2>1. Len(rec'[r]) = l /\ l \in Nat
    BY <1>1, CountTypes
  <2> HIDE DEF l
  <2>2. l = l + d + (-d)
    BY <1>9, <2>1
  <2> QED
    BY <2>1, <2>2 DEF l
<1> QED
  BY <1>8, <1>9, <1>10, <1>12, <1>13, CountKept

\* The first section of send: one more message, one more pending sender.
LEMMA PostAccounting ==
    ASSUME TypeOK, Accounting, NEW p \in Procs, NEW q \in Procs, NEW b,
           pc[p] = "user", Post(p, q, b)
    PROVE  Accounting'
<1>1. /\ pc' = [pc EXCEPT ![p] = "sendV"] /\ arg' = [arg EXCEPT ![p] = q]
      /\ UNCHANGED <<sem, status>> /\ Enqueue(q, [src |-> p, body |-> b])
  BY DEF Post, schedVars
<1>2. pc \in [Procs -> PC] /\ arg \in [Procs -> Filters]
  BY DEF TypeOK
<1>3. \A r \in Procs : Len(rec'[r]) = Len(rec[r]) + (IF r = q THEN 1 ELSE 0)
  BY <1>1, EnqueueCounts
<1>4. p \notin Pending(q)
  BY DEF Pending
<1>5. \A r \in Procs : Pending(r)' = IF r = q THEN Pending(r) \cup {p} ELSE Pending(r)
  BY <1>1, <1>2 DEF Pending
<1>6. \A r \in Procs : Cardinality(Pending(r)') = Cardinality(Pending(r)) + (IF r = q THEN 1 ELSE 0)
  BY <1>4, <1>5, PendingFinite, FS_AddElement
<1>7. \A r \in Procs : GrantCount(r)' = GrantCount(r)
  BY <1>1, <1>2 DEF GrantCount, Granted
<1> SUFFICES ASSUME NEW r \in Procs
             PROVE  (sem[r].token + GrantCount(r) + Cardinality(Pending(r)) = Len(rec[r]))'
  BY DEF Accounting
<1> DEFINE d == IF r = q THEN 1 ELSE 0
<1>8. d \in Int /\ 0 \in Int
  OBVIOUS
<1>9. /\ Len(rec'[r]) = Len(rec[r]) + d
      /\ Cardinality(Pending(r)') = Cardinality(Pending(r)) + d
  BY <1>3, <1>6
<1> HIDE DEF d
<1>10. Len(rec'[r]) = Len(rec[r]) + 0 + d
  BY <1>8, <1>9, CountTypes
<1>11. sem'[r].token = sem[r].token /\ GrantCount(r)' = GrantCount(r)
  BY <1>1, <1>7
<1>12. sem'[r].token \in Int /\ GrantCount(r)' \in Int
  BY <1>11, CountTypes
<1>13. sem'[r].token + GrantCount(r)' = sem[r].token + GrantCount(r) + 0
  BY <1>11, CountTypes
<1> QED
  BY <1>8, <1>9, <1>10, <1>12, <1>13, CountKept

\* Sem_P: a token becomes a granted token, or nothing is counted.
LEMMA SemPAccounting ==
    ASSUME TypeOK, Shape, Accounting, NEW p \in Procs, SemP(p)
    PROVE  Accounting'
<1>1. /\ pc[p] = "P" /\ UNCHANGED <<rec, arg>>
      /\ pc \in [Procs -> PC] /\ sem \in [Procs -> SemType(Procs)] /\ status \in [Procs -> Status]
  BY DEF SemP, TypeOK, SchedTypeOK
<1>2. status[p] # "sleeping"
  BY <1>1 DEF Shape, SleepersQueued
<1>3. \A r \in Procs : Pending(r)' = Pending(r)
  <2>1. \E x \in {"deq", "int80"} : pc' = [pc EXCEPT ![p] = x]
    BY DEF SemP, SemTake, SemSleep
  <2> QED
    BY <1>1, <2>1, PendingSame
<1>4. CASE SemTake(p)
  <2>1. \A r \in Procs : sem'[r].token = sem[r].token - (IF r = p THEN 1 ELSE 0)
    BY <1>1, <1>4, CountTypes DEF SemTake, PTake, SemType
  <2>2. \A r \in Procs : GrantCount(r)' = GrantCount(r) + (IF r = p THEN 1 ELSE 0)
    BY <1>1, <1>2, <1>4 DEF SemTake, GrantCount, Granted
  <2> QED
    BY <1>1, <1>3, <2>1, <2>2, CountTypes DEF Accounting
<1>5. CASE SemSleep(p)
  <2>1. \A r \in Procs : sem'[r].token = sem[r].token
    BY <1>1, <1>5 DEF SemSleep, PQueue, SemType
  <2>2. \A r \in Procs : GrantCount(r)' = GrantCount(r)
    BY <1>1, <1>2, <1>5 DEF SemSleep, PSleep, GrantCount, Granted
  <2> QED
    BY <1>1, <1>3, <2>1, <2>2, CountTypes DEF Accounting
<1> QED
  BY <1>4, <1>5 DEF SemP

\* The schedule() of int $0x80 changes none of the counts.
LEMMA YieldAccounting ==
    ASSUME TypeOK, Shape, Accounting, NEW p \in Procs, Yield(p)
    PROVE  Accounting'
<1>1. /\ pc[p] = "cli" /\ pc' = [pc EXCEPT ![p] = "deq"] /\ UNCHANGED <<sem, rec, arg>>
      /\ Schedule(status, needSched)
  BY DEF Yield
<1>2. \A r \in Procs : status[r] = "sleeping" <=> status'[r] = "sleeping"
  <2>1. status \in [Procs -> Status] /\ needSched \in BOOLEAN /\ SchedTypeOK
    BY DEF TypeOK, SchedTypeOK
  <2> QED
    BY <1>1, <2>1, ScheduleFacts
<1>3. pc \in [Procs -> PC]
  BY DEF TypeOK
<1> QED
  BY <1>1, <1>2, <1>3, AccountingSame DEF Granted

(***************************************************************************)
(* receive finds a message whenever it comes back from Sem_P: the process  *)
(* that has the processor there is not asleep, so that it has been granted *)
(* a token, and a granted token is one of the messages linked.             *)
(***************************************************************************)
LEMMA DequeueFinds ==
    ASSUME TypeOK, Shape, Accounting, halt = "none", pc[current] = "deq"
    PROVE  status[current] # "sleeping" /\ rec[current] # <<>>
<1>1. current \in Procs
  BY DEF TypeOK, SchedTypeOK
<1>2. status[current] # "sleeping"
  BY DEF Shape, SleeperLeaves
<1>3. GrantCount(current) = 1
  BY <1>2 DEF GrantCount, Granted
<1>4. Len(rec[current]) # 0
  BY <1>1, <1>3, CountTypes DEF Accounting
<1> QED
  BY <1>2, <1>4, EmptySeq

\* receive takes a message and gives up the granted token; it finds one.
LEMMA DequeueAccounting ==
    ASSUME TypeOK, Shape, Accounting, halt = "none", Dequeue(current)
    PROVE  Accounting' /\ halt' = "none"
<1> DEFINE p == current
<1>1. /\ p \in Procs /\ pc \in [Procs -> PC] /\ rec \in [Procs -> Seq(Slots)]
      /\ pc[p] = "deq" /\ UNCHANGED <<status, sem, arg>>
  BY DEF TypeOK, SchedTypeOK, Dequeue
<1>2. status[p] # "sleeping" /\ rec[p] # <<>>
  BY <1>1, DequeueFinds
<1>3. /\ rec' = [rec EXCEPT ![p] = Tail(@)] /\ halt' = halt
      /\ \E x \in {"copy", "P"} : pc' = [pc EXCEPT ![p] = x]
  BY <1>2 DEF Dequeue, Accept, PutAside
<1> HIDE DEF p
<1>4. \A r \in Procs : Len(rec'[r]) = Len(rec[r]) + (IF r = p THEN -1 ELSE 0)
  <2>1. Len(Tail(rec[p])) = Len(rec[p]) - 1 /\ Len(rec[p]) \in Nat
    BY <1>1, <1>2, HeadTailProperties, LenProperties
  <2>2. Len(Tail(rec[p])) = Len(rec[p]) + (-1)
    BY <2>1
  <2>3. \A r \in Procs : r # p => rec'[r] = rec[r] /\ Len(rec[r]) \in Nat
    BY <1>1, <1>3, LenProperties
  <2>4. rec'[p] = Tail(rec[p])
    BY <1>1, <1>3
  <2>5. \A r \in Procs : r # p => Len(rec'[r]) = Len(rec[r]) + 0
    BY <2>3
  <2> QED
    BY <2>2, <2>4, <2>5
<1>5. \A r \in Procs : Pending(r)' = Pending(r)
  BY <1>1, <1>3, PendingSame
<1>6. \A r \in Procs : GrantCount(r)' = GrantCount(r) + (IF r = p THEN -1 ELSE 0)
  BY <1>1, <1>2, <1>3 DEF GrantCount, Granted
<1> SUFFICES ASSUME NEW r \in Procs
             PROVE  (sem[r].token + GrantCount(r) + Cardinality(Pending(r)) = Len(rec[r]))'
  BY <1>3 DEF Accounting, p
<1> DEFINE d == IF r = p THEN -1 ELSE 0
<1>7. d \in Int /\ 0 \in Int
  OBVIOUS
<1>8. Len(rec'[r]) = Len(rec[r]) + d /\ GrantCount(r)' = GrantCount(r) + d
  BY <1>4, <1>6
<1> HIDE DEF d
<1>9. Len(rec'[r]) = Len(rec[r]) + d + 0
  BY <1>7, <1>8, CountTypes
<1>10. sem'[r].token = sem[r].token
  BY <1>1
<1>11. sem'[r].token \in Int /\ GrantCount(r)' \in Int
  BY <1>7, <1>8, <1>10, CountTypes
<1>12. sem'[r].token + GrantCount(r)' = sem[r].token + GrantCount(r) + d
  BY <1>7, <1>8, <1>10, CountTypes
<1>13. Cardinality(Pending(r)') = Cardinality(Pending(r)) + 0
  BY <1>5, PendingFinite
<1> QED
  BY <1>7, <1>9, <1>11, <1>12, <1>13, CountKept

\* A handler links a message and counts it in one step.
LEMMA IrqPostAccounting ==
    ASSUME TypeOK, Shape, Accounting, NEW q \in Procs, NEW b,
           NEW quantum \in BOOLEAN, IrqPost(q, b, quantum)
    PROVE  Accounting'
<1>1. /\ UNCHANGED <<pc, arg>> /\ sem' = [sem EXCEPT ![q] = V(@)]
      /\ Schedule(VWake(sem[q], status), needSched \/ quantum)
      /\ Enqueue(q, [src |-> HardIntr, body |-> b])
  BY DEF IrqPost
<1>2. \A r \in Procs : status'[r] = "sleeping" <=> VWake(sem[q], status)[r] = "sleeping"
  <2> DEFINE st == VWake(sem[q], status)
  <2>1. st \in [Procs -> Status] /\ SchedTypeOK /\ Schedule(st, needSched \/ quantum)
    BY <1>1, SemTypes DEF TypeOK, SchedTypeOK
  <2> HIDE DEF st
  <2>2. \A r \in Procs : st[r] = "sleeping" <=> status'[r] = "sleeping"
    BY <2>1, ScheduleFacts
  <2> QED
    BY <2>2 DEF st
<1>3. \A r \in Procs : sem'[r].token + GrantCount(r)'
                          = sem[r].token + GrantCount(r) + (IF r = q THEN 1 ELSE 0)
  BY <1>1, <1>2, VCounts
<1>4. \A r \in Procs : Len(rec'[r]) = Len(rec[r]) + (IF r = q THEN 1 ELSE 0)
  BY <1>1, EnqueueCounts
<1>5. \A r \in Procs : Pending(r)' = Pending(r)
  BY <1>1, PendingSame
<1>6. \A r \in Procs : sem'[r].token \in Nat /\ GrantCount(r)' \in {0, 1}
  <2>1. V(sem[q]) \in SemType(Procs) /\ sem \in [Procs -> SemType(Procs)]
    BY SemTypes DEF TypeOK, SchedTypeOK
  <2> QED
    BY <1>1, <2>1 DEF SemType, GrantCount
<1> SUFFICES ASSUME NEW r \in Procs
             PROVE  (sem[r].token + GrantCount(r) + Cardinality(Pending(r)) = Len(rec[r]))'
  BY DEF Accounting
<1> DEFINE d == IF r = q THEN 1 ELSE 0
<1>7. d \in Int /\ 0 \in Int
  OBVIOUS
<1>8. /\ Len(rec'[r]) = Len(rec[r]) + d
      /\ sem'[r].token + GrantCount(r)' = sem[r].token + GrantCount(r) + d
  BY <1>3, <1>4
<1> HIDE DEF d
<1>9. Len(rec'[r]) = Len(rec[r]) + d + 0
  BY <1>7, <1>8, CountTypes
<1>10. sem'[r].token \in Int /\ GrantCount(r)' \in Int
  BY <1>6
<1>11. Cardinality(Pending(r)') = Cardinality(Pending(r)) + 0
  BY <1>5, PendingFinite
<1> QED
  BY <1>7, <1>8, <1>9, <1>10, <1>11, CountKept

\* A panic changes none of the counts.
LEMMA PoolPanicAccounting ==
    ASSUME TypeOK, Accounting, NEW q, PoolPanic(q)
    PROVE  Accounting' /\ halt' # "empty"
  BY AccountingSame DEF PoolPanic, ipcVars, Granted

\* Accounting: every step.
LEMMA StepAccounting ==
    TypeOK /\ Shape /\ Accounting /\ NoEmptyReceive /\ [Next]_vars
       => Accounting' /\ NoEmptyReceive'
<1> SUFFICES ASSUME TypeOK, Shape, Accounting, NoEmptyReceive, [Next]_vars
             PROVE  Accounting' /\ NoEmptyReceive'
  OBVIOUS
<1> DEFINE p == current
<1>1. p \in Procs /\ pc \in [Procs -> PC]
  BY DEF TypeOK, SchedTypeOK
<1>2. CASE UNCHANGED vars
  BY <1>2, AccountingSame DEF vars, schedVars, ipcVars, Granted, NoEmptyReceive
<1>3. CASE halt = "none" /\ Continue(p)
  <2>1. CASE SendV(p)
    BY <1>1, <1>3, <2>1, SendVAccounting DEF SendV, NoEmptyReceive
  <2>2. CASE SemP(p)
    BY <1>1, <1>3, <2>2, SemPAccounting DEF SemP, NoEmptyReceive
  <2>3. CASE RequestSched(p)
    BY <1>1, <2>3, AccountingSame DEF RequestSched, Granted, NoEmptyReceive
  <2>4. CASE Yield(p)
    <3>1. halt' # "empty"
      BY <1>3, <2>4 DEF Yield, Schedule, Keep, Switch, Spin
    <3> QED
      BY <1>1, <2>4, <3>1, YieldAccounting DEF NoEmptyReceive
  <2>5. CASE Dequeue(p)
    BY <1>3, <2>5, DequeueAccounting DEF NoEmptyReceive
  <2>6. CASE Copy(p)
    BY <1>1, <2>6, AccountingSame DEF Copy, schedVars, Granted, NoEmptyReceive
  <2>7. CASE Free(p)
    BY <1>1, <2>7, AccountingSame DEF Free, schedVars, Granted, NoEmptyReceive
  <2> QED
    BY <1>3, <2>1, <2>2, <2>3, <2>4, <2>5, <2>6, <2>7 DEF Continue
<1>4. CASE halt = "none" /\ Call(p)
  <2>1. ASSUME NEW q \in Procs, NEW b \in Body, SendEnqueue(p, q, b)
        PROVE  Accounting' /\ NoEmptyReceive'
    <3>1. CASE Post(p, q, b)
      BY <1>1, <2>1, <3>1, PostAccounting DEF SendEnqueue, Post, schedVars, NoEmptyReceive
    <3>2. CASE PoolPanic(q)
      BY <3>2, PoolPanicAccounting DEF NoEmptyReceive
    <3> QED
      BY <2>1, <3>1, <3>2 DEF SendEnqueue
  <2>2. ASSUME NEW f \in Filters, ReceiveIgnored(p, f)
        PROVE  Accounting' /\ NoEmptyReceive'
    BY <1>1, <2>2, AccountingSame DEF ReceiveIgnored, schedVars, Granted, NoEmptyReceive
  <2>3. ASSUME NEW f \in Filters, ReceiveNew(p, f)
        PROVE  Accounting' /\ NoEmptyReceive'
    BY <1>1, <2>3, AccountingSame DEF ReceiveNew, schedVars, Granted, NoEmptyReceive
  <2> QED
    BY <1>4, <2>1, <2>2, <2>3 DEF Call
<1>5. CASE halt = "none" /\ Interrupt
  <2>1. ASSUME NEW quantum \in BOOLEAN, Tick(quantum)
        PROVE  Accounting' /\ NoEmptyReceive'
    <3>1. \A r \in Procs : status[r] = "sleeping" <=> status'[r] = "sleeping"
      <4>1. /\ status \in [Procs -> Status] /\ SchedTypeOK
            /\ (needSched \/ quantum) \in BOOLEAN /\ Schedule(status, needSched \/ quantum)
        BY <2>1 DEF Tick, TypeOK, SchedTypeOK
      <4> QED
        BY <4>1, ScheduleFacts
    <3>2. halt' # "empty"
      BY <1>5, <2>1 DEF Tick, Schedule, Keep, Switch, Spin
    <3> QED
      BY <2>1, <3>1, <3>2, AccountingSame DEF Tick, ipcVars, Granted, NoEmptyReceive
  <2>2. ASSUME NEW q \in IrqTo, NEW b \in Body, NEW quantum \in BOOLEAN,
             DeviceIrq(q, b, quantum)
        PROVE  Accounting' /\ NoEmptyReceive'
    <3>1. q \in Procs
      BY ClientAssumption
    <3>2. CASE IrqPost(q, b, quantum)
      <4>1. halt' # "empty"
        BY <1>5, <3>2 DEF IrqPost, Schedule, Keep, Switch, Spin
      <4> QED
        BY <3>1, <3>2, <4>1, IrqPostAccounting DEF NoEmptyReceive
    <3>3. CASE PoolPanic(q)
      BY <3>3, PoolPanicAccounting DEF NoEmptyReceive
    <3> QED
      BY <2>2, <3>2, <3>3 DEF DeviceIrq
  <2> QED
    BY <1>5, <2>1, <2>2 DEF Interrupt
<1> QED
  BY <1>2, <1>3, <1>4, <1>5 DEF Next, Halted

\* At boot there are no messages and no tokens.
LEMMA InitAccounting == Init => Accounting /\ NoEmptyReceive
<1> SUFFICES ASSUME Init PROVE Accounting /\ NoEmptyReceive
  OBVIOUS
<1>1. \A q \in Procs : sem[q].token = 0 /\ rec[q] = <<>> /\ pc[q] = "user"
  BY DEF Init, SemInit
<1>2. \A q \in Procs : Pending(q) = {} /\ GrantCount(q) = 0
  BY <1>1 DEF Pending, GrantCount, Granted
<1>3. \A q \in Procs : Cardinality(Pending(q)) = 0 /\ Len(rec[q]) = 0
  <2>1. Cardinality({}) = 0
    BY FS_EmptySet
  <2>2. \A q \in Procs : Cardinality(Pending(q)) = 0
    BY <1>2, <2>1
  <2>3. \A q \in Procs : Len(rec[q]) = 0
    BY <1>1
  <2> QED
    BY <2>2, <2>3
<1>4. Accounting
  BY <1>1, <1>2, <1>3 DEF Accounting
<1>5. NoEmptyReceive
  BY DEF NoEmptyReceive, Init, SchedInit
<1> QED
  BY <1>4, <1>5

(***************************************************************************)
(* The inductive invariant IInv.                                           *)
(***************************************************************************)
THEOREM IpcInvariant == Spec => []IInv
<1>1. Init => IInv
  BY InitType, InitShape, InitAccounting DEF IInv
<1>2. IInv /\ [Next]_vars => IInv'
  BY StepType, StepShape, StepAccounting DEF IInv
<1> QED
  BY <1>1, <1>2, PTL DEF Spec

\* Tokens, granted tokens and senders before Sem_V add up to the messages.
THEOREM MessagesCounted == Spec => []Accounting
<1>1. IInv => Accounting
  BY DEF IInv
<1> QED
  BY <1>1, IpcInvariant, PTL

\* The panic "Message receive is empty, semephore is wrong!" is unreachable.
THEOREM ReceiveFindsMessage == Spec => []NoEmptyReceive
<1>1. IInv => NoEmptyReceive
  BY DEF IInv
<1> QED
  BY <1>1, IpcInvariant, PTL

(***************************************************************************)
(* A process asleep in receive with a message linked has a sender between  *)
(* the two sections of send: that sender's Sem_V will wake it.             *)
(***************************************************************************)
THEOREM WakeupNotLost == Spec => []NoLostWakeup
<1>1. IInv => NoLostWakeup
  <2> SUFFICES ASSUME TypeOK, SleepersQueued, Accounting,
                      NEW q \in Procs, status[q] = "sleeping", rec[q] # <<>>
               PROVE  Pending(q) # {}
    BY DEF IInv, Shape, NoLostWakeup
  <2>1. sem[q].token = 0 /\ GrantCount(q) = 0
    BY DEF SleepersQueued, GrantCount, Granted
  <2>2. Len(rec[q]) # 0
    BY EmptySeq DEF TypeOK
  <2>3. Cardinality(Pending(q)) # 0
    BY <2>1, <2>2, CountTypes DEF Accounting
  <2> QED
    BY <2>3, FS_EmptySet
<1> QED
  BY <1>1, IpcInvariant, PTL
-----------------------------------------------------------------------------
(***************************************************************************)
(* The slots of a pool.  Owned says of Msg_rec, Msg_ign and the slot held  *)
(* what SlotOwnership says of all three behind one another, and that a     *)
(* slot in use has a message.                                              *)
(***************************************************************************)
HeldSet(p) == IF held[p] = NoSlot THEN {} ELSE {held[p]}

Owned(p) ==
    /\ IsInjective(rec[p]) /\ IsInjective(ign[p])
    /\ ToSet(rec[p]) \cap ToSet(ign[p]) = {}
    /\ held[p] \notin ToSet(rec[p]) \cup ToSet(ign[p])
    /\ ToSet(rec[p]) \cup ToSet(ign[p]) \cup HeldSet(p) = InUse(p)
    /\ \A s \in InUse(p) : msg[p][s] \in Message

AllOwned == \A p \in Procs : Owned(p)

\* Owned says what SlotOwnership says.
LEMMA OwnedLists ==
    ASSUME TypeOK, AllOwned
    PROVE  SlotOwnership
<1> SUFFICES ASSUME NEW p \in Procs
             PROVE  IsInjective(Linked(p)) /\ ToSet(Linked(p)) = InUse(p)
  BY DEF SlotOwnership, InUse
<1> DEFINE h == IF held[p] = NoSlot THEN <<>> ELSE <<held[p]>>
           l == rec[p] \o ign[p]
<1>1. /\ rec[p] \in Seq(Slots) /\ ign[p] \in Seq(Slots) /\ held[p] \in Slots \cup {NoSlot}
      /\ Owned(p)
  BY DEF TypeOK, AllOwned
<1>2. /\ l \in Seq(Slots)
      /\ IsInjective(l)
      /\ ToSet(l) = ToSet(rec[p]) \cup ToSet(ign[p])
  BY <1>1, Concatenated DEF Owned
<1>3. h \in Seq(Slots) /\ IsInjective(h) /\ ToSet(h) = HeldSet(p)
  <2>1. CASE held[p] = NoSlot
    BY <2>1, EmptyQueue DEF HeldSet, IsInjective
  <2>2. CASE held[p] # NoSlot
    BY <1>1, <2>2, SingletonQueue DEF HeldSet, IsInjective
  <2> QED
    BY <2>1, <2>2
<1>4. ToSet(l) \cap ToSet(h) = {}
  BY <1>1, <1>2, <1>3 DEF Owned, HeldSet
<1> HIDE DEF h, l
<1>5. /\ IsInjective(l \o h)
      /\ ToSet(l \o h) = ToSet(l) \cup ToSet(h)
  BY <1>2, <1>3, <1>4, Concatenated
<1>6. Linked(p) = l \o h
  BY DEF Linked, h, l
<1> QED
  BY <1>1, <1>2, <1>3, <1>5, <1>6 DEF Owned

\* What a step does not touch stays owned.
LEMMA OwnedKept ==
    ASSUME NEW p, Owned(p), rec'[p] = rec[p], ign'[p] = ign[p], held'[p] = held[p],
           free'[p] = free[p], msg'[p] = msg[p]
    PROVE  Owned(p)'
  BY DEF Owned, HeldSet, InUse

\* The first section of send: the slot found by Find_Empty_Message is linked.
LEMMA EnqueueOwned ==
    ASSUME TypeOK, AllOwned, NEW q \in Procs, NEW m \in Message, Enqueue(q, m),
           UNCHANGED <<ign, held>>
    PROVE  AllOwned'
<1> SUFFICES ASSUME NEW p \in Procs PROVE Owned(p)'
  BY DEF AllOwned
<1>1. PICK s \in Slots : /\ free[q][s]
                         /\ free' = [free EXCEPT ![q][s] = FALSE]
                         /\ msg' = [msg EXCEPT ![q][s] = m]
                         /\ rec' = [rec EXCEPT ![q] = Append(@, s)]
  BY DEF Enqueue, IsFirstEmpty
<1>2. /\ free \in [Procs -> [Slots -> BOOLEAN]]
      /\ msg \in [Procs -> [Slots -> Message \cup {Nil}]]
      /\ rec \in [Procs -> Seq(Slots)]
      /\ Owned(p)
  BY DEF TypeOK, AllOwned
<1>3. CASE p # q
  <2>1. rec'[p] = rec[p] /\ free'[p] = free[p] /\ msg'[p] = msg[p]
    BY <1>1, <1>2, <1>3
  <2> QED
    BY <1>2, <2>1, OwnedKept
<1>4. CASE p = q
  <2>1. s \notin InUse(p)
    BY <1>1, <1>4 DEF InUse
  <2>2. s \notin ToSet(rec[p]) \cup ToSet(ign[p]) \cup HeldSet(p)
    BY <1>2, <2>1 DEF Owned
  <2>3. /\ IsInjective(Append(rec[p], s))
        /\ ToSet(Append(rec[p], s)) = ToSet(rec[p]) \cup {s}
    BY <1>2, <2>2, Linking DEF Owned
  <2>4. rec'[p] = Append(rec[p], s)
    BY <1>1, <1>2, <1>4
  <2>5. InUse(p)' = InUse(p) \cup {s}
    BY <1>1, <1>2, <1>4 DEF InUse
  <2>6. \A x \in InUse(p) \cup {s} : msg'[p][x] \in Message
    BY <1>1, <1>2, <1>4 DEF Owned, InUse
  <2>7. held[p] # s
    BY <2>2, NoSlotFact DEF HeldSet
  <2> QED
    BY <1>2, <2>2, <2>3, <2>4, <2>5, <2>6, <2>7 DEF Owned, HeldSet
<1> QED
  BY <1>3, <1>4

\* list_delete of Msg_ign in receive.
LEMMA ReceiveIgnoredOwned ==
    ASSUME TypeOK, AllOwned, NEW r \in Procs, NEW f, ReceiveIgnored(r, f)
    PROVE  AllOwned'
<1> SUFFICES ASSUME NEW p \in Procs PROVE Owned(p)'
  BY DEF AllOwned
<1>1. PICK i \in 1 .. Len(ign[r]) : /\ held' = [held EXCEPT ![r] = ign[r][i]]
                                    /\ ign' = [ign EXCEPT ![r] = RemoveAt(@, i)]
  BY DEF ReceiveIgnored
<1>2. /\ ign \in [Procs -> Seq(Slots)] /\ held \in [Procs -> Slots \cup {NoSlot}]
      /\ Owned(p) /\ pc[r] = "user" /\ held[r] = NoSlot
      /\ UNCHANGED <<free, msg, rec>>
  BY DEF TypeOK, AllOwned, ReceiveIgnored
<1>3. CASE p # r
  BY <1>1, <1>2, <1>3, OwnedKept
<1>4. CASE p = r
  <2>1. /\ ToSet(RemoveAt(ign[p], i)) = ToSet(ign[p]) \ {ign[p][i]}
        /\ IsInjective(RemoveAt(ign[p], i))
        /\ ign[p][i] \in ToSet(ign[p])
    BY <1>1, <1>2, <1>4, Unlinking, SetOfList DEF Owned
  <2>2. ign'[p] = RemoveAt(ign[p], i) /\ held'[p] = ign[p][i]
    BY <1>1, <1>2, <1>4
  <2>3. ign[p][i] \in Slots /\ ign[p][i] # NoSlot
    BY <1>2, <1>4, ElementOfSeq, NoSlotFact
  <2>4. HeldSet(p) = {} /\ HeldSet(p)' = {ign[p][i]}
    BY <1>2, <1>4, <2>2, <2>3 DEF HeldSet
  <2>5. InUse(p)' = InUse(p)
    BY <1>2 DEF InUse
  <2> QED
    BY <1>2, <2>1, <2>2, <2>4, <2>5 DEF Owned
<1> QED
  BY <1>3, <1>4

\* The section after Sem_P: the head of Msg_rec is returned or put aside.
LEMMA DequeueOwned ==
    ASSUME TypeOK, AllOwned, NEW r \in Procs, Dequeue(r)
    PROVE  AllOwned'
<1> SUFFICES ASSUME NEW p \in Procs PROVE Owned(p)'
  BY DEF AllOwned
<1>1. /\ rec \in [Procs -> Seq(Slots)] /\ ign \in [Procs -> Seq(Slots)]
      /\ held \in [Procs -> Slots \cup {NoSlot}]
      /\ Owned(p) /\ pc[r] = "deq" /\ held[r] = NoSlot
      /\ UNCHANGED <<free, msg>>
  BY DEF TypeOK, AllOwned, Dequeue
<1>2. CASE rec[r] = <<>>
  BY <1>1, <1>2, OwnedKept DEF Dequeue, EmptyPanic
<1>3. CASE rec[r] # <<>>
  <2> DEFINE h == Head(rec[r])
             t == Tail(rec[r])
  <2>1. rec' = [rec EXCEPT ![r] = t]
    BY <1>3 DEF Dequeue
  <2>2. \/ UNCHANGED ign /\ held' = [held EXCEPT ![r] = h]
        \/ UNCHANGED held /\ ign' = [ign EXCEPT ![r] = Append(@, h)]
    BY <1>3 DEF Dequeue, Accept, PutAside
  <2>3. CASE p # r
    <3>1. rec'[p] = rec[p] /\ ign'[p] = ign[p] /\ held'[p] = held[p]
      BY <1>1, <2>1, <2>2, <2>3
    <3> QED
      BY <1>1, <3>1, OwnedKept
  <2>4. CASE p = r
    <3>1. rec[r] \in Seq(Slots) /\ IsInjective(rec[r])
      BY <1>1, <2>4 DEF Owned
    <3>2. /\ ToSet(t) = ToSet(rec[p]) \ {h} /\ IsInjective(t)
          /\ h \in ToSet(rec[p]) /\ h \in Slots
      BY <1>3, <2>4, <3>1, TailUnlinks
    <3>3. h # NoSlot /\ HeldSet(p) = {} /\ InUse(p)' = InUse(p) /\ rec'[p] = t
      BY <1>1, <2>1, <2>4, <3>2, NoSlotFact DEF HeldSet, InUse
    <3> HIDE DEF h, t
    <3>4. CASE UNCHANGED ign /\ held' = [held EXCEPT ![r] = h]
      <4>1. held'[p] = h /\ HeldSet(p)' = {h}
        BY <1>1, <2>4, <3>3, <3>4 DEF HeldSet
      <4> QED
        BY <1>1, <3>2, <3>3, <3>4, <4>1 DEF Owned
    <3>5. CASE UNCHANGED held /\ ign' = [ign EXCEPT ![r] = Append(@, h)]
      <4>1. ign'[p] = Append(ign[p], h) /\ h \notin ToSet(ign[p])
        BY <1>1, <2>4, <3>2, <3>5 DEF Owned
      <4>2. ToSet(ign'[p]) = ToSet(ign[p]) \cup {h} /\ IsInjective(ign'[p])
        BY <1>1, <2>4, <3>2, <4>1, Linking DEF Owned
      <4>3. held'[p] = NoSlot /\ NoSlot \notin ToSet(rec[p]) \cup ToSet(ign[p]) \cup {h}
        BY <1>1, <2>4, <3>2, <3>3, <3>5 DEF Owned
      <4>4. HeldSet(p)' = {}
        BY <4>3 DEF HeldSet
      <4> QED
        BY <1>1, <3>2, <3>3, <4>2, <4>3, <4>4 DEF Owned
    <3> QED
      BY <2>2, <3>4, <3>5
  <2> QED
    BY <2>3, <2>4
<1> QED
  BY <1>2, <1>3

\* ptr -> flag = TRUE gives back a slot that is on no list.
LEMMA FreeOwned ==
    ASSUME TypeOK, AllOwned, NEW r \in Procs, Free(r)
    PROVE  AllOwned'
<1> SUFFICES ASSUME NEW p \in Procs PROVE Owned(p)'
  BY DEF AllOwned
<1>1. /\ free \in [Procs -> [Slots -> BOOLEAN]]
      /\ msg \in [Procs -> [Slots -> Message \cup {Nil}]]
      /\ held \in [Procs -> Slots \cup {NoSlot}]
      /\ Owned(p) /\ held[r] \in Slots /\ held[r] # NoSlot
      /\ UNCHANGED <<rec, ign>>
      /\ free' = [free EXCEPT ![r][held[r]] = TRUE]
      /\ msg' = [msg EXCEPT ![r][held[r]] = Nil]
      /\ held' = [held EXCEPT ![r] = NoSlot]
  BY DEF TypeOK, AllOwned, Free
<1>2. CASE p # r
  <2>1. free'[p] = free[p] /\ msg'[p] = msg[p] /\ held'[p] = held[p]
    BY <1>1, <1>2
  <2> QED
    BY <1>1, <2>1, OwnedKept
<1>3. CASE p = r
  <2>1. InUse(p)' = InUse(p) \ {held[p]} /\ HeldSet(p) = {held[p]}
    BY <1>1, <1>3 DEF InUse, HeldSet
  <2>2. held'[p] = NoSlot /\ HeldSet(p)' = {}
    BY <1>1, <1>3 DEF HeldSet
  <2>3. \A x \in InUse(p)' : msg'[p][x] = msg[p][x]
    BY <1>1, <1>3, <2>1 DEF InUse
  <2>4. NoSlot \notin ToSet(rec[p]) \cup ToSet(ign[p])
    BY <1>1, NoSlotFact DEF Owned, InUse
  <2> QED
    BY <1>1, <2>1, <2>2, <2>3, <2>4 DEF Owned
<1> QED
  BY <1>2, <1>3

\* At boot every slot is free and every list empty.
LEMMA InitOwned == Init => AllOwned
<1> SUFFICES ASSUME Init, NEW p \in Procs PROVE Owned(p)
  BY DEF AllOwned
<1>1. /\ rec[p] = <<>> /\ ign[p] = <<>> /\ held[p] = NoSlot
      /\ \A s \in Slots : free[p][s]
  BY DEF Init
<1>2. ToSet(<<>>) = {} /\ IsInjective(<<>>)
  BY EmptyQueue DEF IsInjective
<1> QED
  BY <1>1, <1>2 DEF Owned, HeldSet, InUse

\* AllOwned: every step.
LEMMA StepOwned == TypeOK /\ AllOwned /\ [Next]_vars => AllOwned'
<1> SUFFICES ASSUME TypeOK, AllOwned, [Next]_vars PROVE AllOwned'
  OBVIOUS
<1> DEFINE p == current
<1>1. p \in Procs
  BY DEF TypeOK, SchedTypeOK
<1>2. ASSUME UNCHANGED <<free, msg, rec, ign, held>> PROVE AllOwned'
  BY <1>2, OwnedKept DEF AllOwned
<1>3. ASSUME Continue(p) PROVE AllOwned'
  <2>1. CASE SendV(p) \/ SemP(p) \/ RequestSched(p) \/ Yield(p) \/ Copy(p)
    BY <1>2, <2>1 DEF SendV, SemP, RequestSched, Yield, Copy
  <2> QED
    BY <1>1, <1>3, <2>1, DequeueOwned, FreeOwned DEF Continue
<1>4. ASSUME Call(p) PROVE AllOwned'
  <2>1. ASSUME NEW q \in Procs, NEW b \in Body, SendEnqueue(p, q, b) PROVE AllOwned'
    <3>1. CASE Post(p, q, b)
      <4>1. [src |-> p, body |-> b] \in Message
        BY <1>1 DEF Message, Sources
      <4> QED
        BY <3>1, <4>1, EnqueueOwned DEF Post
    <3>2. CASE PoolPanic(q)
      BY <1>2, <3>2 DEF PoolPanic, ipcVars
    <3> QED
      BY <2>1, <3>1, <3>2 DEF SendEnqueue
  <2>2. ASSUME NEW f \in Filters, ReceiveNew(p, f) PROVE AllOwned'
    BY <1>2, <2>2 DEF ReceiveNew
  <2> QED
    BY <1>1, <1>4, <2>1, <2>2, ReceiveIgnoredOwned DEF Call
<1>5. ASSUME Interrupt PROVE AllOwned'
  <2>1. ASSUME NEW quantum \in BOOLEAN, Tick(quantum) PROVE AllOwned'
    BY <1>2, <2>1 DEF Tick, ipcVars
  <2>2. ASSUME NEW q \in IrqTo, NEW b \in Body, NEW quantum \in BOOLEAN,
               DeviceIrq(q, b, quantum)
        PROVE  AllOwned'
    <3>1. q \in Procs /\ [src |-> HardIntr, body |-> b] \in Message
      BY ClientAssumption DEF Message, Sources
    <3>2. CASE IrqPost(q, b, quantum)
      BY <3>1, <3>2, EnqueueOwned DEF IrqPost
    <3>3. CASE PoolPanic(q)
      BY <1>2, <3>3 DEF PoolPanic, ipcVars
    <3> QED
      BY <2>2, <3>2, <3>3 DEF DeviceIrq
  <2> QED
    BY <1>5, <2>1, <2>2 DEF Interrupt
<1>6. CASE UNCHANGED vars
  BY <1>2, <1>6 DEF vars, ipcVars
<1> QED
  BY <1>2, <1>3, <1>4, <1>5, <1>6 DEF Next, Halted

(***************************************************************************)
(* Every slot of every pool is free, linked once, or about to be given     *)
(* back, whoever is interrupted where.                                     *)
(***************************************************************************)
THEOREM SlotsOwned == Spec => []SlotOwnership
<1>1. Init => AllOwned
  BY InitOwned
<1>2. TypeOK /\ AllOwned /\ [Next]_vars => AllOwned'
  BY StepOwned
<1>3. TypeOK /\ AllOwned => SlotOwnership
  BY OwnedLists
<1> QED
  BY <1>1, <1>2, <1>3, TypeCorrect, PTL DEF Spec
-----------------------------------------------------------------------------
(***************************************************************************)
(* The messages of a mailbox, as Contents has them: those in the slots g   *)
(* (Msg_ign) and then those in the slots r (Msg_rec) of the pool m.        *)
(***************************************************************************)
Texts(g, r, m) == [i \in 1 .. Len(g \o r) |-> m[(g \o r)[i]]]

\* The i-th message is in the i-th slot of Msg_ign, or in one of Msg_rec.
LEMMA TextsFacts ==
    ASSUME NEW g \in Seq(Slots), NEW r \in Seq(Slots), NEW m,
           \A s \in ToSet(g) \cup ToSet(r) : m[s] \in Message
    PROVE  /\ Texts(g, r, m) \in Seq(Message)
           /\ Len(Texts(g, r, m)) = Len(g) + Len(r)
           /\ Len(g) \in Nat /\ Len(r) \in Nat
           /\ \A i \in 1 .. Len(g) + Len(r) :
                 Texts(g, r, m)[i] = IF i <= Len(g) THEN m[g[i]] ELSE m[r[i - Len(g)]]
<1>1. /\ Len(g \o r) = Len(g) + Len(r) /\ Len(g) \in Nat /\ Len(r) \in Nat
      /\ \A i \in 1 .. Len(g) + Len(r) : (g \o r)[i] = IF i <= Len(g) THEN g[i] ELSE r[i - Len(g)]
  BY ConcatProperties, LenProperties
<1>2. \A i \in 1 .. Len(g) + Len(r) :
         Texts(g, r, m)[i] = IF i <= Len(g) THEN m[g[i]] ELSE m[r[i - Len(g)]]
  BY <1>1 DEF Texts
<1>3. ToSet(g) = {g[i] : i \in 1 .. Len(g)} /\ ToSet(r) = {r[i] : i \in 1 .. Len(r)}
  BY SetOfList
<1>4. \A i \in 1 .. Len(g) + Len(r) : ~(i <= Len(g)) => i - Len(g) \in 1 .. Len(r)
  BY <1>1
<1>5. \A i \in 1 .. Len(g) + Len(r) : Texts(g, r, m)[i] \in Message
  <2> SUFFICES ASSUME NEW i \in 1 .. Len(g) + Len(r) PROVE Texts(g, r, m)[i] \in Message
    OBVIOUS
  <2>1. CASE i <= Len(g)
    <3>1. g[i] \in ToSet(g)
      BY <1>1, <1>3, <2>1
    <3> QED
      BY <1>2, <2>1, <3>1
  <2>2. CASE ~(i <= Len(g))
    <3>1. r[i - Len(g)] \in ToSet(r)
      BY <1>3, <1>4, <2>2
    <3> QED
      BY <1>2, <2>2, <3>1
  <2> QED
    BY <2>1, <2>2
<1>6. Texts(g, r, m) \in [1 .. Len(g) + Len(r) -> Message]
  BY <1>1, <1>5 DEF Texts
<1>7. Len(g) + Len(r) \in Nat
  BY <1>1
<1>8. Texts(g, r, m) \in Seq(Message) /\ Len(Texts(g, r, m)) = Len(g) + Len(r)
  BY <1>6, <1>7, FunctionIsSeq
<1> QED
  BY <1>1, <1>2, <1>8

\* What the other slots of the pool hold does not matter.
LEMMA TextsSame ==
    ASSUME NEW g \in Seq(Slots), NEW r \in Seq(Slots), NEW m, NEW n,
           \A s \in ToSet(g) \cup ToSet(r) : m[s] \in Message /\ n[s] = m[s]
    PROVE  Texts(g, r, n) = Texts(g, r, m)
<1>1. ToSet(g) = {g[i] : i \in 1 .. Len(g)} /\ ToSet(r) = {r[i] : i \in 1 .. Len(r)}
  BY SetOfList
<1>2. /\ Texts(g, r, m) \in Seq(Message) /\ Texts(g, r, n) \in Seq(Message)
      /\ Len(Texts(g, r, m)) = Len(g) + Len(r) /\ Len(Texts(g, r, n)) = Len(g) + Len(r)
      /\ Len(g) \in Nat /\ Len(r) \in Nat
      /\ \A i \in 1 .. Len(g) + Len(r) :
            /\ Texts(g, r, m)[i] = IF i <= Len(g) THEN m[g[i]] ELSE m[r[i - Len(g)]]
            /\ Texts(g, r, n)[i] = IF i <= Len(g) THEN n[g[i]] ELSE n[r[i - Len(g)]]
  BY TextsFacts
<1>3. \A i \in 1 .. Len(g) + Len(r) : Texts(g, r, m)[i] = Texts(g, r, n)[i]
  <2> SUFFICES ASSUME NEW i \in 1 .. Len(g) + Len(r)
               PROVE  Texts(g, r, m)[i] = Texts(g, r, n)[i]
    OBVIOUS
  <2>1. CASE i <= Len(g)
    <3>1. g[i] \in ToSet(g)
      BY <1>1, <1>2, <2>1
    <3> QED
      BY <1>2, <2>1, <3>1
  <2>2. CASE ~(i <= Len(g))
    <3>1. i - Len(g) \in 1 .. Len(r)
      BY <1>2, <2>2
    <3>2. r[i - Len(g)] \in ToSet(r)
      BY <1>1, <3>1
    <3> QED
      BY <1>2, <2>2, <3>2
  <2> QED
    BY <2>1, <2>2
<1> QED
  BY <1>2, <1>3, SeqEqual

\* A slot linked at the end of Msg_rec puts its message at the end.
LEMMA TextsAppend ==
    ASSUME NEW g \in Seq(Slots), NEW r \in Seq(Slots), NEW m, NEW s \in Slots,
           \A x \in ToSet(g) \cup ToSet(r) \cup {s} : m[x] \in Message
    PROVE  Texts(g, Append(r, s), m) = Append(Texts(g, r, m), m[s])
<1> DEFINE a == Append(r, s)
           u == Texts(g, a, m)
           v == Texts(g, r, m)
<1>1. /\ a \in Seq(Slots) /\ Len(a) = Len(r) + 1
      /\ \A i \in 1 .. Len(r) : a[i] = r[i]
      /\ a[Len(r) + 1] = s
  BY AppendProperties
<1>2. ToSet(a) = ToSet(r) \cup {s}
  <2>1. /\ ToSet(a) = {a[i] : i \in 1 .. Len(a)}
        /\ ToSet(r) = {r[i] : i \in 1 .. Len(r)} /\ Len(r) \in Nat
    BY <1>1, SetOfList
  <2>2. 1 .. Len(a) = (1 .. Len(r)) \cup {Len(r) + 1}
    BY <1>1, <2>1
  <2> QED
    BY <1>1, <2>1, <2>2
<1> HIDE DEF a
<1>3. /\ v \in Seq(Message) /\ Len(v) = Len(g) + Len(r)
      /\ Len(g) \in Nat /\ Len(r) \in Nat
      /\ \A i \in 1 .. Len(g) + Len(r) : v[i] = IF i <= Len(g) THEN m[g[i]] ELSE m[r[i - Len(g)]]
  BY TextsFacts
<1>4. /\ u \in Seq(Message) /\ Len(u) = Len(g) + Len(a)
      /\ \A i \in 1 .. Len(g) + Len(a) : u[i] = IF i <= Len(g) THEN m[g[i]] ELSE m[a[i - Len(g)]]
  <2>1. a \in Seq(Slots)
    BY <1>1
  <2>2. \A x \in ToSet(g) \cup ToSet(a) : m[x] \in Message
    BY <1>2
  <2> QED
    BY <2>1, <2>2, TextsFacts
<1> HIDE DEF u, v
<1>5. /\ Append(v, m[s]) \in Seq(Message) /\ Len(Append(v, m[s])) = Len(v) + 1
      /\ \A i \in 1 .. Len(v) : Append(v, m[s])[i] = v[i]
      /\ Append(v, m[s])[Len(v) + 1] = m[s]
  BY <1>3, AppendProperties
<1>6. ASSUME NEW i \in 1 .. Len(u) PROVE u[i] = Append(v, m[s])[i]
  <2> Len(u) = Len(g) + Len(r) + 1 /\ Len(v) = Len(g) + Len(r)
    BY <1>1, <1>3, <1>4
  <2> i \in 1 .. Len(g) + Len(a) /\ Len(g) \in Nat /\ Len(r) \in Nat
    BY <1>3, <1>4
  <2>1. CASE i <= Len(g)
    <3>1. i \in 1 .. Len(g) + Len(r) /\ i \in 1 .. Len(v)
      BY <2>1
    <3> QED
      BY <1>3, <1>4, <1>5, <2>1, <3>1
  <2>2. CASE ~(i <= Len(g)) /\ i # Len(u)
    <3>1. i \in 1 .. Len(g) + Len(r) /\ i - Len(g) \in 1 .. Len(r)
      BY <2>2
    <3>2. u[i] = m[a[i - Len(g)]] /\ v[i] = m[r[i - Len(g)]]
      BY <1>1, <1>3, <1>4, <2>2, <3>1
    <3> QED
      BY <1>1, <1>3, <1>5, <3>1, <3>2
  <2>3. CASE i = Len(u)
    <3>1. i = Len(v) + 1 /\ i - Len(g) = Len(r) + 1 /\ ~(i <= Len(g)) /\ i \in 1 .. Len(g) + Len(a)
      BY <1>1, <1>3, <1>4, <2>3
    <3>2. u[i] = m[a[Len(r) + 1]]
      BY <1>4, <3>1
    <3> QED
      BY <1>1, <1>5, <3>1, <3>2
  <2> QED
    BY <2>1, <2>2, <2>3
<1>7. Len(u) = Len(Append(v, m[s]))
  BY <1>1, <1>3, <1>4, <1>5
<1> QED
  BY <1>4, <1>5, <1>6, <1>7, SeqEqual DEF u, v, a

\* The i-th slot of Msg_ign unlinked takes the i-th message out.
LEMMA TextsIgnored ==
    ASSUME NEW g \in Seq(Slots), NEW r \in Seq(Slots), NEW m, NEW k \in 1 .. Len(g),
           \A s \in ToSet(g) \cup ToSet(r) : m[s] \in Message
    PROVE  Texts(RemoveAt(g, k), r, m) = RemoveAt(Texts(g, r, m), k)
<1> DEFINE a == RemoveAt(g, k)
           u == Texts(a, r, m)
           v == Texts(g, r, m)
           w == RemoveAt(v, k)
<1>1. /\ a \in Seq(Slots) /\ Len(a) = Len(g) - 1
      /\ \A i \in 1 .. Len(g) - 1 : a[i] = IF i < k THEN g[i] ELSE g[i + 1]
  BY RemoveAtElements
<1>2. ToSet(a) \subseteq ToSet(g)
  <2>1. /\ ToSet(a) = {a[i] : i \in 1 .. Len(a)}
        /\ ToSet(g) = {g[i] : i \in 1 .. Len(g)} /\ Len(g) \in Nat
    BY <1>1, SetOfList
  <2> SUFFICES ASSUME NEW i \in 1 .. Len(g) - 1 PROVE a[i] \in ToSet(g)
    BY <1>1, <2>1
  <2>2. i \in 1 .. Len(g) /\ i + 1 \in 1 .. Len(g)
    BY <2>1
  <2> QED
    BY <1>1, <2>1, <2>2
<1>3. /\ v \in Seq(Message) /\ Len(v) = Len(g) + Len(r)
      /\ Len(g) \in Nat /\ Len(r) \in Nat
      /\ \A i \in 1 .. Len(g) + Len(r) : v[i] = IF i <= Len(g) THEN m[g[i]] ELSE m[r[i - Len(g)]]
  BY TextsFacts
<1> HIDE DEF a
<1>4. /\ u \in Seq(Message) /\ Len(u) = Len(a) + Len(r)
      /\ \A i \in 1 .. Len(a) + Len(r) : u[i] = IF i <= Len(a) THEN m[a[i]] ELSE m[r[i - Len(a)]]
  <2>1. a \in Seq(Slots)
    BY <1>1
  <2>2. \A x \in ToSet(a) \cup ToSet(r) : m[x] \in Message
    BY <1>2
  <2> QED
    BY <2>1, <2>2, TextsFacts
<1> HIDE DEF u, v
<1>5. k \in 1 .. Len(v)
  BY <1>3
<1>6. /\ w \in Seq(Message) /\ Len(w) = Len(v) - 1
      /\ \A i \in 1 .. Len(v) - 1 : w[i] = IF i < k THEN v[i] ELSE v[i + 1]
  BY <1>3, <1>5, RemoveAtElements
<1> HIDE DEF w
<1>7. ASSUME NEW i \in 1 .. Len(u) PROVE u[i] = w[i]
  <2>1. i \in 1 .. Len(g) + Len(r) - 1 /\ i \in 1 .. Len(v) - 1 /\ i \in 1 .. Len(a) + Len(r)
    BY <1>1, <1>3, <1>4
  <2>2. CASE i < k
    <3>1. u[i] = m[a[i]] /\ a[i] = g[i] /\ w[i] = v[i] /\ v[i] = m[g[i]]
      BY <1>1, <1>3, <1>4, <1>6, <2>1, <2>2
    <3> QED
      BY <3>1
  <2>3. CASE ~(i < k) /\ i <= Len(g) - 1
    <3>1. u[i] = m[a[i]] /\ a[i] = g[i + 1] /\ w[i] = v[i + 1]
      BY <1>1, <1>3, <1>4, <1>6, <2>1, <2>3
    <3>2. v[i + 1] = m[g[i + 1]]
      BY <1>3, <2>1, <2>3
    <3> QED
      BY <3>1, <3>2
  <2>4. CASE ~(i < k) /\ ~(i <= Len(g) - 1)
    <3>1. u[i] = m[r[i - Len(a)]] /\ w[i] = v[i + 1]
      BY <1>1, <1>4, <1>6, <2>1, <2>4
    <3>2. v[i + 1] = m[r[(i + 1) - Len(g)]] /\ (i + 1) - Len(g) = i - Len(a)
      BY <1>1, <1>3, <2>1, <2>4
    <3> QED
      BY <3>1, <3>2
  <2> QED
    BY <2>2, <2>3, <2>4
<1>8. Len(u) = Len(w)
  BY <1>1, <1>3, <1>4, <1>6
<1> QED
  BY <1>4, <1>6, <1>7, <1>8, SeqEqual DEF u, v, w, a

\* The head of Msg_rec has the first message behind those of Msg_ign.
LEMMA TextsTail ==
    ASSUME NEW g \in Seq(Slots), NEW r \in Seq(Slots), NEW m, r # <<>>,
           \A s \in ToSet(g) \cup ToSet(r) : m[s] \in Message
    PROVE  /\ Len(g) + 1 \in 1 .. Len(Texts(g, r, m))
           /\ Texts(g, r, m)[Len(g) + 1] = m[Head(r)]
           /\ Texts(g, Tail(r), m) = RemoveAt(Texts(g, r, m), Len(g) + 1)
<1> DEFINE a == Tail(r)
           u == Texts(g, a, m)
           v == Texts(g, r, m)
           k == Len(g) + 1
           w == RemoveAt(v, k)
<1>1. /\ a \in Seq(Slots) /\ Len(a) = Len(r) - 1
      /\ \A i \in 1 .. Len(r) - 1 : a[i] = r[i + 1]
      /\ Head(r) = r[1] /\ Len(r) # 0
  BY HeadTailProperties, EmptySeq, TailUnlinks
<1>2. ToSet(a) \subseteq ToSet(r)
  <2>1. /\ ToSet(a) = {a[i] : i \in 1 .. Len(a)}
        /\ ToSet(r) = {r[i] : i \in 1 .. Len(r)} /\ Len(r) \in Nat
    <3> a \in Seq(Slots)
      BY <1>1
    <3> HIDE DEF a
    <3> QED
      BY SetOfList
  <2> SUFFICES ASSUME NEW i \in 1 .. Len(r) - 1 PROVE a[i] \in ToSet(r)
    BY <1>1, <2>1
  <2>2. i + 1 \in 1 .. Len(r)
    BY <2>1
  <2> QED
    BY <1>1, <2>1, <2>2
<1>3. /\ v \in Seq(Message) /\ Len(v) = Len(g) + Len(r)
      /\ Len(g) \in Nat /\ Len(r) \in Nat
      /\ \A i \in 1 .. Len(g) + Len(r) : v[i] = IF i <= Len(g) THEN m[g[i]] ELSE m[r[i - Len(g)]]
  BY TextsFacts
<1> HIDE DEF a
<1>4. /\ u \in Seq(Message) /\ Len(u) = Len(g) + Len(a)
      /\ \A i \in 1 .. Len(g) + Len(a) : u[i] = IF i <= Len(g) THEN m[g[i]] ELSE m[a[i - Len(g)]]
  <2>1. a \in Seq(Slots)
    BY <1>1
  <2>2. \A x \in ToSet(g) \cup ToSet(a) : m[x] \in Message
    BY <1>2
  <2> QED
    BY <2>1, <2>2, TextsFacts
<1> HIDE DEF u, v
<1>5. k \in 1 .. Len(v) /\ v[k] = m[Head(r)]
  <2>1. k \in 1 .. Len(g) + Len(r) /\ ~(k <= Len(g)) /\ k - Len(g) = 1
    BY <1>1, <1>3
  <2> QED
    BY <1>1, <1>3, <2>1
<1>6. /\ w \in Seq(Message) /\ Len(w) = Len(v) - 1
      /\ \A i \in 1 .. Len(v) - 1 : w[i] = IF i < k THEN v[i] ELSE v[i + 1]
  BY <1>3, <1>5, RemoveAtElements
<1> HIDE DEF w
<1>7. ASSUME NEW i \in 1 .. Len(u) PROVE u[i] = w[i]
  <2>1. i \in 1 .. Len(g) + Len(r) - 1 /\ i \in 1 .. Len(v) - 1 /\ i \in 1 .. Len(g) + Len(a)
    BY <1>1, <1>3, <1>4
  <2>2. CASE i <= Len(g)
    <3>1. u[i] = m[g[i]] /\ w[i] = v[i] /\ v[i] = m[g[i]]
      BY <1>3, <1>4, <1>6, <2>1, <2>2
    <3> QED
      BY <3>1
  <2>3. CASE ~(i <= Len(g))
    <3>1. /\ i - Len(g) \in 1 .. Len(r) - 1 /\ (i + 1) - Len(g) = (i - Len(g)) + 1
          /\ i + 1 \in 1 .. Len(g) + Len(r) /\ ~(i + 1 <= Len(g)) /\ ~(i < k)
      BY <1>1, <1>3, <2>1, <2>3
    <3>2. u[i] = m[a[i - Len(g)]] /\ w[i] = v[i + 1] /\ v[i + 1] = m[r[(i + 1) - Len(g)]]
      BY <1>3, <1>4, <1>6, <2>1, <2>3, <3>1
    <3>3. a[i - Len(g)] = r[(i + 1) - Len(g)]
      BY <1>1, <3>1
    <3> QED
      BY <3>2, <3>3
  <2> QED
    BY <2>2, <2>3
<1>8. Len(u) = Len(w)
  BY <1>1, <1>3, <1>4, <1>6
<1>9. u = w
  BY <1>4, <1>6, <1>7, <1>8, SeqEqual
<1> QED
  BY <1>5, <1>9 DEF u, v, w, a

\* The head of Msg_rec moved to the end of Msg_ign changes no message's place.
LEMMA TextsAside ==
    ASSUME NEW g \in Seq(Slots), NEW r \in Seq(Slots), NEW m, r # <<>>
    PROVE  Texts(Append(g, Head(r)), Tail(r), m) = Texts(g, r, m)
<1>1. Head(r) \in Slots /\ Tail(r) \in Seq(Slots) /\ Len(Tail(r)) = Len(r) - 1
  BY HeadTailProperties
<1>2. Append(g, Head(r)) = g \o <<Head(r)>> /\ <<Head(r)>> \in Seq(Slots)
  BY <1>1, AppendIsConcat
<1>3. <<Head(r)>> \o Tail(r) = r
  BY <1>1, HeadTailProperties
<1>4. Append(g, Head(r)) \o Tail(r) = g \o r
  BY <1>1, <1>2, <1>3, ConcatAssociative
<1> QED
  BY <1>4 DEF Texts
-----------------------------------------------------------------------------
(***************************************************************************)
(* What the linked slots hold is written by nobody: send fills a slot that *)
(* is free, and receive gives back one that is not linked.                 *)
(***************************************************************************)
LEMMA EnqueueKeeps ==
    ASSUME TypeOK, AllOwned, NEW q \in Procs, NEW m, Enqueue(q, m), NEW p \in Procs
    PROVE  /\ \A x \in InUse(p) : msg'[p][x] = msg[p][x]
           /\ p # q => msg'[p] = msg[p]
<1>1. PICK s \in Slots : free[q][s] /\ msg' = [msg EXCEPT ![q][s] = m]
  BY DEF Enqueue, IsFirstEmpty
<1>2. msg \in [Procs -> [Slots -> Message \cup {Nil}]]
  BY DEF TypeOK
<1> QED
  BY <1>1, <1>2 DEF InUse

LEMMA FreeKeeps ==
    ASSUME TypeOK, AllOwned, NEW r \in Procs, Free(r), NEW p \in Procs
    PROVE  \A x \in ToSet(rec[p]) \cup ToSet(ign[p]) : msg'[p][x] = msg[p][x]
<1>1. msg' = [msg EXCEPT ![r][held[r]] = Nil]
  BY DEF Free
<1>2. msg \in [Procs -> [Slots -> Message \cup {Nil}]] /\ Owned(p)
  BY DEF TypeOK, AllOwned
<1>3. CASE p # r
  BY <1>1, <1>2, <1>3
<1>4. CASE p = r
  <2>1. held[r] \notin ToSet(rec[p]) \cup ToSet(ign[p])
    BY <1>2, <1>4 DEF Owned
  <2>2. ToSet(rec[p]) \cup ToSet(ign[p]) \subseteq Slots
    BY <1>2 DEF Owned, InUse
  <2> QED
    BY <1>1, <1>2, <1>4, <2>1, <2>2
<1> QED
  BY <1>3, <1>4

\* The slots of the lists, by their places.
LEMMA PlacesLinked ==
    ASSUME TypeOK, AllOwned, NEW p \in Procs
    PROVE  /\ \A i \in 1 .. Len(ign[p]) : ign[p][i] \in ToSet(ign[p])
           /\ ToSet(rec[p]) \cup ToSet(ign[p]) \subseteq InUse(p)
           /\ rec[p] \in Seq(Slots) /\ ign[p] \in Seq(Slots)
           /\ \A x \in ToSet(ign[p]) \cup ToSet(rec[p]) : msg[p][x] \in Message
<1>1. rec[p] \in Seq(Slots) /\ ign[p] \in Seq(Slots) /\ Owned(p)
  BY DEF TypeOK, AllOwned
<1>2. ToSet(ign[p]) = {ign[p][i] : i \in 1 .. Len(ign[p])}
  BY <1>1, SetOfList
<1>3. ToSet(rec[p]) \cup ToSet(ign[p]) \subseteq InUse(p)
  BY <1>1 DEF Owned
<1>4. \A x \in ToSet(ign[p]) \cup ToSet(rec[p]) : msg[p][x] \in Message
  BY <1>1, <1>3 DEF Owned
<1> QED
  BY <1>1, <1>2, <1>3, <1>4

(***************************************************************************)
(* A receive that looks at Msg_rec has left nothing for itself in Msg_ign: *)
(* why the message it takes from Msg_rec is the oldest it accepts.         *)
(***************************************************************************)
Sought(p) == Receiving(p) => NoneIgnored(p, arg[p])

NothingMissed == \A p \in Procs : Sought(p)

LEMMA SoughtKept ==
    ASSUME NEW p \in Procs, Sought(p), TypeOK, AllOwned,
           ign'[p] = ign[p],
           \A x \in ToSet(ign[p]) : msg'[p][x] = msg[p][x],
           Receiving(p)' => Receiving(p) /\ arg'[p] = arg[p]
    PROVE  Sought(p)'
<1>1. \A i \in 1 .. Len(ign[p]) : msg'[p][ign[p][i]] = msg[p][ign[p][i]]
  BY PlacesLinked
<1> QED
  BY <1>1 DEF Sought, NoneIgnored

\* A message that the filter does not accept joins those it does not accept.
LEMMA PutAsideSought ==
    ASSUME TypeOK, AllOwned, NothingMissed, NEW r \in Procs, Dequeue(r),
           rec[r] # <<>>, PutAside(r)
    PROVE  Sought(r)'
<1> DEFINE h == Head(rec[r])
           g == ign[r]
<1>1. /\ rec[r] \in Seq(Slots) /\ g \in Seq(Slots) /\ pc[r] = "deq"
      /\ UNCHANGED <<msg, arg>>
      /\ ign \in [Procs -> Seq(Slots)]
  BY DEF TypeOK, Dequeue
<1>2. h \in Slots
  BY <1>1, TailUnlinks
<1>3. ~Matches(arg[r], msg[r][h].src) /\ ign'[r] = Append(g, h)
  BY <1>1 DEF PutAside
<1>4. NoneIgnored(r, arg[r])
  BY <1>1 DEF NothingMissed, Sought, Receiving
<1>5. \A i \in 1 .. Len(g) : ~Matches(arg[r], msg[r][g[i]].src)
  BY <1>4 DEF NoneIgnored
<1> HIDE DEF h, g
<1>6. /\ Len(Append(g, h)) = Len(g) + 1 /\ Len(g) \in Nat
      /\ \A i \in 1 .. Len(g) : Append(g, h)[i] = g[i]
      /\ Append(g, h)[Len(g) + 1] = h
  BY <1>1, <1>2, AppendProperties, LenProperties
<1>7. ASSUME NEW i \in 1 .. Len(Append(g, h))
      PROVE  ~Matches(arg[r], msg[r][Append(g, h)[i]].src)
  <2>1. i \in 1 .. Len(g) \/ i = Len(g) + 1
    BY <1>6
  <2> QED
    BY <1>3, <1>5, <1>6, <2>1
<1> QED
  BY <1>1, <1>3, <1>7 DEF Sought, NoneIgnored

LEMMA DequeueSought ==
    ASSUME TypeOK, AllOwned, NothingMissed, NEW r \in Procs, Dequeue(r)
    PROVE  NothingMissed'
<1> SUFFICES ASSUME NEW p \in Procs PROVE Sought(p)'
  BY DEF NothingMissed
<1>1. /\ pc \in [Procs -> PC] /\ ign \in [Procs -> Seq(Slots)]
      /\ UNCHANGED <<msg, arg>> /\ Sought(p)
  BY DEF TypeOK, Dequeue, NothingMissed
<1>2. CASE rec[r] # <<>> /\ PutAside(r) /\ p = r
  BY <1>2, PutAsideSought
<1>3. CASE rec[r] # <<>> /\ PutAside(r) /\ p # r
  <2>1. pc'[p] = pc[p] /\ ign'[p] = ign[p]
    BY <1>1, <1>3 DEF PutAside
  <2> QED
    BY <1>1, <2>1, SoughtKept DEF Receiving
<1>4. CASE rec[r] # <<>> /\ Accept(r)
  <2>1. ign' = ign /\ (Receiving(p)' => pc'[p] = pc[p])
    BY <1>1, <1>4 DEF Accept, Receiving
  <2> QED
    BY <1>1, <2>1, SoughtKept DEF Receiving
<1>5. CASE rec[r] = <<>>
  <2>1. UNCHANGED <<ign, pc>>
    BY <1>5 DEF Dequeue, EmptyPanic
  <2> QED
    BY <1>1, <2>1, SoughtKept DEF Receiving
<1> QED
  BY <1>2, <1>3, <1>4, <1>5 DEF Dequeue

LEMMA StepSought == TypeOK /\ AllOwned /\ NothingMissed /\ [Next]_vars => NothingMissed'
<1> SUFFICES ASSUME TypeOK, AllOwned, NothingMissed, [Next]_vars PROVE NothingMissed'
  OBVIOUS
<1> DEFINE p == current
<1>1. p \in Procs /\ pc \in [Procs -> PC] /\ arg \in [Procs -> Filters]
  BY DEF TypeOK, SchedTypeOK
<1>2. ASSUME UNCHANGED ign,
             \A q \in Procs : \A x \in ToSet(ign[q]) : msg'[q][x] = msg[q][x],
             \A q \in Procs : Receiving(q)' => Receiving(q) /\ arg'[q] = arg[q]
      PROVE  NothingMissed'
  BY <1>2, SoughtKept DEF NothingMissed
<1>3. ASSUME NEW q \in Procs, NEW m, Enqueue(q, m), UNCHANGED ign,
             \A r \in Procs : Receiving(r)' => Receiving(r) /\ arg'[r] = arg[r]
      PROVE  NothingMissed'
  <2>1. \A r \in Procs : \A x \in ToSet(ign[r]) : msg'[r][x] = msg[r][x]
    BY <1>3, EnqueueKeeps, PlacesLinked
  <2> QED
    BY <1>2, <1>3, <2>1
<1>4. ASSUME Continue(p) PROVE NothingMissed'
  <2>1. CASE SendV(p) \/ SemP(p) \/ RequestSched(p) \/ Yield(p) \/ Copy(p)
    <3>1. UNCHANGED <<ign, msg, arg>>
      BY <2>1 DEF SendV, SemP, RequestSched, Yield, Copy
    <3>2. \A q \in Procs : Receiving(q)' => Receiving(q)
      BY <1>1, <2>1 DEF SendV, SemP, SemTake, SemSleep, RequestSched, Yield, Copy, Receiving
    <3> QED
      BY <1>2, <3>1, <3>2
  <2>2. CASE Free(p)
    <3>1. UNCHANGED <<ign, arg>> /\ \A q \in Procs : Receiving(q)' => Receiving(q)
      BY <1>1, <2>2 DEF Free, Receiving
    <3>2. \A q \in Procs : \A x \in ToSet(ign[q]) : msg'[q][x] = msg[q][x]
      BY <1>1, <2>2, FreeKeeps
    <3> QED
      BY <1>2, <3>1, <3>2
  <2> QED
    BY <1>1, <1>4, <2>1, <2>2, DequeueSought DEF Continue
<1>5. ASSUME Call(p) PROVE NothingMissed'
  <2>1. ASSUME NEW q \in Procs, NEW b \in Body, Post(p, q, b) PROVE NothingMissed'
    <3>1. UNCHANGED ign /\ Enqueue(q, [src |-> p, body |-> b])
      BY <2>1 DEF Post
    <3>2. \A r \in Procs : Receiving(r)' => Receiving(r) /\ arg'[r] = arg[r]
      BY <1>1, <2>1 DEF Post, Receiving
    <3> QED
      BY <1>3, <3>1, <3>2
  <2>2. ASSUME NEW q \in Procs, PoolPanic(q) PROVE NothingMissed'
    BY <1>2, <2>2 DEF PoolPanic, ipcVars, Receiving
  <2>3. ASSUME NEW f \in Filters, ReceiveIgnored(p, f) PROVE NothingMissed'
    <3> SUFFICES ASSUME NEW r \in Procs PROVE Sought(r)'
      BY DEF NothingMissed
    <3>1. CASE r = p
      BY <1>1, <2>3, <3>1 DEF ReceiveIgnored, Sought, Receiving
    <3>2. CASE r # p
      <4>1. ign'[r] = ign[r] /\ arg'[r] = arg[r] /\ UNCHANGED msg /\ (Receiving(r)' => Receiving(r))
        BY <1>1, <2>3, <3>2 DEF ReceiveIgnored, Receiving, TypeOK
      <4> QED
        BY <4>1, SoughtKept DEF NothingMissed
    <3> QED
      BY <3>1, <3>2
  <2>4. ASSUME NEW f \in Filters, ReceiveNew(p, f) PROVE NothingMissed'
    <3> SUFFICES ASSUME NEW r \in Procs PROVE Sought(r)'
      BY DEF NothingMissed
    <3>1. UNCHANGED <<ign, msg>>
      BY <2>4 DEF ReceiveNew
    <3>2. CASE r = p
      <4>1. arg'[r] = f /\ NoneIgnored(r, f)
        BY <1>1, <2>4, <3>2 DEF ReceiveNew
      <4> QED
        BY <3>1, <4>1 DEF Sought, NoneIgnored
    <3>3. CASE r # p
      <4>1. arg'[r] = arg[r] /\ (Receiving(r)' => Receiving(r))
        BY <1>1, <2>4, <3>3 DEF ReceiveNew, Receiving
      <4> QED
        BY <3>1, <4>1, SoughtKept DEF NothingMissed
    <3> QED
      BY <3>2, <3>3
  <2> QED
    BY <1>5, <2>1, <2>2, <2>3, <2>4 DEF Call, SendEnqueue
<1>6. ASSUME Interrupt PROVE NothingMissed'
  <2>1. ASSUME NEW quantum \in BOOLEAN, Tick(quantum) PROVE NothingMissed'
    BY <1>2, <2>1 DEF Tick, ipcVars, Receiving
  <2>2. ASSUME NEW q \in IrqTo, NEW b \in Body, NEW quantum \in BOOLEAN,
               IrqPost(q, b, quantum)
        PROVE  NothingMissed'
    <3>1. q \in Procs /\ UNCHANGED <<ign, pc, arg>> /\ Enqueue(q, [src |-> HardIntr, body |-> b])
      BY <2>2, ClientAssumption DEF IrqPost
    <3> QED
      BY <1>3, <3>1 DEF Receiving
  <2>3. ASSUME NEW q \in IrqTo, PoolPanic(q) PROVE NothingMissed'
    BY <1>2, <2>3 DEF PoolPanic, ipcVars, Receiving
  <2> QED
    BY <1>6, <2>1, <2>2, <2>3 DEF Interrupt, DeviceIrq
<1>7. CASE UNCHANGED vars
  BY <1>2, <1>7 DEF vars, ipcVars, Receiving
<1> QED
  BY <1>4, <1>5, <1>6, <1>7 DEF Next, Halted
-----------------------------------------------------------------------------
(***************************************************************************)
(* The mailboxes the processes see: Msg_ign and then Msg_rec, and what was *)
(* received last, which is in the slot ptr points to until *m is filled.   *)
(***************************************************************************)
BoxBar == [p \in Procs |-> Contents(p)]

LastOf(p) == IF pc[p] = "copy" THEN msg[p][held[p]] ELSE got[p]

LastBar == [p \in Procs |-> LastOf(p)]

\* The steps of the mailboxes, on these two.
LEMMA MailSteps ==
    /\ Mail!BoxInit <=> BoxBar = [p \in Procs |-> <<>>] /\ LastBar = [p \in Procs |-> Nil]
    /\ \A p, m : Mail!Put(p, m) <=> /\ BoxBar' = [BoxBar EXCEPT ![p] = Append(@, m)]
                                    /\ LastBar' = LastBar
    /\ \A p, f : Mail!Get(p, f) <=>
          \E i \in 1 .. Len(BoxBar[p]) :
             /\ Matches(f, BoxBar[p][i].src)
             /\ \A j \in 1 .. i - 1 : ~Matches(f, BoxBar[p][j].src)
             /\ LastBar' = [LastBar EXCEPT ![p] = BoxBar[p][i]]
             /\ BoxBar' = [BoxBar EXCEPT ![p] = RemoveAt(@, i)]
    /\ UNCHANGED Mail!boxVars <=> BoxBar' = BoxBar /\ LastBar' = LastBar
<1>1. Mail!BoxInit <=> BoxBar = [p \in Procs |-> <<>>] /\ LastBar = [p \in Procs |-> Nil]
  BY DEF Mail!BoxInit, BoxBar, LastBar, LastOf
<1>2. \A p, m : Mail!Put(p, m) <=> /\ BoxBar' = [BoxBar EXCEPT ![p] = Append(@, m)]
                                   /\ LastBar' = LastBar
  BY DEF Mail!Put, Mail!Deliver, BoxBar, LastBar, LastOf
<1>3. \A p, f : Mail!Get(p, f) <=>
          \E i \in 1 .. Len(BoxBar[p]) :
             /\ Matches(f, BoxBar[p][i].src)
             /\ \A j \in 1 .. i - 1 : ~Matches(f, BoxBar[p][j].src)
             /\ LastBar' = [LastBar EXCEPT ![p] = BoxBar[p][i]]
             /\ BoxBar' = [BoxBar EXCEPT ![p] = RemoveAt(@, i)]
  <2>1. \A s, i : Mail!RemoveAt(s, i) = RemoveAt(s, i)
    BY DEF Mail!RemoveAt, RemoveAt
  <2>2. \A p, f : Mail!Oldest(p, f) =
           {i \in 1 .. Len(BoxBar[p]) : /\ Matches(f, BoxBar[p][i].src)
                                       /\ \A j \in 1 .. i - 1 : ~Matches(f, BoxBar[p][j].src)}
    BY DEF Mail!Oldest, Mail!Accepts, Matches, BoxBar
  <2>3. \A p, i : Mail!Collect(p, i) <=> BoxBar' = [BoxBar EXCEPT ![p] = RemoveAt(@, i)]
    BY <2>1 DEF Mail!Collect, BoxBar
  <2>4. \A p, f : Mail!Get(p, f) <=>
           \E i \in Mail!Oldest(p, f) : /\ LastBar' = [LastBar EXCEPT ![p] = BoxBar[p][i]]
                                        /\ Mail!Collect(p, i)
    BY DEF Mail!Get, BoxBar, LastBar, LastOf
  <2> QED
    BY <2>2, <2>3, <2>4
<1>4. UNCHANGED Mail!boxVars <=> BoxBar' = BoxBar /\ LastBar' = LastBar
  BY DEF Mail!boxVars, BoxBar, LastBar, LastOf
<1> QED
  BY <1>1, <1>2, <1>3, <1>4

LEMMA ContentsTexts == \A p : Contents(p) = Texts(ign[p], rec[p], msg[p])
  BY DEF Contents, Texts

\* The mailbox of a process whose lists a step leaves alone.
LEMMA ContentsKept ==
    ASSUME TypeOK, AllOwned, NEW p \in Procs, rec'[p] = rec[p], ign'[p] = ign[p],
           \A x \in ToSet(rec[p]) \cup ToSet(ign[p]) : msg'[p][x] = msg[p][x]
    PROVE  Contents(p)' = Contents(p)
<1>1. Texts(ign[p], rec[p], msg'[p]) = Texts(ign[p], rec[p], msg[p])
  BY PlacesLinked, TextsSame
<1> QED
  BY <1>1, ContentsTexts DEF Contents, Texts

\* The message to be returned is in its slot until it has been copied.
LEMMA LastKept ==
    ASSUME TypeOK, AllOwned, NEW p \in Procs, held'[p] = held[p], got'[p] = got[p],
           pc'[p] = "copy" <=> pc[p] = "copy",
           \A x \in InUse(p) : msg'[p][x] = msg[p][x]
    PROVE  LastOf(p)' = LastOf(p)
<1>1. pc[p] = "copy" => held[p] \in InUse(p)
  <2>1. Owned(p) /\ (pc[p] = "copy" => held[p] # NoSlot)
    BY DEF TypeOK, AllOwned
  <2> QED
    BY <2>1 DEF Owned, HeldSet
<1> QED
  BY <1>1 DEF LastOf

\* The first section of send, and a handler's: the message is put into the box.
LEMMA EnqueuePuts ==
    ASSUME TypeOK, AllOwned, NEW q \in Procs, NEW m \in Message, Enqueue(q, m),
           UNCHANGED <<ign, held, got>>,
           \A p \in Procs : pc'[p] = "copy" <=> pc[p] = "copy"
    PROVE  Mail!Put(q, m)
<1>1. PICK s \in Slots : /\ free[q][s]
                         /\ msg' = [msg EXCEPT ![q][s] = m]
                         /\ rec' = [rec EXCEPT ![q] = Append(@, s)]
  BY DEF Enqueue, IsFirstEmpty
<1>2. /\ msg \in [Procs -> [Slots -> Message \cup {Nil}]]
      /\ rec \in [Procs -> Seq(Slots)]
  BY DEF TypeOK
<1>3. \A p \in Procs : \A x \in InUse(p) : msg'[p][x] = msg[p][x]
  BY EnqueueKeeps
<1>4. ASSUME NEW p \in Procs PROVE LastOf(p)' = LastOf(p)
  BY <1>3, LastKept
<1>5. ASSUME NEW p \in Procs, p # q PROVE Contents(p)' = Contents(p)
  <2>1. rec'[p] = rec[p] /\ ign'[p] = ign[p]
    BY <1>1, <1>2, <1>5
  <2> QED
    BY <1>3, <2>1, PlacesLinked, ContentsKept
<1>6. Contents(q)' = Append(Contents(q), m)
  <2> DEFINE g == ign[q]
             r == rec[q]
             n == msg'[q]
  <2>1. /\ g \in Seq(Slots) /\ r \in Seq(Slots)
        /\ \A x \in ToSet(g) \cup ToSet(r) : msg[q][x] \in Message /\ n[x] = msg[q][x]
    BY <1>3, PlacesLinked
  <2>2. n[s] = m
    BY <1>1, <1>2
  <2>3. Contents(q)' = Texts(g, Append(r, s), n)
    <3>1. rec'[q] = Append(r, s) /\ ign'[q] = g
      BY <1>1, <1>2
    <3> QED
      BY <3>1 DEF Contents, Texts
  <2>4. Contents(q) = Texts(g, r, msg[q])
    BY ContentsTexts
  <2> HIDE DEF g, r, n
  <2>5. \A x \in ToSet(g) \cup ToSet(r) \cup {s} : n[x] \in Message
    BY <2>1, <2>2
  <2>6. Texts(g, Append(r, s), n) = Append(Texts(g, r, n), n[s])
    BY <2>1, <2>5, TextsAppend
  <2>7. Texts(g, r, n) = Texts(g, r, msg[q])
    BY <2>1, TextsSame
  <2> QED
    BY <2>2, <2>3, <2>4, <2>6, <2>7
<1>7. BoxBar' = [BoxBar EXCEPT ![q] = Append(@, m)]
  BY <1>5, <1>6 DEF BoxBar
<1>8. LastBar' = LastBar
  BY <1>4 DEF LastBar
<1> QED
  BY <1>7, <1>8, MailSteps

LEMMA ContentsFacts ==
    ASSUME TypeOK, AllOwned, NEW p \in Procs
    PROVE  /\ Contents(p) \in Seq(Message)
           /\ Len(Contents(p)) = Len(ign[p]) + Len(rec[p])
           /\ Len(ign[p]) \in Nat /\ Len(rec[p]) \in Nat
           /\ \A i \in 1 .. Len(ign[p]) : Contents(p)[i] = msg[p][ign[p][i]]
<1> DEFINE g == ign[p]
           r == rec[p]
           n == msg[p]
<1>1. g \in Seq(Slots) /\ r \in Seq(Slots) /\ \A x \in ToSet(g) \cup ToSet(r) : n[x] \in Message
  BY PlacesLinked
<1>2. Contents(p) = Texts(g, r, n)
  BY ContentsTexts
<1> HIDE DEF g, r, n
<1>3. /\ Texts(g, r, n) \in Seq(Message)
      /\ Len(Texts(g, r, n)) = Len(g) + Len(r)
      /\ Len(g) \in Nat /\ Len(r) \in Nat
      /\ \A i \in 1 .. Len(g) + Len(r) :
            Texts(g, r, n)[i] = IF i <= Len(g) THEN n[g[i]] ELSE n[r[i - Len(g)]]
  BY <1>1, TextsFacts
<1>4. \A i \in 1 .. Len(g) : i \in 1 .. Len(g) + Len(r) /\ i <= Len(g)
  BY <1>3
<1> QED
  BY <1>2, <1>3, <1>4 DEF g, r, n

\* The filters a mailbox knows: ANY, and the sources there are.
MailFilters == {AnySrc} \cup {m.src : m \in Message}

\* A message of Msg_ign is taken: no older one is accepted.
LEMMA IgnoredGets ==
    ASSUME TypeOK, AllOwned, NEW q \in Procs, NEW f, ReceiveIgnored(q, f)
    PROVE  f \in MailFilters /\ Mail!Get(q, f)
<1>1. PICK k \in 1 .. Len(ign[q]) : /\ IsFirstIgnored(q, f, k)
                                    /\ held' = [held EXCEPT ![q] = ign[q][k]]
                                    /\ ign' = [ign EXCEPT ![q] = RemoveAt(@, k)]
  BY DEF ReceiveIgnored
<1>2. /\ UNCHANGED <<msg, rec, got>> /\ pc[q] = "user" /\ pc' = [pc EXCEPT ![q] = "copy"]
      /\ pc \in [Procs -> PC] /\ ign \in [Procs -> Seq(Slots)]
      /\ held \in [Procs -> Slots \cup {NoSlot}]
  BY DEF ReceiveIgnored, TypeOK
<1>3. /\ Contents(q) \in Seq(Message) /\ Len(Contents(q)) = Len(ign[q]) + Len(rec[q])
      /\ Len(ign[q]) \in Nat /\ Len(rec[q]) \in Nat
      /\ \A i \in 1 .. Len(ign[q]) : Contents(q)[i] = msg[q][ign[q][i]]
  BY ContentsFacts
<1>4. k \in 1 .. Len(Contents(q)) /\ \A j \in 1 .. k - 1 : j \in 1 .. Len(ign[q])
  <2>1. /\ Len(Contents(q)) = Len(ign[q]) + Len(rec[q])
        /\ Len(ign[q]) \in Nat /\ Len(rec[q]) \in Nat
    BY <1>3
  <2>2. \A a, b \in Nat : \A i \in 1 .. a : i \in 1 .. a + b /\ \A j \in 1 .. i - 1 : j \in 1 .. a
    OBVIOUS
  <2> QED
    BY <2>1, <2>2
<1>5. /\ Matches(f, Contents(q)[k].src)
      /\ \A j \in 1 .. k - 1 : ~Matches(f, Contents(q)[j].src)
  BY <1>1, <1>3, <1>4 DEF IsFirstIgnored
<1>6. Contents(q)[k] \in Message
  BY <1>3, <1>4, ElementOfSeq
<1>7. Contents(q)' = RemoveAt(Contents(q), k)
  <2> DEFINE g == ign[q]
             r == rec[q]
             n == msg[q]
  <2>1. g \in Seq(Slots) /\ r \in Seq(Slots) /\ \A x \in ToSet(g) \cup ToSet(r) : n[x] \in Message
    BY PlacesLinked
  <2>2. Contents(q) = Texts(g, r, n)
    BY ContentsTexts
  <2>3. Contents(q)' = Texts(RemoveAt(g, k), r, n)
    <3>1. ign'[q] = RemoveAt(g, k) /\ rec'[q] = r /\ msg'[q] = n
      BY <1>1, <1>2
    <3> QED
      BY <3>1 DEF Contents, Texts
  <2>4. k \in 1 .. Len(g)
    OBVIOUS
  <2> HIDE DEF g, r, n
  <2> QED
    BY <2>1, <2>2, <2>3, <2>4, TextsIgnored
<1>8. ASSUME NEW p \in Procs, p # q PROVE Contents(p)' = Contents(p) /\ LastOf(p)' = LastOf(p)
  <2>1. ign'[p] = ign[p] /\ rec'[p] = rec[p] /\ msg'[p] = msg[p]
        /\ held'[p] = held[p] /\ got'[p] = got[p] /\ pc'[p] = pc[p]
    BY <1>1, <1>2, <1>8
  <2> QED
    BY <2>1, ContentsKept DEF LastOf
<1>9. LastOf(q)' = Contents(q)[k]
  BY <1>1, <1>2, <1>3 DEF LastOf
<1>10. BoxBar' = [BoxBar EXCEPT ![q] = RemoveAt(@, k)] /\ BoxBar[q] = Contents(q)
  BY <1>7, <1>8 DEF BoxBar
<1>11. LastBar' = [LastBar EXCEPT ![q] = BoxBar[q][k]]
  BY <1>8, <1>9, <1>10 DEF LastBar
<1>12. Mail!Get(q, f)
  BY <1>4, <1>5, <1>10, <1>11, MailSteps
<1> QED
  BY <1>5, <1>6, <1>12 DEF MailFilters, Matches

\* The first of Msg_rec is taken, when Msg_ign has none for this receive.
LEMMA AcceptGets ==
    ASSUME TypeOK, AllOwned, NothingMissed, NEW q \in Procs, Dequeue(q),
           rec[q] # <<>>, Accept(q), NEW f, f = arg[q]
    PROVE  f \in MailFilters /\ Mail!Get(q, f)
<1> DEFINE k == Len(ign[q]) + 1
<1>1. /\ UNCHANGED <<msg, ign, got>> /\ pc[q] = "deq" /\ pc' = [pc EXCEPT ![q] = "copy"]
      /\ rec' = [rec EXCEPT ![q] = Tail(@)]
      /\ held' = [held EXCEPT ![q] = Head(rec[q])]
      /\ Matches(f, msg[q][Head(rec[q])].src)
  BY DEF Dequeue, Accept
<1>2. /\ pc \in [Procs -> PC] /\ rec \in [Procs -> Seq(Slots)]
      /\ held \in [Procs -> Slots \cup {NoSlot}]
  BY DEF TypeOK
<1>3. /\ k \in 1 .. Len(Contents(q))
      /\ Contents(q)[k] = msg[q][Head(rec[q])]
      /\ Contents(q)' = RemoveAt(Contents(q), k)
  <2> DEFINE g == ign[q]
             r == rec[q]
             n == msg[q]
  <2>1. g \in Seq(Slots) /\ r \in Seq(Slots) /\ \A x \in ToSet(g) \cup ToSet(r) : n[x] \in Message
    BY PlacesLinked
  <2>2. Contents(q) = Texts(g, r, n)
    BY ContentsTexts
  <2>3. Contents(q)' = Texts(g, Tail(r), n)
    <3>1. ign'[q] = g /\ rec'[q] = Tail(r) /\ msg'[q] = n
      BY <1>1, <1>2
    <3> QED
      BY <3>1 DEF Contents, Texts
  <2>4. r # <<>>
    OBVIOUS
  <2> HIDE DEF g, r, n
  <2>5. /\ Len(g) + 1 \in 1 .. Len(Texts(g, r, n))
        /\ Texts(g, r, n)[Len(g) + 1] = n[Head(r)]
        /\ Texts(g, Tail(r), n) = RemoveAt(Texts(g, r, n), Len(g) + 1)
    BY <2>1, <2>4, TextsTail
  <2> QED
    BY <2>2, <2>3, <2>5 DEF g, r, n
<1>4. \A j \in 1 .. k - 1 : ~Matches(f, Contents(q)[j].src)
  <2>1. NoneIgnored(q, f)
    BY <1>1 DEF NothingMissed, Sought, Receiving
  <2>2. /\ Len(ign[q]) \in Nat
        /\ \A i \in 1 .. Len(ign[q]) : Contents(q)[i] = msg[q][ign[q][i]]
    BY ContentsFacts
  <2>3. k - 1 = Len(ign[q])
    BY <2>2
  <2> HIDE DEF k
  <2> QED
    BY <2>1, <2>2, <2>3 DEF NoneIgnored
<1>5. Contents(q)[k] \in Message
  BY <1>3, ContentsFacts, ElementOfSeq
<1> HIDE DEF k
<1>6. Matches(f, Contents(q)[k].src)
  BY <1>1, <1>3
<1>7. ASSUME NEW p \in Procs, p # q PROVE Contents(p)' = Contents(p) /\ LastOf(p)' = LastOf(p)
  <2>1. ign'[p] = ign[p] /\ rec'[p] = rec[p] /\ msg'[p] = msg[p]
        /\ held'[p] = held[p] /\ got'[p] = got[p] /\ pc'[p] = pc[p]
    BY <1>1, <1>2, <1>7
  <2> QED
    BY <2>1, ContentsKept DEF LastOf
<1>8. LastOf(q)' = Contents(q)[k]
  BY <1>1, <1>2, <1>3 DEF LastOf
<1>9. BoxBar' = [BoxBar EXCEPT ![q] = RemoveAt(@, k)] /\ BoxBar[q] = Contents(q)
  BY <1>3, <1>7 DEF BoxBar
<1>10. LastBar' = [LastBar EXCEPT ![q] = BoxBar[q][k]]
  BY <1>7, <1>8, <1>9 DEF LastBar
<1>11. Mail!Get(q, f)
  <2>1. /\ k \in 1 .. Len(BoxBar[q])
        /\ Matches(f, BoxBar[q][k].src)
        /\ \A j \in 1 .. k - 1 : ~Matches(f, BoxBar[q][j].src)
    BY <1>3, <1>4, <1>6, <1>9
  <2> QED
    BY <1>9, <1>10, <2>1, MailSteps
<1> QED
  BY <1>5, <1>6, <1>11 DEF MailFilters, Matches

\* A message put aside stays where it is in the mailbox.
LEMMA PutAsideStutters ==
    ASSUME TypeOK, AllOwned, NEW q \in Procs, Dequeue(q), rec[q] # <<>>, PutAside(q)
    PROVE  UNCHANGED Mail!boxVars
<1>1. /\ UNCHANGED <<msg, held, got>> /\ pc[q] = "deq" /\ pc' = [pc EXCEPT ![q] = "P"]
      /\ rec' = [rec EXCEPT ![q] = Tail(@)]
      /\ ign' = [ign EXCEPT ![q] = Append(@, Head(rec[q]))]
  BY DEF Dequeue, PutAside
<1>2. /\ pc \in [Procs -> PC] /\ rec \in [Procs -> Seq(Slots)] /\ ign \in [Procs -> Seq(Slots)]
  BY DEF TypeOK
<1>3. Contents(q)' = Contents(q)
  <2>1. ign'[q] = Append(ign[q], Head(rec[q])) /\ rec'[q] = Tail(rec[q]) /\ msg'[q] = msg[q]
    BY <1>1, <1>2
  <2>2. Contents(q)' = Texts(Append(ign[q], Head(rec[q])), Tail(rec[q]), msg[q])
    BY <2>1 DEF Contents, Texts
  <2>3. rec[q] \in Seq(Slots) /\ ign[q] \in Seq(Slots)
    BY PlacesLinked
  <2> QED
    BY <2>2, <2>3, TextsAside, ContentsTexts
<1>4. ASSUME NEW p \in Procs, p # q PROVE Contents(p)' = Contents(p)
  <2>1. ign'[p] = ign[p] /\ rec'[p] = rec[p] /\ msg'[p] = msg[p]
    BY <1>1, <1>2, <1>4
  <2> QED
    BY <2>1, ContentsKept
<1>5. ASSUME NEW p \in Procs PROVE LastOf(p)' = LastOf(p)
  <2>1. pc'[p] = "copy" <=> pc[p] = "copy"
    BY <1>1, <1>2
  <2> QED
    BY <1>1, <2>1 DEF LastOf
<1>6. BoxBar' = BoxBar /\ LastBar' = LastBar
  BY <1>3, <1>4, <1>5 DEF BoxBar, LastBar
<1> QED
  BY <1>6, MailSteps

\* What touches neither the lists nor what was received is not seen.
LEMMA OthersStutter ==
    ASSUME TypeOK, AllOwned, UNCHANGED <<rec, ign>>,
           \A p \in Procs : \A x \in ToSet(rec[p]) \cup ToSet(ign[p]) : msg'[p][x] = msg[p][x],
           \A p \in Procs : LastOf(p)' = LastOf(p)
    PROVE  UNCHANGED Mail!boxVars
<1>1. \A p \in Procs : Contents(p)' = Contents(p)
  BY ContentsKept
<1>2. BoxBar' = BoxBar /\ LastBar' = LastBar
  BY <1>1 DEF BoxBar, LastBar
<1> QED
  BY <1>2, MailSteps

LEMMA ContinueMail ==
    ASSUME TypeOK, AllOwned, NothingMissed, NEW q \in Procs, Continue(q)
    PROVE  [Mail!BoxNext]_(Mail!boxVars)
<1>1. /\ pc \in [Procs -> PC] /\ got \in [Procs -> Message \cup {Nil}]
      /\ held \in [Procs -> Slots \cup {NoSlot}]
  BY DEF TypeOK
<1>2. CASE SendV(q) \/ SemP(q) \/ RequestSched(q) \/ Yield(q)
  <2>1. UNCHANGED <<rec, ign, msg, held, got>>
    BY <1>2 DEF SendV, SemP, RequestSched, Yield
  <2>2. \A p \in Procs : pc'[p] = "copy" <=> pc[p] = "copy"
    BY <1>1, <1>2 DEF SendV, SemP, SemTake, SemSleep, RequestSched, Yield
  <2> QED
    BY <2>1, <2>2, OthersStutter DEF LastOf
<1>3. CASE Dequeue(q)
  <2>1. CASE rec[q] = <<>>
    <3>1. UNCHANGED <<rec, ign, msg, held, got, pc>>
      BY <1>3, <2>1 DEF Dequeue, EmptyPanic
    <3> QED
      BY <3>1, OthersStutter DEF LastOf
  <2>2. CASE rec[q] # <<>> /\ Accept(q)
    <3>1. PICK f : f = arg[q]
      OBVIOUS
    <3>2. f \in MailFilters /\ Mail!Get(q, f)
      BY <1>3, <2>2, <3>1, AcceptGets
    <3> QED
      BY <3>2 DEF Mail!BoxNext, MailFilters
  <2>3. CASE rec[q] # <<>> /\ PutAside(q)
    BY <1>3, <2>3, PutAsideStutters
  <2> QED
    BY <1>3, <2>1, <2>2, <2>3 DEF Dequeue
<1>4. CASE Copy(q)
  <2>1. UNCHANGED <<rec, ign, msg, held>>
    BY <1>4 DEF Copy
  <2>2. \A p \in Procs : LastOf(p)' = LastOf(p)
    BY <1>1, <1>4 DEF Copy, LastOf
  <2> QED
    BY <2>1, <2>2, OthersStutter
<1>5. CASE Free(q)
  <2>1. \A p \in Procs : \A x \in ToSet(rec[p]) \cup ToSet(ign[p]) : msg'[p][x] = msg[p][x]
    BY <1>5, FreeKeeps
  <2>2. \A p \in Procs : LastOf(p)' = LastOf(p)
    <3>1. msg \in [Procs -> [Slots -> Message \cup {Nil}]]
      BY DEF TypeOK
    <3> QED
      BY <1>1, <1>5, <3>1 DEF Free, LastOf
  <2>3. UNCHANGED <<rec, ign>>
    BY <1>5 DEF Free
  <2> QED
    BY <2>1, <2>2, <2>3, OthersStutter
<1> QED
  BY <1>2, <1>3, <1>4, <1>5 DEF Continue

LEMMA StepMail ==
    ASSUME TypeOK, AllOwned, NothingMissed, [Next]_vars
    PROVE  [Mail!BoxNext]_(Mail!boxVars)
<1> DEFINE p == current
<1>1. p \in Procs /\ pc \in [Procs -> PC]
  BY DEF TypeOK, SchedTypeOK
<1>2. ASSUME UNCHANGED <<rec, ign, msg, held, got>>,
             \A r \in Procs : pc'[r] = "copy" <=> pc[r] = "copy"
      PROVE  UNCHANGED Mail!boxVars
  BY <1>2, OthersStutter DEF LastOf
<1>3. ASSUME NEW q \in Procs, NEW m \in Message, Enqueue(q, m), UNCHANGED <<ign, held, got>>,
             \A r \in Procs : pc'[r] = "copy" <=> pc[r] = "copy"
      PROVE  Mail!BoxNext
  <2>1. Mail!Put(q, m)
    BY <1>3, EnqueuePuts
  <2> QED
    BY <2>1 DEF Mail!BoxNext
<1>4. ASSUME Call(p) PROVE [Mail!BoxNext]_(Mail!boxVars)
  <2>1. ASSUME NEW q \in Procs, NEW b \in Body, Post(p, q, b), SendEnqueue(p, q, b)
        PROVE  Mail!BoxNext
    <3>1. [src |-> p, body |-> b] \in Message
      BY <1>1 DEF Message, Sources
    <3>2. Enqueue(q, [src |-> p, body |-> b]) /\ UNCHANGED <<ign, held, got>>
      BY <2>1 DEF Post
    <3>3. \A r \in Procs : pc'[r] = "copy" <=> pc[r] = "copy"
      BY <1>1, <2>1 DEF Post, SendEnqueue
    <3> QED
      BY <1>3, <3>1, <3>2, <3>3
  <2>2. ASSUME NEW q \in Procs, PoolPanic(q) PROVE UNCHANGED Mail!boxVars
    BY <1>2, <2>2 DEF PoolPanic, ipcVars
  <2>3. ASSUME NEW f \in Filters, ReceiveIgnored(p, f) PROVE Mail!BoxNext
    BY <1>1, <2>3, IgnoredGets DEF Mail!BoxNext, MailFilters
  <2>4. ASSUME NEW f \in Filters, ReceiveNew(p, f) PROVE UNCHANGED Mail!boxVars
    <3>1. UNCHANGED <<rec, ign, msg, held, got>>
      BY <2>4 DEF ReceiveNew
    <3>2. \A r \in Procs : pc'[r] = "copy" <=> pc[r] = "copy"
      BY <1>1, <2>4 DEF ReceiveNew
    <3> QED
      BY <1>2, <3>1, <3>2
  <2> QED
    BY <1>4, <2>1, <2>2, <2>3, <2>4 DEF Call, SendEnqueue
<1>5. ASSUME Interrupt PROVE [Mail!BoxNext]_(Mail!boxVars)
  <2>1. ASSUME NEW quantum \in BOOLEAN, Tick(quantum) PROVE UNCHANGED Mail!boxVars
    BY <1>2, <2>1 DEF Tick, ipcVars
  <2>2. ASSUME NEW q \in IrqTo, NEW b \in Body, NEW quantum \in BOOLEAN,
               IrqPost(q, b, quantum)
        PROVE  Mail!BoxNext
    <3>1. q \in Procs /\ [src |-> HardIntr, body |-> b] \in Message
      BY ClientAssumption DEF Message, Sources
    <3>2. Enqueue(q, [src |-> HardIntr, body |-> b]) /\ UNCHANGED <<ign, held, got, pc>>
      BY <2>2 DEF IrqPost
    <3> QED
      BY <1>3, <3>1, <3>2
  <2>3. ASSUME NEW q \in IrqTo, PoolPanic(q) PROVE UNCHANGED Mail!boxVars
    BY <1>2, <2>3 DEF PoolPanic, ipcVars
  <2> QED
    BY <1>5, <2>1, <2>2, <2>3 DEF Interrupt, DeviceIrq
<1>6. CASE UNCHANGED vars
  BY <1>2, <1>6 DEF vars, ipcVars
<1> QED
  BY <1>1, <1>4, <1>5, <1>6, ContinueMail DEF Next, Halted

LEMMA InitMail == Init => Mail!BoxInit /\ NothingMissed
<1> SUFFICES ASSUME Init PROVE Mail!BoxInit /\ NothingMissed
  OBVIOUS
<1>1. NothingMissed
  BY DEF Init, NothingMissed, Sought, Receiving
<1>2. ASSUME NEW p \in Procs PROVE Contents(p) = <<>> /\ LastOf(p) = Nil
  <2>1. Contents(p) = Texts(<<>>, <<>>, msg[p]) /\ LastOf(p) = Nil
    BY ContentsTexts DEF Init, LastOf
  <2>2. Texts(<<>>, <<>>, msg[p]) \in Seq(Message) /\ Len(Texts(<<>>, <<>>, msg[p])) = 0
    <3>1. /\ <<>> \in Seq(Slots) /\ Len(<<>>) = 0
          /\ \A x \in ToSet(<<>>) \cup ToSet(<<>>) : msg[p][x] \in Message
      BY EmptyQueue, EmptySeq
    <3>2. Len(Texts(<<>>, <<>>, msg[p])) = Len(<<>>) + Len(<<>>)
      BY <3>1, TextsFacts
    <3>3. Texts(<<>>, <<>>, msg[p]) \in Seq(Message)
      BY <3>1, TextsFacts
    <3> QED
      BY <3>1, <3>2, <3>3
  <2> QED
    BY <2>1, <2>2, EmptySeq
<1>3. BoxBar = [p \in Procs |-> <<>>] /\ LastBar = [p \in Procs |-> Nil]
  BY <1>2 DEF BoxBar, LastBar
<1> QED
  BY <1>1, <1>3, MailSteps

(***************************************************************************)
(* send and receive implement the mailboxes of module Mailbox: whatever    *)
(* interrupts them, a message is received once, by the process it was sent *)
(* to, and it is the oldest that this receive accepts.                     *)
(***************************************************************************)
THEOREM ImplementsMailbox == Spec => MailboxSpec
<1>1. Init => Mail!BoxInit /\ AllOwned /\ NothingMissed
  BY InitMail, InitOwned
<1>2. TypeOK /\ AllOwned /\ [Next]_vars => AllOwned'
  BY StepOwned
<1>3. TypeOK /\ AllOwned /\ NothingMissed /\ [Next]_vars => NothingMissed'
  BY StepSought
<1>4. TypeOK /\ AllOwned /\ NothingMissed /\ [Next]_vars => [Mail!BoxNext]_(Mail!boxVars)
  BY StepMail
<1> QED
  BY <1>1, <1>2, <1>3, <1>4, TypeCorrect, PTL DEF Spec, MailboxSpec, Mail!BoxSpec

-----------------------------------------------------------------------------
(***************************************************************************)
(* The disk driver and the file server.                                    *)
(***************************************************************************)
\* A, B and C are places, and it is in one of them when D holds.
OneOf(A, B, C, D) ==
    /\ D <=> A \/ B \/ C
    /\ ~(A /\ B) /\ ~(A /\ C) /\ ~(B /\ C)

LEMMA OneOfThree ==
    ASSUME NEW a, NEW b, NEW c, a # b, a # c, b # c, NEW S, S \subseteq {a, b, c}
    PROVE  /\ Cardinality(S) = 0 <=> ~(a \in S) /\ ~(b \in S) /\ ~(c \in S)
           /\ Cardinality(S) = 1
                 <=> /\ a \in S \/ b \in S \/ c \in S
                     /\ ~(a \in S /\ b \in S) /\ ~(a \in S /\ c \in S) /\ ~(b \in S /\ c \in S)
<1>1. IsFiniteSet(S)
  <2>1. IsFiniteSet({a}) /\ IsFiniteSet({b}) /\ IsFiniteSet({c})
    BY FS_Singleton
  <2>2. IsFiniteSet({a} \cup {b})
    BY <2>1, FS_Union
  <2>3. IsFiniteSet(({a} \cup {b}) \cup {c})
    BY <2>1, <2>2, FS_Union
  <2>4. S \subseteq ({a} \cup {b}) \cup {c}
    OBVIOUS
  <2> QED
    BY <2>3, <2>4, FS_Subset
<1>2. Cardinality(S) = 0 <=> ~(a \in S) /\ ~(b \in S) /\ ~(c \in S)
  BY <1>1, FS_EmptySet
<1>3. Cardinality(S) = 1 <=> \E x : S = {x}
  BY <1>1, FS_Singleton
<1>4. (\E x : S = {x}) <=> /\ a \in S \/ b \in S \/ c \in S
                           /\ ~(a \in S /\ b \in S) /\ ~(a \in S /\ c \in S) /\ ~(b \in S /\ c \in S)
  <2>1. CASE a \in S /\ b \notin S /\ c \notin S
    <3>1. S = {a}
      BY <2>1
    <3> QED
      BY <2>1, <3>1
  <2>2. CASE a \notin S /\ b \in S /\ c \notin S
    <3>1. S = {b}
      BY <2>2
    <3> QED
      BY <2>2, <3>1
  <2>3. CASE a \notin S /\ b \notin S /\ c \in S
    <3>1. S = {c}
      BY <2>3
    <3> QED
      BY <2>3, <3>1
  <2> QED
    BY <2>1, <2>2, <2>3
<1> QED
  BY <1>2, <1>3, <1>4

LEMMA OnePlaceRequest ==
    ASSUME NEW A \in BOOLEAN, NEW B \in BOOLEAN, NEW C \in BOOLEAN, NEW D \in BOOLEAN
    PROVE  OnePlace([sent |-> A, served |-> B, answered |-> C], D) <=> OneOf(A, B, C, D)
<1> DEFINE r == [sent |-> A, served |-> B, answered |-> C]
           S == {x \in DOMAIN r : r[x]}
<1>1. /\ S \subseteq {"sent", "served", "answered"}
      /\ "sent" \in S <=> A
      /\ "served" \in S <=> B
      /\ "answered" \in S <=> C
  OBVIOUS
<1>2. OnePlace(r, D) <=> Cardinality(S) = (IF D THEN 1 ELSE 0)
  BY DEF OnePlace
<1> HIDE DEF S
<1>3. "sent" # "served" /\ "sent" # "answered" /\ "served" # "answered"
  OBVIOUS
<1>4. /\ Cardinality(S) = 0 <=> ~A /\ ~B /\ ~C
      /\ Cardinality(S) = 1 <=> (A \/ B \/ C) /\ ~(A /\ B) /\ ~(A /\ C) /\ ~(B /\ C)
  BY <1>1, <1>3, OneOfThree
<1> QED
  BY <1>2, <1>4 DEF OneOf

LEMMA OnePlaceCommand ==
    ASSUME NEW A \in BOOLEAN, NEW B \in BOOLEAN, NEW C \in BOOLEAN, NEW D \in BOOLEAN
    PROVE  OnePlace([busy |-> A, sent |-> B, taken |-> C], D) <=> OneOf(A, B, C, D)
<1> DEFINE r == [busy |-> A, sent |-> B, taken |-> C]
           S == {x \in DOMAIN r : r[x]}
<1>1. /\ S \subseteq {"busy", "sent", "taken"}
      /\ "busy" \in S <=> A
      /\ "sent" \in S <=> B
      /\ "taken" \in S <=> C
  OBVIOUS
<1>2. OnePlace(r, D) <=> Cardinality(S) = (IF D THEN 1 ELSE 0)
  BY DEF OnePlace
<1> HIDE DEF S
<1>3. "busy" # "sent" /\ "busy" # "taken" /\ "sent" # "taken"
  OBVIOUS
<1>4. /\ Cardinality(S) = 0 <=> ~A /\ ~B /\ ~C
      /\ Cardinality(S) = 1 <=> (A \/ B \/ C) /\ ~(A /\ B) /\ ~(A /\ C) /\ ~(B /\ C)
  BY <1>1, <1>3, OneOfThree
<1> QED
  BY <1>2, <1>4 DEF OneOf

\* Who is who.
LEMMA Roles ==
    /\ Users \subseteq Procs /\ FM \in Procs /\ IDE \in Procs /\ FM # IDE
    /\ FM \notin Users /\ IDE \notin Users
    /\ Clients = Users \cup {FM, IDE} /\ Clients \subseteq Procs
    /\ AnySrc \notin Procs /\ HardIntr \notin Procs /\ AnySrc # HardIntr
    /\ {"read", "reply", "ready", "writeback"} \subseteq Body /\ IDE \in IrqTo
  BY RoleAssumption, ClientAssumption, SourceAssumption DEF Servers
-----------------------------------------------------------------------------
(***************************************************************************)
(* A step is one of send, receive and the interrupts, or one that leaves   *)
(* them alone, or a panic of the driver.                                   *)
(***************************************************************************)
DriverPanic ==
    /\ halt' \in {"leak", "notready"}
    /\ UNCHANGED <<status, current, needSched, ipcVars>>

LEMMA SendsCalls ==
    ASSUME TypeOK, halt = "none", NEW q, NEW b \in Body, NEW x, NEW y,
           Sends(current, x, q, b, y)
    PROVE  Next
<1>1. SendEnqueue(current, q, b) /\ current \in Procs
  BY DEF Sends, TypeOK, SchedTypeOK
<1>2. q \in Procs
  BY <1>1, ClientAssumption DEF SendEnqueue
<1> QED
  BY <1>1, <1>2 DEF Next, Call

LEMMA ReceivesCalls ==
    ASSUME halt = "none", NEW f \in Filters, NEW x, NEW y, Receives(current, x, f, y)
    PROVE  Next
  BY DEF Receives, Next, Call

LEMMA IpcStep ==
    ASSUME TypeOK, DiskNext
    PROVE  [Next]_vars \/ DriverPanic
<1>1. halt = "none" /\ FM \in Filters /\ IDE \in Filters /\ AnySrc \in Filters /\ HardIntr \in Filters
  BY Roles DEF DiskNext, Filters
<1>2. CASE Continue(current)
  BY <1>1, <1>2 DEF Next
<1>3. CASE current \in Users /\ User(current)
  BY <1>1, <1>3, Roles, SendsCalls, ReceivesCalls DEF User, AskFile, AwaitFile
<1>4. CASE current = FM /\ FileManagement
  BY <1>1, <1>4, Roles, SendsCalls, ReceivesCalls
     DEF FileManagement, NextMessage, AskDisk, AwaitDisk, ReplyFile
<1>5. CASE current = IDE /\ Driver
  <2>1. CASE NextMessage(IDE) \/ AwaitReady \/ ReplyRead
    BY <1>1, <1>5, <2>1, Roles, SendsCalls, ReceivesCalls DEF NextMessage, AwaitReady, ReplyRead
  <2>2. CASE Dispatch \/ Command
    BY <2>2 DEF Dispatch, Command, DriverPanic, vars, schedVars
  <2>3. CASE TestReady \/ EndWriteBack
    BY <2>3 DEF TestReady, EndWriteBack
  <2> QED
    BY <1>5, <2>1, <2>2, <2>3 DEF Driver
<1>6. CASE IdeIntr
  BY <1>1, <1>6, Roles DEF IdeIntr, Next, Interrupt
<1>7. ASSUME NEW quantum \in BOOLEAN, TimeIntr(quantum)
      PROVE  Next
  BY <1>1, <1>7, Roles DEF TimeIntr, Next, Interrupt
<1> QED
  BY <1>2, <1>3, <1>4, <1>5, <1>6, <1>7 DEF DiskNext, Run

\* What is proved of send and receive holds while FM and IDE run.
LEMMA IpcKept ==
    ASSUME IInv, AllOwned, [DiskNext]_allVars
    PROVE  IInv' /\ AllOwned'
<1>1. TypeOK /\ Shape /\ Accounting /\ NoEmptyReceive
  BY DEF IInv
<1>2. CASE [Next]_vars
  BY <1>1, <1>2, StepType, StepShape, StepAccounting, StepOwned DEF IInv
<1>3. CASE DriverPanic
  <2>1. UNCHANGED <<status, current, needSched, free, msg, rec, ign, sem, pc, arg, held, got>>
        /\ halt' \in {"leak", "notready"}
    BY <1>3 DEF DriverPanic, ipcVars
  <2>2. TypeOK'
    BY <1>1, <2>1 DEF TypeOK, SchedTypeOK, Halts
  <2>3. Shape'
    BY <1>1, <2>1 DEF Shape, RunningIsCurrent, SleepersQueued, SleeperLeaves,
                      BystandersOutside, NeverSpins
  <2>4. Accounting' /\ NoEmptyReceive'
    BY <1>1, <2>1, AccountingSame DEF Granted, NoEmptyReceive
  <2>5. AllOwned'
    BY <2>1, OwnedKept DEF AllOwned
  <2> QED
    BY <2>2, <2>3, <2>4, <2>5 DEF IInv
<1>4. CASE UNCHANGED allVars
  BY <1>2, <1>4 DEF allVars
<1> QED
  BY <1>1, <1>2, <1>3, <1>4, IpcStep
-----------------------------------------------------------------------------
(***************************************************************************)
(* What is mailed to a process is what its slots in use have, but for the  *)
(* one that receive has copied and is about to give back.                  *)
(***************************************************************************)
Unread(p) == InUse(p) \ (IF pc[p] = "free" THEN {held[p]} ELSE {})

LEMMA MailedSlots ==
    ASSUME TypeOK, AllOwned, NEW p \in Procs
    PROVE  /\ Mailed(p) = {msg[p][s] : s \in Unread(p)}
           /\ pc[p] \in {"copy", "free"} => held[p] \in InUse(p)
<1>1. /\ ToSet(rec[p]) \cup ToSet(ign[p]) \cup HeldSet(p) = InUse(p)
      /\ held[p] \notin ToSet(rec[p]) \cup ToSet(ign[p])
      /\ held[p] # NoSlot <=> pc[p] \in {"copy", "free"}
  BY DEF AllOwned, Owned, TypeOK
<1>2. pc[p] \in {"copy", "free"} => held[p] \in InUse(p)
  BY <1>1 DEF HeldSet
<1>3. ToSet(rec[p]) \cup ToSet(ign[p]) \cup (IF pc[p] = "copy" THEN {held[p]} ELSE {}) = Unread(p)
  BY <1>1 DEF HeldSet, Unread
<1> QED
  BY <1>2, <1>3 DEF Mailed

LEMMA MailedSlotsNext ==
    ASSUME TypeOK', AllOwned', NEW p \in Procs
    PROVE  Mailed(p)' = {msg'[p][s] : s \in Unread(p)'}
<1>1. /\ (ToSet(rec[p]) \cup ToSet(ign[p]) \cup HeldSet(p) = InUse(p))'
      /\ (held[p] \notin ToSet(rec[p]) \cup ToSet(ign[p]))'
      /\ (held[p] # NoSlot <=> pc[p] \in {"copy", "free"})'
  BY DEF AllOwned, Owned, TypeOK
<1>2. (ToSet(rec[p]) \cup ToSet(ign[p]) \cup (IF pc[p] = "copy" THEN {held[p]} ELSE {})
         = Unread(p))'
  BY <1>1 DEF HeldSet, Unread
<1> QED
  BY <1>2 DEF Mailed

\* Nothing is sent to p, and p gives back no slot.
LEMMA MailedKept ==
    ASSUME TypeOK, AllOwned, TypeOK', AllOwned', NEW p \in Procs,
           free'[p] = free[p], msg'[p] = msg[p],
           (pc[p] # "free" /\ pc'[p] # "free") \/ (pc'[p] = pc[p] /\ held'[p] = held[p])
    PROVE  InUse(p)' = InUse(p) /\ Mailed(p)' = Mailed(p)
<1>1. InUse(p)' = InUse(p) /\ Unread(p)' = Unread(p)
  BY DEF InUse, Unread
<1>2. Mailed(p) = {msg[p][s] : s \in Unread(p)} /\ Mailed(p)' = {msg'[p][s] : s \in Unread(p)'}
  BY MailedSlots, MailedSlotsNext
<1> QED
  BY <1>1, <1>2

\* The first section of send to q.
LEMMA MailedMore ==
    ASSUME TypeOK, AllOwned, TypeOK', AllOwned', NEW q \in Procs, NEW m, Enqueue(q, m),
           UNCHANGED held, pc[q] = "free" <=> pc'[q] = "free"
    PROVE  /\ Mailed(q)' = Mailed(q) \cup {m}
           /\ \E s \in Slots \ InUse(q) :
                 /\ InUse(q)' = InUse(q) \cup {s} /\ msg'[q][s] = m
                 /\ \A t \in InUse(q) : msg'[q][t] = msg[q][t]
           /\ \A p \in Procs \ {q} : free'[p] = free[p] /\ msg'[p] = msg[p]
<1>1. PICK s \in Slots : /\ free[q][s]
                         /\ free' = [free EXCEPT ![q][s] = FALSE]
                         /\ msg' = [msg EXCEPT ![q][s] = m]
  BY DEF Enqueue, IsFirstEmpty
<1>2. /\ free \in [Procs -> [Slots -> BOOLEAN]]
      /\ msg \in [Procs -> [Slots -> Message \cup {Nil}]]
  BY DEF TypeOK
<1>3. /\ s \notin InUse(q) /\ InUse(q)' = InUse(q) \cup {s} /\ msg'[q][s] = m
      /\ \A t \in InUse(q) : msg'[q][t] = msg[q][t]
  BY <1>1, <1>2 DEF InUse
<1>4. Unread(q)' = Unread(q) \cup {s} /\ Unread(q) \subseteq InUse(q)
  <2>1. pc[q] = "free" => held[q] \in InUse(q)
    BY MailedSlots
  <2> QED
    BY <1>3, <2>1 DEF Unread
<1>5. Mailed(q)' = Mailed(q) \cup {m}
  <2>1. Mailed(q) = {msg[q][t] : t \in Unread(q)} /\ Mailed(q)' = {msg'[q][t] : t \in Unread(q)'}
    BY MailedSlots, MailedSlotsNext
  <2> QED
    BY <1>3, <1>4, <2>1
<1>6. \A p \in Procs \ {q} : free'[p] = free[p] /\ msg'[p] = msg[p]
  BY <1>1, <1>2
<1> QED
  BY <1>3, <1>5, <1>6

\* *m = ptr -> msg: what is copied counts as mailed no more.
LEMMA MailedRead ==
    ASSUME TypeOK, AllOwned, TypeOK', AllOwned', NEW p \in Procs, Copy(p), Inbox(p)
    PROVE  /\ held[p] \in InUse(p) /\ msg[p][held[p]] \in Mailed(p)
           /\ InUse(p)' = InUse(p)
           /\ Mailed(p)' \subseteq Mailed(p) /\ Mailed(p) \subseteq Mailed(p)' \cup {msg[p][held[p]]}
           /\ msg[p][held[p]] # WriteBack => msg[p][held[p]] \notin Mailed(p)'
<1>1. /\ pc[p] = "copy" /\ pc'[p] = "free" /\ UNCHANGED <<free, msg, held>>
  BY DEF Copy, TypeOK
<1>2. held[p] \in InUse(p) /\ Mailed(p) = {msg[p][t] : t \in Unread(p)}
      /\ Mailed(p)' = {msg'[p][t] : t \in Unread(p)'}
  BY <1>1, MailedSlots, MailedSlotsNext
<1>3. /\ InUse(p)' = InUse(p) /\ Unread(p) = InUse(p) /\ Unread(p)' = InUse(p) \ {held[p]}
  BY <1>1 DEF InUse, Unread
<1>4. \A t \in InUse(p) : msg[p][t] = msg[p][held[p]] /\ msg[p][held[p]] # WriteBack => t = held[p]
  BY <1>2 DEF Inbox
<1> QED
  BY <1>1, <1>2, <1>3, <1>4

\* ptr -> flag = TRUE: the slot has been copied before.
LEMMA MailedFreed ==
    ASSUME TypeOK, AllOwned, TypeOK', AllOwned', NEW p \in Procs, Free(p), Inbox(p)
    PROVE  /\ held[p] \in InUse(p) /\ InUse(p)' = InUse(p) \ {held[p]}
           /\ Mailed(p)' = Mailed(p)
           /\ \A t \in InUse(p)' : msg'[p][t] = msg[p][t]
           /\ msg[p][held[p]] # WriteBack => msg[p][held[p]] \notin Mailed(p)
<1>1. /\ free \in [Procs -> [Slots -> BOOLEAN]]
      /\ msg \in [Procs -> [Slots -> Message \cup {Nil}]]
      /\ held \in [Procs -> Slots \cup {NoSlot}]
      /\ pc[p] = "free" /\ pc'[p] = "user"
      /\ free' = [free EXCEPT ![p][held[p]] = TRUE]
      /\ msg' = [msg EXCEPT ![p][held[p]] = Nil]
  BY DEF Free, TypeOK
<1>2. held[p] \in InUse(p) /\ Mailed(p) = {msg[p][t] : t \in Unread(p)}
      /\ Mailed(p)' = {msg'[p][t] : t \in Unread(p)'}
  BY <1>1, MailedSlots, MailedSlotsNext
<1>3. held[p] \in Slots
  BY <1>2 DEF InUse
<1>4. InUse(p)' = InUse(p) \ {held[p]} /\ \A t \in InUse(p)' : msg'[p][t] = msg[p][t]
  BY <1>1, <1>3 DEF InUse
<1>5. Unread(p) = InUse(p) \ {held[p]} /\ Unread(p)' = InUse(p)'
  BY <1>1 DEF Unread
<1>6. \A t \in InUse(p) : msg[p][t] = msg[p][held[p]] /\ msg[p][held[p]] # WriteBack => t = held[p]
  BY <1>2 DEF Inbox
<1> QED
  BY <1>2, <1>4, <1>5, <1>6
-----------------------------------------------------------------------------
(***************************************************************************)
(* The invariant, with what it says of a caller and of the drive written   *)
(* out.                                                                    *)
(***************************************************************************)
Flight(c) == OneOf(Sent(c), Served(c), Answered(c), Asked(c))

ReadyTaken == step[IDE] = "waits" /\ pc[IDE] \in {"free", "user"} /\ got[IDE] = Ready

Drive == OneOf(disk = "busy", Ready \in Mailed(IDE), ReadyTaken, step[IDE] \in {"disk", "waits"})

Protocol ==
    /\ \A p \in Clients : Inbox(p) /\ Program(p)
    /\ Work /\ Drive
    /\ \A c \in Callers : Flight(c)
    /\ Cardinality(WriteBacks) <= MaxWriteBacks

LEMMA InvParts == DiskInv <=> IInv /\ DiskTypeOK /\ NoPanic /\ Protocol
<1>1. ASSUME NEW c \in Callers
      PROVE  OnePlace([sent |-> Sent(c), served |-> Served(c), answered |-> Answered(c)], Asked(c))
                <=> Flight(c)
  <2>1. Sent(c) \in BOOLEAN /\ Served(c) \in BOOLEAN /\ Answered(c) \in BOOLEAN /\ Asked(c) \in BOOLEAN
    BY DEF Sent, Served, Answered, Asked
  <2> QED
    BY <2>1, OnePlaceRequest, Zenon DEF Flight
<1>2. OneCommand <=> Drive
  <2> DEFINE busy == disk = "busy"
             sent == Ready \in Mailed(IDE)
             awaited == step[IDE] \in {"disk", "waits"}
  <2>1. busy \in BOOLEAN /\ sent \in BOOLEAN /\ ReadyTaken \in BOOLEAN /\ awaited \in BOOLEAN
    BY DEF ReadyTaken
  <2>2. OneCommand <=> OnePlace([busy |-> busy, sent |-> sent, taken |-> ReadyTaken], awaited)
    BY DEF OneCommand, ReadyTaken
  <2>3. Drive <=> OneOf(busy, sent, ReadyTaken, awaited)
    BY DEF Drive
  <2> HIDE DEF busy, sent, awaited
  <2> QED
    BY <2>1, <2>2, <2>3, OnePlaceCommand, Zenon
<1> QED
  BY <1>1, <1>2 DEF DiskInv, Protocol, OneRequest
-----------------------------------------------------------------------------
(***************************************************************************)
(* What a step says of the processes that it leaves alone.                 *)
(***************************************************************************)
Still(p) ==
    /\ step'[p] = step[p] /\ pc'[p] = pc[p] /\ arg'[p] = arg[p] /\ held'[p] = held[p]
    /\ got'[p] = got[p] /\ msg'[p] = msg[p] /\ free'[p] = free[p]

LEMMA StillKeeps ==
    ASSUME TypeOK, AllOwned, TypeOK', AllOwned', NEW p \in Clients,
           Inbox(p), Program(p), Still(p)
    PROVE  Inbox(p)' /\ Program(p)' /\ InUse(p)' = InUse(p) /\ Mailed(p)' = Mailed(p)
<1>1. InUse(p)' = InUse(p) /\ Mailed(p)' = Mailed(p)
  BY Roles, MailedKept DEF Still
<1>2. Inbox(p)'
  BY <1>1 DEF Still, Inbox
<1>3. Filter(p)' = Filter(p)
  BY DEF Still, Filter
<1>4. Program(p)'
  BY <1>3 DEF Still, Program
<1> QED
  BY <1>1, <1>2, <1>4

LEMMA FlightSame ==
    ASSUME NEW c, Flight(c), Sent(c)' <=> Sent(c), Served(c)' <=> Served(c),
           Answered(c)' <=> Answered(c), Asked(c)' <=> Asked(c)
    PROVE  Flight(c)'
  BY DEF Flight, OneOf

LEMMA CallerFacts ==
    ASSUME NEW c \in Callers
    PROVE  /\ c \in Clients /\ c \in Procs /\ c # IDE
           /\ ServerOf(c) \in {FM, IDE} /\ ServerOf(c) # c
           /\ c = FM <=> ServerOf(c) = IDE
  BY Roles DEF Callers, ServerOf

\* Everybody's slots and messages stay.
LEMMA WriteBacksSame ==
    ASSUME Cardinality(WriteBacks) <= MaxWriteBacks, InUse(IDE)' = InUse(IDE), msg'[IDE] = msg[IDE]
    PROVE  (Cardinality(WriteBacks) <= MaxWriteBacks)'
<1>1. WriteBacks' = WriteBacks
  BY DEF WriteBacks
<1> QED
  BY <1>1

(***************************************************************************)
(* A process inside send or receive that goes on to its next section.      *)
(***************************************************************************)
Onward(p, x) ==
    /\ UNCHANGED <<free, msg, got, arg, step, client, disk>>
    /\ pc' = [pc EXCEPT ![p] = x]
    /\ \A q \in Procs \ {p} : held'[q] = held[q]
    /\ \/ pc[p] = "sendV" /\ x = "user"
       \/ /\ pc[p] \in {"P", "int80", "cli", "deq"}
          /\ \/ x \in {"P", "int80", "cli", "deq"}
             \/ x = "copy" /\ Matches(arg[p], msg[p][held'[p]].src)

LEMMA OnwardKeeps ==
    ASSUME TypeOK, AllOwned, TypeOK', AllOwned', Protocol,
           NEW p \in Clients, NEW x, Onward(p, x)
    PROVE  Protocol'
<1>1. /\ p \in Procs /\ pc'[p] = x /\ UNCHANGED <<free, msg, got, arg, step, client, disk>>
      /\ \A q \in Procs \ {p} : pc'[q] = pc[q] /\ held'[q] = held[q]
      /\ \/ pc[p] = "sendV" /\ x = "user"
         \/ /\ pc[p] \in {"P", "int80", "cli", "deq"}
            /\ \/ x \in {"P", "int80", "cli", "deq"}
               \/ x = "copy" /\ Matches(arg[p], msg[p][held'[p]].src)
  BY Roles DEF Onward, TypeOK
<1>2. \A q \in Clients : Inbox(q) /\ Program(q)
  BY DEF Protocol
<1>3. ASSUME NEW q \in Clients
      PROVE  InUse(q)' = InUse(q) /\ Mailed(q)' = Mailed(q)
  <2>1. (pc[q] # "free" /\ pc'[q] # "free") \/ (pc'[q] = pc[q] /\ held'[q] = held[q])
    BY <1>1, Roles
  <2> QED
    BY <1>1, <2>1, Roles, MailedKept
<1>4. ASSUME NEW q \in Clients
      PROVE  Inbox(q)' /\ Program(q)'
  <2>1. CASE q # p
    BY <1>1, <1>2, <2>1, Roles, StillKeeps DEF Still
  <2>2. CASE q = p
    <3>1. Filter(p)' = Filter(p)
      BY <1>1 DEF Filter
    <3>2. Program(p)'
      BY <1>1, <1>2, <3>1 DEF Program
    <3>3. Inbox(p)'
      BY <1>1, <1>2, <1>3 DEF Inbox
    <3> QED
      BY <2>2, <3>2, <3>3
  <2> QED
    BY <2>1, <2>2
<1>5. /\ step[p] = "serve" => pc[p] \notin {"free", "user"} /\ x \notin {"free", "user"}
      /\ step[p] = "waits" => /\ pc[p] \notin {"free", "user"} /\ x \notin {"free", "user"}
  BY <1>1, <1>2 DEF Program
<1>6. \A s \in {FM, IDE} : Taken(s)' <=> Taken(s)
  BY <1>1, <1>5, Roles DEF Taken
<1>7. \A s \in {FM, IDE} : AtWork(s)' <=> AtWork(s)
  BY <1>1 DEF AtWork
<1>8. Work'
  BY <1>1, <1>6, <1>7 DEF Protocol, Work
<1>9. Drive'
  <2>1. ReadyTaken' <=> ReadyTaken
    BY <1>1, <1>5, Roles DEF ReadyTaken
  <2> QED
    BY <1>1, <1>3, <2>1, Roles DEF Protocol, Drive, OneOf
<1>10. ASSUME NEW c \in Callers
       PROVE  Flight(c)'
  <2>1. Sent(c)' <=> Sent(c)
    BY <1>3, Roles, CallerFacts DEF Sent
  <2>2. Served(c)' <=> Served(c)
    BY <1>1, <1>6, <1>7, CallerFacts DEF Served
  <2>3. Answered(c)' <=> Answered(c)
    BY <1>1, <1>3, <1>5, CallerFacts DEF Answered
  <2>4. Asked(c)' <=> Asked(c)
    BY <1>1, <1>5, CallerFacts DEF Asked
  <2>5. Flight(c)
    BY DEF Protocol
  <2> QED
    BY <2>1, <2>2, <2>3, <2>4, <2>5, FlightSame
<1>11. (Cardinality(WriteBacks) <= MaxWriteBacks)'
  BY <1>1, <1>3, Roles, WriteBacksSame DEF Protocol
<1> QED
  BY <1>4, <1>8, <1>9, <1>10, <1>11 DEF Protocol

LEMMA ContinueOnward ==
    ASSUME TypeOK, UNCHANGED diskVars, NEW p \in Procs, pc[p] = "deq" => rec[p] # <<>>,
           SendV(p) \/ SemP(p) \/ RequestSched(p) \/ Yield(p) \/ Dequeue(p)
    PROVE  \E x : Onward(p, x)
<1>1. UNCHANGED <<step, client, disk>> /\ held \in [Procs -> Slots \cup {NoSlot}]
  BY DEF diskVars, TypeOK
<1>2. CASE SendV(p)
  BY <1>1, <1>2 DEF SendV, Onward
<1>3. CASE SemP(p)
  BY <1>1, <1>3 DEF SemP, SemTake, SemSleep, Onward
<1>4. CASE RequestSched(p)
  BY <1>1, <1>4 DEF RequestSched, Onward
<1>5. CASE Yield(p)
  BY <1>1, <1>5 DEF Yield, Onward
<1>6. CASE Dequeue(p)
  <2>0. rec[p] # <<>>
    BY <1>6 DEF Dequeue
  <2>1. CASE Accept(p)
    <3>1. /\ pc[p] = "deq" /\ pc' = [pc EXCEPT ![p] = "copy"]
          /\ held' = [held EXCEPT ![p] = Head(rec[p])]
          /\ Matches(arg[p], msg[p][Head(rec[p])].src)
          /\ UNCHANGED <<free, msg, got, arg>>
      BY <1>6, <2>0, <2>1 DEF Dequeue, Accept
    <3>2. held'[p] = Head(rec[p]) /\ \A q \in Procs \ {p} : held'[q] = held[q]
      BY <1>1, <3>1
    <3> QED
      BY <1>1, <3>1, <3>2 DEF Onward
  <2>2. CASE PutAside(p)
    BY <1>1, <1>6, <2>0, <2>2 DEF Dequeue, PutAside, Onward
  <2> QED
    BY <1>6, <2>0, <2>1, <2>2 DEF Dequeue
<1> QED
  BY <1>2, <1>3, <1>4, <1>5, <1>6

(***************************************************************************)
(* *m = ptr -> msg: the message is with its receiver.                      *)
(***************************************************************************)
LEMMA CopyKeeps ==
    ASSUME TypeOK, AllOwned, TypeOK', AllOwned', Protocol, UNCHANGED diskVars,
           NEW p \in Clients, Copy(p)
    PROVE  Protocol'
<1> DEFINE m == msg[p][held[p]]
<1>1. /\ p \in Procs /\ UNCHANGED <<free, msg, arg, held, step, client, disk>>
      /\ pc[p] = "copy" /\ pc'[p] = "free" /\ got'[p] = m
      /\ \A q \in Procs \ {p} : pc'[q] = pc[q] /\ got'[q] = got[q]
  BY Roles DEF Copy, TypeOK, diskVars
<1>2. \A q \in Clients : Inbox(q) /\ Program(q)
  BY DEF Protocol
<1>3. /\ held[p] \in InUse(p) /\ m \in Mailed(p)
      /\ InUse(p)' = InUse(p)
      /\ Mailed(p)' \subseteq Mailed(p) /\ Mailed(p) \subseteq Mailed(p)' \cup {m}
      /\ m # WriteBack => m \notin Mailed(p)'
  BY <1>1, <1>2, MailedRead
<1>4. m \in Expected(p)
  BY <1>2, <1>3 DEF Inbox
<1>5. step[p] \in {"serve", "waits"} /\ arg[p] = Filter(p) /\ Matches(Filter(p), m.src)
  BY <1>1, <1>2 DEF Program, Places
<1> HIDE DEF m
<1>6. ASSUME NEW q \in Clients
      PROVE  /\ Inbox(q)' /\ Program(q)' /\ InUse(q)' = InUse(q)
             /\ q # p => Mailed(q)' = Mailed(q)
  <2>1. CASE q # p
    BY <1>1, <1>2, <2>1, Roles, StillKeeps DEF Still
  <2>2. CASE q = p
    <3>1. Filter(p)' = Filter(p)
      BY <1>1 DEF Filter
    <3>2. Program(p)'
      BY <1>1, <1>2, <3>1 DEF Program, m
    <3>3. Inbox(p)'
      BY <1>1, <1>2, <1>3 DEF Inbox
    <3> QED
      BY <1>3, <2>2, <3>2, <3>3
  <2> QED
    BY <2>1, <2>2
<1>7. /\ p = FM /\ step[FM] = "serve" => \E u \in Users : m = Request(u)
      /\ p = FM /\ step[FM] = "waits" => m = Reply(IDE)
      /\ p = IDE /\ step[IDE] = "serve" => m \in {Request(FM), WriteBack}
      /\ p = IDE /\ step[IDE] = "waits" => m \in {Ready, WriteBack}
      /\ p \in Users => step[p] = "waits" /\ m = Reply(FM)
  <2>1. ASSUME p = FM, step[FM] = "serve"
        PROVE  \E u \in Users : m = Request(u)
    <3>1. m # Reply(IDE)
      <4>1. Flight(FM)
        BY DEF Protocol, Callers
      <4>2. ~Asked(FM)
        BY <2>1 DEF Asked
      <4> QED
        BY <1>3, <2>1, <4>1, <4>2 DEF Flight, OneOf, Answered, ServerOf
    <3> QED
      BY <1>4, <2>1, <3>1, Roles DEF Expected
  <2>2. ASSUME p = FM, step[FM] = "waits"
        PROVE  m = Reply(IDE)
    BY <1>4, <1>5, <2>2, Roles DEF Expected, Filter, Matches, Request
  <2>3. ASSUME p = IDE, step[IDE] = "serve"
        PROVE  m \in {Request(FM), WriteBack}
    <3>1. m # Ready
      BY <1>3, <2>3 DEF Protocol, Drive, OneOf
    <3> QED
      BY <1>4, <2>3, <3>1, Roles DEF Expected
  <2>4. ASSUME p = IDE, step[IDE] = "waits"
        PROVE  m \in {Ready, WriteBack}
    BY <1>4, <1>5, <2>4, Roles DEF Expected, Filter, Matches, Request
  <2>5. ASSUME p \in Users
        PROVE  step[p] = "waits" /\ m = Reply(FM)
    BY <1>2, <1>4, <1>5, <2>5, Roles DEF Expected, Program, Places
  <2> QED
    BY <2>1, <2>2, <2>3, <2>4, <2>5
<1>8. \A s \in {FM, IDE} : (AtWork(s)' <=> AtWork(s)) /\ (s # p => (Taken(s)' <=> Taken(s)))
  BY <1>1, Roles DEF AtWork, Taken
<1>9. Taken(p)' <=> step[p] = "serve"
  BY <1>1 DEF Taken
<1>10. ~Taken(p)
  BY <1>1 DEF Taken
<1>11. Work'
  <2>1. Taken(FM)' => got'[FM].src \in Users
    BY <1>1, <1>7, <1>8, <1>9, Roles DEF Protocol, Work, Request
  <2>2. Taken(IDE)' => got'[IDE] # Ready
    BY <1>1, <1>7, <1>8, <1>9, Roles DEF Protocol, Work, Request, Ready, WriteBack
  <2> QED
    BY <1>1, <1>8, <2>1, <2>2 DEF Protocol, Work
<1>12. Drive'
  <2>1. CASE p # IDE
    <3>1. (ReadyTaken' <=> ReadyTaken) /\ Mailed(IDE)' = Mailed(IDE)
      BY <1>1, <1>6, <2>1, Roles DEF ReadyTaken
    <3> QED
      BY <1>1, <3>1 DEF Protocol, Drive, OneOf
  <2>2. CASE p = IDE /\ step[IDE] = "serve"
    <3>1. (Ready \in Mailed(IDE)' <=> Ready \in Mailed(IDE)) /\ ~ReadyTaken /\ ~ReadyTaken'
      BY <1>1, <1>3, <1>7, <2>2 DEF ReadyTaken, Ready, WriteBack, Request
    <3> QED
      BY <1>1, <2>2, <3>1 DEF Protocol, Drive, OneOf
  <2>3. CASE p = IDE /\ step[IDE] = "waits" /\ m = Ready
    <3>1. Ready \in Mailed(IDE) /\ Ready \notin Mailed(IDE)' /\ ~ReadyTaken /\ ReadyTaken'
      BY <1>1, <1>3, <2>3 DEF ReadyTaken, Ready, WriteBack
    <3> QED
      BY <1>1, <2>3, <3>1 DEF Protocol, Drive, OneOf
  <2>4. CASE p = IDE /\ step[IDE] = "waits" /\ m = WriteBack
    <3>1. (Ready \in Mailed(IDE)' <=> Ready \in Mailed(IDE)) /\ ~ReadyTaken /\ ~ReadyTaken'
      BY <1>1, <1>3, <2>4 DEF ReadyTaken, Ready, WriteBack
    <3> QED
      BY <1>1, <2>4, <3>1 DEF Protocol, Drive, OneOf
  <2> QED
    BY <1>5, <1>7, <2>1, <2>2, <2>3, <2>4
<1>13. ASSUME NEW c \in Callers
       PROVE  Flight(c)'
  <2>1. Flight(c) /\ (Asked(c)' <=> Asked(c))
    BY <1>1, CallerFacts DEF Protocol, Asked
  <2>2. CASE c = p
    <3>1. step[c] = "serve" \/ (step[c] = "waits" /\ m = Reply(ServerOf(c)))
      BY <1>5, <1>7, <2>2, Roles DEF Callers, ServerOf
    <3>2. (Sent(c)' <=> Sent(c)) /\ (Served(c)' <=> Served(c))
      BY <1>1, <1>6, <1>8, <2>2, CallerFacts, Roles DEF Sent, Served
    <3>3. Answered(c)' <=> Answered(c)
      <4>1. CASE step[c] = "serve"
        <5>1. m # Reply(ServerOf(c))
          BY <1>7, <2>2, <4>1, Roles DEF Callers, Request, Reply
        <5> QED
          BY <1>1, <1>3, <2>2, <4>1, <5>1 DEF Answered
      <4>2. CASE step[c] = "waits" /\ m = Reply(ServerOf(c))
        BY <1>1, <1>3, <2>2, <4>2 DEF Answered
      <4> QED
        BY <3>1, <4>1, <4>2
    <3> QED
      BY <2>1, <3>2, <3>3, FlightSame
  <2>3. CASE c # p /\ p = ServerOf(c) /\ m = Request(c)
    <3>1. step[p] = "serve"
      BY <1>5, <1>7, <2>3, CallerFacts, Roles DEF Request, Reply, Ready, WriteBack, ServerOf
    <3>2. Sent(c) /\ ~Sent(c)'
      BY <1>3, <2>3 DEF Sent, Request, WriteBack
    <3>3. Served(c)'
      BY <1>1, <1>9, <2>3, <3>1 DEF Served, Request
    <3>4. Answered(c)' <=> Answered(c)
      BY <1>1, <1>6, <2>3, CallerFacts DEF Answered
    <3> QED
      BY <2>1, <3>2, <3>3, <3>4 DEF Flight, OneOf
  <2>4. CASE c # p /\ p = ServerOf(c) /\ m # Request(c)
    <3>1. Sent(c)' <=> Sent(c)
      BY <1>3, <2>4 DEF Sent
    <3>2. Served(c)' <=> Served(c)
      <4>1. step[p] = "serve" => m.src # c
        BY <1>7, <2>4, CallerFacts, Roles DEF Request, WriteBack
      <4> QED
        BY <1>1, <1>8, <1>9, <1>10, <2>4, <4>1, CallerFacts DEF Served
    <3>3. Answered(c)' <=> Answered(c)
      BY <1>1, <1>6, <2>4, CallerFacts DEF Answered
    <3> QED
      BY <2>1, <3>1, <3>2, <3>3, FlightSame
  <2>5. CASE c # p /\ p # ServerOf(c)
    <3>1. (Sent(c)' <=> Sent(c)) /\ (Answered(c)' <=> Answered(c))
      BY <1>1, <1>6, <2>5, CallerFacts, Roles DEF Sent, Answered
    <3>2. Served(c)' <=> Served(c)
      BY <1>1, <1>8, <2>5, CallerFacts, Roles DEF Served
    <3> QED
      BY <2>1, <3>1, <3>2, FlightSame
  <2> QED
    BY <2>2, <2>3, <2>4, <2>5
<1>14. (Cardinality(WriteBacks) <= MaxWriteBacks)'
  BY <1>1, <1>6, Roles, WriteBacksSame DEF Protocol
<1> QED
  BY <1>6, <1>11, <1>12, <1>13, <1>14 DEF Protocol

(***************************************************************************)
(* ptr -> flag = TRUE, and receive returns.                                *)
(***************************************************************************)
LEMMA ReceiveReturns ==
    ASSUME TypeOK, AllOwned, TypeOK', AllOwned', Protocol, UNCHANGED diskVars,
           NEW p \in Clients, Free(p)
    PROVE  Protocol'
<1> DEFINE m == msg[p][held[p]]
<1>1. /\ p \in Procs /\ UNCHANGED <<arg, got, step, client, disk>>
      /\ pc[p] = "free" /\ pc'[p] = "user"
      /\ \A q \in Procs \ {p} :
            pc'[q] = pc[q] /\ held'[q] = held[q] /\ free'[q] = free[q] /\ msg'[q] = msg[q]
  BY Roles DEF Free, TypeOK, diskVars
<1>2. \A q \in Clients : Inbox(q) /\ Program(q)
  BY DEF Protocol
<1>3. /\ held[p] \in InUse(p) /\ InUse(p)' = InUse(p) \ {held[p]} /\ Mailed(p)' = Mailed(p)
      /\ \A t \in InUse(p)' : msg'[p][t] = msg[p][t]
      /\ m # WriteBack => m \notin Mailed(p)
  BY <1>1, <1>2, MailedFreed
<1>4. m \in Expected(p)
  BY <1>2, <1>3 DEF Inbox
<1>5. step[p] \in {"serve", "waits"} /\ Matches(Filter(p), m.src) /\ got[p] = m
  BY <1>1, <1>2 DEF Program, Places
<1> HIDE DEF m
<1>6. ASSUME NEW q \in Clients
      PROVE  Inbox(q)' /\ Program(q)' /\ Mailed(q)' = Mailed(q)
  <2>1. CASE q # p
    BY <1>1, <1>2, <2>1, Roles, StillKeeps DEF Still
  <2>2. CASE q = p
    <3>1. Filter(p)' = Filter(p)
      BY <1>1 DEF Filter
    <3>2. Program(p)'
      BY <1>1, <1>2, <1>4, <1>5, <3>1 DEF Program
    <3>3. Inbox(p)'
      BY <1>2, <1>3 DEF Inbox
    <3> QED
      BY <1>3, <2>2, <3>2, <3>3
  <2> QED
    BY <2>1, <2>2
<1>7. p \in Callers /\ step[p] = "waits" => m = Reply(ServerOf(p))
  <2>1. CASE p = FM /\ step[p] = "waits"
    BY <1>4, <1>5, <2>1, Roles DEF Expected, Filter, Matches, Request, ServerOf
  <2>2. CASE p \in Users
    BY <1>4, <2>2, Roles DEF Expected, ServerOf
  <2> QED
    BY <2>1, <2>2 DEF Callers
<1>8. \A s \in {FM, IDE} : (AtWork(s)' <=> AtWork(s)) /\ (Taken(s)' <=> Taken(s))
  BY <1>1, Roles DEF AtWork, Taken
<1>9. Work'
  BY <1>1, <1>8 DEF Protocol, Work
<1>10. Drive'
  <2>1. ReadyTaken' <=> ReadyTaken
    BY <1>1, Roles DEF ReadyTaken
  <2> QED
    BY <1>1, <1>6, <2>1, Roles DEF Protocol, Drive, OneOf
<1>11. ASSUME NEW c \in Callers
       PROVE  Flight(c)'
  <2>1. Flight(c) /\ (Sent(c)' <=> Sent(c)) /\ (Served(c)' <=> Served(c))
    BY <1>1, <1>6, <1>8, CallerFacts, Roles DEF Protocol, Sent, Served
  <2>2. CASE c = p /\ step[c] = "waits"
    <3>1. Answered(c) /\ ~Answered(c)' /\ ~Asked(c)'
      BY <1>1, <1>3, <1>7, <2>2 DEF Answered, Asked, Reply, WriteBack
    <3> QED
      BY <2>1, <3>1 DEF Flight, OneOf
  <2>3. CASE c # p \/ step[c] # "waits"
    <3>1. (Asked(c)' <=> Asked(c)) /\ (Answered(c)' <=> Answered(c))
      BY <1>1, <1>6, <2>3, CallerFacts DEF Asked, Answered
    <3> QED
      BY <2>1, <3>1, FlightSame
  <2> QED
    BY <2>2, <2>3
<1>12. (Cardinality(WriteBacks) <= MaxWriteBacks)'
  <2>1. IsFiniteSet(WriteBacks) /\ WriteBacks' \subseteq WriteBacks
    <3>1. IsFiniteSet(Slots)
      BY PoolAssumption, FS_Interval DEF Slots
    <3>2. IsFiniteSet(WriteBacks)
      BY <3>1, FS_Subset DEF WriteBacks, InUse
    <3>3. WriteBacks' \subseteq WriteBacks
      <4>1. CASE p = IDE
        BY <1>3, <4>1 DEF WriteBacks
      <4>2. CASE p # IDE
        BY <1>1, <4>2, Roles DEF WriteBacks, InUse
      <4> QED
        BY <4>1, <4>2
    <3> QED
      BY <3>2, <3>3
  <2>2. /\ Cardinality(WriteBacks') \in Nat /\ Cardinality(WriteBacks) \in Nat
        /\ Cardinality(WriteBacks') <= Cardinality(WriteBacks)
    BY <2>1, FS_Subset, FS_CardinalityType
  <2> QED
    BY <2>2, RoleAssumption DEF Protocol
<1> QED
  BY <1>6, <1>9, <1>10, <1>11, <1>12 DEF Protocol

(***************************************************************************)
(* receive begins, with what its caller does next.                         *)
(***************************************************************************)
Begins(p, f, x) ==
    /\ pc[p] = "user" /\ pc'[p] \in {"P", "copy"} /\ arg'[p] = f
    /\ pc'[p] = "copy" => Matches(f, msg[p][held'[p]].src)
    /\ step'[p] = x
    /\ UNCHANGED <<free, msg, got, client, disk>>
    /\ \A q \in Procs \ {p} : pc'[q] = pc[q] /\ arg'[q] = arg[q] /\ held'[q] = held[q]
    /\ \A q \in Clients \ {p} : step'[q] = step[q]

LEMMA ReceivesBegins ==
    ASSUME TypeOK, DiskTypeOK, NEW p \in Clients, NEW f, NEW x, NEW y,
           Receives(p, x, f, y), UNCHANGED <<client, disk>>
    PROVE  step[p] = x /\ Begins(p, f, y)
<1>1. /\ p \in Procs /\ step[p] = x /\ step' = [step EXCEPT ![p] = y]
      /\ step \in [Clients -> Step] /\ pc \in [Procs -> PC] /\ arg \in [Procs -> Filters]
      /\ held \in [Procs -> Slots \cup {NoSlot}]
  BY Roles DEF Receives, TypeOK, DiskTypeOK
<1>2. CASE ReceiveIgnored(p, f)
  <2>1. PICK i \in 1 .. Len(ign[p]) :
           /\ Matches(f, msg[p][ign[p][i]].src) /\ held' = [held EXCEPT ![p] = ign[p][i]]
    BY <1>2 DEF ReceiveIgnored, IsFirstIgnored
  <2>2. /\ pc[p] = "user" /\ pc' = [pc EXCEPT ![p] = "copy"] /\ arg' = [arg EXCEPT ![p] = f]
        /\ UNCHANGED <<free, msg, got>>
    BY <1>2 DEF ReceiveIgnored
  <2>3. held'[p] = ign[p][i]
    BY <1>1, <2>1
  <2> QED
    BY <1>1, <2>1, <2>2, <2>3 DEF Begins
<1>3. CASE ReceiveNew(p, f)
  BY <1>1, <1>3 DEF ReceiveNew, Begins
<1> QED
  BY <1>2, <1>3 DEF Receives

LEMMA BeginsKeeps ==
    ASSUME TypeOK, AllOwned, TypeOK', AllOwned', Protocol,
           NEW p \in Clients, NEW f, NEW x, Begins(p, f, x),
           \/ p \in Servers /\ f = AnySrc /\ step[p] = "go" /\ x = "serve"
           \/ p \in Users /\ f = FM /\ step[p] = "asked" /\ x = "waits"
           \/ p = FM /\ f = IDE /\ step[p] = "asked" /\ x = "waits"
           \/ p = IDE /\ f = HardIntr /\ step[p] = "disk" /\ x = "waits"
    PROVE  Protocol'
<1>1. /\ p \in Procs /\ pc[p] = "user" /\ pc'[p] \in {"P", "copy"} /\ arg'[p] = f
      /\ pc'[p] = "copy" => Matches(f, msg[p][held'[p]].src)
      /\ step'[p] = x
      /\ UNCHANGED <<free, msg, got, client, disk>>
      /\ \A q \in Procs \ {p} : pc'[q] = pc[q] /\ arg'[q] = arg[q] /\ held'[q] = held[q]
      /\ \A q \in Clients \ {p} : step'[q] = step[q]
  BY Roles DEF Begins
<1>2. \A q \in Clients : Inbox(q) /\ Program(q)
  BY DEF Protocol
<1>3. ASSUME NEW q \in Clients
      PROVE  Inbox(q)' /\ Program(q)' /\ InUse(q)' = InUse(q) /\ Mailed(q)' = Mailed(q)
  <2>1. CASE q # p
    BY <1>1, <1>2, <2>1, Roles, StillKeeps DEF Still
  <2>2. CASE q = p
    <3>1. InUse(p)' = InUse(p) /\ Mailed(p)' = Mailed(p)
      BY <1>1, MailedKept
    <3>2. x \in {"serve", "waits"} /\ x \in Places(p)
      BY Roles DEF Places, Servers
    <3>3. Program(p)'
      <4>1. Filter(p)' = f
        <5>1. CASE x = "serve"
          BY <1>1, <5>1, Roles DEF Filter
        <5>2. CASE x = "waits"
          BY <1>1, <5>2, Roles DEF Filter
        <5> QED
          BY <3>2, <5>1, <5>2
      <4> QED
        BY <1>1, <3>2, <4>1 DEF Program
    <3>4. Inbox(p)'
      BY <1>1, <1>2, <3>1 DEF Inbox
    <3> QED
      BY <2>2, <3>1, <3>3, <3>4
  <2> QED
    BY <2>1, <2>2
<1>4. \A s \in {FM, IDE} : (AtWork(s)' <=> AtWork(s)) /\ (Taken(s)' <=> Taken(s))
  BY <1>1, Roles DEF AtWork, Taken, Servers
<1>5. Work'
  BY <1>1, <1>4 DEF Protocol, Work
<1>6. Drive'
  <2>1. (ReadyTaken' <=> ReadyTaken) /\ (step'[IDE] \in {"disk", "waits"} <=> step[IDE] \in {"disk", "waits"})
    BY <1>1, Roles DEF ReadyTaken
  <2> QED
    BY <1>1, <1>3, <2>1, Roles DEF Protocol, Drive, OneOf
<1>7. ASSUME NEW c \in Callers
      PROVE  Flight(c)'
  <2>1. Flight(c) /\ (Sent(c)' <=> Sent(c)) /\ (Served(c)' <=> Served(c))
    BY <1>1, <1>3, <1>4, CallerFacts, Roles DEF Protocol, Sent, Served
  <2>2. (Asked(c)' <=> Asked(c)) /\ (Answered(c)' <=> Answered(c))
    BY <1>1, <1>3, CallerFacts, Roles DEF Asked, Answered, Callers, Servers
  <2> QED
    BY <2>1, <2>2, FlightSame
<1>8. (Cardinality(WriteBacks) <= MaxWriteBacks)'
  BY <1>1, <1>3, Roles, WriteBacksSame DEF Protocol
<1> QED
  BY <1>3, <1>5, <1>6, <1>7, <1>8 DEF Protocol
-----------------------------------------------------------------------------
(***************************************************************************)
(* What is not in flight is in no slot, not even in the one that receive   *)
(* has still to give back: so it is never in two.                          *)
(***************************************************************************)
LEMMA HeldSlot ==
    ASSUME TypeOK, AllOwned, Protocol, NEW p \in Clients, NEW s \in InUse(p),
           msg[p][s] \notin Mailed(p)
    PROVE  /\ pc[p] = "free" /\ step[p] \in {"serve", "waits"} /\ got[p] = msg[p][s]
           /\ Matches(Filter(p), got[p].src)
<1>1. Mailed(p) = {msg[p][t] : t \in Unread(p)}
  BY Roles, MailedSlots
<1>2. pc[p] = "free" /\ s = held[p]
  BY <1>1 DEF Unread
<1>3. Program(p)
  BY DEF Protocol
<1> QED
  BY <1>2, <1>3 DEF Program, Places

LEMMA NoRequest ==
    ASSUME TypeOK, AllOwned, Protocol, NEW c \in Callers, ~Asked(c),
           NEW s \in InUse(ServerOf(c))
    PROVE  msg[ServerOf(c)][s] # Request(c)
<1> SUFFICES ASSUME msg[ServerOf(c)][s] = Request(c) PROVE FALSE
  OBVIOUS
<1>1. Flight(c) /\ ~Sent(c) /\ ~Served(c)
  BY DEF Protocol, Flight, OneOf
<1>2. PICK p : p = ServerOf(c)
  OBVIOUS
<1>3. p \in Clients /\ p \in {FM, IDE} /\ c \in Procs /\ c # IDE
  BY <1>2, Roles, CallerFacts
<1>4. msg[p][s] \notin Mailed(p) /\ s \in InUse(p)
  BY <1>1, <1>2 DEF Sent
<1>5. pc[p] = "free" /\ step[p] \in {"serve", "waits"} /\ got[p] = Request(c)
      /\ Matches(Filter(p), got[p].src)
  BY <1>2, <1>3, <1>4, HeldSlot
<1>6. step[p] = "waits" => Filter(p) \in {IDE, HardIntr}
  BY <1>3, Roles DEF Filter
<1>7. step[p] = "serve"
  BY <1>3, <1>5, <1>6, Roles DEF Matches, Request
<1> QED
  BY <1>1, <1>2, <1>5, <1>7 DEF Served, Taken, Request

LEMMA NoReply ==
    ASSUME TypeOK, AllOwned, Protocol, NEW c \in Callers, ~Answered(c), NEW s \in InUse(c)
    PROVE  msg[c][s] # Reply(ServerOf(c))
<1> SUFFICES ASSUME msg[c][s] = Reply(ServerOf(c)) PROVE FALSE
  OBVIOUS
<1>1. msg[c][s] \notin Mailed(c) /\ ~(step[c] = "waits" /\ pc[c] = "free") /\ c \in Clients
  BY CallerFacts DEF Answered
<1>2. pc[c] = "free" /\ step[c] = "serve" /\ got[c] = Reply(ServerOf(c))
  BY <1>1, HeldSlot
<1>3. c = FM
  <2>1. Program(c)
    BY <1>1 DEF Protocol
  <2> QED
    BY <1>2, <2>1, Roles DEF Program, Places, Callers
<1>4. got[FM].src \in Users
  BY <1>2, <1>3 DEF Protocol, Work, Taken
<1> QED
  BY <1>2, <1>3, <1>4, Roles DEF Reply, ServerOf

LEMMA NoReady ==
    ASSUME TypeOK, AllOwned, Protocol, disk = "busy", NEW s \in InUse(IDE)
    PROVE  msg[IDE][s] # Ready
<1> SUFFICES ASSUME msg[IDE][s] = Ready PROVE FALSE
  OBVIOUS
<1>1. Ready \notin Mailed(IDE) /\ ~ReadyTaken
  BY DEF Protocol, Drive, OneOf
<1>2. pc[IDE] = "free" /\ step[IDE] \in {"serve", "waits"} /\ got[IDE] = Ready
  BY <1>1, Roles, HeldSlot
<1> QED
  BY <1>1, <1>2 DEF ReadyTaken, Protocol, Work, Taken
-----------------------------------------------------------------------------
(***************************************************************************)
(* The pools have room.                                                    *)
(***************************************************************************)
LEMMA SlotsFinite == IsFiniteSet(Slots) /\ Cardinality(Slots) = PoolSize
  BY PoolAssumption, FS_Interval DEF Slots

LEMMA UsersFinite == IsFiniteSet(Users) /\ Cardinality(Users) \in Nat
  BY Roles, ProcsFacts, FS_Subset, FS_CardinalityType

\* FM has a message of each user and of IDE at most, and not of the sender c.
LEMMA FmHasRoom ==
    ASSUME Inbox(FM), NEW c \in Users \cup {IDE}, \A s \in InUse(FM) : msg[FM][s].src # c
    PROVE  ~PoolFull(FM)
<1> SUFFICES ASSUME InUse(FM) = Slots PROVE FALSE
  BY DEF PoolFull, InUse
<1> DEFINE T == (Users \cup {IDE}) \ {c}
           f == [s \in Slots |-> msg[FM][s].src]
<1>1. \A s \in Slots : msg[FM][s] \in {Request(u) : u \in Users} \cup {Reply(IDE)}
  BY Roles DEF Inbox, Expected
<1>2. \A s \in Slots : msg[FM][s].src \in T
  BY <1>1 DEF Request, Reply
<1>3. \A s, t \in Slots : msg[FM][s].src = msg[FM][t].src => s = t
  <2> SUFFICES ASSUME NEW s \in Slots, NEW t \in Slots, msg[FM][s].src = msg[FM][t].src
               PROVE  s = t
    OBVIOUS
  <2>1. msg[FM][s] = msg[FM][t] /\ msg[FM][s] # WriteBack
    BY <1>1, Roles DEF Request, Reply, WriteBack
  <2> QED
    BY <2>1 DEF Inbox
<1>4. IsFiniteSet(T) /\ Cardinality(T) = Cardinality(Users)
  <2>1. IsFiniteSet(Users \cup {IDE}) /\ Cardinality(Users \cup {IDE}) = Cardinality(Users) + 1
    BY UsersFinite, Roles, FS_AddElement
  <2>2. IsFiniteSet(T) /\ Cardinality(T) = Cardinality(Users \cup {IDE}) - 1
    BY <2>1, FS_RemoveElement
  <2> QED
    BY <2>1, <2>2, UsersFinite
<1> HIDE DEF T
<1>5. f \in Injection(Slots, T)
  BY <1>2, <1>3 DEF Injection, IsInjective
<1>6. Cardinality(Slots) <= Cardinality(T)
  BY <1>4, <1>5, FS_Injection
<1> QED
  BY <1>4, <1>6, SlotsFinite, UsersFinite, PoolAssumption, RoomAssumption

LEMMA AtMostOne ==
    ASSUME NEW S, \A s, t \in S : s = t
    PROVE  IsFiniteSet(S) /\ Cardinality(S) \in {0, 1}
<1>1. CASE S = {}
  BY <1>1, FS_EmptySet
<1>2. CASE S # {}
  <2>1. PICK s \in S : S = {s}
    BY <1>2
  <2> QED
    BY <2>1, FS_Singleton
<1> QED
  BY <1>1, <1>2

\* IDE has the write backs, a request and a ready message at most.
LEMMA IdeHasRoom ==
    ASSUME Inbox(IDE), Cardinality(WriteBacks) <= MaxWriteBacks,
           \/ Cardinality(WriteBacks) < MaxWriteBacks
           \/ \A s \in InUse(IDE) : msg[IDE][s] # Request(FM)
           \/ \A s \in InUse(IDE) : msg[IDE][s] # Ready
    PROVE  ~PoolFull(IDE)
<1> SUFFICES ASSUME InUse(IDE) = Slots PROVE FALSE
  BY DEF PoolFull, InUse
<1> DEFINE A == {s \in Slots : msg[IDE][s] = Request(FM)}
           B == {s \in Slots : msg[IDE][s] = Ready}
<1>1. IsFiniteSet(A) /\ Cardinality(A) \in {0, 1} /\ IsFiniteSet(B) /\ Cardinality(B) \in {0, 1}
  <2>1. (\A s, t \in A : s = t) /\ (\A s, t \in B : s = t)
    BY Roles DEF Inbox, Request, Ready, WriteBack
  <2> QED
    BY <2>1, AtMostOne
<1>2. /\ (\A s \in InUse(IDE) : msg[IDE][s] # Request(FM)) => Cardinality(A) = 0
      /\ (\A s \in InUse(IDE) : msg[IDE][s] # Ready) => Cardinality(B) = 0
  <2>1. /\ (\A s \in InUse(IDE) : msg[IDE][s] # Request(FM)) => A = {}
        /\ (\A s \in InUse(IDE) : msg[IDE][s] # Ready) => B = {}
    OBVIOUS
  <2> HIDE DEF A, B
  <2> QED
    BY <2>1, FS_EmptySet
<1>3. Slots \subseteq (WriteBacks \cup A) \cup B /\ WriteBacks \subseteq Slots
  BY Roles DEF Inbox, Expected, WriteBacks, WriteBack
<1>4. IsFiniteSet(WriteBacks) /\ Cardinality(WriteBacks) \in Nat
  BY <1>3, SlotsFinite, FS_Subset, FS_CardinalityType
<1> HIDE DEF A, B
<1>5. /\ IsFiniteSet(WriteBacks \cup A)
      /\ Cardinality(WriteBacks \cup A) <= Cardinality(WriteBacks) + Cardinality(A)
      /\ Cardinality(WriteBacks \cup A) \in Nat
  <2>1. /\ IsFiniteSet(WriteBacks \cup A) /\ IsFiniteSet(WriteBacks \cap A)
        /\ Cardinality(WriteBacks \cup A)
             = Cardinality(WriteBacks) + Cardinality(A) - Cardinality(WriteBacks \cap A)
    BY <1>1, <1>4, FS_Union, FS_Intersection
  <2>2. Cardinality(WriteBacks \cap A) \in Nat /\ Cardinality(WriteBacks \cup A) \in Nat
    BY <2>1, FS_CardinalityType
  <2> QED
    BY <1>1, <1>4, <2>1, <2>2
<1>6. /\ IsFiniteSet((WriteBacks \cup A) \cup B)
      /\ Cardinality((WriteBacks \cup A) \cup B) <= Cardinality(WriteBacks \cup A) + Cardinality(B)
      /\ Cardinality((WriteBacks \cup A) \cup B) \in Nat
  <2> DEFINE C == WriteBacks \cup A
  <2>1. /\ IsFiniteSet(C \cup B) /\ IsFiniteSet(C \cap B)
        /\ Cardinality(C \cup B) = Cardinality(C) + Cardinality(B) - Cardinality(C \cap B)
    BY <1>1, <1>5, FS_Union, FS_Intersection
  <2>2. Cardinality(C \cap B) \in Nat /\ Cardinality(C \cup B) \in Nat
    BY <2>1, FS_CardinalityType
  <2> QED
    BY <1>1, <1>5, <2>1, <2>2
<1>7. PoolSize <= Cardinality((WriteBacks \cup A) \cup B)
  BY <1>3, <1>6, SlotsFinite, FS_Subset
<1>8. Cardinality(WriteBacks) + Cardinality(A) + Cardinality(B) <= MaxWriteBacks + 1
  BY <1>1, <1>2, <1>4, RoleAssumption
<1> QED
  BY <1>1, <1>4, <1>5, <1>6, <1>7, <1>8, PoolAssumption, RoleAssumption, RoomAssumption

\* A user has the answer of FM at most.
LEMMA UserHasRoom ==
    ASSUME NEW u, InUse(u) = {}
    PROVE  ~PoolFull(u)
<1>1. 1 \in Slots
  BY PoolAssumption DEF Slots
<1> QED
  BY <1>1 DEF PoolFull, InUse
-----------------------------------------------------------------------------
(***************************************************************************)
(* A message that is not there yet is linked at q.                         *)
(***************************************************************************)
LEMMA PostMails ==
    ASSUME TypeOK, AllOwned, TypeOK', AllOwned', NEW q \in Clients, Inbox(q),
           NEW m \in Expected(q), Enqueue(q, m), UNCHANGED held,
           pc[q] = "free" <=> pc'[q] = "free",
           m # WriteBack => \A s \in InUse(q) : msg[q][s] # m
    PROVE  /\ Inbox(q)' /\ Mailed(q)' = Mailed(q) \cup {m}
           /\ \A p \in Procs \ {q} : free'[p] = free[p] /\ msg'[p] = msg[p]
           /\ q # IDE \/ m.body # "writeback" => WriteBacks' = WriteBacks
<1>1. /\ q \in Procs /\ Mailed(q)' = Mailed(q) \cup {m}
      /\ \A p \in Procs \ {q} : free'[p] = free[p] /\ msg'[p] = msg[p]
  BY Roles, MailedMore
<1>2. PICK s \in Slots \ InUse(q) : /\ InUse(q)' = InUse(q) \cup {s} /\ msg'[q][s] = m
                                    /\ \A t \in InUse(q) : msg'[q][t] = msg[q][t]
  BY <1>1, MailedMore
<1>3. Inbox(q)'
  BY <1>2 DEF Inbox
<1>4. ASSUME q # IDE \/ m.body # "writeback"
      PROVE  WriteBacks' = WriteBacks
  <2>1. CASE q = IDE
    BY <1>2, <1>4, <2>1 DEF WriteBacks
  <2>2. CASE q # IDE
    BY <1>1, <2>2, Roles DEF WriteBacks, InUse
  <2> QED
    BY <2>1, <2>2
<1> QED
  BY <1>1, <1>3, <1>4

\* The first section of send, with what its caller does next.
LEMMA PostKeeps ==
    ASSUME TypeOK, AllOwned, TypeOK', AllOwned', DiskTypeOK, Protocol,
           NEW p \in Clients, NEW q \in Clients, p # q, NEW b, b # "writeback",
           [src |-> p, body |-> b] \in Expected(q),
           \A s \in InUse(q) : msg[q][s] # [src |-> p, body |-> b],
           pc[p] = "user", Post(p, q, b),
           NEW y \in {"go", "asked"}, y \in Places(p), step' = [step EXCEPT ![p] = y]
    PROVE  /\ \A r \in Clients : Inbox(r)' /\ Program(r)'
           /\ Mailed(q)' = Mailed(q) \cup {[src |-> p, body |-> b]}
           /\ \A r \in Clients \ {q} : Mailed(r)' = Mailed(r)
           /\ (Cardinality(WriteBacks) <= MaxWriteBacks)'
           /\ UNCHANGED got /\ pc'[p] = "sendV" /\ step'[p] = y
           /\ \A r \in Clients \ {p} : pc'[r] = pc[r] /\ step'[r] = step[r]
<1> DEFINE m == [src |-> p, body |-> b]
<1>1. /\ Enqueue(q, m) /\ UNCHANGED <<held, got>> /\ pc'[p] = "sendV"
      /\ \A r \in Procs \ {p} : pc'[r] = pc[r] /\ arg'[r] = arg[r]
      /\ step'[p] = y /\ \A r \in Clients \ {p} : step'[r] = step[r]
  BY Roles DEF Post, TypeOK, DiskTypeOK
<1>2. \A r \in Clients : Inbox(r) /\ Program(r)
  BY DEF Protocol
<1>3. /\ Inbox(q)' /\ Mailed(q)' = Mailed(q) \cup {m}
      /\ \A r \in Procs \ {q} : free'[r] = free[r] /\ msg'[r] = msg[r]
      /\ WriteBacks' = WriteBacks
  <2>1. m \in Expected(q) /\ m.body # "writeback" /\ \A s \in InUse(q) : msg[q][s] # m
    OBVIOUS
  <2>2. pc[q] = "free" <=> pc'[q] = "free"
    BY <1>1, Roles
  <2> HIDE DEF m
  <2> QED
    BY <1>1, <1>2, <2>1, <2>2, PostMails
<1> HIDE DEF m
<1>4. ASSUME NEW r \in Clients, r # p, r # q
      PROVE  Inbox(r)' /\ Program(r)' /\ Mailed(r)' = Mailed(r)
  <2>1. Still(r)
    BY <1>1, <1>3, <1>4, Roles DEF Still
  <2> QED
    BY <1>2, <2>1, StillKeeps
<1>5. Inbox(p)' /\ Program(p)' /\ Mailed(p)' = Mailed(p)
  <2>1. InUse(p)' = InUse(p) /\ Mailed(p)' = Mailed(p)
    BY <1>1, <1>3, Roles, MailedKept
  <2>2. Inbox(p)'
    BY <1>2, <1>3, <2>1, Roles DEF Inbox
  <2>3. Program(p)'
    BY <1>1 DEF Program
  <2> QED
    BY <2>1, <2>2, <2>3
<1>6. Program(q)'
  <2>1. /\ step'[q] = step[q] /\ pc'[q] = pc[q] /\ arg'[q] = arg[q] /\ got'[q] = got[q]
        /\ held'[q] = held[q] /\ Filter(q)' = Filter(q)
    BY <1>1, Roles DEF Filter
  <2>2. pc[q] \in {"copy", "free"} => msg'[q][held'[q]] = msg[q][held[q]]
    <3>1. pc[q] \in {"copy", "free"} => held[q] \in InUse(q)
      BY Roles, MailedSlots
    <3>2. \E s \in Slots \ InUse(q) : \A t \in InUse(q) : msg'[q][t] = msg[q][t]
      BY <1>1, Roles, MailedMore
    <3> QED
      BY <2>1, <3>1, <3>2
  <2> QED
    BY <1>2, <2>1, <2>2 DEF Program
<1>7. (Cardinality(WriteBacks) <= MaxWriteBacks)'
  BY <1>3 DEF Protocol
<1>8. \A r \in Clients : Inbox(r)' /\ Program(r)'
  BY <1>3, <1>4, <1>5, <1>6
<1>9. \A r \in Clients \ {q} : Mailed(r)' = Mailed(r)
  BY <1>4, <1>5
<1>10. \A r \in Clients \ {p} : pc'[r] = pc[r] /\ step'[r] = step[r]
  BY <1>1, Roles
<1> QED
  BY <1>1, <1>3, <1>7, <1>8, <1>9, <1>10 DEF m

LEMMA SendsPosts ==
    ASSUME NEW p, NEW q, NEW b, NEW x, NEW y, Sends(p, x, q, b, y), ~PoolFull(q)
    PROVE  /\ step[p] \in x /\ pc[p] = "user" /\ Post(p, q, b)
           /\ step' = [step EXCEPT ![p] = y] /\ UNCHANGED halt
  BY DEF Sends, SendEnqueue, PoolPanic, Post, schedVars

\* A request is made: the caller was not waiting.
LEMMA AskFileKeeps ==
    ASSUME TypeOK, AllOwned, TypeOK', AllOwned', DiskTypeOK, Protocol,
           NEW u \in Users, AskFile(u)
    PROVE  Protocol' /\ UNCHANGED halt
<1>1. /\ u \in Clients /\ u \in Procs /\ u # FM /\ u # IDE /\ FM \in Clients /\ IDE \in Clients
      /\ u \in Callers /\ FM \in Callers /\ ServerOf(u) = FM
  BY Roles DEF Callers, ServerOf
<1>2. /\ Sends(u, {"go", "waits"}, FM, "read", "asked") /\ UNCHANGED <<client, left, disk>>
      /\ pc[u] = "user" /\ step[u] \in {"go", "waits"}
  BY DEF AskFile, Sends, SendEnqueue
<1>3. ~Asked(u)
  BY <1>2 DEF Asked
<1>4. /\ \A s \in InUse(FM) : msg[FM][s] # Request(u)
      /\ ~Sent(u) /\ ~Served(u) /\ ~Answered(u)
  BY <1>1, <1>3, NoRequest DEF Protocol, Flight, OneOf
<1>5. ~PoolFull(FM)
  <2>1. Inbox(FM) /\ \A s \in InUse(FM) : msg[FM][s] \in Expected(FM)
    BY <1>1 DEF Protocol, Inbox
  <2>2. ASSUME NEW s \in InUse(FM)
        PROVE  msg[FM][s].src # u
    <3>1. msg[FM][s] \in {Request(c) : c \in Users} \cup {Reply(IDE)}
      BY <2>1, Roles DEF Expected
    <3> QED
      BY <1>1, <1>4, <3>1 DEF Request, Reply
  <2> QED
    BY <2>1, <2>2, FmHasRoom
<1>6. /\ Post(u, FM, "read") /\ step' = [step EXCEPT ![u] = "asked"] /\ UNCHANGED halt
  BY <1>2, <1>5, SendsPosts
<1>7. /\ \A r \in Clients : Inbox(r)' /\ Program(r)'
      /\ Mailed(FM)' = Mailed(FM) \cup {Request(u)}
      /\ \A r \in Clients \ {FM} : Mailed(r)' = Mailed(r)
      /\ (Cardinality(WriteBacks) <= MaxWriteBacks)'
      /\ UNCHANGED got /\ pc'[u] = "sendV" /\ step'[u] = "asked"
      /\ \A r \in Clients \ {u} : pc'[r] = pc[r] /\ step'[r] = step[r]
  <2>1. [src |-> u, body |-> "read"] \in Expected(FM) /\ "asked" \in Places(u) /\ "read" # "writeback"
    BY <1>1, Roles DEF Expected, Request, Places
  <2> QED
    BY <1>1, <1>2, <1>4, <1>6, <2>1, PostKeeps DEF Request
<1>8. \A s \in {FM, IDE} : (AtWork(s)' <=> AtWork(s)) /\ (Taken(s)' <=> Taken(s))
  BY <1>1, <1>7 DEF AtWork, Taken
<1>9. Work'
  BY <1>2, <1>7, <1>8 DEF Protocol, Work
<1>10. Drive'
  <2>1. ReadyTaken' <=> ReadyTaken
    BY <1>1, <1>7 DEF ReadyTaken
  <2> QED
    BY <1>1, <1>2, <1>7, <2>1, Roles DEF Protocol, Drive, OneOf
<1>11. ASSUME NEW c \in Callers
       PROVE  Flight(c)'
  <2>1. Flight(c) /\ (Served(c)' <=> Served(c))
    BY <1>2, <1>7, <1>8, CallerFacts DEF Protocol, Served
  <2>2. CASE c = u
    <3>1. Sent(u)' /\ ~Served(u)' /\ Asked(u)'
      BY <1>1, <1>4, <1>7, <2>1, <2>2 DEF Sent, Asked
    <3>2. ~Answered(u)'
      BY <1>1, <1>4, <1>7 DEF Answered
    <3> QED
      BY <2>2, <3>1, <3>2 DEF Flight, OneOf
  <2>3. CASE c # u
    <3>1. (Sent(c)' <=> Sent(c)) /\ (Asked(c)' <=> Asked(c))
      BY <1>1, <1>7, <2>3, CallerFacts, Roles DEF Sent, Asked, Request
    <3>2. Answered(c)' <=> Answered(c)
      BY <1>1, <1>7, <2>3, CallerFacts, Roles DEF Answered, Request, Reply
    <3> QED
      BY <2>1, <3>1, <3>2, FlightSame
  <2> QED
    BY <2>2, <2>3
<1> QED
  BY <1>6, <1>7, <1>9, <1>10, <1>11 DEF Protocol

LEMMA AskDiskKeeps ==
    ASSUME TypeOK, AllOwned, TypeOK', AllOwned', DiskTypeOK, Protocol, AskDisk
    PROVE  Protocol' /\ UNCHANGED halt /\ client'[FM] \in Users
<1>1. /\ FM \in Clients /\ IDE \in Clients /\ FM # IDE /\ FM \in Procs /\ IDE \in Procs
      /\ FM \in Callers /\ ServerOf(FM) = IDE /\ IDE \notin Callers
  BY Roles DEF Callers, ServerOf
<1>2. /\ Sends(FM, {"serve"}, IDE, "read", "asked")
      /\ client' = [client EXCEPT ![FM] = got[FM].src] /\ UNCHANGED <<left, disk>>
      /\ pc[FM] = "user" /\ step[FM] = "serve" /\ client \in [Servers -> Procs]
  BY DEF AskDisk, Sends, SendEnqueue, DiskTypeOK
<1>3. ~Asked(FM) /\ Taken(FM) /\ ~AtWork(FM)
  BY <1>2, Roles DEF Asked, Taken, AtWork
<1>4. /\ \A s \in InUse(IDE) : msg[IDE][s] # Request(FM)
      /\ ~Sent(FM) /\ ~Served(FM) /\ ~Answered(FM)
  BY <1>1, <1>3, NoRequest DEF Protocol, Flight, OneOf
<1>5. ~PoolFull(IDE)
  BY <1>1, <1>4, IdeHasRoom DEF Protocol
<1>6. /\ Post(FM, IDE, "read") /\ step' = [step EXCEPT ![FM] = "asked"] /\ UNCHANGED halt
  BY <1>2, <1>5, SendsPosts
<1>7. /\ \A r \in Clients : Inbox(r)' /\ Program(r)'
      /\ Mailed(IDE)' = Mailed(IDE) \cup {Request(FM)}
      /\ \A r \in Clients \ {IDE} : Mailed(r)' = Mailed(r)
      /\ (Cardinality(WriteBacks) <= MaxWriteBacks)'
      /\ UNCHANGED got /\ pc'[FM] = "sendV" /\ step'[FM] = "asked"
      /\ \A r \in Clients \ {FM} : pc'[r] = pc[r] /\ step'[r] = step[r]
  <2>1. [src |-> FM, body |-> "read"] \in Expected(IDE) /\ "asked" \in Places(FM) /\ "read" # "writeback"
    BY <1>1, Roles DEF Expected, Request, Places
  <2> QED
    BY <1>1, <1>2, <1>4, <1>6, <2>1, PostKeeps DEF Request
<1>8. /\ client'[FM] = got[FM].src /\ client'[IDE] = client[IDE] /\ got[FM].src \in Users
  BY <1>1, <1>2, <1>3 DEF Servers, Protocol, Work
<1>9. /\ AtWork(FM)' /\ ~Taken(FM)'
      /\ (AtWork(IDE)' <=> AtWork(IDE)) /\ (Taken(IDE)' <=> Taken(IDE))
  BY <1>1, <1>7 DEF AtWork, Taken
<1>10. Work'
  BY <1>7, <1>8, <1>9 DEF Protocol, Work
<1>11. Drive'
  <2>1. (ReadyTaken' <=> ReadyTaken) /\ (Ready \in Mailed(IDE)' <=> Ready \in Mailed(IDE))
    BY <1>1, <1>7 DEF ReadyTaken, Ready, Request
  <2> QED
    BY <1>1, <1>2, <1>7, <2>1 DEF Protocol, Drive, OneOf
<1>12. ASSUME NEW c \in Callers
       PROVE  Flight(c)'
  <2>1. Flight(c)
    BY DEF Protocol
  <2>2. CASE c = FM
    <3>1. Sent(FM)' /\ Asked(FM)'
      BY <1>1, <1>7 DEF Sent, Asked
    <3>2. ~Served(FM)'
      BY <1>1, <1>4, <1>7, <1>8, <1>9 DEF Served
    <3>3. ~Answered(FM)'
      BY <1>1, <1>4, <1>7 DEF Answered
    <3> QED
      BY <2>2, <3>1, <3>2, <3>3 DEF Flight, OneOf
  <2>3. CASE c # FM
    <3>1. (Sent(c)' <=> Sent(c)) /\ (Asked(c)' <=> Asked(c)) /\ (Answered(c)' <=> Answered(c))
      BY <1>1, <1>7, <2>3, CallerFacts DEF Sent, Asked, Answered
    <3>2. Served(c)' <=> Served(c)
      BY <1>1, <1>3, <1>8, <1>9, <2>3, CallerFacts DEF Served
    <3> QED
      BY <2>1, <3>1, <3>2, FlightSame
  <2> QED
    BY <2>2, <2>3
<1> QED
  BY <1>6, <1>7, <1>8, <1>10, <1>11, <1>12 DEF Protocol

\* A request is answered, to the caller whose request it was.
LEMMA ReplyFileKeeps ==
    ASSUME TypeOK, AllOwned, TypeOK', AllOwned', DiskTypeOK, Protocol, ReplyFile
    PROVE  Protocol' /\ UNCHANGED halt
<1>0. PICK u : u = client[FM]
  OBVIOUS
<1>1. /\ FM \in Clients /\ IDE \in Clients /\ FM # IDE /\ FM \in Procs /\ IDE \in Procs
      /\ FM \in Callers /\ IDE \notin Callers
  BY Roles DEF Callers
<1>2. /\ Sends(FM, {"waits"}, u, "reply", "go") /\ UNCHANGED <<client, left, disk>>
      /\ pc[FM] = "user" /\ step[FM] = "waits"
  BY <1>0 DEF ReplyFile, Sends, SendEnqueue
<1>3. AtWork(FM) /\ ~Taken(FM) /\ u \in Users
  BY <1>0, <1>2 DEF Protocol, Work, AtWork, Taken
<1>4. u \in Callers /\ u \in Clients /\ u # FM /\ u # IDE /\ ServerOf(u) = FM
  BY <1>3, Roles DEF Callers, ServerOf
<1>5. Served(u)
  BY <1>0, <1>3, <1>4 DEF Served
<1>6. Asked(u) /\ ~Sent(u) /\ ~Answered(u)
  BY <1>4, <1>5 DEF Protocol, Flight, OneOf
<1>7. InUse(u) = {}
  <2>1. \A s \in InUse(u) : msg[u][s] = Reply(FM)
    BY <1>4, Roles DEF Protocol, Inbox, Expected
  <2>2. \A s \in InUse(u) : msg[u][s] # Reply(FM)
    BY <1>4, <1>6, NoReply
  <2> QED
    BY <2>1, <2>2
<1>8. ~PoolFull(u)
  BY <1>7, UserHasRoom
<1>9. /\ Post(FM, u, "reply") /\ step' = [step EXCEPT ![FM] = "go"] /\ UNCHANGED halt
  BY <1>2, <1>8, SendsPosts
<1>10. /\ \A r \in Clients : Inbox(r)' /\ Program(r)'
       /\ Mailed(u)' = Mailed(u) \cup {Reply(FM)}
       /\ \A r \in Clients \ {u} : Mailed(r)' = Mailed(r)
       /\ (Cardinality(WriteBacks) <= MaxWriteBacks)'
       /\ UNCHANGED got /\ pc'[FM] = "sendV" /\ step'[FM] = "go"
       /\ \A r \in Clients \ {FM} : pc'[r] = pc[r] /\ step'[r] = step[r]
  <2>1. /\ [src |-> FM, body |-> "reply"] \in Expected(u) /\ "go" \in Places(FM)
        /\ "reply" # "writeback" /\ "go" \in {"go", "asked"}
    BY <1>4, Roles DEF Expected, Reply, Places
  <2>2. \A s \in InUse(u) : msg[u][s] # [src |-> FM, body |-> "reply"]
    BY <1>7
  <2>3. /\ \A r \in Clients : Inbox(r)' /\ Program(r)'
        /\ Mailed(u)' = Mailed(u) \cup {[src |-> FM, body |-> "reply"]}
        /\ \A r \in Clients \ {u} : Mailed(r)' = Mailed(r)
        /\ (Cardinality(WriteBacks) <= MaxWriteBacks)'
        /\ UNCHANGED got /\ pc'[FM] = "sendV" /\ step'[FM] = "go"
        /\ \A r \in Clients \ {FM} : pc'[r] = pc[r] /\ step'[r] = step[r]
    BY <1>1, <1>2, <1>4, <1>9, <2>1, <2>2, PostKeeps
  <2> QED
    BY <2>3 DEF Reply
<1>11. /\ ~AtWork(FM)' /\ ~Taken(FM)'
       /\ (AtWork(IDE)' <=> AtWork(IDE)) /\ (Taken(IDE)' <=> Taken(IDE))
  BY <1>1, <1>10 DEF AtWork, Taken
<1>12. Work'
  BY <1>2, <1>10, <1>11 DEF Protocol, Work
<1>13. Drive'
  <2>1. (ReadyTaken' <=> ReadyTaken) /\ Mailed(IDE)' = Mailed(IDE)
    BY <1>1, <1>4, <1>10 DEF ReadyTaken
  <2> QED
    BY <1>1, <1>2, <1>10, <2>1 DEF Protocol, Drive, OneOf
<1>14. ASSUME NEW c \in Callers
       PROVE  Flight(c)'
  <2>1. Flight(c)
    BY DEF Protocol
  <2>2. CASE c = u
    <3>1. Answered(u)' /\ Asked(u)'
      BY <1>1, <1>4, <1>6, <1>10 DEF Answered, Asked
    <3>2. ~Sent(u)' /\ ~Served(u)'
      BY <1>1, <1>4, <1>6, <1>10, <1>11 DEF Sent, Served
    <3> QED
      BY <2>2, <3>1, <3>2 DEF Flight, OneOf
  <2>3. CASE c = FM
    <3>1. Sent(c)' <=> Sent(c)
      BY <1>1, <1>4, <1>10, <2>3, CallerFacts DEF Sent
    <3>2. Served(c)' <=> Served(c)
      BY <1>1, <1>2, <1>10, <1>11, <2>3, CallerFacts DEF Served
    <3>3. (Asked(c)' <=> Asked(c)) /\ (Answered(c)' <=> Answered(c))
      BY <1>1, <1>2, <1>4, <1>10, <2>3 DEF Asked, Answered
    <3> QED
      BY <2>1, <3>1, <3>2, <3>3, FlightSame
  <2>4. CASE c # u /\ c # FM
    <3>1. ServerOf(c) = FM
      BY <2>4, CallerFacts
    <3>2. (Sent(c)' <=> Sent(c)) /\ (Asked(c)' <=> Asked(c)) /\ (Answered(c)' <=> Answered(c))
      BY <1>1, <1>4, <1>10, <2>4, <3>1, CallerFacts DEF Sent, Asked, Answered
    <3>3. ~Served(c) /\ ~Served(c)'
      BY <1>0, <1>2, <1>3, <1>11, <2>4, <3>1 DEF Served
    <3> QED
      BY <2>1, <3>2, <3>3, FlightSame
  <2> QED
    BY <2>2, <2>3, <2>4
<1> QED
  BY <1>9, <1>10, <1>12, <1>13, <1>14 DEF Protocol

LEMMA ReplyReadKeeps ==
    ASSUME TypeOK, AllOwned, TypeOK', AllOwned', DiskTypeOK, Protocol, ReplyRead
    PROVE  Protocol' /\ UNCHANGED halt
<1>1. /\ FM \in Clients /\ IDE \in Clients /\ FM # IDE /\ FM \in Procs /\ IDE \in Procs
      /\ FM \in Callers /\ IDE \notin Callers /\ ServerOf(FM) = IDE
  BY Roles DEF Callers, ServerOf
<1>2. /\ Sends(IDE, {"ready"}, client[IDE], "reply", "go") /\ UNCHANGED <<client, left, disk>>
      /\ pc[IDE] = "user" /\ step[IDE] = "ready" /\ client[IDE] # IDE
  BY DEF ReplyRead, Sends, SendEnqueue
<1>3. AtWork(IDE) /\ ~Taken(IDE) /\ client[IDE] = FM
  BY <1>1, <1>2 DEF Protocol, Work, AtWork, Taken, Servers
<1>4. Served(FM)
  BY <1>1, <1>3 DEF Served
<1>5. Asked(FM) /\ ~Sent(FM) /\ ~Answered(FM)
  BY <1>1, <1>4 DEF Protocol, Flight, OneOf
<1>6. \A s \in InUse(FM) : msg[FM][s] # Reply(IDE)
  BY <1>1, <1>5, NoReply
<1>7. ~PoolFull(FM)
  <2>1. ASSUME NEW s \in InUse(FM)
        PROVE  msg[FM][s].src # IDE
    <3>1. msg[FM][s] \in {Request(c) : c \in Users} \cup {Reply(IDE)}
      BY <1>1, Roles DEF Protocol, Inbox, Expected
    <3> QED
      BY <1>6, <3>1, Roles DEF Request, Reply
  <2> QED
    BY <1>1, <2>1, FmHasRoom DEF Protocol
<1>8. /\ Post(IDE, FM, "reply") /\ step' = [step EXCEPT ![IDE] = "go"] /\ UNCHANGED halt
  BY <1>2, <1>3, <1>7, SendsPosts
<1>9. /\ \A r \in Clients : Inbox(r)' /\ Program(r)'
      /\ Mailed(FM)' = Mailed(FM) \cup {Reply(IDE)}
      /\ \A r \in Clients \ {FM} : Mailed(r)' = Mailed(r)
      /\ (Cardinality(WriteBacks) <= MaxWriteBacks)'
      /\ UNCHANGED got /\ pc'[IDE] = "sendV" /\ step'[IDE] = "go"
      /\ \A r \in Clients \ {IDE} : pc'[r] = pc[r] /\ step'[r] = step[r]
  <2>1. /\ [src |-> IDE, body |-> "reply"] \in Expected(FM) /\ "go" \in Places(IDE)
        /\ "reply" # "writeback" /\ "go" \in {"go", "asked"}
    BY <1>1, Roles DEF Expected, Reply, Places
  <2>2. \A s \in InUse(FM) : msg[FM][s] # [src |-> IDE, body |-> "reply"]
    BY <1>6 DEF Reply
  <2>3. /\ \A r \in Clients : Inbox(r)' /\ Program(r)'
        /\ Mailed(FM)' = Mailed(FM) \cup {[src |-> IDE, body |-> "reply"]}
        /\ \A r \in Clients \ {FM} : Mailed(r)' = Mailed(r)
        /\ (Cardinality(WriteBacks) <= MaxWriteBacks)'
        /\ UNCHANGED got /\ pc'[IDE] = "sendV" /\ step'[IDE] = "go"
        /\ \A r \in Clients \ {IDE} : pc'[r] = pc[r] /\ step'[r] = step[r]
    BY <1>1, <1>2, <1>8, <2>1, <2>2, PostKeeps
  <2> QED
    BY <2>3 DEF Reply
<1>10. /\ ~AtWork(IDE)' /\ ~Taken(IDE)'
       /\ (AtWork(FM)' <=> AtWork(FM)) /\ (Taken(FM)' <=> Taken(FM))
  BY <1>1, <1>9 DEF AtWork, Taken
<1>11. Work'
  BY <1>2, <1>9, <1>10 DEF Protocol, Work
<1>12. Drive'
  <2>1. ~ReadyTaken /\ ~ReadyTaken' /\ Mailed(IDE)' = Mailed(IDE)
    BY <1>1, <1>2, <1>9 DEF ReadyTaken
  <2> QED
    BY <1>1, <1>2, <1>9, <2>1 DEF Protocol, Drive, OneOf
<1>13. ASSUME NEW c \in Callers
       PROVE  Flight(c)'
  <2>1. Flight(c) /\ c # IDE
    BY <1>1 DEF Protocol
  <2>2. CASE c = FM
    <3>1. Answered(FM)' /\ Asked(FM)'
      BY <1>1, <1>5, <1>9 DEF Answered, Asked
    <3>2. ~Sent(FM)' /\ ~Served(FM)'
      BY <1>1, <1>5, <1>9, <1>10 DEF Sent, Served
    <3> QED
      BY <2>2, <3>1, <3>2 DEF Flight, OneOf
  <2>3. CASE c # FM
    <3>1. ServerOf(c) = FM
      BY <2>3, CallerFacts
    <3>2. Sent(c)' <=> Sent(c)
      BY <1>9, <3>1 DEF Sent, Request, Reply
    <3>3. (Asked(c)' <=> Asked(c)) /\ (Answered(c)' <=> Answered(c))
      BY <1>1, <1>9, <2>1, <2>3, CallerFacts DEF Asked, Answered
    <3>4. Served(c)' <=> Served(c)
      BY <1>2, <1>9, <1>10, <3>1 DEF Served
    <3> QED
      BY <2>1, <3>2, <3>3, <3>4, FlightSame
  <2> QED
    BY <2>2, <2>3
<1> QED
  BY <1>8, <1>9, <1>11, <1>12, <1>13 DEF Protocol
-----------------------------------------------------------------------------
(***************************************************************************)
(* The driver goes on by itself.                                           *)
(***************************************************************************)
LEMMA IdeMoves ==
    ASSUME TypeOK, AllOwned, TypeOK', AllOwned', DiskTypeOK, Protocol,
           UNCHANGED <<free, msg, pc, arg, held, got>>, pc[IDE] = "user",
           NEW y \in {"go", "ready", "disk"}, step' = [step EXCEPT ![IDE] = y],
           client'[FM] = client[FM], y # "go" => client'[IDE] \in Servers,
           Served(FM)' <=> Served(FM), Drive'
    PROVE  Protocol'
<1>1. /\ FM \in Clients /\ IDE \in Clients /\ FM # IDE /\ FM \in Procs /\ IDE \in Procs
      /\ FM \in Callers /\ IDE \notin Callers
  BY Roles DEF Callers
<1>2. step'[IDE] = y /\ \A r \in Clients \ {IDE} : step'[r] = step[r]
  BY <1>1 DEF DiskTypeOK
<1>3. \A r \in Clients : Inbox(r) /\ Program(r)
  BY DEF Protocol
<1>4. ASSUME NEW r \in Clients
      PROVE  Inbox(r)' /\ Program(r)' /\ InUse(r)' = InUse(r) /\ Mailed(r)' = Mailed(r)
  <2>1. CASE r # IDE
    BY <1>2, <1>3, <2>1, StillKeeps DEF Still
  <2>2. CASE r = IDE
    <3>1. InUse(IDE)' = InUse(IDE) /\ Mailed(IDE)' = Mailed(IDE)
      BY <1>1, MailedKept
    <3>2. Inbox(IDE)'
      BY <1>1, <1>3, <3>1 DEF Inbox
    <3>3. Program(IDE)'
      BY <1>1, <1>2, Roles DEF Program, Places
    <3> QED
      BY <2>2, <3>1, <3>2, <3>3
  <2> QED
    BY <2>1, <2>2
<1>5. /\ ~Taken(IDE)'
      /\ AtWork(IDE)' => y # "go"
      /\ (AtWork(FM)' <=> AtWork(FM)) /\ (Taken(FM)' <=> Taken(FM))
  BY <1>1, <1>2 DEF AtWork, Taken
<1>6. Work'
  <2>1. Work /\ got' = got
    BY DEF Protocol
  <2>2. Taken(FM)' => got'[FM].src \in Users
    BY <1>5, <2>1 DEF Work
  <2>3. AtWork(FM)' => client'[FM] \in Users
    BY <1>5, <2>1 DEF Work
  <2>4. AtWork(IDE)' => client'[IDE] \in Servers
    BY <1>5
  <2> QED
    BY <1>5, <2>2, <2>3, <2>4 DEF Work
<1>7. ASSUME NEW c \in Callers
      PROVE  Flight(c)'
  <2>1. Flight(c) /\ c # IDE
    BY <1>1 DEF Protocol
  <2>2. (Sent(c)' <=> Sent(c)) /\ (Asked(c)' <=> Asked(c)) /\ (Answered(c)' <=> Answered(c))
    BY <1>1, <1>2, <1>4, <2>1, CallerFacts DEF Sent, Asked, Answered
  <2>3. Served(c)' <=> Served(c)
    <3>1. CASE c = FM
      BY <3>1
    <3>2. CASE c # FM
      <4>1. ServerOf(c) = FM
        BY <3>2, CallerFacts
      <4> QED
        BY <1>5, <4>1 DEF Served
    <3> QED
      BY <3>1, <3>2
  <2> QED
    BY <2>1, <2>2, <2>3, FlightSame
<1>8. (Cardinality(WriteBacks) <= MaxWriteBacks)'
  BY <1>1, <1>4, WriteBacksSame DEF Protocol
<1> QED
  BY <1>4, <1>6, <1>7, <1>8 DEF Protocol

LEMMA MailboxOfIde ==
    ASSUME TypeOK, AllOwned, TypeOK', AllOwned', UNCHANGED <<free, msg, pc, arg, held, got>>
    PROVE  Mailed(IDE)' = Mailed(IDE)
  BY Roles, MailedKept

LEMMA DispatchKeeps ==
    ASSUME TypeOK, AllOwned, TypeOK', AllOwned', DiskTypeOK, Protocol, Dispatch
    PROVE  Protocol' /\ UNCHANGED halt
<1>1. /\ FM \in Clients /\ IDE \in Clients /\ FM # IDE /\ FM \in Procs /\ IDE \in Procs
      /\ FM \in Servers /\ IDE \in Servers /\ ServerOf(FM) = IDE /\ HardIntr # FM
  BY Roles DEF Servers, ServerOf
<1>2. /\ pc[IDE] = "user" /\ step[IDE] = "serve"
      /\ UNCHANGED <<free, msg, pc, arg, held, got, disk>>
  BY DEF Dispatch, At, ipcVars
<1>3. Taken(IDE) /\ ~AtWork(IDE)
  BY <1>1, <1>2 DEF Taken, AtWork
<1>4. got[IDE] \in {Request(FM), WriteBack}
  BY <1>1, <1>2, <1>3, Roles DEF Protocol, Program, Work, Expected
<1>5. /\ client' = [client EXCEPT
                      ![IDE] = IF got[IDE].src = HardIntr THEN IDE ELSE got[IDE].src]
      /\ step' = [step EXCEPT ![IDE] = "ready"] /\ UNCHANGED halt
  <2>1. ~(got[IDE].src = HardIntr /\ got[IDE].body # "writeback")
    BY <1>1, <1>4 DEF Request, WriteBack
  <2> QED
    BY <2>1 DEF Dispatch
<1>6. /\ client'[FM] = client[FM]
      /\ client'[IDE] = IF got[IDE].src = HardIntr THEN IDE ELSE got[IDE].src
      /\ step'[IDE] = "ready"
  BY <1>1, <1>5 DEF DiskTypeOK
<1>7. client'[IDE] \in Servers
  BY <1>1, <1>4, <1>6 DEF Request, WriteBack
<1>8. Served(FM)' <=> Served(FM)
  <2>1. AtWork(IDE)' /\ ~Taken(IDE)'
    BY <1>1, <1>6 DEF AtWork, Taken
  <2>2. client'[IDE] = FM <=> got[IDE].src = FM
    BY <1>1, <1>4, <1>6 DEF Request, WriteBack
  <2> QED
    BY <1>1, <1>3, <2>1, <2>2 DEF Served
<1>9. Drive'
  <2>1. Mailed(IDE)' = Mailed(IDE) /\ ~ReadyTaken /\ ~ReadyTaken'
    BY <1>2, <1>6, MailboxOfIde DEF ReadyTaken
  <2> QED
    BY <1>2, <1>6, <2>1 DEF Protocol, Drive, OneOf
<1>10. Protocol'
  <2>1. "ready" \in {"go", "ready", "disk"}
    OBVIOUS
  <2> QED
    BY <1>2, <1>5, <1>6, <1>7, <1>8, <1>9, <2>1, IdeMoves
<1> QED
  BY <1>5, <1>10

\* A command is issued to a drive that does not work.
LEMMA CommandKeeps ==
    ASSUME TypeOK, AllOwned, TypeOK', AllOwned', DiskTypeOK, Protocol, Command
    PROVE  Protocol' /\ UNCHANGED halt
<1>1. /\ FM \in Clients /\ IDE \in Clients /\ FM # IDE /\ FM \in Procs /\ IDE \in Procs
      /\ ServerOf(FM) = IDE
  BY Roles DEF ServerOf
<1>2. /\ pc[IDE] = "user" /\ step[IDE] = "ready"
      /\ UNCHANGED <<free, msg, pc, arg, held, got, client>>
  BY DEF Command, At, ipcVars
<1>3. disk # "busy" /\ Ready \notin Mailed(IDE)
  BY <1>2 DEF Protocol, Drive, OneOf
<1>4. disk' = "busy" /\ step' = [step EXCEPT ![IDE] = "disk"] /\ UNCHANGED halt
  BY <1>3 DEF Command
<1>5. step'[IDE] = "disk"
  BY <1>1, <1>4 DEF DiskTypeOK
<1>6. client'[IDE] \in Servers
  <2>1. AtWork(IDE)
    BY <1>1, <1>2 DEF AtWork
  <2> QED
    BY <1>2, <2>1 DEF Protocol, Work
<1>7. Served(FM)' <=> Served(FM)
  BY <1>1, <1>2, <1>5 DEF Served, AtWork, Taken
<1>8. Drive'
  <2>1. Mailed(IDE)' = Mailed(IDE) /\ ~ReadyTaken'
    BY <1>2, <1>5, MailboxOfIde DEF ReadyTaken
  <2> QED
    BY <1>3, <1>4, <1>5, <2>1 DEF Drive, OneOf
<1>9. Protocol'
  <2>1. "disk" \in {"go", "ready", "disk"} /\ client'[FM] = client[FM]
    BY <1>2
  <2> QED
    BY <1>2, <1>4, <1>6, <1>7, <1>8, <2>1, IdeMoves
<1> QED
  BY <1>4, <1>9

LEMMA TestReadyKeeps ==
    ASSUME TypeOK, AllOwned, TypeOK', AllOwned', DiskTypeOK, Protocol, TestReady
    PROVE  Protocol' /\ UNCHANGED halt
<1>1. /\ FM \in Clients /\ IDE \in Clients /\ FM # IDE /\ FM \in Procs /\ IDE \in Procs
      /\ ServerOf(FM) = IDE
  BY Roles DEF ServerOf
<1>2. /\ pc[IDE] = "user" /\ step[IDE] = "waits"
      /\ UNCHANGED <<free, msg, pc, arg, held, got, client, disk, halt>>
  BY DEF TestReady, At, vars, ipcVars, schedVars
<1>3. got[IDE] \in {Ready, WriteBack}
  <2>1. Program(IDE)
    BY <1>1 DEF Protocol
  <2>2. got[IDE] \in Expected(IDE) /\ Matches(Filter(IDE), got[IDE].src)
    BY <1>2, <2>1 DEF Program
  <2>3. Filter(IDE) = HardIntr
    BY <1>1, <1>2 DEF Filter
  <2> QED
    BY <2>2, <2>3, Roles DEF Expected, Matches, Request
<1>4. PICK y : y = IF got[IDE].body = "ready" THEN "ready" ELSE "disk"
  OBVIOUS
<1>5. step' = [step EXCEPT ![IDE] = y] /\ step'[IDE] = y
  BY <1>1, <1>4 DEF TestReady, DiskTypeOK
<1>6. y = "ready" <=> got[IDE] = Ready
  BY <1>3, <1>4 DEF Ready, WriteBack
<1>7. y \in {"ready", "disk"}
  BY <1>4
<1>8. client'[IDE] \in Servers
  <2>1. AtWork(IDE)
    BY <1>1, <1>2 DEF AtWork
  <2> QED
    BY <1>2, <2>1 DEF Protocol, Work
<1>9. Served(FM)' <=> Served(FM)
  BY <1>1, <1>2, <1>5, <1>7 DEF Served, AtWork, Taken
<1>10. Drive'
  <2>1. Mailed(IDE)' = Mailed(IDE) /\ (ReadyTaken <=> y = "ready") /\ ~ReadyTaken'
    BY <1>2, <1>5, <1>6, <1>7, MailboxOfIde DEF ReadyTaken
  <2>2. step'[IDE] \in {"disk", "waits"} <=> y # "ready"
    BY <1>5, <1>7
  <2> QED
    BY <1>2, <2>1, <2>2 DEF Protocol, Drive, OneOf
<1>11. Protocol'
  <2>1. y \in {"go", "ready", "disk"} /\ client'[FM] = client[FM]
    BY <1>2, <1>7
  <2> QED
    BY <1>2, <1>5, <1>8, <1>9, <1>10, <2>1, IdeMoves
<1> QED
  BY <1>2, <1>11

LEMMA EndWriteBackKeeps ==
    ASSUME TypeOK, AllOwned, TypeOK', AllOwned', DiskTypeOK, Protocol, EndWriteBack
    PROVE  Protocol' /\ UNCHANGED halt
<1>1. /\ FM \in Clients /\ IDE \in Clients /\ FM # IDE /\ FM \in Procs /\ IDE \in Procs
      /\ ServerOf(FM) = IDE
  BY Roles DEF ServerOf
<1>2. /\ pc[IDE] = "user" /\ step[IDE] = "ready" /\ client[IDE] = IDE
      /\ UNCHANGED <<free, msg, pc, arg, held, got, client, disk, halt>>
      /\ step' = [step EXCEPT ![IDE] = "go"]
  BY DEF EndWriteBack, At, vars, ipcVars, schedVars
<1>3. step'[IDE] = "go"
  BY <1>1, <1>2 DEF DiskTypeOK
<1>4. ~Served(FM) /\ ~Served(FM)'
  BY <1>1, <1>2, <1>3 DEF Served, AtWork, Taken
<1>5. Drive'
  <2>1. Mailed(IDE)' = Mailed(IDE) /\ ~ReadyTaken /\ ~ReadyTaken'
    BY <1>2, <1>3, MailboxOfIde DEF ReadyTaken
  <2> QED
    BY <1>2, <1>3, <2>1 DEF Protocol, Drive, OneOf
<1>6. Protocol'
  <2>1. "go" \in {"go", "ready", "disk"} /\ client'[FM] = client[FM]
    BY <1>2
  <2> QED
    BY <1>2, <1>4, <1>5, <2>1, IdeMoves
<1> QED
  BY <1>2, <1>6
-----------------------------------------------------------------------------
(***************************************************************************)
(* The interrupts, and the steps that only schedule.                       *)
(***************************************************************************)
LEMMA NothingMoves ==
    ASSUME TypeOK, AllOwned, TypeOK', AllOwned', Protocol,
           UNCHANGED <<free, msg, pc, arg, held, got, step, client, disk>>
    PROVE  Protocol'
<1>1. ASSUME NEW r \in Clients
      PROVE  Inbox(r)' /\ Program(r)' /\ InUse(r)' = InUse(r) /\ Mailed(r)' = Mailed(r)
  BY StillKeeps DEF Protocol, Still
<1>2. \A s \in {FM, IDE} : (AtWork(s)' <=> AtWork(s)) /\ (Taken(s)' <=> Taken(s))
  BY DEF AtWork, Taken
<1>3. Work'
  BY <1>2 DEF Protocol, Work
<1>4. Drive'
  BY <1>1, Roles DEF Protocol, Drive, ReadyTaken, OneOf
<1>5. ASSUME NEW c \in Callers
      PROVE  Flight(c)'
  <2>1. Flight(c)
    BY DEF Protocol
  <2>2. (Sent(c)' <=> Sent(c)) /\ (Asked(c)' <=> Asked(c)) /\ (Answered(c)' <=> Answered(c))
    BY <1>1, CallerFacts, Roles DEF Sent, Asked, Answered
  <2>3. Served(c)' <=> Served(c)
    BY <1>2, CallerFacts DEF Served
  <2> QED
    BY <2>1, <2>2, <2>3, FlightSame
<1>6. (Cardinality(WriteBacks) <= MaxWriteBacks)'
  BY <1>1, Roles, WriteBacksSame DEF Protocol
<1> QED
  BY <1>1, <1>3, <1>4, <1>5, <1>6 DEF Protocol

LEMMA WriteBacksGrow ==
    ASSUME Cardinality(WriteBacks) < MaxWriteBacks, NEW s \in Slots \ InUse(IDE),
           InUse(IDE)' = InUse(IDE) \cup {s}, \A t \in InUse(IDE) : msg'[IDE][t] = msg[IDE][t]
    PROVE  (Cardinality(WriteBacks) <= MaxWriteBacks)'
<1>1. WriteBacks' \subseteq WriteBacks \cup {s} /\ s \notin WriteBacks /\ WriteBacks \subseteq Slots
  BY DEF WriteBacks, InUse
<1>2. IsFiniteSet(WriteBacks) /\ Cardinality(WriteBacks) \in Nat
  BY <1>1, SlotsFinite, FS_Subset, FS_CardinalityType
<1>3. IsFiniteSet(WriteBacks \cup {s}) /\ Cardinality(WriteBacks \cup {s}) = Cardinality(WriteBacks) + 1
  BY <1>1, <1>2, FS_AddElement
<1>4. Cardinality(WriteBacks') <= Cardinality(WriteBacks) + 1 /\ Cardinality(WriteBacks') \in Nat
  BY <1>1, <1>3, FS_Subset, FS_CardinalityType
<1> QED
  BY <1>2, <1>4, RoleAssumption

LEMMA IrqKeeps ==
    ASSUME TypeOK, AllOwned, TypeOK', AllOwned', DiskTypeOK, Protocol,
           NEW m \in {Ready, WriteBack}, Enqueue(IDE, m),
           UNCHANGED <<pc, arg, held, got, step, client>>,
           m = Ready => disk = "busy" /\ disk' = "idle",
           m = WriteBack => UNCHANGED disk /\ Cardinality(WriteBacks) < MaxWriteBacks
    PROVE  Protocol'
<1>1. /\ FM \in Clients /\ IDE \in Clients /\ FM # IDE /\ FM \in Procs /\ IDE \in Procs
      /\ FM \in Callers /\ IDE \notin Callers /\ HardIntr \notin Procs
  BY Roles DEF Callers
<1>2. \A r \in Clients : Inbox(r) /\ Program(r)
  BY DEF Protocol
<1>3. /\ Inbox(IDE)' /\ Mailed(IDE)' = Mailed(IDE) \cup {m}
      /\ \A r \in Procs \ {IDE} : free'[r] = free[r] /\ msg'[r] = msg[r]
      /\ m = Ready => WriteBacks' = WriteBacks
  <2>1. m \in Expected(IDE)
    BY <1>1 DEF Expected
  <2>2. m # WriteBack => \A s \in InUse(IDE) : msg[IDE][s] # m
    BY NoReady
  <2>3. m = Ready => m.body # "writeback"
    BY DEF Ready
  <2> QED
    BY <1>1, <1>2, <2>1, <2>2, <2>3, PostMails
<1>4. PICK s \in Slots \ InUse(IDE) : /\ InUse(IDE)' = InUse(IDE) \cup {s}
                                      /\ \A t \in InUse(IDE) : msg'[IDE][t] = msg[IDE][t]
  BY <1>1, MailedMore
<1>5. Program(IDE)'
  <2>1. Filter(IDE)' = Filter(IDE)
    BY DEF Filter
  <2>2. pc[IDE] \in {"copy", "free"} => msg'[IDE][held[IDE]] = msg[IDE][held[IDE]]
    BY <1>1, <1>4, MailedSlots
  <2> QED
    BY <1>1, <1>2, <2>1, <2>2 DEF Program
<1>6. ASSUME NEW r \in Clients, r # IDE
      PROVE  Inbox(r)' /\ Program(r)' /\ Mailed(r)' = Mailed(r)
  BY <1>2, <1>3, <1>6, Roles, StillKeeps DEF Still
<1>7. \A q \in {FM, IDE} : (AtWork(q)' <=> AtWork(q)) /\ (Taken(q)' <=> Taken(q))
  BY DEF AtWork, Taken
<1>8. Work'
  BY <1>7 DEF Protocol, Work
<1>9. Drive'
  <2>1. ReadyTaken' <=> ReadyTaken
    BY DEF ReadyTaken
  <2>2. Drive /\ step' = step
    BY DEF Protocol
  <2>3. CASE m = Ready
    BY <1>3, <2>1, <2>2, <2>3 DEF Drive, OneOf
  <2>4. CASE m = WriteBack
    <3>1. Ready # m
      BY <2>4 DEF Ready, WriteBack
    <3> QED
      BY <1>3, <2>1, <2>2, <2>4, <3>1 DEF Drive, OneOf
  <2> QED
    BY <2>3, <2>4
<1>10. ASSUME NEW c \in Callers
       PROVE  Flight(c)'
  <2>1. Flight(c) /\ c # IDE
    BY <1>1 DEF Protocol
  <2>2. m # Request(c)
    BY <1>1, CallerFacts DEF Request, Ready, WriteBack
  <2>3. (Sent(c)' <=> Sent(c)) /\ (Asked(c)' <=> Asked(c)) /\ (Answered(c)' <=> Answered(c))
    BY <1>1, <1>3, <1>6, <2>1, <2>2, CallerFacts DEF Sent, Asked, Answered
  <2>4. Served(c)' <=> Served(c)
    BY <1>7, CallerFacts DEF Served
  <2> QED
    BY <2>1, <2>3, <2>4, FlightSame
<1>11. (Cardinality(WriteBacks) <= MaxWriteBacks)'
  BY <1>3, <1>4, WriteBacksGrow DEF Protocol
<1> QED
  BY <1>3, <1>5, <1>6, <1>8, <1>9, <1>10, <1>11 DEF Protocol

\* The pool of IDE has room for what a handler sends.
LEMMA IdeIntrKeeps ==
    ASSUME TypeOK, AllOwned, TypeOK', AllOwned', DiskTypeOK, Protocol, halt = "none", IdeIntr
    PROVE  Protocol' /\ halt' \in {"none", "spin"}
<1>1. disk = "busy" /\ disk' = "idle" /\ UNCHANGED <<step, client>> /\ DeviceIrq(IDE, "ready", FALSE)
  BY DEF IdeIntr
<1>2. ~PoolFull(IDE)
  BY <1>1, NoReady, IdeHasRoom, Roles DEF Protocol
<1>3. IrqPost(IDE, "ready", FALSE)
  BY <1>1, <1>2 DEF DeviceIrq, PoolPanic
<1>4. Enqueue(IDE, Ready) /\ UNCHANGED <<pc, arg, held, got>>
  BY <1>3 DEF IrqPost, Ready
<1>5. halt' \in {"none", "spin"}
  BY <1>3 DEF IrqPost, Schedule, Keep, Switch, Spin
<1>6. Ready # WriteBack /\ Ready \in {Ready, WriteBack}
  BY DEF Ready, WriteBack
<1> QED
  BY <1>1, <1>4, <1>5, <1>6, IrqKeeps

LEMMA TimeIntrKeeps ==
    ASSUME TypeOK, AllOwned, TypeOK', AllOwned', DiskTypeOK, Protocol, halt = "none",
           NEW quantum \in BOOLEAN, TimeIntr(quantum)
    PROVE  Protocol' /\ halt' \in {"none", "spin"}
<1>1. UNCHANGED <<step, client, disk>>
  BY DEF TimeIntr, diskVars
<1>2. CASE Tick(quantum)
  <2>1. UNCHANGED <<free, msg, pc, arg, held, got>> /\ Schedule(status, needSched \/ quantum)
    BY <1>2 DEF Tick, ipcVars
  <2>2. halt' \in {"none", "spin"}
    BY <2>1 DEF Schedule, Keep, Switch, Spin
  <2> QED
    BY <1>1, <2>1, <2>2, NothingMoves
<1>3. CASE Cardinality(WriteBacks) < MaxWriteBacks /\ DeviceIrq(IDE, "writeback", quantum)
  <2>1. ~PoolFull(IDE)
    BY <1>3, IdeHasRoom, Roles DEF Protocol
  <2>2. IrqPost(IDE, "writeback", quantum)
    BY <1>3, <2>1 DEF DeviceIrq, PoolPanic
  <2>3. Enqueue(IDE, WriteBack) /\ UNCHANGED <<pc, arg, held, got>>
    BY <2>2 DEF IrqPost, WriteBack
  <2>4. halt' \in {"none", "spin"}
    BY <2>2 DEF IrqPost, Schedule, Keep, Switch, Spin
  <2>5. Ready # WriteBack /\ WriteBack \in {Ready, WriteBack}
    BY DEF Ready, WriteBack
  <2> QED
    BY <1>1, <1>3, <2>3, <2>4, <2>5, IrqKeeps
<1> QED
  BY <1>2, <1>3 DEF TimeIntr
-----------------------------------------------------------------------------
(***************************************************************************)
(* The steps of send and receive.                                          *)
(***************************************************************************)
LEMMA ContinueKeeps ==
    ASSUME IInv, AllOwned, TypeOK', AllOwned', Protocol, halt = "none",
           Continue(current), UNCHANGED diskVars
    PROVE  Protocol' /\ halt' \in {"none", "spin"}
<1> DEFINE p == current
<1>1. TypeOK /\ Shape /\ Accounting /\ p \in Procs
  BY DEF IInv, TypeOK, SchedTypeOK
<1>2. p \in Clients
  <2>1. pc[p] # "user"
    BY DEF Continue, SendV, SemP, RequestSched, Yield, Dequeue, Copy, Free
  <2> QED
    BY <1>1, <2>1 DEF Shape, BystandersOutside
<1>3. pc[p] = "deq" => rec[p] # <<>>
  BY <1>1, DequeueFinds
<1>4. halt' \in {"none", "spin"}
  <2>1. CASE SendV(p) \/ SemP(p) \/ RequestSched(p) \/ Copy(p) \/ Free(p)
    BY <2>1 DEF SendV, SemP, RequestSched, Copy, Free, schedVars
  <2>2. CASE Yield(p)
    BY <2>2 DEF Yield, Schedule, Keep, Switch, Spin
  <2>3. CASE Dequeue(p)
    BY <1>3, <2>3 DEF Dequeue, Accept, PutAside
  <2> QED
    BY <2>1, <2>2, <2>3 DEF Continue
<1>5. PICK r \in Clients : r = p
  BY <1>2
<1> HIDE DEF p
<1>6. Protocol'
  <2>1. CASE Copy(r)
    BY <1>1, <2>1, CopyKeeps
  <2>2. CASE Free(r)
    BY <1>1, <2>2, ReceiveReturns
  <2>3. CASE SendV(r) \/ SemP(r) \/ RequestSched(r) \/ Yield(r) \/ Dequeue(r)
    <3>1. PICK x : Onward(r, x)
      BY <1>1, <1>3, <1>5, <2>3, ContinueOnward
    <3> QED
      BY <1>1, <3>1, OnwardKeeps
  <2> QED
    BY <1>5, <2>1, <2>2, <2>3 DEF p, Continue
<1> QED
  BY <1>4, <1>6

\* The calls of receive.
LEMMA AwaitKeeps ==
    ASSUME TypeOK, AllOwned, TypeOK', AllOwned', DiskTypeOK, Protocol,
           \/ \E u \in Users : AwaitFile(u)
           \/ \E s \in Servers : NextMessage(s)
           \/ AwaitDisk \/ AwaitReady
    PROVE  Protocol' /\ UNCHANGED halt
<1>1. FM \in Clients /\ IDE \in Clients /\ Users \subseteq Clients /\ Servers \subseteq Clients
  BY Roles DEF Servers
<1>2. ASSUME NEW p, NEW x, NEW f, NEW y, Receives(p, x, f, y)
      PROVE  UNCHANGED halt
  BY <1>2 DEF Receives, ReceiveIgnored, ReceiveNew, schedVars
<1>3. ASSUME NEW u \in Users, AwaitFile(u)
      PROVE  Protocol' /\ UNCHANGED halt
  <2>1. Receives(u, "asked", FM, "waits") /\ UNCHANGED <<client, left, disk>>
    BY <1>3 DEF AwaitFile
  <2>2. step[u] = "asked" /\ Begins(u, FM, "waits")
    BY <1>1, <2>1, ReceivesBegins
  <2> QED
    BY <1>1, <1>2, <2>1, <2>2, BeginsKeeps
<1>4. ASSUME NEW s \in Servers, NextMessage(s)
      PROVE  Protocol' /\ UNCHANGED halt
  <2>1. Receives(s, "go", AnySrc, "serve") /\ UNCHANGED <<client, left, disk>>
    BY <1>4 DEF NextMessage
  <2>2. step[s] = "go" /\ Begins(s, AnySrc, "serve")
    BY <1>1, <2>1, ReceivesBegins
  <2> QED
    BY <1>1, <1>2, <2>1, <2>2, BeginsKeeps
<1>5. CASE AwaitDisk
  <2>1. Receives(FM, "asked", IDE, "waits") /\ UNCHANGED <<client, left, disk>>
    BY <1>5 DEF AwaitDisk
  <2>2. step[FM] = "asked" /\ Begins(FM, IDE, "waits")
    BY <1>1, <2>1, ReceivesBegins
  <2> QED
    BY <1>1, <1>2, <2>1, <2>2, BeginsKeeps
<1>6. CASE AwaitReady
  <2>1. Receives(IDE, "disk", HardIntr, "waits") /\ UNCHANGED <<client, left, disk>>
    BY <1>6 DEF AwaitReady
  <2>2. step[IDE] = "disk" /\ Begins(IDE, HardIntr, "waits")
    BY <1>1, <2>1, ReceivesBegins
  <2> QED
    BY <1>1, <1>2, <2>1, <2>2, BeginsKeeps
<1> QED
  BY <1>3, <1>4, <1>5, <1>6

LEMMA StepProtocol ==
    ASSUME IInv, AllOwned, DiskTypeOK, Protocol, DiskNext, TypeOK', AllOwned'
    PROVE  Protocol' /\ halt' \in {"none", "spin"}
<1>1. TypeOK /\ halt = "none"
  BY DEF IInv, DiskNext
<1>2. CASE Continue(current) /\ UNCHANGED diskVars
  BY <1>1, <1>2, ContinueKeeps
<1>3. CASE current \in Users /\ User(current)
  BY <1>1, <1>3, AskFileKeeps, AwaitKeeps DEF User
<1>4. CASE FileManagement
  BY <1>1, <1>4, AskDiskKeeps, AwaitKeeps, ReplyFileKeeps DEF FileManagement, Servers
<1>5. CASE Driver
  BY <1>1, <1>5, AwaitKeeps, DispatchKeeps, CommandKeeps, TestReadyKeeps, ReplyReadKeeps,
     EndWriteBackKeeps DEF Driver, Servers
<1>6. CASE IdeIntr
  BY <1>1, <1>6, IdeIntrKeeps
<1>7. ASSUME NEW quantum \in BOOLEAN, TimeIntr(quantum)
      PROVE  Protocol' /\ halt' \in {"none", "spin"}
  BY <1>1, <1>7, TimeIntrKeeps
<1> QED
  BY <1>2, <1>3, <1>4, <1>5, <1>6, <1>7 DEF DiskNext, Run

\* Types.  The client of FM is a user because nobody else sends to it then.
LEMMA StepDiskType ==
    ASSUME IInv, AllOwned, DiskTypeOK, Protocol, DiskNext, TypeOK', AllOwned'
    PROVE  DiskTypeOK'
<1>1. /\ TypeOK /\ step \in [Clients -> Step] /\ client \in [Servers -> Procs]
      /\ left \in 0 .. MaxCommands /\ disk \in {"idle", "busy"} /\ MaxCommands \in Nat
  BY RoleAssumption DEF IInv, DiskTypeOK
<1>2. \A p, x, q, b : \A y \in Step : Sends(p, x, q, b, y) => step' \in [Clients -> Step]
  BY <1>1 DEF Sends
<1>3. \A p, x, f : \A y \in Step : Receives(p, x, f, y) => step' \in [Clients -> Step]
  BY <1>1 DEF Receives
<1>4. "asked" \in Step /\ "waits" \in Step /\ "serve" \in Step /\ "go" \in Step
      /\ "ready" \in Step /\ "disk" \in Step
  BY DEF Step
<1>5. ASSUME UNCHANGED diskVars
      PROVE  DiskTypeOK'
  BY <1>1, <1>5 DEF diskVars, DiskTypeOK
<1>6. ASSUME NEW u, User(u)
      PROVE  DiskTypeOK'
  BY <1>1, <1>2, <1>3, <1>4, <1>6 DEF User, AskFile, AwaitFile, DiskTypeOK
<1>7. CASE FileManagement
  <2>1. CASE NextMessage(FM) \/ AwaitDisk
    BY <1>1, <1>3, <1>4, <2>1 DEF NextMessage, AwaitDisk, DiskTypeOK
  <2>2. CASE ReplyFile
    BY <1>1, <1>2, <1>4, <2>2 DEF ReplyFile, DiskTypeOK
  <2>3. CASE AskDisk
    <3>1. client' \in [Servers -> Procs]
      <4>1. client'[FM] \in Procs
        BY <1>1, <2>3, AskDiskKeeps, Roles
      <4> QED
        BY <1>1, <2>3, <4>1 DEF AskDisk, Servers
    <3>2. step' \in [Clients -> Step] /\ UNCHANGED <<left, disk>>
      BY <1>2, <1>4, <2>3 DEF AskDisk
    <3> QED
      BY <1>1, <3>1, <3>2 DEF DiskTypeOK
  <2> QED
    BY <1>7, <2>1, <2>2, <2>3 DEF FileManagement
<1>8. CASE Driver
  <2>1. CASE NextMessage(IDE) \/ AwaitReady
    BY <1>1, <1>3, <1>4, <2>1 DEF NextMessage, AwaitReady, DiskTypeOK
  <2>2. CASE ReplyRead
    BY <1>1, <1>2, <1>4, <2>2 DEF ReplyRead, DiskTypeOK
  <2>3. CASE Dispatch
    <3>1. /\ halt' = halt /\ got \in [Procs -> Message \cup {Nil}]
      BY <1>1, <2>3, DispatchKeeps DEF TypeOK
    <3>2. /\ step' = [step EXCEPT ![IDE] = "ready"] /\ left' \in 0 .. MaxCommands /\ UNCHANGED disk
          /\ client' = [client EXCEPT ![IDE] = IF got[IDE].src = HardIntr THEN IDE ELSE got[IDE].src]
      BY <2>3, <3>1 DEF Dispatch, DiskNext
    <3>3. client' \in [Servers -> Procs]
      <4>1. got[IDE] \in {Request(FM), WriteBack}
        <5>1. pc[IDE] = "user" /\ step[IDE] = "serve" /\ IDE \in Clients
          BY <2>3, Roles DEF Dispatch, At
        <5> QED
          BY <5>1, Roles DEF Protocol, Program, Work, Expected, Taken
      <4>2. (IF got[IDE].src = HardIntr THEN IDE ELSE got[IDE].src) \in Procs
        BY <4>1, Roles DEF Request, WriteBack
      <4> QED
        BY <1>1, <3>2, <4>2
    <3> QED
      BY <1>1, <1>4, <3>2, <3>3 DEF DiskTypeOK
  <2>4. CASE Command
    <3>1. left > 0 /\ UNCHANGED client /\ step' \in [Clients -> Step]
          /\ left' \in {left, left - 1} /\ disk' \in {"idle", "busy"}
      BY <1>1, <1>4, <2>4 DEF Command
    <3> QED
      BY <1>1, <3>1 DEF DiskTypeOK
  <2>5. CASE TestReady \/ EndWriteBack
    <3>1. UNCHANGED <<client, left, disk>> /\ \E y \in Step : step' = [step EXCEPT ![IDE] = y]
      BY <1>4, <2>5 DEF TestReady, EndWriteBack
    <3> QED
      BY <1>1, <3>1 DEF DiskTypeOK
  <2> QED
    BY <1>8, <2>1, <2>2, <2>3, <2>4, <2>5 DEF Driver
<1>9. CASE IdeIntr
  BY <1>1, <1>9 DEF IdeIntr, DiskTypeOK
<1> QED
  BY <1>5, <1>6, <1>7, <1>8, <1>9 DEF DiskNext, Run, TimeIntr
-----------------------------------------------------------------------------
(***************************************************************************)
(* The invariant.                                                          *)
(***************************************************************************)
LEMMA StepDisk == DiskInv /\ AllOwned /\ [DiskNext]_allVars => DiskInv' /\ AllOwned'
<1> SUFFICES ASSUME DiskInv, AllOwned, [DiskNext]_allVars
             PROVE  DiskInv' /\ AllOwned'
  OBVIOUS
<1>1. IInv /\ DiskTypeOK /\ NoPanic /\ Protocol
  BY InvParts
<1>2. IInv' /\ AllOwned'
  BY <1>1, IpcKept
<1>3. TypeOK /\ TypeOK'
  BY <1>1, <1>2 DEF IInv
<1>4. DiskTypeOK' /\ NoPanic' /\ Protocol'
  <2>1. CASE DiskNext
    <3>1. Protocol' /\ halt' \in {"none", "spin"}
      BY <1>1, <1>2, <1>3, <2>1, StepProtocol
    <3>2. DiskTypeOK'
      BY <1>1, <1>2, <1>3, <2>1, StepDiskType
    <3> QED
      BY <3>1, <3>2 DEF NoPanic
  <2>2. CASE UNCHANGED allVars
    <3>1. /\ UNCHANGED <<free, msg, pc, arg, held, got, step, client, left, disk, halt>>
      BY <2>2 DEF allVars, vars, schedVars, ipcVars, diskVars
    <3>2. Protocol'
      BY <1>1, <1>2, <1>3, <3>1, NothingMoves
    <3> QED
      BY <1>1, <3>1, <3>2 DEF DiskTypeOK, NoPanic
  <2> QED
    BY <2>1, <2>2
<1>5. DiskInv' <=> IInv' /\ DiskTypeOK' /\ NoPanic' /\ Protocol'
  BY InvParts, PTL
<1> QED
  BY <1>2, <1>4, <1>5

\* Nobody has asked for anything, and every pool is empty.
LEMMA InitDisk == DiskInit => DiskInv /\ AllOwned
<1> SUFFICES ASSUME DiskInit PROVE DiskInv /\ AllOwned
  OBVIOUS
<1>1. IInv /\ AllOwned
  BY InitType, InitShape, InitAccounting, InitOwned DEF DiskInit, IInv
<1>2. /\ step = [p \in Clients |-> "go"] /\ client = [s \in Servers |-> s]
      /\ left = 0 /\ disk = "idle" /\ halt = "none"
      /\ \A p \in Procs : pc[p] = "user" /\ InUse(p) = {}
  BY DEF DiskInit, Init, SchedInit, InUse
<1>3. DiskTypeOK /\ NoPanic
  BY <1>2, RoleAssumption, Roles DEF DiskTypeOK, NoPanic, Step, Servers
<1>4. \A p \in Procs : Mailed(p) = {}
  BY <1>1, <1>2, MailedSlots DEF IInv, Unread
<1>5. \A p \in Clients : Inbox(p) /\ Program(p)
  BY <1>2, Roles DEF Inbox, Program, Places
<1>6. \A s \in {FM, IDE} : ~Taken(s) /\ ~AtWork(s)
  BY <1>2, Roles DEF Taken, AtWork
<1>7. Work
  BY <1>6 DEF Work
<1>8. Drive
  BY <1>2, <1>4, Roles DEF Drive, ReadyTaken, OneOf
<1>9. ASSUME NEW c \in Callers
      PROVE  Flight(c)
  <2>1. ~Sent(c) /\ ~Answered(c) /\ ~Asked(c)
    BY <1>2, <1>4, CallerFacts, Roles DEF Sent, Answered, Asked
  <2>2. ~Served(c)
    BY <1>6, CallerFacts DEF Served
  <2> QED
    BY <2>1, <2>2 DEF Flight, OneOf
<1>10. Cardinality(WriteBacks) <= MaxWriteBacks
  <2>1. WriteBacks = {}
    BY <1>2, Roles DEF WriteBacks
  <2> QED
    BY <2>1, FS_EmptySet, RoleAssumption
<1> QED
  BY <1>1, <1>3, <1>5, <1>7, <1>8, <1>9, <1>10, InvParts DEF Protocol

(***************************************************************************)
(* What holds of FM, IDE, their callers and the drive at any time.         *)
(***************************************************************************)
THEOREM DiskInvariant == DiskSpec => []DiskInv
<1> QED
  BY InitDisk, StepDisk, PTL DEF DiskSpec

\* No panic of message.c or of the IDE driver is reachable: a pool has room,
\* every ready message answers a command, and commands go to an idle drive.
THEOREM DriverNeverPanics == DiskSpec => []NoPanic
<1>1. DiskInv => NoPanic
  BY DEF DiskInv
<1> QED
  BY <1>1, DiskInvariant, PTL

\* A request is never lost, never served twice, and answered to its caller.
THEOREM RequestsKept == DiskSpec => []OneRequest
<1>1. DiskInv => OneRequest
  BY DEF DiskInv
<1> QED
  BY <1>1, DiskInvariant, PTL

\* While init loads no program, schedule() finds a process to run.
THEOREM SchedulerAlwaysReturns ==
    ASSUME Idle \notin Clients
    PROVE  DiskSpec => []SchedulerReturns
<1>1. DiskInv => SchedulerReturns
  BY DEF DiskInv, IInv, Shape, NeverSpins, SchedulerReturns
<1> QED
  BY <1>1, DiskInvariant, PTL
=============================================================================
