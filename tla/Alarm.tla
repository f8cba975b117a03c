------------------------------- MODULE Alarm -------------------------------
(***************************************************************************)
(* The alarms of kernel/drivers/timer.c: processes that sleep, the TIMER   *)
(* thread that sets an alarm for each and later wakes it, and the timer    *)
(* interrupt that counts down.  The alarms that are set are a list ordered *)
(* by time in which each holds its distance from the one before, so that   *)
(* an interrupt decrements the first only.                                 *)
(*                                                                         *)
(* Messages travel as module Mailbox says.  A process asks for itself and  *)
(* sleeps until it is answered (INT80_SLEEP in kernel/irq/irq_handle.c).   *)
(***************************************************************************)
EXTENDS Integers, SequencesExt

CONSTANTS
    Pids,          \* the processes that sleep
    NrAlarms,      \* the size of alarm_pool (NR_PROCESS)
    Seconds,       \* how long they ask to sleep
    HZ,            \* ticks in a second, 100 in the code
    IntMax         \* the greatest int_32

ASSUME AlarmAssumption ==
    /\ IsFiniteSet(Pids) /\ Cardinality(Pids) <= NrAlarms
    /\ Seconds \subseteq Int
    /\ HZ \in Nat \ {0} /\ IntMax \in Nat \ {0} /\ NrAlarms \in Nat

VARIABLES
    asleep,        \* the processes inside sleep()
    inbox,         \* the mailbox of TIMER, of requests and of alarms that rang
    queue,         \* alarm_queue
    fault          \* whether alarm_free was used when it was NULL

vars == <<asleep, inbox, queue, fault>>

Int32 == -IntMax - 1 .. IntMax

Wrap(x) == ((x + IntMax + 1) % (2 * IntMax + 2)) - IntMax - 1

Request == [type : {"set"}, pid : Pids, second : Seconds]
Ring == [type : {"fire"}, pid : Pids]

\* A process is asleep or not, and an alarm's distance fits its field.
TypeOK ==
    /\ asleep \subseteq Pids
    /\ inbox \in Seq(Request \cup Ring)
    /\ queue \in Seq([pid : Pids, remain : Int32])
    /\ fault \in BOOLEAN

\* init_alarm
Init ==
    /\ asleep = {}
    /\ inbox = <<>>
    /\ queue = <<>>
    /\ fault = FALSE
-----------------------------------------------------------------------------
(***************************************************************************)
(* INT80_SLEEP: send(TIMER, &m); receive(TIMER, &m);                       *)
(***************************************************************************)
Sleep(p) ==
    /\ p \notin asleep
    /\ asleep' = asleep \cup {p}
    /\ \E s \in Seconds : inbox' = Append(inbox, [type |-> "set", pid |-> p, second |-> s])
    /\ UNCHANGED <<queue, fault>>

(***************************************************************************)
(* new_alarm                                                               *)
(***************************************************************************)

\* The time from now of the i-th alarm of q.
Due(q, i) ==
    LET due[j \in 0 .. Len(q)] == IF j = 0 THEN 0 ELSE due[j - 1] + q[j].remain
    IN  due[i]

\* The alarm after which the list is entered: the first that is the last or
\* has a successor farther off than time.
IsPlace(q, time, i) ==
    LET stops(j) == j < Len(q) => q[j + 1].remain > time - Due(q, j)
    IN  stops(i) /\ \A j \in 1 .. i - 1 : ~stops(j)

\* Faults of Enter: the alarm after it is moved, or is moved the wrong way.
EnterMoves(q, i, p, d) ==
    SubSeq(q, 1, i) \o <<[pid |-> p, remain |-> d]>> \o SubSeq(q, i + 1, Len(q))

EnterAdds(q, i, p, d) ==
    LET rest == SubSeq(q, i + 1, Len(q))
        later == IF rest = <<>> THEN rest ELSE [rest EXCEPT ![1].remain = @ + d]
    IN  SubSeq(q, 1, i) \o <<[pid |-> p, remain |-> d]>> \o later

\* Entered after the i-th, at the distance d from it.
Enter(q, i, p, d) ==
    LET rest == SubSeq(q, i + 1, Len(q))
        later == IF rest = <<>> THEN rest
                 ELSE [rest EXCEPT ![1].remain = Wrap(@ - d)]
    IN  SubSeq(q, 1, i) \o <<[pid |-> p, remain |-> d]>> \o later

GoesFirst(q, time) == q # <<>> => time < q[1].remain

NewAlarm(p, time) ==
    \/ GoesFirst(queue, time) /\ queue' = Enter(queue, 0, p, time)
    \/ /\ ~GoesFirst(queue, time)
       /\ \E i \in 1 .. Len(queue) :
             IsPlace(queue, time, i) /\ queue' = Enter(queue, i, p, time - Due(queue, i))

(***************************************************************************)
(* timer_driver_thread: the TIMER thread works off its messages.  An alarm *)
(* is entered under lock(), so no interrupt sees the list half changed.    *)
(***************************************************************************)
SetAlarm ==
    /\ inbox # <<>> /\ Head(inbox).type = "set"
    /\ inbox' = Tail(inbox)
    /\ IF Len(queue) = NrAlarms
       THEN fault' = TRUE /\ UNCHANGED queue
       ELSE NewAlarm(Head(inbox).pid, Wrap(Head(inbox).second * HZ)) /\ UNCHANGED fault
    /\ UNCHANGED asleep

AlarmFire ==
    /\ inbox # <<>> /\ Head(inbox).type = "fire"
    /\ inbox' = Tail(inbox)
    /\ asleep' = asleep \ {Head(inbox).pid}
    /\ UNCHANGED <<queue, fault>>

(***************************************************************************)
(* timer_intr: the first alarm comes closer, and those that are due ring.  *)
(***************************************************************************)
Elapsed(q) == IF q = <<>> THEN q ELSE [q EXCEPT ![1].remain = @ - 1]

\* The number of alarms the loop pops.
IsRinging(q, n) ==
    /\ \A i \in 1 .. n : q[i].remain <= 0
    /\ n < Len(q) => q[n + 1].remain > 0

\* Faults of TimerIntr: what rings is not popped, or every message names the first.
TimerIntrKeeps ==
    \E n \in 0 .. Len(queue) :
       /\ IsRinging(Elapsed(queue), n)
       /\ queue' = Elapsed(queue)
       /\ inbox' = inbox \o [i \in 1 .. n |-> [type |-> "fire", pid |-> queue[i].pid]]
       /\ UNCHANGED <<asleep, fault>>

TimerIntrOnce ==
    \E n \in 0 .. Len(queue) :
       /\ IsRinging(Elapsed(queue), n)
       /\ queue' = SubSeq(Elapsed(queue), n + 1, Len(queue))
       /\ inbox' = inbox \o [i \in 1 .. n |-> [type |-> "fire", pid |-> queue[1].pid]]
       /\ UNCHANGED <<asleep, fault>>

TimerIntr ==
    \E n \in 0 .. Len(queue) :
       /\ IsRinging(Elapsed(queue), n)
       /\ queue' = SubSeq(Elapsed(queue), n + 1, Len(queue))
       /\ inbox' = inbox \o [i \in 1 .. n |-> [type |-> "fire", pid |-> queue[i].pid]]
       /\ UNCHANGED <<asleep, fault>>

Next == (\E p \in Pids : Sleep(p)) \/ SetAlarm \/ AlarmFire \/ TimerIntr

(***************************************************************************)
(* The timer interrupts for ever, and the TIMER thread is scheduled and    *)
(* receives what is sent to it (ReadyRuns and Delivery of module Ipc).     *)
(***************************************************************************)
Spec == Init /\ [][Next]_vars

FairSpec == Spec /\ WF_vars(TimerIntr) /\ WF_vars(SetAlarm \/ AlarmFire)
-----------------------------------------------------------------------------
(***************************************************************************)
(* An alarm is never lost and never doubled on its way from the request    *)
(* through the list to the answer: a process that sleeps has exactly one   *)
(* request, alarm or ring, and one that does not has none.  Hence the pool *)
(* of alarms, one for each process, is never exhausted: alarm_free is not  *)
(* NULL when new_alarm takes an alarm from it.                             *)
(***************************************************************************)
Carried(p) == {i \in DOMAIN inbox : inbox[i].pid = p}
Listed(p) == {i \in DOMAIN queue : queue[i].pid = p}

OneAlarm ==
    /\ ~fault
    /\ \A p \in Pids :
          Cardinality(Carried(p)) + Cardinality(Listed(p)) = IF p \in asleep THEN 1 ELSE 0

\* Sleeps that the code measures: of a tick at least (behind a shorter one
\* the next tick is not counted), and of no more ticks than an int holds.
Measured == \A s \in Seconds : s * HZ \in 1 .. IntMax

\* Nobody sleeps for ever, however often the others sleep.
SleepEnds == \A p \in Pids : p \in asleep ~> p \notin asleep

(***************************************************************************)
(* Refinement.  The distances add up to the ticks each alarm has to go.    *)
(***************************************************************************)
Togo(q) ==
    [p \in Pids |-> LET places == {i \in DOMAIN q : q[i].pid = p}
                    IN  IF places = {} THEN 0 ELSE Due(q, CHOOSE i \in places : TRUE)]

HaveRung(box) == {p \in Pids : \E i \in DOMAIN box : box[i].pid = p /\ box[i].type = "fire"}

Clock == INSTANCE AlarmClock WITH
    Sleepers <- Pids,
    Durations <- {s * HZ : s \in Seconds},
    togo <- Togo(queue),
    rung <- HaveRung(inbox)

\* Every alarm rings at its tick: entering, popping and counting down one
\* alarm never moves another.
ClockSpec == Clock!ClockSpec
=============================================================================
