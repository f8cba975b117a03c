----------------------------- MODULE AlarmProofs -----------------------------
(***************************************************************************)
(* Proofs about Alarm, for every set of processes, all durations, every    *)
(* clock rate and width of an integer.                                     *)
(***************************************************************************)
EXTENDS Alarm, ListProofs

(***************************************************************************)
(* The processes that are named, in order, by a list of messages or of     *)
(* alarms.                                                                 *)
(***************************************************************************)
Names(q) == [i \in 1 .. Len(q) |-> q[i].pid]

\* The lists are lists; nothing is said of how far off an alarm is.
Lists ==
    /\ asleep \subseteq Pids
    /\ inbox \in Seq(Request \cup Ring)
    /\ \E R : queue \in Seq([pid : Pids, remain : R])

(***************************************************************************)
(* The inductive invariant: no process is named twice, by requests, rings  *)
(* and alarms together, and the processes named are those that sleep.      *)
(***************************************************************************)
NamedOnce ==
    /\ IsInjective(Names(inbox)) /\ IsInjective(Names(queue))
    /\ ToSet(Names(inbox)) \cap ToSet(Names(queue)) = {}
    /\ ToSet(Names(inbox)) \cup ToSet(Names(queue)) = asleep

AlarmInv == Lists /\ NamedOnce /\ fault = FALSE

LEMMA NamesFacts ==
    ASSUME NEW S, NEW q \in Seq(S), \A a \in S : a.pid \in Pids
    PROVE  /\ Names(q) \in Seq(Pids) /\ Len(Names(q)) = Len(q) /\ Len(q) \in Nat
           /\ \A i \in 1 .. Len(q) : Names(q)[i] = q[i].pid
<1>1. Len(q) \in Nat /\ \A i \in 1 .. Len(q) : q[i] \in S
  BY LenProperties, ElementOfSeq
<1>2. Names(q) \in [1 .. Len(q) -> Pids]
  BY <1>1 DEF Names
<1> QED
  BY <1>1, <1>2, FunctionIsSeq DEF Names

LEMMA InboxNames ==
    ASSUME Lists
    PROVE  /\ Names(inbox) \in Seq(Pids) /\ Len(Names(inbox)) = Len(inbox) /\ Len(inbox) \in Nat
           /\ \A i \in 1 .. Len(inbox) : Names(inbox)[i] = inbox[i].pid
<1>1. \A m \in Request \cup Ring : m.pid \in Pids
  BY DEF Request, Ring
<1> QED
  BY <1>1, NamesFacts DEF Lists

LEMMA QueueNames ==
    ASSUME Lists
    PROVE  /\ Names(queue) \in Seq(Pids) /\ Len(Names(queue)) = Len(queue) /\ Len(queue) \in Nat
           /\ \A i \in 1 .. Len(queue) : Names(queue)[i] = queue[i].pid
<1>1. PICK R : queue \in Seq([pid : Pids, remain : R])
  BY DEF Lists
<1>2. \A a \in [pid : Pids, remain : R] : a.pid \in Pids
  OBVIOUS
<1> QED
  BY <1>1, <1>2, NamesFacts

\* A message sent to TIMER is named last.
LEMMA NamesAppend ==
    ASSUME NEW S, NEW q \in Seq(S), \A a \in S : a.pid \in Pids, NEW m \in S
    PROVE  Names(Append(q, m)) = Append(Names(q), m.pid)
<1> DEFINE t == Append(q, m)
           u == Append(Names(q), m.pid)
<1>1. /\ t \in Seq(S) /\ Len(t) = Len(q) + 1 /\ Len(q) \in Nat
      /\ \A i \in 1 .. Len(q) : t[i] = q[i]
      /\ t[Len(q) + 1] = m
  BY AppendProperties, LenProperties
<1> HIDE DEF t
<1>2. /\ Names(q) \in Seq(Pids) /\ Len(Names(q)) = Len(q)
      /\ \A i \in 1 .. Len(q) : Names(q)[i] = q[i].pid
  BY NamesFacts
<1>3. /\ Names(t) \in Seq(Pids) /\ Len(Names(t)) = Len(t)
      /\ \A i \in 1 .. Len(t) : Names(t)[i] = t[i].pid
  BY <1>1, NamesFacts
<1>4. /\ u \in Seq(Pids) /\ Len(u) = Len(q) + 1
      /\ \A i \in 1 .. Len(q) : u[i] = Names(q)[i]
      /\ u[Len(q) + 1] = m.pid
  BY <1>2, AppendProperties
<1> HIDE DEF u
<1>5. ASSUME NEW i \in 1 .. Len(t) PROVE Names(t)[i] = u[i]
  <2>1. i \in 1 .. Len(q) \/ i = Len(q) + 1
    BY <1>1
  <2> QED
    BY <1>1, <1>2, <1>3, <1>4, <2>1
<1>6. Len(Names(t)) = Len(u)
  BY <1>1, <1>3, <1>4
<1>7. Names(t) = u
  BY <1>3, <1>4, <1>5, <1>6, SeqEqual
<1> QED
  BY <1>7 DEF t, u

\* The first message is the first named.
LEMMA NamesTail ==
    ASSUME NEW S, NEW q \in Seq(S), \A a \in S : a.pid \in Pids, q # <<>>
    PROVE  /\ Names(q) # <<>> /\ Head(Names(q)) = Head(q).pid
           /\ Names(Tail(q)) = Tail(Names(q))
<1>1. /\ Names(q) \in Seq(Pids) /\ Len(Names(q)) = Len(q) /\ Len(q) \in Nat
      /\ \A i \in 1 .. Len(q) : Names(q)[i] = q[i].pid
  BY NamesFacts
<1>2. Len(q) # 0 /\ Head(q) = q[1]
  BY EmptySeq
<1>3. 1 \in 1 .. Len(q)
  BY <1>1, <1>2
<1>4. Names(q) # <<>> /\ Head(Names(q)) = Names(q)[1]
  BY <1>1, <1>2, EmptySeq
<1> DEFINE t == Tail(q)
           u == Tail(Names(q))
<1>5. /\ t \in Seq(S) /\ Len(t) = Len(q) - 1
      /\ \A i \in 1 .. Len(t) : t[i] = q[i + 1]
  BY HeadTailProperties
<1>6. /\ u \in Seq(Pids) /\ Len(u) = Len(q) - 1
      /\ \A i \in 1 .. Len(u) : u[i] = Names(q)[i + 1]
  BY <1>1, <1>4, HeadTailProperties
<1> HIDE DEF t, u
<1>7. /\ Names(t) \in Seq(Pids) /\ Len(Names(t)) = Len(t)
      /\ \A i \in 1 .. Len(t) : Names(t)[i] = t[i].pid
  BY <1>5, NamesFacts
<1>8. ASSUME NEW i \in 1 .. Len(t) PROVE Names(t)[i] = u[i]
  <2>1. i + 1 \in 1 .. Len(q)
    BY <1>1, <1>5
  <2> QED
    BY <1>1, <1>5, <1>6, <1>7, <2>1
<1>9. Names(t) = u
  BY <1>5, <1>6, <1>7, <1>8, SeqEqual
<1> QED
  BY <1>1, <1>2, <1>3, <1>4, <1>9 DEF t, u

(***************************************************************************)
(* new_alarm and timer_intr: what they do to the processes named.          *)
(***************************************************************************)
IsEntered(q, i, p, t) ==
    \E R : /\ t \in Seq([pid : Pids, remain : R])
          /\ Len(t) = Len(q) + 1
          /\ \A j \in 1 .. Len(q) + 1 :
                t[j].pid = IF j <= i THEN q[j].pid ELSE IF j = i + 1 THEN p ELSE q[j - 1].pid

LEMMA EnterNames ==
    ASSUME NEW R, NEW q \in Seq([pid : Pids, remain : R]), NEW i \in 0 .. Len(q),
           NEW p \in Pids, NEW d
    PROVE  IsEntered(q, i, p, Enter(q, i, p, d))
<1> DEFINE a == SubSeq(q, 1, i)
           b == SubSeq(q, i + 1, Len(q))
           x == [pid |-> p, remain |-> d]
           near == Wrap(b[1].remain - d)
           later == IF b = <<>> THEN b ELSE [b EXCEPT ![1].remain = near]
           R2 == R \cup {d, near}
           A == [pid : Pids, remain : R2]
           t == a \o <<x>> \o later
<1>1. Enter(q, i, p, d) = t
  BY DEF Enter
<1>2. Len(q) \in Nat /\ i \in Nat
  BY LenProperties
<1>3. q \in Seq(A) /\ x \in A
  <2> HIDE DEF near, a, b
  <2>1. [pid : Pids, remain : R] \subseteq A /\ x \in A
    OBVIOUS
  <2> HIDE DEF A
  <2> QED
    BY <2>1, SeqMono
<1> HIDE DEF A
<1>4. a \in Seq(A) /\ b \in Seq(A) /\ IsCut(q, i, a, b)
  BY <1>3, Cutting
<1> HIDE DEF a, b
<1>5. /\ Len(a) = i /\ \A j \in 1 .. i : a[j] = q[j]
      /\ Len(b) = Len(q) - i /\ \A j \in 1 .. Len(q) - i : b[j] = q[i + j]
  BY <1>4 DEF IsCut
<1> HIDE DEF near
<1>6. /\ later \in Seq(A) /\ Len(later) = Len(b)
      /\ \A j \in 1 .. Len(b) : later[j].pid = b[j].pid
  <2>1. CASE b = <<>>
    BY <1>4, <2>1
  <2>2. CASE b # <<>>
    <3> DEFINE y == [b[1] EXCEPT !.remain = near]
    <3>1. Len(b) \in Nat \ {0} /\ 1 \in 1 .. Len(b)
      BY <1>4, <2>2, EmptySeq
    <3>2. b[1] \in A
      BY <1>4, <3>1, ElementOfSeq
    <3>3. y \in A /\ y.pid = b[1].pid
      BY <3>2 DEF A
    <3> HIDE DEF y
    <3>4. later = [b EXCEPT ![1] = y]
      BY <2>2 DEF y
    <3>5. /\ [b EXCEPT ![1] = y] \in Seq(A) /\ Len([b EXCEPT ![1] = y]) = Len(b)
          /\ \A j \in 1 .. Len(b) : [b EXCEPT ![1] = y][j] = IF j = 1 THEN y ELSE b[j]
      BY <1>4, <3>1, <3>3, ExceptSeq
    <3> QED
      BY <3>3, <3>4, <3>5
  <2> QED
    BY <2>1, <2>2
<1> HIDE DEF later, x
<1>7. /\ t \in Seq(A) /\ Len(t) = Len(a) + 1 + Len(later)
      /\ \A j \in 1 .. Len(a) + 1 + Len(later) :
            t[j] = IF j <= Len(a) THEN a[j]
                   ELSE IF j = Len(a) + 1 THEN x ELSE later[j - Len(a) - 1]
  <2>1. a \in Seq(A) /\ x \in A /\ later \in Seq(A)
    BY <1>3, <1>4, <1>6
  <2> QED
    BY <2>1, Between
<1> HIDE DEF t
<1>8. Len(t) = Len(q) + 1 /\ Len(a) + 1 + Len(later) = Len(q) + 1
  BY <1>2, <1>5, <1>6, <1>7
<1>9. ASSUME NEW j \in 1 .. Len(q) + 1
      PROVE  t[j].pid = IF j <= i THEN q[j].pid ELSE IF j = i + 1 THEN p ELSE q[j - 1].pid
  <2>1. t[j] = IF j <= i THEN a[j] ELSE IF j = i + 1 THEN x ELSE later[j - i - 1]
    BY <1>5, <1>7, <1>8
  <2>2. CASE j <= i
    BY <1>2, <1>5, <2>1, <2>2
  <2>3. CASE j = i + 1
    BY <1>2, <2>1, <2>3 DEF x
  <2>4. CASE ~(j <= i) /\ j # i + 1
    <3>1. j - i - 1 \in 1 .. Len(q) - i /\ i + (j - i - 1) = j - 1
      BY <1>2, <2>4
    <3>2. later[j - i - 1].pid = q[j - 1].pid
      BY <1>5, <1>6, <3>1
    <3> QED
      BY <2>1, <2>4, <3>2
  <2> QED
    BY <2>2, <2>3, <2>4
<1> QED
  BY <1>1, <1>7, <1>8, <1>9 DEF A, IsEntered

\* new_alarm: one more process is named by the list of alarms.
LEMMA NewAlarmNames ==
    ASSUME Lists, NEW p \in Pids, NEW time, NewAlarm(p, time),
           IsInjective(Names(queue)), p \notin ToSet(Names(queue))
    PROVE  /\ \E R : queue' \in Seq([pid : Pids, remain : R])
           /\ IsInjective(Names(queue'))
           /\ ToSet(Names(queue')) = ToSet(Names(queue)) \cup {p}
<1>1. PICK R : queue \in Seq([pid : Pids, remain : R])
  BY DEF Lists
<1>2. /\ Names(queue) \in Seq(Pids) /\ Len(Names(queue)) = Len(queue) /\ Len(queue) \in Nat
      /\ \A j \in 1 .. Len(queue) : Names(queue)[j] = queue[j].pid
  BY QueueNames
<1>3. PICK i \in 0 .. Len(queue) : \E d : queue' = Enter(queue, i, p, d)
  <2>1. CASE GoesFirst(queue, time) /\ queue' = Enter(queue, 0, p, time)
    <3>1. 0 \in 0 .. Len(queue)
      BY <1>2
    <3> QED
      BY <2>1, <3>1
  <2>2. CASE \E i \in 1 .. Len(queue) : queue' = Enter(queue, i, p, time - Due(queue, i))
    <3>1. PICK i \in 1 .. Len(queue) : queue' = Enter(queue, i, p, time - Due(queue, i))
      BY <2>2
    <3>2. i \in 0 .. Len(queue)
      BY <1>2
    <3> QED
      BY <3>1, <3>2
  <2> QED
    BY <2>1, <2>2 DEF NewAlarm
<1>4. PICK R2 :
         /\ queue' \in Seq([pid : Pids, remain : R2])
         /\ Len(queue') = Len(queue) + 1
         /\ \A j \in 1 .. Len(queue) + 1 :
               queue'[j].pid = IF j <= i THEN queue[j].pid
                               ELSE IF j = i + 1 THEN p ELSE queue[j - 1].pid
  <2>1. PICK d : queue' = Enter(queue, i, p, d)
    BY <1>3
  <2>2. IsEntered(queue, i, p, queue')
    BY <1>1, <2>1, EnterNames
  <2> QED
    BY <2>2 DEF IsEntered
<1>5. /\ Names(queue') \in Seq(Pids) /\ Len(Names(queue')) = Len(queue')
      /\ \A j \in 1 .. Len(queue') : Names(queue')[j] = queue'[j].pid
  <2>1. \A a \in [pid : Pids, remain : R2] : a.pid \in Pids
    OBVIOUS
  <2> QED
    BY <1>4, <2>1, NamesFacts
<1> DEFINE s == Names(queue)
           t == Names(queue')
<1>6. Len(t) = Len(s) + 1 /\ i \in 0 .. Len(s)
  BY <1>2, <1>4, <1>5
<1>7. ASSUME NEW j \in 1 .. Len(s) + 1
      PROVE  t[j] = IF j <= i THEN s[j] ELSE IF j = i + 1 THEN p ELSE s[j - 1]
  <2>1. /\ j \in 1 .. Len(queue) + 1 /\ j \in 1 .. Len(queue')
        /\ j <= i => j \in 1 .. Len(queue)
        /\ ~(j <= i) /\ j # i + 1 => j - 1 \in 1 .. Len(queue)
    BY <1>2, <1>4
  <2>2. t[j] = queue'[j].pid
    BY <1>5, <2>1
  <2> QED
    BY <1>2, <1>4, <2>1, <2>2
<1> HIDE DEF s, t
<1>8. ToSet(t) = ToSet(s) \cup {p} /\ IsInjective(t)
  <2>1. s \in Seq(Pids) /\ t \in Seq(Pids) /\ IsInjective(s) /\ p \notin ToSet(s)
    BY <1>2, <1>5 DEF s, t
  <2> QED
    BY <1>6, <1>7, <2>1, Entering
<1> QED
  BY <1>4, <1>8 DEF s, t

\* The head of TIMER's mailbox.
LEMMA InboxTail ==
    ASSUME AlarmInv, inbox # <<>>
    PROVE  /\ Head(inbox) \in Request \cup Ring /\ Head(inbox).pid \in Pids
           /\ Tail(inbox) \in Seq(Request \cup Ring)
           /\ IsInjective(Names(Tail(inbox)))
           /\ ToSet(Names(Tail(inbox))) = ToSet(Names(inbox)) \ {Head(inbox).pid}
           /\ Head(inbox).pid \in ToSet(Names(inbox))
<1>1. inbox \in Seq(Request \cup Ring) /\ \A m \in Request \cup Ring : m.pid \in Pids
  BY DEF AlarmInv, Lists, Request, Ring
<1>2. /\ Names(inbox) # <<>> /\ Head(Names(inbox)) = Head(inbox).pid
      /\ Names(Tail(inbox)) = Tail(Names(inbox))
  BY <1>1, NamesTail
<1>3. Names(inbox) \in Seq(Pids) /\ IsInjective(Names(inbox))
  BY InboxNames DEF AlarmInv, NamedOnce
<1>4. /\ ToSet(Tail(Names(inbox))) = ToSet(Names(inbox)) \ {Head(Names(inbox))}
      /\ IsInjective(Tail(Names(inbox)))
      /\ Head(Names(inbox)) \in ToSet(Names(inbox))
  BY <1>2, <1>3, TailUnlinks
<1>5. Head(inbox) \in Request \cup Ring /\ Tail(inbox) \in Seq(Request \cup Ring)
  BY <1>1, HeadTailProperties
<1> QED
  BY <1>1, <1>2, <1>4, <1>5

\* INT80_SLEEP: a process that is awake asks.
LEMMA SleepStep ==
    ASSUME AlarmInv, NEW p \in Pids, Sleep(p)
    PROVE  AlarmInv'
<1>1. PICK s \in Seconds : inbox' = Append(inbox, [type |-> "set", pid |-> p, second |-> s])
  BY DEF Sleep
<1> DEFINE m == [type |-> "set", pid |-> p, second |-> s]
<1>2. m \in Request \cup Ring /\ m.pid = p
  BY DEF Request
<1> HIDE DEF m
<1>3. inbox \in Seq(Request \cup Ring) /\ \A x \in Request \cup Ring : x.pid \in Pids
  BY DEF AlarmInv, Lists, Request, Ring
<1>4. inbox' \in Seq(Request \cup Ring) /\ Names(inbox') = Append(Names(inbox), p)
  BY <1>1, <1>2, <1>3, NamesAppend, AppendProperties DEF m
<1>5. Names(inbox) \in Seq(Pids) /\ IsInjective(Names(inbox)) /\ p \notin ToSet(Names(inbox))
  BY InboxNames DEF AlarmInv, NamedOnce, Sleep
<1>6. /\ ToSet(Append(Names(inbox), p)) = ToSet(Names(inbox)) \cup {p}
      /\ IsInjective(Append(Names(inbox), p))
  BY <1>5, Linking
<1>7. /\ asleep' = asleep \cup {p} /\ queue' = queue /\ fault' = fault
      /\ p \notin ToSet(Names(queue))
  BY DEF Sleep, AlarmInv, NamedOnce
<1>8. Lists'
  BY <1>4, <1>7 DEF AlarmInv, Lists
<1>9. NamedOnce'
  BY <1>4, <1>6, <1>7 DEF AlarmInv, NamedOnce
<1> QED
  BY <1>7, <1>8, <1>9 DEF AlarmInv

\* ALARM_SET: alarm_pool has an alarm left, the process's own.
LEMMA SetAlarmStep ==
    ASSUME AlarmInv, SetAlarm
    PROVE  AlarmInv'
<1> DEFINE p == Head(inbox).pid
<1>1. /\ p \in Pids
      /\ Tail(inbox) \in Seq(Request \cup Ring)
      /\ IsInjective(Names(Tail(inbox)))
      /\ ToSet(Names(Tail(inbox))) = ToSet(Names(inbox)) \ {p}
      /\ p \in ToSet(Names(inbox))
  BY InboxTail DEF SetAlarm
<1>2. p \notin ToSet(Names(queue)) /\ IsInjective(Names(queue)) /\ asleep \subseteq Pids
  BY <1>1 DEF AlarmInv, NamedOnce, Lists
<1>3. Len(queue) # NrAlarms
  <2>1. IsFiniteSet(Pids) /\ Cardinality(Pids) <= NrAlarms /\ NrAlarms \in Nat
    BY AlarmAssumption
  <2>2. IsFiniteSet(Pids \ {p}) /\ Cardinality(Pids \ {p}) = Cardinality(Pids) - 1
    BY <1>1, <2>1, FS_RemoveElement
  <2>3. Cardinality(Pids) \in Nat
    BY <2>1, FS_CardinalityType
  <2>4. Names(queue) \in Seq(Pids) /\ Len(Names(queue)) = Len(queue) /\ Len(queue) \in Nat
    BY QueueNames DEF AlarmInv
  <2>5. ToSet(Names(queue)) \subseteq Pids \ {p}
    BY <1>2 DEF AlarmInv, NamedOnce
  <2>6. Len(Names(queue)) <= Cardinality(Pids \ {p})
    BY <1>2, <2>2, <2>4, <2>5, NoRepetitions
  <2> QED
    BY <2>1, <2>2, <2>3, <2>4, <2>6
<1>4. /\ inbox' = Tail(inbox) /\ asleep' = asleep /\ fault' = fault
      /\ NewAlarm(p, Wrap(Head(inbox).second * HZ))
  BY <1>3 DEF SetAlarm
<1>5. PICK time : time = Wrap(Head(inbox).second * HZ)
  OBVIOUS
<1> HIDE DEF p
<1>6. Lists /\ NewAlarm(p, time)
  BY <1>4, <1>5 DEF AlarmInv
<1>7. /\ \E R : queue' \in Seq([pid : Pids, remain : R])
      /\ IsInjective(Names(queue'))
      /\ ToSet(Names(queue')) = ToSet(Names(queue)) \cup {p}
  BY <1>1, <1>2, <1>6, NewAlarmNames
<1>8. Lists'
  BY <1>1, <1>2, <1>4, <1>7 DEF Lists
<1>9. NamedOnce'
  BY <1>1, <1>2, <1>4, <1>7 DEF AlarmInv, NamedOnce
<1> QED
  BY <1>4, <1>8, <1>9 DEF AlarmInv

\* ALARM_FIRE: the process is answered.
LEMMA AlarmFireStep ==
    ASSUME AlarmInv, AlarmFire
    PROVE  AlarmInv'
<1> DEFINE p == Head(inbox).pid
<1>1. /\ Tail(inbox) \in Seq(Request \cup Ring)
      /\ IsInjective(Names(Tail(inbox)))
      /\ ToSet(Names(Tail(inbox))) = ToSet(Names(inbox)) \ {p}
      /\ p \in ToSet(Names(inbox))
  BY InboxTail DEF AlarmFire
<1>2. inbox' = Tail(inbox) /\ asleep' = asleep \ {p} /\ queue' = queue /\ fault' = fault
  BY DEF AlarmFire
<1> HIDE DEF p
<1>3. Lists'
  BY <1>1, <1>2 DEF AlarmInv, Lists
<1>4. NamedOnce'
  BY <1>1, <1>2 DEF AlarmInv, NamedOnce
<1> QED
  BY <1>2, <1>3, <1>4 DEF AlarmInv

LEMMA NamesConcat ==
    ASSUME NEW S, NEW q \in Seq(S), NEW r \in Seq(S), \A a \in S : a.pid \in Pids
    PROVE  Names(q \o r) = Names(q) \o Names(r)
<1> DEFINE t == q \o r
           u == Names(q) \o Names(r)
<1>1. /\ Names(q) \in Seq(Pids) /\ Len(Names(q)) = Len(q) /\ Len(q) \in Nat
      /\ \A i \in 1 .. Len(q) : Names(q)[i] = q[i].pid
  BY NamesFacts
<1>2. /\ Names(r) \in Seq(Pids) /\ Len(Names(r)) = Len(r) /\ Len(r) \in Nat
      /\ \A i \in 1 .. Len(r) : Names(r)[i] = r[i].pid
  BY NamesFacts
<1>3. /\ t \in Seq(S) /\ Len(t) = Len(q) + Len(r)
      /\ \A i \in 1 .. Len(q) + Len(r) : t[i] = IF i <= Len(q) THEN q[i] ELSE r[i - Len(q)]
  BY ConcatProperties
<1>4. /\ u \in Seq(Pids) /\ Len(u) = Len(q) + Len(r)
      /\ \A i \in 1 .. Len(q) + Len(r) :
            u[i] = IF i <= Len(q) THEN Names(q)[i] ELSE Names(r)[i - Len(q)]
  <2> DEFINE m == Names(q)
             n == Names(r)
  <2>1. m \in Seq(Pids) /\ n \in Seq(Pids) /\ Len(m) = Len(q) /\ Len(n) = Len(r)
    BY <1>1, <1>2
  <2> HIDE DEF m, n
  <2>2. /\ m \o n \in Seq(Pids) /\ Len(m \o n) = Len(m) + Len(n)
        /\ \A i \in 1 .. Len(m) + Len(n) : (m \o n)[i] = IF i <= Len(m) THEN m[i] ELSE n[i - Len(m)]
    BY <2>1, ConcatProperties
  <2> QED
    BY <2>1, <2>2 DEF m, n
<1> HIDE DEF t, u
<1>5. /\ Names(t) \in Seq(Pids) /\ Len(Names(t)) = Len(t)
      /\ \A i \in 1 .. Len(t) : Names(t)[i] = t[i].pid
  BY <1>3, NamesFacts
<1>6. ASSUME NEW i \in 1 .. Len(t) PROVE Names(t)[i] = u[i]
  <2>1. i \in 1 .. Len(q) + Len(r)
    BY <1>3
  <2>2. CASE i <= Len(q)
    <3>1. i \in 1 .. Len(q)
      BY <1>1, <1>2, <2>1, <2>2
    <3> QED
      BY <1>1, <1>3, <1>4, <1>5, <2>1, <2>2, <3>1
  <2>3. CASE ~(i <= Len(q))
    <3>1. i - Len(q) \in 1 .. Len(r)
      BY <1>1, <1>2, <2>1, <2>3
    <3> QED
      BY <1>2, <1>3, <1>4, <1>5, <2>1, <2>3, <3>1
  <2> QED
    BY <2>2, <2>3
<1>7. Names(t) = u
  BY <1>3, <1>4, <1>5, <1>6, SeqEqual
<1> QED
  BY <1>7 DEF t, u

\* The decrement of the first alarm.
LEMMA ElapsedNames ==
    ASSUME NEW R, NEW q \in Seq([pid : Pids, remain : R])
    PROVE  /\ \E R2 : Elapsed(q) \in Seq([pid : Pids, remain : R2])
           /\ Len(Elapsed(q)) = Len(q)
           /\ \A j \in 1 .. Len(q) : Elapsed(q)[j].pid = q[j].pid
<1>1. CASE q = <<>>
  BY <1>1 DEF Elapsed
<1>2. CASE q # <<>>
  <2> DEFINE near == q[1].remain - 1
             R2 == R \cup {near}
             A == [pid : Pids, remain : R2]
             y == [q[1] EXCEPT !.remain = near]
  <2>1. Len(q) \in Nat \ {0} /\ 1 \in 1 .. Len(q)
    BY <1>2, EmptySeq
  <2> HIDE DEF near
  <2>2. q[1] \in A /\ q \in Seq(A)
    <3>1. [pid : Pids, remain : R] \subseteq A
      OBVIOUS
    <3> HIDE DEF A
    <3> QED
      BY <2>1, <3>1, SeqMono, ElementOfSeq
  <2>3. y \in A /\ y.pid = q[1].pid
    BY <2>2
  <2>4. Elapsed(q) = [q EXCEPT ![1] = y]
    BY <1>2 DEF Elapsed, near
  <2> HIDE DEF A, y
  <2>5. /\ [q EXCEPT ![1] = y] \in Seq(A) /\ Len([q EXCEPT ![1] = y]) = Len(q)
        /\ \A j \in 1 .. Len(q) : [q EXCEPT ![1] = y][j] = IF j = 1 THEN y ELSE q[j]
    BY <2>1, <2>2, <2>3, ExceptSeq
  <2> QED
    BY <2>3, <2>4, <2>5 DEF A
<1> QED
  BY <1>1, <1>2

\* timer_intr: every alarm popped becomes a ring of its process.
LEMMA TimerIntrStep ==
    ASSUME AlarmInv, TimerIntr
    PROVE  AlarmInv'
<1> DEFINE rings(k) == [i \in 1 .. k |-> [type |-> "fire", pid |-> queue[i].pid]]
           e == Elapsed(queue)
<1>1. PICK n \in 0 .. Len(queue) :
         /\ queue' = SubSeq(e, n + 1, Len(queue))
         /\ inbox' = inbox \o rings(n)
  BY DEF TimerIntr
<1>2. asleep' = asleep /\ fault' = fault
  BY DEF TimerIntr
<1>3. PICK R : queue \in Seq([pid : Pids, remain : R])
  BY DEF AlarmInv, Lists
<1>4. /\ Len(e) = Len(queue)
      /\ \A j \in 1 .. Len(queue) : e[j].pid = queue[j].pid
  BY <1>3, ElapsedNames
<1>5. PICK R2 : e \in Seq([pid : Pids, remain : R2])
  BY <1>3, ElapsedNames
<1> HIDE DEF e
<1> DEFINE s == Names(queue)
           a == Names(rings(n))
           b == Names(queue')
           M == Request \cup Ring
<1>6. /\ s \in Seq(Pids) /\ Len(s) = Len(queue) /\ Len(queue) \in Nat
      /\ \A j \in 1 .. Len(queue) : s[j] = queue[j].pid
  BY QueueNames DEF AlarmInv
<1>7. \A m \in M : m.pid \in Pids
  BY DEF Request, Ring
<1>8. rings(n) \in Seq(M) /\ Len(rings(n)) = n
  <2>1. \A i \in 1 .. n : queue[i].pid \in Pids
    <3>1. \A i \in 1 .. n : i \in 1 .. Len(queue)
      BY <1>6
    <3> QED
      BY <1>6, <3>1, ElementOfSeq
  <2>2. rings(n) \in [1 .. n -> M]
    BY <2>1 DEF Ring
  <2>3. n \in Nat
    BY <1>6
  <2> HIDE DEF M, rings
  <2> QED
    BY <2>2, <2>3, FunctionIsSeq
<1>9. \A i \in 1 .. n : rings(n)[i].pid = queue[i].pid
  OBVIOUS
<1> HIDE DEF rings, M
<1>10. /\ a \in Seq(Pids) /\ Len(a) = n
       /\ \A i \in 1 .. n : a[i] = rings(n)[i].pid
  BY <1>7, <1>8, NamesFacts
<1>11. /\ queue' \in Seq([pid : Pids, remain : R2])
       /\ Len(queue') = Len(queue) - n
       /\ \A j \in 1 .. Len(queue) - n : queue'[j] = e[n + j]
  <2>1. n \in 0 .. Len(e) /\ queue' = SubSeq(e, n + 1, Len(e))
    BY <1>1, <1>4
  <2>2. IsCut(e, n, SubSeq(e, 1, n), queue') /\ queue' \in Seq([pid : Pids, remain : R2])
    BY <1>5, <2>1, Cutting
  <2> QED
    BY <1>4, <2>2 DEF IsCut
<1>12. /\ b \in Seq(Pids) /\ Len(b) = Len(queue) - n
       /\ \A j \in 1 .. Len(queue) - n : b[j] = queue'[j].pid
  <2>1. \A x \in [pid : Pids, remain : R2] : x.pid \in Pids
    OBVIOUS
  <2> QED
    BY <1>11, <2>1, NamesFacts
<1>13. IsCut(s, n, a, b)
  <2>1. \A j \in 1 .. n : a[j] = s[j]
    <3>1. \A j \in 1 .. n : j \in 1 .. Len(queue)
      BY <1>6
    <3> QED
      BY <1>6, <1>9, <1>10, <3>1
  <2>2. \A j \in 1 .. Len(queue) - n : b[j] = s[n + j]
    <3>1. \A j \in 1 .. Len(queue) - n : n + j \in 1 .. Len(queue)
      BY <1>6
    <3> QED
      BY <1>4, <1>6, <1>11, <1>12, <3>1
  <2> HIDE DEF s, a, b
  <2> QED
    BY <1>6, <1>10, <1>12, <2>1, <2>2 DEF IsCut
<1>14. /\ inbox \in Seq(M) /\ Names(inbox) \in Seq(Pids)
       /\ IsInjective(Names(inbox)) /\ IsInjective(s)
       /\ ToSet(Names(inbox)) \cap ToSet(s) = {}
       /\ ToSet(Names(inbox)) \cup ToSet(s) = asleep
  BY InboxNames DEF AlarmInv, Lists, NamedOnce, M
<1>15. inbox' \in Seq(M) /\ Names(inbox') = Names(inbox) \o a
  BY <1>1, <1>7, <1>8, <1>14, NamesConcat, ConcatProperties
<1>16. n \in 0 .. Len(s)
  BY <1>6
<1> HIDE DEF s, a
<1>17. /\ IsInjective(a) /\ IsInjective(b) /\ ToSet(a) \cap ToSet(b) = {}
       /\ ToSet(a) \cup ToSet(b) = ToSet(s)
  <2> HIDE DEF b
  <2> QED
    BY <1>6, <1>10, <1>12, <1>13, <1>14, <1>16, Splitting
<1>18. /\ IsInjective(Names(inbox) \o a)
       /\ ToSet(Names(inbox) \o a) = ToSet(Names(inbox)) \cup ToSet(a)
  <2>1. ToSet(Names(inbox)) \cap ToSet(a) = {}
    BY <1>14, <1>17
  <2> QED
    BY <1>10, <1>14, <1>17, <2>1, Concatenated
<1>19. Lists'
  BY <1>2, <1>11, <1>15 DEF AlarmInv, Lists, M
<1>20. NamedOnce'
  BY <1>2, <1>14, <1>15, <1>17, <1>18 DEF NamedOnce
<1> QED
  BY <1>2, <1>19, <1>20 DEF AlarmInv

LEMMA InitAlarm == Init => AlarmInv
<1> SUFFICES ASSUME Init PROVE AlarmInv
  OBVIOUS
<1>1. asleep = {} /\ inbox = <<>> /\ queue = <<>> /\ fault = FALSE
  BY DEF Init
<1>2. Lists
  BY <1>1 DEF Lists
<1>3. Names(inbox) = <<>> /\ Names(queue) = <<>>
  <2>1. Len(Names(inbox)) = 0 /\ Len(Names(queue)) = 0
    BY <1>1, <1>2, InboxNames, QueueNames
  <2>2. Names(inbox) \in Seq(Pids) /\ Names(queue) \in Seq(Pids)
    BY <1>2, InboxNames, QueueNames
  <2> QED
    BY <2>1, <2>2, EmptySeq
<1>4. ToSet(<<>>) = {} /\ IsInjective(<<>>)
  BY DEF ToSet, IsInjective
<1>5. NamedOnce
  BY <1>1, <1>3, <1>4 DEF NamedOnce
<1> QED
  BY <1>1, <1>2, <1>5 DEF AlarmInv

LEMMA StepAlarm == AlarmInv /\ [Next]_vars => AlarmInv'
<1>1. ASSUME AlarmInv, UNCHANGED vars PROVE AlarmInv'
  BY <1>1 DEF AlarmInv, Lists, NamedOnce, vars
<1> QED
  BY <1>1, SleepStep, SetAlarmStep, AlarmFireStep, TimerIntrStep DEF Next

\* The places of a process in a list where nobody is named twice.
LEMMA Places ==
    ASSUME NEW q, NEW n \in Nat, Len(q) = n, DOMAIN q = 1 .. n, NEW p,
           IsInjective(Names(q)), Names(q) \in Seq(Pids), Len(Names(q)) = n,
           \A i \in 1 .. n : Names(q)[i] = q[i].pid
    PROVE  Cardinality({i \in DOMAIN q : q[i].pid = p}) = IF p \in ToSet(Names(q)) THEN 1 ELSE 0
<1> DEFINE s == Names(q)
           P == {i \in DOMAIN q : q[i].pid = p}
<1>1. /\ ToSet(s) = {s[i] : i \in 1 .. n}
      /\ \A i, j \in 1 .. n : s[i] = s[j] => i = j
  BY SetOfList
<1>2. P = {i \in 1 .. n : s[i] = p}
  OBVIOUS
<1> HIDE DEF s, P
<1>3. CASE p \in ToSet(s)
  <2>1. PICK k \in 1 .. n : s[k] = p
    BY <1>1, <1>3
  <2>2. P = {k}
    BY <1>1, <1>2, <2>1
  <2> QED
    BY <1>3, <2>2, FS_Singleton DEF s, P
<1>4. CASE p \notin ToSet(s)
  <2>1. P = {}
    BY <1>1, <1>2, <1>4
  <2> QED
    BY <1>4, <2>1, FS_EmptySet DEF s, P
<1> QED
  BY <1>3, <1>4

LEMMA InvOneAlarm == AlarmInv => OneAlarm
<1> SUFFICES ASSUME AlarmInv, NEW p \in Pids
             PROVE  Cardinality(Carried(p)) + Cardinality(Listed(p)) = IF p \in asleep THEN 1 ELSE 0
  BY DEF OneAlarm, AlarmInv
<1>1. /\ Names(inbox) \in Seq(Pids) /\ Len(Names(inbox)) = Len(inbox) /\ Len(inbox) \in Nat
      /\ \A i \in 1 .. Len(inbox) : Names(inbox)[i] = inbox[i].pid
      /\ DOMAIN inbox = 1 .. Len(inbox) /\ IsInjective(Names(inbox))
  BY InboxNames, LenProperties DEF AlarmInv, Lists, NamedOnce
<1>2. /\ Names(queue) \in Seq(Pids) /\ Len(Names(queue)) = Len(queue) /\ Len(queue) \in Nat
      /\ \A i \in 1 .. Len(queue) : Names(queue)[i] = queue[i].pid
      /\ DOMAIN queue = 1 .. Len(queue) /\ IsInjective(Names(queue))
  BY QueueNames, LenProperties DEF AlarmInv, Lists, NamedOnce
<1>3. Cardinality(Carried(p)) = IF p \in ToSet(Names(inbox)) THEN 1 ELSE 0
  BY <1>1, Places DEF Carried
<1>4. Cardinality(Listed(p)) = IF p \in ToSet(Names(queue)) THEN 1 ELSE 0
  BY <1>2, Places DEF Listed
<1> QED
  BY <1>3, <1>4 DEF AlarmInv, NamedOnce

(***************************************************************************)
(* A process that sleeps has one request, alarm or ring, one that does not *)
(* has none, and alarm_pool is never empty when new_alarm takes from it.   *)
(***************************************************************************)
THEOREM AlarmNeverLost == Spec => []OneAlarm
<1>1. Init => AlarmInv
  BY InitAlarm
<1>2. AlarmInv /\ [Next]_vars => AlarmInv'
  BY StepAlarm
<1> QED
  BY <1>1, <1>2, InvOneAlarm, PTL DEF Spec

(***************************************************************************)
(* Running sums: where each alarm of a list stands.                        *)
(***************************************************************************)
LEMMA SumExists ==
    ASSUME NEW q, NEW n \in Nat, \A j \in 1 .. n : q[j].remain \in Int
    PROVE  \E g \in [0 .. n -> Int] :
              g = [j \in 0 .. n |-> IF j = 0 THEN 0 ELSE g[j - 1] + q[j].remain]
<1> DEFINE IsSum(g, m) == /\ g \in [0 .. m -> Int] /\ g[0] = 0
                          /\ \A j \in 1 .. m : g[j] = g[j - 1] + q[j].remain
           S == {m \in 0 .. n : \E g : IsSum(g, m)}
<1>1. 0 \in S
  <2> DEFINE g == [j \in 0 .. 0 |-> 0]
  <2>1. IsSum(g, 0)
    OBVIOUS
  <2> HIDE DEF IsSum, g
  <2> QED
    BY <2>1
<1>2. ASSUME NEW m \in 1 .. n, m - 1 \in S PROVE m \in S
  <2>1. PICK g : IsSum(g, m - 1)
    BY <1>2
  <2> DEFINE h == [j \in 0 .. m |-> IF j = m THEN g[m - 1] + q[m].remain ELSE g[j]]
  <2>2. g[m - 1] \in Int /\ \A j \in 0 .. m - 1 : g[j] \in Int
    BY <2>1
  <2>3. \A j \in 0 .. m : h[j] = IF j = m THEN g[m - 1] + q[m].remain ELSE g[j]
    OBVIOUS
  <2>4. h \in [0 .. m -> Int]
    BY <2>2
  <2> HIDE DEF h
  <2>5. h[0] = 0
    BY <2>1, <2>3
  <2>6. \A j \in 1 .. m : h[j] = h[j - 1] + q[j].remain
    <3> TAKE j \in 1 .. m
    <3>1. h[j - 1] = g[j - 1]
      BY <2>3
    <3>2. CASE j = m
      BY <2>3, <3>1, <3>2
    <3>3. CASE j # m
      BY <2>1, <2>3, <3>1, <3>3
    <3> QED
      BY <3>2, <3>3
  <2>7. IsSum(h, m)
    BY <2>4, <2>5, <2>6
  <2> HIDE DEF IsSum
  <2> QED
    BY <2>7
<1> HIDE DEF S
<1>3. n \in S
  BY <1>1, <1>2, Counting
<1>4. PICK g : IsSum(g, n)
  BY <1>3 DEF S
<1>5. g = [j \in 0 .. n |-> IF j = 0 THEN 0 ELSE g[j - 1] + q[j].remain]
  BY <1>4
<1> QED
  BY <1>4, <1>5

LEMMA Sums ==
    ASSUME NEW q, NEW n \in Nat, Len(q) = n, \A j \in 1 .. n : q[j].remain \in Int
    PROVE  /\ Due(q, 0) = 0
           /\ \A i \in 1 .. n : Due(q, i) = Due(q, i - 1) + q[i].remain
           /\ \A i \in 0 .. n : Due(q, i) \in Int
<1> DEFINE due[j \in 0 .. Len(q)] == IF j = 0 THEN 0 ELSE due[j - 1] + q[j].remain
<1>1. \A i : Due(q, i) = due[i]
  BY DEF Due
<1>2. due = CHOOSE g : g = [j \in 0 .. n |-> IF j = 0 THEN 0 ELSE g[j - 1] + q[j].remain]
  OBVIOUS
<1> HIDE DEF due
<1>3. due = [j \in 0 .. n |-> IF j = 0 THEN 0 ELSE due[j - 1] + q[j].remain]
  <2>1. PICK g \in [0 .. n -> Int] : g = [j \in 0 .. n |-> IF j = 0 THEN 0 ELSE g[j - 1] + q[j].remain]
    BY SumExists
  <2> QED
    BY ONLY <1>2, <2>1, Zenon
<1>4. due[0] = 0 /\ \A i \in 1 .. n : due[i] = due[i - 1] + q[i].remain
  BY <1>3
<1> DEFINE S == {j \in 0 .. n : due[j] \in Int}
<1>5. 0 \in S /\ \A j \in 1 .. n : j - 1 \in S => j \in S
  BY <1>4
<1>6. 0 .. n \subseteq S
  <2> HIDE DEF S
  <2> QED
    BY <1>5, Counting
<1> QED
  BY <1>1, <1>4, <1>6

\* Two sums that grow together.
LEMMA Together ==
    ASSUME NEW n \in Nat, NEW F \in [0 .. n -> Int], NEW G \in [0 .. n -> Int],
           \A j \in 1 .. n : F[j] - F[j - 1] = G[j] - G[j - 1]
    PROVE  \A j \in 0 .. n : F[j] - F[0] = G[j] - G[0]
<1> DEFINE S == {j \in 0 .. n : F[j] - F[0] = G[j] - G[0]}
<1>1. 0 \in S
  OBVIOUS
<1>2. ASSUME NEW j \in 1 .. n, j - 1 \in S PROVE j \in S
  <2>1. F[j] \in Int /\ F[j - 1] \in Int /\ F[0] \in Int /\ G[j] \in Int /\ G[j - 1] \in Int /\ G[0] \in Int
    OBVIOUS
  <2>2. F[j] - F[j - 1] = G[j] - G[j - 1] /\ F[j - 1] - F[0] = G[j - 1] - G[0]
    BY <1>2
  <2> DEFINE a == F[j]  b == F[j - 1]  c == F[0]  x == G[j]  y == G[j - 1]  z == G[0]
  <2>3. /\ a \in Int /\ b \in Int /\ c \in Int /\ x \in Int /\ y \in Int /\ z \in Int
        /\ a - b = x - y /\ b - c = y - z
    BY <2>1, <2>2
  <2> HIDE DEF a, b, c, x, y, z
  <2>4. a - c = x - z
    BY ONLY <2>3
  <2> QED
    BY <2>4 DEF a, c, x, z
<1>3. 0 .. n \subseteq S
  <2> HIDE DEF S
  <2> QED
    BY <1>1, <1>2, Counting
<1> QED
  BY <1>3

(***************************************************************************)
(* With sleeps that are measured, distances are never negative, and the    *)
(* first is at least a tick: what is due has rung.                         *)
(***************************************************************************)
Alarms == [pid : Pids, remain : 0 .. IntMax]

Spaced(q) ==
    /\ q \in Seq(Alarms)
    /\ q # <<>> => q[1].remain >= 1

LEMMA SpacedSums ==
    ASSUME NEW q, Spaced(q)
    PROVE  /\ Len(q) \in Nat
           /\ \A i \in 1 .. Len(q) : /\ q[i] \in Alarms /\ q[i].pid \in Pids
                                     /\ q[i].remain \in 0 .. IntMax /\ q[i].remain \in Int
           /\ Due(q, 0) = 0
           /\ \A i \in 1 .. Len(q) : Due(q, i) = Due(q, i - 1) + q[i].remain
           /\ \A i \in 0 .. Len(q) : Due(q, i) \in Nat
           /\ \A i \in 1 .. Len(q) : Due(q, i) >= 1
           /\ \A i \in 0 .. Len(q) : \A j \in i .. Len(q) : Due(q, i) <= Due(q, j)
<1>1. Len(q) \in Nat /\ \A i \in 1 .. Len(q) : q[i] \in Alarms
  BY LenProperties, ElementOfSeq DEF Spaced
<1>2. \A i \in 1 .. Len(q) : q[i].pid \in Pids /\ q[i].remain \in 0 .. IntMax
  BY <1>1 DEF Alarms
<1>3. \A i \in 1 .. Len(q) : q[i].remain \in Int /\ q[i].remain >= 0
  BY <1>2, AlarmAssumption
<1> DEFINE n == Len(q)
           F == [j \in 0 .. n |-> Due(q, j)]
<1>4. /\ Due(q, 0) = 0
      /\ \A i \in 1 .. n : Due(q, i) = Due(q, i - 1) + q[i].remain
      /\ \A i \in 0 .. n : Due(q, i) \in Int
  BY <1>1, <1>3, Sums
<1>5. F \in [0 .. n -> Int] /\ \A j \in 0 .. n : F[j] = Due(q, j)
  BY <1>4
<1> HIDE DEF F
<1>6. \A j \in 1 .. n : F[j - 1] <= F[j]
  <2> TAKE j \in 1 .. n
  <2>1. /\ j \in 0 .. n /\ j - 1 \in 0 .. n /\ Due(q, j) = Due(q, j - 1) + q[j].remain
        /\ Due(q, j - 1) \in Int /\ q[j].remain \in Int /\ q[j].remain >= 0
    BY <1>1, <1>3, <1>4
  <2> QED
    BY <1>5, <2>1
<1>7. \A i \in 0 .. n : \A j \in i .. n : Due(q, i) <= Due(q, j)
  <2> TAKE i \in 0 .. n
  <2> TAKE j \in i .. n
  <2>1. F[i] <= F[j]
    BY <1>1, <1>5, <1>6, Increasing
  <2>2. j \in 0 .. n
    BY <1>1
  <2> QED
    BY <1>5, <2>1, <2>2
<1>8. \A i \in 0 .. n : Due(q, i) \in Nat
  <2> TAKE i \in 0 .. n
  <2>1. Due(q, 0) <= Due(q, i) /\ Due(q, i) \in Int
    BY <1>1, <1>4, <1>7
  <2> QED
    BY <1>4, <2>1
<1>9. \A i \in 1 .. n : Due(q, i) >= 1
  <2> TAKE i \in 1 .. n
  <2>1. 1 \in 0 .. n /\ i \in 1 .. n /\ 1 \in 1 .. n
    BY <1>1
  <2>2. q # <<>>
    BY <2>1, EmptySeq DEF Spaced
  <2>3. Due(q, 1) = q[1].remain /\ q[1].remain >= 1
    <3>1. Due(q, 1) = Due(q, 1 - 1) + q[1].remain /\ q[1].remain \in Int
      BY <1>3, <1>4, <2>1
    <3> QED
      BY <1>4, <2>2, <3>1 DEF Spaced
  <2>4. Due(q, 1) <= Due(q, i) /\ Due(q, i) \in Int /\ Due(q, 1) \in Int
    BY <1>1, <1>4, <1>7, <2>1
  <2> QED
    BY <2>3, <2>4
<1> QED
  BY <1>1, <1>2, <1>3, <1>4, <1>7, <1>8, <1>9

LEMMA Wrapped ==
    ASSUME NEW x \in 0 .. IntMax
    PROVE  Wrap(x) = x
<1> DEFINE M == 2 * IntMax + 2
           y == x + IntMax + 1
<1>1. IntMax \in Nat \ {0} /\ x \in Nat
  BY AlarmAssumption
<1>2. M \in Nat \ {0} /\ y \in 0 .. M - 1 /\ 0 * M + y = y
  BY <1>1
<1> HIDE DEF M, y
<1>3. y % M = y
  BY <1>2, Division
<1> QED
  BY <1>1, <1>3 DEF Wrap, M, y

(***************************************************************************)
(* The alarm that is entered after the i-th of q, at the distance d.       *)
(***************************************************************************)
LEMMA Entered ==
    ASSUME NEW q \in Seq(Alarms), NEW i \in 0 .. Len(q), NEW p \in Pids, NEW d \in 0 .. IntMax,
           i < Len(q) => d <= q[i + 1].remain
    PROVE  /\ Enter(q, i, p, d) \in Seq(Alarms)
           /\ Len(Enter(q, i, p, d)) = Len(q) + 1
           /\ \A j \in 1 .. i : Enter(q, i, p, d)[j] = q[j]
           /\ Enter(q, i, p, d)[i + 1] = [pid |-> p, remain |-> d]
           /\ i < Len(q) => /\ Enter(q, i, p, d)[i + 2].pid = q[i + 1].pid
                            /\ Enter(q, i, p, d)[i + 2].remain = q[i + 1].remain - d
           /\ \A j \in i + 3 .. Len(q) + 1 : Enter(q, i, p, d)[j] = q[j - 1]
<1> DEFINE a == SubSeq(q, 1, i)
           b == SubSeq(q, i + 1, Len(q))
           x == [pid |-> p, remain |-> d]
           y == [b[1] EXCEPT !.remain = Wrap(@ - d)]
           later == IF b = <<>> THEN b ELSE [b EXCEPT ![1] = y]
           t == a \o <<x>> \o later
<1>1. Enter(q, i, p, d) = t
  <2>1. [b EXCEPT ![1].remain = Wrap(@ - d)] = [b EXCEPT ![1] = y]
    OBVIOUS
  <2> QED
    BY <2>1 DEF Enter
<1>2. Len(q) \in Nat /\ i \in Nat /\ IntMax \in Nat /\ \A j \in 1 .. Len(q) : q[j] \in Alarms
  BY LenProperties, ElementOfSeq, AlarmAssumption
<1>3. x \in Alarms
  BY DEF Alarms
<1>4. /\ a \in Seq(Alarms) /\ b \in Seq(Alarms)
      /\ Len(a) = i /\ \A j \in 1 .. i : a[j] = q[j]
      /\ Len(b) = Len(q) - i /\ \A j \in 1 .. Len(q) - i : b[j] = q[i + j]
  BY Cutting DEF IsCut
<1> HIDE DEF a, b
<1>5. b # <<>> => /\ i < Len(q) /\ 1 \in 1 .. Len(b) /\ b[1] = q[i + 1] /\ b[1] \in Alarms
                  /\ y \in Alarms /\ y.pid = q[i + 1].pid /\ y.remain = q[i + 1].remain - d
  <2> SUFFICES ASSUME b # <<>>
               PROVE  /\ i < Len(q) /\ 1 \in 1 .. Len(b) /\ b[1] = q[i + 1] /\ b[1] \in Alarms
                      /\ y \in Alarms /\ y.pid = q[i + 1].pid /\ y.remain = q[i + 1].remain - d
    OBVIOUS
  <2>1. Len(b) # 0 /\ Len(b) \in Nat
    BY <1>4, EmptySeq, LenProperties
  <2>2. i < Len(q) /\ 1 \in 1 .. Len(b) /\ b[1] = q[i + 1] /\ q[i + 1] \in Alarms
    BY <1>2, <1>4, <2>1
  <2>3. q[i + 1].remain \in 0 .. IntMax /\ q[i + 1].pid \in Pids
    BY <2>2 DEF Alarms
  <2>4. q[i + 1].remain - d \in 0 .. IntMax
    BY <1>2, <2>2, <2>3
  <2>5. Wrap(q[i + 1].remain - d) = q[i + 1].remain - d
    BY <2>4, Wrapped
  <2>6. y = [q[i + 1] EXCEPT !.remain = q[i + 1].remain - d]
    BY <2>2, <2>5
  <2> HIDE DEF y
  <2>7. y \in Alarms /\ y.pid = q[i + 1].pid /\ y.remain = q[i + 1].remain - d
    BY <2>2, <2>4, <2>6 DEF Alarms
  <2> QED
    BY <2>2, <2>7
<1> HIDE DEF y
<1>6. /\ later \in Seq(Alarms) /\ Len(later) = Len(b)
      /\ b # <<>> => later[1] = y
      /\ \A j \in 2 .. Len(b) : later[j] = b[j]
  <2>1. CASE b = <<>>
    BY <1>4, <2>1, EmptySeq
  <2>2. CASE b # <<>>
    <3>1. /\ [b EXCEPT ![1] = y] \in Seq(Alarms) /\ Len([b EXCEPT ![1] = y]) = Len(b)
          /\ \A j \in 1 .. Len(b) : [b EXCEPT ![1] = y][j] = IF j = 1 THEN y ELSE b[j]
      BY <1>4, <1>5, <2>2, ExceptSeq
    <3>2. \A j \in 2 .. Len(b) : j \in 1 .. Len(b) /\ j # 1
      BY <1>2, <1>4
    <3> QED
      BY <1>5, <2>2, <3>1, <3>2
  <2> QED
    BY <2>1, <2>2
<1> HIDE DEF later, x
<1>7. /\ t \in Seq(Alarms) /\ Len(t) = Len(a) + 1 + Len(later)
      /\ \A j \in 1 .. Len(a) + 1 + Len(later) :
            t[j] = IF j <= Len(a) THEN a[j]
                   ELSE IF j = Len(a) + 1 THEN x ELSE later[j - Len(a) - 1]
  <2>1. a \in Seq(Alarms) /\ x \in Alarms /\ later \in Seq(Alarms)
    BY <1>3, <1>4, <1>6
  <2> HIDE DEF Alarms
  <2> QED
    BY <2>1, Between
<1> HIDE DEF t
<1>8. Len(t) = Len(q) + 1 /\ \A j \in 1 .. Len(q) + 1 :
            t[j] = IF j <= i THEN a[j] ELSE IF j = i + 1 THEN x ELSE later[j - i - 1]
  <2>1. Len(a) = i /\ Len(later) = Len(q) - i /\ Len(a) + 1 + Len(later) = Len(q) + 1
    BY <1>2, <1>4, <1>6
  <2> QED
    BY <1>7, <2>1
<1>9. \A j \in 1 .. i : t[j] = q[j]
  BY <1>2, <1>4, <1>8
<1>10. t[i + 1] = x
  BY <1>2, <1>8
<1>11. i < Len(q) => t[i + 2] = y /\ b # <<>>
  <2> SUFFICES ASSUME i < Len(q) PROVE t[i + 2] = y /\ b # <<>>
    OBVIOUS
  <2>1. Len(b) # 0
    BY <1>2, <1>4
  <2>2. b # <<>>
    BY <2>1, EmptySeq
  <2>3. i + 2 \in 1 .. Len(q) + 1 /\ ~(i + 2 <= i) /\ i + 2 # i + 1 /\ i + 2 - i - 1 = 1
    BY <1>2
  <2> QED
    BY <1>6, <1>8, <2>2, <2>3
<1>12. ASSUME NEW j \in i + 3 .. Len(q) + 1 PROVE t[j] = q[j - 1]
  <2>1. /\ j \in 1 .. Len(q) + 1 /\ ~(j <= i) /\ j # i + 1 /\ j - i - 1 \in 2 .. Len(b)
        /\ j - i - 1 \in 1 .. Len(q) - i /\ i + (j - i - 1) = j - 1
    BY <1>2, <1>4
  <2>2. t[j] = later[j - i - 1]
    BY <1>8, <2>1
  <2>3. later[j - i - 1] = b[j - i - 1]
    BY <1>6, <2>1
  <2>4. b[j - i - 1] = q[i + (j - i - 1)]
    BY <1>4, <2>1
  <2> QED
    BY <2>1, <2>2, <2>3, <2>4
<1> QED
  BY <1>1, <1>5, <1>7, <1>8, <1>9, <1>10, <1>11, <1>12 DEF x

\* The alarm of p rings in u ticks.
RingsIn(q, p, u) == \E j \in 1 .. Len(q) : q[j].pid = p /\ Due(q, j) = u

\* The others stay where they are.
LEMMA EnteredSums ==
    ASSUME NEW q, Spaced(q), NEW i \in 0 .. Len(q), NEW p \in Pids, NEW d \in 0 .. IntMax,
           i < Len(q) => d <= q[i + 1].remain,
           i = 0 => d >= 1
    PROVE  /\ Spaced(Enter(q, i, p, d))
           /\ RingsIn(Enter(q, i, p, d), p, Due(q, i) + d)
           /\ \A r, u : RingsIn(q, r, u) => RingsIn(Enter(q, i, p, d), r, u)
<1> DEFINE t == Enter(q, i, p, d)
           n == Len(q)
<1>1. /\ t \in Seq(Alarms) /\ Len(t) = n + 1
      /\ \A j \in 1 .. i : t[j] = q[j]
      /\ t[i + 1] = [pid |-> p, remain |-> d]
      /\ i < n => t[i + 2].pid = q[i + 1].pid /\ t[i + 2].remain = q[i + 1].remain - d
      /\ \A j \in i + 3 .. n + 1 : t[j] = q[j - 1]
  BY Entered DEF Spaced
<1> HIDE DEF t
<1>2. /\ n \in Nat /\ i \in Nat /\ IntMax \in Nat /\ d \in Int
      /\ \A j \in 1 .. n : q[j].remain \in Int /\ q[j].pid \in Pids
      /\ Due(q, 0) = 0
      /\ \A j \in 1 .. n : Due(q, j) = Due(q, j - 1) + q[j].remain
      /\ \A j \in 0 .. n : Due(q, j) \in Int
  BY SpacedSums, AlarmAssumption
<1>3. t[i + 1].pid = p /\ t[i + 1].remain = d
  BY <1>1
<1>4. Spaced(t)
  <2>1. CASE i = 0
    BY <1>1, <1>3, <2>1 DEF Spaced
  <2>2. CASE i # 0
    <3>1. 1 \in 1 .. i /\ 1 \in 1 .. n
      BY <1>2, <2>2
    <3>2. q # <<>> /\ t[1] = q[1]
      BY <1>1, <3>1, EmptySeq DEF Spaced
    <3> QED
      BY <1>1, <3>2 DEF Spaced
  <2> QED
    BY <2>1, <2>2
<1>5. /\ Due(t, 0) = 0
      /\ \A j \in 1 .. n + 1 : Due(t, j) = Due(t, j - 1) + t[j].remain
      /\ \A j \in 0 .. n + 1 : Due(t, j) \in Int
  <2>1. /\ Due(t, 0) = 0
        /\ \A j \in 1 .. Len(t) : Due(t, j) = Due(t, j - 1) + t[j].remain
        /\ \A j \in 0 .. Len(t) : Due(t, j) \in Nat
    BY <1>4, SpacedSums
  <2>2. Len(t) = n + 1
    BY <1>1
  <2> QED
    BY <2>1, <2>2
<1>6. \A j \in 0 .. i : Due(t, j) = Due(q, j)
  <2> DEFINE F == [j \in 0 .. i |-> Due(t, j)]
             G == [j \in 0 .. i |-> Due(q, j)]
  <2>1. \A j \in 0 .. i : j \in 0 .. n /\ j \in 0 .. n + 1
    BY <1>2
  <2>2. /\ F \in [0 .. i -> Int] /\ G \in [0 .. i -> Int]
        /\ \A j \in 0 .. i : F[j] = Due(t, j) /\ G[j] = Due(q, j)
    BY <1>2, <1>5, <2>1
  <2> HIDE DEF F, G
  <2>3. \A j \in 1 .. i : F[j] - F[j - 1] = G[j] - G[j - 1]
    <3> TAKE j \in 1 .. i
    <3>1. j \in 0 .. i /\ j - 1 \in 0 .. i /\ j \in 1 .. n /\ j \in 1 .. n + 1
      BY <1>2
    <3>2. /\ F[j] = F[j - 1] + q[j].remain /\ G[j] = G[j - 1] + q[j].remain
          /\ F[j - 1] \in Int /\ G[j - 1] \in Int /\ q[j].remain \in Int
      BY <1>1, <1>2, <1>5, <2>2, <3>1
    <3> QED
      BY <3>2
  <2>4. \A j \in 0 .. i : F[j] - F[0] = G[j] - G[0]
    BY <1>2, <2>2, <2>3, Together
  <2>5. 0 \in 0 .. i
    BY <1>2
  <2>6. F[0] = 0 /\ G[0] = 0
    BY <1>2, <1>5, <2>2, <2>5
  <2> TAKE j \in 0 .. i
  <2>7. F[j] - F[0] = G[j] - G[0] /\ F[j] \in Int /\ G[j] \in Int
    BY <2>2, <2>4
  <2> QED
    BY <2>2, <2>6, <2>7
<1>7. Due(t, i + 1) = Due(q, i) + d
  <2>1. i + 1 \in 1 .. n + 1 /\ i \in 0 .. i /\ (i + 1) - 1 = i
    BY <1>2
  <2> QED
    BY <1>3, <1>5, <1>6, <2>1
<1>8. \A j \in i + 1 .. n : Due(t, j + 1) = Due(q, j) /\ t[j + 1].pid = q[j].pid
  <2> SUFFICES ASSUME i < n
               PROVE  \A j \in i + 1 .. n : Due(t, j + 1) = Due(q, j) /\ t[j + 1].pid = q[j].pid
    BY <1>2
  <2> DEFINE m == n - i - 1
             F == [j \in 0 .. m |-> Due(t, i + 2 + j)]
             G == [j \in 0 .. m |-> Due(q, i + 1 + j)]
  <2>1. m \in Nat /\ \A j \in 0 .. m : i + 2 + j \in 0 .. n + 1 /\ i + 1 + j \in 0 .. n
    BY <1>2
  <2>2. /\ F \in [0 .. m -> Int] /\ G \in [0 .. m -> Int]
        /\ \A j \in 0 .. m : F[j] = Due(t, i + 2 + j) /\ G[j] = Due(q, i + 1 + j)
    BY <1>2, <1>5, <2>1
  <2> HIDE DEF F, G
  <2>3. \A j \in 1 .. m : F[j] - F[j - 1] = G[j] - G[j - 1]
    <3> TAKE j \in 1 .. m
    <3>1. /\ j \in 0 .. m /\ j - 1 \in 0 .. m /\ i + 1 + j \in 1 .. n /\ i + 2 + j \in 1 .. n + 1
          /\ i + 2 + j \in i + 3 .. n + 1
          /\ i + 2 + (j - 1) = (i + 2 + j) - 1 /\ i + 1 + (j - 1) = (i + 1 + j) - 1
          /\ (i + 2 + j) - 1 = i + 1 + j
      BY <1>2
    <3>2. t[i + 2 + j] = q[i + 1 + j]
      BY <1>1, <3>1
    <3>3. F[j] = F[j - 1] + q[i + 1 + j].remain
      BY <1>5, <2>2, <3>1, <3>2
    <3>4. G[j] = G[j - 1] + q[i + 1 + j].remain
      BY <1>2, <2>2, <3>1
    <3>5. F[j - 1] \in Int /\ G[j - 1] \in Int /\ q[i + 1 + j].remain \in Int
      BY <1>2, <2>2, <3>1
    <3> QED
      BY <3>3, <3>4, <3>5
  <2>4. \A j \in 0 .. m : F[j] - F[0] = G[j] - G[0]
    <3> HIDE DEF m
    <3> QED
      BY <2>1, <2>2, <2>3, Together
  <2>5. F[0] = G[0] /\ F[0] \in Int
    <3>1. /\ 0 \in 0 .. m /\ i + 2 + 0 = i + 2 /\ i + 1 + 0 = i + 1 /\ i \in 0 .. n
          /\ i + 2 \in 1 .. n + 1 /\ i + 1 \in 1 .. n /\ (i + 2) - 1 = i + 1 /\ (i + 1) - 1 = i
      BY <1>2, <2>1
    <3>2. F[0] = Due(t, i + 2) /\ G[0] = Due(q, i + 1)
      BY <2>2, <3>1
    <3>3. Due(t, i + 2) = (Due(q, i) + d) + (q[i + 1].remain - d)
      BY <1>1, <1>5, <1>7, <3>1
    <3>4. Due(q, i + 1) = Due(q, i) + q[i + 1].remain
      BY <1>2, <3>1
    <3>5. Due(q, i) \in Int /\ q[i + 1].remain \in Int
      BY <1>2, <3>1
    <3> QED
      BY <1>2, <3>2, <3>3, <3>4, <3>5
  <2> TAKE j \in i + 1 .. n
  <2>6. Due(t, j + 1) = Due(q, j)
    <3> DEFINE k == j - i - 1
    <3>1. k \in 0 .. m /\ i + 2 + k = j + 1 /\ i + 1 + k = j
      BY <1>2
    <3>2. F[k] - F[0] = G[k] - G[0] /\ F[k] \in Int /\ G[k] \in Int
      BY <2>2, <2>4, <3>1
    <3>3. F[k] = Due(t, j + 1) /\ G[k] = Due(q, j)
      BY <2>2, <3>1
    <3> HIDE DEF k
    <3> QED
      BY <2>5, <3>2, <3>3
  <2>7. t[j + 1].pid = q[j].pid
    <3>1. CASE j = i + 1
      BY <1>1, <1>2, <3>1
    <3>2. CASE j # i + 1
      <4>1. j + 1 \in i + 3 .. n + 1 /\ (j + 1) - 1 = j
        BY <1>2, <3>2
      <4> QED
        BY <1>1, <4>1
    <3> QED
      BY <3>1, <3>2
  <2> QED
    BY <2>6, <2>7
<1>9. RingsIn(t, p, Due(q, i) + d)
  <2>1. i + 1 \in 1 .. Len(t)
    BY <1>1, <1>2
  <2> QED
    BY <1>3, <1>7, <2>1 DEF RingsIn
<1>10. ASSUME NEW r, NEW u, RingsIn(q, r, u) PROVE RingsIn(t, r, u)
  <2>1. PICK j \in 1 .. n : q[j].pid = r /\ Due(q, j) = u
    BY <1>10 DEF RingsIn
  <2>2. CASE j <= i
    <3>1. j \in 1 .. i /\ j \in 0 .. i /\ j \in 1 .. Len(t)
      BY <1>1, <1>2, <2>2
    <3> QED
      BY <1>1, <1>6, <2>1, <3>1 DEF RingsIn
  <2>3. CASE ~(j <= i)
    <3>1. j \in i + 1 .. n /\ j + 1 \in 1 .. Len(t)
      BY <1>1, <1>2, <2>3
    <3> QED
      BY <1>8, <2>1, <3>1 DEF RingsIn
  <2> QED
    BY <2>2, <2>3
<1> QED
  BY <1>4, <1>9, <1>10 DEF t

(***************************************************************************)
(* new_alarm: the place it finds gives the alarm the time that was asked   *)
(* for, and moves no other.                                                *)
(***************************************************************************)
LEMMA NewAlarmSums ==
    ASSUME Spaced(queue), NEW p \in Pids, NEW time \in 1 .. IntMax, NewAlarm(p, time)
    PROVE  /\ Spaced(queue')
           /\ RingsIn(queue', p, time)
           /\ \A r, u : RingsIn(queue, r, u) => RingsIn(queue', r, u)
<1>1. /\ Len(queue) \in Nat
      /\ \A i \in 1 .. Len(queue) : queue[i].remain \in 0 .. IntMax
      /\ Due(queue, 0) = 0
      /\ \A i \in 1 .. Len(queue) : Due(queue, i) = Due(queue, i - 1) + queue[i].remain
      /\ \A i \in 0 .. Len(queue) : Due(queue, i) \in Nat
  BY SpacedSums
<1>2. IntMax \in Nat /\ time \in Nat
  BY AlarmAssumption
<1>3. PICK i \in 0 .. Len(queue), d \in 0 .. IntMax :
         /\ queue' = Enter(queue, i, p, d)
         /\ Due(queue, i) + d = time
         /\ i < Len(queue) => d <= queue[i + 1].remain
         /\ i = 0 => d >= 1
  <2>1. CASE GoesFirst(queue, time) /\ queue' = Enter(queue, 0, p, time)
    <3>1. 0 \in 0 .. Len(queue) /\ time \in 0 .. IntMax /\ Due(queue, 0) + time = time
      BY <1>1, <1>2
    <3>2. 0 < Len(queue) => time <= queue[0 + 1].remain
      <4> SUFFICES ASSUME 0 < Len(queue) PROVE time <= queue[1].remain
        OBVIOUS
      <4>1. queue # <<>> /\ 1 \in 1 .. Len(queue)
        BY <1>1, EmptySeq DEF Spaced
      <4>2. time < queue[1].remain /\ queue[1].remain \in Nat
        BY <1>1, <2>1, <4>1 DEF GoesFirst
      <4> QED
        BY <1>2, <4>2
    <3> QED
      BY <2>1, <3>1, <3>2
  <2>2. CASE /\ ~GoesFirst(queue, time)
             /\ \E i \in 1 .. Len(queue) :
                   IsPlace(queue, time, i) /\ queue' = Enter(queue, i, p, time - Due(queue, i))
    <3>1. PICK i \in 1 .. Len(queue) :
             IsPlace(queue, time, i) /\ queue' = Enter(queue, i, p, time - Due(queue, i))
      BY <2>2
    <3>2. /\ i < Len(queue) => queue[i + 1].remain > time - Due(queue, i)
          /\ \A j \in 1 .. i - 1 : ~(j < Len(queue) => queue[j + 1].remain > time - Due(queue, j))
      BY <3>1 DEF IsPlace
    <3>3. i \in 0 .. Len(queue) /\ Due(queue, i) \in Nat
      BY <1>1
    <3>4. Due(queue, i) <= time
      <4>1. CASE i = 1
        <5>1. queue # <<>> /\ queue[1].remain \in Nat /\ 1 \in 1 .. Len(queue)
          BY <1>1, <4>1, EmptySeq DEF Spaced
        <5>2. ~(time < queue[1].remain)
          BY <2>2 DEF GoesFirst
        <5>3. Due(queue, 1) = Due(queue, 0) + queue[1].remain
          <6>1. 1 - 1 = 0
            OBVIOUS
          <6> QED
            BY <1>1, <5>1, <6>1
        <5> QED
          BY <1>1, <1>2, <4>1, <5>1, <5>2, <5>3
      <4>2. CASE i # 1
        <5>1. i - 1 \in 1 .. i - 1 /\ (i - 1) + 1 = i /\ i - 1 \in 0 .. Len(queue)
          BY <1>1, <4>2
        <5>2. ~(queue[i].remain > time - Due(queue, i - 1))
          BY <3>2, <5>1
        <5>3. /\ Due(queue, i) = Due(queue, i - 1) + queue[i].remain
              /\ queue[i].remain \in Nat /\ Due(queue, i - 1) \in Nat
          BY <1>1, <5>1
        <5> QED
          BY <1>2, <5>2, <5>3
      <4> QED
        BY <4>1, <4>2
    <3> DEFINE d == time - Due(queue, i)
    <3>5. d \in 0 .. IntMax /\ Due(queue, i) + d = time
      BY <1>2, <3>3, <3>4
    <3>6. i < Len(queue) => d <= queue[i + 1].remain
      <4> SUFFICES ASSUME i < Len(queue) PROVE d <= queue[i + 1].remain
        OBVIOUS
      <4>1. i + 1 \in 1 .. Len(queue)
        BY <1>1
      <4> QED
        BY <1>1, <3>2, <3>5, <4>1
    <3>7. queue' = Enter(queue, i, p, d) /\ i # 0
      BY <1>1, <3>1
    <3> HIDE DEF d
    <3> QED
      BY <3>3, <3>5, <3>6, <3>7
  <2> QED
    BY <2>1, <2>2 DEF NewAlarm
<1>4. /\ Spaced(Enter(queue, i, p, d))
      /\ RingsIn(Enter(queue, i, p, d), p, Due(queue, i) + d)
      /\ \A r, u : RingsIn(queue, r, u) => RingsIn(Enter(queue, i, p, d), r, u)
  BY <1>3, EnteredSums
<1> QED
  BY <1>3, <1>4

(***************************************************************************)
(* timer_intr: what rings is what was due in a tick, and the rest is a     *)
(* tick closer.                                                            *)
(***************************************************************************)
LEMMA ElapsedAlarms ==
    ASSUME NEW q, Spaced(q)
    PROVE  /\ Elapsed(q) \in Seq(Alarms) /\ Len(Elapsed(q)) = Len(q)
           /\ \A j \in 1 .. Len(q) :
                 /\ Elapsed(q)[j].pid = q[j].pid
                 /\ Elapsed(q)[j].remain = IF j = 1 THEN q[j].remain - 1 ELSE q[j].remain
<1>1. CASE q = <<>>
  BY <1>1 DEF Elapsed, Spaced
<1>2. CASE q # <<>>
  <2> DEFINE y == [q[1] EXCEPT !.remain = q[1].remain - 1]
  <2>1. /\ Len(q) \in Nat /\ 1 \in 1 .. Len(q) /\ IntMax \in Nat
        /\ q[1] \in Alarms /\ q[1].remain \in 0 .. IntMax /\ q[1].remain >= 1
    <3>1. Len(q) # 0 /\ Len(q) \in Nat
      BY <1>2, EmptySeq, LenProperties DEF Spaced
    <3>2. 1 \in 1 .. Len(q)
      BY <3>1
    <3> QED
      BY <1>2, <3>1, <3>2, SpacedSums, AlarmAssumption DEF Spaced
  <2>2. q[1].remain - 1 \in 0 .. IntMax
    BY <2>1
  <2>3. y \in Alarms /\ y.pid = q[1].pid /\ y.remain = q[1].remain - 1
    BY <2>1, <2>2 DEF Alarms
  <2>4. Elapsed(q) = [q EXCEPT ![1] = y]
    BY <1>2 DEF Elapsed
  <2> HIDE DEF y
  <2>5. /\ [q EXCEPT ![1] = y] \in Seq(Alarms) /\ Len([q EXCEPT ![1] = y]) = Len(q)
        /\ \A j \in 1 .. Len(q) : [q EXCEPT ![1] = y][j] = IF j = 1 THEN y ELSE q[j]
    BY <2>1, <2>3, ExceptSeq DEF Spaced
  <2> QED
    BY <2>3, <2>4, <2>5
<1> QED
  BY <1>1, <1>2

LEMMA TickSums ==
    ASSUME NEW q, Spaced(q), NEW n \in 0 .. Len(q), IsRinging(Elapsed(q), n)
    PROVE  /\ Spaced(SubSeq(Elapsed(q), n + 1, Len(q)))
           /\ \A j \in 1 .. n : Due(q, j) = 1
           /\ \A j \in n + 1 .. Len(q) :
                 /\ Due(q, j) \in Nat /\ Due(q, j) # 1
                 /\ RingsIn(SubSeq(Elapsed(q), n + 1, Len(q)), q[j].pid, Due(q, j) - 1)
<1> DEFINE e == Elapsed(q)
           l == Len(q)
           m == l - n
           t == SubSeq(e, n + 1, l)
<1>1. /\ l \in Nat /\ n \in Nat /\ m \in Nat
      /\ \A i \in 1 .. l : q[i].remain \in Nat
      /\ Due(q, 0) = 0
      /\ \A i \in 1 .. l : Due(q, i) = Due(q, i - 1) + q[i].remain
      /\ \A i \in 0 .. l : Due(q, i) \in Nat
      /\ \A i \in 0 .. l : \A j \in i .. l : Due(q, i) <= Due(q, j)
      /\ \A i \in 1 .. l : Due(q, i) >= 1
  <2>1. Len(q) \in Nat /\ \A i \in 1 .. Len(q) : q[i].remain \in 0 .. IntMax
    BY SpacedSums
  <2>2. \A i \in 1 .. Len(q) : q[i].remain \in Nat
    BY <2>1, AlarmAssumption
  <2> QED
    BY <2>1, <2>2, SpacedSums
<1>2. /\ e \in Seq(Alarms) /\ Len(e) = l
      /\ \A j \in 1 .. l : /\ e[j].pid = q[j].pid
                           /\ e[j].remain = IF j = 1 THEN q[j].remain - 1 ELSE q[j].remain
  BY ElapsedAlarms
<1>3. /\ \A i \in 1 .. n : e[i].remain <= 0
      /\ n < l => e[n + 1].remain > 0
  BY <1>2 DEF IsRinging
<1>4. /\ t \in Seq(Alarms) /\ Len(t) = m /\ \A j \in 1 .. m : t[j] = e[n + j]
  <2> HIDE DEF e
  <2>1. n \in 0 .. Len(e) /\ t = SubSeq(e, n + 1, Len(e))
    BY <1>2
  <2> QED
    BY <1>2, <2>1, Cutting DEF IsCut
<1> HIDE DEF e, t
<1>5. \A j \in 1 .. n : Due(q, j) = 1
  <2> SUFFICES ASSUME n # 0 PROVE \A j \in 1 .. n : Due(q, j) = 1
    BY <1>1
  <2> DEFINE S == {j \in 0 .. n - 1 : Due(q, j + 1) = 1}
  <2>1. 0 \in S
    <3>1. 1 \in 1 .. n /\ 1 \in 1 .. l /\ 1 - 1 = 0 /\ 0 \in 0 .. n - 1 /\ 0 + 1 = 1
      BY <1>1
    <3>2. e[1].remain <= 0 /\ e[1].remain = q[1].remain - 1 /\ q[1].remain \in Nat
      BY <1>1, <1>2, <1>3, <3>1
    <3>3. Due(q, 1) = q[1].remain /\ Due(q, 1) >= 1
      <4>1. Due(q, 1) = Due(q, 1 - 1) + q[1].remain
        BY <1>1, <3>1
      <4> QED
        BY <1>1, <3>1, <3>2, <4>1
    <3>4. Due(q, 1) = 1
      BY <3>2, <3>3
    <3> QED
      BY <3>1, <3>4
  <2>2. ASSUME NEW j \in 1 .. n - 1, j - 1 \in S PROVE j \in S
    <3>1. /\ j \in 0 .. n - 1 /\ j + 1 \in 1 .. n /\ j + 1 \in 1 .. l /\ j + 1 # 1
          /\ (j - 1) + 1 = j /\ (j + 1) - 1 = j
      BY <1>1
    <3>2. Due(q, j) = 1
      BY <2>2, <3>1
    <3>3. e[j + 1].remain <= 0 /\ e[j + 1].remain = q[j + 1].remain /\ q[j + 1].remain \in Nat
      BY <1>1, <1>2, <1>3, <3>1
    <3>4. Due(q, j + 1) = 1
      BY <1>1, <3>1, <3>2, <3>3
    <3> QED
      BY <3>1, <3>4
  <2>3. 0 .. n - 1 \subseteq S
    <3>1. n - 1 \in Nat
      BY <1>1
    <3> HIDE DEF S
    <3> QED
      BY <2>1, <2>2, <3>1, Counting
  <2> TAKE j \in 1 .. n
  <2>4. j - 1 \in 0 .. n - 1 /\ (j - 1) + 1 = j
    BY <1>1
  <2> QED
    BY <2>3, <2>4
<1>6. n < l => /\ t[1].remain = Due(q, n + 1) - 1 /\ t[1].remain \in Int /\ t[1].remain >= 1
  <2> SUFFICES ASSUME n < l
               PROVE  t[1].remain = Due(q, n + 1) - 1 /\ t[1].remain \in Int /\ t[1].remain >= 1
    OBVIOUS
  <2>1. n + 1 \in 1 .. l /\ 1 \in 1 .. m /\ (n + 1) - 1 = n /\ n \in 0 .. l
    BY <1>1
  <2>2. /\ t[1] = e[n + 1] /\ e[n + 1].remain > 0 /\ q[n + 1].remain \in Nat
        /\ e[n + 1].remain = IF n + 1 = 1 THEN q[n + 1].remain - 1 ELSE q[n + 1].remain
        /\ Due(q, n + 1) = Due(q, n) + q[n + 1].remain
    BY <1>1, <1>2, <1>3, <1>4, <2>1
  <2>3. CASE n = 0
    BY <1>1, <2>2, <2>3
  <2>4. CASE n # 0
    <3>1. n \in 1 .. n /\ n + 1 # 1
      BY <1>1, <2>4
    <3>2. Due(q, n) = 1
      BY <1>5, <3>1
    <3> QED
      BY <2>2, <3>1, <3>2
  <2> QED
    BY <2>3, <2>4
<1>7. Spaced(t)
  <2>1. t # <<>> => n < l
    <3>1. t # <<>> => m # 0
      BY <1>4, EmptySeq
    <3> QED
      BY <1>1, <3>1
  <2> QED
    BY <1>4, <1>6, <2>1 DEF Spaced
<1>8. /\ Due(t, 0) = 0
      /\ \A j \in 1 .. m : Due(t, j) = Due(t, j - 1) + t[j].remain
      /\ \A j \in 0 .. m : Due(t, j) \in Nat
  <2>1. /\ Due(t, 0) = 0
        /\ \A j \in 1 .. Len(t) : Due(t, j) = Due(t, j - 1) + t[j].remain
        /\ \A j \in 0 .. Len(t) : Due(t, j) \in Nat
    BY <1>7, SpacedSums
  <2>2. Len(t) = m
    BY <1>4
  <2> HIDE DEF m
  <2> QED
    BY <2>1, <2>2
<1>9. \A j \in n + 1 .. l : Due(t, j - n) = Due(q, j) - 1
  <2> SUFFICES ASSUME n < l PROVE \A j \in n + 1 .. l : Due(t, j - n) = Due(q, j) - 1
    BY <1>1
  <2> DEFINE w == m - 1
             F == [k \in 0 .. w |-> Due(t, k + 1)]
             G == [k \in 0 .. w |-> Due(q, n + k + 1)]
  <2>1. w \in Nat /\ \A k \in 0 .. w : k + 1 \in 0 .. m /\ n + k + 1 \in 0 .. l
    BY <1>1
  <2>2. /\ F \in [0 .. w -> Int] /\ G \in [0 .. w -> Int]
        /\ \A k \in 0 .. w : F[k] = Due(t, k + 1) /\ G[k] = Due(q, n + k + 1)
    <3>1. \A k \in 0 .. w : Due(t, k + 1) \in Int
      <4> HIDE DEF w, m
      <4> QED
        BY <1>8, <2>1
    <3>2. \A k \in 0 .. w : Due(q, n + k + 1) \in Int
      <4> TAKE k \in 0 .. w
      <4>1. n + k + 1 \in 0 .. l
        BY <2>1
      <4>2. Due(q, n + k + 1) \in Nat
        BY <1>1, <4>1
      <4> QED
        BY <4>2
    <3> HIDE DEF w
    <3> QED
      BY <3>1, <3>2
  <2> HIDE DEF F, G
  <2>3. \A k \in 1 .. w : F[k] - F[k - 1] = G[k] - G[k - 1]
    <3> TAKE k \in 1 .. w
    <3>1. /\ k \in 0 .. w /\ k - 1 \in 0 .. w /\ k + 1 \in 1 .. m /\ n + k + 1 \in 1 .. l
          /\ (k - 1) + 1 = (k + 1) - 1 /\ n + (k - 1) + 1 = (n + k + 1) - 1
          /\ n + (k + 1) = n + k + 1 /\ n + k + 1 # 1
      BY <1>1
    <3>2. t[k + 1].remain = q[n + k + 1].remain
      BY <1>2, <1>4, <3>1
    <3>3. F[k] = F[k - 1] + q[n + k + 1].remain
      BY <1>8, <2>2, <3>1, <3>2
    <3>4. G[k] = G[k - 1] + q[n + k + 1].remain
      BY <1>1, <2>2, <3>1
    <3>5. q[n + k + 1].remain \in Int
      <4> DEFINE x == n + k + 1
      <4>1. x \in 1 .. l
        BY <3>1
      <4> HIDE DEF x
      <4>2. q[x].remain \in Nat
        BY <1>1, <4>1
      <4> QED
        BY <4>2 DEF x
    <3>6. F[k - 1] \in Int /\ G[k - 1] \in Int
      <4> HIDE DEF w
      <4> QED
        BY <2>2, <3>1
    <3> QED
      BY <3>3, <3>4, <3>5, <3>6
  <2>4. \A k \in 0 .. w : F[k] - F[0] = G[k] - G[0]
    <3> HIDE DEF w
    <3> QED
      BY <2>1, <2>2, <2>3, Together
  <2>5. F[0] = G[0] - 1 /\ F[0] \in Int /\ G[0] \in Int
    <3>1. 0 \in 0 .. w /\ 0 + 1 = 1 /\ n + 0 + 1 = n + 1 /\ 1 \in 1 .. m /\ 1 - 1 = 0
      BY <1>1, <2>1
    <3>2. F[0] = Due(t, 1) /\ G[0] = Due(q, n + 1) /\ F[0] \in Int /\ G[0] \in Int
      BY <2>2, <3>1
    <3>3. Due(t, 1) = 0 + t[1].remain
      BY <1>8, <3>1
    <3> QED
      BY <1>6, <3>2, <3>3
  <2> TAKE j \in n + 1 .. l
  <2> DEFINE k == j - n - 1
  <2>6. k \in 0 .. w /\ k + 1 = j - n /\ n + k + 1 = j
    BY <1>1
  <2>7. F[k] - F[0] = G[k] - G[0] /\ F[k] \in Int /\ G[k] \in Int
    BY <2>2, <2>4, <2>6
  <2>8. F[k] = Due(t, j - n) /\ G[k] = Due(q, j)
    BY <2>2, <2>6
  <2> HIDE DEF k
  <2> QED
    BY <2>5, <2>7, <2>8
<1>10. ASSUME NEW j \in n + 1 .. l
       PROVE  /\ Due(q, j) \in Nat /\ Due(q, j) # 1
              /\ RingsIn(t, q[j].pid, Due(q, j) - 1)
  <2>1. /\ j \in 0 .. l /\ j \in 1 .. l /\ n + 1 \in 0 .. l /\ n < l /\ j \in n + 1 .. l
        /\ j - n \in 1 .. m /\ n + (j - n) = j
    BY <1>1
  <2>2. Due(q, n + 1) <= Due(q, j) /\ Due(q, n + 1) \in Nat /\ Due(q, j) \in Nat
    BY <1>1, <2>1
  <2>3. Due(q, j) # 1
    BY <1>6, <2>1, <2>2
  <2>4. t[j - n].pid = q[j].pid
    BY <1>2, <1>4, <2>1
  <2>5. j - n \in 1 .. Len(t)
    BY <1>4, <2>1
  <2> QED
    BY <1>9, <2>2, <2>3, <2>4, <2>5 DEF RingsIn
<1> QED
  BY <1>5, <1>7, <1>10 DEF t, e

(***************************************************************************)
(* What the refinement to AlarmClock sees of the list and of the mailbox.  *)
(***************************************************************************)
LEMMA SpacedNames ==
    ASSUME NEW q, Spaced(q)
    PROVE  /\ Names(q) \in Seq(Pids) /\ Len(Names(q)) = Len(q) /\ Len(q) \in Nat
           /\ DOMAIN q = 1 .. Len(q)
           /\ \A i \in 1 .. Len(q) : Names(q)[i] = q[i].pid
           /\ ToSet(Names(q)) = {q[i].pid : i \in 1 .. Len(q)}
           /\ IsInjective(Names(q)) => \A i, j \in 1 .. Len(q) : q[i].pid = q[j].pid => i = j
<1>1. \A a \in Alarms : a.pid \in Pids
  BY DEF Alarms
<1>2. q \in Seq(Alarms) /\ DOMAIN q = 1 .. Len(q)
  BY LenProperties DEF Spaced
<1> HIDE DEF Alarms
<1>3. /\ Names(q) \in Seq(Pids) /\ Len(Names(q)) = Len(q) /\ Len(q) \in Nat
      /\ \A i \in 1 .. Len(q) : Names(q)[i] = q[i].pid
  BY <1>1, <1>2, NamesFacts
<1> DEFINE s == Names(q)
<1>4. /\ s \in Seq(Pids) /\ Len(s) = Len(q) /\ \A i \in 1 .. Len(q) : s[i] = q[i].pid
  BY <1>3
<1> HIDE DEF s
<1>5. /\ ToSet(s) = {s[i] : i \in 1 .. Len(q)}
      /\ IsInjective(s) => \A i, j \in 1 .. Len(q) : s[i] = s[j] => i = j
  BY <1>4, SetOfList
<1>6. ToSet(s) = {q[i].pid : i \in 1 .. Len(q)}
  BY <1>4, <1>5
<1>7. IsInjective(s) => \A i, j \in 1 .. Len(q) : q[i].pid = q[j].pid => i = j
  BY <1>4, <1>5
<1> QED
  BY <1>2, <1>3, <1>6, <1>7 DEF s

LEMMA TogoFacts ==
    ASSUME NEW q, Spaced(q), IsInjective(Names(q)), NEW p \in Pids
    PROVE  /\ \A u : RingsIn(q, p, u) => Togo(q)[p] = u
           /\ p \notin ToSet(Names(q)) => Togo(q)[p] = 0
           /\ p \in ToSet(Names(q)) => \E u \in Nat \ {0} : RingsIn(q, p, u)
<1> DEFINE places == {i \in DOMAIN q : q[i].pid = p}
<1>1. Togo(q)[p] = IF places = {} THEN 0 ELSE Due(q, CHOOSE i \in places : TRUE)
  BY DEF Togo
<1>2. /\ DOMAIN q = 1 .. Len(q) /\ Len(q) \in Nat
      /\ ToSet(Names(q)) = {q[i].pid : i \in 1 .. Len(q)}
      /\ \A i, j \in 1 .. Len(q) : q[i].pid = q[j].pid => i = j
  BY SpacedNames
<1>3. ASSUME NEW u, RingsIn(q, p, u) PROVE Togo(q)[p] = u
  <2>1. PICK j \in 1 .. Len(q) : q[j].pid = p /\ Due(q, j) = u
    BY <1>3 DEF RingsIn
  <2>2. places = {j}
    BY <1>2, <2>1
  <2> HIDE DEF places
  <2>3. (CHOOSE i \in places : TRUE) = j
    BY <2>2
  <2> QED
    BY <1>1, <2>1, <2>2, <2>3
<1>4. ASSUME p \notin ToSet(Names(q)) PROVE Togo(q)[p] = 0
  <2>1. places = {}
    BY <1>2, <1>4
  <2> HIDE DEF places
  <2> QED
    BY <1>1, <2>1
<1>5. ASSUME p \in ToSet(Names(q)) PROVE \E u \in Nat \ {0} : RingsIn(q, p, u)
  <2>1. PICK j \in 1 .. Len(q) : q[j].pid = p
    BY <1>2, <1>5
  <2>2. Due(q, j) \in Nat /\ Due(q, j) >= 1
    <3>1. j \in 0 .. Len(q)
      BY <1>2
    <3> QED
      BY <3>1, SpacedSums
  <2>3. RingsIn(q, p, Due(q, j)) /\ Due(q, j) \in Nat \ {0}
    BY <2>1, <2>2 DEF RingsIn
  <2> QED
    BY <2>3
<1> QED
  BY <1>3, <1>4, <1>5

LEMMA MailboxFacts ==
    ASSUME NEW box \in Seq(Request \cup Ring)
    PROVE  /\ DOMAIN box = 1 .. Len(box) /\ Len(box) \in Nat
           /\ HaveRung(box) = {p \in Pids : \E i \in 1 .. Len(box) : box[i].pid = p /\ box[i].type = "fire"}
           /\ \A i \in 1 .. Len(box) : box[i] \in Request \cup Ring /\ box[i].pid \in Pids
           /\ IsInjective(Names(box)) => \A i, j \in 1 .. Len(box) : box[i].pid = box[j].pid => i = j
<1>1. /\ DOMAIN box = 1 .. Len(box) /\ Len(box) \in Nat
      /\ \A i \in 1 .. Len(box) : box[i] \in Request \cup Ring
  BY LenProperties, ElementOfSeq
<1>2. \A m \in Request \cup Ring : m.pid \in Pids
  BY DEF Request, Ring
<1> DEFINE s == Names(box)
<1>3. /\ s \in Seq(Pids) /\ Len(s) = Len(box) /\ \A i \in 1 .. Len(box) : s[i] = box[i].pid
  BY <1>2, NamesFacts
<1> HIDE DEF s
<1>4. IsInjective(s) => \A i, j \in 1 .. Len(box) : s[i] = s[j] => i = j
  BY <1>3, SetOfList
<1>5. IsInjective(s) => \A i, j \in 1 .. Len(box) : box[i].pid = box[j].pid => i = j
  BY <1>3, <1>4
<1> QED
  BY <1>1, <1>2, <1>5 DEF HaveRung, s

LEMMA MailboxTail ==
    ASSUME NEW box \in Seq(Request \cup Ring), box # <<>>, IsInjective(Names(box))
    PROVE  /\ Head(box).type = "set" => HaveRung(Tail(box)) = HaveRung(box)
           /\ Head(box).type = "fire" => /\ HaveRung(Tail(box)) = HaveRung(box) \ {Head(box).pid}
                                         /\ Head(box).pid \in HaveRung(box)
<1> DEFINE t == Tail(box)
           n == Len(box)
<1>1. /\ t \in Seq(Request \cup Ring) /\ Len(t) = n - 1 /\ n \in Nat /\ n # 0
      /\ \A i \in 1 .. n - 1 : t[i] = box[i + 1]
      /\ Head(box) = box[1]
  <2>1. n # 0 /\ n \in Nat /\ Head(box) = box[1]
    BY EmptySeq, LenProperties
  <2> QED
    BY <2>1, HeadTailProperties
<1> HIDE DEF t
<1>2. /\ HaveRung(box) = {p \in Pids : \E i \in 1 .. n : box[i].pid = p /\ box[i].type = "fire"}
      /\ \A i \in 1 .. n : box[i].pid \in Pids
      /\ \A i, j \in 1 .. n : box[i].pid = box[j].pid => i = j
  BY MailboxFacts
<1>3. HaveRung(t) = {p \in Pids : \E i \in 1 .. n - 1 : t[i].pid = p /\ t[i].type = "fire"}
  BY <1>1, MailboxFacts
<1>4. 1 \in 1 .. n /\ \A i \in 1 .. n - 1 : i + 1 \in 1 .. n /\ i + 1 # 1
  BY <1>1
<1>5. \A i \in 1 .. n : i # 1 => i - 1 \in 1 .. n - 1 /\ t[i - 1] = box[i]
  <2> TAKE i \in 1 .. n
  <2> SUFFICES ASSUME i # 1 PROVE i - 1 \in 1 .. n - 1 /\ t[i - 1] = box[i]
    OBVIOUS
  <2>1. i - 1 \in 1 .. n - 1 /\ (i - 1) + 1 = i
    BY <1>1
  <2> QED
    BY <1>1, <2>1
<1>6. HaveRung(t) = {p \in Pids : \E i \in 1 .. n : i # 1 /\ box[i].pid = p /\ box[i].type = "fire"}
  BY <1>1, <1>3, <1>4, <1>5
<1>7. ASSUME box[1].type = "set" PROVE HaveRung(t) = HaveRung(box)
  BY <1>2, <1>6, <1>7
<1>8. ASSUME box[1].type = "fire" PROVE HaveRung(t) = HaveRung(box) \ {box[1].pid} /\ box[1].pid \in HaveRung(box)
  BY <1>2, <1>4, <1>6, <1>8
<1> QED
  BY <1>1, <1>7, <1>8 DEF t

LEMMA MailboxAppend ==
    ASSUME NEW box \in Seq(Request \cup Ring), NEW m \in Request
    PROVE  HaveRung(Append(box, m)) = HaveRung(box)
<1> DEFINE t == Append(box, m)
           n == Len(box)
<1>1. /\ t \in Seq(Request \cup Ring) /\ Len(t) = n + 1 /\ n \in Nat
      /\ \A i \in 1 .. n : t[i] = box[i]
      /\ t[n + 1] = m
  BY AppendProperties, LenProperties
<1> HIDE DEF t
<1>2. m.type # "fire"
  BY DEF Request
<1>3. HaveRung(box) = {p \in Pids : \E i \in 1 .. n : box[i].pid = p /\ box[i].type = "fire"}
  BY MailboxFacts
<1>4. HaveRung(t) = {p \in Pids : \E i \in 1 .. n + 1 : t[i].pid = p /\ t[i].type = "fire"}
  BY <1>1, MailboxFacts
<1>5. \A i \in 1 .. n + 1 : i \in 1 .. n \/ i = n + 1
  BY <1>1
<1>6. \A i \in 1 .. n : i \in 1 .. n + 1
  BY <1>1
<1> QED
  BY <1>1, <1>2, <1>3, <1>4, <1>5, <1>6 DEF t

LEMMA MailboxRings ==
    ASSUME NEW box \in Seq(Request \cup Ring), NEW new \in Seq(Ring)
    PROVE  HaveRung(box \o new) = HaveRung(box) \cup {new[i].pid : i \in 1 .. Len(new)}
<1> DEFINE t == box \o new
           n == Len(box)
           k == Len(new)
<1>1. /\ new \in Seq(Request \cup Ring) /\ n \in Nat /\ k \in Nat
      /\ \A i \in 1 .. k : new[i].pid \in Pids /\ new[i].type = "fire"
  <2>1. n \in Nat /\ k \in Nat /\ \A i \in 1 .. k : new[i] \in Ring
    BY LenProperties, ElementOfSeq
  <2>2. \A x \in Ring : x.pid \in Pids /\ x.type = "fire"
    BY DEF Ring
  <2>3. Ring \subseteq Request \cup Ring
    OBVIOUS
  <2> QED
    BY <2>1, <2>2, <2>3, SeqMono
<1>2. /\ t \in Seq(Request \cup Ring) /\ Len(t) = n + k
      /\ \A i \in 1 .. n + k : t[i] = IF i <= n THEN box[i] ELSE new[i - n]
  BY <1>1, ConcatProperties
<1> HIDE DEF t
<1>3. HaveRung(box) = {p \in Pids : \E i \in 1 .. n : box[i].pid = p /\ box[i].type = "fire"}
  BY MailboxFacts
<1>4. HaveRung(t) = {p \in Pids : \E i \in 1 .. n + k : t[i].pid = p /\ t[i].type = "fire"}
  <2>1. HaveRung(t) = {p \in Pids : \E i \in 1 .. Len(t) : t[i].pid = p /\ t[i].type = "fire"}
    BY <1>2, MailboxFacts
  <2> QED
    BY <1>2, <2>1
<1>5. \A i \in 1 .. n : i \in 1 .. n + k /\ t[i] = box[i]
  <2> TAKE i \in 1 .. n
  <2>1. i \in 1 .. n + k /\ i <= n
    BY <1>1
  <2> QED
    BY <1>2, <2>1
<1>6. \A i \in 1 .. k : n + i \in 1 .. n + k /\ t[n + i] = new[i]
  <2> TAKE i \in 1 .. k
  <2>1. n + i \in 1 .. n + k /\ ~(n + i <= n) /\ (n + i) - n = i
    BY <1>1
  <2> QED
    BY <1>2, <2>1
<1>7. \A i \in 1 .. n + k : i \in 1 .. n \/ \E j \in 1 .. k : i = n + j
  <2> TAKE i \in 1 .. n + k
  <2>1. i <= n \/ (i - n \in 1 .. k /\ i = n + (i - n))
    BY <1>1
  <2>2. i <= n => i \in 1 .. n
    BY <1>1
  <2> QED
    BY <2>1, <2>2
<1>8. HaveRung(t) \subseteq HaveRung(box) \cup {new[i].pid : i \in 1 .. k}
  BY <1>3, <1>4, <1>5, <1>6, <1>7
<1>9. HaveRung(box) \subseteq HaveRung(t)
  BY <1>3, <1>4, <1>5
<1>10. \A i \in 1 .. k : new[i].pid \in HaveRung(t)
  BY <1>1, <1>4, <1>6
<1> QED
  BY <1>8, <1>9, <1>10 DEF t

(***************************************************************************)
(* The invariant with the distances, and what the refinement sees of each  *)
(* step.                                                                   *)
(***************************************************************************)
ClockInv == AlarmInv /\ Spaced(queue)

LEMMA SetAlarmSums ==
    ASSUME Measured, ClockInv, AlarmInv', SetAlarm
    PROVE  \E p \in Pids, time \in 1 .. IntMax :
              /\ time \in {s * HZ : s \in Seconds}
              /\ Head(inbox).pid = p /\ p \notin ToSet(Names(queue))
              /\ NewAlarm(p, time)
<1>1. /\ Head(inbox) \in Request \cup Ring /\ Head(inbox).pid \in Pids
      /\ Head(inbox).pid \in ToSet(Names(inbox))
  BY InboxTail DEF ClockInv, SetAlarm
<1>2. Head(inbox).pid \notin ToSet(Names(queue))
  BY <1>1 DEF ClockInv, AlarmInv, NamedOnce
<1>3. Head(inbox).second \in Seconds
  BY <1>1 DEF SetAlarm, Request, Ring
<1>4. NewAlarm(Head(inbox).pid, Wrap(Head(inbox).second * HZ))
  BY DEF SetAlarm, AlarmInv
<1> DEFINE time == Head(inbox).second * HZ
<1>5. time \in 1 .. IntMax /\ time \in {s * HZ : s \in Seconds}
  BY <1>3 DEF Measured
<1>6. Wrap(time) = time
  <2>1. time \in 0 .. IntMax
    BY <1>5, AlarmAssumption
  <2> HIDE DEF time
  <2> QED
    BY <2>1, Wrapped
<1>7. NewAlarm(Head(inbox).pid, time)
  BY <1>4, <1>6
<1> HIDE DEF time
<1> QED
  BY <1>1, <1>2, <1>5, <1>7

LEMMA StepSpaced ==
    ASSUME Measured, ClockInv, AlarmInv', [Next]_vars
    PROVE  Spaced(queue')
<1>1. CASE UNCHANGED queue
  BY <1>1 DEF ClockInv
<1>2. CASE SetAlarm
  <2>1. PICK p \in Pids, time \in 1 .. IntMax : NewAlarm(p, time)
    BY <1>2, SetAlarmSums
  <2> QED
    BY <2>1, NewAlarmSums DEF ClockInv
<1>3. CASE TimerIntr
  BY <1>3, TickSums DEF TimerIntr, ClockInv
<1> QED
  BY <1>1, <1>2, <1>3 DEF Next, Sleep, AlarmFire, vars

LEMMA NewAlarmSeen ==
    ASSUME Measured, ClockInv, ClockInv', SetAlarm
    PROVE  \E p \in Pids, d \in {s * HZ : s \in Seconds} :
              /\ Togo(queue)[p] = 0
              /\ Togo(queue') = [Togo(queue) EXCEPT ![p] = d]
              /\ HaveRung(inbox') = HaveRung(inbox)
<1>1. PICK p \in Pids, time \in 1 .. IntMax :
         /\ time \in {s * HZ : s \in Seconds}
         /\ Head(inbox).pid = p /\ p \notin ToSet(Names(queue))
         /\ NewAlarm(p, time)
  BY SetAlarmSums DEF ClockInv
<1>2. /\ Spaced(queue) /\ Spaced(queue') /\ Lists /\ IsInjective(Names(queue))
      /\ IsInjective(Names(queue')) /\ inbox \in Seq(Request \cup Ring) /\ IsInjective(Names(inbox))
  BY DEF ClockInv, AlarmInv, NamedOnce, Lists
<1>3. HaveRung(inbox') = HaveRung(inbox)
  BY <1>2, MailboxTail DEF SetAlarm
<1>4. RingsIn(queue', p, time) /\ \A r, u : RingsIn(queue, r, u) => RingsIn(queue', r, u)
  BY <1>1, <1>2, NewAlarmSums
<1>5. ToSet(Names(queue')) = ToSet(Names(queue)) \cup {p}
  BY <1>1, <1>2, NewAlarmNames
<1>6. Togo(queue)[p] = 0 /\ Togo(queue')[p] = time
  BY <1>1, <1>2, <1>4, TogoFacts
<1>7. ASSUME NEW r \in Pids, r # p PROVE Togo(queue')[r] = Togo(queue)[r]
  <2>1. CASE r \in ToSet(Names(queue))
    <3>1. PICK u \in Nat \ {0} : RingsIn(queue, r, u)
      BY <1>2, <2>1, TogoFacts
    <3>2. Togo(queue)[r] = u
      BY <1>2, <3>1, TogoFacts
    <3>3. Togo(queue')[r] = u
      BY <1>2, <1>4, <3>1, TogoFacts
    <3> QED
      BY <3>2, <3>3
  <2>2. CASE r \notin ToSet(Names(queue))
    <3>1. r \notin ToSet(Names(queue'))
      BY <1>5, <1>7, <2>2
    <3>2. Togo(queue)[r] = 0
      BY <1>2, <2>2, TogoFacts
    <3>3. Togo(queue')[r] = 0
      BY <1>2, <3>1, TogoFacts
    <3> QED
      BY <3>2, <3>3
  <2> QED
    BY <2>1, <2>2
<1>8. /\ Togo(queue) = [r \in Pids |-> Togo(queue)[r]]
      /\ Togo(queue') = [r \in Pids |-> Togo(queue')[r]]
  BY DEF Togo
<1>9. Togo(queue') = [Togo(queue) EXCEPT ![p] = time]
  <2> DEFINE a == Togo(queue)
             b == Togo(queue')
  <2>1. /\ a = [r \in Pids |-> a[r]] /\ b = [r \in Pids |-> b[r]] /\ b[p] = time
        /\ \A r \in Pids : r # p => b[r] = a[r]
    BY <1>6, <1>7, <1>8
  <2> HIDE DEF a, b
  <2>2. b = [a EXCEPT ![p] = time]
    BY <2>1
  <2> QED
    BY <2>2 DEF a, b
<1> QED
  BY <1>1, <1>3, <1>6, <1>9

LEMMA TickSeen ==
    ASSUME ClockInv, ClockInv', TimerIntr
    PROVE  /\ HaveRung(inbox') = HaveRung(inbox) \cup {p \in Pids : Togo(queue)[p] = 1}
           /\ Togo(queue') = [p \in Pids |-> IF Togo(queue)[p] = 0 THEN 0 ELSE Togo(queue)[p] - 1]
<1> DEFINE rings(k) == [i \in 1 .. k |-> [type |-> "fire", pid |-> queue[i].pid]]
<1>1. PICK n \in 0 .. Len(queue) :
         /\ IsRinging(Elapsed(queue), n)
         /\ queue' = SubSeq(Elapsed(queue), n + 1, Len(queue))
         /\ inbox' = inbox \o rings(n)
  BY DEF TimerIntr
<1>2. /\ Spaced(queue) /\ Spaced(queue') /\ IsInjective(Names(queue)) /\ IsInjective(Names(queue'))
      /\ inbox \in Seq(Request \cup Ring)
  BY DEF ClockInv, AlarmInv, NamedOnce, Lists
<1>3. /\ Len(queue) \in Nat /\ n \in Nat
      /\ \A i \in 1 .. Len(queue) : queue[i].pid \in Pids
      /\ ToSet(Names(queue)) = {queue[i].pid : i \in 1 .. Len(queue)}
      /\ \A i, j \in 1 .. Len(queue) : queue[i].pid = queue[j].pid => i = j
  BY <1>2, SpacedNames, SpacedSums
<1>4. /\ \A j \in 1 .. n : Due(queue, j) = 1
      /\ \A j \in n + 1 .. Len(queue) :
            /\ Due(queue, j) \in Nat /\ Due(queue, j) # 1
            /\ RingsIn(queue', queue[j].pid, Due(queue, j) - 1)
  BY <1>1, <1>2, TickSums
<1>5. \A j \in 1 .. Len(queue) : Togo(queue)[queue[j].pid] = Due(queue, j)
  <2> TAKE j \in 1 .. Len(queue)
  <2>1. RingsIn(queue, queue[j].pid, Due(queue, j))
    BY DEF RingsIn
  <2> QED
    BY <1>2, <1>3, <2>1, TogoFacts
<1>6. \A j \in 1 .. n : j \in 1 .. Len(queue)
  BY <1>3
<1>7. \A j \in 1 .. Len(queue) : j \in 1 .. n \/ j \in n + 1 .. Len(queue)
  BY <1>3
<1>8. {p \in Pids : Togo(queue)[p] = 1} = {queue[j].pid : j \in 1 .. n}
  <2>1. ASSUME NEW p \in Pids, Togo(queue)[p] = 1 PROVE \E j \in 1 .. n : queue[j].pid = p
    <3>1. p \in ToSet(Names(queue))
      BY <1>2, <2>1, TogoFacts
    <3>2. PICK j \in 1 .. Len(queue) : queue[j].pid = p
      BY <1>3, <3>1
    <3>3. Due(queue, j) = 1
      BY <1>5, <2>1, <3>2
    <3> QED
      BY <1>4, <1>7, <3>2, <3>3
  <2>2. \A j \in 1 .. n : queue[j].pid \in Pids /\ Togo(queue)[queue[j].pid] = 1
    BY <1>3, <1>4, <1>5, <1>6
  <2> QED
    BY <2>1, <2>2
<1>9. HaveRung(inbox') = HaveRung(inbox) \cup {queue[j].pid : j \in 1 .. n}
  <2>1. rings(n) \in [1 .. n -> Ring]
    BY <1>3, <1>6 DEF Ring
  <2>2. \A i \in 1 .. n : rings(n)[i].pid = queue[i].pid
    OBVIOUS
  <2> HIDE DEF rings
  <2>3. rings(n) \in Seq(Ring) /\ Len(rings(n)) = n
    BY <1>3, <2>1, FunctionIsSeq
  <2>4. HaveRung(inbox \o rings(n)) = HaveRung(inbox) \cup {rings(n)[i].pid : i \in 1 .. n}
    BY <1>2, <2>3, MailboxRings
  <2>5. {rings(n)[i].pid : i \in 1 .. n} = {queue[i].pid : i \in 1 .. n}
    BY <2>2
  <2> QED
    BY <1>1, <2>4, <2>5
<1>10. ASSUME NEW p \in Pids
       PROVE  Togo(queue')[p] = IF Togo(queue)[p] = 0 THEN 0 ELSE Togo(queue)[p] - 1
  <2>1. CASE p \notin ToSet(Names(queue)) \/ \E j \in 1 .. n : queue[j].pid = p
    <3>1. Togo(queue)[p] = 0 \/ Togo(queue)[p] = 1
      BY <1>2, <1>8, <2>1, TogoFacts
    <3>2. p \notin ToSet(Names(queue'))
      <4> SUFFICES ASSUME p \in ToSet(Names(queue')) PROVE FALSE
        OBVIOUS
      <4> DEFINE t == queue'
                 e == Elapsed(queue)
      <4>1. PICK k \in 1 .. Len(t) : t[k].pid = p
        BY <1>2, SpacedNames
      <4>2. /\ e \in Seq(Alarms) /\ Len(e) = Len(queue)
            /\ \A j \in 1 .. Len(queue) : e[j].pid = queue[j].pid
        BY <1>2, ElapsedAlarms
      <4>3. n \in 0 .. Len(e) /\ t = SubSeq(e, n + 1, Len(e))
        BY <1>1, <4>2
      <4> HIDE DEF e, t
      <4>4. Len(t) = Len(e) - n /\ \A j \in 1 .. Len(e) - n : t[j] = e[n + j]
        BY <4>2, <4>3, Cutting DEF IsCut
      <4>5. n + k \in 1 .. Len(queue) /\ n + k \notin 1 .. n /\ k \in 1 .. Len(e) - n
        BY <1>3, <4>2, <4>4
      <4>6. queue[n + k].pid = p
        BY <4>1, <4>2, <4>4, <4>5
      <4>7. p \in ToSet(Names(queue))
        BY <1>3, <4>5, <4>6
      <4> QED
        BY <1>3, <1>6, <2>1, <4>5, <4>6, <4>7
    <3>3. Togo(queue')[p] = 0
      BY <1>2, <3>2, TogoFacts
    <3> QED
      BY <3>1, <3>3
  <2>2. CASE \E j \in n + 1 .. Len(queue) : queue[j].pid = p
    <3>1. PICK j \in n + 1 .. Len(queue) : queue[j].pid = p
      BY <2>2
    <3>2. j \in 1 .. Len(queue)
      BY <1>3
    <3>3. Togo(queue)[p] = Due(queue, j)
      BY <1>5, <3>1, <3>2
    <3>4. Togo(queue')[p] = Due(queue, j) - 1
      BY <1>2, <1>4, <3>1, TogoFacts
    <3>5. Due(queue, j) # 0
      <4>1. Due(queue, j) >= 1
        BY <1>2, <3>2, SpacedSums
      <4> QED
        BY <4>1
    <3> QED
      BY <3>3, <3>4, <3>5
  <2> QED
    BY <1>3, <1>7, <2>1, <2>2
<1>11. Togo(queue') = [p \in Pids |-> Togo(queue')[p]]
  BY DEF Togo
<1>12. Togo(queue') = [p \in Pids |-> IF Togo(queue)[p] = 0 THEN 0 ELSE Togo(queue)[p] - 1]
  BY <1>10, <1>11, Zenon
<1> QED
  BY <1>8, <1>9, <1>12

(***************************************************************************)
(* Refinement: SetAlarm is Set of AlarmClock, AlarmFire is Wake and        *)
(* TimerIntr is ClockTick; Sleep is not seen.                              *)
(***************************************************************************)
LEMMA StepClock ==
    ASSUME Measured, ClockInv, ClockInv', [Next]_vars
    PROVE  [Clock!ClockNext]_(Clock!clockVars)
<1>1. CASE UNCHANGED vars
  BY <1>1 DEF vars, Clock!clockVars
<1>2. ASSUME NEW p \in Pids, Sleep(p) PROVE UNCHANGED Clock!clockVars
  <2>1. PICK s \in Seconds : inbox' = Append(inbox, [type |-> "set", pid |-> p, second |-> s])
    BY <1>2 DEF Sleep
  <2> DEFINE m == [type |-> "set", pid |-> p, second |-> s]
  <2>2. m \in Request /\ inbox' = Append(inbox, m) /\ inbox \in Seq(Request \cup Ring)
    BY <2>1 DEF Request, ClockInv, AlarmInv, Lists
  <2> HIDE DEF m
  <2>3. HaveRung(inbox') = HaveRung(inbox) /\ queue' = queue
    BY <1>2, <2>2, MailboxAppend DEF Sleep
  <2> QED
    BY <2>3 DEF Clock!clockVars
<1>3. CASE SetAlarm
  <2>1. PICK p \in Pids, d \in {s * HZ : s \in Seconds} :
           /\ Togo(queue)[p] = 0
           /\ Togo(queue') = [Togo(queue) EXCEPT ![p] = d]
           /\ HaveRung(inbox') = HaveRung(inbox)
    BY <1>3, NewAlarmSeen
  <2>2. Clock!Set(p, d)
    BY <2>1 DEF Clock!Set
  <2> QED
    BY <2>2 DEF Clock!ClockNext
<1>4. CASE AlarmFire
  <2> DEFINE p == Head(inbox).pid
  <2>1. /\ inbox \in Seq(Request \cup Ring) /\ IsInjective(Names(inbox))
        /\ inbox # <<>> /\ Head(inbox).type = "fire" /\ inbox' = Tail(inbox) /\ queue' = queue
    BY <1>4 DEF ClockInv, AlarmInv, NamedOnce, Lists, AlarmFire
  <2>2. HaveRung(inbox') = HaveRung(inbox) \ {p} /\ p \in HaveRung(inbox)
    BY <2>1, MailboxTail
  <2>3. p \in Pids
    BY <2>2 DEF HaveRung
  <2> HIDE DEF p
  <2>4. Clock!Wake(p)
    BY <2>1, <2>2 DEF Clock!Wake
  <2> QED
    BY <2>3, <2>4 DEF Clock!ClockNext
<1>5. CASE TimerIntr
  <2>1. Clock!ClockTick
    BY <1>5, TickSeen DEF Clock!ClockTick
  <2> QED
    BY <2>1 DEF Clock!ClockNext
<1> QED
  BY <1>1, <1>2, <1>3, <1>4, <1>5 DEF Next

LEMMA InitClock == Init => ClockInv /\ Clock!ClockInit
<1> SUFFICES ASSUME Init PROVE ClockInv /\ Clock!ClockInit
  OBVIOUS
<1>1. AlarmInv /\ queue = <<>> /\ inbox = <<>>
  BY InitAlarm DEF Init
<1>2. Spaced(queue)
  BY <1>1 DEF Spaced
<1>3. HaveRung(inbox) = {} /\ Togo(queue) = [p \in Pids |-> 0]
  BY <1>1 DEF HaveRung, Togo
<1> QED
  BY <1>1, <1>2, <1>3 DEF ClockInv, Clock!ClockInit

LEMMA ClockInvariant == Measured => (Spec => []ClockInv)
<1> SUFFICES ASSUME Measured PROVE Spec => []ClockInv
  OBVIOUS
<1>1. Init => ClockInv
  BY InitClock
<1>2. ClockInv /\ [Next]_vars => ClockInv'
  BY StepAlarm, StepSpaced DEF ClockInv
<1> QED
  BY <1>1, <1>2, PTL DEF Spec

(***************************************************************************)
(* Types: for sleeps that the code measures, every distance in alarm_queue *)
(* fits its int, and none is negative.                                     *)
(***************************************************************************)
THEOREM AlarmTyped ==
    ASSUME Measured
    PROVE  Spec => []TypeOK
<1>1. ClockInv => TypeOK
  <2> SUFFICES ASSUME ClockInv PROVE TypeOK
    OBVIOUS
  <2>1. queue \in Seq([pid : Pids, remain : Int32])
    <3>1. 0 .. IntMax \subseteq Int32
      BY AlarmAssumption DEF Int32
    <3>2. Alarms \subseteq [pid : Pids, remain : Int32]
      BY <3>1 DEF Alarms
    <3>3. queue \in Seq(Alarms)
      BY DEF ClockInv, Spaced
    <3> HIDE DEF Alarms
    <3> QED
      BY <3>2, <3>3, SeqMono
  <2> QED
    BY <2>1 DEF ClockInv, AlarmInv, Lists, TypeOK
<1> QED
  BY <1>1, ClockInvariant, PTL

(***************************************************************************)
(* The timer implements AlarmClock, for sleeps that it measures: however   *)
(* many alarms are entered, popped and counted down, each rings at the     *)
(* tick it was set for.                                                    *)
(***************************************************************************)
THEOREM ImplementsAlarmClock ==
    ASSUME Measured
    PROVE  Spec => ClockSpec
<1>1. Init => Clock!ClockInit
  BY InitClock
<1>2. ClockInv /\ ClockInv' /\ [Next]_vars => [Clock!ClockNext]_(Clock!clockVars)
  BY StepClock
<1> QED
  BY <1>1, <1>2, ClockInvariant, PTL DEF Spec, ClockSpec, Clock!ClockSpec
=============================================================================
