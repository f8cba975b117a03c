----------------------------- MODULE Semaphore -----------------------------
(***************************************************************************)
(* The counting semaphores of kernel/semaphore.c: what the sections of     *)
(* Sem_P and Sem_V that run under lock() do to a semaphore and to the      *)
(* status of the processes.  A semaphore has a token count and an array of *)
(* sleeping pids that is used as a stack: queue_tail is Len(queue).        *)
(***************************************************************************)
EXTENDS SequencesExt, Integers

SemInit == [token |-> 0, queue |-> <<>>]

SemType(P) == [token : Nat, queue : Seq(P)]

\* Sem_P finds a token ...
HasToken(s) == s.token > 0

\* A fault of PTake: the token is not taken.
PTakeNothing(s) == s

PTake(s) == [s EXCEPT !.token = @ - 1]

\* ... or the caller p is queued and goes to sleep.
PQueue(s, p) == [s EXCEPT !.queue = Append(@, p)]

PSleep(st, p) == [st EXCEPT ![p] = "sleeping"]

\* Faults of V: no else, and no -- queue_tail.
VTokenToo(s) == IF s.queue # <<>> THEN [s EXCEPT !.queue = Front(@), !.token = @ + 1]
                                  ELSE [s EXCEPT !.token = @ + 1]

VKeepsQueue(s) == IF s.queue # <<>> THEN s ELSE [s EXCEPT !.token = @ + 1]

\* A fault of VWake: the process that gets the token is left asleep.
VWakesNobody(s, st) == st

\* Sem_V hands its token to the process queued last, if there is one.
V(s) == IF s.queue # <<>> THEN [s EXCEPT !.queue = Front(@)]
                          ELSE [s EXCEPT !.token = @ + 1]

VWake(s, st) == IF s.queue # <<>> THEN [st EXCEPT ![Last(s.queue)] = "waiting"]
                                  ELSE st
=============================================================================
