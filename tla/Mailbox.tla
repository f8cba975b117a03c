------------------------------ MODULE Mailbox ------------------------------
(***************************************************************************)
(* What send and receive of kernel/message.c promise their callers: every  *)
(* process has a mailbox, send puts a message at its end in one step, and  *)
(* receive(f) takes the oldest message whose source f accepts, each        *)
(* message once.  Slots, the two lists, semaphores, scheduling and         *)
(* interrupts are not visible.                                             *)
(***************************************************************************)
EXTENDS Boxes

CONSTANTS
    Owners,       \* the processes that have a mailbox
    Letters,      \* what can be sent: records with a field src
    Nothing       \* what a process that never received anything has

VARIABLE last     \* last[p]: the message p received last

boxVars == <<box, last>>

BoxInit ==
    /\ box = [p \in Owners |-> <<>>]
    /\ last = [p \in Owners |-> Nothing]

Put(p, m) == Deliver(p, m) /\ UNCHANGED last

Get(p, f) ==
    \E i \in Oldest(p, f) :
       /\ last' = [last EXCEPT ![p] = box[p][i]]
       /\ Collect(p, i)

BoxNext ==
    \E p \in Owners :
       \/ \E m \in Letters : Put(p, m)
       \/ \E f \in {Anyone} \cup {m.src : m \in Letters} : Get(p, f)

BoxSpec == BoxInit /\ [][BoxNext]_boxVars
=============================================================================
