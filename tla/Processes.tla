----------------------------- MODULE Processes -----------------------------
(***************************************************************************)
(* What fork, exit, waitpid and execv promise user programs: a call takes  *)
(* effect at once between its call and its return.  An exit answers, with  *)
(* its code, all who then wait for the process, and its pid is free again. *)
(* Messages, PM and its queue are not visible.                             *)
(***************************************************************************)
EXTENDS Integers

CONSTANTS
    Pids,         \* the entries of the process table for user processes
    Calls,        \* what a program may call
    NoCall,       \* what a process that runs calls
    NoArgs        \* the arguments of the first program

VARIABLES
    phase,        \* "none", "run", "asked", "waits" or "done"
    call,         \* call[p]: what p calls
    result,       \* result[p]: what the last call returned
    argv,         \* argv[p]: the arguments main was given
    stopped       \* the kernel has panicked

procVars == <<phase, call, result, argv, stopped>>

ProcInit ==
    /\ \E first \in Pids : phase = [p \in Pids |-> IF p = first THEN "run" ELSE "none"]
    /\ call = [p \in Pids |-> NoCall]
    /\ result = [p \in Pids |-> 0]
    /\ argv = [p \in Pids |-> NoArgs]
    /\ stopped = FALSE

Enter(p, c) ==
    /\ phase[p] = "run" /\ ~stopped
    /\ phase' = [phase EXCEPT ![p] = "asked"]
    /\ call' = [call EXCEPT ![p] = c]
    /\ result' = [result EXCEPT ![p] = 0]
    /\ UNCHANGED <<argv, stopped>>

Asks(p, type) == phase[p] = "asked" /\ call[p].type = type

\* p gets a child q, which returns from the same call with 0.
Spawn(p, q) ==
    /\ Asks(p, "fork") /\ phase[q] = "none"
    /\ phase' = [phase EXCEPT ![p] = "done", ![q] = "run"]
    /\ result' = [result EXCEPT ![p] = q, ![q] = 0]
    /\ argv' = [argv EXCEPT ![q] = argv[p]]
    /\ UNCHANGED <<call, stopped>>

\* A fork that finds no free entry stops the system.
Panic(p) ==
    /\ Asks(p, "fork") /\ \A q \in Pids : phase[q] # "none"
    /\ stopped' = TRUE
    /\ UNCHANGED <<phase, call, result, argv>>

Wait(p) ==
    /\ Asks(p, "waitpid")
    /\ phase' = [phase EXCEPT ![p] = "waits"]
    /\ UNCHANGED <<call, result, argv, stopped>>

Waiters(p) == {q \in Pids : phase[q] = "waits" /\ call[q].p1 = p}

End(p) ==
    /\ Asks(p, "exit")
    /\ phase' = [q \in Pids |-> IF q = p THEN "none"
                                ELSE IF q \in Waiters(p) THEN "done" ELSE phase[q]]
    /\ result' = [q \in Pids |-> IF q \in Waiters(p) THEN call[p].p1 ELSE result[q]]
    /\ call' = [call EXCEPT ![p] = NoCall]
    /\ argv' = [argv EXCEPT ![p] = NoArgs]
    /\ UNCHANGED stopped

\* main begins with the arguments that were given to execv.
Replace(p) ==
    /\ Asks(p, "exec")
    /\ phase' = [phase EXCEPT ![p] = "run"]
    /\ argv' = [argv EXCEPT ![p] = call[p].args]
    /\ call' = [call EXCEPT ![p] = NoCall]
    /\ UNCHANGED <<result, stopped>>

Effect(p) ==
    /\ ~stopped
    /\ Wait(p) \/ End(p) \/ Replace(p) \/ Panic(p) \/ \E q \in Pids : Spawn(p, q)

Leave(p) ==
    /\ phase[p] = "done" /\ ~stopped
    /\ phase' = [phase EXCEPT ![p] = "run"]
    /\ call' = [call EXCEPT ![p] = NoCall]
    /\ UNCHANGED <<result, argv, stopped>>

ProcNext == \E p \in Pids : Effect(p) \/ Leave(p) \/ \E c \in Calls : Enter(p, c)

ProcSpec ==
    /\ ProcInit /\ [][ProcNext]_procVars
    /\ \A p \in Pids : WF_procVars(Effect(p) \/ Leave(p))
=============================================================================
