---------------------------- MODULE AlarmClock ----------------------------
(***************************************************************************)
(* What the timer driver promises: every process may set one alarm, each   *)
(* tick brings every alarm that is set one tick closer, whatever else is   *)
(* set, and an alarm rings at the tick it was set for, neither before nor  *)
(* after.  The driver's list of differences is not visible.                *)
(***************************************************************************)
EXTENDS Integers

CONSTANTS
    Sleepers,     \* the processes
    Durations     \* the numbers of ticks an alarm can be set for

VARIABLES
    togo,         \* togo[p]: ticks until the alarm of p rings; 0 if it has none
    rung          \* the processes whose alarm has rung and that still sleep

clockVars == <<togo, rung>>

ClockInit ==
    /\ togo = [p \in Sleepers |-> 0]
    /\ rung = {}

Set(p, d) ==
    /\ togo[p] = 0
    /\ togo' = [togo EXCEPT ![p] = d]
    /\ UNCHANGED rung

ClockTick ==
    /\ rung' = rung \cup {p \in Sleepers : togo[p] = 1}
    /\ togo' = [p \in Sleepers |-> IF togo[p] = 0 THEN 0 ELSE togo[p] - 1]

Wake(p) ==
    /\ p \in rung
    /\ rung' = rung \ {p}
    /\ UNCHANGED togo

ClockNext ==
    \/ \E p \in Sleepers : Wake(p) \/ \E d \in Durations : Set(p, d)
    \/ ClockTick

ClockSpec == ClockInit /\ [][ClockNext]_clockVars
=============================================================================
