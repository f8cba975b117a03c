------------------------------ MODULE Terminal ------------------------------
(***************************************************************************)
(* What the terminal promises to who types and to who reads: a line that   *)
(* is edited at a cursor, finished lines that are read in their order and  *)
(* each character once, never more than a reader asks for and never beyond *)
(* the end of a line; of several waiting readers the last is served.       *)
(* Buffers, the pool and the screen are not visible.                       *)
(***************************************************************************)
EXTENDS Integers, SequencesExt

CONSTANTS
    Readers,      \* the processes that read
    Lengths,      \* how much they ask for
    Chars,        \* what can be typed
    End           \* the character that ends a line

VARIABLES
    before, after,    \* the line that is edited, left and right of the cursor
    lines,            \* the finished lines, the first perhaps begun
    waiting,          \* the waiting readers and their lengths, the last first
    given             \* given[p]: what p has read last

termVars == <<before, after, lines, waiting, given>>

TermInit ==
    /\ before = <<>> /\ after = <<>> /\ lines = <<>> /\ waiting = <<>>
    /\ given = [p \in Readers |-> <<>>]

\* The line changes at the cursor.
Edit ==
    /\ \/ \E ch \in Chars : before' = Append(before, ch) /\ UNCHANGED after
       \/ before # <<>> /\ before' = Front(before) /\ UNCHANGED after
       \/ before # <<>> /\ before' = Front(before) /\ after' = <<Last(before)>> \o after
       \/ after # <<>> /\ before' = Append(before, Head(after)) /\ after' = Tail(after)
    /\ UNCHANGED <<lines, waiting, given>>

\* With the lines ls and the readers rs: the last reader is served.
Serve(ls, rs) ==
    IF ls = <<>> \/ rs = <<>>
    THEN lines' = ls /\ waiting' = rs /\ UNCHANGED given
    ELSE LET line == Head(ls)
             n == IF Head(rs).length < Len(line) THEN Head(rs).length ELSE Len(line)
             rest == SubSeq(line, n + 1, Len(line))
         IN  /\ given' = [given EXCEPT ![Head(rs).pid] = SubSeq(line, 1, n)]
             /\ lines' = IF rest = <<>> THEN Tail(ls) ELSE <<rest>> \o Tail(ls)
             /\ waiting' = Tail(rs)

Finish ==
    /\ Serve(Append(lines, before \o after \o <<End>>), waiting)
    /\ before' = <<>> /\ after' = <<>>

Waits(p) == \E k \in 1 .. Len(waiting) : waiting[k].pid = p

Read(p, n) ==
    /\ ~Waits(p)
    /\ Serve(lines, <<[pid |-> p, length |-> n]>> \o waiting)
    /\ UNCHANGED <<before, after>>

TermNext == Edit \/ Finish \/ \E p \in Readers, n \in Lengths : Read(p, n)

TermSpec == TermInit /\ [][TermNext]_termVars
=============================================================================
