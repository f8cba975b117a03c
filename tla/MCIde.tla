------------------------------- MODULE MCIde -------------------------------
(***************************************************************************)
(* Instances of Ide for TLC: sectors of two bytes, the kernel in sector 0  *)
(* and three files of a sector each, a cache of two slots; sectors 1 and 3 *)
(* have the same slot.                                                     *)
(***************************************************************************)
EXTENDS Ide

DiskContents == [a \in 0 .. 7 |-> 10 + a]

Request(op, file, offset, length, data) ==
    [op |-> op, file |-> file, offset |-> offset, length |-> length, data |-> data]

\* Two files that share a slot, and a range of two sectors of both slots,
\* read and written, and a part of a sector.
MixedRequests ==
    {Request("file", 1, 0, 2, 0), Request("file", 3, 1, 1, 0), Request("read", 1, 1, 2, 0),
     Request("write", 1, 3, 2, 90), Request("write", 1, 0, 1, 91)}

\* What Exec_uthread of pm.c asks when it executes the second file: its
\* header, and its segment.
ExecRequests == {Request("file", 2, 0, 1, 0), Request("read", 2, 1, 1, 0)}
=============================================================================
