------------------------------ MODULE MCPages ------------------------------
(***************************************************************************)
(* Instances of Pages for TLC: two page tables of three pages each for     *)
(* user space, pages of four bytes.                                         *)
(***************************************************************************)
EXTENDS Pages

\* A part of one page; data over the border of two tables, with a rest that
\* the file does not have, and a segment without bytes in the file; and a
\* text segment of exactly one page, followed by another segment.
Programs3 ==
    {<<[va |-> 5, memsz |-> 3, off |-> 10, filesz |-> 3]>>,
     <<[va |-> 8, memsz |-> 7, off |-> 20, filesz |-> 6],
       [va |-> 0, memsz |-> 1, off |-> 30, filesz |-> 0]>>,
     <<[va |-> 0, memsz |-> 4, off |-> 40, filesz |-> 4],
       [va |-> 4, memsz |-> 1, off |-> 50, filesz |-> 1]>>}
=============================================================================
