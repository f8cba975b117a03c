------------------------------- MODULE MCTty -------------------------------
(***************************************************************************)
(* An instance of Tty for TLC: a screen of four rows of two characters,   *)
(* on which every line wraps and soon scrolls, a ring that two lines go    *)
(* round, output in parts of two characters, and numbers with a zero       *)
(* inside, a sign, one digit, and parts that are full and not.             *)
(***************************************************************************)
EXTENDS Tty

SomeNumbers == {0, -30}
=============================================================================
