-------------------------------- MODULE MCPm --------------------------------
(***************************************************************************)
(* Instances of Pm for TLC: letters are 1 and 2.                           *)
(***************************************************************************)
EXTENDS Pm

\* Two strings of different lengths; letters as in new memory.
OneList == {<<<<2, 1>>, <<1>>>>}
=============================================================================
