------------------------------ MODULE Console ------------------------------
(***************************************************************************)
(* The screen of kernel/console.c and the formats of kernel/vfprintf.c and *)
(* printf of lib/oslib.c.  A screen is a record of the cursor's row x and  *)
(* column y and of the characters in its cells; colours are left out, and  *)
(* a character is its code.                                                *)
(***************************************************************************)
EXTENDS Integers, SequencesExt

CONSTANTS Rows, Columns     \* CRT_ROW and CRT_COLUMN

ASSUME ScreenAssumption == {Rows, Columns} \subseteq Nat \ {0}

Space == 32
NewLine == 10
Minus == 45

Cells == 0 .. Rows * Columns - 1

Screens == [x : 0 .. Rows - 1, y : 0 .. Columns - 1, cell : [Cells -> Nat]]

\* init_screen
Blank == [x |-> 0, y |-> 0, cell |-> [c \in Cells |-> Space]]

Cursor(s) == s.x * Columns + s.y

MoveTo(s, c) == [s EXCEPT !.x = c \div Columns, !.y = c % Columns]

\* cursor_left and cursor_right: count steps, over the ends of the rows.
CursorLeft(s, count) == MoveTo(s, Cursor(s) - count)

CursorRight(s, count) == MoveTo(s, Cursor(s) + count)

\* wrap_screen, when the bottom is touched.
Scrolled(s) ==
    IF s.x < Rows THEN s
    ELSE [x |-> Rows - 1, y |-> s.y,
          cell |-> [c \in Cells |-> IF c + Columns \in Cells THEN s.cell[c + Columns] ELSE Space]]

\* color_console_printc
Printc(s, ch) ==
    Scrolled(IF ch = NewLine THEN [s EXCEPT !.x = @ + 1, !.y = 0]
             ELSE MoveTo([s EXCEPT !.cell[Cursor(s)] = ch], Cursor(s) + 1))

Prints(s, chars) ==
    LET printed[k \in 0 .. Len(chars)] ==
          IF k = 0 THEN s ELSE Printc(printed[k - 1], chars[k])
    IN  printed[Len(chars)]

(***************************************************************************)
(* %d: the digits of the absolute value, from behind, behind the sign.     *)
(* The least number has no absolute value in 32 bits.                      *)
(***************************************************************************)
Temp(n) ==
    LET digits[k \in 0 .. n] == IF k = 0 THEN <<>> ELSE Append(digits[k \div 10], k % 10)
    IN  digits[n]

Decimal(n) ==
    LET abs == IF n < 0 THEN -n ELSE n
        chars == IF n = 0 THEN <<48>> ELSE [k \in 1 .. Len(Temp(abs)) |-> Temp(abs)[k] + 48]
    IN  IF n < 0 THEN <<Minus>> \o chars ELSE chars
=============================================================================
