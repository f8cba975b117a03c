-------------------------------- MODULE Tty --------------------------------
(***************************************************************************)
(* The terminal driver of kernel/drivers/tty.c with its screen (module     *)
(* Console): a thread that handles one message after another, the scan     *)
(* codes of the keyboard and the reads and writes of processes, in the     *)
(* order in which they reach its mailbox.  One action is one message.      *)
(***************************************************************************)
EXTENDS Console, FiniteSets

CONSTANTS
    Keyboard,       \* the scan codes of the keys that are used
    Processes,      \* the processes that read
    Lengths,        \* how much they ask for
    Numbers,        \* what is printed with printf("%d", n)
    NInput,         \* NR_INPUT_BUF
    NOutput,        \* NR_OUTPUT_BUF
    NPool,          \* NR_INPUT_POOL
    MaxKeys,        \* bound on the scan codes of a run
    MaxWrites       \* bound on the writes of a run

VARIABLES
    shift_level, caps_on,                     \* get_ascii
    input_buffer, input_length, cursor_pos,   \* the line that is edited
    dirty,                                    \* output came after it
    input_pool, f, r,                         \* the ring of finished lines
    stack,          \* the waiting readers, top first
    got,            \* got[p]: the bytes p has read last
    screen,         \* vmem, x and y of console.c
    down,           \* the shift and caps keys that are held
    keys, writes    \* the scan codes and the writes so far

line == <<input_buffer, input_length, cursor_pos, dirty>>
pool == <<input_pool, f, r, stack, got>>
vars == <<shift_level, caps_on, line, pool, screen, down, keys, writes>>

\* An input line needs fewer rows than the screen has: 4 of 25.  There are
\* NR_PROCESS processes, a length is a uint_32 and a number an int.
ASSUME InputAssumption ==
    /\ {NInput, NOutput, NPool} \subseteq Nat \ {0}
    /\ (Columns - 1 + NInput) \div Columns < Rows
    /\ IsFiniteSet(Processes) /\ Lengths \subseteq Nat /\ Numbers \subseteq Int

\* tty.h; the code of a release is that of the key and 128.
BACK == 14
ENTER == 28
KEY_LEFT == 75
KEY_RIGHT == 77
LSHIFT == 42
RSHIFT == 54
CAPS == 58
Up(key) == key + 128

\* key_maps, with a letter and a digit for all.
KeyMaps == <<[code \in {2, 30} |-> IF code = 2 THEN 49 ELSE 97],
             [code \in {2, 30} |-> IF code = 2 THEN 33 ELSE 65]>>

Chars == {KeyMaps[l][code] : l \in 1 .. 2, code \in DOMAIN KeyMaps[1]}

Held == {LSHIFT, RSHIFT, CAPS} \cap Keyboard

Codes == Keyboard \cup {Up(k) : k \in Held}

ASSUME KeyboardAssumption ==
    Keyboard \subseteq DOMAIN KeyMaps[1]
                         \cup {BACK, ENTER, KEY_LEFT, KEY_RIGHT, LSHIFT, RSHIFT, CAPS}

\* What a keyboard sends; a held shift or caps key does not repeat.
CanSend(code) ==
    /\ code \in Held => code \notin down
    /\ code - 128 \in Held => code - 128 \in down

Index == 0 .. NInput - 1
Ring == 0 .. NPool - 1

\* Types, and the limits of the buffers.
TtyTypeOK ==
    /\ shift_level \in Nat /\ caps_on \in BOOLEAN /\ dirty \in BOOLEAN
    /\ input_length \in Index /\ cursor_pos \in 0 .. input_length
    /\ input_buffer \in [Index -> Nat] /\ input_pool \in [Ring -> Nat]
    /\ f \in Ring /\ r \in Ring
    /\ screen \in Screens
    /\ Len(stack) <= Cardinality(Processes)
    /\ got \in [Processes -> Seq(Nat)] /\ \A p \in Processes : Len(got[p]) <= NInput

TtyInit ==
    /\ shift_level = 0 /\ caps_on = FALSE
    /\ input_buffer = [k \in Index |-> 0] /\ input_length = 0 /\ cursor_pos = 0
    /\ dirty = FALSE
    /\ input_pool = [k \in Ring |-> 0] /\ f = 0 /\ r = 0
    /\ stack = <<>>
    /\ got = [p \in Processes |-> <<>>]
    /\ screen = Blank
    /\ down = {} /\ keys = 0 /\ writes = 0
-----------------------------------------------------------------------------
(***************************************************************************)
(* get_ascii                                                               *)
(***************************************************************************)
\* A fault of Shift: every release gives a level back.
ShiftLoose(code) ==
    CASE code \in {LSHIFT, RSHIFT} -> shift_level + 1
      [] code > 128 -> shift_level - 1
      [] OTHER -> shift_level

Shift(code) ==
    CASE code \in {LSHIFT, RSHIFT} -> shift_level + 1
      [] code \in {Up(LSHIFT), Up(RSHIFT)} -> shift_level - 1
      [] OTHER -> shift_level

Caps(code) == CASE code = CAPS -> TRUE [] code = Up(CAPS) -> FALSE [] OTHER -> caps_on

IsLetter(code) == KeyMaps[1][code] \in 97 .. 122

Ascii(code) ==
    LET upper == (shift_level > 0) # (caps_on /\ IsLetter(code))
    IN  KeyMaps[IF upper THEN 2 ELSE 1][code]

(***************************************************************************)
(* The line, and the screen after update_input has printed it again.       *)
(***************************************************************************)
Line == [k \in 1 .. input_length |-> input_buffer[k - 1]]

LineFrom(k) == SubSeq(Line, k + 1, input_length)

\* A fault of Updated: the cursor stays at the end of the line.
UpdatedAtEnd == IF dirty THEN Prints(Printc(screen, NewLine), Line) ELSE screen

Updated ==
    IF dirty
    THEN CursorLeft(Prints(Printc(screen, NewLine), Line), input_length - cursor_pos)
    ELSE screen

(***************************************************************************)
(* canonic_mode_getch.  There is room for the line, its end and its 0:     *)
(* the code has no test.                                                   *)
(***************************************************************************)
FitsLine == input_length + 2 < NInput

Inserted(ch) ==
    [k \in Index |-> CASE k = cursor_pos -> ch
                       [] k \in cursor_pos + 1 .. input_length -> input_buffer[k - 1]
                       [] k = input_length + 1 -> 0
                       [] OTHER -> input_buffer[k]]

TypeChar(ch) ==
    /\ FitsLine
    /\ input_buffer' = Inserted(ch)
    /\ input_length' = input_length + 1
    /\ cursor_pos' = cursor_pos + 1
    /\ screen' = CursorLeft(Prints(Printc(Updated, ch), LineFrom(cursor_pos)),
                            input_length - cursor_pos)
    /\ UNCHANGED pool

\* BACK takes the character left of the cursor, and prints the rest.
Backspace ==
    /\ IF cursor_pos > 0
       THEN /\ input_buffer' = [k \in Index |-> IF k \in cursor_pos - 1 .. input_length - 1
                                                THEN input_buffer[k + 1] ELSE input_buffer[k]]
            /\ input_length' = input_length - 1
            /\ cursor_pos' = cursor_pos - 1
            /\ screen' = CursorLeft(
                  Prints(CursorLeft(Updated, 1), Append(LineFrom(cursor_pos), Space)),
                  input_length - cursor_pos + 1)
       ELSE screen' = Updated /\ UNCHANGED <<input_buffer, input_length, cursor_pos>>
    /\ UNCHANGED pool

MoveLeft ==
    /\ IF cursor_pos > 0
       THEN cursor_pos' = cursor_pos - 1 /\ screen' = CursorLeft(Updated, 1)
       ELSE screen' = Updated /\ UNCHANGED cursor_pos
    /\ UNCHANGED <<input_buffer, input_length, pool>>

MoveRight ==
    /\ IF cursor_pos < input_length
       THEN cursor_pos' = cursor_pos + 1 /\ screen' = CursorRight(Updated, 1)
       ELSE screen' = Updated /\ UNCHANGED cursor_pos
    /\ UNCHANGED <<input_buffer, input_length, pool>>

(***************************************************************************)
(* canonic_wakeup_read, for the ring ip up to rr and the readers st.  The  *)
(* 0 behind a line that was read to its end is skipped.                    *)
(***************************************************************************)
\* How many bytes the reader is given.
NRead(ip, length) ==
    CHOOSE n \in 0 .. length :
       /\ n = length \/ ip[(f + n) % NPool] = 0
       /\ \A k \in 0 .. n - 1 : ip[(f + k) % NPool] # 0

\* A fault of NextF: the 0 is not skipped.
NextFStays(ip, n) == (f + n) % NPool

NextF(ip, n) ==
    LET g == (f + n) % NPool IN IF ip[g] = 0 THEN (g + 1) % NPool ELSE g

WakeUpRead(ip, rr, st) ==
    /\ input_pool' = ip /\ r' = rr
    /\ IF st = <<>> \/ f = rr
       THEN stack' = st /\ UNCHANGED <<f, got>>
       ELSE LET n == NRead(ip, Head(st).length)
            IN  /\ got' = [got EXCEPT ![Head(st).pid] =
                              [k \in 1 .. n |-> ip[(f + k - 1) % NPool]]]
                /\ f' = NextF(ip, n)
                /\ stack' = Tail(st)

\* There is room in the ring: the code has no test, and f = r is empty.
Unread == (r - f) % NPool

FitsPool == Unread + input_length + 2 < NPool

\* The line goes to the ring with its end and a 0.
Enter ==
    /\ FitsPool
    /\ LET bytes == Line \o <<NewLine, 0>>
       IN  WakeUpRead([k \in Ring |-> LET j == ((k - r) % NPool) + 1
                                      IN  IF j <= Len(bytes) THEN bytes[j] ELSE input_pool[k]],
                      (r + Len(bytes)) % NPool, stack)
    /\ screen' = Printc(Updated, NewLine)
    /\ input_buffer' = [input_buffer EXCEPT ![input_length] = NewLine,
                                            ![input_length + 1] = 0, ![0] = 0]
    /\ input_length' = 0
    /\ cursor_pos' = 0

NoEffect == screen' = Updated /\ UNCHANGED <<input_buffer, input_length, cursor_pos, pool>>

Getch(code) ==
    /\ keys < MaxKeys /\ CanSend(code)
    /\ shift_level' = Shift(code)
    /\ caps_on' = Caps(code)
    /\ CASE code \in DOMAIN KeyMaps[1] -> TypeChar(Ascii(code))
         [] code = BACK -> Backspace
         [] code = KEY_LEFT -> MoveLeft
         [] code = KEY_RIGHT -> MoveRight
         [] code = ENTER -> Enter
         [] OTHER -> NoEffect
    /\ dirty' = FALSE
    /\ down' = IF code \in Held THEN down \cup {code} ELSE down \ {code - 128}
    /\ keys' = keys + 1
    /\ UNCHANGED writes
-----------------------------------------------------------------------------
(***************************************************************************)
(* DEV_READ: the reader is pushed, and served if there is a line.          *)
(***************************************************************************)
Waiting(p) == \E k \in 1 .. Len(stack) : stack[k].pid = p

Read(p, n) ==
    /\ ~Waiting(p)
    /\ WakeUpRead(input_pool, r, <<[pid |-> p, length |-> n]>> \o stack)
    /\ UNCHANGED <<shift_level, caps_on, line, screen, down, keys, writes>>

(***************************************************************************)
(* DEV_WRITE of what printf("%d", n) makes: canonic_mode_write prints it   *)
(* in parts of the size of output_buffer.                                  *)
(***************************************************************************)
\* A fault of Part: the rest that fills less than a buffer is left out.
PartWhole(chars, k) ==
    IF k * NOutput > Len(chars) THEN <<>> ELSE SubSeq(chars, (k - 1) * NOutput + 1, k * NOutput)

Part(chars, k) ==
    SubSeq(chars, (k - 1) * NOutput + 1, IF k * NOutput < Len(chars) THEN k * NOutput ELSE Len(chars))

Parts(chars) == FlattenSeq([k \in 1 .. (Len(chars) + NOutput - 1) \div NOutput |-> Part(chars, k)])

Write(n) ==
    /\ writes < MaxWrites
    /\ screen' = Prints(screen, Parts(Decimal(n)))
    /\ dirty' = (dirty \/ input_length # 0)
    /\ writes' = writes + 1
    /\ UNCHANGED <<shift_level, caps_on, input_buffer, input_length, cursor_pos, pool, down, keys>>

TtyNext ==
    \/ \E code \in Codes : Getch(code)
    \/ \E p \in Processes, n \in Lengths : Read(p, n)
    \/ \E n \in Numbers : Write(n)

TtySpec == TtyInit /\ [][TtyNext]_vars
-----------------------------------------------------------------------------
(***************************************************************************)
(* While no output has come behind it, the line is on the screen as it is  *)
(* in the buffer, around the cursor, also over the ends of rows and after  *)
(* the screen has scrolled under it.                                       *)
(***************************************************************************)
ScreenShowsInput ==
    ~dirty =>
       LET begin == Cursor(screen) - cursor_pos
       IN  \A k \in 0 .. input_length - 1 :
              begin + k \in Cells /\ screen.cell[begin + k] = input_buffer[k]

(***************************************************************************)
(* What printf and the terminal make of a number is the number: read back  *)
(* from the cells in front of the cursor it has the same value.            *)
(***************************************************************************)
Power10[k \in Nat] == IF k = 0 THEN 1 ELSE 10 * Power10[k - 1]

ShownAbove(s, k) ==
    FoldLeftDomain(LAMBDA v, j : v + (s.cell[Cursor(s) - j] - 48) * Power10[j - 1],
                   0, [j \in 1 .. k |-> j])

NumberShown ==
    [][\A n \in Numbers : Write(n) =>
          LET digits == CHOOSE k \in 1 .. 10 :
                 (n < 0 => -n < Power10[k]) /\ (n >= 0 => n < Power10[k])
                   /\ (k > 1 => \/ n >= Power10[k - 1] \/ -n >= Power10[k - 1])
          IN  IF n < 0
              THEN /\ ShownAbove(screen', digits) = -n
                   /\ screen'.cell[Cursor(screen') - digits - 1] = Minus
              ELSE ShownAbove(screen', digits) = n]_vars

(***************************************************************************)
(* The bytes of the ring that are unread, u, cut at their zeros: ZeroAt is *)
(* where the k-th of them is.                                              *)
(***************************************************************************)
UnreadBytes == [k \in 1 .. Unread |-> input_pool[(f + k - 1) % NPool]]

Zeros(u) == {k \in 1 .. Len(u) : u[k] = 0}

ZeroAt(u, k) ==
    IF k = 0 THEN 0 ELSE CHOOSE q \in Zeros(u) : Cardinality({z \in Zeros(u) : z <= q}) = k

WholeLines(u) ==
    LET n == Cardinality(Zeros(u))
    IN  /\ Zeros(u) = {ZeroAt(u, k) : k \in 1 .. n}
        /\ ZeroAt(u, n) = Len(u)
        /\ \A k \in 1 .. n : ZeroAt(u, k) - ZeroAt(u, k - 1) \in 2 .. NInput + 1

Lines(u) == [k \in 1 .. Cardinality(Zeros(u)) |-> SubSeq(u, ZeroAt(u, k - 1) + 1, ZeroAt(u, k) - 1)]

(***************************************************************************)
(* The inductive invariant.  The unread bytes are whole lines, each with a *)
(* 0 behind it, so that a reader never runs past its line nor into bytes   *)
(* that were read; a shift key counts while it is held; and there is room  *)
(* on the screen from the first character of the line to its end.          *)
(***************************************************************************)
RingHoldsLines == WholeLines(UnreadBytes)

LevelCounts == down \subseteq Held /\ shift_level = Cardinality(down \cap {LSHIFT, RSHIFT})

WaitOnce ==
    /\ stack \in Seq([pid : Processes, length : Lengths])
    /\ \A i, j \in 1 .. Len(stack) : stack[i].pid = stack[j].pid => i = j

LineTyped == \A k \in 0 .. input_length - 1 : input_buffer[k] \in Chars

LineInCells ==
    ~dirty => {Cursor(screen) - cursor_pos, Cursor(screen) - cursor_pos + input_length}
                 \subseteq Cells

TtyInv == /\ TtyTypeOK /\ RingHoldsLines /\ LevelCounts /\ WaitOnce /\ LineTyped
          /\ LineInCells /\ ScreenShowsInput

(***************************************************************************)
(* The driver implements Terminal: the line as its two sides, and the ring *)
(* cut at its zeros.                                                       *)
(***************************************************************************)
Term == INSTANCE Terminal WITH
    Readers <- Processes,
    Chars <- Chars,
    End <- NewLine,
    before <- SubSeq(Line, 1, cursor_pos),
    after <- LineFrom(cursor_pos),
    lines <- Lines(UnreadBytes),
    waiting <- stack,
    given <- got

ImplementsTerminal == Term!TermSpec
=============================================================================
