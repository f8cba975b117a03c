----------------------------- MODULE TtyProofs -----------------------------
(***************************************************************************)
(* Proofs about Tty, for any keyboard, any number of readers, any size of  *)
(* its buffers and any screen on which a line of input fits.               *)
(***************************************************************************)
EXTENDS Tty, ListProofs

(***************************************************************************)
(* The screen: where the cursor is, and where it goes.                     *)
(***************************************************************************)
LEMMA ScreenSize ==
    /\ Rows \in Nat \ {0} /\ Columns \in Nat \ {0}
    /\ Rows * Columns \in Nat \ {0} /\ (Rows - 1) * Columns \in Nat
    /\ (Rows - 1) * Columns + Columns = Rows * Columns
<1>1. Rows \in Nat \ {0} /\ Columns \in Nat \ {0}
  BY ScreenAssumption
<1>2. (Rows - 1) * Columns = Rows * Columns - Columns
  BY <1>1
<1>3. (Rows - 1) * Columns \in Nat
  <2>1. Rows - 1 \in Nat /\ Columns \in Nat
    BY <1>1
  <2> QED
    BY <2>1
<1> QED
  BY <1>1, <1>2, <1>3

LEMMA PlaceInCells ==
    ASSUME NEW x \in 0 .. Rows - 1, NEW y \in 0 .. Columns - 1
    PROVE  x * Columns + y \in Cells /\ x * Columns \in Nat
<1> DEFINE a == x * Columns  b == Rows * Columns
<1>1. x \in Nat /\ Rows \in Nat /\ Columns \in Nat \ {0} /\ x < Rows
  BY ScreenSize
<1>2. a + Columns <= b /\ a \in Nat /\ b \in Nat
  BY <1>1, Scaled
<1> HIDE DEF a, b
<1>3. a + y \in 0 .. b - 1
  BY <1>1, <1>2
<1> QED
  BY <1>2, <1>3 DEF a, b, Cells

LEMMA CursorFacts ==
    ASSUME NEW s \in Screens
    PROVE  /\ s.x \in 0 .. Rows - 1 /\ s.y \in 0 .. Columns - 1
           /\ s.cell \in [Cells -> Nat] /\ s = [x |-> s.x, y |-> s.y, cell |-> s.cell]
           /\ Cursor(s) \in Cells /\ Cursor(s) = s.x * Columns + s.y
<1>1. s.x \in 0 .. Rows - 1 /\ s.y \in 0 .. Columns - 1 /\ s.cell \in [Cells -> Nat]
      /\ s = [x |-> s.x, y |-> s.y, cell |-> s.cell]
  BY DEF Screens
<1> QED
  BY <1>1, PlaceInCells DEF Cursor

LEMMA CellsAreNat == \A c \in Cells : c \in Nat /\ c < Rows * Columns
BY ScreenSize DEF Cells

\* A place is in a row of the screen.
LEMMA RowOf ==
    ASSUME NEW c \in Cells
    PROVE  /\ c \div Columns \in 0 .. Rows - 1 /\ c % Columns \in 0 .. Columns - 1
           /\ (c \div Columns) * Columns + (c % Columns) = c
<1> DEFINE q == c \div Columns  m == c % Columns
<1>1. Columns \in Nat \ {0} /\ Rows \in Nat /\ c \in Nat /\ c < Rows * Columns
  BY ScreenSize, CellsAreNat
<1>2. q \in Nat /\ m \in 0 .. Columns - 1 /\ c = q * Columns + m
  BY <1>1, Quotient
<1> HIDE DEF q, m
<1>3. q < Rows
  <2> SUFFICES ASSUME ~(q < Rows) PROVE FALSE
    OBVIOUS
  <2>1. Rows * Columns <= q * Columns
    <3>1. (q - Rows) * Columns >= 0
      BY <1>1, <1>2
    <3>2. (q - Rows) * Columns = q * Columns - Rows * Columns
      BY <1>1, <1>2
    <3> DEFINE a == q * Columns  b == Rows * Columns
    <3>3. a \in Int /\ b \in Int
      BY <1>1, <1>2
    <3> QED
      BY <3>1, <3>2, <3>3
  <2> DEFINE a == q * Columns  b == Rows * Columns
  <2>2. a \in Int /\ b \in Int /\ b <= a /\ c = a + m /\ c < b
    BY <1>1, <1>2, <2>1
  <2> HIDE DEF a, b
  <2> QED
    BY <1>1, <1>2, <2>2
<1> QED
  BY <1>1, <1>2, <1>3 DEF q, m

LEMMA MoveToFacts ==
    ASSUME NEW s \in Screens, NEW c \in Cells
    PROVE  /\ MoveTo(s, c) \in Screens /\ MoveTo(s, c).cell = s.cell
           /\ Cursor(MoveTo(s, c)) = c
<1> DEFINE u == [x |-> c \div Columns, y |-> c % Columns, cell |-> s.cell]
<1>1. MoveTo(s, c) = u
  <2>1. MoveTo(s, c) \in Screens /\ MoveTo(s, c).x = c \div Columns
        /\ MoveTo(s, c).y = c % Columns /\ MoveTo(s, c).cell = s.cell
    BY RowOf DEF MoveTo, Screens
  <2> QED
    BY <2>1, CursorFacts
<1>2. u.x \in 0 .. Rows - 1 /\ u.y \in 0 .. Columns - 1 /\ u.cell \in [Cells -> Nat]
  BY RowOf, CursorFacts
<1>3. u \in Screens
  BY <1>2 DEF Screens
<1>4. Cursor(u) = c
  BY RowOf DEF Cursor
<1> QED
  BY <1>1, <1>3, <1>4

(***************************************************************************)
(* A character is printed: the cursor goes on, and where the screen is     *)
(* full all rows go up by one.                                             *)
(***************************************************************************)
\* The cells before the cursor of s are d cells further up in u.
Kept(s, u, d) == \A c \in 0 .. Cursor(s) - 1 : d <= c => u.cell[c - d] = s.cell[c]

LEMMA WrittenCell ==
    ASSUME NEW s \in Screens, NEW ch \in Nat
    PROVE  /\ [s EXCEPT !.cell[Cursor(s)] = ch] \in Screens
           /\ Cursor([s EXCEPT !.cell[Cursor(s)] = ch]) = Cursor(s)
           /\ [s EXCEPT !.cell[Cursor(s)] = ch].cell = [s.cell EXCEPT ![Cursor(s)] = ch]
<1> DEFINE c == Cursor(s)
           w == [s EXCEPT !.cell[c] = ch]
<1>1. c \in Cells
  BY CursorFacts
<1>2. c = s.x * Columns + s.y
  BY DEF Cursor
<1> HIDE DEF c
<1>3. w \in Screens /\ w.x = s.x /\ w.y = s.y /\ w.cell = [s.cell EXCEPT ![c] = ch]
  BY <1>1 DEF Screens
<1> HIDE DEF w
<1>4. Cursor(w) = c
  BY <1>2, <1>3 DEF Cursor
<1> QED
  BY <1>3, <1>4 DEF w, c

LEMMA FullScreen ==
    ASSUME NEW s \in Screens, Cursor(s) + 1 \notin Cells
    PROVE  /\ Cursor(s) + 1 = Rows * Columns
           /\ Scrolled(MoveTo(s, Cursor(s) + 1)) \in Screens
           /\ Cursor(Scrolled(MoveTo(s, Cursor(s) + 1))) = (Rows - 1) * Columns
           /\ \A c \in Cells : c + Columns \in Cells =>
                 Scrolled(MoveTo(s, Cursor(s) + 1)).cell[c] = s.cell[c + Columns]
<1> DEFINE n == Rows * Columns
           cell == [c \in Cells |-> IF c + Columns \in Cells THEN s.cell[c + Columns] ELSE Space]
           u == [x |-> Rows - 1, y |-> 0, cell |-> cell]
<1>1. Cursor(s) + 1 = n
  <2>1. Cursor(s) \in Cells /\ n \in Nat
    BY CursorFacts, ScreenSize
  <2> DEFINE c == Cursor(s)
  <2>2. c \in 0 .. n - 1 /\ c + 1 \notin 0 .. n - 1
    BY <2>1 DEF Cells
  <2> HIDE DEF c, n
  <2>3. c + 1 = n
    BY <2>1, <2>2
  <2> QED
    BY <2>3 DEF c
<1>2. n \div Columns = Rows /\ n % Columns = 0
  <2>1. Columns \in Nat \ {0} /\ Rows \in Nat /\ 0 \in 0 .. Columns - 1 /\ n + 0 = n
    BY ScreenSize
  <2>2. (n + 0) \div Columns = Rows /\ (n + 0) % Columns = 0
    BY <2>1, Division
  <2> QED
    BY <2>1, <2>2
<1> DEFINE v == MoveTo(s, n)
<1>3. v.x = Rows /\ v.y = 0 /\ v.cell = s.cell
  <2> HIDE DEF n
  <2>1. v = [s EXCEPT !.x = Rows, !.y = 0]
    BY <1>2 DEF MoveTo
  <2> HIDE DEF v
  <2> QED
    BY <2>1 DEF Screens
<1> HIDE DEF v
<1>4. Scrolled(v) = u
  BY <1>3, ScreenSize DEF Scrolled
<1>5. u \in Screens /\ Cursor(u) = (Rows - 1) * Columns
  <2>1. Rows - 1 \in 0 .. Rows - 1 /\ 0 \in 0 .. Columns - 1 /\ (Rows - 1) * Columns \in Nat
    BY ScreenSize
  <2>2. \A c \in Cells : cell[c] \in Nat
    BY CursorFacts DEF Space
  <2>3. cell \in [Cells -> Nat]
    BY <2>2
  <2> HIDE DEF cell
  <2>4. u \in Screens
    BY <2>1, <2>3 DEF Screens
  <2>5. Cursor(u) = (Rows - 1) * Columns + 0
    BY DEF Cursor
  <2> QED
    BY <2>1, <2>4, <2>5
<1>6. \A c \in Cells : c + Columns \in Cells => u.cell[c] = s.cell[c + Columns]
  OBVIOUS
<1> HIDE DEF u
<1> QED
  BY <1>1, <1>4, <1>5, <1>6 DEF v

\* u is s with ch behind it.
OneFurther(s, u, ch) ==
    \E d \in Nat : /\ Cursor(u) = Cursor(s) + 1 - d
                   /\ d = 0 \/ (Rows - 1) * Columns <= Cursor(u)
                   /\ Kept(s, u, d)
                   /\ d <= Cursor(s) => u.cell[Cursor(s) - d] = ch

LEMMA PrintcFacts ==
    ASSUME NEW s \in Screens, NEW ch \in Nat \ {NewLine}, NEW u, u = Printc(s, ch)
    PROVE  u \in Screens /\ OneFurther(s, u, ch)
<1> DEFINE c == Cursor(s)
           w == [s EXCEPT !.cell[c] = ch]
<1>1. w \in Screens /\ Cursor(w) = c /\ w.cell = [s.cell EXCEPT ![c] = ch]
  BY WrittenCell
<1>2. u = Scrolled(MoveTo(w, c + 1))
  BY DEF Printc
<1>3. c \in Cells /\ c \in Nat /\ s.cell \in [Cells -> Nat]
  BY CursorFacts, CellsAreNat
<1> HIDE DEF w, c
<1>4. w.cell[c] = ch /\ \A k \in Cells \ {c} : w.cell[k] = s.cell[k]
  BY <1>1, <1>3
<1>5. \A k \in 0 .. c - 1 : k \in Cells /\ k # c
  <2>1. c < Rows * Columns /\ Rows * Columns \in Nat
    BY <1>3, CellsAreNat, ScreenSize
  <2> DEFINE n == Rows * Columns
  <2> HIDE DEF n
  <2>2. \A k \in 0 .. c - 1 : k \in 0 .. n - 1 /\ k # c
    BY <1>3, <2>1 DEF n
  <2> QED
    BY <2>2 DEF n, Cells
<1>6. CASE c + 1 \in Cells
  <2> DEFINE v == MoveTo(w, c + 1)
  <2>1. v \in Screens /\ v.cell = w.cell /\ Cursor(v) = c + 1
    BY <1>1, <1>6, MoveToFacts
  <2> HIDE DEF v
  <2>2. u = v
    <3>1. v.x < Rows
      BY <2>1, CursorFacts, ScreenSize
    <3> QED
      BY <1>2, <3>1 DEF v, Scrolled
  <2>3. Kept(s, u, 0)
    <3>1. \A k \in 0 .. c - 1 : u.cell[k - 0] = s.cell[k]
      BY <1>4, <1>5, <2>1, <2>2
    <3> QED
      BY <3>1 DEF Kept, c
  <2>4. u.cell[c - 0] = ch /\ Cursor(u) = c + 1 - 0
    BY <1>3, <1>4, <2>1, <2>2
  <2> QED
    BY <2>1, <2>2, <2>3, <2>4 DEF c, OneFurther
<1>7. CASE c + 1 \notin Cells
  <2>1. /\ c + 1 = Rows * Columns
        /\ u \in Screens /\ Cursor(u) = (Rows - 1) * Columns
        /\ \A k \in Cells : k + Columns \in Cells => u.cell[k] = w.cell[k + Columns]
    <3>1. w \in Screens /\ Cursor(w) + 1 \notin Cells
      BY <1>1, <1>7
    <3> QED
      BY <1>1, <1>2, <3>1, FullScreen
  <2>2. Columns \in Nat /\ (Rows - 1) * Columns \in Nat /\ Cursor(u) = c + 1 - Columns
    <3> DEFINE a == (Rows - 1) * Columns
    <3>1. Columns \in Nat /\ a \in Nat /\ a + Columns = c + 1
      BY <2>1, ScreenSize
    <3> HIDE DEF a
    <3>2. a = c + 1 - Columns
      BY <1>3, <3>1
    <3> QED
      BY <2>1, <3>1, <3>2 DEF a
  <2>3. \A k \in Cells : Columns <= k => u.cell[k - Columns] = w.cell[k]
    <3> TAKE k \in Cells
    <3> HAVE Columns <= k
    <3> DEFINE n == Rows * Columns
    <3>1. k \in 0 .. n - 1 /\ n \in Nat /\ Columns \in Nat
      BY ScreenSize DEF Cells
    <3> HIDE DEF n
    <3>2. k - Columns \in 0 .. n - 1 /\ (k - Columns) + Columns = k
      BY <3>1
    <3>3. k - Columns \in Cells
      BY <3>2 DEF n, Cells
    <3> QED
      BY <2>1, <3>2, <3>3
  <2>4. Kept(s, u, Columns)
    <3>1. \A k \in 0 .. c - 1 : Columns <= k => u.cell[k - Columns] = s.cell[k]
      BY <1>4, <1>5, <2>3
    <3> QED
      BY <3>1 DEF Kept, c
  <2>5. Columns <= c => u.cell[c - Columns] = ch
    BY <1>3, <1>4, <2>3
  <2> QED
    BY <2>1, <2>2, <2>4, <2>5 DEF c, OneFurther
<1> QED
  BY <1>6, <1>7

LEMMA NewLineFacts ==
    ASSUME NEW s \in Screens
    PROVE  Printc(s, NewLine) \in Screens
<1> DEFINE v == [s EXCEPT !.x = @ + 1, !.y = 0]
<1>1. v.x = s.x + 1 /\ v.y = 0 /\ v.cell = s.cell
  BY DEF Screens
<1>2. Printc(s, NewLine) = Scrolled(v)
  BY DEF Printc
<1>3. CASE v.x < Rows
  <2>1. v \in Screens
    <3>1. s.x + 1 \in 0 .. Rows - 1 /\ 0 \in 0 .. Columns - 1
      BY <1>1, <1>3, ScreenSize, CursorFacts
    <3> QED
      BY <3>1 DEF Screens
  <2> QED
    BY <1>2, <1>3, <2>1 DEF Scrolled
<1>4. CASE ~(v.x < Rows)
  <2> DEFINE cell == [c \in Cells |-> IF c + Columns \in Cells THEN v.cell[c + Columns] ELSE Space]
             u == [x |-> Rows - 1, y |-> v.y, cell |-> cell]
  <2>1. Scrolled(v) = u
    BY <1>4 DEF Scrolled
  <2>2. \A c \in Cells : cell[c] \in Nat
    BY <1>1, CursorFacts DEF Space
  <2>3. cell \in [Cells -> Nat]
    BY <2>2
  <2> HIDE DEF cell
  <2>4. Rows - 1 \in 0 .. Rows - 1 /\ v.y \in 0 .. Columns - 1
    BY <1>1, ScreenSize
  <2> HIDE DEF v
  <2>5. u \in Screens
    BY <2>3, <2>4 DEF Screens
  <2> QED
    BY <1>2, <2>1, <2>5
<1> QED
  BY <1>3, <1>4

(***************************************************************************)
(* A text is printed, one character after the other.                       *)
(***************************************************************************)
\* u is s after the first k characters of t.
Advanced(s, u, t, k) ==
    \E d \in Nat :
       /\ Cursor(u) = Cursor(s) + k - d
       /\ d = 0 \/ (Rows - 1) * Columns <= Cursor(u)
       /\ Kept(s, u, d)
       /\ \A j \in 1 .. k : d <= Cursor(s) + j - 1 => u.cell[Cursor(s) + j - 1 - d] = t[j]

LEMMA AdvancesOne ==
    ASSUME NEW s \in Screens, NEW u \in Screens, NEW v, NEW t, NEW k \in Nat \ {0},
           t[k] \in Nat \ {NewLine}, Advanced(s, u, t, k - 1), v = Printc(u, t[k])
    PROVE  v \in Screens /\ Advanced(s, v, t, k)
<1> DEFINE a == Cursor(s)  b == Cursor(u)  c == Cursor(v)  low == (Rows - 1) * Columns
<1>1. PICK d \in Nat : /\ b = a + (k - 1) - d /\ (d = 0 \/ low <= b) /\ Kept(s, u, d)
                       /\ \A j \in 1 .. k - 1 : d <= a + j - 1 => u.cell[a + j - 1 - d] = t[j]
  BY DEF Advanced
<1>2. v \in Screens
  BY PrintcFacts
<1>3. PICK e \in Nat : /\ c = b + 1 - e /\ (e = 0 \/ low <= c) /\ Kept(u, v, e)
                       /\ e <= b => v.cell[b - e] = t[k]
  <2>1. OneFurther(u, v, t[k])
    BY PrintcFacts
  <2> QED
    BY <2>1 DEF OneFurther
<1>4. a \in Nat /\ b \in Nat /\ c \in Nat /\ low \in Nat
  BY <1>2, CursorFacts, CellsAreNat, ScreenSize
<1>5. (\A x \in 0 .. a - 1 : d <= x => u.cell[x - d] = s.cell[x])
      /\ (\A x \in 0 .. b - 1 : e <= x => v.cell[x - e] = u.cell[x])
  BY <1>1, <1>3 DEF Kept
<1> HIDE DEF a, b, c, low
<1>6. d + e \in Nat /\ c = a + k - (d + e)
  BY <1>1, <1>3, <1>4
<1>7. d + e = 0 \/ low <= c
  <2>1. CASE e = 0
    BY <1>1, <1>3, <1>4, <2>1
  <2> QED
    BY <1>3, <2>1
<1>8. \A x \in 0 .. a - 1 : d + e <= x => v.cell[x - (d + e)] = s.cell[x]
  <2> TAKE x \in 0 .. a - 1
  <2> HAVE d + e <= x
  <2>1. d <= x /\ x - d \in 0 .. b - 1 /\ e <= x - d /\ (x - d) - e = x - (d + e)
    BY <1>1, <1>4
  <2> QED
    BY <1>5, <2>1
<1>9. \A j \in 1 .. k : d + e <= a + j - 1 => v.cell[a + j - 1 - (d + e)] = t[j]
  <2> TAKE j \in 1 .. k
  <2> HAVE d + e <= a + j - 1
  <2>1. CASE j = k
    <3>1. e <= b /\ b - e = a + j - 1 - (d + e)
      BY <1>1, <1>4, <2>1
    <3> QED
      BY <1>3, <2>1, <3>1
  <2>2. CASE j # k
    <3> DEFINE y == a + j - 1 - d
    <3>1. /\ j \in 1 .. k - 1 /\ d <= a + j - 1 /\ y \in 0 .. b - 1 /\ e <= y
          /\ y - e = a + j - 1 - (d + e)
      BY <1>1, <1>4, <2>2
    <3>2. u.cell[y] = t[j]
      BY <1>1, <3>1
    <3> HIDE DEF y
    <3>3. v.cell[y - e] = u.cell[y]
      BY <1>5, <3>1
    <3> QED
      BY <3>1, <3>2, <3>3
  <2> QED
    BY <2>1, <2>2
<1>10. Advanced(s, v, t, k)
  <2> DEFINE g == d + e
  <2>1. Kept(s, v, g)
    BY <1>8 DEF Kept, a
  <2>2. /\ g \in Nat /\ c = a + k - g /\ (g = 0 \/ low <= c)
        /\ \A j \in 1 .. k : g <= a + j - 1 => v.cell[a + j - 1 - g] = t[j]
    BY <1>6, <1>7, <1>9
  <2> HIDE DEF g
  <2> QED
    BY <2>1, <2>2 DEF Advanced, a, c, low
<1> QED
  BY <1>2, <1>10

\* The function that Prints defines.
LEMMA PrintsFacts ==
    ASSUME NEW s \in Screens, NEW t \in Seq(Nat \ {NewLine})
    PROVE  Prints(s, t) \in Screens /\ Advanced(s, Prints(s, t), t, Len(t))
<1> DEFINE n == Len(t)
           Printed(g, k) == /\ DOMAIN g = 0 .. k
                            /\ \A i \in 0 .. k :
                                  g[i] = IF i = 0 THEN s ELSE Printc(g[i - 1], t[i])
           T == {k \in 0 .. n : \E g : Printed(g, k) /\ g = [i \in 0 .. k |-> g[i]]}
<1>1. n \in Nat /\ \A i \in 1 .. n : t[i] \in Nat \ {NewLine}
  BY LenProperties, ElementOfSeq
<1> HIDE DEF n
<1>2. 0 \in T
  <2> DEFINE g == [i \in 0 .. 0 |-> s]
  <2>1. Printed(g, 0) /\ g = [i \in 0 .. 0 |-> g[i]]
    OBVIOUS
  <2> HIDE DEF Printed, g
  <2> QED
    BY <1>1, <2>1
<1>3. ASSUME NEW k \in 1 .. n, k - 1 \in T PROVE k \in T
  <2>1. PICK g : Printed(g, k - 1)
    BY <1>3
  <2> DEFINE x == Printc(g[k - 1], t[k])
             h == [i \in 0 .. k |-> IF i = k THEN x ELSE g[i]]
  <2>2. \A i \in 0 .. k : h[i] = IF i = k THEN x ELSE g[i]
    OBVIOUS
  <2>3. x = Printc(g[k - 1], t[k])
    OBVIOUS
  <2>4. DOMAIN h = 0 .. k /\ h = [i \in 0 .. k |-> h[i]]
    OBVIOUS
  <2> HIDE DEF h, x
  <2>5. ASSUME NEW i \in 0 .. k
        PROVE  h[i] = IF i = 0 THEN s ELSE Printc(h[i - 1], t[i])
    <3>1. CASE i = k
      <4>1. k - 1 \in 0 .. k /\ k - 1 # k /\ i # 0
        BY <3>1
      <4>2. h[i - 1] = g[k - 1] /\ h[i] = x
        BY <2>2, <3>1, <4>1
      <4> QED
        BY <2>3, <3>1, <4>1, <4>2
    <3>2. CASE i # k
      <4>1. i \in 0 .. k - 1 /\ h[i] = g[i]
        BY <2>2, <3>2
      <4>2. i # 0 => i - 1 \in 0 .. k /\ i - 1 # k
        BY <4>1
      <4>3. i # 0 => h[i - 1] = g[i - 1]
        BY <2>2, <4>2
      <4>4. g[i] = IF i = 0 THEN s ELSE Printc(g[i - 1], t[i])
        BY <2>1, <4>1
      <4> QED
        BY <4>1, <4>3, <4>4
    <3> QED
      BY <3>1, <3>2
  <2>6. Printed(h, k)
    BY <2>4, <2>5
  <2>7. k \in 0 .. n
    OBVIOUS
  <2> HIDE DEF Printed
  <2> QED
    BY <2>4, <2>6, <2>7
<1>4. n \in T
  <2>1. 0 .. n \subseteq T
    <3> HIDE DEF T
    <3> QED
      BY <1>1, <1>2, <1>3, Counting
  <2>2. n \in 0 .. n
    BY <1>1
  <2> HIDE DEF T
  <2> QED
    BY <2>1, <2>2
<1>5. PICK g : Printed(g, n) /\ g = [i \in 0 .. n |-> g[i]]
  BY <1>4
<1> DEFINE printed[k \in 0 .. n] == IF k = 0 THEN s ELSE Printc(printed[k - 1], t[k])
<1>6. Prints(s, t) = printed[n]
  BY DEF Prints, n
<1>7. printed = CHOOSE h : h = [k \in 0 .. n |-> IF k = 0 THEN s ELSE Printc(h[k - 1], t[k])]
  OBVIOUS
<1> HIDE DEF printed
<1>8. g = [k \in 0 .. n |-> IF k = 0 THEN s ELSE Printc(g[k - 1], t[k])]
  BY <1>5
<1>9. printed = [k \in 0 .. n |-> IF k = 0 THEN s ELSE Printc(printed[k - 1], t[k])]
  BY ONLY <1>7, <1>8, Zenon
<1>10. \A k \in 0 .. n : printed[k] = IF k = 0 THEN s ELSE Printc(printed[k - 1], t[k])
  BY <1>9
<1> DEFINE U == {k \in 0 .. n : printed[k] \in Screens /\ Advanced(s, printed[k], t, k)}
<1>11. 0 \in U
  <2>1. printed[0] = s /\ 0 \in 0 .. n
    BY <1>1, <1>10
  <2>2. Cursor(s) \in Nat
    BY CursorFacts, CellsAreNat
  <2>3. Kept(s, s, 0)
    <3>1. \A c \in 0 .. Cursor(s) - 1 : c - 0 = c
      OBVIOUS
    <3> QED
      BY <3>1 DEF Kept
  <2>4. Advanced(s, s, t, 0)
    <3>1. 0 \in Nat /\ Cursor(s) = Cursor(s) + 0 - 0 /\ \A j \in 1 .. 0 : FALSE
      BY <2>2
    <3> QED
      BY <2>3, <3>1 DEF Advanced
  <2> QED
    BY <2>1, <2>4
<1>12. ASSUME NEW k \in 1 .. n, k - 1 \in U PROVE k \in U
  <2>1. k \in 0 .. n /\ k - 1 \in 0 .. n /\ k \in Nat \ {0}
    BY <1>1
  <2>2. printed[k] = Printc(printed[k - 1], t[k])
    BY <1>10, <2>1
  <2>3. printed[k] \in Screens /\ Advanced(s, printed[k], t, k)
    BY <1>1, <1>12, <2>1, <2>2, AdvancesOne
  <2> QED
    BY <2>1, <2>3
<1>13. n \in U
  <2>1. 0 .. n \subseteq U
    <3> HIDE DEF U
    <3> QED
      BY <1>1, <1>11, <1>12, Counting
  <2>2. n \in 0 .. n
    BY <1>1
  <2> HIDE DEF U
  <2> QED
    BY <2>1, <2>2
<1> QED
  BY <1>6, <1>13 DEF n

(***************************************************************************)
(* What is printed for a number is digits and a sign, whatever the parts   *)
(* it is written in.                                                       *)
(***************************************************************************)
\* g is what Temp defines, up to k.
Digits(g, k) ==
    \A i \in 0 .. k : g[i] = IF i = 0 THEN <<>> ELSE Append(g[i \div 10], i % 10)

LEMMA TempFacts ==
    ASSUME NEW n \in Nat
    PROVE  \E g \in [0 .. n -> Seq(0 .. 9)] : Temp(n) = g[n] /\ Digits(g, n)
<1> DEFINE T == {k \in 0 .. n : \E g \in [0 .. k -> Seq(0 .. 9)] : Digits(g, k)}
<1>1. 0 \in T
  <2> DEFINE g == [i \in 0 .. 0 |-> <<>>]
  <2>1. g \in [0 .. 0 -> Seq(0 .. 9)] /\ Digits(g, 0)
    BY DEF Digits
  <2> HIDE DEF g
  <2> QED
    BY <2>1
<1>2. ASSUME NEW k \in 1 .. n, k - 1 \in T PROVE k \in T
  <2>1. PICK g \in [0 .. k - 1 -> Seq(0 .. 9)] : Digits(g, k - 1)
    BY <1>2
  <2>2. \A i \in 1 .. k : i \div 10 \in 0 .. i - 1 /\ i % 10 \in 0 .. 9
    OBVIOUS
  <2> DEFINE x == Append(g[k \div 10], k % 10)
             h == [i \in 0 .. k |-> IF i = k THEN x ELSE g[i]]
  <2>3. x \in Seq(0 .. 9)
    <3>1. k \in 1 .. k
      OBVIOUS
    <3>2. g[k \div 10] \in Seq(0 .. 9) /\ k % 10 \in 0 .. 9
      BY <2>2, <3>1
    <3> QED
      BY <3>2, AppendProperties
  <2>4. x = Append(g[k \div 10], k % 10)
    OBVIOUS
  <2> HIDE DEF x
  <2>5. h \in [0 .. k -> Seq(0 .. 9)] /\ \A i \in 0 .. k : h[i] = IF i = k THEN x ELSE g[i]
    BY <2>3
  <2> HIDE DEF h
  <2>6. ASSUME NEW i \in 0 .. k
        PROVE  h[i] = IF i = 0 THEN <<>> ELSE Append(h[i \div 10], i % 10)
    <3>1. CASE i = 0
      <4>1. i # k /\ 0 \in 0 .. k - 1
        BY <3>1
      <4> QED
        BY <2>1, <2>5, <3>1, <4>1 DEF Digits
    <3>2. CASE i # 0
      <4>1. i \in 1 .. k
        BY <3>2
      <4>2. i \div 10 \in 0 .. i - 1
        BY <2>2, <4>1
      <4>3. i \div 10 \in 0 .. k /\ i \div 10 # k
        BY <4>2
      <4>4. h[i \div 10] = g[i \div 10]
        BY <2>5, <4>3
      <4>5. CASE i = k
        BY <2>4, <2>5, <3>2, <4>4, <4>5
      <4>6. CASE i # k
        <5>1. i \in 0 .. k - 1
          BY <4>6
        <5> QED
          BY <2>1, <2>5, <3>2, <4>4, <4>6, <5>1 DEF Digits
      <4> QED
        BY <4>5, <4>6
    <3> QED
      BY <3>1, <3>2
  <2>7. Digits(h, k)
    BY <2>6 DEF Digits
  <2>8. k \in 0 .. n
    OBVIOUS
  <2> QED
    BY <2>5, <2>7, <2>8
<1>3. n \in T
  <2>1. 0 .. n \subseteq T
    <3> HIDE DEF T
    <3> QED
      BY <1>1, <1>2, Counting
  <2>2. n \in 0 .. n
    OBVIOUS
  <2> HIDE DEF T
  <2> QED
    BY <2>1, <2>2
<1>4. PICK g \in [0 .. n -> Seq(0 .. 9)] : Digits(g, n)
  BY <1>3
<1> DEFINE digits[k \in 0 .. n] == IF k = 0 THEN <<>> ELSE Append(digits[k \div 10], k % 10)
<1>5. Temp(n) = digits[n]
  BY DEF Temp
<1>6. digits = CHOOSE h : h = [k \in 0 .. n |-> IF k = 0 THEN <<>>
                                               ELSE Append(h[k \div 10], k % 10)]
  OBVIOUS
<1> HIDE DEF digits
<1>7. g = [k \in 0 .. n |-> IF k = 0 THEN <<>> ELSE Append(g[k \div 10], k % 10)]
  BY <1>4 DEF Digits
<1>8. digits = [k \in 0 .. n |-> IF k = 0 THEN <<>> ELSE Append(digits[k \div 10], k % 10)]
  BY ONLY <1>6, <1>7, Zenon
<1>9. Digits(digits, n)
  BY <1>8 DEF Digits
<1> DEFINE U == {k \in 0 .. n : \A i \in 0 .. k : digits[i] \in Seq(0 .. 9)}
<1>10. 0 \in U
  <2>1. digits[0] = <<>> /\ \A i \in 0 .. 0 : i = 0
    BY <1>9 DEF Digits
  <2>2. <<>> \in Seq(0 .. 9) /\ 0 \in 0 .. n
    OBVIOUS
  <2>3. \A i \in 0 .. 0 : digits[i] \in Seq(0 .. 9)
    BY <2>1, <2>2
  <2> QED
    BY <2>2, <2>3
<1>11. ASSUME NEW k \in 1 .. n, k - 1 \in U PROVE k \in U
  <2>1. k \div 10 \in 0 .. k - 1 /\ k % 10 \in 0 .. 9 /\ k \in 0 .. n /\ k # 0
    OBVIOUS
  <2>2. digits[k \div 10] \in Seq(0 .. 9)
    BY <1>11, <2>1
  <2>3. digits[k] = Append(digits[k \div 10], k % 10)
    BY <1>9, <2>1 DEF Digits
  <2>4. digits[k] \in Seq(0 .. 9)
    BY <2>1, <2>2, <2>3, AppendProperties
  <2>5. \A i \in 0 .. k : i = k \/ i \in 0 .. k - 1
    OBVIOUS
  <2> QED
    BY <1>11, <2>1, <2>4, <2>5
<1>12. n \in U
  <2>1. 0 .. n \subseteq U
    <3> HIDE DEF U
    <3> QED
      BY <1>10, <1>11, Counting
  <2>2. n \in 0 .. n
    OBVIOUS
  <2> HIDE DEF U
  <2> QED
    BY <2>1, <2>2
<1>13. digits \in [0 .. n -> Seq(0 .. 9)]
  BY <1>8, <1>12
<1> QED
  BY <1>5, <1>9, <1>13

LEMMA DecimalFacts ==
    ASSUME NEW n \in Int
    PROVE  Decimal(n) \in Seq(Nat \ {NewLine}) /\ Len(Decimal(n)) \in Nat \ {0}
<1> DEFINE S == Nat \ {NewLine}
           abs == IF n < 0 THEN -n ELSE n
           chars == IF n = 0 THEN <<48>> ELSE [k \in 1 .. Len(Temp(abs)) |-> Temp(abs)[k] + 48]
<1>1. abs \in Nat
  OBVIOUS
<1> HIDE DEF abs
<1>2. chars \in Seq(S) /\ Len(chars) \in Nat \ {0}
  <2>1. CASE n = 0
    BY <2>1 DEF NewLine
  <2>2. CASE n # 0
    <3>1. PICK g \in [0 .. abs -> Seq(0 .. 9)] : Temp(abs) = g[abs] /\ Digits(g, abs)
      BY <1>1, TempFacts
    <3>2. abs # 0 /\ abs \in 0 .. abs /\ abs \div 10 \in 0 .. abs /\ abs % 10 \in 0 .. 9
      <4>1. abs # 0
        BY <2>2 DEF abs
      <4> QED
        BY <1>1, <4>1
    <3> DEFINE h == g[abs \div 10]
    <3>3. Temp(abs) = Append(h, abs % 10) /\ h \in Seq(0 .. 9)
      BY <3>1, <3>2 DEF Digits
    <3> HIDE DEF h
    <3>4. Temp(abs) \in Seq(0 .. 9) /\ Len(Temp(abs)) = Len(h) + 1 /\ Len(h) \in Nat
      BY <3>2, <3>3, AppendProperties, LenProperties
    <3> DEFINE m == Len(Temp(abs))
    <3>5. \A k \in 1 .. m : Temp(abs)[k] \in 0 .. 9
      BY <3>4, ElementOfSeq
    <3>6. \A k \in 1 .. m : Temp(abs)[k] + 48 \in S
      BY <3>5 DEF NewLine
    <3>7. m \in Nat \ {0}
      BY <3>4
    <3> HIDE DEF m, S
    <3> DEFINE c == [k \in 1 .. m |-> Temp(abs)[k] + 48]
    <3>8. c \in [1 .. m -> S]
      BY <3>6
    <3> HIDE DEF c
    <3>9. c \in Seq(S) /\ Len(c) = m
      BY <3>7, <3>8, FunctionIsSeq
    <3> QED
      BY <2>2, <3>7, <3>9 DEF c, m
  <2> QED
    BY <2>1, <2>2
<1>3. Decimal(n) = IF n < 0 THEN <<Minus>> \o chars ELSE chars
  BY DEF Decimal, abs
<1> HIDE DEF chars
<1>4. <<Minus>> \in Seq(S) /\ Len(<<Minus>>) = 1
  BY DEF Minus, NewLine
<1> HIDE DEF S
<1>5. <<Minus>> \o chars \in Seq(S) /\ Len(<<Minus>> \o chars) = 1 + Len(chars)
  BY <1>2, <1>4, ConcatProperties
<1>6. 1 + Len(chars) \in Nat \ {0}
  BY <1>2
<1>7. Decimal(n) \in Seq(S) /\ Len(Decimal(n)) \in Nat \ {0}
  BY <1>2, <1>3, <1>5, <1>6, Zenon
<1> QED
  BY <1>7 DEF S

\* canonic_mode_write prints what it is given, all of it and nothing else.
LEMMA WholeWritten ==
    ASSUME NEW S, NEW chars \in Seq(S), Len(chars) # 0
    PROVE  Parts(chars) = chars
<1> DEFINE L == Len(chars)
           N == NOutput
           m == (L + N - 1) \div N
           ss == [k \in 1 .. m |-> Part(chars, k)]
           Upto(i) == IF i * N < L THEN i * N ELSE L
<1>1. L \in Nat \ {0} /\ N \in Nat \ {0}
  BY LenProperties, InputAssumption
<1>2. /\ m \in Nat \ {0} /\ L <= m * N /\ \A i \in 1 .. m : (i - 1) * N < L
  <2> HIDE DEF L, N
  <2> DEFINE a == L + N - 1
  <2>1. m \in Nat /\ a = m * N + (a % N) /\ a % N \in 0 .. N - 1 /\ a \in Nat
    <3>1. a \in Nat /\ N \in Nat \ {0} /\ m = a \div N
      BY <1>1
    <3> HIDE DEF a, m
    <3> QED
      BY <3>1, Quotient
  <2> DEFINE x == m * N
  <2>2. x \in Nat /\ L <= x /\ x <= L + N - 1
    BY <1>1, <2>1
  <2>3. m # 0
    BY <1>1, <2>1, <2>2
  <2> HIDE DEF m
  <2>4. ASSUME NEW i \in 1 .. m PROVE (i - 1) * N < L
    <3>1. i - 1 \in Nat /\ i - 1 < m
      BY <2>1
    <3>2. (i - 1) * N + N <= m * N
      BY <1>1, <2>1, <3>1, Scaled
    <3> DEFINE y == (i - 1) * N
    <3>3. y \in Nat
      BY <1>1, <3>1
    <3> HIDE DEF x, y
    <3>4. y + N <= x
      BY <3>2 DEF x, y
    <3>5. y < L
      BY <1>1, <2>2, <3>3, <3>4
    <3> QED
      BY <3>5 DEF y
  <2> QED
    BY <2>1, <2>2, <2>3, <2>4
<1> HIDE DEF m
<1>3. ASSUME NEW i \in 1 .. m
      PROVE  /\ Part(chars, i) \in Seq(S) /\ Upto(i) \in Nat /\ Upto(i - 1) = (i - 1) * N
             /\ Upto(i) <= L /\ Len(Part(chars, i)) = Upto(i) - Upto(i - 1)
             /\ \A j \in 1 .. Len(Part(chars, i)) : Part(chars, i)[j] = chars[Upto(i - 1) + j]
  <2> DEFINE y == (i - 1) * N
             z == i * N
             e == Upto(i)
  <2>1. y \in Nat /\ z \in Nat /\ z = y + N /\ y < L
    <3>1. i - 1 \in Nat /\ i \in Nat /\ i * N = (i - 1) * N + N
      BY <1>1
    <3> QED
      BY <1>1, <1>2, <3>1
  <2>2. Upto(i - 1) = y
    BY <2>1
  <2>3. Part(chars, i) = SubSeq(chars, y + 1, e)
    BY DEF Part
  <2>4. e = IF z < L THEN z ELSE L
    OBVIOUS
  <2> HIDE DEF y, z, e, Upto, L, N
  <2>5. e \in Nat /\ e <= L /\ y + 1 <= e /\ y + 1 \in 1 .. L + 1
    BY <1>1, <2>1, <2>4
  <2>6. \A k \in y + 1 .. e : chars[k] \in S
    <3>1. \A k \in y + 1 .. e : k \in 1 .. L
      BY <1>1, <2>1, <2>5
    <3> QED
      BY <3>1, ElementOfSeq DEF L
  <2> DEFINE p == SubSeq(chars, y + 1, e)
  <2>7. /\ p \in Seq(S) /\ Len(p) = IF y + 1 <= e THEN e - (y + 1) + 1 ELSE 0
        /\ \A j \in 1 .. e - (y + 1) + 1 : p[j] = chars[(y + 1) + j - 1]
    <3>1. y + 1 \in Int /\ e \in Int
      BY <2>1, <2>5
    <3> QED
      BY <2>6, <3>1, SubSeqProperties
  <2> HIDE DEF p
  <2>8. e - (y + 1) + 1 = e - y /\ \A j \in 1 .. e - y : (y + 1) + j - 1 = y + j
    BY <2>1, <2>5
  <2>9. p \in Seq(S) /\ Len(p) = e - y /\ \A j \in 1 .. e - y : p[j] = chars[y + j]
    BY <2>5, <2>7, <2>8
  <2>10. Part(chars, i) = p
    BY <2>3 DEF p
  <2>11. Upto(i) = e /\ Upto(i - 1) = y /\ y = (i - 1) * N
    BY <2>2 DEF e, y
  <2> QED
    BY <2>5, <2>9, <2>10, <2>11
<1>4. Upto(0) = 0 /\ Upto(m) = L
  <2>1. 0 * N = 0 /\ m * N \in Nat
    BY <1>1, <1>2
  <2> QED
    BY <1>1, <1>2, <2>1
<1> HIDE DEF Upto
<1>5. ss \in Seq(Seq(S)) /\ Len(ss) = m /\ \A i \in 1 .. m : ss[i] = Part(chars, i)
  <2>1. ss \in [1 .. m -> Seq(S)]
    BY <1>3
  <2>2. \A i \in 1 .. m : ss[i] = Part(chars, i)
    OBVIOUS
  <2> HIDE DEF ss
  <2> QED
    BY <1>2, <2>1, <2>2, FunctionIsSeq
<1>6. Parts(chars) = FlattenSeq(ss)
  BY DEF Parts, m
<1> HIDE DEF ss
<1> DEFINE w == FlattenSeq(ss)
<1>7. w \in Seq(S) /\ \E F \in [0 .. m -> Nat] : Joins(ss, F, w) /\ Len(w) = F[m]
  BY <1>2, <1>5, Strung
<1>8. PICK F \in [0 .. m -> Nat] : Joins(ss, F, w) /\ Len(w) = F[m]
  BY <1>7
<1> HIDE DEF w
<1>9. /\ F[0] = 0 /\ \A i \in 1 .. m : F[i] = F[i - 1] + Len(Part(chars, i))
      /\ \A i \in 1 .. m : \A j \in 1 .. Len(Part(chars, i)) :
            w[F[i - 1] + j] = Part(chars, i)[j]
  BY <1>5, <1>8 DEF Joins
<1>10. \A i \in 0 .. m : F[i] = Upto(i)
  <2> DEFINE T == {i \in 0 .. m : F[i] = Upto(i)}
  <2>1. 0 \in T
    BY <1>2, <1>4, <1>9
  <2>2. ASSUME NEW i \in 1 .. m, i - 1 \in T PROVE i \in T
    <3>1. F[i] = Upto(i - 1) + (Upto(i) - Upto(i - 1))
      BY <1>3, <1>9, <2>2
    <3>2. Upto(i) \in Nat /\ Upto(i - 1) \in Nat
      BY <1>3, <2>2
    <3> QED
      BY <3>1, <3>2
  <2>3. 0 .. m \subseteq T
    <3> HIDE DEF T
    <3> QED
      BY <1>2, <2>1, <2>2, Counting
  <2> QED
    BY <2>3
<1>11. Len(w) = L
  BY <1>2, <1>4, <1>8, <1>10
<1>12. ASSUME NEW k \in 1 .. L PROVE w[k] = chars[k]
  <2>1. k \in 1 .. F[m]
    BY <1>8, <1>11
  <2>2. PICK i \in 1 .. m : F[i - 1] < k /\ k <= F[i]
    BY <1>2, <1>9, <2>1, Covered
  <2> DEFINE j == k - F[i - 1]
             x == F[i - 1]
  <2>3. /\ F[i] = x + Len(Part(chars, i)) /\ x \in Nat /\ F[i] \in Nat
        /\ Len(Part(chars, i)) \in Nat /\ Upto(i - 1) = x
    <3>1. i - 1 \in 0 .. m /\ i \in 0 .. m
      BY <1>2
    <3>2. F[i - 1] \in Nat /\ F[i] \in Nat /\ F[i - 1] = Upto(i - 1)
      BY <1>10, <3>1
    <3>3. Len(Part(chars, i)) \in Nat
      BY <1>3, LenProperties
    <3> QED
      BY <1>9, <3>2, <3>3
  <2>4. j \in 1 .. Len(Part(chars, i)) /\ x + j = k
    BY <2>2, <2>3
  <2> HIDE DEF j
  <2>5. w[x + j] = Part(chars, i)[j] /\ Part(chars, i)[j] = chars[Upto(i - 1) + j]
    BY <1>3, <1>9, <2>4
  <2> QED
    BY <2>3, <2>4, <2>5
<1>13. w = chars
  BY <1>7, <1>11, <1>12, SeqEqual DEF w
<1> QED
  BY <1>6, <1>13 DEF w

(***************************************************************************)
(* A line on the screen: while it is printed, and when the cursor is       *)
(* inside it.                                                              *)
(***************************************************************************)
\* The first k characters of w are in front of the cursor.
Displays(s, w, k) ==
    /\ s \in Screens
    /\ \E b \in Nat : /\ Cursor(s) = b + k
                      /\ \A j \in 1 .. k : s.cell[b + j - 1] = w[j]

\* All of w is there, and the cursor behind its first k characters.
Shown(s, w, k) ==
    /\ s \in Screens
    /\ \E b \in Nat : /\ Cursor(s) = b + k /\ b + Len(w) \in Cells
                      /\ \A j \in 1 .. Len(w) : s.cell[b + j - 1] = w[j]

\* A line of input is shorter than the screen without a row.
LEMMA LineFits == NInput \in Nat \ {0} /\ NInput <= (Rows - 1) * Columns
<1> DEFINE a == Columns - 1 + NInput
           q == a \div Columns
<1>1. Columns \in Nat \ {0} /\ NInput \in Nat \ {0} /\ Rows \in Nat \ {0} /\ q < Rows /\ a \in Nat
  BY InputAssumption, ScreenSize
<1>2. q \in Nat /\ a = q * Columns + (a % Columns) /\ a % Columns \in 0 .. Columns - 1
  <2> HIDE DEF a
  <2> QED
    BY <1>1, Quotient
<1> DEFINE x == q * Columns  y == Rows * Columns  z == (Rows - 1) * Columns
<1>3. x \in Nat /\ y \in Nat /\ z \in Nat /\ x + Columns <= y /\ z + Columns = y
  <2> HIDE DEF q
  <2>1. x \in Nat
    BY <1>1, <1>2
  <2>2. x + Columns <= y
    BY <1>1, <1>2, Scaled
  <2> QED
    BY <2>1, <2>2, ScreenSize
<1>4. NInput <= x
  <2>1. Columns - 1 + NInput = x + (a % Columns)
    BY <1>2
  <2> DEFINE m == a % Columns
  <2>2. m \in 0 .. Columns - 1
    BY <1>2
  <2> HIDE DEF m, x, q, a
  <2> QED
    BY <1>1, <1>3, <2>1, <2>2 DEF m
<1> HIDE DEF x, y, z
<1>5. NInput <= z
  BY <1>1, <1>3, <1>4
<1> QED
  BY <1>1, <1>5 DEF z

LEMMA DisplaysMore ==
    ASSUME NEW s, NEW w \in Seq(Nat \ {NewLine}), Len(w) <= NInput, NEW k \in 0 .. Len(w),
           Displays(s, w, k), NEW u \in Screens, NEW t, NEW m \in Nat, k + m <= Len(w),
           Advanced(s, u, t, m), \A j \in 1 .. m : t[j] = w[k + j]
    PROVE  Displays(u, w, k + m)
<1> DEFINE a == Cursor(s)  c == Cursor(u)  low == (Rows - 1) * Columns  l == Len(w)
<1>1. PICK b \in Nat : a = b + k /\ \A j \in 1 .. k : s.cell[b + j - 1] = w[j]
  BY DEF Displays
<1>2. PICK d \in Nat :
         /\ c = a + m - d /\ (d = 0 \/ low <= c)
         /\ Kept(s, u, d)
         /\ \A j \in 1 .. m : d <= a + j - 1 => u.cell[a + j - 1 - d] = t[j]
  BY DEF Advanced
<1>3. /\ a \in Nat /\ c \in Nat /\ l \in Nat /\ low \in Nat /\ l <= low
      /\ k \in Nat /\ k + m <= l /\ s \in Screens
  <2>1. s \in Screens
    BY DEF Displays
  <2>2. a \in Nat /\ c \in Nat /\ l \in Nat
    BY <2>1, CursorFacts, CellsAreNat, LenProperties
  <2>3. low \in Nat /\ NInput <= low /\ NInput \in Nat
    BY LineFits, ScreenSize
  <2> HIDE DEF low
  <2> QED
    BY <2>1, <2>2, <2>3
<1>4. \A x \in 0 .. a - 1 : d <= x => u.cell[x - d] = s.cell[x]
  BY <1>2 DEF Kept
<1> HIDE DEF a, c, low, l
<1>5. d <= b
  BY <1>1, <1>2, <1>3
<1> DEFINE e == b - d
<1>6. e \in Nat /\ c = e + (k + m)
  BY <1>1, <1>2, <1>3, <1>5
<1>7. ASSUME NEW j \in 1 .. k + m PROVE u.cell[e + j - 1] = w[j]
  <2>1. CASE j <= k
    <3> DEFINE x == b + j - 1
    <3>1. x \in 0 .. a - 1 /\ d <= x /\ x - d = e + j - 1 /\ j \in 1 .. k
      BY <1>1, <1>3, <1>5, <2>1
    <3>2. s.cell[x] = w[j]
      BY <1>1, <3>1
    <3> HIDE DEF x, e
    <3> QED
      BY <1>4, <3>1, <3>2
  <2>2. CASE ~(j <= k)
    <3> DEFINE i == j - k
    <3>1. /\ i \in 1 .. m /\ k + i = j /\ d <= a + i - 1
          /\ a + i - 1 - d = e + j - 1
      BY <1>1, <1>3, <1>5, <2>2
    <3> HIDE DEF i
    <3>2. u.cell[a + i - 1 - d] = t[i] /\ t[i] = w[k + i]
      BY <1>2, <3>1
    <3> HIDE DEF e
    <3> QED
      BY <3>1, <3>2
  <2> QED
    BY <2>1, <2>2
<1> HIDE DEF e
<1> QED
  BY <1>6, <1>7 DEF Displays, c

\* The rest of the line is printed.
LEMMA DisplaysRest ==
    ASSUME NEW s, NEW w \in Seq(Nat \ {NewLine}), Len(w) <= NInput, NEW k \in 0 .. Len(w),
           Displays(s, w, k), NEW t \in Seq(Nat \ {NewLine}), k + Len(t) = Len(w),
           \A j \in 1 .. Len(t) : t[j] = w[k + j]
    PROVE  Displays(Prints(s, t), w, Len(w))
<1>1. s \in Screens
  BY DEF Displays
<1>2. Prints(s, t) \in Screens /\ Advanced(s, Prints(s, t), t, Len(t))
  BY <1>1, PrintsFacts
<1>3. Len(t) \in Nat /\ Len(w) \in Nat /\ k + Len(t) <= Len(w)
  BY LenProperties
<1>4. Displays(Prints(s, t), w, k + Len(t))
  BY <1>2, <1>3, DisplaysMore
<1> QED
  BY <1>4

\* One character of it is printed.
LEMMA DisplaysOne ==
    ASSUME NEW s, NEW w \in Seq(Nat \ {NewLine}), Len(w) <= NInput, NEW k \in 0 .. Len(w) - 1,
           Displays(s, w, k), NEW ch, ch = w[k + 1]
    PROVE  Displays(Printc(s, ch), w, k + 1)
<1> DEFINE t == <<ch>>
           u == Printc(s, ch)
<1>1. s \in Screens /\ Len(w) \in Nat
  BY LenProperties DEF Displays
<1>2. k + 1 \in 1 .. Len(w) /\ k \in 0 .. Len(w) /\ k + 1 <= Len(w)
  BY <1>1
<1>3. ch \in Nat \ {NewLine}
  BY <1>2, ElementOfSeq
<1>4. u \in Screens /\ OneFurther(s, u, ch)
  BY <1>1, <1>3, PrintcFacts
<1>5. Advanced(s, u, t, 1)
  <2>1. PICK d \in Nat : /\ Cursor(u) = Cursor(s) + 1 - d
                         /\ (d = 0 \/ (Rows - 1) * Columns <= Cursor(u))
                         /\ Kept(s, u, d)
                         /\ d <= Cursor(s) => u.cell[Cursor(s) - d] = ch
    BY <1>4 DEF OneFurther
  <2>2. Cursor(s) \in Nat
    BY <1>1, CursorFacts, CellsAreNat
  <2>3. \A j \in 1 .. 1 : d <= Cursor(s) + j - 1 => u.cell[Cursor(s) + j - 1 - d] = t[j]
    <3> TAKE j \in 1 .. 1
    <3> HAVE d <= Cursor(s) + j - 1
    <3>1. j = 1 /\ Cursor(s) + j - 1 - d = Cursor(s) - d /\ d <= Cursor(s) /\ t[j] = ch
      BY <2>2
    <3> HIDE DEF u, t
    <3> QED
      BY <2>1, <3>1
  <2> HIDE DEF u, t
  <2> QED
    BY <2>1, <2>3 DEF Advanced
<1>6. \A j \in 1 .. 1 : t[j] = w[k + j]
  <2>1. t[1] = ch /\ \A j \in 1 .. 1 : j = 1
    OBVIOUS
  <2> HIDE DEF t
  <2> QED
    BY <2>1
<1> HIDE DEF u, t
<1>7. Displays(u, w, k + 1)
  BY <1>2, <1>4, <1>5, <1>6, DisplaysMore
<1> QED
  BY <1>7 DEF u

\* Only the first k characters of a line count.
LEMMA DisplaysPrefix ==
    ASSUME NEW s, NEW w, NEW v, NEW k \in Nat, Displays(s, w, k), \A j \in 1 .. k : w[j] = v[j]
    PROVE  Displays(s, v, k)
<1>1. PICK b \in Nat : Cursor(s) = b + k /\ \A j \in 1 .. k : s.cell[b + j - 1] = w[j]
  BY DEF Displays
<1>2. \A j \in 1 .. k : s.cell[b + j - 1] = v[j]
  BY <1>1
<1> QED
  BY <1>1, <1>2 DEF Displays

\* The cursor goes inside the line.
LEMMA ShownMoves ==
    ASSUME NEW s, NEW w, Len(w) \in Nat, NEW k \in 0 .. Len(w), Shown(s, w, k),
           NEW i \in 0 .. Len(w), NEW c \in Int, c = Cursor(s) - k + i
    PROVE  Shown(MoveTo(s, c), w, i)
<1>1. PICK b \in Nat : /\ Cursor(s) = b + k /\ b + Len(w) \in Cells
                       /\ \A j \in 1 .. Len(w) : s.cell[b + j - 1] = w[j]
  BY DEF Shown
<1>2. s \in Screens
  BY DEF Shown
<1>3. c = b + i
  BY <1>1
<1>4. c \in Cells
  <2> DEFINE n == Rows * Columns  l == Len(w)
  <2>1. b + l \in 0 .. n - 1 /\ n \in Nat /\ l \in Nat /\ i \in 0 .. l
    BY <1>1, ScreenSize DEF Cells
  <2> HIDE DEF n, l
  <2>2. b + i \in 0 .. n - 1
    BY <2>1
  <2> QED
    BY <1>3, <2>2 DEF n, Cells
<1> DEFINE u == MoveTo(s, c)
<1>5. u \in Screens /\ u.cell = s.cell /\ Cursor(u) = b + i
  BY <1>2, <1>3, <1>4, MoveToFacts
<1> HIDE DEF u
<1>6. Shown(u, w, i)
  BY <1>1, <1>5 DEF Shown
<1> QED
  BY <1>6 DEF u

\* A line that has been printed to its end is there, and so is a part of it.
LEMMA DisplayedIsShown ==
    ASSUME NEW s, NEW w, Len(w) \in Nat, Displays(s, w, Len(w))
    PROVE  Shown(s, w, Len(w))
BY CursorFacts DEF Displays, Shown

LEMMA ShownPrefix ==
    ASSUME NEW s, NEW w, NEW v, Len(w) \in Nat, Len(v) \in 0 .. Len(w), NEW k \in 0 .. Len(v),
           Shown(s, w, k), \A j \in 1 .. Len(v) : v[j] = w[j]
    PROVE  Shown(s, v, k)
<1>1. PICK b \in Nat : /\ Cursor(s) = b + k /\ b + Len(w) \in Cells
                       /\ \A j \in 1 .. Len(w) : s.cell[b + j - 1] = w[j]
  BY DEF Shown
<1>2. b + Len(v) \in Cells
  <2> DEFINE n == Rows * Columns  l == Len(w)  m == Len(v)
  <2>1. b + l \in 0 .. n - 1 /\ n \in Nat /\ l \in Nat /\ m \in 0 .. l
    BY <1>1, ScreenSize DEF Cells
  <2> HIDE DEF n, l, m
  <2>2. b + m \in 0 .. n - 1
    BY <2>1
  <2> QED
    BY <2>2 DEF n, m, Cells
<1>3. \A j \in 1 .. Len(v) : s.cell[b + j - 1] = v[j]
  <2>1. \A j \in 1 .. Len(v) : j \in 1 .. Len(w)
    OBVIOUS
  <2> QED
    BY <1>1, <2>1
<1> QED
  BY <1>1, <1>2, <1>3 DEF Shown

LEMMA ShownIsDisplayed ==
    ASSUME NEW s, NEW w, Len(w) \in Nat, NEW k \in 0 .. Len(w), Shown(s, w, k)
    PROVE  Displays(s, w, k)
<1>1. \A j \in 1 .. k : j \in 1 .. Len(w)
  OBVIOUS
<1> QED
  BY <1>1 DEF Shown, Displays

(***************************************************************************)
(* Places in the ring.                                                     *)
(***************************************************************************)
LEMMA RingSize == NPool \in Nat \ {0} /\ \A g \in Ring : g \in 0 .. NPool - 1
BY InputAssumption DEF Ring

Wrap(a) == a % NPool

LEMMA WrapUp ==
    ASSUME NEW a \in Nat, a < 2 * NPool
    PROVE  Wrap(a) = (IF a < NPool THEN a ELSE a - NPool) /\ Wrap(a) \in Ring
<1> DEFINE n == NPool
<1>1. n \in Nat \ {0}
  BY RingSize
<1>2. CASE a < n
  <2>1. a \in 0 .. n - 1 /\ 0 * n + a = a
    BY <1>1, <1>2
  <2>2. (0 * n + a) % n = a
    BY <1>1, <2>1, Division
  <2> QED
    BY <1>2, <2>1, <2>2 DEF Ring, Wrap
<1>3. CASE ~(a < n)
  <2>1. a - n \in 0 .. n - 1 /\ 1 * n + (a - n) = a
    BY <1>1, <1>3
  <2>2. (1 * n + (a - n)) % n = a - n
    BY <1>1, <2>1, Division
  <2> QED
    BY <1>3, <2>1, <2>2 DEF Ring, Wrap
<1> QED
  BY <1>2, <1>3

LEMMA WrapDown ==
    ASSUME NEW a \in Int, - NPool <= a, a < NPool
    PROVE  Wrap(a) = (IF 0 <= a THEN a ELSE a + NPool) /\ Wrap(a) \in Ring
<1> DEFINE n == NPool
<1>1. n \in Nat \ {0}
  BY RingSize
<1>2. CASE 0 <= a
  <2>1. a \in Nat /\ a < 2 * n
    BY <1>1, <1>2
  <2> QED
    BY <1>2, <2>1, WrapUp
<1>3. CASE ~(0 <= a)
  <2> DEFINE q == a \div n  m == a % n
  <2>1. q \in Int /\ m \in 0 .. n - 1 /\ a = q * n + m
    <3> HIDE DEF n
    <3> QED
      BY <1>1
  <2> HIDE DEF q, m
  <2>2. q = -1
    <3>1. ~(q >= 0)
      <4> SUFFICES ASSUME q >= 0 PROVE FALSE
        OBVIOUS
      <4>1. q * n >= 0
        BY <1>1, <2>1
      <4> QED
        BY <1>1, <1>3, <2>1, <4>1
    <3>2. ~(q <= -2)
      <4> SUFFICES ASSUME q <= -2 PROVE FALSE
        OBVIOUS
      <4>1. (-2 - q) * n >= 0 /\ (-2 - q) * n = -2 * n - q * n
        BY <1>1, <2>1
      <4> DEFINE x == q * n
      <4>2. x \in Int /\ -2 * n - x >= 0 /\ a = x + m
        BY <1>1, <2>1, <4>1
      <4> HIDE DEF x
      <4> QED
        BY <1>1, <2>1, <4>2
    <3> QED
      BY <2>1, <3>1, <3>2
  <2>3. m = a + n
    BY <1>1, <2>1, <2>2
  <2> QED
    BY <1>3, <2>1, <2>3 DEF m, Ring, Wrap
<1> QED
  BY <1>2, <1>3

\* The bytes of the ring ip from g to h.
Bytes(ip, g, h) == [k \in 1 .. Wrap(h - g) |-> ip[Wrap(g + k - 1)]]

LEMMA BytesFacts ==
    ASSUME NEW ip \in [Ring -> Nat], NEW g \in Ring, NEW h \in Ring
    PROVE  /\ Wrap(h - g) \in Ring
           /\ Wrap(h - g) = IF g <= h THEN h - g ELSE h - g + NPool
           /\ Bytes(ip, g, h) \in Seq(Nat) /\ Len(Bytes(ip, g, h)) = Wrap(h - g)
           /\ \A k \in 1 .. Wrap(h - g) : /\ Wrap(g + k - 1) \in Ring
                                             /\ Bytes(ip, g, h)[k] = ip[Wrap(g + k - 1)]
<1> DEFINE m == Wrap(h - g)
<1>1. g \in 0 .. NPool - 1 /\ h \in 0 .. NPool - 1 /\ NPool \in Nat \ {0}
  BY RingSize
<1>2. m \in Ring /\ m = IF g <= h THEN h - g ELSE h - g + NPool
  <2>1. h - g \in Int /\ - NPool <= h - g /\ h - g < NPool /\ (0 <= h - g <=> g <= h)
    BY <1>1
  <2> QED
    BY <2>1, WrapDown
<1> HIDE DEF m
<1>3. m \in 0 .. NPool - 1
  BY <1>2, RingSize
<1>4. \A k \in 1 .. m : Wrap(g + k - 1) \in Ring
  <2> TAKE k \in 1 .. m
  <2>1. g + k - 1 \in Nat /\ g + k - 1 < 2 * NPool
    BY <1>1, <1>3
  <2> QED
    BY <2>1, WrapUp
<1> DEFINE u == [k \in 1 .. m |-> ip[Wrap(g + k - 1)]]
<1>5. u \in [1 .. m -> Nat] /\ \A k \in 1 .. m : u[k] = ip[Wrap(g + k - 1)]
  BY <1>4
<1>6. Bytes(ip, g, h) = u
  BY DEF Bytes, m
<1> HIDE DEF u
<1>7. u \in Seq(Nat) /\ Len(u) = m
  BY <1>3, <1>5, FunctionIsSeq
<1> QED
  BY <1>2, <1>4, <1>5, <1>6, <1>7 DEF m

\* The first d bytes are taken.
LEMMA BytesDrop ==
    ASSUME NEW ip \in [Ring -> Nat], NEW g \in Ring, NEW h \in Ring,
           NEW d \in 0 .. Wrap(h - g)
    PROVE  /\ Wrap(g + d) \in Ring
           /\ Wrap(h - Wrap(g + d)) = Wrap(h - g) - d
           /\ \A k \in 1 .. Wrap(h - g) - d :
                 Bytes(ip, Wrap(g + d), h)[k] = Bytes(ip, g, h)[k + d]
<1> DEFINE m == Wrap(h - g)
           e == Wrap(g + d)
           n == NPool
<1>1. g \in 0 .. n - 1 /\ h \in 0 .. n - 1 /\ n \in Nat \ {0}
  BY RingSize
<1>2. m \in 0 .. n - 1 /\ m = IF g <= h THEN h - g ELSE h - g + n
  BY BytesFacts, RingSize
<1>3. e \in Ring /\ e = IF g + d < n THEN g + d ELSE g + d - n
  <2>1. g + d \in Nat /\ g + d < 2 * n
    BY <1>1, <1>2
  <2> QED
    BY <1>1, <1>2, <2>1, WrapUp
<1> HIDE DEF e, m
<1>4. e \in 0 .. n - 1
  BY <1>3, RingSize
<1>5. d \in 0 .. m
  BY DEF m
<1>6. Wrap(h - e) = m - d
  <2>1. Wrap(h - e) = IF e <= h THEN h - e ELSE h - e + n
    BY <1>3, BytesFacts
  <2> HIDE DEF n
  <2>2. (IF e <= h THEN h - e ELSE h - e + n) = m - d
    BY <1>1, <1>2, <1>3, <1>4, <1>5
  <2> QED
    BY <2>1, <2>2
<1>7. ASSUME NEW k \in 1 .. m - d PROVE Bytes(ip, e, h)[k] = Bytes(ip, g, h)[k + d]
  <2>1. Bytes(ip, e, h)[k] = ip[Wrap(e + k - 1)]
    <3>1. e \in Ring /\ k \in 1 .. Wrap(h - e)
      BY <1>3, <1>6
    <3>2. \A j \in 1 .. Wrap(h - e) : Bytes(ip, e, h)[j] = ip[Wrap(e + j - 1)]
      BY ONLY <3>1, ip \in [Ring -> Nat], h \in Ring, BytesFacts
    <3> QED
      BY <3>1, <3>2
  <2>2. k + d \in 1 .. m
    BY <1>2, <1>5
  <2>3. Bytes(ip, g, h)[k + d] = ip[Wrap(g + (k + d) - 1)]
    BY <2>2, BytesFacts DEF m
  <2>4. /\ e + k - 1 \in Nat /\ e + k - 1 < 2 * n
        /\ g + (k + d) - 1 \in Nat /\ g + (k + d) - 1 < 2 * n
    BY <1>1, <1>2, <1>4, <1>5
  <2>5. /\ Wrap(e + k - 1) = IF e + k - 1 < n THEN e + k - 1 ELSE e + k - 1 - n
        /\ Wrap(g + (k + d) - 1) = IF g + (k + d) - 1 < n THEN g + (k + d) - 1
                                   ELSE g + (k + d) - 1 - n
    BY <1>1, <1>2, <1>4, <1>5, <2>4, WrapUp
  <2> DEFINE p == Wrap(e + k - 1)  q == Wrap(g + (k + d) - 1)
  <2> HIDE DEF p, q, n
  <2>6. p = q
    BY <1>1, <1>2, <1>3, <1>4, <1>5, <2>2, <2>5 DEF p, q
  <2> QED
    BY <2>1, <2>3, <2>6 DEF p, q
<1> QED
  BY <1>3, <1>6, <1>7 DEF m, e

\* Bytes w are put behind them.
\* The ring ip with the bytes w from h on.
Overwritten(ip, h, w) ==
    [k \in Ring |-> LET j == Wrap(k - h) + 1 IN IF j <= Len(w) THEN w[j] ELSE ip[k]]

LEMMA BytesAppend ==
    ASSUME NEW ip \in [Ring -> Nat], NEW g \in Ring, NEW h \in Ring,
           NEW w \in Seq(Nat), Wrap(h - g) + Len(w) < NPool,
           NEW jp, jp = Overwritten(ip, h, w)
    PROVE  /\ jp \in [Ring -> Nat] /\ Wrap(h + Len(w)) \in Ring
           /\ Wrap(Wrap(h + Len(w)) - g) = Wrap(h - g) + Len(w)
           /\ \A k \in 1 .. Wrap(h - g) :
                 Bytes(jp, g, Wrap(h + Len(w)))[k] = Bytes(ip, g, h)[k]
           /\ \A k \in 1 .. Len(w) :
                 Bytes(jp, g, Wrap(h + Len(w)))[Wrap(h - g) + k] = w[k]
<1> DEFINE m == Wrap(h - g)
           l == Len(w)
           e == Wrap(h + l)
           n == NPool
<1>0. jp = [k \in Ring |-> LET j == Wrap(k - h) + 1 IN IF j <= l THEN w[j] ELSE ip[k]]
  BY DEF Overwritten
<1>1. g \in 0 .. n - 1 /\ h \in 0 .. n - 1 /\ n \in Nat \ {0} /\ l \in Nat
  BY RingSize, LenProperties
<1>2. m \in 0 .. n - 1 /\ m = (IF g <= h THEN h - g ELSE h - g + n) /\ m + l < n
  BY BytesFacts, RingSize
<1>3. e \in Ring /\ e = IF h + l < n THEN h + l ELSE h + l - n
  <2>1. h + l \in Nat /\ h + l < 2 * n
    BY <1>1, <1>2
  <2> HIDE DEF l
  <2> QED
    BY <1>1, <2>1, WrapUp
<1>4. \A k \in Ring : Wrap(k - h) \in 0 .. n - 1 /\ Wrap(k - h) = IF h <= k THEN k - h ELSE k - h + n
  BY BytesFacts, RingSize
<1>5. jp \in [Ring -> Nat]
  <2>1. \A k \in Ring : jp[k] \in Nat
    <3> TAKE k \in Ring
    <3> DEFINE j == Wrap(k - h) + 1
    <3>1. jp[k] = IF j <= l THEN w[j] ELSE ip[k]
      BY <1>0
    <3>2. j \in Nat \ {0}
      BY <1>1, <1>4
    <3> HIDE DEF j
    <3>3. j <= l => w[j] \in Nat
      BY <1>1, <3>2, ElementOfSeq
    <3> QED
      BY <3>1, <3>3
  <2> QED
    BY <1>0, <2>1
<1>6. \A k \in Ring : jp[k] = IF Wrap(k - h) + 1 <= l THEN w[Wrap(k - h) + 1] ELSE ip[k]
  BY <1>0
<1> HIDE DEF e, m, l
<1>7. e \in 0 .. n - 1
  BY <1>3, RingSize
<1>8. Wrap(e - g) = m + l
  <2>1. Wrap(e - g) = IF g <= e THEN e - g ELSE e - g + n
    BY <1>3, BytesFacts
  <2> HIDE DEF n
  <2>2. (IF g <= e THEN e - g ELSE e - g + n) = m + l
    BY <1>1, <1>2, <1>3, <1>7
  <2> QED
    BY <2>1, <2>2
<1>9. ASSUME NEW k \in 1 .. m + l
      PROVE  LET p == Wrap(g + k - 1)
             IN  /\ p \in Ring /\ Bytes(jp, g, e)[k] = jp[p]
                 /\ k <= m => ~(Wrap(p - h) + 1 <= l)
                 /\ ~(k <= m) => Wrap(p - h) + 1 = k - m
  <2> DEFINE p == Wrap(g + k - 1)
             q == Wrap(p - h)
  <2>1. p \in Ring /\ Bytes(jp, g, e)[k] = jp[p]
    <3>1. e \in Ring /\ jp \in [Ring -> Nat] /\ k \in 1 .. Wrap(e - g)
      BY <1>3, <1>5, <1>8
    <3>2. \A j \in 1 .. Wrap(e - g) : /\ Wrap(g + j - 1) \in Ring
                                      /\ Bytes(jp, g, e)[j] = jp[Wrap(g + j - 1)]
      BY ONLY <3>1, g \in Ring, BytesFacts
    <3> QED
      BY <3>1, <3>2
  <2>2. p = IF g + k - 1 < n THEN g + k - 1 ELSE g + k - 1 - n
    <3>1. g + k - 1 \in Nat /\ g + k - 1 < 2 * n
      BY <1>1, <1>2
    <3> QED
      BY <1>1, <1>2, <3>1, WrapUp
  <2>3. q = (IF h <= p THEN p - h ELSE p - h + n) /\ p \in 0 .. n - 1
    BY <1>4, <2>1, RingSize
  <2> HIDE DEF p, q, n
  <2>4. k <= m => ~(q + 1 <= l)
    BY <1>1, <1>2, <2>2, <2>3
  <2>5. ~(k <= m) => q + 1 = k - m
    BY <1>1, <1>2, <2>2, <2>3
  <2> QED
    BY <2>1, <2>4, <2>5 DEF p, q, n
<1>10. ASSUME NEW k \in 1 .. m PROVE Bytes(jp, g, e)[k] = Bytes(ip, g, h)[k]
  <2> DEFINE p == Wrap(g + k - 1)
  <2>1. k \in 1 .. m + l /\ k <= m
    BY <1>1, <1>2
  <2>2. p \in Ring /\ Bytes(jp, g, e)[k] = jp[p] /\ ~(Wrap(p - h) + 1 <= l)
    BY <1>9, <2>1
  <2>3. Bytes(ip, g, h)[k] = ip[p]
    BY BytesFacts DEF m
  <2> HIDE DEF p
  <2>4. jp[p] = ip[p]
    BY <1>6, <2>2
  <2> QED
    BY <2>2, <2>3, <2>4
<1>11. ASSUME NEW k \in 1 .. l PROVE Bytes(jp, g, e)[m + k] = w[k]
  <2> DEFINE p == Wrap(g + (m + k) - 1)
  <2>1. m + k \in 1 .. m + l /\ ~(m + k <= m) /\ (m + k) - m = k /\ k <= l
    BY <1>1, <1>2
  <2>2. p \in Ring /\ Bytes(jp, g, e)[m + k] = jp[p] /\ Wrap(p - h) + 1 = (m + k) - m
    BY <1>9, <2>1
  <2> HIDE DEF p
  <2>3. jp[p] = w[k]
    BY <1>6, <2>1, <2>2
  <2> QED
    BY <2>2, <2>3
<1> QED
  BY <1>3, <1>5, <1>8, <1>10, <1>11 DEF m, l, e

(***************************************************************************)
(* The lines of a list of bytes u.  F[k] is where the k-th of the n zeros  *)
(* of u is, and ls are the lines between them.                             *)
(***************************************************************************)
Cut(u, n, F) ==
    /\ n \in Nat /\ F \in [0 .. n -> Nat] /\ F[0] = 0 /\ F[n] = Len(u)
    /\ \A k \in 1 .. n : F[k] - F[k - 1] \in 2 .. NInput + 1
    /\ \A q \in 1 .. Len(u) : u[q] = 0 <=> \E k \in 1 .. n : q = F[k]

Holds(u, n, F, ls) ==
    /\ Cut(u, n, F) /\ ls \in Seq(Seq(Nat)) /\ Len(ls) = n
    /\ \A k \in 1 .. n : /\ Len(ls[k]) = F[k] - F[k - 1] - 1
                         /\ \A j \in 1 .. Len(ls[k]) : ls[k][j] = u[F[k - 1] + j]

LEMMA CutIncreases ==
    ASSUME NEW u, NEW n, NEW F, Cut(u, n, F)
    PROVE  /\ \A i, j \in 0 .. n : i < j => F[i] < F[j]
           /\ \A k \in 1 .. n : /\ F[k - 1] \in Nat /\ F[k] \in Nat /\ F[k - 1] + 2 <= F[k]
                                /\ F[k] <= Len(u) /\ k \in 0 .. n /\ k - 1 \in 0 .. n
           /\ Len(u) \in Nat /\ n \in Nat
           /\ (n = 0 <=> Len(u) = 0)
<1>1. n \in Nat /\ F \in [0 .. n -> Nat] /\ F[n] = Len(u) /\ F[0] = 0
  BY DEF Cut
<1>2. ASSUME NEW k \in 1 .. n
      PROVE  /\ F[k - 1] \in Nat /\ F[k] \in Nat /\ F[k - 1] + 2 <= F[k]
             /\ k \in 0 .. n /\ k - 1 \in 0 .. n
  <2>1. k \in 0 .. n /\ k - 1 \in 0 .. n
    BY <1>1
  <2>2. F[k - 1] \in Nat /\ F[k] \in Nat
    BY <1>1, <2>1
  <2>3. F[k] - F[k - 1] \in 2 .. NInput + 1 /\ NInput \in Nat
    BY InputAssumption DEF Cut
  <2> QED
    BY <2>1, <2>2, <2>3
<1>3. ASSUME NEW i \in 0 .. n PROVE \A j \in i .. n : F[i] <= F[j]
  <2>1. F \in [0 .. n -> Int]
    BY <1>1
  <2>2. \A j \in 1 .. n : F[j - 1] <= F[j]
    BY <1>2
  <2> QED
    BY <1>1, <2>1, <2>2, Increasing
<1>4. ASSUME NEW i \in 0 .. n, NEW j \in 0 .. n, i < j PROVE F[i] < F[j]
  <2>1. i + 1 \in 1 .. n /\ (i + 1) - 1 = i /\ j \in i + 1 .. n /\ i + 1 \in 0 .. n
    BY <1>1, <1>4
  <2>2. F[i] + 2 <= F[i + 1] /\ F[i] \in Nat /\ F[i + 1] \in Nat /\ F[j] \in Nat
    BY <1>1, <1>2, <2>1
  <2>3. F[i + 1] <= F[j]
    BY <1>3, <2>1
  <2> QED
    BY <2>2, <2>3
<1>5. \A k \in 1 .. n : F[k] <= Len(u)
  <2> TAKE k \in 1 .. n
  <2>1. k \in 0 .. n /\ n \in k .. n
    BY <1>1
  <2> QED
    BY <1>1, <1>3, <2>1
<1>6. n = 0 <=> Len(u) = 0
  <2>1. n # 0 => F[0] < F[n]
    BY <1>1, <1>4
  <2>2. F[n] \in Nat
    BY <1>1
  <2> QED
    BY <1>1, <2>1, <2>2
<1>7. Len(u) \in Nat
  BY <1>1
<1> QED
  BY <1>1, <1>2, <1>4, <1>5, <1>6, <1>7

LEMMA CutZeros ==
    ASSUME NEW u, NEW n, NEW F, Cut(u, n, F)
    PROVE  /\ Cardinality(Zeros(u)) = n /\ Zeros(u) = {F[k] : k \in 1 .. n}
           /\ \A k \in 0 .. n : ZeroAt(u, k) = F[k]
<1>1. /\ n \in Nat /\ F[0] = 0 /\ Len(u) \in Nat
      /\ \A k \in 1 .. n : F[k] \in Nat /\ k \in 0 .. n /\ F[k] \in 1 .. Len(u)
  <2>1. n \in Nat /\ F[0] = 0 /\ Len(u) \in Nat
    BY CutIncreases DEF Cut
  <2>2. \A k \in 1 .. n : F[k - 1] \in Nat /\ F[k] \in Nat /\ F[k - 1] + 2 <= F[k]
                          /\ F[k] <= Len(u) /\ k \in 0 .. n
    BY CutIncreases
  <2> QED
    BY <2>1, <2>2
<1> DEFINE Z == Zeros(u)
           G == [k \in 1 .. n |-> F[k]]
<1>2. Z = {F[k] : k \in 1 .. n}
  <2>1. \A q \in 1 .. Len(u) : u[q] = 0 <=> \E k \in 1 .. n : q = F[k]
    BY DEF Cut
  <2> QED
    BY <1>1, <2>1 DEF Zeros
<1>3. /\ G \in [1 .. n -> Nat] /\ \A k \in 1 .. n : G[k] = F[k]
  BY <1>1
<1> HIDE DEF G, Z
<1>4. \A i, j \in 1 .. n : i < j => G[i] < G[j]
  BY <1>1, <1>3, CutIncreases
<1>5. Z = {G[k] : k \in 1 .. n}
  BY <1>2, <1>3
<1>6. Cardinality(Z) = n
  <2>1. n \in 0 .. n
    BY <1>1
  <2> QED
    BY <1>1, <1>3, <1>4, <1>5, <2>1, Ranked
<1>7. ASSUME NEW k \in 0 .. n PROVE ZeroAt(u, k) = F[k]
  <2>1. CASE k = 0
    BY <1>1, <2>1 DEF ZeroAt
  <2>2. CASE k # 0
    <3>1. k \in 1 .. n
      BY <1>1, <2>2
    <3>2. KthOf(Z, k) = G[k]
      BY <1>1, <1>3, <1>4, <1>5, <3>1, Picked
    <3>3. ZeroAt(u, k) = KthOf(Z, k)
      BY <2>2 DEF ZeroAt, KthOf, Z
    <3> QED
      BY <1>3, <3>1, <3>2, <3>3
  <2> QED
    BY <2>1, <2>2
<1> QED
  BY <1>2, <1>6, <1>7 DEF Z

\* The lines that are held are the model's.
LEMMA CutLines ==
    ASSUME NEW u \in Seq(Nat), NEW n, NEW F, Cut(u, n, F)
    PROVE  Holds(u, n, F, Lines(u))
<1>1. Lines(u) = [k \in 1 .. n |-> SubSeq(u, F[k - 1] + 1, F[k] - 1)]
  <2>1. \A k \in 1 .. n : k \in 0 .. n /\ k - 1 \in 0 .. n
    BY CutIncreases
  <2>2. \A k \in 1 .. n : ZeroAt(u, k - 1) = F[k - 1] /\ ZeroAt(u, k) = F[k]
    BY <2>1, CutZeros
  <2>3. Lines(u) = [k \in 1 .. n |-> SubSeq(u, ZeroAt(u, k - 1) + 1, ZeroAt(u, k) - 1)]
    BY CutZeros DEF Lines
  <2> QED
    BY <2>2, <2>3
<1>2. ASSUME NEW k \in 1 .. n
      PROVE  /\ SubSeq(u, F[k - 1] + 1, F[k] - 1) \in Seq(Nat)
             /\ Len(SubSeq(u, F[k - 1] + 1, F[k] - 1)) = F[k] - F[k - 1] - 1
             /\ \A j \in 1 .. F[k] - F[k - 1] - 1 :
                   SubSeq(u, F[k - 1] + 1, F[k] - 1)[j] = u[F[k - 1] + j]
  <2> DEFINE a == F[k - 1]
             b == F[k]
             t == SubSeq(u, a + 1, b - 1)
  <2>1. a \in Nat /\ b \in Nat /\ a + 2 <= b /\ b <= Len(u) /\ Len(u) \in Nat
    BY CutIncreases
  <2> HIDE DEF a, b
  <2>2. a + 1 \in Int /\ b - 1 \in Int
    BY <2>1
  <2>3. \A i \in a + 1 .. b - 1 : u[i] \in Nat
    <3>1. \A i \in a + 1 .. b - 1 : i \in 1 .. Len(u)
      BY <2>1
    <3> QED
      BY <3>1, ElementOfSeq
  <2>4. /\ t \in Seq(Nat) /\ Len(t) = IF a + 1 <= b - 1 THEN (b - 1) - (a + 1) + 1 ELSE 0
        /\ \A j \in 1 .. (b - 1) - (a + 1) + 1 : t[j] = u[(a + 1) + j - 1]
    BY <2>2, <2>3, SubSeqProperties
  <2> HIDE DEF t
  <2>5. Len(t) = b - a - 1
    BY <2>1, <2>4
  <2>6. \A j \in 1 .. b - a - 1 : t[j] = u[a + j]
    <3>1. \A j \in 1 .. b - a - 1 : j \in 1 .. (b - 1) - (a + 1) + 1 /\ (a + 1) + j - 1 = a + j
      BY <2>1
    <3> QED
      BY <2>4, <3>1
  <2> QED
    BY <2>4, <2>5, <2>6 DEF t, a, b
<1> DEFINE ls == Lines(u)
<1>3. ls \in [1 .. n -> Seq(Nat)] /\ \A k \in 1 .. n : ls[k] = SubSeq(u, F[k - 1] + 1, F[k] - 1)
  BY <1>1, <1>2
<1> HIDE DEF ls
<1>4. n \in Nat
  BY DEF Cut
<1>5. ls \in Seq(Seq(Nat)) /\ Len(ls) = n
  BY <1>3, <1>4, FunctionIsSeq
<1>6. \A k \in 1 .. n : /\ Len(ls[k]) = F[k] - F[k - 1] - 1
                        /\ \A j \in 1 .. Len(ls[k]) : ls[k][j] = u[F[k - 1] + j]
  BY <1>2, <1>3
<1> QED
  BY <1>5, <1>6 DEF Holds, ls

LEMMA LinesUnique ==
    ASSUME NEW u \in Seq(Nat), NEW n, NEW F, NEW ls, Holds(u, n, F, ls)
    PROVE  ls = Lines(u)
<1> DEFINE ks == Lines(u)
<1>1. Cut(u, n, F) /\ Holds(u, n, F, ks)
  BY CutLines DEF Holds
<1> HIDE DEF ks
<1>2. /\ n \in Nat /\ ls \in Seq(Seq(Nat)) /\ ks \in Seq(Seq(Nat)) /\ Len(ls) = n /\ Len(ks) = n
  BY <1>1 DEF Holds, Cut
<1>3. ASSUME NEW k \in 1 .. n PROVE ls[k] = ks[k]
  <2>1. ls[k] \in Seq(Nat) /\ ks[k] \in Seq(Nat)
    BY <1>2, ElementOfSeq
  <2>2. /\ Len(ls[k]) = Len(ks[k])
        /\ \A j \in 1 .. Len(ls[k]) : ls[k][j] = ks[k][j]
    <3>1. /\ Len(ls[k]) = F[k] - F[k - 1] - 1
          /\ \A j \in 1 .. Len(ls[k]) : ls[k][j] = u[F[k - 1] + j]
      BY DEF Holds
    <3>2. /\ Len(ks[k]) = F[k] - F[k - 1] - 1
          /\ \A j \in 1 .. Len(ks[k]) : ks[k][j] = u[F[k - 1] + j]
      BY <1>1 DEF Holds
    <3> QED
      BY <3>1, <3>2
  <2> QED
    BY <2>1, <2>2, SeqEqual
<1>4. ls = ks
  BY <1>2, <1>3, SeqEqual
<1> QED
  BY <1>4 DEF ks

\* A line w comes behind the others, with its zero.
LEMMA HoldsAppend ==
    ASSUME NEW u, NEW n, NEW F, NEW ls, Holds(u, n, F, ls), NEW w \in Seq(Nat \ {0}),
           Len(w) \in 1 .. NInput, NEW v, Len(v) = Len(u) + Len(w) + 1,
           \A k \in 1 .. Len(u) : v[k] = u[k],
           \A j \in 1 .. Len(w) : v[Len(u) + j] = w[j], v[Len(v)] = 0
    PROVE  \E G : Holds(v, n + 1, G, Append(ls, w))
<1> DEFINE a == Len(u)
           m == Len(w)
           b == Len(v)
           G == [k \in 0 .. n + 1 |-> IF k = n + 1 THEN b ELSE F[k]]
           ks == Append(ls, w)
<1>1. Cut(u, n, F)
  BY DEF Holds
<1>2. /\ n \in Nat /\ a \in Nat /\ m \in 1 .. NInput /\ NInput \in Nat /\ b = a + m + 1
      /\ F[n] = a /\ F[0] = 0 /\ F \in [0 .. n -> Nat]
  BY <1>1, CutIncreases, InputAssumption DEF Cut
<1>3. /\ ks \in Seq(Seq(Nat)) /\ Len(ks) = n + 1 /\ ks[n + 1] = w
      /\ \A k \in 1 .. n : ks[k] = ls[k]
  <2>1. ls \in Seq(Seq(Nat)) /\ Len(ls) = n
    BY DEF Holds
  <2>2. w \in Seq(Nat)
    BY SeqMono, Nat \ {0} \subseteq Nat
  <2> QED
    BY <2>1, <2>2, AppendProperties
<1> HIDE DEF a, m, b, ks
<1>4. G \in [0 .. n + 1 -> Nat] /\ \A k \in 0 .. n + 1 : G[k] = IF k = n + 1 THEN b ELSE F[k]
  BY <1>2
<1> HIDE DEF G
<1>5. ASSUME NEW k \in 1 .. n + 1
      PROVE  /\ k \in 1 .. n => G[k] = F[k] /\ G[k - 1] = F[k - 1]
             /\ k = n + 1 => G[k] = b /\ G[k - 1] = a
  <2>1. k \in 0 .. n + 1 /\ k - 1 \in 0 .. n + 1 /\ k - 1 # n + 1 /\ (k \in 1 .. n => k # n + 1)
    BY <1>2
  <2> QED
    BY <1>2, <1>4, <2>1
<1>6. \A k \in 1 .. n + 1 : k \in 1 .. n \/ k = n + 1
  BY <1>2
<1>7. ASSUME NEW k \in 1 .. n + 1 PROVE G[k] - G[k - 1] \in 2 .. NInput + 1
  <2>1. CASE k \in 1 .. n
    BY <1>1, <1>5, <2>1 DEF Cut
  <2>2. CASE k = n + 1
    BY <1>2, <1>5, <2>2
  <2> QED
    BY <1>6, <2>1, <2>2
<1>8. ASSUME NEW q \in 1 .. b PROVE v[q] = 0 <=> \E k \in 1 .. n + 1 : q = G[k]
  <2>0. \A k \in 1 .. n : G[k] = F[k] /\ k \in 1 .. n + 1 /\ F[k] \in Nat /\ F[k] <= a
    <3>1. \A k \in 1 .. n : k \in 1 .. n + 1
      BY <1>2
    <3>2. \A k \in 1 .. n : F[k] \in Nat /\ F[k] <= a
      BY <1>1, CutIncreases DEF a
    <3> QED
      BY <1>5, <3>1, <3>2
  <2>1. G[n + 1] = b /\ n + 1 \in 1 .. n + 1
    <3>1. n + 1 \in 1 .. n + 1
      BY <1>2
    <3> QED
      BY <1>5, <3>1
  <2>2. CASE q \in 1 .. a
    <3>1. v[q] = 0 <=> \E k \in 1 .. n : q = F[k]
      BY <1>1, <2>2 DEF Cut, a
    <3>2. q # b
      BY <1>2, <2>2
    <3>3. (\E k \in 1 .. n + 1 : q = G[k]) <=> \E k \in 1 .. n : q = F[k]
      BY <1>6, <2>0, <2>1, <3>2
    <3> QED
      BY <3>1, <3>3
  <2>3. CASE q = b
    BY <2>1, <2>3 DEF b
  <2>4. CASE q \notin 1 .. a /\ q # b
    <3> DEFINE j == q - a
    <3>1. j \in 1 .. m /\ a + j = q /\ q > a
      BY <1>2, <2>4
    <3>2. v[q] = w[j]
      BY <3>1 DEF a, m
    <3>3. w[j] # 0
      BY <3>1, ElementOfSeq DEF m
    <3>4. \A k \in 1 .. n + 1 : q # G[k]
      <4> TAKE k \in 1 .. n + 1
      <4>1. CASE k \in 1 .. n
        BY <1>2, <2>0, <3>1, <4>1
      <4>2. CASE k = n + 1
        BY <2>1, <2>4, <4>2
      <4> QED
        BY <1>6, <4>1, <4>2
    <3> QED
      BY <3>2, <3>3, <3>4
  <2> QED
    BY <2>2, <2>3, <2>4
<1>9. G[0] = 0 /\ G[n + 1] = b /\ n + 1 \in Nat
  <2>1. 0 \in 0 .. n + 1 /\ 0 # n + 1 /\ n + 1 \in 0 .. n + 1
    BY <1>2
  <2> QED
    BY <1>2, <1>4, <2>1
<1>10. Cut(v, n + 1, G)
  BY <1>4, <1>7, <1>8, <1>9 DEF Cut, b
<1>11. ASSUME NEW k \in 1 .. n + 1
       PROVE  /\ Len(ks[k]) = G[k] - G[k - 1] - 1
              /\ \A j \in 1 .. Len(ks[k]) : ks[k][j] = v[G[k - 1] + j]
  <2>1. CASE k \in 1 .. n
    <3> DEFINE x == F[k - 1]  y == F[k]
    <3>1. Len(ls[k]) = y - x - 1 /\ \A j \in 1 .. Len(ls[k]) : ls[k][j] = u[x + j]
      BY <2>1 DEF Holds
    <3>2. x \in Nat /\ y \in Nat /\ y <= a
      BY <1>1, <2>1, CutIncreases DEF a
    <3> HIDE DEF x, y
    <3>3. \A j \in 1 .. Len(ls[k]) : x + j \in 1 .. a
      BY <1>2, <3>1, <3>2
    <3>4. \A j \in 1 .. Len(ls[k]) : ls[k][j] = v[x + j]
      BY <3>1, <3>3 DEF a
    <3> QED
      BY <1>3, <1>5, <2>1, <3>1, <3>4 DEF x, y
  <2>2. CASE k = n + 1
    <3> DEFINE x == G[k]  y == G[k - 1]
    <3>0. ks[k] = w /\ Len(w) = m /\ x = b /\ y = a
      BY <1>3, <1>5, <2>2 DEF m
    <3> HIDE DEF x, y
    <3>1. x - y - 1 = m
      BY <1>2, <3>0
    <3>2. \A j \in 1 .. m : w[j] = v[a + j]
      BY DEF a, m
    <3> QED
      BY <3>0, <3>1, <3>2 DEF x, y
  <2> QED
    BY <1>6, <2>1, <2>2
<1>12. Holds(v, n + 1, G, ks)
  BY <1>3, <1>10, <1>11 DEF Holds
<1> QED
  BY <1>12 DEF ks

\* The first line is taken with its zero.
LEMMA HoldsDrop ==
    ASSUME NEW u, NEW n, NEW F, NEW ls, Holds(u, n, F, ls), n # 0,
           NEW v, Len(v) = Len(u) - F[1], \A k \in 1 .. Len(v) : v[k] = u[k + F[1]]
    PROVE  \E G : Holds(v, n - 1, G, Tail(ls))
<1> DEFINE a == Len(u)
           b == Len(v)
           d == F[1]
           G == [k \in 0 .. n - 1 |-> F[k + 1] - d]
           ks == Tail(ls)
<1>1. Cut(u, n, F)
  BY DEF Holds
<1>2. n \in Nat \ {0} /\ a \in Nat /\ F[n] = a /\ F \in [0 .. n -> Nat]
  BY <1>1, CutIncreases DEF Cut
<1>3. 1 \in 1 .. n /\ d \in Nat /\ d <= a /\ d >= 2 /\ b = a - d /\ b \in Nat
  <2>1. 1 \in 1 .. n
    BY <1>2
  <2>2. F[1 - 1] \in Nat /\ d \in Nat /\ F[1 - 1] + 2 <= d /\ d <= a
    BY <1>1, <2>1, CutIncreases
  <2> HIDE DEF d, a
  <2> QED
    BY <1>2, <2>1, <2>2 DEF d, a
<1>4. /\ ks \in Seq(Seq(Nat)) /\ Len(ks) = n - 1
      /\ \A k \in 1 .. n - 1 : ks[k] = ls[k + 1]
  <2>1. ls \in Seq(Seq(Nat)) /\ Len(ls) = n /\ ls # <<>>
    BY <1>2 DEF Holds
  <2> QED
    BY <2>1, HeadTailProperties
<1>5. \A i \in 1 .. n : F[i] \in Nat /\ d <= F[i] /\ F[i] <= a /\ i \in 0 .. n
  <2> TAKE i \in 1 .. n
  <2>1. F[i] \in Nat /\ F[i] <= a /\ i \in 0 .. n
    BY <1>1, CutIncreases
  <2>2. 1 \in 0 .. n /\ (i = 1 \/ 1 < i)
    BY <1>2
  <2>3. 1 < i => F[1] < F[i]
    BY <1>1, <2>1, <2>2, CutIncreases
  <2> QED
    BY <1>3, <2>1, <2>2, <2>3
<1> HIDE DEF a, b, d, ks
<1>6. G \in [0 .. n - 1 -> Nat] /\ \A k \in 0 .. n - 1 : G[k] = F[k + 1] - d
  <2>1. \A k \in 0 .. n - 1 : F[k + 1] - d \in Nat
    <3> TAKE k \in 0 .. n - 1
    <3>1. k + 1 \in 1 .. n
      BY <1>2
    <3>2. F[k + 1] \in Nat /\ d <= F[k + 1]
      BY <1>5, <3>1
    <3> QED
      BY <1>3, <3>2
  <2> QED
    BY <2>1
<1> HIDE DEF G
<1>7. ASSUME NEW k \in 1 .. n - 1
      PROVE  /\ k + 1 \in 1 .. n /\ G[k] = F[k + 1] - d /\ G[k - 1] = F[(k + 1) - 1] - d
             /\ F[k + 1] \in Nat /\ F[(k + 1) - 1] \in Nat /\ d <= F[(k + 1) - 1]
             /\ (k + 1) - 1 = k
  <2>1. k + 1 \in 1 .. n /\ k \in 0 .. n - 1 /\ k - 1 \in 0 .. n - 1 /\ (k - 1) + 1 = k
        /\ (k + 1) - 1 = k /\ k \in 1 .. n
    BY <1>2
  <2> QED
    BY <1>5, <1>6, <2>1
<1>8. ASSUME NEW k \in 1 .. n - 1 PROVE G[k] - G[k - 1] \in 2 .. NInput + 1
  <2>1. F[k + 1] - F[(k + 1) - 1] \in 2 .. NInput + 1
    BY <1>1, <1>7 DEF Cut
  <2>2. G[k] - G[k - 1] = F[k + 1] - F[(k + 1) - 1]
    <3> DEFINE x == F[k + 1]  y == F[(k + 1) - 1]
    <3>1. x \in Nat /\ y \in Nat /\ G[k] = x - d /\ G[k - 1] = y - d
      BY <1>7
    <3> HIDE DEF x, y
    <3>2. G[k] - G[k - 1] = x - y
      BY <1>3, <3>1
    <3> QED
      BY <3>2 DEF x, y
  <2> QED
    BY <2>1, <2>2
<1>9. ASSUME NEW q \in 1 .. b PROVE v[q] = 0 <=> \E k \in 1 .. n - 1 : q = G[k]
  <2>1. q + d \in 1 .. a /\ v[q] = u[q + d]
    BY <1>2, <1>3 DEF b, d
  <2>2. v[q] = 0 <=> \E i \in 1 .. n : q + d = F[i]
    BY <1>1, <2>1 DEF Cut, a
  <2>3. ASSUME NEW i \in 1 .. n, q + d = F[i] PROVE \E k \in 1 .. n - 1 : q = G[k]
    <3>1. i # 1
      BY <1>3, <2>3 DEF d
    <3>2. i - 1 \in 1 .. n - 1 /\ (i - 1) + 1 = i
      BY <1>2, <3>1
    <3>3. G[i - 1] = F[i] - d
      BY <1>7, <3>2
    <3> QED
      BY <1>3, <1>5, <2>3, <3>2, <3>3
  <2>4. ASSUME NEW k \in 1 .. n - 1, q = G[k] PROVE \E i \in 1 .. n : q + d = F[i]
    <3>1. k + 1 \in 1 .. n /\ q + d = F[k + 1]
      BY <1>3, <1>7, <2>4
    <3> QED
      BY <3>1
  <2> QED
    BY <2>2, <2>3, <2>4
<1>10. G[0] = 0 /\ G[n - 1] = b /\ n - 1 \in Nat
  <2>1. 0 \in 0 .. n - 1 /\ n - 1 \in 0 .. n - 1 /\ (n - 1) + 1 = n /\ 0 + 1 = 1
    BY <1>2
  <2>2. G[0] = d - d /\ G[n - 1] = a - d
    BY <1>2, <1>6, <2>1 DEF d
  <2> QED
    BY <1>2, <1>3, <2>2
<1>11. Cut(v, n - 1, G)
  BY <1>6, <1>8, <1>9, <1>10 DEF Cut, b
<1>12. ASSUME NEW k \in 1 .. n - 1
       PROVE  /\ Len(ks[k]) = G[k] - G[k - 1] - 1
              /\ \A j \in 1 .. Len(ks[k]) : ks[k][j] = v[G[k - 1] + j]
  <2> DEFINE x == F[(k + 1) - 1]  y == F[k + 1]  t == ls[k + 1]
  <2>1. Len(t) = y - x - 1 /\ \A j \in 1 .. Len(t) : t[j] = u[x + j]
    BY <1>7 DEF Holds
  <2>2. x \in Nat /\ y \in Nat /\ y <= a /\ d <= x /\ G[k] = y - d /\ G[k - 1] = x - d
    BY <1>5, <1>7
  <2>3. ks[k] = t
    BY <1>4
  <2> HIDE DEF x, y, t
  <2>4. Len(t) = G[k] - G[k - 1] - 1
    BY <1>3, <2>1, <2>2
  <2>5. ASSUME NEW j \in 1 .. Len(t) PROVE t[j] = v[G[k - 1] + j]
    <3>1. x - d + j \in 1 .. b /\ (x - d + j) + d = x + j
      BY <1>2, <1>3, <2>1, <2>2
    <3>2. v[x - d + j] = u[x + j]
      BY <3>1 DEF b, d
    <3> QED
      BY <2>1, <2>2, <3>2
  <2> QED
    BY <2>3, <2>4, <2>5
<1>13. Holds(v, n - 1, G, ks)
  BY <1>4, <1>11, <1>12 DEF Holds
<1> QED
  BY <1>13 DEF ks

\* The first d bytes of the first line are taken.
LEMMA HoldsPart ==
    ASSUME NEW u, NEW n, NEW F, NEW ls, Holds(u, n, F, ls), n # 0, NEW d \in Nat, d + 2 <= F[1],
           NEW v, Len(v) = Len(u) - d, \A k \in 1 .. Len(v) : v[k] = u[k + d],
           NEW w \in Seq(Nat), Len(w) = F[1] - 1 - d, \A j \in 1 .. Len(w) : w[j] = u[d + j]
    PROVE  \E G : Holds(v, n, G, <<w>> \o Tail(ls))
<1> DEFINE a == Len(u)
           b == Len(v)
           c == F[1]
           G == [k \in 0 .. n |-> IF k = 0 THEN 0 ELSE F[k] - d]
           ks == <<w>> \o Tail(ls)
<1>1. Cut(u, n, F)
  BY DEF Holds
<1>2. n \in Nat \ {0} /\ a \in Nat /\ F[n] = a /\ F \in [0 .. n -> Nat] /\ F[0] = 0
  BY <1>1, CutIncreases DEF Cut
<1>3. 1 \in 1 .. n /\ c \in Nat /\ c <= a /\ c <= NInput + 1 /\ NInput \in Nat
  <2>1. 1 \in 1 .. n
    BY <1>2
  <2>2. c \in Nat /\ c <= a
    BY <1>1, <2>1, CutIncreases
  <2>3. F[1] - F[1 - 1] \in 2 .. NInput + 1 /\ F[1 - 1] = 0 /\ NInput \in Nat
    BY <1>1, <1>2, <2>1, InputAssumption DEF Cut
  <2> HIDE DEF a
  <2> QED
    BY <2>1, <2>2, <2>3
<1>4. /\ ks \in Seq(Seq(Nat)) /\ Len(ks) = n /\ ks[1] = w
      /\ \A k \in 2 .. n : ks[k] = ls[k]
  <2> DEFINE t == Tail(ls)
  <2>1. ls \in Seq(Seq(Nat)) /\ Len(ls) = n /\ ls # <<>>
    BY <1>2 DEF Holds
  <2>2. t \in Seq(Seq(Nat)) /\ Len(t) = n - 1 /\ \A i \in 1 .. n - 1 : t[i] = ls[i + 1]
    BY <2>1, HeadTailProperties
  <2>3. <<w>> \in Seq(Seq(Nat)) /\ Len(<<w>>) = 1 /\ <<w>>[1] = w
    OBVIOUS
  <2> DEFINE x == <<w>>
  <2> HIDE DEF t, x
  <2>4. /\ x \o t \in Seq(Seq(Nat)) /\ Len(x \o t) = 1 + (n - 1)
        /\ \A i \in 1 .. 1 + (n - 1) : (x \o t)[i] = IF i <= 1 THEN x[i] ELSE t[i - 1]
    BY <2>2, <2>3, ConcatProperties DEF x
  <2>5. 1 \in 1 .. 1 + (n - 1) /\ 1 + (n - 1) = n
    BY <1>2
  <2>6. ASSUME NEW k \in 2 .. n PROVE (x \o t)[k] = ls[k]
    <3>1. k \in 1 .. 1 + (n - 1) /\ ~(k <= 1) /\ k - 1 \in 1 .. n - 1 /\ (k - 1) + 1 = k
      BY <1>2
    <3> QED
      BY <2>2, <2>4, <3>1
  <2>7. (x \o t)[1] = w
    BY <2>3, <2>4, <2>5 DEF x
  <2> QED
    BY <2>4, <2>5, <2>6, <2>7 DEF x, t
<1>5. \A i \in 1 .. n : F[i] \in Nat /\ c <= F[i] /\ F[i] <= a /\ i \in 0 .. n
  <2> TAKE i \in 1 .. n
  <2>1. F[i] \in Nat /\ F[i] <= a /\ i \in 0 .. n
    BY <1>1, CutIncreases
  <2>2. 1 \in 0 .. n /\ (i = 1 \/ 1 < i)
    BY <1>2
  <2>3. 1 < i => F[1] < F[i]
    BY <1>1, <2>1, <2>2, CutIncreases
  <2> QED
    BY <1>3, <2>1, <2>2, <2>3
<1>6. d + 2 <= c /\ b = a - d /\ b \in Nat
  BY <1>2, <1>3
<1> HIDE DEF a, b, c, ks
<1>7. G \in [0 .. n -> Nat] /\ G[0] = 0 /\ \A k \in 1 .. n : G[k] = F[k] - d
  <2>1. \A k \in 1 .. n : F[k] - d \in Nat
    BY <1>3, <1>5, <1>6
  <2>2. \A k \in 0 .. n : k = 0 \/ k \in 1 .. n
    BY <1>2
  <2>3. 0 \in 0 .. n /\ \A k \in 1 .. n : k \in 0 .. n /\ k # 0
    BY <1>2
  <2> QED
    BY <2>1, <2>2, <2>3
<1> HIDE DEF G
<1>8. ASSUME NEW k \in 2 .. n
      PROVE  /\ k \in 1 .. n /\ k - 1 \in 1 .. n /\ G[k - 1] = F[k - 1] - d /\ G[k] = F[k] - d
             /\ F[k] \in Nat /\ F[k - 1] \in Nat /\ c <= F[k - 1] /\ F[k] <= a
  <2>1. k \in 1 .. n /\ k - 1 \in 1 .. n
    BY <1>2
  <2> QED
    BY <1>5, <1>7, <2>1
<1>9. ASSUME NEW k \in 1 .. n PROVE G[k] - G[k - 1] \in 2 .. NInput + 1
  <2>1. CASE k = 1
    <3>0. 1 - 1 = 0 /\ G[1] = F[1] - d
      BY <1>3, <1>7
    <3>1. G[k] = c - d /\ G[k - 1] = 0
      BY <1>7, <2>1, <3>0 DEF c
    <3>2. c - d \in 2 .. NInput + 1
      BY <1>3, <1>6
    <3> QED
      BY <3>1, <3>2
  <2>2. CASE k # 1
    <3>1. k \in 2 .. n
      BY <1>2, <2>2
    <3>2. F[k] - F[k - 1] \in 2 .. NInput + 1
      BY <1>1 DEF Cut
    <3>3. G[k] - G[k - 1] = F[k] - F[k - 1]
      BY <1>8, <3>1
    <3> QED
      BY <3>2, <3>3
  <2> QED
    BY <2>1, <2>2
<1>10. ASSUME NEW q \in 1 .. b PROVE v[q] = 0 <=> \E k \in 1 .. n : q = G[k]
  <2>1. q + d \in 1 .. a /\ v[q] = u[q + d]
    BY <1>2, <1>6 DEF b
  <2>2. v[q] = 0 <=> \E i \in 1 .. n : q + d = F[i]
    BY <1>1, <2>1 DEF Cut, a
  <2>3. ASSUME NEW k \in 1 .. n PROVE q + d = F[k] <=> q = G[k]
    <3> DEFINE x == F[k]
    <3>1. x \in Nat /\ G[k] = x - d /\ q \in Nat
      BY <1>5, <1>6, <1>7
    <3> HIDE DEF x
    <3>2. q + d = x <=> q = G[k]
      BY <3>1
    <3> QED
      BY <3>2 DEF x
  <2> QED
    BY <2>2, <2>3
<1>11. G[n] = b
  <2>1. n \in 1 .. n
    BY <1>2
  <2> QED
    BY <1>2, <1>6, <1>7, <2>1
<1>12. Cut(v, n, G)
  BY <1>2, <1>7, <1>9, <1>10, <1>11 DEF Cut, b
<1>13. ASSUME NEW k \in 1 .. n
       PROVE  /\ Len(ks[k]) = G[k] - G[k - 1] - 1
              /\ \A j \in 1 .. Len(ks[k]) : ks[k][j] = v[G[k - 1] + j]
  <2>1. CASE k = 1
    <3>1. ks[k] = w /\ G[k] = c - d /\ G[k - 1] = 0 /\ Len(w) = c - 1 - d
      BY <1>3, <1>4, <1>7, <2>1 DEF c
    <3>2. ASSUME NEW j \in 1 .. Len(w) PROVE w[j] = v[0 + j]
      <4>1. j \in 1 .. b /\ j + d = d + j /\ 0 + j = j
        BY <1>2, <1>3, <1>6, <3>1
      <4>2. v[j] = u[d + j] /\ w[j] = u[d + j]
        BY <4>1 DEF b
      <4> QED
        BY <4>1, <4>2
    <3> QED
      BY <1>3, <3>1, <3>2
  <2>2. CASE k # 1
    <3> DEFINE x == F[k - 1]  y == F[k]  t == ls[k]
    <3>1. k \in 2 .. n
      BY <1>2, <2>2
    <3>2. Len(t) = y - x - 1 /\ \A j \in 1 .. Len(t) : t[j] = u[x + j]
      BY DEF Holds
    <3>3. x \in Nat /\ y \in Nat /\ y <= a /\ c <= x /\ G[k] = y - d /\ G[k - 1] = x - d
      BY <1>8, <3>1
    <3>4. ks[k] = t
      BY <1>4, <3>1
    <3> HIDE DEF x, y, t
    <3>5. Len(t) = G[k] - G[k - 1] - 1
      BY <3>2, <3>3
    <3>6. ASSUME NEW j \in 1 .. Len(t) PROVE t[j] = v[G[k - 1] + j]
      <4>1. x - d + j \in 1 .. b /\ (x - d + j) + d = x + j
        BY <1>2, <1>3, <1>6, <3>2, <3>3
      <4>2. v[x - d + j] = u[x + j]
        BY <4>1 DEF b
      <4> QED
        BY <3>2, <3>3, <4>2
    <3> QED
      BY <3>4, <3>5, <3>6
  <2> QED
    BY <2>1, <2>2
<1>14. Holds(v, n, G, ks)
  BY <1>4, <1>12, <1>13 DEF Holds
<1> QED
  BY <1>14 DEF ks

LEMMA WholeIsCut ==
    ASSUME NEW u \in Seq(Nat), WholeLines(u)
    PROVE  \E n, F : Cut(u, n, F)
<1> DEFINE n == Cardinality(Zeros(u))
           F == [k \in 0 .. n |-> ZeroAt(u, k)]
<1>1. n \in Nat
  <2>1. IsFiniteSet(1 .. Len(u))
    <3>1. Len(u) \in Nat
      BY LenProperties
    <3> QED
      BY <3>1, FS_Interval
  <2>2. IsFiniteSet(Zeros(u))
    BY <2>1, FS_Subset DEF Zeros
  <2> QED
    BY <2>2, FS_CardinalityType
<1>2. /\ Zeros(u) = {ZeroAt(u, k) : k \in 1 .. n} /\ ZeroAt(u, n) = Len(u) /\ ZeroAt(u, 0) = 0
      /\ \A k \in 1 .. n : ZeroAt(u, k) - ZeroAt(u, k - 1) \in 2 .. NInput + 1
  BY DEF WholeLines, ZeroAt
<1> HIDE DEF n
<1>3. \A k \in 0 .. n : ZeroAt(u, k) \in Nat
  <2>1. \A q \in Zeros(u) : q \in Nat
    BY DEF Zeros
  <2>2. \A k \in 1 .. n : ZeroAt(u, k) \in Nat
    BY <1>2, <2>1
  <2>3. \A k \in 0 .. n : k = 0 \/ k \in 1 .. n
    BY <1>1
  <2> QED
    BY <1>2, <2>2, <2>3
<1>4. F \in [0 .. n -> Nat] /\ \A k \in 0 .. n : F[k] = ZeroAt(u, k)
  BY <1>3
<1> HIDE DEF F
<1>5. \A k \in 1 .. n : F[k] = ZeroAt(u, k) /\ F[k - 1] = ZeroAt(u, k - 1)
  <2>1. \A k \in 1 .. n : k \in 0 .. n /\ k - 1 \in 0 .. n
    BY <1>1
  <2> QED
    BY <1>4, <2>1
<1>6. F[0] = 0 /\ F[n] = Len(u)
  <2>1. 0 \in 0 .. n /\ n \in 0 .. n
    BY <1>1
  <2> QED
    BY <1>2, <1>4, <2>1
<1>7. \A q \in 1 .. Len(u) : u[q] = 0 <=> \E k \in 1 .. n : q = F[k]
  <2>1. \A q \in 1 .. Len(u) : u[q] = 0 <=> q \in Zeros(u)
    BY DEF Zeros
  <2> QED
    BY <1>2, <1>5, <2>1
<1>8. Cut(u, n, F)
  BY <1>1, <1>2, <1>4, <1>5, <1>6, <1>7 DEF Cut
<1> QED
  BY <1>8

LEMMA CutIsWhole ==
    ASSUME NEW u, NEW n, NEW F, Cut(u, n, F)
    PROVE  WholeLines(u)
<1>1. /\ Cardinality(Zeros(u)) = n /\ Zeros(u) = {F[k] : k \in 1 .. n}
      /\ \A k \in 0 .. n : ZeroAt(u, k) = F[k]
  BY CutZeros
<1>2. n \in Nat /\ F[n] = Len(u) /\ \A k \in 1 .. n : F[k] - F[k - 1] \in 2 .. NInput + 1
  BY DEF Cut
<1>3. n \in 0 .. n /\ \A k \in 1 .. n : k \in 0 .. n /\ k - 1 \in 0 .. n
  BY <1>2
<1>4. Zeros(u) = {ZeroAt(u, k) : k \in 1 .. n}
  BY <1>1, <1>3
<1>5. ZeroAt(u, n) = Len(u)
  BY <1>1, <1>2, <1>3
<1>6. \A k \in 1 .. n : ZeroAt(u, k) - ZeroAt(u, k - 1) \in 2 .. NInput + 1
  BY <1>1, <1>2, <1>3
<1> QED
  BY <1>1, <1>4, <1>5, <1>6 DEF WholeLines

-----------------------------------------------------------------------------
(***************************************************************************)
(* canonic_wakeup_read: a reader gets the first line or its beginning.     *)
(***************************************************************************)
\* What is left of the lines when n characters are read.
After(ls, n) ==
    LET rest == SubSeq(Head(ls), n + 1, Len(Head(ls)))
    IN  IF rest = <<>> THEN Tail(ls) ELSE <<rest>> \o Tail(ls)

\* The ring ip from g to h holds the lines ls.
Ringed(ip, g, h, ls) ==
    /\ ip \in [Ring -> Nat] /\ g \in Ring /\ h \in Ring
    /\ \E n, F : Holds(Bytes(ip, g, h), n, F, ls)

\* The first line of a ring that is not empty.
LEMMA FirstLine ==
    ASSUME NEW ip, NEW g, NEW h, NEW ls, Ringed(ip, g, h, ls), g # h, NEW n, NEW F,
           Holds(Bytes(ip, g, h), n, F, ls)
    PROVE  /\ n # 0 /\ ls # <<>> /\ Head(ls) \in Seq(Nat) /\ F[1] \in Nat
           /\ Len(Head(ls)) = F[1] - 1 /\ Len(Head(ls)) \in 1 .. NInput
           /\ F[1] <= Wrap(h - g) /\ Wrap(h - g) \in Ring
           /\ \A j \in 0 .. F[1] - 2 : ip[Wrap(g + j)] = Head(ls)[j + 1] /\ ip[Wrap(g + j)] # 0
           /\ ip[Wrap(g + (F[1] - 1))] = 0
           /\ \A j \in 1 .. F[1] - 1 : Head(ls)[j] = Bytes(ip, g, h)[j]
<1> DEFINE u == Bytes(ip, g, h)
           c == F[1]
           first == Head(ls)
           l == Wrap(h - g)
<1>1. /\ u \in Seq(Nat) /\ Len(u) = l /\ l \in Ring /\ l = IF g <= h THEN h - g ELSE h - g + NPool
      /\ \A k \in 1 .. l : u[k] = ip[Wrap(g + k - 1)]
  BY BytesFacts DEF Ringed
<1>2. l # 0 /\ g \in Nat /\ h \in Nat
  <2>1. g \in 0 .. NPool - 1 /\ h \in 0 .. NPool - 1 /\ NPool \in Nat
    BY RingSize DEF Ringed
  <2> HIDE DEF l
  <2> QED
    BY <1>1, <2>1
<1>3. Cut(u, n, F) /\ ls \in Seq(Seq(Nat)) /\ Len(ls) = n
  BY DEF Holds
<1>4. n \in Nat /\ n # 0 /\ 1 \in 1 .. n
  <2> HIDE DEF u
  <2>1. n \in Nat /\ n # 0
    BY <1>1, <1>2, <1>3, CutIncreases
  <2> QED
    BY <2>1
<1>5. /\ ls # <<>> /\ first = ls[1] /\ first \in Seq(Nat)
  BY <1>3, <1>4, EmptySeq, HeadTailProperties, ElementOfSeq
<1>6. F[1 - 1] = 0 /\ F[1] - F[1 - 1] \in 2 .. NInput + 1 /\ c \in Nat /\ c <= l
  <2>1. F[1 - 1] = 0 /\ F[1] - F[1 - 1] \in 2 .. NInput + 1
    BY <1>3, <1>4 DEF Cut
  <2> HIDE DEF u
  <2>2. c \in Nat /\ c <= Len(u)
    BY <1>3, <1>4, CutIncreases
  <2> QED
    BY <1>1, <2>1, <2>2
<1>7. /\ Len(first) = F[1] - F[1 - 1] - 1
      /\ \A j \in 1 .. Len(first) : first[j] = u[F[1 - 1] + j]
  BY <1>4, <1>5 DEF Holds
<1> HIDE DEF u, l, first
<1>8. NInput \in Nat /\ NPool \in Nat /\ l \in Nat
  <2>1. l \in 0 .. NPool - 1
    BY <1>1, RingSize
  <2> QED
    BY <2>1, RingSize, InputAssumption
<1>9. Len(first) = c - 1 /\ c \in 2 .. NInput + 1
  BY <1>6, <1>7, <1>8
<1>10. \A j \in 1 .. c - 1 : first[j] = u[j]
  <2>1. \A j \in 1 .. c - 1 : 0 + j = j
    BY <1>8, <1>9
  <2> QED
    BY <1>6, <1>7, <1>9, <2>1
<1>11. \A j \in 1 .. c - 1 : u[j] # 0
  <2> TAKE j \in 1 .. c - 1
  <2>1. j \in 1 .. l
    BY <1>6, <1>8
  <2>2. \A k \in 1 .. n : j # F[k]
    <3> TAKE k \in 1 .. n
    <3>1. F[k] \in Nat /\ k \in 0 .. n /\ 1 \in 0 .. n /\ (k = 1 \/ 1 < k)
      BY <1>3, <1>4, CutIncreases
    <3>2. 1 < k => c < F[k]
      BY <1>3, <3>1, CutIncreases
    <3> QED
      BY <1>6, <3>1, <3>2
  <2> QED
    BY <1>1, <1>3, <2>1, <2>2 DEF Cut
<1>12. u[c] = 0 /\ c \in 1 .. l
  <2>1. c \in 1 .. l
    BY <1>6, <1>8, <1>9
  <2> QED
    BY <1>1, <1>3, <1>4, <2>1 DEF Cut
<1>13. \A j \in 0 .. c - 2 : ip[Wrap(g + j)] = first[j + 1] /\ ip[Wrap(g + j)] # 0
  <2> TAKE j \in 0 .. c - 2
  <2>1. j + 1 \in 1 .. l /\ j + 1 \in 1 .. c - 1 /\ g + (j + 1) - 1 = g + j
    BY <1>2, <1>6, <1>8
  <2> QED
    BY <1>1, <1>10, <1>11, <2>1
<1>14. ip[Wrap(g + (c - 1))] = 0
  <2>1. g + c - 1 = g + (c - 1)
    BY <1>2, <1>6
  <2> QED
    BY <1>1, <1>12, <2>1
<1>15. Len(first) \in 1 .. NInput
  BY <1>8, <1>9
<1> QED
  BY <1>1, <1>4, <1>5, <1>6, <1>9, <1>10, <1>13, <1>14, <1>15 DEF u, l, first

\* How much is read.
LEMMA ReadLength ==
    ASSUME NEW ip, NEW h, NEW ls, Ringed(ip, f, h, ls), f # h, NEW length \in Nat
    PROVE  /\ ls # <<>> /\ Head(ls) \in Seq(Nat) /\ Len(Head(ls)) \in 1 .. NInput
           /\ NRead(ip, length) = IF length < Len(Head(ls)) THEN length ELSE Len(Head(ls))
<1> DEFINE first == Head(ls)
<1>1. PICK n, F : Holds(Bytes(ip, f, h), n, F, ls)
  BY DEF Ringed
<1> DEFINE c == F[1]
           d == IF length < Len(first) THEN length ELSE Len(first)
           P(m) == /\ m = length \/ ip[Wrap(f + m)] = 0
                   /\ \A k \in 0 .. m - 1 : ip[Wrap(f + k)] # 0
<1>2. /\ ls # <<>> /\ first \in Seq(Nat) /\ c \in Nat /\ Len(first) = c - 1
      /\ Len(first) \in 1 .. NInput
      /\ \A j \in 0 .. c - 2 : ip[Wrap(f + j)] # 0
      /\ ip[Wrap(f + (c - 1))] = 0
  BY <1>1, FirstLine
<1> HIDE DEF first, c
<1>3. NInput \in Nat /\ c >= 2 /\ d \in 0 .. length /\ (d = length \/ d = c - 1) /\ d <= c - 1
  BY <1>2, InputAssumption
<1>4. P(d)
  <2>1. d = length \/ ip[Wrap(f + d)] = 0
    BY <1>2, <1>3
  <2>2. \A k \in 0 .. d - 1 : k \in 0 .. c - 2
    BY <1>2, <1>3
  <2> QED
    BY <1>2, <2>1, <2>2
<1>5. ASSUME NEW m \in 0 .. length, P(m) PROVE m = d
  <2>1. CASE m < d
    <3>1. m # length /\ m \in 0 .. c - 2
      BY <1>2, <1>3, <2>1
    <3> QED
      BY <1>2, <1>5, <3>1
  <2>2. CASE d < m
    <3>1. d # length /\ d = c - 1 /\ c - 1 \in 0 .. m - 1
      BY <1>2, <1>3, <2>2
    <3> QED
      BY <1>2, <1>5, <3>1
  <2> QED
    BY <1>3, <2>1, <2>2
<1> HIDE DEF d
<1>6. NRead(ip, length) = CHOOSE m \in 0 .. length : P(m)
  BY DEF NRead, Wrap
<1> HIDE DEF P
<1>7. (CHOOSE m \in 0 .. length : P(m)) = d
  BY <1>3, <1>4, <1>5
<1> QED
  BY <1>2, <1>6, <1>7 DEF d, first

\* What is left of a line after its first d characters.
LEMMA RestOfLine ==
    ASSUME NEW s \in Seq(Nat), NEW d \in 0 .. Len(s), NEW w, w = SubSeq(s, d + 1, Len(s))
    PROVE  /\ w \in Seq(Nat) /\ Len(w) = Len(s) - d
           /\ \A j \in 1 .. Len(w) : w[j] = s[d + j]
           /\ w = <<>> <=> d = Len(s)
<1>1. Len(s) \in Nat /\ d \in Nat
  BY LenProperties
<1>2. w \in Seq(Nat) /\ Len(w) = Len(s) - d /\ \A j \in 1 .. Len(s) - d : w[j] = s[d + j]
  BY Cutting DEF IsCut
<1>3. w = <<>> <=> Len(w) = 0
  BY <1>2, EmptySeq
<1> QED
  BY <1>1, <1>2, <1>3

LEMMA WrapNext ==
    ASSUME NEW a \in Nat, a + 1 < 2 * NPool
    PROVE  Wrap(Wrap(a) + 1) = Wrap(a + 1)
<1> DEFINE b == a + 1
           g == Wrap(a)
           e == g + 1
<1>1. NPool \in Nat \ {0} /\ b \in Nat /\ b < 2 * NPool /\ a < 2 * NPool /\ b = a + 1
  BY RingSize
<1> HIDE DEF b
<1>2. Wrap(b) = (IF b < NPool THEN b ELSE b - NPool) /\ g = (IF a < NPool THEN a ELSE a - NPool)
  BY <1>1, WrapUp
<1> HIDE DEF g
<1>3. e \in Nat /\ e < 2 * NPool /\ e = g + 1
  BY <1>1, <1>2
<1> HIDE DEF e
<1>4. Wrap(e) = IF e < NPool THEN e ELSE e - NPool
  BY <1>3, WrapUp
<1>5. Wrap(e) = Wrap(b)
  BY <1>1, <1>2, <1>3, <1>4
<1> QED
  BY <1>5 DEF b, e, g

\* The reader's bytes, and the ring after them.
BytesRead(ip, d) == [k \in 1 .. d |-> ip[(f + k - 1) % NPool]]

LEMMA ReadFacts ==
    ASSUME NEW ip, NEW h, NEW ls, Ringed(ip, f, h, ls), f # h, NEW length \in Nat,
           NEW d, d = IF length < Len(Head(ls)) THEN length ELSE Len(Head(ls))
    PROVE  /\ d \in 0 .. NInput
           /\ BytesRead(ip, d) = SubSeq(Head(ls), 1, d)
           /\ Ringed(ip, NextF(ip, d), h, After(ls, d))
<1> DEFINE first == Head(ls)
           u == Bytes(ip, f, h)
           l == Wrap(h - f)
<1>1. PICK n, F : Holds(u, n, F, ls)
  BY DEF Ringed
<1> DEFINE c == F[1]
<1>2. /\ n # 0 /\ ls # <<>> /\ first \in Seq(Nat) /\ c \in Nat /\ Len(first) = c - 1
      /\ Len(first) \in 1 .. NInput /\ c <= l /\ l \in Ring
      /\ \A j \in 0 .. c - 2 : ip[Wrap(f + j)] = first[j + 1] /\ ip[Wrap(f + j)] # 0
      /\ ip[Wrap(f + (c - 1))] = 0
      /\ \A j \in 1 .. c - 1 : first[j] = u[j]
  BY <1>1, FirstLine
<1>3. /\ ip \in [Ring -> Nat] /\ f \in Ring /\ h \in Ring
  BY DEF Ringed
<1>4. u \in Seq(Nat) /\ Len(u) = l
  BY <1>3, BytesFacts
<1>5. \A e \in 0 .. l : /\ Wrap(f + e) \in Ring /\ Wrap(h - Wrap(f + e)) = l - e
                        /\ \A k \in 1 .. l - e : Bytes(ip, Wrap(f + e), h)[k] = u[k + e]
  BY <1>3, BytesDrop
<1>6. \A e \in 0 .. l : Len(Bytes(ip, Wrap(f + e), h)) = l - e
  BY <1>3, <1>5, BytesFacts
<1>7. SubSeq(first, d + 1, Len(first)) = <<>> <=> d = Len(first)
  <2>1. d \in 0 .. Len(first)
    BY <1>2, InputAssumption
  <2> HIDE DEF first
  <2> QED
    BY <1>2, <2>1, RestOfLine
<1> HIDE DEF first, u, l, c
<1>8. /\ NInput \in Nat /\ NPool \in Nat /\ l \in Nat /\ l < NPool /\ f \in Nat /\ f < NPool
      /\ d \in 0 .. c - 1 /\ c \in 2 .. NInput + 1
  <2>1. l \in 0 .. NPool - 1 /\ f \in 0 .. NPool - 1 /\ NPool \in Nat /\ NInput \in Nat
    BY <1>2, <1>3, RingSize, InputAssumption
  <2>2. d = IF length < Len(first) THEN length ELSE Len(first)
    BY DEF first
  <2> QED
    BY <1>2, <2>1, <2>2
<1>12. d \in 0 .. NInput
  BY ONLY <1>8
<1>9. BytesRead(ip, d) = SubSeq(first, 1, d)
  <2> DEFINE t == [k \in 1 .. d |-> ip[(f + k - 1) % NPool]]
  <2>1. \A k \in 1 .. d : ip[(f + k - 1) % NPool] = first[k] /\ first[k] \in Nat
    <3> TAKE k \in 1 .. d
    <3>1. k - 1 \in 0 .. c - 2 /\ (k - 1) + 1 = k /\ f + (k - 1) = f + k - 1
          /\ k \in 1 .. Len(first)
      BY <1>2, <1>8
    <3> QED
      BY <1>2, <3>1, ElementOfSeq DEF Wrap
  <2>2. t \in [1 .. d -> Nat] /\ \A k \in 1 .. d : t[k] = first[k]
    BY <2>1
  <2> HIDE DEF t
  <2>3. d \in Nat /\ d \in 0 .. Len(first)
    BY <1>2, <1>8
  <2>4. t \in Seq(Nat) /\ Len(t) = d
    BY <2>2, <2>3, FunctionIsSeq
  <2>5. /\ SubSeq(first, 1, d) \in Seq(Nat) /\ Len(SubSeq(first, 1, d)) = d
        /\ \A k \in 1 .. d : SubSeq(first, 1, d)[k] = first[k]
    BY <1>2, <2>3, Cutting DEF IsCut
  <2>6. t = SubSeq(first, 1, d)
    BY <2>2, <2>4, <2>5, SeqEqual
  <2> QED
    BY <2>6 DEF t, BytesRead
<1>10. CASE d = c - 1
  <2>1. NextF(ip, d) = Wrap(f + c)
    <3> DEFINE g == Wrap(f + d)
    <3>1. NextF(ip, d) = IF ip[g] = 0 THEN Wrap(g + 1) ELSE g
      BY DEF NextF, Wrap
    <3>0. c \in Nat /\ c <= l
      BY <1>2
    <3> HIDE DEF g
    <3>2. f + d \in Nat /\ f + d + 1 < 2 * NPool /\ f + c = f + d + 1
      BY ONLY <1>8, <1>10, <3>0
    <3> DEFINE a == f + d
    <3>3. a \in Nat /\ a + 1 < 2 * NPool
      BY <3>2
    <3> HIDE DEF a
    <3>4. Wrap(Wrap(a) + 1) = Wrap(a + 1)
      BY <3>3, WrapNext
    <3>6. Wrap(g + 1) = Wrap(f + c)
      BY <3>2, <3>4 DEF g, a
    <3>7. ip[g] = 0
      BY <1>2, <1>10 DEF g
    <3> QED
      BY <3>1, <3>6, <3>7
  <2> DEFINE v == Bytes(ip, Wrap(f + c), h)
  <2>2. c \in 0 .. l
    BY <1>2, <1>8
  <2>3. Wrap(f + c) \in Ring /\ Len(v) = Len(u) - F[1] /\ \A k \in 1 .. Len(v) : v[k] = u[k + F[1]]
    BY <1>4, <1>5, <1>6, <2>2 DEF c
  <2> HIDE DEF v
  <2>4. PICK G : Holds(v, n - 1, G, Tail(ls))
    BY <1>1, <1>2, <2>3, HoldsDrop
  <2>5. After(ls, d) = Tail(ls)
    BY <1>2, <1>7, <1>10 DEF After, first
  <2>6. Ringed(ip, NextF(ip, d), h, After(ls, d))
    <3>1. \E m, H : Holds(v, m, H, Tail(ls))
      BY <2>4
    <3>2. Ringed(ip, Wrap(f + c), h, Tail(ls))
      BY <1>3, <2>3, <3>1 DEF Ringed, v
    <3> QED
      BY <2>1, <2>5, <3>2
  <2> QED
    BY <1>9, <1>12, <2>6 DEF first
<1>11. CASE d # c - 1
  <2>1. d \in 0 .. c - 2 /\ d \in 0 .. l
    BY <1>2, <1>8, <1>11
  <2>2. NextF(ip, d) = Wrap(f + d)
    <3>1. ip[Wrap(f + d)] # 0
      BY <1>2, <2>1
    <3> QED
      BY <3>1 DEF NextF, Wrap
  <2> DEFINE v == Bytes(ip, Wrap(f + d), h)
             w == SubSeq(first, d + 1, Len(first))
  <2>3. Wrap(f + d) \in Ring /\ Len(v) = Len(u) - d /\ \A k \in 1 .. Len(v) : v[k] = u[k + d]
    BY <1>4, <1>5, <1>6, <2>1
  <2>4. /\ w \in Seq(Nat) /\ Len(w) = F[1] - 1 - d /\ \A j \in 1 .. Len(w) : w[j] = u[d + j]
    <3>0. first \in Seq(Nat)
      BY <1>2
    <3>1. d \in 0 .. Len(first) /\ Len(first) = c - 1
      BY <1>2, <1>8
    <3>2. w = SubSeq(first, d + 1, Len(first))
      OBVIOUS
    <3> HIDE DEF w
    <3>3. w \in Seq(Nat) /\ Len(w) = Len(first) - d /\ \A j \in 1 .. Len(w) : w[j] = first[d + j]
      BY ONLY <3>0, <3>1, <3>2, RestOfLine
    <3>4. \A j \in 1 .. Len(w) : d + j \in 1 .. c - 1
      BY ONLY <1>8, <3>1, <3>3
    <3>5. \A j \in 1 .. Len(w) : w[j] = u[d + j]
      BY <1>2, <3>3, <3>4
    <3> QED
      BY <3>1, <3>3, <3>5 DEF c
  <2>5. d \in Nat /\ d + 2 <= F[1]
    <3>1. d \in Nat /\ d + 2 <= c
      BY <1>8, <2>1
    <3> QED
      BY <3>1 DEF c
  <2>6. w # <<>>
    BY <1>2, <1>7, <1>11
  <2> HIDE DEF v, w
  <2>7. PICK G : Holds(v, n, G, <<w>> \o Tail(ls))
    <3>1. Holds(u, n, F, ls) /\ n # 0
      BY <1>1, <1>2
    <3> QED
      BY ONLY <2>3, <2>4, <2>5, <3>1, HoldsPart
  <2>8. After(ls, d) = <<w>> \o Tail(ls)
    BY <2>6 DEF After, first, w
  <2>9. Ringed(ip, NextF(ip, d), h, After(ls, d))
    <3>1. \E m, H : Holds(v, m, H, <<w>> \o Tail(ls))
      BY <2>7
    <3>2. Ringed(ip, Wrap(f + d), h, <<w>> \o Tail(ls))
      BY <1>3, <2>3, <3>1 DEF Ringed, v
    <3> QED
      BY <2>2, <2>8, <3>2
  <2> QED
    BY <1>9, <1>12, <2>9 DEF first
<1> QED
  BY <1>10, <1>11

LEMMA EmptyRing ==
    ASSUME NEW ip, NEW g, NEW h, NEW ls, Ringed(ip, g, h, ls)
    PROVE  ls \in Seq(Seq(Nat)) /\ (ls = <<>> <=> g = h)
<1>1. PICK n, F : Holds(Bytes(ip, g, h), n, F, ls)
  BY DEF Ringed
<1> DEFINE u == Bytes(ip, g, h)
<1>2. ls \in Seq(Seq(Nat)) /\ Len(ls) = n /\ Cut(u, n, F)
  BY <1>1 DEF Holds
<1>3. g # h => ls # <<>>
  BY <1>1, FirstLine
<1>4. ASSUME g = h PROVE ls = <<>>
  <2>1. Len(u) = IF g <= h THEN h - g ELSE h - g + NPool
    BY BytesFacts DEF Ringed
  <2>2. g \in Nat
    <3>1. g \in 0 .. NPool - 1 /\ NPool \in Nat
      BY RingSize DEF Ringed
    <3> QED
      BY <3>1
  <2> HIDE DEF u
  <2>3. Len(u) = 0
    BY <1>4, <2>1, <2>2
  <2>4. n = 0
    BY <1>2, <2>3, CutIncreases
  <2> QED
    BY <1>2, <2>4, EmptySeq
<1> QED
  BY <1>2, <1>3, <1>4

\* The step of canonic_wakeup_read, on lines: of ls the lines ks are left.
Served(ls, rs, ks) ==
    IF ls = <<>> \/ rs = <<>>
    THEN ks = ls /\ stack' = rs /\ got' = got
    ELSE LET first == Head(ls)
             n == IF Head(rs).length < Len(first) THEN Head(rs).length ELSE Len(first)
         IN  /\ got' = [got EXCEPT ![Head(rs).pid] = SubSeq(first, 1, n)]
             /\ ks = After(ls, n)
             /\ stack' = Tail(rs)

Calls == [pid : Processes, length : Lengths]

Once(st) == \A i, j \in 1 .. Len(st) : st[i].pid = st[j].pid => i = j

GotTyped ==
    got \in [Processes -> Seq(Nat)] /\ \A p \in Processes : Len(got[p]) <= NInput

LEMMA WakeFacts ==
    ASSUME NEW ip, NEW h, NEW ls, Ringed(ip, f, h, ls), NEW st \in Seq(Calls), GotTyped,
           WakeUpRead(ip, h, st)
    PROVE  /\ GotTyped'
           /\ \E ks : Ringed(input_pool', f', r', ks) /\ Served(ls, st, ks)
<1>1. input_pool' = ip /\ r' = h
  BY DEF WakeUpRead
<1>2. ls \in Seq(Seq(Nat)) /\ (ls = <<>> <=> f = h)
  BY EmptyRing
<1>3. CASE st = <<>> \/ f = h
  <2>1. stack' = st /\ f' = f /\ got' = got
    BY <1>3 DEF WakeUpRead
  <2>2. Ringed(input_pool', f', r', ls)
    BY <1>1, <2>1
  <2>3. Served(ls, st, ls)
    BY <1>2, <1>3, <2>1 DEF Served
  <2>4. GotTyped'
    BY <2>1 DEF GotTyped
  <2> QED
    BY <2>2, <2>3, <2>4
<1>4. CASE ~(st = <<>> \/ f = h)
  <2> DEFINE p == Head(st).pid
             length == Head(st).length
             first == Head(ls)
             n == NRead(ip, length)
             d == IF length < Len(first) THEN length ELSE Len(first)
             t == SubSeq(first, 1, d)
  <2>1. /\ got' = [got EXCEPT ![p] = BytesRead(ip, n)]
        /\ f' = NextF(ip, n) /\ stack' = Tail(st)
    BY <1>4 DEF WakeUpRead, BytesRead
  <2>2. Head(st) \in Calls
    BY <1>4, TailUnlinks
  <2>3. p \in Processes /\ length \in Nat
    BY <2>2, InputAssumption DEF Calls
  <2> HIDE DEF n, length
  <2>4. /\ ls # <<>> /\ first \in Seq(Nat) /\ Len(first) \in 1 .. NInput
        /\ n = d
    BY <1>4, <2>3, ReadLength DEF n
  <2>5. /\ d \in 0 .. NInput /\ BytesRead(ip, d) = t
        /\ Ringed(ip, NextF(ip, d), h, After(ls, d))
    <3> HIDE DEF d, t, first
    <3>1. d = IF length < Len(Head(ls)) THEN length ELSE Len(Head(ls))
      BY DEF d, first
    <3>2. f # h /\ length \in Nat
      BY <1>4, <2>3
    <3>3. /\ d \in 0 .. NInput
          /\ BytesRead(ip, d) = SubSeq(Head(ls), 1, d)
          /\ Ringed(ip, NextF(ip, d), h, After(ls, d))
      BY <3>1, <3>2, ReadFacts
    <3> QED
      BY <3>3 DEF t, first
  <2> HIDE DEF t
  <2>6. got' = [got EXCEPT ![p] = t] /\ f' = NextF(ip, d)
    BY <2>1, <2>4, <2>5
  <2>7. t \in Seq(Nat) /\ Len(t) <= NInput
    <3> HIDE DEF first
    <3>1. d \in 0 .. Len(first)
      BY <2>3, <2>4
    <3>2. t \in Seq(Nat) /\ Len(t) = d
      BY <2>4, <3>1, Cutting DEF IsCut, t
    <3> HIDE DEF d
    <3> QED
      BY <2>5, <3>2, InputAssumption
  <2>8. Ringed(input_pool', f', r', After(ls, d))
    BY <1>1, <2>5, <2>6
  <2>9. Served(ls, st, After(ls, d))
    BY <1>4, <2>1, <2>4, <2>6 DEF Served, t, length
  <2>10. GotTyped'
    <3> HIDE DEF p
    <3>1. got' \in [Processes -> Seq(Nat)] /\ \A q \in Processes : got'[q] = IF q = p THEN t ELSE got[q]
      BY <2>3, <2>6, <2>7 DEF GotTyped
    <3> QED
      BY <2>7, <3>1 DEF GotTyped
  <2> QED
    BY <2>8, <2>9, <2>10
<1> QED
  BY <1>3, <1>4

\* The readers that wait, after the last of st has been served or not.
LEMMA ServedReaders ==
    ASSUME NEW ls, NEW st \in Seq(Calls), NEW ks, Served(ls, st, ks), Once(st)
    PROVE  /\ stack' \in Seq(Calls) /\ Once(stack')
           /\ Len(stack') <= Cardinality(Processes)
<1>1. Len(st) \in Nat /\ \A i \in 1 .. Len(st) : st[i] \in Calls
  BY LenProperties, ElementOfSeq
<1>2. stack' \in Seq(Calls) /\ Once(stack')
  <2>1. CASE ls = <<>> \/ st = <<>>
    BY <2>1 DEF Served
  <2>2. CASE ~(ls = <<>> \/ st = <<>>)
    <3>1. stack' = Tail(st)
      BY <2>2 DEF Served
    <3>2. /\ Tail(st) \in Seq(Calls) /\ Len(Tail(st)) = Len(st) - 1
          /\ \A i \in 1 .. Len(st) - 1 : Tail(st)[i] = st[i + 1]
      BY <2>2, HeadTailProperties
    <3>3. ASSUME NEW i \in 1 .. Len(Tail(st)), NEW j \in 1 .. Len(Tail(st)),
                 Tail(st)[i].pid = Tail(st)[j].pid
          PROVE  i = j
      <4>1. i + 1 \in 1 .. Len(st) /\ j + 1 \in 1 .. Len(st) /\ i \in Nat /\ j \in Nat
            /\ Tail(st)[i] = st[i + 1] /\ Tail(st)[j] = st[j + 1]
        BY <1>1, <3>2
      <4>2. i + 1 = j + 1
        BY <3>3, <4>1 DEF Once
      <4> QED
        BY <4>1, <4>2
    <3> QED
      BY <3>1, <3>2, <3>3 DEF Once
  <2> QED
    BY <2>1, <2>2
<1>3. ASSUME NEW s \in Seq(Calls), Once(s) PROVE Len(s) <= Cardinality(Processes)
  <2> DEFINE t == [k \in 1 .. Len(s) |-> s[k].pid]
  <2>1. Len(s) \in Nat /\ \A k \in 1 .. Len(s) : s[k].pid \in Processes
    <3>1. Len(s) \in Nat /\ \A k \in 1 .. Len(s) : s[k] \in Calls
      BY LenProperties, ElementOfSeq
    <3>2. \A c \in Calls : c.pid \in Processes
      BY DEF Calls
    <3> QED
      BY <3>1, <3>2
  <2>2. t \in [1 .. Len(s) -> Processes] /\ \A k \in 1 .. Len(s) : t[k] = s[k].pid
    BY <2>1
  <2> HIDE DEF t
  <2>3. t \in Seq(Processes) /\ Len(t) = Len(s)
    BY <2>1, <2>2, FunctionIsSeq
  <2>4. IsInjective(t) /\ ToSet(t) \subseteq Processes
    <3>1. \A i, j \in 1 .. Len(t) : t[i] = t[j] => i = j
      BY <1>3, <2>2, <2>3 DEF Once
    <3> QED
      BY <2>3, <3>1, SetOfList
  <2> QED
    BY <2>3, <2>4, NoRepetitions, InputAssumption
<1> QED
  BY <1>2, <1>3

-----------------------------------------------------------------------------
(***************************************************************************)
(* The line that is edited, and what update_input makes of the screen.     *)
(***************************************************************************)
LEMMA CharsFacts == Chars \subseteq Nat \ {0, NewLine}
<1>1. \A l \in 1 .. 2, code \in {2, 30} : KeyMaps[l][code] \in {97, 49, 33, 65}
  BY DEF KeyMaps
<1>2. DOMAIN KeyMaps[1] = {2, 30}
  BY DEF KeyMaps
<1> QED
  BY <1>1, <1>2 DEF Chars, NewLine

LineOf(buf, n) == [k \in 1 .. n |-> buf[k - 1]]

\* A line in a buffer.
Typed(buf, n) ==
    /\ buf \in [Index -> Nat] /\ n \in Index
    /\ \A k \in 0 .. n - 1 : buf[k] \in Chars

LEMMA LineFacts ==
    ASSUME NEW buf, NEW n, Typed(buf, n)
    PROVE  /\ LineOf(buf, n) \in Seq(Chars) /\ Len(LineOf(buf, n)) = n
           /\ n \in Nat /\ n < NInput /\ NInput \in Nat
           /\ \A j \in 1 .. n : LineOf(buf, n)[j] = buf[j - 1] /\ LineOf(buf, n)[j] \in Chars
<1> DEFINE w == LineOf(buf, n)
<1>1. n \in Nat /\ n < NInput /\ NInput \in Nat
  BY InputAssumption DEF Typed, Index
<1>2. \A j \in 1 .. n : buf[j - 1] \in Chars
  <2>1. \A j \in 1 .. n : j - 1 \in 0 .. n - 1
    BY <1>1
  <2> QED
    BY <2>1 DEF Typed
<1>3. w \in [1 .. n -> Chars] /\ \A j \in 1 .. n : w[j] = buf[j - 1]
  BY <1>2 DEF LineOf
<1> HIDE DEF w
<1>4. w \in Seq(Chars) /\ Len(w) = n
  BY <1>1, <1>3, FunctionIsSeq
<1> QED
  BY <1>1, <1>2, <1>3, <1>4 DEF w

LEMMA PlainLines ==
    ASSUME NEW w \in Seq(Chars)
    PROVE  w \in Seq(Nat \ {NewLine}) /\ w \in Seq(Nat \ {0}) /\ w \in Seq(Nat)
<1>1. Chars \subseteq Nat \ {NewLine} /\ Chars \subseteq Nat \ {0} /\ Chars \subseteq Nat
  BY CharsFacts
<1> QED
  BY <1>1, SeqMono

\* The rest of a line behind its first k characters.
LEMMA LineFromFacts ==
    ASSUME NEW w \in Seq(Chars), NEW k \in 0 .. Len(w), NEW t, t = SubSeq(w, k + 1, Len(w))
    PROVE  /\ t \in Seq(Chars) /\ Len(t) = Len(w) - k /\ Len(w) \in Nat /\ k \in Nat
           /\ \A j \in 1 .. Len(t) : t[j] = w[k + j]
<1>1. Len(w) \in Nat /\ k \in Nat
  BY LenProperties
<1>2. t \in Seq(Chars) /\ Len(t) = Len(w) - k /\ \A j \in 1 .. Len(w) - k : t[j] = w[k + j]
  BY Cutting DEF IsCut
<1> QED
  BY <1>1, <1>2

\* ScreenShowsInput and LineInCells of a screen s and a line w.
ShowsLine(s, w, p) ==
    LET begin == Cursor(s) - p
    IN  /\ {begin, begin + Len(w)} \subseteq Cells
        /\ \A k \in 0 .. Len(w) - 1 : begin + k \in Cells /\ s.cell[begin + k] = w[k + 1]

LEMMA ShownShows ==
    ASSUME NEW s, NEW w, Len(w) \in Nat, NEW p \in 0 .. Len(w), Shown(s, w, p)
    PROVE  ShowsLine(s, w, p)
<1> DEFINE n == Len(w)
           c == Cursor(s)
<1>1. PICK b \in Nat : /\ c = b + p /\ b + n \in Cells
                       /\ \A j \in 1 .. n : s.cell[b + j - 1] = w[j]
  BY DEF Shown
<1> HIDE DEF n, c
<1>2. n \in Nat /\ p \in Nat /\ p <= n
  BY DEF n
<1>3. c - p = b
  BY <1>1, <1>2
<1>4. Rows * Columns \in Nat
  BY ScreenSize
<1>5. \A k \in 0 .. n : b + k \in Cells
  <2>1. b + n < Rows * Columns
    BY <1>1, CellsAreNat
  <2> DEFINE N == Rows * Columns
  <2> HIDE DEF N
  <2>2. \A k \in 0 .. n : b + k \in 0 .. N - 1
    BY <1>2, <1>4, <2>1 DEF N
  <2> QED
    BY <2>2 DEF N, Cells
<1>6. b \in Cells
  <2>1. 0 \in 0 .. n /\ b + 0 = b
    BY <1>2
  <2> QED
    BY <1>5, <2>1
<1>7. \A k \in 0 .. n - 1 : b + k \in Cells /\ s.cell[b + k] = w[k + 1]
  <2> TAKE k \in 0 .. n - 1
  <2>1. k + 1 \in 1 .. n /\ b + (k + 1) - 1 = b + k /\ k \in 0 .. n
    BY <1>2
  <2> QED
    BY <1>1, <1>5, <2>1
<1> QED
  BY <1>1, <1>3, <1>6, <1>7 DEF ShowsLine, n, c

LEMMA ShowsIsShown ==
    ASSUME NEW s \in Screens, NEW w, Len(w) \in Nat, NEW p \in 0 .. Len(w), ShowsLine(s, w, p)
    PROVE  Shown(s, w, p)
<1> DEFINE n == Len(w)
           c == Cursor(s)
           b == c - p
<1>1. /\ b \in Cells /\ b + n \in Cells
      /\ \A k \in 0 .. n - 1 : s.cell[b + k] = w[k + 1]
  BY DEF ShowsLine
<1>2. b \in Nat /\ c \in Nat
  BY <1>1, CellsAreNat, CursorFacts
<1> HIDE DEF n, c
<1>3. n \in Nat /\ p \in Nat
  BY DEF n
<1>4. c = b + p
  BY <1>2, <1>3
<1> HIDE DEF b
<1>5. \A j \in 1 .. n : s.cell[b + j - 1] = w[j]
  <2> TAKE j \in 1 .. n
  <2>1. j - 1 \in 0 .. n - 1 /\ (j - 1) + 1 = j /\ b + (j - 1) = b + j - 1
    BY <1>2, <1>3
  <2> QED
    BY <1>1, <2>1
<1> QED
  BY <1>1, <1>2, <1>4, <1>5 DEF Shown, n, c

\* Any screen shows the empty line.
LEMMA EmptyShown ==
    ASSUME NEW s \in Screens, NEW w, Len(w) = 0
    PROVE  Shown(s, w, 0)
<1> DEFINE b == Cursor(s)
<1>1. b \in Cells /\ b \in Nat
  BY CursorFacts, CellsAreNat
<1> HIDE DEF b
<1>2. b = b + 0 /\ b + Len(w) \in Cells
  BY <1>1
<1>3. \A j \in 1 .. Len(w) : s.cell[b + j - 1] = w[j]
  OBVIOUS
<1> QED
  BY <1>1, <1>2, <1>3 DEF Shown, b

\* A line written from the cursor on, and the cursor set back.
LEMMA RestShown ==
    ASSUME NEW s, NEW w \in Seq(Nat \ {NewLine}), Len(w) <= NInput, NEW k \in 0 .. Len(w),
           Displays(s, w, k), NEW t \in Seq(Nat \ {NewLine}), k + Len(t) = Len(w),
           \A j \in 1 .. Len(t) : t[j] = w[k + j],
           NEW count \in 0 .. Len(w)
    PROVE  Shown(CursorLeft(Prints(s, t), count), w, Len(w) - count)
<1> DEFINE u == Prints(s, t)
           n == Len(w)
           i == n - count
           c == Cursor(u) - count
<1>1. n \in Nat /\ n \in 0 .. n /\ i \in 0 .. n
  <2>1. n \in Nat
    BY LenProperties
  <2> QED
    BY <2>1
<1>2. Displays(u, w, n)
  BY DisplaysRest
<1>3. Shown(u, w, n)
  BY <1>1, <1>2, DisplayedIsShown
<1>4. Cursor(u) \in Nat
  <2>1. u \in Screens
    BY <1>3 DEF Shown
  <2> QED
    BY <2>1, CursorFacts, CellsAreNat
<1>5. c \in Int /\ c = Cursor(u) - n + i
  BY <1>1, <1>4
<1> HIDE DEF u, n, i, c
<1>6. Shown(MoveTo(u, c), w, i)
  BY <1>1, <1>3, <1>5, ShownMoves DEF n
<1> QED
  BY <1>6 DEF CursorLeft, u, n, i, c

LEMMA UpdatedShown ==
    ASSUME screen \in Screens, Typed(input_buffer, input_length), cursor_pos \in 0 .. input_length,
           ~dirty => ShowsLine(screen, Line, cursor_pos)
    PROVE  Shown(Updated, Line, cursor_pos)
<1>1. /\ Line \in Seq(Chars) /\ Len(Line) = input_length /\ input_length \in Nat
      /\ input_length < NInput /\ NInput \in Nat
  <2>1. Line = LineOf(input_buffer, input_length)
    BY DEF Line, LineOf
  <2> QED
    BY <2>1, LineFacts
<1>2. CASE ~dirty
  BY <1>1, <1>2, ShowsIsShown DEF Updated
<1>3. CASE dirty
  <2> DEFINE s == Printc(screen, NewLine)
             count == input_length - cursor_pos
  <2>1. s \in Screens
    BY NewLineFacts
  <2> HIDE DEF s
  <2>2. Displays(s, Line, 0)
    <3>1. Cursor(s) \in Nat /\ Cursor(s) = Cursor(s) + 0
      BY <2>1, CursorFacts, CellsAreNat
    <3>2. \A j \in 1 .. 0 : s.cell[Cursor(s) + j - 1] = Line[j]
      OBVIOUS
    <3> QED
      BY <2>1, <3>1, <3>2 DEF Displays
  <2>3. /\ Line \in Seq(Nat \ {NewLine}) /\ 0 + Len(Line) = Len(Line) /\ Len(Line) <= NInput
        /\ 0 \in 0 .. Len(Line) /\ count \in 0 .. Len(Line) /\ Len(Line) - count = cursor_pos
        /\ \A j \in 1 .. Len(Line) : 0 + j = j
    BY <1>1, PlainLines
  <2> HIDE DEF count
  <2>4. Shown(CursorLeft(Prints(s, Line), count), Line, Len(Line) - count)
    BY <2>2, <2>3, RestShown
  <2> QED
    BY <1>3, <2>3, <2>4 DEF Updated, s, count
<1> QED
  BY <1>2, <1>3

-----------------------------------------------------------------------------
(***************************************************************************)
(* canonic_mode_getch: the line and the screen after a key.                *)
(***************************************************************************)
LineState ==
    /\ screen \in Screens /\ Typed(input_buffer, input_length) /\ cursor_pos \in 0 .. input_length
    /\ ~dirty => ShowsLine(screen, Line, cursor_pos)

\* After a key the line is on the screen.
LineShown ==
    /\ Typed(input_buffer, input_length) /\ cursor_pos \in 0 .. input_length
    /\ Shown(screen, Line, cursor_pos)

\* The line t is s with ch entered behind its first p characters.
Entered(s, t, p, ch) ==
    /\ Len(t) = Len(s) + 1
    /\ \A j \in 1 .. Len(t) : t[j] = IF j <= p THEN s[j] ELSE IF j = p + 1 THEN ch ELSE s[j - 1]

LEMMA StateFacts ==
    ASSUME LineState
    PROVE  /\ Line = LineOf(input_buffer, input_length) /\ Line \in Seq(Chars)
           /\ Len(Line) = input_length /\ input_length \in Nat /\ cursor_pos \in Nat
           /\ cursor_pos <= input_length /\ input_length < NInput /\ NInput \in Nat
           /\ \A j \in 1 .. input_length : Line[j] = input_buffer[j - 1]
           /\ Shown(Updated, Line, cursor_pos)
<1>1. Line = LineOf(input_buffer, input_length)
  BY DEF Line, LineOf
<1>2. /\ Typed(input_buffer, input_length) /\ cursor_pos \in 0 .. input_length
  BY DEF LineState
<1>3. Shown(Updated, Line, cursor_pos)
  BY UpdatedShown DEF LineState
<1> QED
  BY <1>1, <1>2, <1>3, LineFacts

LEMMA ShownState ==
    ASSUME LineShown'
    PROVE  LineState'
<1>1. Line' = LineOf(input_buffer', input_length')
  BY DEF Line, LineOf
<1>2. Typed(input_buffer', input_length') /\ Shown(screen', Line', cursor_pos')
      /\ cursor_pos' \in 0 .. input_length'
  BY DEF LineShown
<1>3. Len(Line') = input_length' /\ input_length' \in Nat
  BY <1>1, <1>2, LineFacts
<1>4. ShowsLine(screen', Line', cursor_pos')
  <2>1. Len(Line') \in Nat /\ cursor_pos' \in 0 .. Len(Line')
    BY <1>2, <1>3
  <2> QED
    BY <1>2, <2>1, ShownShows
<1>5. screen' \in Screens
  BY <1>2 DEF Shown
<1> QED
  BY <1>2, <1>4, <1>5 DEF LineState

LEMMA TypeCharFacts ==
    ASSUME LineState, NEW ch \in Chars, TypeChar(ch)
    PROVE  LineShown' /\ Entered(Line, Line', cursor_pos, ch) /\ Line' \in Seq(Chars)
           /\ Len(Line') = input_length'
<1> DEFINE w == Line
           v == Line'
           n == input_length
           p == cursor_pos
           buf == input_buffer
           t == LineFrom(p)
<1>1. /\ w \in Seq(Chars) /\ Len(w) = n /\ n \in Nat /\ p \in Nat /\ p <= n
      /\ n < NInput /\ NInput \in Nat /\ \A j \in 1 .. n : w[j] = buf[j - 1]
      /\ Shown(Updated, w, p)
  BY StateFacts
<1>2. /\ n + 2 < NInput /\ input_buffer' = Inserted(ch) /\ input_length' = n + 1
      /\ cursor_pos' = p + 1
      /\ screen' = CursorLeft(Prints(Printc(Updated, ch), t), n - p)
  BY DEF TypeChar, FitsLine
<1>3. /\ Inserted(ch) = [k \in Index |-> CASE k = p -> ch
                                       [] k \in p + 1 .. n -> buf[k - 1]
                                       [] k = n + 1 -> 0
                                       [] OTHER -> buf[k]]
      /\ buf \in [Index -> Nat] /\ ch \in Nat /\ Index = 0 .. NInput - 1
      /\ \A k \in 0 .. n - 1 : buf[k] \in Chars
  BY CharsFacts DEF Inserted, LineState, Typed, Index
<1>4. v = LineOf(input_buffer', n + 1)
  BY <1>2 DEF Line, LineOf
<1>5. t \in Seq(Chars) /\ Len(t) = n - p /\ \A j \in 1 .. Len(t) : t[j] = w[p + j]
  <2>1. t = SubSeq(w, p + 1, Len(w)) /\ p \in 0 .. Len(w)
    BY <1>1 DEF LineFrom
  <2> HIDE DEF t, w, p
  <2> QED
    BY <1>1, <2>1, LineFromFacts
<1> HIDE DEF w, v, n, p, buf, t
<1>6. input_buffer' \in [Index -> Nat]
  <2>1. \A k \in Index : k \in p + 1 .. n => buf[k - 1] \in Nat
    BY <1>1, <1>3
  <2>2. \A k \in Index : buf[k] \in Nat
    BY <1>3
  <2> QED
    BY <1>2, <1>3, <2>1, <2>2
<1>7. ASSUME NEW k \in 0 .. n
      PROVE  input_buffer'[k] = IF k < p THEN buf[k] ELSE IF k = p THEN ch ELSE buf[k - 1]
  <2>1. k \in Index
    BY <1>1, <1>2, <1>3
  <2> QED
    BY <1>1, <1>2, <1>3, <2>1
<1>8. Typed(input_buffer', n + 1)
  <2>1. n + 1 \in Index
    BY <1>1, <1>2, <1>3
  <2>2. ASSUME NEW k \in 0 .. (n + 1) - 1 PROVE input_buffer'[k] \in Chars
    <3>1. k \in 0 .. n /\ (k < p => k \in 0 .. n - 1) /\ (k > p => k - 1 \in 0 .. n - 1)
      BY <1>1
    <3>2. k < p \/ k = p \/ k > p
      BY <1>1
    <3>3. k > p => ~(k < p) /\ k # p
      BY <1>1
    <3> QED
      BY <1>3, <1>7, <3>1, <3>2, <3>3
  <2> QED
    BY <1>6, <2>1, <2>2 DEF Typed
<1>9. v \in Seq(Chars) /\ Len(v) = n + 1 /\ \A j \in 1 .. n + 1 : v[j] = input_buffer'[j - 1]
  BY <1>4, <1>8, LineFacts
<1>10. Entered(w, v, p, ch)
  <2>1. ASSUME NEW j \in 1 .. n + 1
        PROVE  v[j] = IF j <= p THEN w[j] ELSE IF j = p + 1 THEN ch ELSE w[j - 1]
    <3>1. j - 1 \in 0 .. n /\ (j - 1 < p <=> j <= p) /\ (j - 1 = p <=> j = p + 1)
      BY <1>1
    <3>2. v[j] = IF j <= p THEN buf[j - 1] ELSE IF j = p + 1 THEN ch ELSE buf[j - 1 - 1]
      BY <1>7, <1>9, <3>1
    <3>3. j <= p => w[j] = buf[j - 1]
      BY <1>1
    <3>4. ~(j <= p) /\ j # p + 1 => w[j - 1] = buf[j - 1 - 1]
      <4>1. ~(j <= p) /\ j # p + 1 => j - 1 \in 1 .. n
        BY <1>1
      <4> QED
        BY <1>1, <4>1
    <3> QED
      BY <3>2, <3>3, <3>4
  <2> QED
    BY <1>1, <1>9, <2>1 DEF Entered
<1>11. \A j \in 1 .. n + 1 : v[j] = IF j <= p THEN w[j] ELSE IF j = p + 1 THEN ch ELSE w[j - 1]
  BY <1>9, <1>10 DEF Entered
<1>12. Shown(screen', v, p + 1)
  <2> DEFINE u == Printc(Updated, ch)
             k == p + 1
             count == n - p
  <2>1. Displays(Updated, w, p)
    BY <1>1, ShownIsDisplayed
  <2>2. Displays(Updated, v, p)
    <3>1. \A j \in 1 .. p : w[j] = v[j]
      <4>1. \A j \in 1 .. p : j \in 1 .. n + 1 /\ j <= p
        BY <1>1
      <4> QED
        BY <1>11, <4>1
    <3> QED
      BY <1>1, <2>1, <3>1, DisplaysPrefix
  <2>3. /\ v \in Seq(Nat \ {NewLine}) /\ t \in Seq(Nat \ {NewLine}) /\ Len(v) <= NInput
        /\ p \in 0 .. Len(v) - 1 /\ ch = v[p + 1]
    <3>1. p + 1 \in 1 .. n + 1 /\ ~(p + 1 <= p)
      BY <1>1
    <3>2. ch = v[p + 1]
      BY <1>11, <3>1
    <3>3. Len(v) <= NInput /\ p \in 0 .. Len(v) - 1
      BY <1>1, <1>2, <1>9
    <3> QED
      BY <1>5, <1>9, <3>2, <3>3, PlainLines
  <2>4. Displays(u, v, p + 1)
    BY <2>2, <2>3, DisplaysOne
  <2> HIDE DEF u
  <2>5. /\ k \in 0 .. Len(v) /\ k + Len(t) = Len(v) /\ count \in 0 .. Len(v)
        /\ Len(v) - count = p + 1
    BY <1>1, <1>5, <1>9
  <2>6. \A j \in 1 .. Len(t) : t[j] = v[k + j]
    <3> TAKE j \in 1 .. Len(t)
    <3>1. k + j \in 1 .. n + 1 /\ ~(k + j <= p) /\ k + j # p + 1 /\ (k + j) - 1 = p + j
      BY <1>1, <1>5
    <3> QED
      BY <1>5, <1>11, <3>1
  <2> HIDE DEF k, count
  <2>7. Displays(u, v, k)
    BY <2>4 DEF k
  <2>8. Shown(CursorLeft(Prints(u, t), count), v, Len(v) - count)
    BY <2>3, <2>5, <2>6, <2>7, RestShown
  <2> QED
    BY <1>2, <2>5, <2>8 DEF u, count, n, p, t
<1>13. p + 1 \in 0 .. n + 1
  BY <1>1
<1> QED
  BY <1>2, <1>8, <1>9, <1>10, <1>12, <1>13 DEF LineShown, w, v, n, p

LEMMA BackspaceFacts ==
    ASSUME LineState, Backspace
    PROVE  /\ LineShown' /\ Line' \in Seq(Chars) /\ Len(Line') = input_length'
           /\ cursor_pos = 0 => Line' = Line /\ cursor_pos' = 0
           /\ cursor_pos > 0 => /\ Entered(Line', Line, cursor_pos - 1, Line[cursor_pos])
                                /\ cursor_pos' = cursor_pos - 1
<1> DEFINE w == Line
           v == Line'
           n == input_length
           p == cursor_pos
           buf == input_buffer
           t == LineFrom(p)
<1>1. /\ w \in Seq(Chars) /\ Len(w) = n /\ n \in Nat /\ p \in Nat /\ p <= n
      /\ n < NInput /\ NInput \in Nat /\ \A j \in 1 .. n : w[j] = buf[j - 1]
      /\ Shown(Updated, w, p)
  BY StateFacts
<1>2. CASE ~(p > 0)
  <2>1. screen' = Updated /\ UNCHANGED <<input_buffer, input_length, cursor_pos>> /\ p = 0
    BY <1>1, <1>2 DEF Backspace
  <2>2. Line' = Line
    BY <2>1 DEF Line
  <2> QED
    BY <1>1, <1>2, <2>1, <2>2 DEF LineShown, LineState
<1>3. CASE p > 0
  <2>1. /\ input_buffer' = [k \in Index |-> IF k \in p - 1 .. n - 1 THEN buf[k + 1] ELSE buf[k]]
        /\ input_length' = n - 1 /\ cursor_pos' = p - 1
        /\ screen' = CursorLeft(Prints(CursorLeft(Updated, 1), Append(t, Space)), n - p + 1)
    BY <1>3 DEF Backspace
  <2>2. /\ buf \in [Index -> Nat] /\ Index = 0 .. NInput - 1
        /\ \A k \in 0 .. n - 1 : buf[k] \in Chars
    BY DEF LineState, Typed, Index
  <2>3. v = LineOf(input_buffer', n - 1)
    BY <2>1 DEF Line, LineOf
  <2>4. t \in Seq(Chars) /\ Len(t) = n - p /\ \A j \in 1 .. Len(t) : t[j] = w[p + j]
    <3>1. t = SubSeq(w, p + 1, Len(w)) /\ p \in 0 .. Len(w)
      BY <1>1 DEF LineFrom
    <3> HIDE DEF t, w, p
    <3> QED
      BY <1>1, <3>1, LineFromFacts
  <2>5. n \in Nat \ {0} /\ p \in Nat \ {0} /\ p <= n /\ n - 1 \in Nat
    BY <1>1, <1>3
  <2> HIDE DEF w, v, n, p, buf, t
  <2>6. input_buffer' \in [Index -> Nat]
    <3>1. \A k \in Index : k \in p - 1 .. n - 1 => buf[k + 1] \in Nat
      BY <1>1, <2>2, <2>5
    <3>2. \A k \in Index : buf[k] \in Nat
      BY <2>2
    <3> QED
      BY <2>1, <3>1, <3>2
  <2>7. ASSUME NEW k \in 0 .. n - 2
        PROVE  input_buffer'[k] = IF k < p - 1 THEN buf[k] ELSE buf[k + 1]
    <3>1. k \in Index /\ (k \in p - 1 .. n - 1 <=> ~(k < p - 1))
      BY <1>1, <2>2, <2>5
    <3> QED
      BY <2>1, <3>1
  <2>8. Typed(input_buffer', n - 1)
    <3>1. n - 1 \in Index
      BY <1>1, <2>2, <2>5
    <3>2. ASSUME NEW k \in 0 .. (n - 1) - 1 PROVE input_buffer'[k] \in Chars
      <4>1. k \in 0 .. n - 2 /\ k \in 0 .. n - 1 /\ k + 1 \in 0 .. n - 1
        BY <2>5
      <4> QED
        BY <2>2, <2>7, <4>1
    <3> QED
      BY <2>6, <3>1, <3>2 DEF Typed
  <2>9. v \in Seq(Chars) /\ Len(v) = n - 1 /\ \A j \in 1 .. n - 1 : v[j] = input_buffer'[j - 1]
    BY <2>3, <2>8, LineFacts
  <2>10. \A j \in 1 .. n - 1 : v[j] = IF j < p THEN w[j] ELSE w[j + 1]
    <3> TAKE j \in 1 .. n - 1
    <3>1. j - 1 \in 0 .. n - 2 /\ (j - 1 < p - 1 <=> j < p) /\ j \in 1 .. n /\ j + 1 \in 1 .. n
          /\ (j - 1) + 1 = (j + 1) - 1
      BY <2>5
    <3> QED
      BY <1>1, <2>7, <2>9, <3>1
  <2>11. Entered(v, w, p - 1, w[p])
    <3>1. Len(w) = Len(v) + 1
      BY <1>1, <2>5, <2>9
    <3>2. ASSUME NEW j \in 1 .. n
          PROVE  w[j] = IF j <= p - 1 THEN v[j] ELSE IF j = (p - 1) + 1 THEN w[p] ELSE v[j - 1]
      <4>1. CASE j <= p - 1
        <5>1. j \in 1 .. n - 1 /\ j < p
          BY <2>5, <4>1
        <5> QED
          BY <2>10, <4>1, <5>1
      <4>2. CASE j = p
        <5>1. ~(j <= p - 1) /\ j = (p - 1) + 1
          BY <2>5, <4>2
        <5> QED
          BY <4>2, <5>1
      <4>3. CASE j > p
        <5>1. j - 1 \in 1 .. n - 1 /\ ~(j - 1 < p) /\ (j - 1) + 1 = j
              /\ ~(j <= p - 1) /\ j # (p - 1) + 1
          BY <2>5, <4>3
        <5> QED
          BY <2>10, <5>1
      <4>4. j <= p - 1 \/ j = p \/ j > p
        BY <2>5
      <4> QED
        BY <4>1, <4>2, <4>3, <4>4
    <3> QED
      BY <1>1, <3>1, <3>2 DEF Entered
  <2>12. Shown(screen', v, p - 1)
    <3> DEFINE u == CursorLeft(Updated, 1)
               x == Append(v, Space)
               y == Append(t, Space)
               k == p - 1
               count == n - p + 1
               c == Cursor(Updated) - 1
    <3>1. v \in Seq(Nat \ {NewLine}) /\ t \in Seq(Nat \ {NewLine}) /\ Space \in Nat \ {NewLine}
      BY <2>4, <2>9, PlainLines DEF Space, NewLine
    <3>2. /\ x \in Seq(Nat \ {NewLine}) /\ Len(x) = n /\ x[n] = Space
          /\ \A j \in 1 .. n - 1 : x[j] = v[j]
      <4>1. Len(v) + 1 = n
        BY <2>5, <2>9
      <4> HIDE DEF x
      <4> QED
        BY <2>9, <3>1, <4>1, AppendProperties DEF x
    <3>3. /\ y \in Seq(Nat \ {NewLine}) /\ Len(y) = n - p + 1 /\ y[n - p + 1] = Space
          /\ \A j \in 1 .. n - p : y[j] = t[j]
      BY <2>4, <3>1, AppendProperties
    <3> HIDE DEF x, y
    <3>4. /\ k \in 0 .. n /\ k \in Nat /\ count \in 0 .. n /\ n - count = k
          /\ k + (n - p + 1) = n /\ n <= NInput /\ k = p - 1 /\ k \in 0 .. n - 1
      BY <1>1, <2>5
    <3> HIDE DEF k, count
    <3>5. Shown(u, w, k)
      <4>1. Cursor(Updated) \in Nat
        BY <1>1, CursorFacts, CellsAreNat DEF Shown
      <4>2. c \in Int /\ c = Cursor(Updated) - p + k
        BY <2>5, <3>4, <4>1
      <4>3. p \in 0 .. n
        BY <2>5
      <4> HIDE DEF c
      <4>4. Shown(MoveTo(Updated, c), w, k)
        BY <1>1, <3>4, <4>2, <4>3, ShownMoves
      <4> QED
        BY <4>4 DEF CursorLeft, c
    <3> HIDE DEF u
    <3>6. Displays(u, x, k)
      <4>1. Displays(u, w, k)
        BY <1>1, <3>4, <3>5, ShownIsDisplayed
      <4>2. ASSUME NEW j \in 1 .. k PROVE w[j] = x[j]
        <5>1. j \in 1 .. n - 1 /\ j < p
          BY <2>5, <3>4
        <5> QED
          BY <2>10, <3>2, <5>1
      <4> QED
        BY <3>4, <4>1, <4>2, DisplaysPrefix
    <3>7. ASSUME NEW j \in 1 .. Len(y) PROVE y[j] = x[k + j]
      <4>1. CASE j = n - p + 1
        <5>1. k + j = n
          BY <3>4, <4>1
        <5> QED
          BY <3>2, <3>3, <4>1, <5>1
      <4>2. CASE j # n - p + 1
        <5>1. j \in 1 .. n - p /\ k + j \in 1 .. n - 1 /\ ~(k + j < p) /\ (k + j) + 1 = p + j
          BY <2>5, <3>3, <3>4, <4>2
        <5>2. y[j] = w[p + j] /\ x[k + j] = v[k + j] /\ v[k + j] = w[(k + j) + 1]
          BY <2>4, <2>10, <3>2, <3>3, <5>1
        <5> QED
          BY <5>1, <5>2
      <4> QED
        BY <4>1, <4>2
    <3>8. k + Len(y) = Len(x)
      BY <3>2, <3>3, <3>4
    <3>9. Shown(CursorLeft(Prints(u, y), count), x, Len(x) - count)
      BY <3>2, <3>3, <3>4, <3>6, <3>7, <3>8, RestShown
    <3> DEFINE s == CursorLeft(Prints(u, y), count)
    <3> HIDE DEF s
    <3>10. Shown(s, x, k)
      BY <3>2, <3>4, <3>9 DEF s
    <3>11. Shown(s, v, k)
      <4>1. Len(x) \in Nat /\ Len(v) \in 0 .. Len(x) /\ k \in 0 .. Len(v)
        BY <2>5, <2>9, <3>2, <3>4
      <4>2. \A j \in 1 .. Len(v) : v[j] = x[j]
        BY <2>9, <3>2
      <4> QED
        BY <3>10, <4>1, <4>2, ShownPrefix
    <3>12. screen' = s
      BY <2>1 DEF s, u, y, count, n, p, t
    <3> QED
      BY <3>4, <3>11, <3>12
  <2>13. p - 1 \in 0 .. n - 1
    BY <2>5
  <2> QED
    BY <1>3, <2>1, <2>5, <2>8, <2>9, <2>11, <2>12, <2>13 DEF LineShown, w, v, n, p
<1> QED
  BY <1>2, <1>3

\* The cursor is moved, or nothing happens.
LEMMA MovedFacts ==
    ASSUME LineState, UNCHANGED <<input_buffer, input_length>>, cursor_pos' \in 0 .. input_length,
           NEW c \in Int, c = Cursor(Updated) - cursor_pos + cursor_pos',
           screen' = MoveTo(Updated, c)
    PROVE  LineShown' /\ Line' = Line
<1> DEFINE w == Line
           i == cursor_pos'
<1>1. /\ w \in Seq(Chars) /\ Len(w) = input_length /\ input_length \in Nat
      /\ cursor_pos \in 0 .. input_length /\ Shown(Updated, w, cursor_pos)
  BY StateFacts DEF LineState
<1>2. w' = w /\ Typed(input_buffer', input_length')
  BY DEF Line, LineState
<1>3. i \in 0 .. Len(w)
  BY <1>1
<1> HIDE DEF w, i
<1>4. Shown(MoveTo(Updated, c), w, i)
  BY <1>1, <1>3, ShownMoves DEF i
<1> QED
  BY <1>2, <1>4 DEF LineShown, w, i

LEMMA MoveLeftFacts ==
    ASSUME LineState, MoveLeft
    PROVE  /\ LineShown' /\ Line' = Line
           /\ cursor_pos' = IF cursor_pos > 0 THEN cursor_pos - 1 ELSE cursor_pos
<1>1. /\ cursor_pos \in Nat /\ cursor_pos <= input_length /\ input_length \in Nat
      /\ Shown(Updated, Line, cursor_pos)
  BY StateFacts
<1>2. UNCHANGED <<input_buffer, input_length>>
  BY DEF MoveLeft
<1>3. CASE cursor_pos > 0
  <2> DEFINE c == Cursor(Updated) - 1
  <2>1. cursor_pos' = cursor_pos - 1 /\ screen' = MoveTo(Updated, c)
    BY <1>3 DEF MoveLeft, CursorLeft
  <2>2. Cursor(Updated) \in Nat
    BY <1>1, CursorFacts, CellsAreNat DEF Shown
  <2>3. c \in Int /\ c = Cursor(Updated) - cursor_pos + cursor_pos'
        /\ cursor_pos' \in 0 .. input_length
    BY <1>1, <1>3, <2>1, <2>2
  <2> HIDE DEF c
  <2> QED
    BY <1>2, <1>3, <2>1, <2>3, MovedFacts
<1>4. CASE ~(cursor_pos > 0)
  <2>1. UNCHANGED cursor_pos /\ screen' = Updated
    BY <1>4 DEF MoveLeft
  <2>2. Line' = Line
    BY <1>2 DEF Line
  <2> QED
    BY <1>1, <1>2, <1>4, <2>1, <2>2 DEF LineShown, LineState
<1> QED
  BY <1>3, <1>4

LEMMA MoveRightFacts ==
    ASSUME LineState, MoveRight
    PROVE  /\ LineShown' /\ Line' = Line
           /\ cursor_pos' = IF cursor_pos < input_length THEN cursor_pos + 1 ELSE cursor_pos
<1>1. /\ cursor_pos \in Nat /\ cursor_pos <= input_length /\ input_length \in Nat
      /\ Shown(Updated, Line, cursor_pos)
  BY StateFacts
<1>2. UNCHANGED <<input_buffer, input_length>>
  BY DEF MoveRight
<1>3. CASE cursor_pos < input_length
  <2> DEFINE c == Cursor(Updated) + 1
  <2>1. cursor_pos' = cursor_pos + 1 /\ screen' = MoveTo(Updated, c)
    BY <1>3 DEF MoveRight, CursorRight
  <2>2. Cursor(Updated) \in Nat
    BY <1>1, CursorFacts, CellsAreNat DEF Shown
  <2>3. c \in Int /\ c = Cursor(Updated) - cursor_pos + cursor_pos'
        /\ cursor_pos' \in 0 .. input_length
    BY <1>1, <1>3, <2>1, <2>2
  <2> HIDE DEF c
  <2> QED
    BY <1>2, <1>3, <2>1, <2>3, MovedFacts
<1>4. CASE ~(cursor_pos < input_length)
  <2>1. UNCHANGED cursor_pos /\ screen' = Updated
    BY <1>4 DEF MoveRight
  <2>2. Line' = Line
    BY <1>2 DEF Line
  <2> QED
    BY <1>1, <1>2, <1>4, <2>1, <2>2 DEF LineShown, LineState
<1> QED
  BY <1>3, <1>4

LEMMA NoEffectFacts ==
    ASSUME LineState, screen' = Updated, UNCHANGED <<input_buffer, input_length, cursor_pos>>
    PROVE  LineShown' /\ Line' = Line
<1>1. Shown(Updated, Line, cursor_pos)
  BY StateFacts
<1>2. Line' = Line
  BY DEF Line
<1> QED
  BY <1>1, <1>2 DEF LineShown, LineState

-----------------------------------------------------------------------------
(***************************************************************************)
(* ENTER: the line goes to the ring, and a reader may be served.           *)
(***************************************************************************)
LineEnd == <<NewLine, 0>>

LEMMA LineBytes ==
    ASSUME NEW s \in Seq(Chars)
    PROVE  /\ s \o LineEnd \in Seq(Nat) /\ Len(s \o LineEnd) = Len(s) + 2
           /\ Append(s, NewLine) \in Seq(Nat \ {0}) /\ Len(Append(s, NewLine)) = Len(s) + 1
           /\ \A j \in 1 .. Len(s) + 1 : (s \o LineEnd)[j] = Append(s, NewLine)[j]
           /\ (s \o LineEnd)[Len(s) + 2] = 0 /\ Len(s) \in Nat
<1> DEFINE n == Len(s)
           b == s \o LineEnd
           w == Append(s, NewLine)
<1>1. n \in Nat /\ s \in Seq(Nat) /\ s \in Seq(Nat \ {0})
  BY LenProperties, PlainLines
<1> DEFINE e == LineEnd
<1>2. e \in Seq(Nat) /\ Len(e) = 2 /\ e[1] = NewLine /\ e[2] = 0
  BY DEF NewLine, LineEnd
<1> HIDE DEF e
<1>3. /\ b \in Seq(Nat) /\ Len(b) = n + 2
      /\ \A i \in 1 .. n + 2 : b[i] = IF i <= n THEN s[i] ELSE e[i - n]
  <2>1. /\ s \o e \in Seq(Nat) /\ Len(s \o e) = Len(s) + Len(e)
        /\ \A i \in 1 .. Len(s) + Len(e) : (s \o e)[i] = IF i <= Len(s) THEN s[i] ELSE e[i - Len(s)]
    BY <1>1, <1>2, ConcatProperties
  <2> QED
    BY <1>2, <2>1 DEF e
<1>4. /\ w \in Seq(Nat \ {0}) /\ Len(w) = n + 1 /\ w[n + 1] = NewLine
      /\ \A i \in 1 .. n : w[i] = s[i]
  <2>1. NewLine \in Nat \ {0}
    BY DEF NewLine
  <2> QED
    BY <1>1, <2>1, AppendProperties
<1>5. ASSUME NEW j \in 1 .. n + 1 PROVE b[j] = w[j]
  <2>1. CASE j \in 1 .. n
    <3>1. j \in 1 .. n + 2 /\ j <= n
      BY <1>1, <2>1
    <3> QED
      BY <1>3, <1>4, <2>1, <3>1
  <2>2. CASE j = n + 1
    <3>1. j \in 1 .. n + 2 /\ ~(j <= n) /\ j - n = 1
      BY <1>1, <2>2
    <3> QED
      BY <1>2, <1>3, <1>4, <2>2, <3>1
  <2>3. j \in 1 .. n \/ j = n + 1
    BY <1>1
  <2> QED
    BY <2>1, <2>2, <2>3
<1>6. b[n + 2] = 0
  <2>1. n + 2 \in 1 .. n + 2 /\ ~(n + 2 <= n) /\ (n + 2) - n = 2
    BY <1>1
  <2> QED
    BY <1>2, <1>3, <2>1
<1> QED
  BY <1>1, <1>3, <1>4, <1>5, <1>6

LEMMA RingTakesLine ==
    ASSUME NEW ip, NEW g, NEW h, NEW ls, Ringed(ip, g, h, ls), NEW s \in Seq(Chars),
           NEW b, b = s \o LineEnd, Len(s) < NInput, Wrap(h - g) + Len(s) + 2 < NPool,
           NEW jp, jp = Overwritten(ip, h, b)
    PROVE  Ringed(jp, g, Wrap(h + Len(b)), Append(ls, Append(s, NewLine)))
<1> DEFINE n == Len(s)
           w == Append(s, NewLine)
           l == Wrap(h - g)
           u == Bytes(ip, g, h)
           hh == Wrap(h + Len(b))
           v == Bytes(jp, g, hh)
<1>1. /\ b \in Seq(Nat) /\ Len(b) = n + 2 /\ w \in Seq(Nat \ {0}) /\ Len(w) = n + 1
      /\ \A j \in 1 .. n + 1 : b[j] = w[j]
      /\ b[n + 2] = 0 /\ n \in Nat
  <2>1. /\ s \in Seq(Chars) /\ n = Len(s) /\ b = s \o LineEnd
        /\ w = Append(s, NewLine)
    OBVIOUS
  <2> HIDE DEF n, w
  <2> QED
    BY ONLY <2>1, LineBytes
<1>2. ip \in [Ring -> Nat] /\ g \in Ring /\ h \in Ring
  BY DEF Ringed
<1>3. l \in Ring /\ Len(u) = l
  BY <1>2, BytesFacts
<1>4. l \in Nat /\ NInput \in Nat /\ NPool \in Nat
  <2>1. l \in 0 .. NPool - 1 /\ NPool \in Nat
    BY <1>3, RingSize
  <2> HIDE DEF l
  <2> QED
    BY <2>1, InputAssumption
<1>5. l + Len(b) < NPool
  <2>1. l + n + 2 < NPool
    OBVIOUS
  <2> HIDE DEF l, n
  <2> QED
    BY <1>1, <1>4, <2>1
<1>6. /\ jp \in [Ring -> Nat] /\ hh \in Ring /\ Wrap(hh - g) = l + Len(b)
      /\ \A k \in 1 .. l : v[k] = u[k]
      /\ \A k \in 1 .. Len(b) : v[l + k] = b[k]
  <2>1. jp = Overwritten(ip, h, b)
    OBVIOUS
  <2>2. b \in Seq(Nat) /\ Wrap(h - g) + Len(b) < NPool
    BY <1>1, <1>5
  <2> QED
    BY ONLY <1>2, <2>1, <2>2, BytesAppend DEF l, u, hh, v
<1>7. Len(v) = l + Len(b)
  BY <1>2, <1>6, BytesFacts
<1>8. n < NInput
  OBVIOUS
<1> HIDE DEF n, w, l, u, hh, v
<1>9. PICK m, F : Holds(u, m, F, ls)
  BY DEF Ringed, u
<1>10. /\ Len(w) \in 1 .. NInput /\ Len(v) = Len(u) + Len(w) + 1
       /\ \A k \in 1 .. Len(u) : v[k] = u[k]
  BY <1>1, <1>3, <1>4, <1>6, <1>7, <1>8
<1>11. \A j \in 1 .. Len(w) : v[Len(u) + j] = w[j]
  <2>1. \A j \in 1 .. n + 1 : j \in 1 .. Len(b)
    BY <1>1
  <2> QED
    BY <1>1, <1>3, <1>6, <2>1
<1>12. v[Len(v)] = 0
  <2>1. n + 2 \in 1 .. Len(b) /\ Len(v) = l + (n + 2)
    BY <1>1, <1>4, <1>7
  <2> QED
    BY <1>1, <1>6, <2>1
<1>13. PICK G : Holds(v, m + 1, G, Append(ls, w))
  BY ONLY <1>1, <1>9, <1>10, <1>11, <1>12, HoldsAppend
<1>14. \E k, H : Holds(v, k, H, Append(ls, w))
  BY <1>13
<1> QED
  BY <1>2, <1>6, <1>14 DEF Ringed, v, w, hh

LEMMA EnterFacts ==
    ASSUME LineState, Enter, NEW ls, Ringed(input_pool, f, r, ls), GotTyped, stack \in Seq(Calls)
    PROVE  /\ LineShown' /\ input_length' = 0 /\ cursor_pos' = 0 /\ GotTyped'
           /\ \E ks : /\ Ringed(input_pool', f', r', ks)
                      /\ Served(Append(ls, Append(Line, NewLine)), stack, ks)
<1> DEFINE b == Line \o LineEnd
           h == Wrap(r + Len(b))
           jp == Overwritten(input_pool, r, b)
           ms == Append(ls, Append(Line, NewLine))
<1>1. /\ Line \in Seq(Chars) /\ Len(Line) = input_length /\ input_length \in Nat
      /\ input_length < NInput /\ NInput \in Nat /\ Shown(Updated, Line, cursor_pos)
  BY StateFacts
<1>2. Wrap(r - f) + Len(Line) + 2 < NPool
  BY <1>1 DEF Enter, FitsPool, Unread, Wrap
<1>3. Ringed(jp, f, h, ms)
  BY <1>1, <1>2, RingTakesLine
<1>4. WakeUpRead(jp, h, stack)
  BY DEF Enter, Wrap, Overwritten, LineEnd
<1>5. /\ screen' = Printc(Updated, NewLine) /\ input_length' = 0 /\ cursor_pos' = 0
      /\ input_buffer' = [input_buffer EXCEPT ![input_length] = NewLine,
                                              ![input_length + 1] = 0, ![0] = 0]
  BY DEF Enter
<1> HIDE DEF h, jp, ms
<1>6. GotTyped' /\ \E ks : Ringed(input_pool', f', r', ks) /\ Served(ms, stack, ks)
  BY <1>3, <1>4, WakeFacts
<1>7. LineShown'
  <2>1. Typed(input_buffer', 0)
    <3>1. input_buffer' \in [Index -> Nat]
      BY <1>5 DEF LineState, Typed, NewLine
    <3>2. 0 \in Index /\ \A k \in 0 .. 0 - 1 : input_buffer'[k] \in Chars
      BY <1>1 DEF Index
    <3> QED
      BY <3>1, <3>2 DEF Typed
  <2>2. Len(Line') = 0
    <3>1. Line' = LineOf(input_buffer', 0)
      BY <1>5 DEF Line, LineOf
    <3> QED
      BY <2>1, <3>1, LineFacts
  <2>3. screen' \in Screens
    <3>1. Updated \in Screens
      BY <1>1 DEF Shown
    <3> QED
      BY <1>5, <3>1, NewLineFacts
  <2>4. Shown(screen', Line', 0)
    BY <2>2, <2>3, EmptyShown
  <2>5. 0 \in 0 .. 0
    OBVIOUS
  <2> QED
    BY <1>5, <2>1, <2>4, <2>5 DEF LineShown
<1> QED
  BY <1>5, <1>6, <1>7 DEF ms

-----------------------------------------------------------------------------
(***************************************************************************)
(* The invariant, with the ring as the lines it holds.                     *)
(***************************************************************************)
Good ==
    /\ LineState /\ GotTyped /\ LevelCounts
    /\ \E ls : Ringed(input_pool, f, r, ls)
    /\ stack \in Seq(Calls) /\ Once(stack) /\ Len(stack) <= Cardinality(Processes)
    /\ caps_on \in BOOLEAN /\ dirty \in BOOLEAN

LEMMA ShiftsFinite == \A S : IsFiniteSet(S \cap {LSHIFT, RSHIFT})
<1> TAKE S
<1> DEFINE one == {} \cup {LSHIFT}
           two == one \cup {RSHIFT}
<1>1. IsFiniteSet(one)
  BY FS_EmptySet, FS_AddElement
<1> HIDE DEF one
<1>2. IsFiniteSet(two)
  BY <1>1, FS_AddElement
<1>3. S \cap {LSHIFT, RSHIFT} \subseteq two
  BY DEF one
<1> HIDE DEF two
<1> QED
  BY <1>2, <1>3, FS_Subset

\* get_ascii: a shift key counts while it is held.
LEMMA LevelKept ==
    ASSUME LevelCounts, NEW code \in Codes, CanSend(code), shift_level' = Shift(code),
           down' = IF code \in Held THEN down \cup {code} ELSE down \ {code - 128}
    PROVE  LevelCounts'
<1> DEFINE S == down \cap {LSHIFT, RSHIFT}
           T == down' \cap {LSHIFT, RSHIFT}
<1>1. down \subseteq Held /\ shift_level = Cardinality(S)
  BY DEF LevelCounts
<1>2. IsFiniteSet(S)
  BY ShiftsFinite
<1>3. /\ Held \subseteq {42, 54, 58} /\ \A k \in Held : k \in Keyboard
      /\ Keyboard \subseteq {2, 30, 14, 28, 75, 77, 42, 54, 58}
      /\ code \in Keyboard \/ \E k \in Held : code = k + 128
  <2>1. DOMAIN KeyMaps[1] = {2, 30}
    BY DEF KeyMaps
  <2> QED
    BY <2>1, KeyboardAssumption
       DEF Held, Codes, Up, LSHIFT, RSHIFT, CAPS, BACK, ENTER, KEY_LEFT, KEY_RIGHT
<1>4. down' \subseteq Held
  BY <1>1
<1>5. CASE code \in {42, 54}
  <2>1. code \in Held /\ code \notin S
    BY <1>3, <1>5 DEF Held, LSHIFT, RSHIFT, CAPS, CanSend
  <2>2. T = S \cup {code}
    BY <1>5, <2>1 DEF LSHIFT, RSHIFT
  <2>3. shift_level' = shift_level + 1
    BY <1>5 DEF Shift, Up, LSHIFT, RSHIFT
  <2> HIDE DEF S, T
  <2>4. Cardinality(T) = Cardinality(S) + 1
    BY <1>2, <2>1, <2>2, FS_AddElement
  <2> QED
    BY <1>1, <1>4, <2>3, <2>4 DEF LevelCounts, T
<1>6. CASE code \in {170, 182}
  <2>1. code \notin Held /\ code - 128 \in Held /\ code - 128 \in {42, 54}
    BY <1>3, <1>6
  <2>2. code - 128 \in S
    BY <2>1 DEF CanSend, LSHIFT, RSHIFT
  <2>3. T = S \ {code - 128}
    BY <2>1
  <2>4. shift_level' = shift_level - 1
    BY <1>6 DEF Shift, Up, LSHIFT, RSHIFT
  <2> HIDE DEF S, T
  <2>5. Cardinality(T) = Cardinality(S) - 1
    BY <1>2, <2>2, <2>3, FS_RemoveElement
  <2> QED
    BY <1>1, <1>4, <2>4, <2>5 DEF LevelCounts, T
<1>7. CASE code \notin {42, 54, 170, 182}
  <2>1. T = S
    <3>1. code \in {2, 30, 14, 28, 75, 77, 58, 186}
      <4>1. code \in Keyboard => code \in {2, 30, 14, 28, 75, 77, 58}
        BY <1>3, <1>7
      <4>2. ASSUME NEW k \in Held, code = k + 128 PROVE code = 186
        <5>1. k \in {42, 54, 58}
          BY <1>3
        <5> QED
          BY <1>7, <4>2, <5>1
      <4> QED
        BY <1>3, <4>1, <4>2
    <3>2. code - 128 \notin {42, 54}
      BY <3>1
    <3> QED
      BY <1>7, <3>2 DEF LSHIFT, RSHIFT
  <2>2. shift_level' = shift_level
    BY <1>7 DEF Shift, Up, LSHIFT, RSHIFT
  <2> HIDE DEF S, T
  <2> QED
    BY <1>1, <1>4, <2>1, <2>2 DEF LevelCounts, T
<1> QED
  BY <1>5, <1>6, <1>7

\* Another part of the invariant, of a key.
LEMMA CodeFacts ==
    ASSUME NEW code
    PROVE  /\ code \in DOMAIN KeyMaps[1] => /\ Ascii(code) \in Chars
                                            /\ code \notin {BACK, ENTER, KEY_LEFT, KEY_RIGHT}
           /\ BACK # ENTER /\ BACK # KEY_LEFT /\ BACK # KEY_RIGHT
           /\ ENTER # KEY_LEFT /\ ENTER # KEY_RIGHT /\ KEY_LEFT # KEY_RIGHT
<1>1. DOMAIN KeyMaps[1] = {2, 30}
  BY DEF KeyMaps
<1>2. ASSUME code \in DOMAIN KeyMaps[1] PROVE Ascii(code) \in Chars
  <2> DEFINE upper == (shift_level > 0) # (caps_on /\ IsLetter(code))
  <2>1. Ascii(code) = KeyMaps[IF upper THEN 2 ELSE 1][code]
    BY DEF Ascii
  <2>2. (IF upper THEN 2 ELSE 1) \in 1 .. 2
    OBVIOUS
  <2> HIDE DEF upper
  <2> QED
    BY <1>2, <2>1, <2>2 DEF Chars
<1> QED
  BY <1>1, <1>2 DEF BACK, ENTER, KEY_LEFT, KEY_RIGHT

LEMMA GoodInit == TtyInit => Good
<1> SUFFICES ASSUME TtyInit PROVE Good
  OBVIOUS
<1>1. NInput \in Nat \ {0} /\ NPool \in Nat \ {0} /\ 0 \in Index /\ 0 \in Ring
  <2>1. NInput \in Nat \ {0} /\ NPool \in Nat \ {0}
    BY InputAssumption
  <2> QED
    BY <2>1 DEF Index, Ring
<1>2. screen \in Screens
  BY ScreenSize DEF TtyInit, Blank, Screens, Space
<1>3. Typed(input_buffer, 0)
  BY <1>1 DEF TtyInit, Typed
<1>4. LineState
  <2>1. Line = LineOf(input_buffer, 0)
    BY DEF TtyInit, Line, LineOf
  <2>2. Len(Line) = 0 /\ 0 \in 0 .. Len(Line) /\ Len(Line) \in Nat
    BY <1>3, <2>1, LineFacts
  <2>3. ShowsLine(screen, Line, 0)
    BY <1>2, <2>2, EmptyShown, ShownShows
  <2> QED
    BY <1>2, <1>3, <2>2, <2>3 DEF TtyInit, LineState
<1>5. GotTyped
  <2>1. <<>> \in Seq(Nat) /\ Len(<<>>) = 0
    OBVIOUS
  <2> QED
    BY <1>1, <2>1 DEF TtyInit, GotTyped
<1>6. LevelCounts
  BY FS_EmptySet DEF TtyInit, LevelCounts
<1>7. Ringed(input_pool, f, r, <<>>)
  <2> DEFINE u == Bytes(input_pool, f, r)
             F == [k \in 0 .. 0 |-> 0]
  <2>1. input_pool \in [Ring -> Nat] /\ f = 0 /\ r = 0 /\ f \in Ring /\ r \in Ring
    BY <1>1 DEF TtyInit
  <2>2. Len(u) = IF f <= r THEN r - f ELSE r - f + NPool
    BY <2>1, BytesFacts
  <2> HIDE DEF u
  <2>3. Len(u) = 0
    BY <2>1, <2>2
  <2>4. Cut(u, 0, F)
    BY <2>3 DEF Cut
  <2>5. <<>> \in Seq(Seq(Nat)) /\ Len(<<>>) = 0
    OBVIOUS
  <2>6. Holds(u, 0, F, <<>>)
    BY <2>4, <2>5 DEF Holds
  <2>7. \E n, G : Holds(u, n, G, <<>>)
    BY <2>6
  <2> QED
    BY <2>1, <2>7 DEF Ringed, u
<1>8. stack \in Seq(Calls) /\ Once(stack) /\ Len(stack) <= Cardinality(Processes)
  <2>1. Cardinality(Processes) \in Nat
    BY InputAssumption, FS_CardinalityType
  <2>2. stack = <<>> /\ <<>> \in Seq(Calls) /\ Len(<<>>) = 0
    BY DEF TtyInit
  <2> QED
    BY <2>1, <2>2 DEF Once
<1>9. caps_on \in BOOLEAN /\ dirty \in BOOLEAN
  BY DEF TtyInit
<1>10. \E ls : Ringed(input_pool, f, r, ls)
  BY <1>7
<1> QED
  BY <1>4, <1>5, <1>6, <1>8, <1>9, <1>10 DEF Good

LEMMA GoodHolds == Good => TtyInv
<1> SUFFICES ASSUME Good PROVE TtyInv
  OBVIOUS
<1>1. /\ Line \in Seq(Chars) /\ Len(Line) = input_length /\ input_length \in Nat
      /\ \A j \in 1 .. input_length : Line[j] = input_buffer[j - 1]
  BY StateFacts DEF Good
<1>2. PICK ls : Ringed(input_pool, f, r, ls)
  BY DEF Good
<1>3. WholeLines(Bytes(input_pool, f, r))
  <2>1. PICK n, F : Holds(Bytes(input_pool, f, r), n, F, ls)
    BY <1>2 DEF Ringed
  <2>2. Cut(Bytes(input_pool, f, r), n, F)
    BY <2>1 DEF Holds
  <2> QED
    BY <2>2, CutIsWhole
<1>4. RingHoldsLines
  BY <1>3 DEF RingHoldsLines, UnreadBytes, Unread, Bytes, Wrap
<1>5. shift_level \in Nat
  <2>1. Cardinality(down \cap {LSHIFT, RSHIFT}) \in Nat
    BY ShiftsFinite, FS_CardinalityType
  <2> QED
    BY <2>1 DEF Good, LevelCounts
<1>6. TtyTypeOK
  BY <1>2, <1>5 DEF Good, LineState, Typed, GotTyped, Ringed, TtyTypeOK
<1>7. WaitOnce /\ LineTyped
  BY DEF Good, LineState, Typed, WaitOnce, LineTyped, Once, Calls
<1>8. ASSUME ~dirty PROVE ShowsLine(screen, Line, cursor_pos)
  BY <1>8 DEF Good, LineState
<1>9. LineInCells
  BY <1>1, <1>8 DEF LineInCells, ShowsLine
<1>10. ScreenShowsInput
  <2> SUFFICES ASSUME ~dirty, NEW k \in 0 .. input_length - 1
               PROVE  /\ Cursor(screen) - cursor_pos + k \in Cells
                      /\ screen.cell[Cursor(screen) - cursor_pos + k] = input_buffer[k]
    BY DEF ScreenShowsInput
  <2>1. /\ Cursor(screen) - cursor_pos + k \in Cells
        /\ screen.cell[Cursor(screen) - cursor_pos + k] = Line[k + 1]
    BY <1>1, <1>8 DEF ShowsLine
  <2>2. k + 1 \in 1 .. input_length /\ (k + 1) - 1 = k
    BY <1>1
  <2> QED
    BY <1>1, <2>1, <2>2
<1> QED
  BY <1>4, <1>6, <1>7, <1>9, <1>10 DEF TtyInv, Good

-----------------------------------------------------------------------------
(***************************************************************************)
(* The steps.                                                              *)
(***************************************************************************)
\* A key that leaves the ring alone.
LEMMA EditKeeps ==
    ASSUME Good, LineShown', UNCHANGED pool, LevelCounts', caps_on' \in BOOLEAN, dirty' = FALSE
    PROVE  Good'
<1>1. LineState'
  BY ShownState
<1>2. UNCHANGED <<input_pool, f, r, stack, got>>
  BY DEF pool
<1>3. GotTyped'
  BY <1>2 DEF Good, GotTyped
<1>4. (\E ls : Ringed(input_pool, f, r, ls))'
  BY <1>2 DEF Good
<1>5. stack' \in Seq(Calls) /\ Once(stack') /\ Len(stack') <= Cardinality(Processes)
  BY <1>2 DEF Good
<1> QED
  BY <1>1, <1>3, <1>4, <1>5 DEF Good

\* What a key does.
LEMMA KeyCases ==
    ASSUME NEW code, Getch(code)
    PROVE  /\ dirty' = FALSE
           /\ \/ \E ch \in Chars : TypeChar(ch)
              \/ Backspace \/ MoveLeft \/ MoveRight \/ Enter \/ NoEffect
<1>1. /\ dirty' = FALSE
      /\ CASE code \in DOMAIN KeyMaps[1] -> TypeChar(Ascii(code))
           [] code = BACK -> Backspace
           [] code = KEY_LEFT -> MoveLeft
           [] code = KEY_RIGHT -> MoveRight
           [] code = ENTER -> Enter
           [] OTHER -> NoEffect
  BY DEF Getch
<1>2. /\ code \in DOMAIN KeyMaps[1] => /\ Ascii(code) \in Chars
                                       /\ code \notin {BACK, ENTER, KEY_LEFT, KEY_RIGHT}
      /\ BACK # ENTER /\ BACK # KEY_LEFT /\ BACK # KEY_RIGHT
      /\ ENTER # KEY_LEFT /\ ENTER # KEY_RIGHT /\ KEY_LEFT # KEY_RIGHT
  BY CodeFacts
<1>3. CASE code \in DOMAIN KeyMaps[1]
  <2>1. TypeChar(Ascii(code))
    BY <1>1, <1>2, <1>3
  <2> QED
    BY <1>1, <1>2, <1>3, <2>1
<1>4. CASE code \notin DOMAIN KeyMaps[1]
  BY <1>1, <1>2, <1>4
<1> QED
  BY <1>3, <1>4

LEMMA EnterKeeps ==
    ASSUME Good, Enter, LevelCounts', caps_on' \in BOOLEAN, dirty' = FALSE
    PROVE  Good'
<1>1. PICK ls : Ringed(input_pool, f, r, ls)
  BY DEF Good
<1>2. LineState /\ GotTyped /\ stack \in Seq(Calls) /\ Once(stack)
  BY DEF Good
<1>3. /\ LineShown' /\ GotTyped'
      /\ \E ks : /\ Ringed(input_pool', f', r', ks)
                 /\ Served(Append(ls, Append(Line, NewLine)), stack, ks)
  BY <1>1, <1>2, EnterFacts
<1>4. PICK ks : /\ Ringed(input_pool', f', r', ks)
                /\ Served(Append(ls, Append(Line, NewLine)), stack, ks)
  BY <1>3
<1>5. /\ stack' \in Seq(Calls) /\ Once(stack') /\ Len(stack') <= Cardinality(Processes)
  BY <1>2, <1>4, ServedReaders
<1>6. LineState'
  BY <1>3, ShownState
<1> QED
  BY <1>3, <1>4, <1>5, <1>6 DEF Good

LEMMA GetchKeeps ==
    ASSUME Good, NEW code \in Codes, Getch(code)
    PROVE  Good'
<1>1. LevelCounts'
  BY LevelKept DEF Good, Getch
<1>2. caps_on' \in BOOLEAN
  BY DEF Good, Getch, Caps
<1>3. dirty' = FALSE /\ LineState
  BY KeyCases DEF Good
<1>4. ASSUME NEW ch \in Chars, TypeChar(ch) PROVE Good'
  BY <1>1, <1>2, <1>3, <1>4, TypeCharFacts, EditKeeps DEF TypeChar
<1>5. ASSUME Backspace PROVE Good'
  BY <1>1, <1>2, <1>3, <1>5, BackspaceFacts, EditKeeps DEF Backspace
<1>6. ASSUME MoveLeft PROVE Good'
  <2>1. UNCHANGED pool
    BY <1>6 DEF MoveLeft
  <2> QED
    BY <1>1, <1>2, <1>3, <1>6, <2>1, MoveLeftFacts, EditKeeps
<1>7. ASSUME MoveRight PROVE Good'
  <2>1. UNCHANGED pool
    BY <1>7 DEF MoveRight
  <2> QED
    BY <1>1, <1>2, <1>3, <1>7, <2>1, MoveRightFacts, EditKeeps
<1>8. ASSUME Enter PROVE Good'
  BY <1>1, <1>2, <1>3, <1>8, EnterKeeps
<1>9. ASSUME NoEffect PROVE Good'
  <2>1. UNCHANGED pool /\ screen' = Updated /\ UNCHANGED <<input_buffer, input_length, cursor_pos>>
    BY <1>9 DEF NoEffect
  <2> QED
    BY <1>1, <1>2, <1>3, <2>1, NoEffectFacts, EditKeeps
<1> QED
  BY <1>4, <1>5, <1>6, <1>7, <1>8, <1>9, KeyCases

\* A reader comes.
LEMMA ReaderPushed ==
    ASSUME NEW st \in Seq(Calls), Once(st), NEW c \in Calls, \A k \in 1 .. Len(st) : st[k].pid # c.pid
    PROVE  <<c>> \o st \in Seq(Calls) /\ Once(<<c>> \o st)
<1> DEFINE e == <<c>>
           t == e \o st
<1>1. e \in Seq(Calls) /\ Len(e) = 1 /\ e[1] = c
  OBVIOUS
<1>2. Len(st) \in Nat
  BY LenProperties
<1> HIDE DEF e
<1>3. /\ t \in Seq(Calls) /\ Len(t) = 1 + Len(st)
      /\ \A i \in 1 .. 1 + Len(st) : t[i] = IF i <= 1 THEN e[i] ELSE st[i - 1]
  <2>1. e \in Seq(Calls) /\ st \in Seq(Calls)
    BY <1>1
  <2>2. /\ t \in Seq(Calls) /\ Len(t) = Len(e) + Len(st)
        /\ \A i \in 1 .. Len(e) + Len(st) : t[i] = IF i <= Len(e) THEN e[i] ELSE st[i - Len(e)]
    BY ONLY <2>1, ConcatProperties
  <2> QED
    BY <1>1, <2>2
<1> HIDE DEF t
<1>4. ASSUME NEW i \in 1 .. Len(t)
      PROVE  (i = 1 /\ t[i] = c) \/ (i # 1 /\ i - 1 \in 1 .. Len(st) /\ t[i] = st[i - 1])
  <2>1. CASE i = 1
    BY <1>1, <1>2, <1>3, <2>1
  <2>2. CASE i # 1
    <3>1. i \in 1 .. 1 + Len(st) /\ ~(i <= 1) /\ i - 1 \in 1 .. Len(st)
      BY <1>2, <1>3, <2>2
    <3> QED
      BY <1>3, <2>2, <3>1
  <2> QED
    BY <2>1, <2>2
<1>5. ASSUME NEW i \in 1 .. Len(t), NEW j \in 1 .. Len(t), t[i].pid = t[j].pid PROVE i = j
  <2>1. CASE i = 1 \/ j = 1
    BY <1>4, <1>5, <2>1
  <2>2. CASE i # 1 /\ j # 1
    <3>1. /\ i - 1 \in 1 .. Len(st) /\ j - 1 \in 1 .. Len(st)
          /\ st[i - 1].pid = st[j - 1].pid
      BY <1>4, <1>5, <2>2
    <3>2. i - 1 = j - 1
      BY <3>1 DEF Once
    <3> QED
      BY <1>2, <1>3, <3>2
  <2> QED
    BY <2>1, <2>2
<1> QED
  BY <1>3, <1>5 DEF Once, t, e

LEMMA ReadFactsOf ==
    ASSUME Good, NEW p \in Processes, NEW n \in Lengths, Read(p, n),
           NEW ls, Ringed(input_pool, f, r, ls), NEW c, c = [pid |-> p, length |-> n]
    PROVE  /\ Good'
           /\ \E ks : Ringed(input_pool', f', r', ks) /\ Served(ls, <<c>> \o stack, ks)
<1> DEFINE st == <<c>> \o stack
<1>1. c \in Calls /\ c.pid = p
  BY DEF Calls
<1>2. LineState /\ GotTyped /\ stack \in Seq(Calls) /\ Once(stack)
  BY DEF Good
<1>3. \A k \in 1 .. Len(stack) : stack[k].pid # c.pid
  BY <1>1 DEF Read, Waiting
<1>4. st \in Seq(Calls) /\ Once(st)
  BY <1>1, <1>2, <1>3, ReaderPushed
<1>5. WakeUpRead(input_pool, r, st)
  BY DEF Read
<1> HIDE DEF st
<1>6. GotTyped' /\ \E ks : Ringed(input_pool', f', r', ks) /\ Served(ls, st, ks)
  BY <1>2, <1>4, <1>5, WakeFacts
<1>7. PICK ks : Ringed(input_pool', f', r', ks) /\ Served(ls, st, ks)
  BY <1>6
<1>8. stack' \in Seq(Calls) /\ Once(stack') /\ Len(stack') <= Cardinality(Processes)
  BY <1>4, <1>7, ServedReaders
<1>9. /\ UNCHANGED <<shift_level, caps_on, screen, down>>
      /\ UNCHANGED <<input_buffer, input_length, cursor_pos, dirty>>
  BY DEF Read, line
<1>10. LineState' /\ LevelCounts' /\ caps_on' \in BOOLEAN /\ dirty' \in BOOLEAN
  <2>1. Line' = Line
    BY <1>9 DEF Line
  <2> QED
    BY <1>9, <2>1 DEF Good, LineState, LevelCounts
<1>11. \E ks2 : Ringed(input_pool', f', r', ks2)
  BY <1>7
<1> QED
  BY <1>6, <1>7, <1>8, <1>10, <1>11 DEF Good, st

\* Output comes.
LEMMA WriteKeeps ==
    ASSUME Good, NEW n \in Numbers, Write(n)
    PROVE  Good'
<1>1. /\ screen' = Prints(screen, Parts(Decimal(n)))
      /\ dirty' = (dirty \/ input_length # 0)
      /\ UNCHANGED <<shift_level, caps_on, input_buffer, input_length, cursor_pos, down>>
      /\ UNCHANGED <<input_pool, f, r, stack, got>>
  BY DEF Write, pool
<1>2. LineState /\ screen \in Screens
  BY DEF Good, LineState
<1>3. screen' \in Screens
  <2> DEFINE t == Decimal(n)
  <2>1. n \in Int
    BY InputAssumption
  <2>2. t \in Seq(Nat \ {NewLine}) /\ Len(t) # 0
    BY <2>1, DecimalFacts
  <2> HIDE DEF t
  <2>3. Parts(t) = t
    BY <2>2, WholeWritten
  <2>4. Prints(screen, t) \in Screens
    BY <1>2, <2>2, PrintsFacts
  <2> QED
    BY <1>1, <2>3, <2>4 DEF t
<1>4. Line' = Line
  BY <1>1 DEF Line
<1>5. ASSUME ~dirty' PROVE ShowsLine(screen', Line', cursor_pos')
  <2>1. input_length = 0 /\ cursor_pos = 0 /\ Len(Line) = 0
    <3>1. input_length = 0
      BY <1>1, <1>5
    <3> QED
      BY <1>2, <3>1, StateFacts
  <2>2. Shown(screen', Line, 0)
    BY <1>3, <2>1, EmptyShown
  <2>3. Len(Line) \in Nat /\ 0 \in 0 .. Len(Line)
    BY <2>1
  <2>4. ShowsLine(screen', Line, 0)
    BY <2>2, <2>3, ShownShows
  <2> QED
    BY <1>1, <1>4, <2>1, <2>4
<1>6. LineState'
  BY <1>1, <1>2, <1>3, <1>5 DEF LineState
<1> QED
  BY <1>1, <1>6 DEF Good, GotTyped, LevelCounts

LEMMA GoodNext == Good /\ [TtyNext]_vars => Good'
<1> SUFFICES ASSUME Good, [TtyNext]_vars PROVE Good'
  OBVIOUS
<1>1. ASSUME NEW code \in Codes, Getch(code) PROVE Good'
  BY <1>1, GetchKeeps
<1>2. ASSUME NEW p \in Processes, NEW n \in Lengths, Read(p, n) PROVE Good'
  <2>1. PICK ls : Ringed(input_pool, f, r, ls)
    BY DEF Good
  <2> QED
    BY <1>2, <2>1, ReadFactsOf
<1>3. ASSUME NEW n \in Numbers, Write(n) PROVE Good'
  BY <1>3, WriteKeeps
<1>4. CASE UNCHANGED vars
  <2>1. /\ UNCHANGED <<shift_level, caps_on, screen, down>>
        /\ UNCHANGED <<input_buffer, input_length, cursor_pos, dirty>>
        /\ UNCHANGED <<input_pool, f, r, stack, got>>
    BY <1>4 DEF vars, line, pool
  <2>2. Line' = Line
    BY <2>1 DEF Line
  <2> QED
    BY <2>1, <2>2 DEF Good, LineState, GotTyped, LevelCounts
<1> QED
  BY <1>1, <1>2, <1>3, <1>4 DEF TtyNext

(***************************************************************************)
(* Every state of the driver has its types and the limits of its buffers;  *)
(* the ring holds whole lines; and the line that is edited is on the       *)
(* screen, around the cursor, until output comes behind it.                *)
(***************************************************************************)
THEOREM TtyInvariant == TtySpec => []TtyInv
<1>1. TtySpec => []Good
  BY GoodInit, GoodNext, PTL DEF TtySpec
<1> QED
  BY <1>1, GoodHolds, PTL

(***************************************************************************)
(* What canonic_mode_getch and update_input keep up: the screen shows the  *)
(* line.                                                                   *)
(***************************************************************************)
THEOREM LineIsShown == TtySpec => []ScreenShowsInput
<1>1. TtyInv => ScreenShowsInput
  BY DEF TtyInv
<1> QED
  BY <1>1, TtyInvariant, PTL

-----------------------------------------------------------------------------
(***************************************************************************)
(* The driver implements Terminal.                                         *)
(***************************************************************************)
\* The two sides of a line.
Left(w, k) == SubSeq(w, 1, k)
Right(w, k) == SubSeq(w, k + 1, Len(w))

LEMMA Sides ==
    ASSUME NEW w \in Seq(Chars), NEW k \in 0 .. Len(w)
    PROVE  /\ Left(w, k) \in Seq(Chars) /\ Len(Left(w, k)) = k
           /\ \A j \in 1 .. k : Left(w, k)[j] = w[j]
           /\ Right(w, k) \in Seq(Chars) /\ Len(Right(w, k)) = Len(w) - k
           /\ \A j \in 1 .. Len(w) - k : Right(w, k)[j] = w[k + j]
           /\ Len(w) \in Nat /\ k \in Nat
<1>1. Len(w) \in Nat /\ k \in Nat
  BY LenProperties
<1> QED
  BY <1>1, Cutting DEF IsCut, Left, Right

\* A character entered is the last of the left side.
LEMMA EnteredSides ==
    ASSUME NEW w \in Seq(Chars), NEW v \in Seq(Chars), NEW p \in 0 .. Len(w), NEW ch \in Chars,
           Entered(w, v, p, ch)
    PROVE  Left(v, p + 1) = Append(Left(w, p), ch) /\ Right(v, p + 1) = Right(w, p)
<1> DEFINE n == Len(w)
           k == p + 1
           a == Append(Left(w, p), ch)
<1>1. /\ n \in Nat /\ p \in Nat /\ p <= n /\ Len(v) = n + 1
      /\ \A j \in 1 .. n + 1 : v[j] = IF j <= p THEN w[j] ELSE IF j = p + 1 THEN ch ELSE w[j - 1]
  BY LenProperties DEF Entered
<1> HIDE DEF n
<1>2. k \in 0 .. Len(v) /\ Len(v) - k = n - p /\ k = p + 1 /\ p \in 0 .. n /\ k \in Nat
  BY <1>1
<1> HIDE DEF k
<1>3. /\ Left(w, p) \in Seq(Chars) /\ Len(Left(w, p)) = p
      /\ \A j \in 1 .. p : Left(w, p)[j] = w[j]
      /\ Right(w, p) \in Seq(Chars) /\ Len(Right(w, p)) = n - p
      /\ \A j \in 1 .. n - p : Right(w, p)[j] = w[p + j]
  BY Sides DEF n
<1>4. /\ Left(v, k) \in Seq(Chars) /\ Len(Left(v, k)) = k
      /\ \A j \in 1 .. k : Left(v, k)[j] = v[j]
      /\ Right(v, k) \in Seq(Chars) /\ Len(Right(v, k)) = n - p
      /\ \A j \in 1 .. n - p : Right(v, k)[j] = v[k + j]
  BY <1>2, Sides
<1>5. a \in Seq(Chars) /\ Len(a) = k /\ a[k] = ch /\ \A j \in 1 .. p : a[j] = w[j]
  BY <1>2, <1>3, AppendProperties
<1> HIDE DEF a
<1>6. ASSUME NEW j \in 1 .. k PROVE Left(v, k)[j] = a[j]
  <2>1. j \in 1 .. n + 1 /\ (j \in 1 .. p \/ j = k) /\ ~(k <= p)
    BY <1>1, <1>2
  <2>2. CASE j \in 1 .. p
    <3>1. j <= p
      BY <2>2
    <3> QED
      BY <1>1, <1>4, <1>5, <2>1, <2>2, <3>1
  <2>3. CASE j = k
    BY <1>1, <1>2, <1>4, <1>5, <2>1, <2>3
  <2> QED
    BY <2>1, <2>2, <2>3
<1>7. Left(v, k) = a
  BY <1>4, <1>5, <1>6, SeqEqual
<1>8. ASSUME NEW j \in 1 .. n - p PROVE Right(v, k)[j] = Right(w, p)[j]
  <2>1. k + j \in 1 .. n + 1 /\ ~(k + j <= p) /\ k + j # p + 1 /\ (k + j) - 1 = p + j
    BY <1>1, <1>2
  <2>2. v[k + j] = w[p + j]
    BY <1>1, <2>1
  <2> QED
    BY <1>3, <1>4, <2>2
<1>9. Right(v, k) = Right(w, p)
  BY <1>3, <1>4, <1>8, SeqEqual
<1> QED
  BY <1>7, <1>9 DEF a, k

\* A character is taken from the end again.
LEMMA FrontOfAppend ==
    ASSUME NEW s \in Seq(Chars), NEW ch \in Chars, NEW t, t = Append(s, ch)
    PROVE  t # <<>> /\ Front(t) = s /\ Last(t) = ch
<1>1. Len(s) \in Nat /\ Len(t) = Len(s) + 1 /\ t \in Seq(Chars) /\ t[Len(s) + 1] = ch
      /\ \A j \in 1 .. Len(s) : t[j] = s[j]
  BY LenProperties, AppendProperties
<1>2. t # <<>>
  BY <1>1, EmptySeq
<1>3. Last(t) = ch
  BY <1>1 DEF Last
<1>4. Front(t) = s
  <2> DEFINE k == Len(s)
  <2>1. Front(t) = SubSeq(t, 1, k)
    <3>1. Len(t) - 1 = k
      BY <1>1
    <3> QED
      BY <3>1 DEF Front
  <2>2. k \in 0 .. Len(t)
    BY <1>1
  <2> HIDE DEF k
  <2>3. /\ SubSeq(t, 1, k) \in Seq(Chars) /\ Len(SubSeq(t, 1, k)) = k
        /\ \A j \in 1 .. k : SubSeq(t, 1, k)[j] = t[j]
    BY <1>1, <2>2, Cutting DEF IsCut
  <2>4. SubSeq(t, 1, k) = s
    BY <1>1, <2>3, SeqEqual DEF k
  <2> QED
    BY <2>1, <2>4
<1> QED
  BY <1>2, <1>3, <1>4

\* The cursor moves over one character.
LEMMA MovedSides ==
    ASSUME NEW w \in Seq(Chars), NEW k \in 1 .. Len(w)
    PROVE  /\ Left(w, k) = Append(Left(w, k - 1), w[k])
           /\ Right(w, k - 1) = <<w[k]>> \o Right(w, k)
           /\ w[k] \in Chars
           /\ Right(w, k - 1) # <<>> /\ Head(Right(w, k - 1)) = w[k]
           /\ Tail(Right(w, k - 1)) = Right(w, k)
<1> DEFINE n == Len(w)
           i == k - 1
           c == w[k]
           a == Append(Left(w, i), c)
           e == <<c>>
           b == e \o Right(w, k)
<1>1. n \in Nat /\ k \in Nat /\ k <= n /\ i \in 0 .. n /\ k \in 0 .. n /\ k = i + 1 /\ i \in Nat
      /\ n - i = 1 + (n - k)
  <2>1. n \in Nat
    BY LenProperties
  <2> HIDE DEF n
  <2>2. k \in 1 .. n
    BY DEF n
  <2> QED
    BY <2>1, <2>2
<1>2. c \in Chars
  BY ElementOfSeq
<1> HIDE DEF n, i, c
<1>3. /\ Left(w, k) \in Seq(Chars) /\ Len(Left(w, k)) = k
      /\ \A j \in 1 .. k : Left(w, k)[j] = w[j]
      /\ Right(w, k) \in Seq(Chars) /\ Len(Right(w, k)) = n - k
      /\ \A j \in 1 .. n - k : Right(w, k)[j] = w[k + j]
  BY <1>1, Sides DEF n
<1>4. /\ Left(w, i) \in Seq(Chars) /\ Len(Left(w, i)) = i
      /\ \A j \in 1 .. i : Left(w, i)[j] = w[j]
      /\ Right(w, i) \in Seq(Chars) /\ Len(Right(w, i)) = n - i
      /\ \A j \in 1 .. n - i : Right(w, i)[j] = w[i + j]
  BY <1>1, Sides DEF n
<1>5. a \in Seq(Chars) /\ Len(a) = k /\ a[k] = c /\ \A j \in 1 .. i : a[j] = w[j]
  BY <1>1, <1>2, <1>4, AppendProperties
<1> HIDE DEF a
<1>6. ASSUME NEW j \in 1 .. k PROVE Left(w, k)[j] = a[j]
  <2>1. j \in 1 .. i \/ j = k
    BY <1>1
  <2> QED
    BY <1>3, <1>5, <2>1 DEF c
<1>7. Left(w, k) = a
  BY <1>3, <1>5, <1>6, SeqEqual
<1>8. e \in Seq(Chars) /\ Len(e) = 1 /\ e[1] = c
  BY <1>2
<1> HIDE DEF e
<1>9. /\ b \in Seq(Chars) /\ Len(b) = n - i
      /\ \A j \in 1 .. n - i : b[j] = IF j <= 1 THEN e[j] ELSE Right(w, k)[j - 1]
  <2> DEFINE x == Right(w, k)
  <2>1. e \in Seq(Chars) /\ x \in Seq(Chars)
    BY <1>3, <1>8
  <2> HIDE DEF x
  <2>2. /\ e \o x \in Seq(Chars) /\ Len(e \o x) = Len(e) + Len(x)
        /\ \A j \in 1 .. Len(e) + Len(x) : (e \o x)[j] = IF j <= Len(e) THEN e[j] ELSE x[j - Len(e)]
    BY ONLY <2>1, ConcatProperties
  <2> QED
    BY <1>1, <1>3, <1>8, <2>2 DEF x
<1> HIDE DEF b
<1>10. ASSUME NEW j \in 1 .. n - i PROVE Right(w, i)[j] = b[j]
  <2>1. CASE j = 1
    <3>1. i + j = k /\ j <= 1
      BY <1>1, <2>1
    <3> QED
      BY <1>4, <1>8, <1>9, <2>1, <3>1 DEF c
  <2>2. CASE j # 1
    <3>1. ~(j <= 1) /\ j - 1 \in 1 .. n - k /\ k + (j - 1) = i + j
      BY <1>1, <2>2
    <3> QED
      BY <1>3, <1>4, <1>9, <3>1
  <2> QED
    BY <2>1, <2>2
<1>11. Right(w, i) = b
  BY <1>4, <1>9, <1>10, SeqEqual
<1>12. Right(w, i) # <<>> /\ Head(Right(w, i)) = c /\ Tail(Right(w, i)) = Right(w, k)
  <2> DEFINE x == Right(w, i)
             y == Right(w, k)
  <2>1. x \in Seq(Chars) /\ Len(x) = 1 + (n - k) /\ x # <<>>
    <3>1. x \in Seq(Chars) /\ Len(x) = n - i
      BY <1>4
    <3> HIDE DEF x
    <3> QED
      BY <1>1, <3>1, EmptySeq
  <2> HIDE DEF x
  <2>2. /\ Head(x) = x[1] /\ Tail(x) \in Seq(Chars) /\ Len(Tail(x)) = Len(x) - 1
        /\ \A j \in 1 .. Len(x) - 1 : Tail(x)[j] = x[j + 1]
    BY <2>1, HeadTailProperties
  <2>3. x[1] = c
    <3>1. 1 \in 1 .. n - i /\ 1 <= 1
      BY <1>1
    <3> QED
      BY <1>8, <1>9, <1>11, <3>1 DEF x
  <2>4. Len(x) - 1 = n - k
    BY <1>1, <2>1
  <2>5. ASSUME NEW j \in 1 .. n - k PROVE Tail(x)[j] = y[j]
    <3>1. j + 1 \in 1 .. n - i /\ i + (j + 1) = k + j
      BY <1>1
    <3>2. x[j + 1] = w[i + (j + 1)]
      BY <1>4, <3>1 DEF x
    <3> QED
      BY <1>3, <2>2, <2>4, <3>1, <3>2
  <2>6. y \in Seq(Chars) /\ Len(y) = n - k
    BY <1>3
  <2> HIDE DEF y
  <2>7. Tail(x) = y
    BY <2>2, <2>4, <2>5, <2>6, SeqEqual
  <2> QED
    BY <2>1, <2>2, <2>3, <2>7 DEF x, y
<1> QED
  BY <1>2, <1>7, <1>11, <1>12 DEF a, b, c, e, i

LEMMA LinesAre ==
    ASSUME NEW ip, NEW g, NEW h, NEW ls, Ringed(ip, g, h, ls)
    PROVE  ls = Lines(Bytes(ip, g, h))
<1>1. PICK n, F : Holds(Bytes(ip, g, h), n, F, ls)
  BY DEF Ringed
<1>2. Bytes(ip, g, h) \in Seq(Nat)
  BY BytesFacts DEF Ringed
<1> QED
  BY <1>1, <1>2, LinesUnique

LEMMA UnreadAre ==
    /\ UnreadBytes = Bytes(input_pool, f, r)
    /\ UnreadBytes' = Bytes(input_pool', f', r')
  BY DEF UnreadBytes, Unread, Bytes, Wrap

\* The abstract line, in this state and the next.
LEMMA LineSides ==
    ASSUME LineState, LineShown' \/ LineState'
    PROVE  /\ SubSeq(Line, 1, cursor_pos) = Left(Line, cursor_pos)
           /\ LineFrom(cursor_pos) = Right(Line, cursor_pos)
           /\ SubSeq(Line, 1, cursor_pos)' = Left(Line', cursor_pos')
           /\ LineFrom(cursor_pos)' = Right(Line', cursor_pos')
           /\ Line \in Seq(Chars) /\ Len(Line) = input_length /\ cursor_pos \in 0 .. Len(Line)
           /\ Line' \in Seq(Chars) /\ Len(Line') = input_length'
<1>1. Line \in Seq(Chars) /\ Len(Line) = input_length /\ cursor_pos \in 0 .. input_length
  BY StateFacts DEF LineState
<1>2. Typed(input_buffer', input_length')
  BY DEF LineShown, LineState
<1>3. Line' = LineOf(input_buffer', input_length')
  BY DEF Line, LineOf
<1>4. Line' \in Seq(Chars) /\ Len(Line') = input_length'
  <2>1. LineOf(input_buffer', input_length') \in Seq(Chars)
    BY <1>2, LineFacts
  <2>2. Len(LineOf(input_buffer', input_length')) = input_length'
    BY <1>2, LineFacts
  <2> QED
    BY <1>3, <2>1, <2>2
<1>5. LineFrom(cursor_pos) = Right(Line, cursor_pos)
  BY <1>1 DEF LineFrom, Right
<1>6. LineFrom(cursor_pos)' = Right(Line', cursor_pos')
  BY <1>4 DEF LineFrom, Right
<1> QED
  BY <1>1, <1>4, <1>5, <1>6 DEF Left

\* A change of the line at the cursor.
LEMMA EditImplements ==
    ASSUME LineState, LineShown', UNCHANGED pool,
           \/ \E ch \in Chars : /\ Left(Line', cursor_pos') = Append(Left(Line, cursor_pos), ch)
                                /\ Right(Line', cursor_pos') = Right(Line, cursor_pos)
           \/ /\ Left(Line, cursor_pos) # <<>>
              /\ Left(Line', cursor_pos') = Front(Left(Line, cursor_pos))
              /\ \/ Right(Line', cursor_pos') = Right(Line, cursor_pos)
                 \/ Right(Line', cursor_pos') =
                       <<Last(Left(Line, cursor_pos))>> \o Right(Line, cursor_pos)
           \/ /\ Right(Line, cursor_pos) # <<>>
              /\ Left(Line', cursor_pos') =
                    Append(Left(Line, cursor_pos), Head(Right(Line, cursor_pos)))
              /\ Right(Line', cursor_pos') = Tail(Right(Line, cursor_pos))
    PROVE  Term!Edit
<1>1. /\ SubSeq(Line, 1, cursor_pos) = Left(Line, cursor_pos)
      /\ LineFrom(cursor_pos) = Right(Line, cursor_pos)
      /\ SubSeq(Line, 1, cursor_pos)' = Left(Line', cursor_pos')
      /\ LineFrom(cursor_pos)' = Right(Line', cursor_pos')
  BY LineSides
<1>2. Lines(UnreadBytes)' = Lines(UnreadBytes) /\ stack' = stack /\ got' = got
  BY DEF pool, UnreadBytes, Unread, Lines, Zeros, ZeroAt
<1> QED
  BY <1>1, <1>2 DEF Term!Edit, Term!Front, Term!Last, Front, Last

LEMMA TypeCharImplements ==
    ASSUME LineState, NEW ch \in Chars, TypeChar(ch)
    PROVE  Term!Edit
<1>1. LineShown' /\ Entered(Line, Line', cursor_pos, ch) /\ UNCHANGED pool
      /\ cursor_pos' = cursor_pos + 1
  BY TypeCharFacts DEF TypeChar
<1>2. Line \in Seq(Chars) /\ Line' \in Seq(Chars) /\ cursor_pos \in 0 .. Len(Line)
  BY <1>1, LineSides
<1>3. /\ Left(Line', cursor_pos') = Append(Left(Line, cursor_pos), ch)
      /\ Right(Line', cursor_pos') = Right(Line, cursor_pos)
  BY <1>1, <1>2, EnteredSides
<1> QED
  BY <1>1, <1>3, EditImplements

\* BACK and the two arrows change the line or leave it.
LEMMA BackspaceImplements ==
    ASSUME LineState, Backspace
    PROVE  Term!Edit \/ UNCHANGED <<Line, cursor_pos, pool>>
<1> DEFINE w == Line
           v == Line'
           p == cursor_pos
           i == p - 1
           c == w[p]
<1>1. /\ LineShown' /\ UNCHANGED pool
      /\ p = 0 => Line' = Line /\ cursor_pos' = 0
      /\ p > 0 => Entered(v, w, i, c) /\ cursor_pos' = i
  BY BackspaceFacts DEF Backspace
<1>2. w \in Seq(Chars) /\ v \in Seq(Chars) /\ p \in 0 .. Len(w) /\ Len(w) \in Nat
  BY <1>1, LineSides, LenProperties
<1>3. CASE p = 0
  BY <1>1, <1>3
<1>4. CASE p # 0
  <2>1. p \in 1 .. Len(w) /\ p > 0 /\ i + 1 = p
    <3> HIDE DEF w
    <3>1. p \in Nat /\ p <= Len(w)
      BY <1>2
    <3> HIDE DEF p
    <3> QED
      BY <1>2, <1>4, <3>1
  <2>2. c \in Chars
    BY <1>2, <2>1, ElementOfSeq
  <2>3. Entered(v, w, i, c) /\ cursor_pos' = i
    BY <1>1, <2>1
  <2> HIDE DEF w, v, p, c, i
  <2>4. i \in 0 .. Len(v)
    <3>1. Len(w) = Len(v) + 1 /\ Len(v) \in Nat
      BY <1>2, <2>3, LenProperties DEF Entered
    <3> QED
      BY <1>2, <2>1, <3>1 DEF i
  <2>5. Left(w, i + 1) = Append(Left(v, i), c) /\ Right(w, i + 1) = Right(v, i)
    BY <1>2, <2>2, <2>3, <2>4, EnteredSides
  <2>6. Left(v, i) \in Seq(Chars)
    BY <1>2, <2>4, Sides
  <2>7. Left(w, p) # <<>> /\ Left(v, i) = Front(Left(w, p)) /\ Right(v, i) = Right(w, p)
    BY <2>1, <2>2, <2>5, <2>6, FrontOfAppend
  <2> QED
    BY <1>1, <2>3, <2>7, EditImplements DEF w, v, p
<1> QED
  BY <1>3, <1>4

LEMMA MoveLeftImplements ==
    ASSUME LineState, MoveLeft
    PROVE  Term!Edit \/ UNCHANGED <<Line, cursor_pos, pool>>
<1> DEFINE w == Line
           p == cursor_pos
           i == p - 1
<1>1. /\ LineShown' /\ Line' = Line /\ UNCHANGED pool
      /\ cursor_pos' = IF p > 0 THEN i ELSE p
  BY MoveLeftFacts DEF MoveLeft
<1>2. w \in Seq(Chars) /\ p \in 0 .. Len(w) /\ Len(w) \in Nat
  BY <1>1, LineSides, LenProperties
<1>3. CASE ~(p > 0)
  BY <1>1, <1>3
<1>4. CASE p > 0
  <2> HIDE DEF w, p
  <2>1. p \in 1 .. Len(w)
    BY <1>2, <1>4
  <2>2. /\ Left(w, p) = Append(Left(w, i), w[p]) /\ Right(w, i) = <<w[p]>> \o Right(w, p)
        /\ w[p] \in Chars
    BY <1>2, <2>1, MovedSides
  <2>3. i \in 0 .. Len(w)
    BY <1>2, <2>1
  <2> HIDE DEF i
  <2>4. Left(w, i) \in Seq(Chars)
    BY <1>2, <2>3, Sides
  <2>5. /\ Left(w, p) # <<>> /\ Left(w, i) = Front(Left(w, p))
        /\ Right(w, i) = <<Last(Left(w, p))>> \o Right(w, p)
    BY <2>2, <2>4, FrontOfAppend
  <2>6. cursor_pos' = i /\ Line' = w
    BY <1>1, <1>4 DEF w
  <2> QED
    BY <1>1, <2>5, <2>6, EditImplements DEF w, p
<1> QED
  BY <1>3, <1>4

LEMMA MoveRightImplements ==
    ASSUME LineState, MoveRight
    PROVE  Term!Edit \/ UNCHANGED <<Line, cursor_pos, pool>>
<1> DEFINE w == Line
           p == cursor_pos
           k == p + 1
<1>1. /\ LineShown' /\ Line' = Line /\ UNCHANGED pool
      /\ cursor_pos' = IF p < input_length THEN k ELSE p
  BY MoveRightFacts DEF MoveRight
<1>2. w \in Seq(Chars) /\ p \in 0 .. Len(w) /\ Len(w) \in Nat /\ Len(w) = input_length
  BY <1>1, LineSides, LenProperties
<1>3. CASE ~(p < input_length)
  BY <1>1, <1>3
<1>4. CASE p < input_length
  <2> HIDE DEF w, p
  <2>1. k \in 1 .. Len(w) /\ k - 1 = p
    BY <1>2, <1>4
  <2> HIDE DEF k
  <2>2. /\ Left(w, k) = Append(Left(w, k - 1), w[k])
        /\ Right(w, k - 1) # <<>> /\ Head(Right(w, k - 1)) = w[k]
        /\ Tail(Right(w, k - 1)) = Right(w, k)
    BY <1>2, <2>1, MovedSides
  <2>3. /\ Right(w, p) # <<>> /\ Left(w, k) = Append(Left(w, p), Head(Right(w, p)))
        /\ Right(w, k) = Tail(Right(w, p))
    BY <2>1, <2>2
  <2>4. cursor_pos' = k /\ Line' = w
    BY <1>1, <1>4 DEF w
  <2> QED
    BY <1>1, <2>3, <2>4, EditImplements DEF w, p
<1> QED
  BY <1>3, <1>4

\* A reader is served or not, on the abstract lines.
LEMMA ServeImplements ==
    ASSUME NEW ls, NEW st, NEW ks, Served(ls, st, ks), Ringed(input_pool', f', r', ks)
    PROVE  Term!Serve(ls, st)
<1>1. Lines(UnreadBytes)' = ks
  <2>1. Lines(UnreadBytes)' = Lines(UnreadBytes')
    BY DEF Lines, Zeros, ZeroAt
  <2> QED
    BY <2>1, UnreadAre, LinesAre
<1>2. CASE ls = <<>> \/ st = <<>>
  BY <1>1, <1>2 DEF Served, Term!Serve
<1>3. CASE ~(ls = <<>> \/ st = <<>>)
  <2> DEFINE first == Head(ls)
             n == IF Head(st).length < Len(first) THEN Head(st).length ELSE Len(first)
             rest == SubSeq(first, n + 1, Len(first))
  <2>1. /\ got' = [got EXCEPT ![Head(st).pid] = SubSeq(first, 1, n)] /\ stack' = Tail(st)
        /\ ks = IF rest = <<>> THEN Tail(ls) ELSE <<rest>> \o Tail(ls)
    BY <1>3 DEF Served, After
  <2> QED
    BY <1>1, <1>3, <2>1 DEF Term!Serve
<1> QED
  BY <1>2, <1>3

LEMMA EnterImplements ==
    ASSUME Good, Enter
    PROVE  Term!Finish
<1>1. PICK ls : Ringed(input_pool, f, r, ls)
  BY DEF Good
<1>2. LineState /\ GotTyped /\ stack \in Seq(Calls)
  BY DEF Good
<1>3. /\ LineShown' /\ input_length' = 0 /\ cursor_pos' = 0
      /\ \E ks : /\ Ringed(input_pool', f', r', ks)
                 /\ Served(Append(ls, Append(Line, NewLine)), stack, ks)
  BY <1>1, <1>2, EnterFacts
<1>4. Term!Serve(Append(ls, Append(Line, NewLine)), stack)
  BY <1>3, ServeImplements
<1>5. Lines(UnreadBytes) = ls
  BY <1>1, UnreadAre, LinesAre
<1>6. /\ SubSeq(Line, 1, cursor_pos) = Left(Line, cursor_pos)
      /\ LineFrom(cursor_pos) = Right(Line, cursor_pos)
      /\ SubSeq(Line, 1, cursor_pos)' = Left(Line', cursor_pos')
      /\ LineFrom(cursor_pos)' = Right(Line', cursor_pos')
      /\ Line \in Seq(Chars) /\ cursor_pos \in 0 .. Len(Line)
      /\ Line' \in Seq(Chars) /\ Len(Line') = 0
  BY <1>2, <1>3, LineSides
<1>7. Left(Line', cursor_pos') = <<>> /\ Right(Line', cursor_pos') = <<>>
  <2> DEFINE v == Line'
  <2>1. v \in Seq(Chars) /\ 0 \in 0 .. Len(v) /\ Len(v) = 0
    BY <1>6
  <2> HIDE DEF v
  <2>2. Len(Left(v, 0)) = 0 /\ Len(Right(v, 0)) = 0 /\ Left(v, 0) \in Seq(Chars)
        /\ Right(v, 0) \in Seq(Chars)
    <3>1. Len(Right(v, 0)) = Len(v) - 0 /\ Len(Left(v, 0)) = 0
          /\ Left(v, 0) \in Seq(Chars) /\ Right(v, 0) \in Seq(Chars)
      BY <2>1, Sides
    <3> QED
      BY <2>1, <3>1
  <2> QED
    BY <1>3, <2>2, EmptySeq DEF v
<1>8. Left(Line, cursor_pos) \o Right(Line, cursor_pos) \o <<NewLine>> = Append(Line, NewLine)
  <2> DEFINE w == Line
             k == cursor_pos
             a == Left(w, k)
             b == Right(w, k)
             e == <<NewLine>>
             x == a \o b
  <2>1. w \in Seq(Chars) /\ k \in 0 .. Len(w)
    BY <1>6
  <2> HIDE DEF w, k
  <2>2. /\ a \in Seq(Chars) /\ Len(a) = k /\ \A j \in 1 .. k : a[j] = w[j]
        /\ b \in Seq(Chars) /\ Len(b) = Len(w) - k /\ \A j \in 1 .. Len(w) - k : b[j] = w[k + j]
        /\ Len(w) \in Nat /\ k \in Nat
    BY <2>1, Sides
  <2> HIDE DEF a, b
  <2>3. /\ x \in Seq(Chars) /\ Len(x) = Len(a) + Len(b)
        /\ \A i \in 1 .. Len(a) + Len(b) : x[i] = IF i <= Len(a) THEN a[i] ELSE b[i - Len(a)]
    BY <2>2, ConcatProperties
  <2> HIDE DEF x
  <2>4. Len(x) = Len(w)
    BY <2>1, <2>2, <2>3
  <2>5. ASSUME NEW i \in 1 .. Len(w) PROVE x[i] = w[i]
    <3>1. CASE i <= k
      <4>1. i \in 1 .. k /\ i \in 1 .. Len(a) + Len(b)
        BY <2>1, <2>2, <3>1
      <4> QED
        BY <2>2, <2>3, <3>1, <4>1
    <3>2. CASE ~(i <= k)
      <4>1. i - k \in 1 .. Len(w) - k /\ k + (i - k) = i /\ i \in 1 .. Len(a) + Len(b)
        BY <2>1, <2>2, <3>2
      <4> QED
        BY <2>2, <2>3, <3>2, <4>1
    <3> QED
      BY <3>1, <3>2
  <2>6. x = w
    BY <2>1, <2>3, <2>4, <2>5, SeqEqual
  <2>7. w \o e = Append(w, NewLine)
    <3>1. w \in Seq(Nat) /\ NewLine \in Nat
      BY <2>1, PlainLines DEF NewLine
    <3> QED
      BY <3>1, AppendIsConcat
  <2> QED
    BY <2>6, <2>7 DEF x, a, b, w, k
<1> QED
  BY <1>4, <1>5, <1>6, <1>7, <1>8 DEF Term!Finish

LEMMA ReadImplements ==
    ASSUME Good, NEW p \in Processes, NEW n \in Lengths, Read(p, n)
    PROVE  Term!Read(p, n)
<1> DEFINE c == [pid |-> p, length |-> n]
<1>1. PICK ls : Ringed(input_pool, f, r, ls)
  BY DEF Good
<1>2. PICK ks : Ringed(input_pool', f', r', ks) /\ Served(ls, <<c>> \o stack, ks)
  <2>1. c = [pid |-> p, length |-> n]
    OBVIOUS
  <2> HIDE DEF c
  <2> QED
    BY <1>1, <2>1, ReadFactsOf
<1>3. Lines(UnreadBytes) = ls
  BY <1>1, UnreadAre, LinesAre
<1>4. Term!Serve(ls, <<c>> \o stack)
  <2> DEFINE st == <<c>> \o stack
  <2> HIDE DEF st
  <2>1. Served(ls, st, ks)
    BY <1>2 DEF st
  <2> QED
    BY <1>2, <2>1, ServeImplements DEF st
<1>5. UNCHANGED <<input_buffer, input_length, cursor_pos>>
  BY DEF Read, line
<1>6. Line' = Line
  BY <1>5 DEF Line
<1>7. UNCHANGED <<SubSeq(Line, 1, cursor_pos), LineFrom(cursor_pos)>>
  BY <1>5, <1>6 DEF LineFrom
<1>8. ~Term!Waits(p)
  BY DEF Read, Waiting, Term!Waits
<1> QED
  BY <1>3, <1>4, <1>7, <1>8 DEF Term!Read

\* What the abstract variables are made of.
LEMMA Stutters ==
    ASSUME UNCHANGED <<Line, input_length, cursor_pos>>, UNCHANGED pool
    PROVE  UNCHANGED Term!termVars
<1>1. UNCHANGED <<SubSeq(Line, 1, cursor_pos), LineFrom(cursor_pos)>>
  BY DEF LineFrom
<1>2. Lines(UnreadBytes)' = Lines(UnreadBytes) /\ stack' = stack /\ got' = got
  BY DEF pool, UnreadBytes, Unread, Lines, Zeros, ZeroAt
<1> QED
  BY <1>1, <1>2 DEF Term!termVars

LEMMA GetchImplements ==
    ASSUME Good, NEW code \in Codes, Getch(code)
    PROVE  [Term!TermNext]_(Term!termVars)
<1>1. LineState
  BY DEF Good
<1>2. Line \in Seq(Chars) /\ Len(Line) = input_length
  BY <1>1, StateFacts
<1>3. ASSUME NEW ch \in Chars, TypeChar(ch) PROVE Term!Edit
  BY <1>1, <1>3, TypeCharImplements
<1>4. ASSUME Backspace \/ MoveLeft \/ MoveRight
      PROVE  Term!Edit \/ UNCHANGED Term!termVars
  <2>1. Term!Edit \/ UNCHANGED <<Line, cursor_pos, pool>>
    BY <1>1, <1>4, BackspaceImplements, MoveLeftImplements, MoveRightImplements
  <2>2. ASSUME UNCHANGED <<Line, cursor_pos, pool>> PROVE UNCHANGED Term!termVars
    <3>1. LineShown'
      BY <1>1, <1>4, BackspaceFacts, MoveLeftFacts, MoveRightFacts
    <3>2. Len(Line') = input_length'
      BY <1>1, <3>1, LineSides
    <3>3. Line' = Line /\ cursor_pos' = cursor_pos /\ UNCHANGED pool
      BY <2>2
    <3>4. UNCHANGED input_length
      BY <1>2, <3>2, <3>3
    <3> QED
      BY <3>3, <3>4, Stutters
  <2> QED
    BY <2>1, <2>2
<1>5. ASSUME Enter PROVE Term!Finish
  BY <1>5, EnterImplements
<1>6. ASSUME NoEffect PROVE UNCHANGED Term!termVars
  <2>1. UNCHANGED <<input_buffer, input_length, cursor_pos>> /\ UNCHANGED pool
    BY <1>6 DEF NoEffect
  <2>2. Line' = Line
    BY <2>1 DEF Line
  <2> QED
    BY <2>1, <2>2, Stutters
<1>7. \/ \E ch \in Chars : TypeChar(ch)
      \/ Backspace \/ MoveLeft \/ MoveRight \/ Enter \/ NoEffect
  BY KeyCases
<1> QED
  BY <1>3, <1>4, <1>5, <1>6, <1>7 DEF Term!TermNext

LEMMA NextImplements ==
    Good /\ [TtyNext]_vars => [Term!TermNext]_(Term!termVars)
<1> SUFFICES ASSUME Good, [TtyNext]_vars PROVE [Term!TermNext]_(Term!termVars)
  OBVIOUS
<1>1. ASSUME NEW code \in Codes, Getch(code) PROVE [Term!TermNext]_(Term!termVars)
  BY <1>1, GetchImplements
<1>2. ASSUME NEW p \in Processes, NEW n \in Lengths, Read(p, n)
      PROVE  [Term!TermNext]_(Term!termVars)
  <2>1. Term!Read(p, n)
    BY <1>2, ReadImplements
  <2> QED
    BY <2>1 DEF Term!TermNext
<1>3. ASSUME NEW n \in Numbers, Write(n) PROVE [Term!TermNext]_(Term!termVars)
  <2>1. UNCHANGED <<input_buffer, input_length, cursor_pos>> /\ UNCHANGED pool
    BY <1>3 DEF Write
  <2>2. Line' = Line
    BY <2>1 DEF Line
  <2> QED
    BY <2>1, <2>2, Stutters
<1>4. CASE UNCHANGED vars
  <2>1. UNCHANGED <<input_buffer, input_length, cursor_pos>> /\ UNCHANGED pool
    BY <1>4 DEF vars, line
  <2>2. Line' = Line
    BY <2>1 DEF Line
  <2> QED
    BY <2>1, <2>2, Stutters
<1> QED
  BY <1>1, <1>2, <1>3, <1>4 DEF TtyNext

LEMMA InitImplements == TtyInit => Term!TermInit
<1> SUFFICES ASSUME TtyInit PROVE Term!TermInit
  OBVIOUS
<1>1. Good
  BY GoodInit
<1>2. PICK ls : Ringed(input_pool, f, r, ls)
  BY <1>1 DEF Good
<1>3. Lines(UnreadBytes) = <<>>
  <2>1. f = r
    BY DEF TtyInit
  <2>2. ls = <<>>
    BY <1>2, <2>1, EmptyRing
  <2> QED
    BY <1>2, <2>2, UnreadAre, LinesAre
<1>4. Line \in Seq(Chars) /\ Len(Line) = 0 /\ cursor_pos = 0 /\ input_length = 0
  <2>1. LineState
    BY <1>1 DEF Good
  <2>2. Line \in Seq(Chars) /\ Len(Line) = input_length
    BY <2>1, StateFacts
  <2> QED
    BY <2>2 DEF TtyInit
<1>5. SubSeq(Line, 1, cursor_pos) = <<>> /\ LineFrom(cursor_pos) = <<>>
  <2> DEFINE w == Line
  <2>1. w \in Seq(Chars) /\ Len(w) = 0
    BY <1>4
  <2> HIDE DEF w
  <2>2. 0 \in 0 .. Len(w) /\ Len(w) - 0 = 0
    BY <2>1
  <2>3. /\ SubSeq(w, 1, 0) \in Seq(Chars) /\ Len(SubSeq(w, 1, 0)) = 0
        /\ SubSeq(w, 0 + 1, Len(w)) \in Seq(Chars) /\ Len(SubSeq(w, 0 + 1, Len(w))) = 0
    BY <2>1, <2>2, Sides DEF Left, Right
  <2>4. SubSeq(w, 1, 0) = <<>> /\ SubSeq(w, 0 + 1, Len(w)) = <<>>
    BY <2>3, EmptySeq
  <2> QED
    BY <1>4, <2>1, <2>4 DEF LineFrom, w
<1> QED
  BY <1>3, <1>5 DEF Term!TermInit, TtyInit

(***************************************************************************)
(* tty.c gives each reader what Terminal promises: the lines in the order  *)
(* in which they were finished, as they were edited, each character once   *)
(* and no more of them than were asked for.                                *)
(***************************************************************************)
THEOREM DriverImplementsTerminal == TtySpec => ImplementsTerminal
<1>1. TtySpec => []Good
  BY GoodInit, GoodNext, PTL DEF TtySpec
<1> QED
  BY <1>1, InitImplements, NextImplements, PTL
     DEF TtySpec, ImplementsTerminal, Term!TermSpec
=============================================================================
