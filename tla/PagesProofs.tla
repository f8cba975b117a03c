----------------------------- MODULE PagesProofs -----------------------------
(***************************************************************************)
(* Proofs about Pages, for every number of processes, pages and page       *)
(* tables, and all programs.                                               *)
(***************************************************************************)
EXTENDS Pages, ListProofs

(***************************************************************************)
(* The ranks of the elements of a finite set are 0, 1, 2 and so on.        *)
(***************************************************************************)
LEMMA RankGrows ==
    ASSUME NEW S \in SUBSET Int, IsFiniteSet(S), NEW x \in S, NEW y \in S, x < y
    PROVE  Rank(S, x) < Rank(S, y)
<1> DEFINE A == {z \in S : z < x}
           B == {z \in S : z < y}
<1>1. A \subseteq B /\ x \in B /\ x \notin A /\ B \subseteq S
  <2>1. \A z \in S : z \in Int
    OBVIOUS
  <2>2. ASSUME NEW z \in S, z < x PROVE z < y
    <3>1. \A a, b, c \in Int : a < b /\ b < c => a < c
      OBVIOUS
    <3> QED
      BY <2>1, <2>2, <3>1
  <2>3. ~(x < x)
    BY <2>1
  <2> QED
    BY <2>2, <2>3
<1> HIDE DEF A, B
<1>2. IsFiniteSet(B) /\ IsFiniteSet(A)
  BY <1>1, FS_Subset
<1>3. Cardinality(A) <= Cardinality(B) /\ Cardinality(B) # Cardinality(A)
  BY <1>1, <1>2, FS_Subset
<1>4. Cardinality(A) \in Nat /\ Cardinality(B) \in Nat
  BY <1>2, FS_CardinalityType
<1> QED
  BY <1>3, <1>4 DEF Rank, A, B

LEMMA Ranks ==
    ASSUME NEW S \in SUBSET Int, IsFiniteSet(S)
    PROVE  /\ \A x \in S : Rank(S, x) \in 0 .. Cardinality(S) - 1
           /\ \A x, y \in S : Rank(S, x) = Rank(S, y) => x = y
           /\ \A r \in 0 .. Cardinality(S) - 1 : \E x \in S : Rank(S, x) = r
<1> DEFINE n == Cardinality(S)
           R == [x \in S |-> Rank(S, x)]
<1>1. n \in Nat
  BY FS_CardinalityType
<1>2. ASSUME NEW x \in S PROVE Rank(S, x) \in 0 .. n - 1
  <2> DEFINE A == {z \in S : z < x}
  <2>1. A \subseteq S \ {x}
    OBVIOUS
  <2> HIDE DEF A
  <2>2. IsFiniteSet(S \ {x}) /\ Cardinality(S \ {x}) = n - 1
    BY FS_RemoveElement
  <2>3. IsFiniteSet(A) /\ Cardinality(A) <= n - 1
    BY <2>1, <2>2, FS_Subset
  <2>4. Cardinality(A) \in Nat
    BY <2>3, FS_CardinalityType
  <2> QED
    BY <1>1, <2>3, <2>4 DEF A, Rank
<1>3. ASSUME NEW x \in S, NEW y \in S, Rank(S, x) = Rank(S, y) PROVE x = y
  <2>1. Rank(S, x) \in Int
    BY <1>2
  <2>2. ~(x < y) /\ ~(y < x)
    BY <1>3, <2>1, RankGrows
  <2> QED
    BY <2>2
<1> HIDE DEF n
<1>4. R \in Injection(S, 0 .. n - 1)
  <2>1. R \in [S -> 0 .. n - 1] /\ \A x, y \in S : R[x] = R[y] => x = y
    BY <1>2, <1>3
  <2> HIDE DEF R
  <2> QED
    BY <2>1 DEF Injection, IsInjective
<1>5. IsFiniteSet(0 .. n - 1) /\ Cardinality(0 .. n - 1) = n
  BY <1>1, FS_Interval
<1> HIDE DEF R
<1>6. R \in Surjection(S, 0 .. n - 1)
  BY <1>4, <1>5, FS_Injection DEF n
<1>7. \A r \in 0 .. n - 1 : \E x \in S : R[x] = r
  BY <1>6 DEF Surjection
<1> QED
  BY <1>2, <1>3, <1>7 DEF n, R

(***************************************************************************)
(* Give hands out free pages, each once: those of the ranks from, from + 1 *)
(* and so on.                                                              *)
(***************************************************************************)
LEMMA FiniteThings ==
    /\ IsFiniteSet(Frames) /\ Frames \subseteq Int /\ Cardinality(Frames) = NFrames
    /\ IsFiniteSet(Pids) /\ Cardinality(Pids) = NPids
    /\ IsFiniteSet(Pde) /\ Pde \subseteq Int
    /\ IsFiniteSet(VPages) /\ VPages \subseteq Int
    /\ IsFiniteSet(Kde) /\ Kde \subseteq Int /\ Cardinality(Kde) = NKde
    /\ None \notin Frames
<1>1. /\ NFrames \in Nat /\ NPids \in Nat /\ NPde \in Nat /\ NPte \in Nat /\ NKde \in Nat
  BY GeometryAssumption
<1>2. NPde * NPte \in Nat
  BY <1>1
<1>3. IsFiniteSet(VPages) /\ VPages \subseteq Int
  BY <1>2, FS_Interval DEF VPages
<1>4. IsFiniteSet(Frames) /\ Cardinality(Frames) = NFrames
  BY <1>1, FS_Interval DEF Frames
<1>5. IsFiniteSet(Pids) /\ Cardinality(Pids) = NPids
  BY <1>1, FS_Interval DEF Pids
<1>6. IsFiniteSet(Pde) /\ Pde \subseteq Int
  BY <1>1, FS_Interval DEF Pde
<1>7. IsFiniteSet(Kde) /\ Cardinality(Kde) = NKde /\ Kde \subseteq Int
  BY <1>1, FS_Interval DEF Kde
<1> QED
  BY <1>3, <1>4, <1>5, <1>6, <1>7 DEF Frames, None

LEMMA FreeFinite ==
    ASSUME NEW fl
    PROVE  Free(fl) \subseteq Frames /\ IsFiniteSet(Free(fl)) /\ Cardinality(Free(fl)) \in Nat
<1>1. Free(fl) \subseteq Frames
  BY DEF Free
<1>2. IsFiniteSet(Free(fl))
  BY <1>1, FiniteThings, FS_Subset
<1> QED
  BY <1>1, <1>2, FS_CardinalityType

LEMMA Given ==
    ASSUME NEW fl, NEW S \in SUBSET Int, IsFiniteSet(S), NEW from \in Nat,
           from + Cardinality(S) <= Cardinality(Free(fl))
    PROVE  /\ Give(fl, S, from) \in [S -> Free(fl)]
           /\ \A x \in S : Rank(Free(fl), Give(fl, S, from)[x]) = from + Rank(S, x)
           /\ \A x, y \in S : Give(fl, S, from)[x] = Give(fl, S, from)[y] => x = y
           /\ \A f \in Free(fl) :
                 Rank(Free(fl), f) \in from .. from + Cardinality(S) - 1
                 => \E x \in S : Give(fl, S, from)[x] = f
<1> DEFINE F == Free(fl)
           g == Give(fl, S, from)
           n == Cardinality(S)
<1>1. F \in SUBSET Int /\ IsFiniteSet(F)
  BY FiniteThings, FS_Subset DEF Free
<1>2. n \in Nat /\ Cardinality(F) \in Nat
  BY <1>1, FS_CardinalityType
<1> HIDE DEF F
<1>3. /\ \A x \in S : Rank(S, x) \in 0 .. n - 1
      /\ \A x, y \in S : Rank(S, x) = Rank(S, y) => x = y
      /\ \A r \in 0 .. n - 1 : \E x \in S : Rank(S, x) = r
  BY Ranks
<1>4. /\ \A x, y \in F : Rank(F, x) = Rank(F, y) => x = y
      /\ \A r \in 0 .. Cardinality(F) - 1 : \E x \in F : Rank(F, x) = r
  BY <1>1, Ranks
<1>5. from + n <= Cardinality(F)
  BY DEF F
<1> HIDE DEF n
<1>6. ASSUME NEW x \in S PROVE g[x] \in F /\ Rank(F, g[x]) = from + Rank(S, x)
  <2>1. from + Rank(S, x) \in 0 .. Cardinality(F) - 1
    BY <1>2, <1>3, <1>5
  <2>2. \E f \in F : Rank(F, f) = from + Rank(S, x)
    BY <1>4, <2>1
  <2>3. g[x] = CHOOSE f \in F : Rank(F, f) = from + Rank(S, x)
    BY DEF Give, F
  <2> QED
    BY <2>2, <2>3
<1>7. g \in [S -> F]
  <2>1. g = [x \in S |-> CHOOSE f \in F : Rank(F, f) = from + Rank(S, x)]
    BY DEF Give, F
  <2>2. g = [x \in S |-> g[x]]
    BY <2>1
  <2> HIDE DEF g
  <2> QED
    BY <1>6, <2>2
<1> HIDE DEF g
<1>8. ASSUME NEW x \in S, NEW y \in S, g[x] = g[y] PROVE x = y
  <2>1. from + Rank(S, x) = from + Rank(S, y)
    BY <1>6, <1>8
  <2>2. Rank(S, x) \in Nat /\ Rank(S, y) \in Nat
    BY <1>2, <1>3
  <2>3. Rank(S, x) = Rank(S, y)
    BY <2>1, <2>2
  <2> QED
    BY <1>3, <2>3
<1>9. ASSUME NEW f \in F, Rank(F, f) \in from .. from + n - 1
      PROVE  \E x \in S : g[x] = f
  <2>1. Rank(F, f) - from \in 0 .. n - 1
    BY <1>2, <1>9
  <2>2. PICK x \in S : Rank(S, x) = Rank(F, f) - from
    BY <1>3, <2>1
  <2>3. Rank(F, g[x]) = Rank(F, f)
    BY <1>2, <1>6, <1>9, <2>2
  <2> QED
    BY <1>4, <1>6, <2>3
<1> QED
  BY <1>6, <1>7, <1>8, <1>9 DEF F, g, n

(***************************************************************************)
(* How many entries of a directory or table name a page.                   *)
(***************************************************************************)
LEMMA EntriesType ==
    ASSUME NEW S, IsFiniteSet(S), NEW row, DOMAIN row = S, NEW f
    PROVE  /\ Entries(row, f) = Cardinality({x \in S : row[x] = f})
           /\ IsFiniteSet({x \in S : row[x] = f})
           /\ Entries(row, f) \in Nat
<1>1. IsFiniteSet({x \in S : row[x] = f})
  BY FS_Subset
<1>2. Entries(row, f) = Cardinality({x \in S : row[x] = f})
  BY DEF Entries
<1> QED
  BY <1>1, <1>2, FS_CardinalityType

LEMMA NoEntries ==
    ASSUME NEW S, IsFiniteSet(S), NEW row, DOMAIN row = S, NEW f
    PROVE  Entries(row, f) = 0 <=> \A x \in S : row[x] # f
<1> DEFINE E == {x \in S : row[x] = f}
<1>1. Entries(row, f) = Cardinality(E) /\ IsFiniteSet(E)
  BY EntriesType
<1>2. E = {} <=> \A x \in S : row[x] # f
  OBVIOUS
<1> HIDE DEF E
<1> QED
  BY <1>1, <1>2, FS_EmptySet

LEMMA OneEntry ==
    ASSUME NEW S, IsFiniteSet(S), NEW row, DOMAIN row = S, NEW f,
           \A x, y \in S : row[x] = f /\ row[y] = f => x = y, \E x \in S : row[x] = f
    PROVE  Entries(row, f) = 1
<1> DEFINE E == {x \in S : row[x] = f}
<1>1. Entries(row, f) = Cardinality(E) /\ IsFiniteSet(E)
  BY EntriesType
<1>2. \E x : E = {x}
  OBVIOUS
<1> HIDE DEF E
<1> QED
  BY <1>1, <1>2, FS_Singleton

\* New entries, in place of entries that were not present.
LEMMA PutEntries ==
    ASSUME NEW D, IsFiniteSet(D), NEW S \in SUBSET D,
           NEW old \in [D -> Frames \cup {None}], NEW new \in [S -> Frames],
           \A x \in S : old[x] = None
    PROVE  /\ Put(new, old) \in [D -> Frames \cup {None}]
           /\ \A x \in D : Put(new, old)[x] = IF x \in S THEN new[x] ELSE old[x]
           /\ \A f \in Frames : Entries(Put(new, old), f) = Entries(old, f) + Entries(new, f)
<1> DEFINE row == Put(new, old)
<1>1. DOMAIN new = S /\ DOMAIN old = D /\ S \cup D = D
  OBVIOUS
<1>2. row = [x \in D |-> IF x \in S THEN new[x] ELSE old[x]]
  BY <1>1 DEF Put
<1>3. /\ row \in [D -> Frames \cup {None}]
      /\ \A x \in D : row[x] = IF x \in S THEN new[x] ELSE old[x]
  BY <1>2
<1> HIDE DEF row
<1>4. DOMAIN row = D
  BY <1>3
<1>5. ASSUME NEW f \in Frames
      PROVE  Entries(row, f) = Entries(old, f) + Entries(new, f)
  <2> DEFINE E == {x \in D : row[x] = f}
             A == {x \in D : old[x] = f}
             B == {x \in S : new[x] = f}
  <2>1. f # None
    BY FiniteThings
  <2>2. E = A \cup B /\ A \cap B = {}
    BY <1>3, <2>1
  <2>3. IsFiniteSet(S)
    BY FS_Subset
  <2>4. Entries(row, f) = Cardinality(E)
    BY <1>4, EntriesType
  <2>5. Entries(old, f) = Cardinality(A) /\ IsFiniteSet(A)
    BY <1>1, EntriesType
  <2>6. Entries(new, f) = Cardinality(B) /\ IsFiniteSet(B)
    BY <1>1, <2>3, EntriesType
  <2> HIDE DEF E, A, B
  <2>7. Cardinality(A \cup B) = Cardinality(A) + Cardinality(B) - Cardinality(A \cap B)
    BY <2>5, <2>6, FS_Union
  <2>8. Cardinality(A) \in Nat /\ Cardinality(B) \in Nat /\ Cardinality(A \cap B) = 0
    BY <2>2, <2>5, <2>6, FS_CardinalityType, FS_EmptySet
  <2> QED
    BY <2>2, <2>4, <2>5, <2>6, <2>7, <2>8
<1> QED
  BY <1>3, <1>5 DEF row

\* Indicators.
Once(b) == IF b THEN 1 ELSE 0

LEMMA GivenEntries ==
    ASSUME NEW fl, NEW S \in SUBSET Int, IsFiniteSet(S), NEW from \in Nat,
           from + Cardinality(S) <= Cardinality(Free(fl)), NEW f \in Frames
    PROVE  Entries(Give(fl, S, from), f) =
              Once(f \in Free(fl) /\ Rank(Free(fl), f) \in from .. from + Cardinality(S) - 1)
<1> DEFINE g == Give(fl, S, from)
           F == Free(fl)
<1>1. /\ g \in [S -> F]
      /\ \A x \in S : Rank(F, g[x]) = from + Rank(S, x)
      /\ \A x, y \in S : g[x] = g[y] => x = y
      /\ \A e \in F : Rank(F, e) \in from .. from + Cardinality(S) - 1 => \E x \in S : g[x] = e
  BY Given
<1>2. \A x \in S : Rank(S, x) \in 0 .. Cardinality(S) - 1
  BY Ranks
<1>3. Cardinality(S) \in Nat
  BY FS_CardinalityType
<1> HIDE DEF g, F
<1>4. \A x \in S : Rank(F, g[x]) \in from .. from + Cardinality(S) - 1
  BY <1>1, <1>2, <1>3
<1>5. CASE f \in F /\ Rank(F, f) \in from .. from + Cardinality(S) - 1
  <2>1. DOMAIN g = S /\ \A x, y \in S : g[x] = f /\ g[y] = f => x = y
    BY <1>1
  <2>2. \E x \in S : g[x] = f
    BY <1>1, <1>5
  <2>3. Entries(g, f) = 1
    BY <2>1, <2>2, OneEntry
  <2> QED
    BY <1>5, <2>3 DEF g, F, Once
<1>6. CASE ~(f \in F /\ Rank(F, f) \in from .. from + Cardinality(S) - 1)
  <2>1. \A x \in S : g[x] # f
    BY <1>1, <1>4, <1>6
  <2>2. Entries(g, f) = 0
    BY <1>1, <2>1, NoEntries
  <2> QED
    BY <1>6, <2>2 DEF g, F, Once
<1> QED
  BY <1>5, <1>6

(***************************************************************************)
(* allocate_memory for n pages counts each of them once.                   *)
(***************************************************************************)
Counts == [Frames -> 0 .. 255]

LEMMA TakenCounts ==
    ASSUME NEW fl \in Counts, NEW n \in Nat
    PROVE  /\ Taken(fl, n) \in Counts
           /\ \A f \in Frames : Taken(fl, n)[f] =
                 fl[f] + Once(f \in Free(fl) /\ Rank(Free(fl), f) < n)
<1>1. \A f \in Free(fl) : f \in Frames /\ fl[f] = 0
  BY DEF Free
<1>2. \A f \in Frames : Taken(fl, n)[f] = IF f \in Free(fl) /\ Rank(Free(fl), f) < n THEN 1 ELSE fl[f]
  BY DEF Taken
<1>3. \A f \in Frames : fl[f] \in 0 .. 255
  BY DEF Counts
<1>4. Taken(fl, n) \in Counts
  BY <1>3 DEF Taken, Counts
<1> QED
  BY <1>1, <1>2, <1>3, <1>4 DEF Once

(***************************************************************************)
(* Uses counts the entries of all processes: when the row of one process   *)
(* is replaced, the entries it has now come in place of those it had.      *)
(***************************************************************************)
Others(of, S, p, f) == Cardinality({x \in Pids \X S : x[1] # p /\ of[x[1]][x[2]] = f})

AddsUp(of, S, p, f) ==
    /\ Others(of, S, p, f) \in Nat /\ Entries(of[p], f) \in Nat
    /\ Uses(of, S, f) = Others(of, S, p, f) + Entries(of[p], f)

LEMMA UsesSplit ==
    ASSUME NEW S, IsFiniteSet(S), NEW T, NEW of, of \in [Pids -> [S -> T]], NEW p \in Pids, NEW f
    PROVE  AddsUp(of, S, p, f)
<1> DEFINE U == {x \in Pids \X S : of[x[1]][x[2]] = f}
           O == {x \in Pids \X S : x[1] # p /\ of[x[1]][x[2]] = f}
           E == {x \in S : of[p][x] = f}
           M == {p} \X E
<1>1. IsFiniteSet(Pids \X S)
  BY FiniteThings, FS_Product
<1>2. O \in SUBSET (Pids \X S) /\ M \in SUBSET (Pids \X S)
  BY DEF Pids
<1>3. U = O \cup M /\ O \cap M = {}
  OBVIOUS
<1>5. Entries(of[p], f) = Cardinality(E) /\ IsFiniteSet(E)
  <2> DEFINE row == of[p]
  <2>1. DOMAIN row = S
    OBVIOUS
  <2> HIDE DEF row, U, O, E, M
  <2>2. Entries(row, f) = Cardinality({x \in S : row[x] = f}) /\ IsFiniteSet({x \in S : row[x] = f})
    BY ONLY <2>1, IsFiniteSet(S), EntriesType
  <2> QED
    BY <2>2 DEF row, E
<1>6. Others(of, S, p, f) = Cardinality(O) /\ Uses(of, S, f) = Cardinality(U)
  BY DEF Others, Uses
<1>7. IsFiniteSet({p}) /\ Cardinality({p}) = 1
  BY FS_Singleton
<1> HIDE DEF U, O, E
<1>8. Cardinality(M) = Cardinality({p}) * Cardinality(E)
  BY <1>5, <1>7, FS_Product
<1>9. Cardinality(E) \in Nat
  BY <1>5, FS_CardinalityType
<1>10. Cardinality(M) = Cardinality(E)
  BY <1>7, <1>8, <1>9
<1> HIDE DEF M
<1>11. IsFiniteSet(O) /\ IsFiniteSet(M)
  BY <1>1, <1>2, FS_Subset
<1>12. Cardinality(U) = Cardinality(O) + Cardinality(M) - Cardinality(O \cap M)
  BY <1>3, <1>11, FS_Union
<1>13. Cardinality(O \cap M) = 0 /\ Cardinality(O) \in Nat
  BY <1>3, <1>11, FS_EmptySet, FS_CardinalityType
<1> QED
  BY <1>5, <1>6, <1>9, <1>10, <1>12, <1>13 DEF AddsUp

Rows(S) == [S -> Frames \cup {None}]

RowReplaced(of, new, S, p, row, f) ==
    /\ Uses(of, S, f) \in Nat /\ Entries(of[p], f) \in Nat /\ Entries(row, f) \in Nat
    /\ Entries(of[p], f) <= Uses(of, S, f)
    /\ Uses(new, S, f) = Uses(of, S, f) - Entries(of[p], f) + Entries(row, f)

LEMMA RowUses ==
    ASSUME NEW S, IsFiniteSet(S), NEW of, of \in [Pids -> Rows(S)], NEW p \in Pids,
           NEW row, row \in Rows(S)
    PROVE  /\ [of EXCEPT ![p] = row] \in [Pids -> Rows(S)]
           /\ \A f : RowReplaced(of, [of EXCEPT ![p] = row], S, p, row, f)
<1> SUFFICES ASSUME NEW f
             PROVE  /\ [of EXCEPT ![p] = row] \in [Pids -> Rows(S)]
                    /\ RowReplaced(of, [of EXCEPT ![p] = row], S, p, row, f)
  OBVIOUS
<1> DEFINE new == [of EXCEPT ![p] = row]
<1>1. new \in [Pids -> Rows(S)] /\ new[p] = row /\ \A q \in Pids : q # p => new[q] = of[q]
  OBVIOUS
<1>2. Others(new, S, p, f) = Others(of, S, p, f)
  <2>1. {x \in Pids \X S : x[1] # p /\ new[x[1]][x[2]] = f}
          = {x \in Pids \X S : x[1] # p /\ of[x[1]][x[2]] = f}
    OBVIOUS
  <2> QED
    BY <2>1 DEF Others
<1> HIDE DEF new
<1>3. AddsUp(of, S, p, f) /\ AddsUp(new, S, p, f)
  BY <1>1, UsesSplit DEF Rows
<1>4. /\ Entries(new[p], f) \in Nat /\ Others(of, S, p, f) \in Nat /\ Entries(of[p], f) \in Nat
      /\ Uses(of, S, f) = Others(of, S, p, f) + Entries(of[p], f)
      /\ Uses(new, S, f) = Others(new, S, p, f) + Entries(new[p], f)
  BY <1>3 DEF AddsUp
<1>5. Entries(new[p], f) = Entries(row, f)
  BY <1>1
<1>6. \A o, e, r \in Nat : o + e \in Nat /\ e <= o + e /\ o + r = (o + e) - e + r
  OBVIOUS
<1> QED
  BY <1>1, <1>2, <1>4, <1>5, <1>6 DEF new, RowReplaced

\* A page table of kernel space is named at most once by each process.
LEMMA KernelUses ==
    ASSUME NEW of, of \in [Pids -> Rows(Kde)], NEW f \in Frames,
           \A p \in Pids : \A j, k \in Kde : of[p][j] = of[p][k] /\ of[p][j] # None => j = k
    PROVE  Uses(of, Kde, f) \in 0 .. NPids
<1> DEFINE U == {x \in Pids \X Kde : of[x[1]][x[2]] = f}
           g == [x \in U |-> x[1]]
<1>1. f # None
  BY FiniteThings
<1>2. \A x \in U : x[1] \in Pids
  OBVIOUS
<1>3. ASSUME NEW x \in U, NEW y \in U, x[1] = y[1] PROVE x = y
  <2>1. /\ x[1] \in Pids /\ x[2] \in Kde /\ y[2] \in Kde
        /\ of[x[1]][x[2]] = f /\ of[x[1]][y[2]] = f
    BY <1>3
  <2>2. x[2] = y[2]
    BY <1>1, <2>1
  <2>3. x = <<x[1], x[2]>> /\ y = <<y[1], y[2]>>
    OBVIOUS
  <2> QED
    BY <1>3, <2>2, <2>3
<1>4. Uses(of, Kde, f) = Cardinality(U)
  BY DEF Uses
<1> HIDE DEF U
<1>5. g \in Injection(U, Pids)
  <2>1. g \in [U -> Pids] /\ \A x, y \in U : g[x] = g[y] => x = y
    BY <1>2, <1>3
  <2> HIDE DEF g
  <2> QED
    BY <2>1 DEF Injection, IsInjective
<1> HIDE DEF g
<1>6. IsFiniteSet(U) /\ Cardinality(U) <= NPids
  BY <1>5, FiniteThings, FS_Injection
<1>7. Cardinality(U) \in Nat /\ NPids \in Nat
  BY <1>6, FS_CardinalityType, GeometryAssumption
<1> QED
  BY <1>4, <1>6, <1>7

(***************************************************************************)
(* What PagesInv says of the counts, for any counts, directories, tables   *)
(* and pages: the requests of MM are made from a few changes that keep it. *)
(***************************************************************************)
UsesOf(tb, pg, kt, f) == Uses(tb, Pde, f) + Uses(pg, VPages, f) + Uses(kt, Kde, f)

KernelOnce(kt) ==
    \A p \in Pids : \A j, k \in Kde : kt[p][j] = kt[p][k] /\ kt[p][j] # None => j = k

Counted(fl, tb, pg, kt) ==
    /\ fl \in Counts
    /\ tb \in [Pids -> Rows(Pde)] /\ pg \in [Pids -> Rows(VPages)] /\ kt \in [Pids -> Rows(Kde)]
    /\ \A f \in Frames :
          /\ fl[f] = UsesOf(tb, pg, kt, f)
          /\ Uses(tb, Pde, f) + Uses(pg, VPages, f) > 0 => fl[f] = 1
    /\ KernelOnce(kt)

LEMMA UsesTyped ==
    ASSUME NEW tb, tb \in [Pids -> Rows(Pde)], NEW pg, pg \in [Pids -> Rows(VPages)],
           NEW kt, kt \in [Pids -> Rows(Kde)], NEW f
    PROVE  /\ Uses(tb, Pde, f) \in Nat /\ Uses(pg, VPages, f) \in Nat /\ Uses(kt, Kde, f) \in Nat
           /\ \A p \in Pids : /\ Entries(tb[p], f) \in 0 .. Uses(tb, Pde, f)
                              /\ Entries(pg[p], f) \in 0 .. Uses(pg, VPages, f)
                              /\ Entries(kt[p], f) \in 0 .. Uses(kt, Kde, f)
<1>1. 1 \in Pids
  BY GeometryAssumption DEF Pids
<1>2. ASSUME NEW p \in Pids
      PROVE  /\ AddsUp(tb, Pde, p, f) /\ AddsUp(pg, VPages, p, f) /\ AddsUp(kt, Kde, p, f)
  BY FiniteThings, UsesSplit DEF Rows
<1>3. \A o, e \in Nat : o + e \in Nat /\ e \in 0 .. o + e
  OBVIOUS
<1> QED
  BY <1>1, <1>2, <1>3 DEF AddsUp

\* allocate_page and copy_page, for the pages and tables of user space: both
\* come from the free pages, and are counted.
LEMMA Grown ==
    ASSUME NEW fl, NEW tb, NEW pg, NEW kt, Counted(fl, tb, pg, kt), NEW p \in Pids,
           NEW A \in SUBSET Pde, \A d \in A : tb[p][d] = None,
           NEW B \in SUBSET VPages, \A v \in B : pg[p][v] = None,
           Cardinality(A) + Cardinality(B) <= Cardinality(Free(fl))
    PROVE  Counted(Taken(fl, Cardinality(A) + Cardinality(B)),
                   [tb EXCEPT ![p] = Put(Give(fl, A, 0), tb[p])],
                   [pg EXCEPT ![p] = Put(Give(fl, B, Cardinality(A)), pg[p])], kt)
<1> DEFINE a == Cardinality(A)
           b == Cardinality(B)
           F == Free(fl)
           ga == Give(fl, A, 0)
           gb == Give(fl, B, a)
           t == Put(ga, tb[p])
           m == Put(gb, pg[p])
           fn == Taken(fl, a + b)
           tn == [tb EXCEPT ![p] = t]
           mn == [pg EXCEPT ![p] = m]
<1>1. /\ fl \in Counts /\ tb \in [Pids -> Rows(Pde)] /\ pg \in [Pids -> Rows(VPages)]
      /\ kt \in [Pids -> Rows(Kde)]
      /\ \A f \in Frames :
          /\ fl[f] = UsesOf(tb, pg, kt, f)
          /\ Uses(tb, Pde, f) + Uses(pg, VPages, f) > 0 => fl[f] = 1
      /\ KernelOnce(kt)
  BY DEF Counted
<1>2. IsFiniteSet(A) /\ IsFiniteSet(B) /\ A \subseteq Int /\ B \subseteq Int
  BY FiniteThings, FS_Subset
<1>3. a \in Nat /\ b \in Nat /\ F \subseteq Frames
  BY <1>2, FS_CardinalityType DEF Free
<1>4. Cardinality(F) \in Nat /\ a + b <= Cardinality(F) /\ IsFiniteSet(F)
  <2>1. IsFiniteSet(F)
    BY <1>3, FiniteThings, FS_Subset
  <2> QED
    BY <2>1, FS_CardinalityType
<1>5. a <= Cardinality(F) /\ 0 + a <= Cardinality(F)
  BY <1>3, <1>4
<1> HIDE DEF a, b, F
<1>6. ga \in [A -> F] /\ gb \in [B -> F]
  <2>1. ga \in [A -> Free(fl)]
    BY <1>2, <1>5, Given DEF a, F
  <2>2. gb \in [B -> Free(fl)]
    BY <1>2, <1>3, <1>4, Given DEF b, F
  <2> QED
    BY <2>1, <2>2 DEF F
<1>7. \A f \in Frames :
         /\ Entries(ga, f) = Once(f \in F /\ Rank(F, f) \in 0 .. 0 + a - 1)
         /\ Entries(gb, f) = Once(f \in F /\ Rank(F, f) \in a .. a + b - 1)
  <2>1. 0 + Cardinality(A) <= Cardinality(Free(fl)) /\ a + Cardinality(B) <= Cardinality(Free(fl))
    BY <1>4, <1>5 DEF a, b, F
  <2>2. ASSUME NEW f \in Frames
        PROVE  Entries(ga, f) = Once(f \in F /\ Rank(F, f) \in 0 .. 0 + a - 1)
    BY <1>2, <2>1, GivenEntries DEF a, F
  <2>3. ASSUME NEW f \in Frames
        PROVE  Entries(gb, f) = Once(f \in F /\ Rank(F, f) \in a .. a + b - 1)
    BY <1>2, <1>3, <2>1, GivenEntries DEF b, F
  <2> QED
    BY <2>2, <2>3
<1>8. fn \in Counts /\ \A f \in Frames : fn[f] = fl[f] + Once(f \in F /\ Rank(F, f) < a + b)
  <2>1. a + b \in Nat
    BY <1>3
  <2> QED
    BY <1>1, <2>1, TakenCounts DEF F
<1>9. /\ t \in Rows(Pde)
      /\ \A f \in Frames : Entries(t, f) = Entries(tb[p], f) + Entries(ga, f)
  <2> DEFINE old == tb[p]
  <2>1. old \in [Pde -> Frames \cup {None}] /\ ga \in [A -> Frames] /\ \A x \in A : old[x] = None
    BY <1>1, <1>3, <1>6 DEF Rows
  <2> HIDE DEF old, ga, gb, t, m, fn, tn, mn
  <2>2. IsFiniteSet(Pde)
    BY FiniteThings
  <2>3. /\ Put(ga, old) \in Rows(Pde)
        /\ \A f \in Frames : Entries(Put(ga, old), f) = Entries(old, f) + Entries(ga, f)
    BY <2>1, <2>2, PutEntries DEF Rows
  <2> QED
    BY <2>3 DEF old, t
<1>10. /\ m \in Rows(VPages)
       /\ \A f \in Frames : Entries(m, f) = Entries(pg[p], f) + Entries(gb, f)
  <2> DEFINE old == pg[p]
  <2>1. old \in [VPages -> Frames \cup {None}] /\ gb \in [B -> Frames] /\ \A x \in B : old[x] = None
    BY <1>1, <1>3, <1>6 DEF Rows
  <2> HIDE DEF old, ga, gb, t, m, fn, tn, mn
  <2>2. IsFiniteSet(VPages)
    BY FiniteThings
  <2>3. /\ Put(gb, old) \in Rows(VPages)
        /\ \A f \in Frames : Entries(Put(gb, old), f) = Entries(old, f) + Entries(gb, f)
    BY <2>1, <2>2, PutEntries DEF Rows
  <2> QED
    BY <2>3 DEF old, m
<1> HIDE DEF ga, gb, fn, t, m
<1>11. tn \in [Pids -> Rows(Pde)] /\ \A f : RowReplaced(tb, tn, Pde, p, t, f)
  BY <1>1, <1>9, FiniteThings, RowUses
<1>12. mn \in [Pids -> Rows(VPages)] /\ \A f : RowReplaced(pg, mn, VPages, p, m, f)
  BY <1>1, <1>10, FiniteThings, RowUses
<1> HIDE DEF tn, mn
<1>13. ASSUME NEW f \in Frames
       PROVE  /\ fn[f] = UsesOf(tn, mn, kt, f)
              /\ Uses(tn, Pde, f) + Uses(mn, VPages, f) > 0 => fn[f] = 1
  <2> DEFINE r == Rank(F, f)
             u == f \in F
             ea == Entries(ga, f)
             eb == Entries(gb, f)
             T == Uses(tb, Pde, f)
             P == Uses(pg, VPages, f)
             K == Uses(kt, Kde, f)
             et == Entries(tb[p], f)
             em == Entries(pg[p], f)
  <2>1. T \in Nat /\ P \in Nat /\ K \in Nat /\ et \in Nat /\ em \in Nat
    BY <1>1, UsesTyped
  <2>2. u => fl[f] = 0 /\ r \in Nat
    <3>1. f \in F => Rank(F, f) \in 0 .. Cardinality(F) - 1
      BY <1>3, <1>4, FiniteThings, Ranks
    <3>2. f \in F => fl[f] = 0
      BY DEF F, Free
    <3> QED
      BY <1>4, <3>1, <3>2
  <2>3. ea = Once(u /\ r \in 0 .. 0 + a - 1) /\ eb = Once(u /\ r \in a .. a + b - 1)
    BY <1>7
  <2>4. fn[f] = fl[f] + Once(u /\ r < a + b)
    BY <1>8
  <2>5. Uses(tn, Pde, f) = T - et + (et + ea) /\ Uses(mn, VPages, f) = P - em + (em + eb)
    BY <1>9, <1>10, <1>11, <1>12 DEF RowReplaced
  <2>6. fl[f] = T + P + K /\ (T + P > 0 => fl[f] = 1)
    BY <1>1 DEF UsesOf
  <2> HIDE DEF r, u, ea, eb, T, P, K, et, em
  <2>7. ea \in Nat /\ eb \in Nat /\ Once(u /\ r < a + b) = ea + eb /\ (ea + eb = 0 \/ (ea + eb = 1 /\ u))
    BY <1>3, <2>2, <2>3 DEF Once
  <2>8. Uses(tn, Pde, f) = T + ea /\ Uses(mn, VPages, f) = P + eb
    BY <2>1, <2>5, <2>7
  <2>9. fn[f] = (T + ea) + (P + eb) + K
    BY <2>1, <2>4, <2>6, <2>7
  <2>10. (T + ea) + (P + eb) > 0 => fn[f] = 1
    BY <2>1, <2>2, <2>4, <2>6, <2>7
  <2> QED
    BY <2>8, <2>9, <2>10 DEF UsesOf, K
<1>14. Counted(fn, tn, mn, kt)
  BY <1>1, <1>8, <1>11, <1>12, <1>13 DEF Counted
<1> QED
  BY <1>14 DEF fn, tn, mn, t, m, ga, gb, a, b

\* free_memory for what a directory or table names: a count never passes 0.
LEMMA ReleasedCounts ==
    ASSUME NEW fl \in Counts, NEW row,
           \A f \in Frames : Entries(row, f) \in 0 .. fl[f]
    PROVE  /\ Released(fl, row) \in Counts
           /\ \A f \in Frames : Released(fl, row)[f] = fl[f] - Entries(row, f)
<1>1. \A c \in 0 .. 255 : \A e \in 0 .. c : (c - e) % 256 = c - e /\ c - e \in 0 .. 255
  OBVIOUS
<1>2. \A f \in Frames : fl[f] \in 0 .. 255
  BY DEF Counts
<1>3. \A f \in Frames : (fl[f] - Entries(row, f)) % 256 = fl[f] - Entries(row, f)
                        /\ fl[f] - Entries(row, f) \in 0 .. 255
  BY <1>1, <1>2
<1>4. Released(fl, row) = [f \in Frames |-> (fl[f] - Entries(row, f)) % 256]
  BY DEF Released
<1> QED
  BY <1>3, <1>4 DEF Counts

LEMMA EmptyRow ==
    ASSUME NEW S, IsFiniteSet(S), NEW f \in Frames
    PROVE  [x \in S |-> None] \in Rows(S) /\ Entries([x \in S |-> None], f) = 0
<1> DEFINE row == [x \in S |-> None]
<1>1. row \in Rows(S) /\ DOMAIN row = S /\ \A x \in S : row[x] = None
  BY DEF Rows
<1>2. f # None
  BY FiniteThings
<1> HIDE DEF row
<1>3. Entries(row, f) = 0 <=> \A x \in S : row[x] # f
  BY <1>1, NoEntries
<1> QED
  BY <1>1, <1>2, <1>3 DEF row

LEMMA EmptyRows ==
    /\ NoTables \in Rows(Pde) /\ NoPages \in Rows(VPages) /\ NoKernel \in Rows(Kde)
    /\ \A f \in Frames : Entries(NoTables, f) = 0 /\ Entries(NoPages, f) = 0 /\ Entries(NoKernel, f) = 0
  BY FiniteThings, EmptyRow DEF NoTables, NoPages, NoKernel, Rows

\* What exec and exit do: pages and tables of user space are freed.
Freed(fl, fn, m, t) == \A f \in Frames : fn[f] = fl[f] - Entries(m, f) - Entries(t, f)

LEMMA Shrunk ==
    ASSUME NEW fl, NEW tb, NEW pg, NEW kt, Counted(fl, tb, pg, kt), NEW p \in Pids
    PROVE  /\ Counted(Released(Released(fl, pg[p]), tb[p]),
                      [tb EXCEPT ![p] = NoTables], [pg EXCEPT ![p] = NoPages], kt)
           /\ Freed(fl, Released(Released(fl, pg[p]), tb[p]), pg[p], tb[p])
<1> DEFINE f1 == Released(fl, pg[p])
           fn == Released(f1, tb[p])
           tn == [tb EXCEPT ![p] = NoTables]
           mn == [pg EXCEPT ![p] = NoPages]
<1>1. /\ fl \in Counts /\ tb \in [Pids -> Rows(Pde)] /\ pg \in [Pids -> Rows(VPages)]
      /\ kt \in [Pids -> Rows(Kde)]
      /\ \A f \in Frames :
          /\ fl[f] = UsesOf(tb, pg, kt, f)
          /\ Uses(tb, Pde, f) + Uses(pg, VPages, f) > 0 => fl[f] = 1
      /\ KernelOnce(kt)
  BY DEF Counted
<1>2. \A f \in Frames :
         /\ Uses(tb, Pde, f) \in Nat /\ Uses(pg, VPages, f) \in Nat /\ Uses(kt, Kde, f) \in Nat
         /\ Entries(tb[p], f) \in 0 .. Uses(tb, Pde, f)
         /\ Entries(pg[p], f) \in 0 .. Uses(pg, VPages, f)
  BY <1>1, UsesTyped
<1>3. \A t, m, k \in Nat : \A x \in 0 .. t, y \in 0 .. m :
         /\ y \in 0 .. t + m + k /\ x \in 0 .. (t + m + k) - y
         /\ ((t + m + k) - y) - x = (t - x + 0) + (m - y + 0) + k
         /\ ((t + m > 0 => t + m + k = 1) /\ (t - x + 0) + (m - y + 0) > 0)
               => ((t + m + k) - y) - x = 1
  OBVIOUS
<1>4. f1 \in Counts /\ \A f \in Frames : f1[f] = fl[f] - Entries(pg[p], f)
  <2>1. \A f \in Frames : Entries(pg[p], f) \in 0 .. fl[f]
    BY <1>1, <1>2, <1>3 DEF UsesOf
  <2> QED
    BY <1>1, <2>1, ReleasedCounts
<1> HIDE DEF f1
<1>5. fn \in Counts /\ \A f \in Frames : fn[f] = f1[f] - Entries(tb[p], f)
  <2>1. \A f \in Frames : Entries(tb[p], f) \in 0 .. f1[f]
    BY <1>1, <1>2, <1>3, <1>4 DEF UsesOf
  <2> QED
    BY <1>4, <2>1, ReleasedCounts
<1> HIDE DEF fn
<1>6. tn \in [Pids -> Rows(Pde)] /\ \A f : RowReplaced(tb, tn, Pde, p, NoTables, f)
  BY <1>1, EmptyRows, FiniteThings, RowUses
<1>7. mn \in [Pids -> Rows(VPages)] /\ \A f : RowReplaced(pg, mn, VPages, p, NoPages, f)
  BY <1>1, EmptyRows, FiniteThings, RowUses
<1> HIDE DEF tn, mn
<1>8. ASSUME NEW f \in Frames
      PROVE  /\ fn[f] = UsesOf(tn, mn, kt, f)
             /\ Uses(tn, Pde, f) + Uses(mn, VPages, f) > 0 => fn[f] = 1
             /\ fn[f] = fl[f] - Entries(pg[p], f) - Entries(tb[p], f)
  <2> DEFINE T == Uses(tb, Pde, f)
             P == Uses(pg, VPages, f)
             K == Uses(kt, Kde, f)
             et == Entries(tb[p], f)
             em == Entries(pg[p], f)
  <2>1. T \in Nat /\ P \in Nat /\ K \in Nat /\ et \in 0 .. T /\ em \in 0 .. P
    BY <1>2
  <2>2. Uses(tn, Pde, f) = T - et + 0 /\ Uses(mn, VPages, f) = P - em + 0
    BY <1>6, <1>7, EmptyRows DEF RowReplaced
  <2>3. fl[f] = T + P + K /\ (T + P > 0 => fl[f] = 1)
    BY <1>1 DEF UsesOf
  <2>4. fn[f] = (fl[f] - em) - et
    BY <1>4, <1>5
  <2> HIDE DEF T, P, K, et, em
  <2>5. /\ ((T + P + K) - em) - et = (T - et + 0) + (P - em + 0) + K
        /\ ((T + P > 0 => T + P + K = 1) /\ (T - et + 0) + (P - em + 0) > 0)
               => ((T + P + K) - em) - et = 1
    BY <1>3, <2>1
  <2>6. fn[f] = UsesOf(tn, mn, kt, f)
    BY <2>2, <2>3, <2>4, <2>5 DEF UsesOf, K
  <2>7. Uses(tn, Pde, f) + Uses(mn, VPages, f) > 0 => fn[f] = 1
    BY <2>2, <2>3, <2>4, <2>5
  <2> QED
    BY <2>4, <2>6, <2>7 DEF em, et
<1>9. Counted(fn, tn, mn, kt)
  BY <1>1, <1>5, <1>6, <1>7, <1>8 DEF Counted
<1>10. Freed(fl, fn, pg[p], tb[p])
  BY <1>8 DEF Freed
<1> QED
  BY <1>9, <1>10 DEF fn, f1, tn, mn

(***************************************************************************)
(* The page tables of kernel space: given to the first process, shared by  *)
(* a fork, forgotten by an exit.                                           *)
(***************************************************************************)
LEMMA KernelReplaced ==
    ASSUME NEW fl, NEW tb, NEW pg, NEW kt, Counted(fl, tb, pg, kt), NEW p \in Pids,
           NEW row, row \in Rows(Kde),
           \A j, k \in Kde : row[j] = row[k] /\ row[j] # None => j = k,
           NEW fn, fn \in Counts,
           \A f \in Frames : fn[f] = (UsesOf(tb, pg, kt, f) - Entries(kt[p], f)) + Entries(row, f),
           \A f \in Frames : Uses(tb, Pde, f) + Uses(pg, VPages, f) > 0 => Entries(row, f) = 0
    PROVE  Counted(fn, tb, pg, [kt EXCEPT ![p] = row])
<1> DEFINE kn == [kt EXCEPT ![p] = row]
<1>1. /\ fl \in Counts /\ tb \in [Pids -> Rows(Pde)] /\ pg \in [Pids -> Rows(VPages)]
      /\ kt \in [Pids -> Rows(Kde)]
      /\ \A f \in Frames :
          /\ fl[f] = UsesOf(tb, pg, kt, f)
          /\ Uses(tb, Pde, f) + Uses(pg, VPages, f) > 0 => fl[f] = 1
      /\ KernelOnce(kt)
  BY DEF Counted
<1>2. kn \in [Pids -> Rows(Kde)] /\ \A f : RowReplaced(kt, kn, Kde, p, row, f)
  BY <1>1, FiniteThings, RowUses
<1>3. KernelOnce(kn)
  <2>1. kn[p] = row /\ \A q \in Pids : q # p => kn[q] = kt[q]
    BY <1>1
  <2> HIDE DEF kn
  <2> QED
    BY <1>1, <2>1 DEF KernelOnce
<1> HIDE DEF kn
<1>4. ASSUME NEW f \in Frames
      PROVE  /\ fn[f] = UsesOf(tb, pg, kn, f)
             /\ Uses(tb, Pde, f) + Uses(pg, VPages, f) > 0 => fn[f] = 1
  <2> DEFINE T == Uses(tb, Pde, f)
             P == Uses(pg, VPages, f)
             K == Uses(kt, Kde, f)
             e == Entries(kt[p], f)
             r == Entries(row, f)
  <2>1. T \in Nat /\ P \in Nat /\ K \in Nat /\ e \in 0 .. K
    BY <1>1, UsesTyped
  <2>2. r \in Nat /\ Uses(kn, Kde, f) = K - e + r
    BY <1>2 DEF RowReplaced
  <2>3. fn[f] = ((T + P + K) - e) + r
    BY DEF UsesOf
  <2>4. fl[f] = T + P + K /\ (T + P > 0 => fl[f] = 1 /\ r = 0)
    BY <1>1 DEF UsesOf
  <2> HIDE DEF T, P, K, e, r
  <2>5. ((T + P + K) - e) + r = T + P + (K - e + r)
    BY <2>1, <2>2
  <2>6. T + P > 0 => fn[f] = 1
    BY <2>1, <2>2, <2>3, <2>4
  <2> QED
    BY <2>2, <2>3, <2>5, <2>6 DEF UsesOf, T, P
<1>5. Counted(fn, tb, pg, kn)
  BY <1>1, <1>2, <1>3, <1>4 DEF Counted
<1> QED
  BY <1>5 DEF kn

LEMMA KernelGiven ==
    ASSUME NEW fl, NEW tb, NEW pg, NEW kt, Counted(fl, tb, pg, kt), NEW p \in Pids,
           kt[p] = NoKernel, NKde <= Cardinality(Free(fl))
    PROVE  Counted(Taken(fl, NKde), tb, pg, [kt EXCEPT ![p] = Give(fl, Kde, 0)])
<1> DEFINE row == Give(fl, Kde, 0)
           F == Free(fl)
           fn == Taken(fl, NKde)
<1>1. fl \in Counts /\ \A f \in Frames :
          /\ fl[f] = UsesOf(tb, pg, kt, f)
          /\ Uses(tb, Pde, f) + Uses(pg, VPages, f) > 0 => fl[f] = 1
  BY DEF Counted
<1>2. NKde \in Nat /\ IsFiniteSet(Kde) /\ Kde \in SUBSET Int /\ Cardinality(Kde) = NKde
  BY FiniteThings, GeometryAssumption
<1>3. 0 + Cardinality(Kde) <= Cardinality(Free(fl))
  BY <1>2
<1>4. row \in [Kde -> F] /\ \A j, k \in Kde : row[j] = row[k] => j = k
  BY <1>2, <1>3, Given
<1>5. \A f \in Frames : Entries(row, f) = Once(f \in F /\ Rank(F, f) \in 0 .. 0 + NKde - 1)
  <2> SUFFICES ASSUME NEW f \in Frames
               PROVE  Entries(row, f) = Once(f \in F /\ Rank(F, f) \in 0 .. 0 + NKde - 1)
    OBVIOUS
  <2> HIDE DEF row, F
  <2>1. Entries(Give(fl, Kde, 0), f)
          = Once(f \in Free(fl) /\ Rank(Free(fl), f) \in 0 .. 0 + Cardinality(Kde) - 1)
    BY <1>2, <1>3, GivenEntries
  <2> QED
    BY <1>2, <2>1 DEF row, F
<1>6. fn \in Counts /\ \A f \in Frames : fn[f] = fl[f] + Once(f \in F /\ Rank(F, f) < NKde)
  BY <1>1, <1>2, TakenCounts
<1>7. F \subseteq Frames /\ IsFiniteSet(F) /\ \A f \in F : fl[f] = 0
  BY FiniteThings, FS_Subset DEF Free
<1>8. \A f \in F : Rank(F, f) \in Nat
  <2>1. Cardinality(F) \in Nat /\ \A f \in F : Rank(F, f) \in 0 .. Cardinality(F) - 1
    BY <1>7, FiniteThings, Ranks, FS_CardinalityType
  <2> QED
    BY <2>1
<1> HIDE DEF row, F, fn
<1>9. row \in Rows(Kde)
  BY <1>4, <1>7 DEF Rows
<1>10. \A f \in Frames : Once(f \in F /\ Rank(F, f) < NKde) = Entries(row, f)
  BY <1>2, <1>5, <1>8 DEF Once
<1>11. \A f \in Frames : Entries(row, f) \in Nat /\ (fl[f] # 0 => Entries(row, f) = 0)
  BY <1>5, <1>7 DEF Once
<1>12. \A f \in Frames : fl[f] \in Nat
  BY <1>1 DEF Counts
<1>13. \A f \in Frames : fn[f] = (UsesOf(tb, pg, kt, f) - Entries(kt[p], f)) + Entries(row, f)
  BY <1>1, <1>6, <1>10, <1>11, <1>12, EmptyRows
<1>14. \A f \in Frames : Uses(tb, Pde, f) + Uses(pg, VPages, f) > 0 => Entries(row, f) = 0
  BY <1>1, <1>11
<1>15. Counted(fn, tb, pg, [kt EXCEPT ![p] = row])
  BY <1>4, <1>6, <1>9, <1>13, <1>14, KernelReplaced
<1> QED
  BY <1>15 DEF fn, row

LEMMA KernelForgotten ==
    ASSUME NEW fl, NEW tb, NEW pg, NEW kt, Counted(fl, tb, pg, kt), NEW p \in Pids
    PROVE  Counted(Released(fl, kt[p]), tb, pg, [kt EXCEPT ![p] = NoKernel])
<1> DEFINE fn == Released(fl, kt[p])
<1>1. /\ fl \in Counts /\ tb \in [Pids -> Rows(Pde)] /\ pg \in [Pids -> Rows(VPages)]
      /\ kt \in [Pids -> Rows(Kde)]
      /\ \A f \in Frames : fl[f] = UsesOf(tb, pg, kt, f)
  BY DEF Counted
<1>2. \A f \in Frames :
         /\ Uses(tb, Pde, f) \in Nat /\ Uses(pg, VPages, f) \in Nat /\ Uses(kt, Kde, f) \in Nat
         /\ Entries(kt[p], f) \in 0 .. Uses(kt, Kde, f)
  BY <1>1, UsesTyped
<1>3. \A f \in Frames : Entries(kt[p], f) \in 0 .. fl[f] /\ fl[f] \in Nat
  BY <1>1, <1>2 DEF UsesOf
<1>4. fn \in Counts /\ \A f \in Frames : fn[f] = fl[f] - Entries(kt[p], f)
  BY <1>1, <1>3, ReleasedCounts
<1> HIDE DEF fn
<1>5. \A f \in Frames : fn[f] = (UsesOf(tb, pg, kt, f) - Entries(kt[p], f)) + Entries(NoKernel, f)
  BY <1>1, <1>3, <1>4, EmptyRows
<1>6. \A k \in Kde : NoKernel[k] = None
  BY DEF NoKernel
<1>7. Counted(fn, tb, pg, [kt EXCEPT ![p] = NoKernel])
  BY <1>4, <1>5, <1>6, EmptyRows, KernelReplaced
<1> QED
  BY <1>7 DEF fn

LEMMA KernelShared ==
    ASSUME NEW fl, NEW tb, NEW pg, NEW kt, Counted(fl, tb, pg, kt), NEW p \in Pids, NEW q \in Pids,
           kt[q] = NoKernel
    PROVE  Counted(Shared(fl, kt[p]), tb, pg, [kt EXCEPT ![q] = kt[p]])
<1> DEFINE fn == Shared(fl, kt[p])
           row == kt[p]
           kn == [kt EXCEPT ![q] = row]
<1>1. /\ fl \in Counts /\ tb \in [Pids -> Rows(Pde)] /\ pg \in [Pids -> Rows(VPages)]
      /\ kt \in [Pids -> Rows(Kde)]
      /\ \A f \in Frames :
          /\ fl[f] = UsesOf(tb, pg, kt, f)
          /\ Uses(tb, Pde, f) + Uses(pg, VPages, f) > 0 => fl[f] = 1
      /\ KernelOnce(kt)
  BY DEF Counted
<1>2. \A f \in Frames :
         /\ Uses(tb, Pde, f) \in Nat /\ Uses(pg, VPages, f) \in Nat /\ Uses(kt, Kde, f) \in Nat
         /\ Entries(row, f) \in 0 .. Uses(kt, Kde, f)
  BY <1>1, UsesTyped
<1>3. row \in Rows(Kde) /\ \A j, k \in Kde : row[j] = row[k] /\ row[j] # None => j = k
  BY <1>1 DEF KernelOnce
<1> HIDE DEF row
<1>4. kn \in [Pids -> Rows(Kde)] /\ \A f : RowReplaced(kt, kn, Kde, q, row, f)
  BY <1>1, <1>3, FiniteThings, RowUses
<1>5. KernelOnce(kn)
  <2>1. kn[q] = row /\ \A s \in Pids : s # q => kn[s] = kt[s]
    BY <1>1
  <2> HIDE DEF kn
  <2> QED
    BY <1>1, <1>3, <2>1 DEF KernelOnce
<1> HIDE DEF kn
<1>6. \A f \in Frames : Uses(kn, Kde, f) = Uses(kt, Kde, f) + Entries(row, f)
  BY <1>2, <1>4, EmptyRows DEF RowReplaced
<1>7. \A f \in Frames : Uses(kn, Kde, f) \in 0 .. 255
  <2>1. ASSUME NEW f \in Frames PROVE Uses(kn, Kde, f) \in 0 .. NPids
    BY <1>4, <1>5, KernelUses DEF KernelOnce
  <2>2. NPids \in Nat /\ NPids < 256
    BY GeometryAssumption
  <2> QED
    BY <2>1, <2>2
<1>8. \A f \in Frames : fl[f] + Entries(row, f) \in 0 .. 255
                        /\ (Uses(tb, Pde, f) + Uses(pg, VPages, f) > 0 => Entries(row, f) = 0)
  <2> SUFFICES ASSUME NEW f \in Frames
               PROVE  fl[f] + Entries(row, f) \in 0 .. 255
                      /\ (Uses(tb, Pde, f) + Uses(pg, VPages, f) > 0 => Entries(row, f) = 0)
    OBVIOUS
  <2> DEFINE T == Uses(tb, Pde, f)
             P == Uses(pg, VPages, f)
             K == Uses(kt, Kde, f)
             e == Entries(row, f)
  <2>1. T \in Nat /\ P \in Nat /\ K \in Nat /\ e \in 0 .. K /\ K + e \in 0 .. 255
    BY <1>2, <1>6, <1>7
  <2>2. fl[f] = T + P + K /\ (T + P > 0 => fl[f] = 1)
    BY <1>1 DEF UsesOf
  <2> HIDE DEF T, P, K, e
  <2>3. fl[f] + e \in 0 .. 255 /\ (T + P > 0 => e = 0)
    BY <2>1, <2>2
  <2> QED
    BY <2>3 DEF T, P, e
<1>9. fn \in Counts /\ \A f \in Frames : fn[f] = fl[f] + Entries(row, f)
  <2>1. fn = [f \in Frames |-> (fl[f] + Entries(row, f)) % 256]
    BY DEF Shared, row
  <2>2. \A c \in 0 .. 255 : c % 256 = c
    OBVIOUS
  <2> HIDE DEF fn
  <2> QED
    BY <1>8, <2>1, <2>2 DEF Counts
<1> HIDE DEF fn
<1>10. \A f \in Frames : fl[f] \in Nat /\ Entries(row, f) \in Nat
  BY <1>1, <1>2 DEF Counts
<1>11. \A f \in Frames : fn[f] = (UsesOf(tb, pg, kt, f) - Entries(kt[q], f)) + Entries(row, f)
  BY <1>1, <1>9, <1>10, EmptyRows
<1>12. Counted(fn, tb, pg, [kt EXCEPT ![q] = row])
  BY <1>3, <1>8, <1>9, <1>11, KernelReplaced
<1> QED
  BY <1>12 DEF fn, row

\* At most n of the free pages have one of the first n ranks.
LEMMA FreeTaken ==
    ASSUME NEW fl, NEW n \in Nat
    PROVE  Cardinality(Free(Taken(fl, n))) >= Cardinality(Free(fl)) - n
<1> DEFINE F == Free(fl)
           G == {f \in F : Rank(F, f) < n}
           rank == [f \in G |-> Rank(F, f)]
<1>1. F \subseteq Frames /\ IsFiniteSet(F)
  BY FiniteThings, FS_Subset DEF Free
<1>2. Free(Taken(fl, n)) = F \ G
  BY DEF Free, Taken
<1>3. /\ \A f \in F : Rank(F, f) \in 0 .. Cardinality(F) - 1
      /\ \A f, g \in F : Rank(F, f) = Rank(F, g) => f = g
  <2> HIDE DEF F
  <2> QED
    BY <1>1, FiniteThings, Ranks
<1>4. Cardinality(F) \in Nat
  BY <1>1, FS_CardinalityType
<1>5. G \subseteq F
  OBVIOUS
<1>6. \A f \in G : Rank(F, f) \in 0 .. n - 1
  BY <1>3, <1>4
<1> HIDE DEF F, G
<1>7. rank \in Injection(G, 0 .. n - 1)
  <2>1. rank \in [G -> 0 .. n - 1] /\ \A f, g \in G : rank[f] = rank[g] => f = g
    BY <1>3, <1>5, <1>6
  <2> HIDE DEF rank
  <2> QED
    BY <2>1 DEF Injection, IsInjective
<1> HIDE DEF rank
<1>8. IsFiniteSet(0 .. n - 1) /\ Cardinality(0 .. n - 1) = n
  BY FS_Interval
<1>9. IsFiniteSet(G) /\ Cardinality(G) <= n
  BY <1>7, <1>8, FS_Injection
<1>10. Cardinality(F \ G) = Cardinality(F) - Cardinality(F \cap G)
  BY <1>1, FS_Difference
<1>11. F \cap G = G /\ Cardinality(G) \in Nat
  BY <1>5, <1>9, FS_CardinalityType
<1> QED
  BY <1>2, <1>4, <1>9, <1>10, <1>11 DEF F

\* The new entries are present, the others are as before.
Completed(D, S, old, new) ==
    new \in Rows(D) /\ \A x \in D : new[x] # None <=> (x \in S \/ old[x] # None)

LEMMA GivenPresent ==
    ASSUME NEW D, IsFiniteSet(D), D \subseteq Int, NEW fl, NEW S \in SUBSET D, NEW from \in Nat,
           from + Cardinality(S) <= Cardinality(Free(fl)),
           NEW old, old \in Rows(D), \A x \in S : old[x] = None
    PROVE  Completed(D, S, old, Put(Give(fl, S, from), old))
<1> DEFINE g == Give(fl, S, from)
<1>1. IsFiniteSet(S) /\ S \subseteq Int
  BY FS_Subset
<1>2. g \in [S -> Free(fl)]
  BY <1>1, Given
<1>3. Free(fl) \subseteq Frames
  BY DEF Free
<1> HIDE DEF g
<1>4. g \in [S -> Frames] /\ old \in [D -> Frames \cup {None}]
  BY <1>2, <1>3 DEF Rows
<1>5. /\ Put(g, old) \in [D -> Frames \cup {None}]
      /\ \A x \in D : Put(g, old)[x] = IF x \in S THEN g[x] ELSE old[x]
  <2>1. IsFiniteSet(D) /\ S \in SUBSET D /\ \A x \in S : old[x] = None
    OBVIOUS
  <2> QED
    BY ONLY <1>4, <2>1, PutEntries
<1>6. None \notin Frames
  BY FiniteThings
<1> QED
  BY <1>4, <1>5, <1>6 DEF g, Rows, Completed

\* A page has a table.
LEMMA TableOf ==
    ASSUME NEW v \in VPages
    PROVE  v \div NPte \in Pde
<1>1. NPde \in Nat \ {0} /\ NPte \in Nat \ {0}
  BY GeometryAssumption
<1>2. v \in Nat /\ v < NPde * NPte
  BY <1>1 DEF VPages
<1>3. \A q, d, n \in Nat : q >= d => q * n >= d * n
  OBVIOUS
<1>4. v \div NPte \in Nat /\ (v \div NPte) * NPte <= v
  BY <1>1, <1>2
<1>5. v \div NPte < NPde
  BY <1>1, <1>2, <1>3, <1>4
<1> QED
  BY <1>1, <1>4, <1>5 DEF Pde

LEMMA StackIsAPage ==
    /\ StackPage \in VPages /\ StackPage \div NPte \in Pde
    /\ NewTables(NoTables, Stack) = {StackPage \div NPte}
    /\ Cardinality(Stack) = 1 /\ Cardinality(NewTables(NoTables, Stack)) = 1
    /\ Need(NoTables, Stack) = 2
<1>1. NPde \in Nat \ {0} /\ NPte \in Nat \ {0}
  BY GeometryAssumption
<1>2. \A a, b \in Nat \ {0} : a * b - 1 \in 0 .. a * b - 1
  OBVIOUS
<1>3. StackPage \in VPages
  BY <1>1, <1>2 DEF StackPage, VPages
<1>4. StackPage \div NPte \in Pde
  BY <1>3, TableOf
<1>5. NewTables(NoTables, Stack) = {StackPage \div NPte}
  BY <1>4 DEF NewTables, NoTables, Stack
<1>6. Cardinality(Stack) = 1 /\ Cardinality({StackPage \div NPte}) = 1
  BY FS_Singleton DEF Stack
<1> QED
  BY <1>3, <1>4, <1>5, <1>6 DEF Need
-----------------------------------------------------------------------------
(***************************************************************************)
(* PagesInv, as what the changes above keep and the rest.                  *)
(***************************************************************************)
Rest ==
    /\ live \subseteq Pids /\ started \in BOOLEAN /\ mem \in [Frames -> [Offsets -> Nat]]
    /\ halt \in {"none", "full", "overlap", "processes"}
    /\ OnlyTheLiving /\ StackMapped
    /\ todo \in [pid : live \cup {None}, rest : Seq(Segments)]
    /\ ~started => live = {}

Core == Counted(flag, tab, page, ktab) /\ Rest

Views ==
    /\ image \in [Pids -> SUBSET Segments]
    /\ DOMAIN view = Pids /\ \A p \in Pids : IsView(view[p])

\* The programs are made of their segments.
LEMMA ProgramSegments ==
    /\ \A prog \in Programs : prog \in Seq(Segments)
    /\ \A s \in Segments : s \in Segment /\ s.filesz <= s.memsz
<1>1. ASSUME NEW prog \in Programs PROVE prog \in Seq(Segments)
  <2>1. prog \in Seq(Segment)
    BY GeometryAssumption
  <2>2. \A k \in 1 .. Len(prog) : prog[k] \in Segments
    BY DEF Segments
  <2>3. Len(prog) \in Nat /\ prog = [k \in 1 .. Len(prog) |-> prog[k]]
    BY <2>1, LenProperties
  <2>4. prog \in [1 .. Len(prog) -> Segments]
    BY <2>2, <2>3
  <2> QED
    BY <2>3, <2>4, FunctionIsSeq
<1>2. ASSUME NEW s \in Segments PROVE s \in Segment /\ s.filesz <= s.memsz
  <2>1. PICK prog \in Programs : \E k \in 1 .. Len(prog) : s = prog[k]
    BY DEF Segments
  <2>2. prog \in Seq(Segment) /\ \A k \in 1 .. Len(prog) : prog[k].filesz <= prog[k].memsz
    BY GeometryAssumption
  <2> QED
    BY <2>1, <2>2, ElementOfSeq
<1> QED
  BY <1>1, <1>2

LEMMA InvParts == PagesInv => Counted(flag, tab, page, ktab) /\ Rest /\ Views
<1> SUFFICES ASSUME PagesInv PROVE Counted(flag, tab, page, ktab) /\ Rest /\ Views
  OBVIOUS
<1> USE DEF PagesInv
<1>1. Rest /\ Views
  BY DEF Rest, Views, TypeOK
<1>2. flag \in Counts /\ tab \in [Pids -> Rows(Pde)] /\ page \in [Pids -> Rows(VPages)]
      /\ ktab \in [Pids -> Rows(Kde)]
  BY DEF TypeOK, Counts, Rows
<1>3. \A f \in Frames : References(f) = UsesOf(tab, page, ktab, f)
  BY DEF References, UsesOf
<1>4. \A f \in Frames : flag[f] = UsesOf(tab, page, ktab, f)
                        /\ (Uses(tab, Pde, f) + Uses(page, VPages, f) > 0 => flag[f] = 1)
  BY <1>3 DEF CountsReferences, UserPagesOnce
<1>5. KernelOnce(ktab)
  BY DEF KernelTablesOnce, KernelOnce
<1> QED
  BY <1>1, <1>2, <1>4, <1>5 DEF Counted

LEMMA InvPartsNext == Core' /\ Views' => PagesInv'
<1> SUFFICES ASSUME Counted(flag', tab', page', ktab'), Rest', Views' PROVE PagesInv'
  BY DEF Core
<1>1. /\ flag' \in Counts /\ tab' \in [Pids -> Rows(Pde)] /\ page' \in [Pids -> Rows(VPages)]
      /\ ktab' \in [Pids -> Rows(Kde)]
      /\ \A f \in Frames :
          /\ flag'[f] = UsesOf(tab', page', ktab', f)
          /\ Uses(tab', Pde, f) + Uses(page', VPages, f) > 0 => flag'[f] = 1
      /\ KernelOnce(ktab')
  BY DEF Counted
<1>2. \A f \in Frames : References(f)' = UsesOf(tab', page', ktab', f)
  BY DEF References, UsesOf
<1>3. CountsReferences' /\ UserPagesOnce'
  BY <1>1, <1>2 DEF CountsReferences, UserPagesOnce
<1>4. KernelTablesOnce'
  BY <1>1 DEF KernelOnce, KernelTablesOnce
<1>5. TypeOK'
  BY <1>1 DEF Rest, Views, TypeOK, Counts, Rows
<1> QED
  BY <1>3, <1>4, <1>5 DEF Rest, PagesInv

LEMMA NoUses ==
    ASSUME NEW tb, NEW pg, NEW kt, NEW f \in Frames,
           \A q \in Pids : tb[q] = NoTables /\ pg[q] = NoPages /\ kt[q] = NoKernel
    PROVE  Uses(tb, Pde, f) = 0 /\ Uses(pg, VPages, f) = 0 /\ Uses(kt, Kde, f) = 0
<1>1. f # None
  BY FiniteThings
<1>2. /\ {x \in Pids \X Pde : tb[x[1]][x[2]] = f} = {}
      /\ {x \in Pids \X VPages : pg[x[1]][x[2]] = f} = {}
      /\ {x \in Pids \X Kde : kt[x[1]][x[2]] = f} = {}
  BY <1>1 DEF NoTables, NoPages, NoKernel
<1> QED
  BY <1>2, FS_EmptySet DEF Uses

LEMMA InitCounted == Init => PagesInv
<1> SUFFICES ASSUME Init PROVE PagesInv
  OBVIOUS
<1> USE DEF Init
<1>1. Rest
  <2>1. OnlyTheLiving /\ StackMapped
    BY DEF OnlyTheLiving, StackMapped
  <2>2. todo \in [pid : live \cup {None}, rest : Seq(Segments)]
    BY DEF Nothing
  <2>3. mem \in [Frames -> [Offsets -> Nat]]
    BY DEF Unwritten, Junk
  <2> QED
    BY <2>1, <2>2, <2>3 DEF Rest
<1>2. flag \in Counts /\ tab \in [Pids -> Rows(Pde)] /\ page \in [Pids -> Rows(VPages)]
      /\ ktab \in [Pids -> Rows(Kde)]
  BY EmptyRows DEF Counts
<1>3. ASSUME NEW f \in Frames
      PROVE  Uses(tab, Pde, f) = 0 /\ Uses(page, VPages, f) = 0 /\ Uses(ktab, Kde, f) = 0
  BY NoUses
<1>4. TypeOK
  <2>1. IsView(NoBytes)
    BY DEF IsView, NoBytes
  <2> QED
    BY <1>1, <1>2, <2>1 DEF Rest, TypeOK, Counts, Rows
<1>5. CountsReferences /\ UserPagesOnce
  BY <1>3 DEF CountsReferences, UserPagesOnce, References
<1>6. KernelTablesOnce
  BY DEF KernelTablesOnce, NoKernel
<1> QED
  BY <1>1, <1>4, <1>5, <1>6 DEF Rest, PagesInv

\* The stack of a new or executed program: one page, and the table for it.
LEMMA NewProgram ==
    ASSUME NEW fl, NEW tb, NEW pg, NEW kt, Counted(fl, tb, pg, kt), NEW p \in Pids,
           tb[p] = NoTables, pg[p] = NoPages, 2 <= Cardinality(Free(fl))
    PROVE  /\ Counted(Taken(fl, Need(NoTables, Stack)),
                      [tb EXCEPT ![p] = WithTables(fl, NoTables, Stack)],
                      [pg EXCEPT ![p] = WithPages(fl, NoTables, NoPages, Stack)], kt)
           /\ WithTables(fl, NoTables, Stack)[StackPage \div NPte] # None
           /\ WithPages(fl, NoTables, NoPages, Stack)[StackPage] # None
<1> DEFINE A == NewTables(NoTables, Stack)
           B == Stack
<1>1. /\ A = {StackPage \div NPte} /\ B = {StackPage} /\ A \in SUBSET Pde /\ B \in SUBSET VPages
      /\ Cardinality(A) = 1 /\ Cardinality(B) = 1
  BY StackIsAPage DEF Stack
<1>2. (\A d \in A : NoTables[d] = None) /\ \A v \in B : NoPages[v] = None
  BY <1>1 DEF NoTables, NoPages
<1> HIDE DEF A, B
<1>3. Cardinality(A) + Cardinality(B) <= Cardinality(Free(fl)) /\ Cardinality(A) + Cardinality(B) = 2
  BY <1>1
<1>4. Counted(Taken(fl, Cardinality(A) + Cardinality(B)),
              [tb EXCEPT ![p] = Put(Give(fl, A, 0), tb[p])],
              [pg EXCEPT ![p] = Put(Give(fl, B, Cardinality(A)), pg[p])], kt)
  <2>1. (\A d \in A : tb[p][d] = None) /\ \A v \in B : pg[p][v] = None
    BY <1>2
  <2> QED
    BY <1>1, <1>3, <2>1, Grown
<1>5. WithTables(fl, NoTables, Stack) = Put(Give(fl, A, 0), NoTables)
  BY DEF WithTables, A
<1>6. WithPages(fl, NoTables, NoPages, Stack) = Put(Give(fl, B, Cardinality(A)), NoPages)
  BY DEF WithPages, A, B
<1>7. Need(NoTables, Stack) = Cardinality(A) + Cardinality(B)
  BY DEF Need, A, B
<1>8. Put(Give(fl, A, 0), NoTables)[StackPage \div NPte] # None
  <2>1. IsFiniteSet(Pde) /\ Pde \subseteq Int /\ NoTables \in Rows(Pde) /\ A \in SUBSET Pde
    BY <1>1, FiniteThings, EmptyRows
  <2>2. 0 + Cardinality(A) <= Cardinality(Free(fl)) /\ 0 \in Nat
    BY <1>1, FreeFinite
  <2>3. Completed(Pde, A, NoTables, Put(Give(fl, A, 0), NoTables))
    BY <1>2, <2>1, <2>2, GivenPresent
  <2> QED
    BY <1>1, <2>3 DEF Completed
<1>9. Put(Give(fl, B, Cardinality(A)), NoPages)[StackPage] # None
  <2>1. IsFiniteSet(VPages) /\ VPages \subseteq Int /\ NoPages \in Rows(VPages)
    BY FiniteThings, EmptyRows
  <2>2. Cardinality(A) \in Nat
    BY <1>1
  <2>3. Completed(VPages, B, NoPages, Put(Give(fl, B, Cardinality(A)), NoPages))
    BY <1>1, <1>2, <1>3, <2>1, <2>2, GivenPresent
  <2> QED
    BY <1>1, <2>3 DEF Completed
<1> QED
  BY <1>4, <1>5, <1>6, <1>7, <1>8, <1>9

LEMMA CreateKeeps ==
    ASSUME PagesInv, NEW p \in Pids, NEW prog \in Programs, Create(p, prog)
    PROVE  Core'
<1> DEFINE fl == Taken(flag, NKde)
           kn == [ktab EXCEPT ![p] = Give(flag, Kde, 0)]
<1>1. Counted(flag, tab, page, ktab) /\ Rest
  BY InvParts
<1>2. live = {} /\ halt \in {"none", "full", "overlap", "processes"}
  BY <1>1 DEF Rest, Create
<1>3. \A q \in Pids : tab[q] = NoTables /\ page[q] = NoPages /\ ktab[q] = NoKernel
  BY <1>1, <1>2 DEF Rest, OnlyTheLiving
<1>4. \A f \in Frames : flag[f] = 0
  <2> SUFFICES ASSUME NEW f \in Frames PROVE flag[f] = 0
    OBVIOUS
  <2>1. Uses(tab, Pde, f) = 0 /\ Uses(page, VPages, f) = 0 /\ Uses(ktab, Kde, f) = 0
    BY <1>3, NoUses
  <2>3. UsesOf(tab, page, ktab, f) = 0
    BY <2>1 DEF UsesOf
  <2> QED
    BY <1>1, <2>3 DEF Counted
<1>5. Cardinality(Free(flag)) = NFrames
  <2>1. Free(flag) = Frames
    BY <1>4 DEF Free
  <2> QED
    BY <2>1, FiniteThings
<1>6. NKde \in Nat /\ NFrames \in Nat /\ NFrames > NKde + 2
  BY GeometryAssumption
<1>7. Counted(fl, tab, page, kn)
  BY <1>1, <1>3, <1>5, <1>6, KernelGiven
<1>8. Cardinality(Free(fl)) >= Cardinality(Free(flag)) - NKde
  BY <1>6, FreeTaken
<1>9. 2 <= Cardinality(Free(fl))
  <2>1. Cardinality(Free(fl)) \in Nat
    BY FreeFinite
  <2> HIDE DEF fl
  <2> QED
    BY <1>5, <1>6, <1>8, <2>1
<1> HIDE DEF fl, kn
<1>10. /\ Counted(Taken(fl, Need(NoTables, Stack)),
                  [tab EXCEPT ![p] = WithTables(fl, NoTables, Stack)],
                  [page EXCEPT ![p] = WithPages(fl, NoTables, NoPages, Stack)], kn)
       /\ WithTables(fl, NoTables, Stack)[StackPage \div NPte] # None
       /\ WithPages(fl, NoTables, NoPages, Stack)[StackPage] # None
  BY <1>3, <1>7, <1>9, NewProgram
<1>11. /\ flag' = Taken(fl, Need(NoTables, Stack)) /\ ktab' = kn
       /\ tab' = [tab EXCEPT ![p] = WithTables(fl, NoTables, Stack)]
       /\ page' = [page EXCEPT ![p] = WithPages(fl, NoTables, NoPages, Stack)]
  BY DEF Create, fl, kn
<1>12. live' = {p} /\ todo' = [pid |-> p, rest |-> prog] /\ started' = TRUE /\ mem' = mem /\ halt' = halt
  BY <1>2 DEF Create
<1>13. prog \in Seq(Segments)
  BY ProgramSegments
<1>14. DOMAIN tab = Pids /\ DOMAIN page = Pids /\ DOMAIN ktab = Pids
  BY <1>1 DEF Counted
<1>15. OnlyTheLiving' /\ StackMapped'
  <2>1. \A q \in Pids : q # p => tab'[q] = NoTables /\ page'[q] = NoPages /\ ktab'[q] = NoKernel
    BY <1>3, <1>11, <1>14 DEF kn
  <2>2. page'[p][StackPage] # None /\ tab'[p][StackPage \div NPte] # None
    BY <1>10, <1>11, <1>14
  <2> QED
    BY <1>12, <2>1, <2>2 DEF OnlyTheLiving, StackMapped
<1>16. Rest'
  BY <1>1, <1>12, <1>13, <1>15 DEF Rest
<1>17. Counted(flag', tab', page', ktab')
  BY <1>10, <1>11
<1> QED
  BY <1>16, <1>17 DEF Core

\* What exec frees is enough for the new stack: the page of the old one and
\* its table, which are used by nothing else.
LEMMA StackFreed ==
    ASSUME PagesInv, NEW p \in live
    PROVE  2 <= Cardinality(Free(Released(Released(flag, page[p]), tab[p])))
<1> DEFINE fl == Released(Released(flag, page[p]), tab[p])
           f == page[p][StackPage]
           g == tab[p][StackPage \div NPte]
<1>1. Counted(flag, tab, page, ktab) /\ Rest /\ p \in Pids
  BY InvParts DEF Rest
<1>2. /\ flag \in Counts /\ tab \in [Pids -> Rows(Pde)] /\ page \in [Pids -> Rows(VPages)]
      /\ ktab \in [Pids -> Rows(Kde)]
      /\ \A e \in Frames :
          /\ flag[e] = UsesOf(tab, page, ktab, e)
          /\ Uses(tab, Pde, e) + Uses(page, VPages, e) > 0 => flag[e] = 1
  BY <1>1 DEF Counted
<1>3. StackPage \in VPages /\ StackPage \div NPte \in Pde
  BY StackIsAPage
<1>4. f # None /\ g # None
  BY <1>1 DEF Rest, StackMapped
<1>5. f \in Frames /\ g \in Frames
  BY <1>1, <1>2, <1>3, <1>4 DEF Rows
<1>6. \A e \in Frames : fl[e] = flag[e] - Entries(page[p], e) - Entries(tab[p], e)
  <2>1. Freed(flag, fl, page[p], tab[p])
    BY <1>1, Shrunk
  <2> QED
    BY <2>1 DEF Freed
<1>7. Counted(fl, [tab EXCEPT ![p] = NoTables], [page EXCEPT ![p] = NoPages], ktab)
  BY <1>1, Shrunk
<1>8. \A e \in Frames : fl[e] \in 0 .. 255 /\ flag[e] \in 0 .. 255
  BY <1>2, <1>7 DEF Counted, Counts
<1>9. \A e \in Frames :
         /\ Entries(page[p], e) \in 0 .. Uses(page, VPages, e)
         /\ Entries(tab[p], e) \in 0 .. Uses(tab, Pde, e)
         /\ Uses(page, VPages, e) \in Nat /\ Uses(tab, Pde, e) \in Nat
  BY <1>1, <1>2, UsesTyped
<1>10. Entries(page[p], f) > 0 /\ Entries(tab[p], g) > 0
  <2> DEFINE m == page[p]
             t == tab[p]
  <2>1. DOMAIN m = VPages /\ DOMAIN t = Pde
    BY <1>1, <1>2 DEF Rows
  <2>2. m[StackPage] = f /\ t[StackPage \div NPte] = g
    OBVIOUS
  <2>3. Entries(m, f) \in Nat /\ Entries(t, g) \in Nat
    BY <1>5, <1>9
  <2> HIDE DEF m, t, f, g
  <2>4. Entries(m, f) # 0
    BY <1>3, <2>1, <2>2, FiniteThings, NoEntries
  <2>5. Entries(t, g) # 0
    BY <1>3, <2>1, <2>2, FiniteThings, NoEntries
  <2>6. Entries(m, f) > 0 /\ Entries(t, g) > 0
    BY <2>3, <2>4, <2>5
  <2> QED
    BY <2>6 DEF m, t, f, g
<1> HIDE DEF fl, f, g
<1>11. \A e \in Frames : Entries(page[p], e) > 0 \/ Entries(tab[p], e) > 0
          => /\ fl[e] = 0
             /\ ~(Entries(page[p], e) > 0 /\ Entries(tab[p], e) > 0)
  <2> SUFFICES ASSUME NEW e \in Frames, Entries(page[p], e) > 0 \/ Entries(tab[p], e) > 0
               PROVE  /\ fl[e] = 0
                      /\ ~(Entries(page[p], e) > 0 /\ Entries(tab[p], e) > 0)
    OBVIOUS
  <2> DEFINE x == Entries(page[p], e)
             y == Entries(tab[p], e)
             P == Uses(page, VPages, e)
             T == Uses(tab, Pde, e)
  <2>1. x \in 0 .. P /\ y \in 0 .. T /\ P \in Nat /\ T \in Nat /\ (x > 0 \/ y > 0)
    BY <1>9
  <2>2. T + P > 0 => flag[e] = 1
    BY <1>2
  <2>3. fl[e] = flag[e] - x - y /\ fl[e] \in 0 .. 255
    BY <1>6, <1>8
  <2> HIDE DEF x, y, P, T
  <2>4. fl[e] = 0 /\ ~(x > 0 /\ y > 0)
    BY <2>1, <2>2, <2>3
  <2> QED
    BY <2>4 DEF x, y
<1>12. f # g /\ f \in Free(fl) /\ g \in Free(fl)
  BY <1>5, <1>10, <1>11 DEF Free
<1>13. IsFiniteSet({f, g}) /\ Cardinality({f, g}) = 2
  <2>1. IsFiniteSet({f}) /\ Cardinality({f}) = 1
    BY FS_Singleton
  <2>2. g \notin {f} /\ {f} \cup {g} = {f, g}
    BY <1>12
  <2>3. IsFiniteSet({f} \cup {g}) /\ Cardinality({f} \cup {g}) = Cardinality({f}) + 1
    BY <2>1, <2>2, FS_AddElement
  <2> QED
    BY <2>1, <2>2, <2>3
<1>14. Cardinality({f, g}) <= Cardinality(Free(fl))
  <2>1. {f, g} \in SUBSET Free(fl) /\ IsFiniteSet(Free(fl))
    BY <1>12, FreeFinite
  <2> QED
    BY <2>1, FS_Subset
<1> QED
  BY <1>13, <1>14 DEF fl

\* Bytes of pages that stay in use are left alone.
LEMMA KeptBytes ==
    ASSUME Rest, NEW fl
    PROVE  Kept(fl) \in [Frames -> [Offsets -> Nat]]
BY DEF Kept, Rest, Unwritten, Junk

LEMMA ExecKeeps ==
    ASSUME PagesInv, NEW p \in Pids, NEW prog \in Programs, Exec(p, prog)
    PROVE  Core'
<1> DEFINE fl == Released(Released(flag, page[p]), tab[p])
           tn == [tab EXCEPT ![p] = NoTables]
           mn == [page EXCEPT ![p] = NoPages]
           t == WithTables(fl, NoTables, Stack)
           m == WithPages(fl, NoTables, NoPages, Stack)
<1>1. Counted(flag, tab, page, ktab) /\ Rest /\ p \in live
  BY InvParts DEF Exec
<1>2. Counted(fl, tn, mn, ktab)
  BY <1>1, Shrunk
<1>3. 2 <= Cardinality(Free(fl))
  BY <1>1, StackFreed
<1>4. tab \in [Pids -> Rows(Pde)] /\ page \in [Pids -> Rows(VPages)]
  BY <1>1 DEF Counted
<1>5. /\ tab' = [tab EXCEPT ![p] = t] /\ page' = [page EXCEPT ![p] = m] /\ ktab' = ktab
      /\ flag' = Taken(fl, Need(NoTables, Stack)) /\ mem' = Kept(fl)
  BY DEF Exec
<1>6. live' = live /\ started' = started /\ halt' = halt /\ todo' = [pid |-> p, rest |-> prog]
  BY DEF Exec
<1> HIDE DEF fl, t, m
<1>7. tn[p] = NoTables /\ mn[p] = NoPages /\ [tn EXCEPT ![p] = t] = [tab EXCEPT ![p] = t]
      /\ [mn EXCEPT ![p] = m] = [page EXCEPT ![p] = m]
  BY <1>4
<1> HIDE DEF tn, mn
<1>8. /\ Counted(Taken(fl, Need(NoTables, Stack)), [tn EXCEPT ![p] = t], [mn EXCEPT ![p] = m], ktab)
      /\ t[StackPage \div NPte] # None /\ m[StackPage] # None
  BY <1>2, <1>3, <1>7, NewProgram DEF t, m
<1>9. Counted(flag', tab', page', ktab')
  BY <1>5, <1>7, <1>8
<1>10. OnlyTheLiving' /\ StackMapped'
  <2>1. \A q \in Pids : q # p => tab'[q] = tab[q] /\ page'[q] = page[q]
    BY <1>4, <1>5
  <2>2. tab'[p] = t /\ page'[p] = m
    BY <1>4, <1>5
  <2> QED
    BY <1>1, <1>5, <1>6, <1>8, <2>1, <2>2 DEF Rest, OnlyTheLiving, StackMapped
<1>11. mem' \in [Frames -> [Offsets -> Nat]]
  BY <1>1, <1>5, KeptBytes
<1>12. prog \in Seq(Segments)
  BY ProgramSegments
<1>13. Rest'
  BY <1>1, <1>6, <1>10, <1>11, <1>12 DEF Rest
<1> QED
  BY <1>9, <1>13 DEF Core

LEMMA ExitKeeps ==
    ASSUME PagesInv, NEW p \in Pids, Exit(p)
    PROVE  Core'
<1> DEFINE fl == Released(Released(flag, page[p]), tab[p])
<1>1. Counted(flag, tab, page, ktab) /\ Rest /\ p \in live
  BY InvParts DEF Exit
<1>2. Counted(fl, [tab EXCEPT ![p] = NoTables], [page EXCEPT ![p] = NoPages], ktab)
  BY <1>1, Shrunk
<1>3. Counted(Released(fl, ktab[p]), [tab EXCEPT ![p] = NoTables], [page EXCEPT ![p] = NoPages],
              [ktab EXCEPT ![p] = NoKernel])
  BY <1>2, KernelForgotten
<1>4. /\ flag' = Released(fl, ktab[p]) /\ mem' = Kept(ExitPage(p))
      /\ tab' = [tab EXCEPT ![p] = NoTables] /\ page' = [page EXCEPT ![p] = NoPages]
      /\ ktab' = [ktab EXCEPT ![p] = NoKernel]
  BY DEF Exit, ExitPage
<1>5. live' = live \ {p} /\ started' = started /\ halt' = halt /\ todo' = Nothing
  BY DEF Exit
<1>6. Counted(flag', tab', page', ktab')
  BY <1>3, <1>4
<1>7. tab \in [Pids -> Rows(Pde)] /\ page \in [Pids -> Rows(VPages)] /\ ktab \in [Pids -> Rows(Kde)]
  BY <1>1 DEF Counted
<1>8. OnlyTheLiving' /\ StackMapped'
  BY <1>1, <1>4, <1>5, <1>7 DEF Rest, OnlyTheLiving, StackMapped
<1>9. mem' \in [Frames -> [Offsets -> Nat]]
  BY <1>1, <1>4, KeptBytes
<1>10. Nothing \in [pid : live' \cup {None}, rest : Seq(Segments)]
  BY DEF Nothing
<1>11. Rest'
  BY <1>1, <1>5, <1>8, <1>9, <1>10 DEF Rest
<1> QED
  BY <1>6, <1>11 DEF Core

\* What is copied are bytes.
LEMMA CopiedBytes ==
    ASSUME Rest, NEW pg, NEW va, NEW bytes, \A k \in 1 .. Len(bytes) : bytes[k] \in Nat
    PROVE  Copied(pg, va, bytes) \in [Frames -> [Offsets -> Nat]]
<1> DEFINE at[k \in 1 .. Len(bytes)] == IF k = 1 THEN Place(va) ELSE NextByte(at[k - 1])
           here(f, o) == {k \in 1 .. Len(bytes) :
                            at[k].pa = o /\ pg[at[k].pde * NPte + at[k].pte] = f}
           new == [f \in Frames |-> [o \in Offsets |->
                     IF here(f, o) = {} THEN mem[f][o] ELSE bytes[CHOOSE k \in here(f, o) : TRUE]]]
<1>1. Copied(pg, va, bytes) = new
  BY DEF Copied
<1>2. \A f, o : here(f, o) \subseteq 1 .. Len(bytes)
  OBVIOUS
<1> HIDE DEF here, at
<1>3. mem \in [Frames -> [Offsets -> Nat]]
  BY DEF Rest
<1>4. \A f \in Frames, o \in Offsets :
         (IF here(f, o) = {} THEN mem[f][o] ELSE bytes[CHOOSE k \in here(f, o) : TRUE]) \in Nat
  BY <1>2, <1>3
<1>5. new \in [Frames -> [Offsets -> Nat]]
  BY <1>4
<1> QED
  BY <1>1, <1>5

LEMMA LoadKeeps ==
    ASSUME PagesInv, NEW p \in Pids, Load(p)
    PROVE  Core'
<1> DEFINE s == Head(todo.rest)
           vs == SegmentPages(s)
           A == NewTables(tab[p], vs)
           t == Put(Give(flag, A, 0), tab[p])
           m == Put(Give(flag, vs, Cardinality(A)), page[p])
<1>1. Counted(flag, tab, page, ktab) /\ Rest
  BY InvParts
<1>2. todo \in [pid : live \cup {None}, rest : Seq(Segments)] /\ todo.pid = p /\ todo.rest # <<>>
  BY <1>1 DEF Load, Rest
<1>3. p \in live
  <2>1. p # None
    BY GeometryAssumption DEF Pids, None
  <2> QED
    BY <1>2, <2>1
<1>4. tab \in [Pids -> Rows(Pde)] /\ page \in [Pids -> Rows(VPages)]
  BY <1>1 DEF Counted
<1>5. ~Overlaps(p, vs) /\ Fits(Need(tab[p], vs))
  BY DEF Load
<1>6. vs \in SUBSET VPages /\ \A v \in vs : page[p][v] = None
  BY <1>5 DEF Overlaps
<1>7. A \in SUBSET Pde /\ \A d \in A : tab[p][d] = None
  BY DEF NewTables
<1>8. Need(tab[p], vs) = Cardinality(A) + Cardinality(vs)
  BY DEF Need
<1>9. /\ tab' = [tab EXCEPT ![p] = t] /\ page' = [page EXCEPT ![p] = m] /\ ktab' = ktab
      /\ flag' = Taken(flag, Cardinality(A) + Cardinality(vs))
      /\ mem' = Copied(page'[p], s.va, FileBytes(s))
  BY <1>4, <1>8 DEF Load, WithTables, WithPages
<1>10. /\ live' = live /\ started' = started /\ halt' = halt
       /\ todo' = [todo EXCEPT !.rest = Tail(@)]
  BY DEF Load
<1>11. s \in Segment /\ Tail(todo.rest) \in Seq(Segments)
  <2>1. s \in Segments /\ Tail(todo.rest) \in Seq(Segments)
    BY <1>2
  <2> QED
    BY <2>1, ProgramSegments
<1> HIDE DEF s, vs, A, t, m
<1>12. Cardinality(A) + Cardinality(vs) <= Cardinality(Free(flag))
       /\ Cardinality(A) \in Nat /\ Cardinality(vs) \in Nat
  <2>1. IsFiniteSet(A) /\ IsFiniteSet(vs)
    BY <1>6, <1>7, FiniteThings, FS_Subset
  <2>2. Cardinality(A) \in Nat /\ Cardinality(vs) \in Nat /\ Cardinality(Free(flag)) \in Nat
    BY <2>1, FS_CardinalityType, FreeFinite
  <2>3. Cardinality(Free(flag)) >= Cardinality(A) + Cardinality(vs)
    BY <1>5, <1>8 DEF Fits
  <2> QED
    BY <2>2, <2>3
<1>13. Counted(Taken(flag, Cardinality(A) + Cardinality(vs)),
               [tab EXCEPT ![p] = Put(Give(flag, A, 0), tab[p])],
               [page EXCEPT ![p] = Put(Give(flag, vs, Cardinality(A)), page[p])], ktab)
  BY <1>1, <1>6, <1>7, <1>12, Grown
<1>14. Counted(flag', tab', page', ktab')
  BY <1>9, <1>13 DEF t, m
<1>15. Completed(Pde, A, tab[p], t) /\ Completed(VPages, vs, page[p], m)
  <2> DEFINE oldt == tab[p]
             oldm == page[p]
  <2>1. oldt \in Rows(Pde) /\ oldm \in Rows(VPages)
    BY <1>4
  <2>2. (\A d \in A : oldt[d] = None) /\ \A v \in vs : oldm[v] = None
    BY <1>6, <1>7
  <2>3. 0 + Cardinality(A) <= Cardinality(Free(flag)) /\ 0 \in Nat
    BY <1>12, FreeFinite
  <2> HIDE DEF oldt, oldm
  <2>4. Completed(Pde, A, oldt, Put(Give(flag, A, 0), oldt))
    BY <1>7, <2>1, <2>2, <2>3, FiniteThings, GivenPresent
  <2>5. Completed(VPages, vs, oldm, Put(Give(flag, vs, Cardinality(A)), oldm))
    BY <1>6, <1>12, <2>1, <2>2, FiniteThings, GivenPresent
  <2> QED
    BY <2>4, <2>5 DEF oldt, oldm, t, m
<1>16. OnlyTheLiving' /\ StackMapped'
  <2>1. \A q \in Pids : q # p => tab'[q] = tab[q] /\ page'[q] = page[q]
    BY <1>4, <1>9
  <2>2. tab'[p] = t /\ page'[p] = m
    BY <1>4, <1>9
  <2>3. t[StackPage \div NPte] # None /\ m[StackPage] # None
    BY <1>1, <1>3, <1>15, StackIsAPage DEF Completed, Rest, StackMapped
  <2> QED
    BY <1>1, <1>3, <1>9, <1>10, <2>1, <2>2, <2>3 DEF Rest, OnlyTheLiving, StackMapped
<1>17. mem' \in [Frames -> [Offsets -> Nat]]
  <2> DEFINE bytes == FileBytes(s)
  <2>1. s.filesz \in Nat /\ s.off \in Nat
    BY <1>11 DEF Segment
  <2>2. bytes \in Seq(Nat)
    BY <2>1 DEF FileBytes
  <2> HIDE DEF bytes
  <2>3. \A k \in 1 .. Len(bytes) : bytes[k] \in Nat
    BY <2>2
  <2>4. Copied(page'[p], s.va, bytes) \in [Frames -> [Offsets -> Nat]]
    BY <1>1, <2>3, CopiedBytes
  <2> QED
    BY <1>9, <2>4 DEF bytes
<1>18. todo' \in [pid : live \cup {None}, rest : Seq(Segments)]
  BY <1>2, <1>10, <1>11
<1>19. Rest'
  BY <1>1, <1>10, <1>16, <1>17, <1>18 DEF Rest
<1> QED
  BY <1>14, <1>19 DEF Core

\* The pages and tables of user space are copied, those of kernel space are
\* shared: a child starts with as much as its parent has.
LEMMA ForkKeeps ==
    ASSUME PagesInv, NEW p \in Pids, NEW q \in Pids, Fork(p, q)
    PROVE  Core'
<1> DEFINE A == Present(tab[p])
           B == Present(page[p])
           t == Put(Give(flag, A, 0), NoTables)
           m == Put(Give(flag, B, Cardinality(A)), NoPages)
           tn == [tab EXCEPT ![q] = t]
           mn == [page EXCEPT ![q] = m]
           fl == Taken(flag, Cardinality(A) + Cardinality(B))
<1>1. Counted(flag, tab, page, ktab) /\ Rest /\ p \in live /\ q \notin live
  BY InvParts DEF Fork, IsEmptyPCB
<1>2. tab \in [Pids -> Rows(Pde)] /\ page \in [Pids -> Rows(VPages)] /\ ktab \in [Pids -> Rows(Kde)]
  BY <1>1 DEF Counted
<1>3. tab[q] = NoTables /\ page[q] = NoPages /\ ktab[q] = NoKernel
  BY <1>1 DEF Rest, OnlyTheLiving
<1>4. A \in SUBSET Pde /\ B \in SUBSET VPages
  BY <1>2 DEF Present, Rows
<1>5. CopyNeed(p) = Cardinality(A) + Cardinality(B)
  BY DEF CopyNeed
<1>6. /\ tab' = tn /\ page' = mn
      /\ ktab' = [ktab EXCEPT ![q] = ktab[p]]
      /\ flag' = Shared(fl, ktab[p]) /\ mem' = CopiedPages(page[p], page'[q])
  BY <1>5 DEF Fork, CopyPage
<1>7. live' = live \cup {q} /\ todo' = todo /\ started' = started /\ halt' = halt
  BY DEF Fork
<1>8. Cardinality(A) + Cardinality(B) <= Cardinality(Free(flag))
      /\ Cardinality(A) \in Nat /\ Cardinality(B) \in Nat
  <2> HIDE DEF A, B
  <2>1. IsFiniteSet(A) /\ IsFiniteSet(B)
    BY <1>4, FiniteThings, FS_Subset
  <2>2. Cardinality(A) \in Nat /\ Cardinality(B) \in Nat /\ Cardinality(Free(flag)) \in Nat
    BY <2>1, FS_CardinalityType, FreeFinite
  <2>3. Cardinality(Free(flag)) >= CopyNeed(p)
    BY DEF Fork, Fits
  <2> QED
    BY <1>5, <2>2, <2>3
<1> HIDE DEF A, B
<1>9. (\A d \in A : NoTables[d] = None) /\ \A v \in B : NoPages[v] = None
  BY <1>4 DEF NoTables, NoPages
<1>10. Counted(fl, tn, mn, ktab)
  <2>1. (\A d \in A : tab[q][d] = None) /\ \A v \in B : page[q][v] = None
    BY <1>3, <1>9
  <2>2. Counted(Taken(flag, Cardinality(A) + Cardinality(B)),
                [tab EXCEPT ![q] = Put(Give(flag, A, 0), tab[q])],
                [page EXCEPT ![q] = Put(Give(flag, B, Cardinality(A)), page[q])], ktab)
    BY <1>1, <1>4, <1>8, <2>1, Grown
  <2> QED
    BY <1>3, <2>2
<1>11. Completed(Pde, A, NoTables, t) /\ Completed(VPages, B, NoPages, m)
  <2>1. 0 + Cardinality(A) <= Cardinality(Free(flag)) /\ 0 \in Nat
    BY <1>8, FreeFinite
  <2>2. Completed(Pde, A, NoTables, Put(Give(flag, A, 0), NoTables))
    BY <1>4, <1>9, <2>1, FiniteThings, EmptyRows, GivenPresent
  <2>3. Completed(VPages, B, NoPages, Put(Give(flag, B, Cardinality(A)), NoPages))
    BY <1>4, <1>8, <1>9, FiniteThings, EmptyRows, GivenPresent
  <2> QED
    BY <2>2, <2>3
<1>12. Counted(flag', tab', page', ktab')
  <2> HIDE DEF fl, tn, mn
  <2>1. Counted(Shared(fl, ktab[p]), tn, mn, [ktab EXCEPT ![q] = ktab[p]])
    BY <1>3, <1>10, KernelShared
  <2> QED
    BY <1>6, <2>1
<1> HIDE DEF t, m, fl
<1>13. \A r \in Pids : r # q => tab'[r] = tab[r] /\ page'[r] = page[r] /\ ktab'[r] = ktab[r]
  BY <1>2, <1>6
<1>14. tab'[q] = t /\ page'[q] = m
  BY <1>2, <1>6
<1> HIDE DEF tn, mn
<1>15. OnlyTheLiving' /\ StackMapped'
  <2>1. StackPage \in B /\ StackPage \div NPte \in A
    <3>1. page[p][StackPage] # None /\ tab[p][StackPage \div NPte] # None
      BY <1>1 DEF Rest, StackMapped
    <3>2. DOMAIN page[p] = VPages /\ DOMAIN tab[p] = Pde
      BY <1>2 DEF Rows
    <3> QED
      BY <3>1, <3>2, StackIsAPage DEF A, B, Present
  <2>2. t[StackPage \div NPte] # None /\ m[StackPage] # None
    BY <1>11, <2>1, StackIsAPage DEF Completed
  <2> QED
    BY <1>1, <1>7, <1>13, <1>14, <2>2 DEF Rest, OnlyTheLiving, StackMapped
<1>16. mem' \in [Frames -> [Offsets -> Nat]]
  <2>1. Present(m) = B
    <3>1. DOMAIN m = VPages /\ \A v \in VPages : m[v] # None <=> (v \in B \/ NoPages[v] # None)
      BY <1>11 DEF Completed, Rows
    <3> QED
      BY <1>4, <3>1 DEF Present, NoPages
  <2>2. \A v \in B : page[p][v] \in Frames
    <3>1. \A v \in VPages : page[p][v] \in Frames \cup {None}
      BY <1>2 DEF Rows
    <3>2. \A v \in B : page[p][v] # None
      BY DEF B, Present
    <3> QED
      BY <1>4, <3>1, <3>2
  <2>3. mem \in [Frames -> [Offsets -> Nat]]
    BY <1>1 DEF Rest
  <2>4. mem' = [f \in Frames |-> IF \E v \in B : m[v] = f
                                 THEN mem[page[p][CHOOSE v \in B : m[v] = f]] ELSE mem[f]]
    BY <1>6, <1>14, <2>1 DEF CopiedPages
  <2> QED
    BY <2>2, <2>3, <2>4
<1>17. Rest'
  <2>1. todo' \in [pid : live' \cup {None}, rest : Seq(Segments)] /\ (~started' => live' = {})
    BY <1>1, <1>7 DEF Rest
  <2> QED
    BY <1>1, <1>7, <1>15, <1>16, <2>1 DEF Rest
<1> QED
  BY <1>12, <1>17 DEF Core

\* Requests that leave the counts, the directories and the tables alone.
LEMMA SameCounts ==
    ASSUME PagesInv, Rest', UNCHANGED <<flag, tab, page, ktab>>
    PROVE  Core'
BY InvParts DEF Core

LEMMA PanicKeeps ==
    ASSUME PagesInv, NEW why \in {"full", "overlap", "processes"}, Panic(why)
    PROVE  Core'
<1>1. UNCHANGED <<flag, tab, page, ktab, mem, live, todo, started>> /\ halt' = why
  BY DEF Panic, memory, program
<1>2. Rest
  BY InvParts
<1>3. OnlyTheLiving' /\ StackMapped'
  BY <1>1, <1>2 DEF Rest, OnlyTheLiving, StackMapped
<1>4. Rest'
  BY <1>1, <1>2, <1>3 DEF Rest
<1> QED
  BY <1>1, <1>4, SameCounts

LEMMA LoadedKeeps ==
    ASSUME PagesInv, Loaded
    PROVE  Core'
<1>1. UNCHANGED <<flag, tab, page, ktab, mem, live, started, halt>> /\ todo' = Nothing
  BY DEF Loaded, memory
<1>2. Rest
  BY InvParts
<1>3. OnlyTheLiving' /\ StackMapped'
  BY <1>1, <1>2 DEF Rest, OnlyTheLiving, StackMapped
<1>4. Nothing \in [pid : live' \cup {None}, rest : Seq(Segments)]
  BY DEF Nothing
<1>5. Rest'
  BY <1>1, <1>2, <1>3, <1>4 DEF Rest
<1> QED
  BY <1>1, <1>5, SameCounts

LEMMA StoreKeeps ==
    ASSUME PagesInv, NEW p \in Pids, Store(p)
    PROVE  Core'
<1>1. UNCHANGED <<flag, tab, page, ktab, live, todo, started, halt>>
  BY DEF Store
<1>2. PICK f, o : mem' = [mem EXCEPT ![f][o] = Stored]
  BY DEF Store
<1>3. Rest
  BY InvParts
<1>4. mem' \in [Frames -> [Offsets -> Nat]]
  BY <1>2, <1>3 DEF Rest, Stored
<1>5. OnlyTheLiving' /\ StackMapped'
  BY <1>1, <1>3 DEF Rest, OnlyTheLiving, StackMapped
<1>6. Rest'
  BY <1>1, <1>3, <1>4, <1>5 DEF Rest
<1> QED
  BY <1>1, <1>6, SameCounts

LEMMA NextCore == PagesInv /\ [Next]_vars => Core'
<1> SUFFICES ASSUME PagesInv, [Next]_vars PROVE Core'
  OBVIOUS
<1>1. CASE UNCHANGED vars
  <2>1. UNCHANGED <<flag, tab, page, ktab, mem, live, todo, started, halt>>
    BY <1>1 DEF vars, memory, program
  <2>2. Rest
    BY InvParts
  <2>3. OnlyTheLiving' /\ StackMapped'
    BY <2>1, <2>2 DEF Rest, OnlyTheLiving, StackMapped
  <2>4. Rest'
    BY <2>1, <2>2, <2>3 DEF Rest
  <2> QED
    BY <2>1, <2>4, SameCounts
<1>2. CASE Stopped
  BY <1>1, <1>2 DEF Stopped
<1>3. CASE Loaded
  BY <1>3, LoadedKeeps
<1>4. ASSUME NEW p \in Pids, Load(p) PROVE Core'
  BY <1>4, LoadKeeps
<1>5. ASSUME NEW p \in Pids, LoadPanics(p) PROVE Core'
  <2>1. Panic("overlap") \/ Panic("full")
    BY <1>5 DEF LoadPanics
  <2> QED
    BY <2>1, PanicKeeps
<1>6. ASSUME NEW p \in Pids, ForkPanics(p) PROVE Core'
  <2>1. Panic("processes") \/ Panic("full")
    BY <1>6 DEF ForkPanics
  <2> QED
    BY <2>1, PanicKeeps
<1>7. ASSUME NEW p \in Pids, Exit(p) PROVE Core'
  BY <1>7, ExitKeeps
<1>8. ASSUME NEW p \in Pids, Store(p) PROVE Core'
  BY <1>8, StoreKeeps
<1>9. ASSUME NEW p \in Pids, NEW prog \in Programs, Create(p, prog) PROVE Core'
  BY <1>9, CreateKeeps
<1>10. ASSUME NEW p \in Pids, NEW prog \in Programs, Exec(p, prog) PROVE Core'
  BY <1>10, ExecKeeps
<1>11. ASSUME NEW p \in Pids, NEW q \in Pids, Fork(p, q) PROVE Core'
  BY <1>11, ForkKeeps
<1> QED
  BY <1>1, <1>2, <1>3, <1>4, <1>5, <1>6, <1>7, <1>8, <1>9, <1>10, <1>11 DEF Next, Request

\* What programs are loaded from are segments, and what they have are bytes.
LEMMA LoadedBytes ==
    ASSUME NEW s \in Segment, NEW v, IsView(v)
    PROVE  IsView(Put(Loads(s), v))
<1> DEFINE D == s.va .. s.va + s.filesz - 1
           w == Put(Loads(s), v)
<1>1. s.va \in Nat /\ s.filesz \in Nat /\ s.off \in Nat
  <2>1. NPde * NPte * PageSize \in Nat
    BY GeometryAssumption
  <2> QED
    BY <2>1 DEF Segment
<1>2. DOMAIN Loads(s) = D /\ \A a \in D : Loads(s)[a] \in Nat
  BY <1>1 DEF Loads
<1>3. D \subseteq Nat
  BY <1>1
<1> HIDE DEF D
<1>4. DOMAIN w = D \cup DOMAIN v /\ \A a \in DOMAIN w : w[a] = IF a \in D THEN Loads(s)[a] ELSE v[a]
  BY <1>2 DEF Put
<1>5. w = [a \in DOMAIN w |-> w[a]]
  BY DEF Put
<1> HIDE DEF w
<1>6. \A a \in DOMAIN w : w[a] \in Nat
  BY <1>2, <1>4 DEF IsView
<1>7. DOMAIN w \subseteq Nat
  BY <1>3, <1>4 DEF IsView
<1>8. IsView(w)
  BY <1>5, <1>6, <1>7 DEF IsView
<1> QED
  BY <1>8 DEF w

LEMMA NextViews == PagesInv /\ [Next]_vars => Views'
<1> SUFFICES ASSUME PagesInv, [Next]_vars PROVE Views'
  OBVIOUS
<1>1. Views /\ Rest
  BY InvParts
<1>2. IsView(NoBytes)
  BY DEF IsView, NoBytes
<1>3. CASE UNCHANGED <<image, view>>
  BY <1>1, <1>3 DEF Views
<1>4. ASSUME NEW p \in Pids, Load(p) PROVE Views'
  <2> DEFINE s == Head(todo.rest)
             w == Put(Loads(s), view[p])
  <2>1. s \in Segments
    BY <1>1, <1>4 DEF Rest, Load
  <2>2. image' = [image EXCEPT ![p] = @ \cup {s}] /\ view' = [view EXCEPT ![p] = w]
    BY <1>4 DEF Load
  <2>3. IsView(w)
    BY <1>1, <2>1, ProgramSegments, LoadedBytes DEF Views
  <2> HIDE DEF s, w
  <2> QED
    BY <1>1, <2>1, <2>2, <2>3 DEF Views
<1>5. ASSUME NEW p \in Pids,
             image' = [image EXCEPT ![p] = {}], view' = [view EXCEPT ![p] = NoBytes]
      PROVE  Views'
  BY <1>1, <1>2, <1>5 DEF Views
<1>6. ASSUME NEW p \in Pids, NEW q \in Pids, Fork(p, q) PROVE Views'
  <2>1. image' = [image EXCEPT ![q] = image[p]] /\ view' = [view EXCEPT ![q] = view[p]]
    BY <1>6 DEF Fork
  <2> QED
    BY <1>1, <2>1 DEF Views
<1>7. ASSUME NEW p \in Pids, Store(p) PROVE Views'
  <2>1. PICK a : image' = image /\ view' = [view EXCEPT ![p][a] = Stored]
    BY <1>7 DEF Store
  <2>2. IsView([view[p] EXCEPT ![a] = Stored])
    BY <1>1 DEF Views, IsView, Stored
  <2> QED
    BY <1>1, <2>1, <2>2 DEF Views
<1>8. CASE Loaded
  BY <1>3, <1>8 DEF Loaded
<1>9. ASSUME NEW p \in Pids, LoadPanics(p) \/ ForkPanics(p) PROVE Views'
  <2>1. UNCHANGED <<image, view>>
    BY <1>9 DEF LoadPanics, ForkPanics, Panic, program
  <2> QED
    BY <1>3, <2>1
<1>10. ASSUME NEW p \in Pids, Exit(p) PROVE Views'
  BY <1>5, <1>10 DEF Exit
<1>11. ASSUME NEW p \in Pids, NEW prog \in Programs, Create(p, prog) \/ Exec(p, prog) PROVE Views'
  BY <1>5, <1>11 DEF Create, Exec
<1>12. CASE UNCHANGED vars
  BY <1>3, <1>12 DEF vars, program
<1> QED
  BY <1>4, <1>6, <1>7, <1>8, <1>9, <1>10, <1>11, <1>12 DEF Next, Request, Stopped

LEMMA NextKeeps == PagesInv /\ [Next]_vars => PagesInv'
  BY NextCore, NextViews, InvPartsNext

(***************************************************************************)
(* Over any sequence of requests, with however many processes, pages and   *)
(* page tables and whatever programs: the inductive invariant.             *)
(***************************************************************************)
THEOREM PagesInvariant == Spec => []PagesInv
  BY InitCounted, NextKeeps, PTL DEF Spec

(***************************************************************************)
(* The counts stay within the eight bits they have, and what the tables of *)
(* a process hold are pages.                                               *)
(***************************************************************************)
THEOREM PagesTyped == Spec => []TypeOK
<1>1. PagesInv => TypeOK
  BY DEF PagesInv
<1> QED
  BY <1>1, PagesInvariant, PTL

(***************************************************************************)
(* Ppage_flag counts the references to a page exactly: allocate_memory     *)
(* hands out no page that a directory or table names, and no page is lost. *)
(***************************************************************************)
THEOREM CountsAreExact == Spec => []CountsReferences
<1>1. PagesInv => CountsReferences
  BY DEF PagesInv
<1> QED
  BY <1>1, PagesInvariant, PTL

(***************************************************************************)
(* A page or page table of user space belongs to one process, which names  *)
(* it once, also after forks.                                              *)
(***************************************************************************)
THEOREM PagesArePrivate == Spec => []UserPagesPrivate
<1>1. PagesInv => UserPagesPrivate
  <2> SUFFICES ASSUME PagesInv, NEW p \in Pids, NEW f \in Frames,
                      Entries(tab[p], f) + Entries(page[p], f) > 0
               PROVE  References(f) = 1
    BY DEF UserPagesPrivate
  <2>1. Counted(flag, tab, page, ktab)
    BY InvParts
  <2>2. /\ Uses(tab, Pde, f) \in Nat /\ Uses(page, VPages, f) \in Nat
        /\ Entries(tab[p], f) \in 0 .. Uses(tab, Pde, f)
        /\ Entries(page[p], f) \in 0 .. Uses(page, VPages, f)
    BY <2>1, UsesTyped DEF Counted
  <2>3. Uses(tab, Pde, f) + Uses(page, VPages, f) > 0
    BY <2>2
  <2> QED
    BY <2>3 DEF PagesInv, UserPagesOnce
<1> QED
  BY <1>1, PagesInvariant, PTL

(***************************************************************************)
(* copy_from_kernel's walk: from the place of an address it comes to the   *)
(* place of the next one, over the borders of pages and page tables.       *)
(***************************************************************************)
LEMMA Nested ==
    ASSUME NEW S \in Nat \ {0}, NEW T \in Nat \ {0}, NEW x \in Nat
    PROVE  x \div (T * S) = (x \div S) \div T
<1> DEFINE q == x \div S
           r == x % S
           u == q \div T
           w == q % T
<1>1. q \in Nat /\ r \in 0 .. S - 1 /\ x = q * S + r
  BY Quotient
<1> HIDE DEF q, r
<1>2. u \in Nat /\ w \in 0 .. T - 1 /\ q = u * T + w
  BY <1>1, Quotient
<1> HIDE DEF u, w
<1>3. T * S \in Nat \ {0}
  OBVIOUS
<1>4. w * S \in Nat /\ w * S + S <= T * S
  BY <1>2, Scaled
<1>5. w * S + r \in 0 .. T * S - 1
  BY <1>1, <1>3, <1>4
<1>6. x = u * (T * S) + (w * S + r)
  BY <1>1, <1>2
<1>7. x \div (T * S) = u
  BY <1>2, <1>3, <1>5, <1>6, Division
<1> QED
  BY <1>7 DEF u, q

LEMMA PlaceOf ==
    ASSUME NEW x \in Nat
    PROVE  /\ Place(x) = [pde |-> (x \div PageSize) \div NPte,
                          pte |-> (x \div PageSize) % NPte, pa |-> x % PageSize]
           /\ Place(x).pde * NPte + Place(x).pte = x \div PageSize
           /\ Place(x).pa = x % PageSize
<1>1. NPte \in Nat \ {0} /\ PageSize \in Nat \ {0}
  BY GeometryAssumption
<1>2. x \div (NPte * PageSize) = (x \div PageSize) \div NPte
  BY <1>1, Nested
<1>3. x \div PageSize \in Nat
  BY <1>1, Quotient
<1>4. x \div PageSize = ((x \div PageSize) \div NPte) * NPte + ((x \div PageSize) % NPte)
  BY <1>1, <1>3, Quotient
<1> QED
  BY <1>2, <1>4 DEF Place

LEMMA NextPlace ==
    ASSUME NEW x \in Nat
    PROVE  NextByte(Place(x)) = Place(x + 1)
<1> DEFINE S == PageSize
           T == NPte
           q == x \div S
           r == x % S
           u == q \div T
           w == q % T
<1>1. T \in Nat \ {0} /\ S \in Nat \ {0}
  BY GeometryAssumption
<1> HIDE DEF S, T
<1>2. q \in Nat /\ r \in 0 .. S - 1 /\ x = q * S + r
  BY <1>1, Quotient
<1>3. Place(x) = [pde |-> u, pte |-> w, pa |-> r]
  BY PlaceOf DEF S, T
<1>4. Place(x + 1) = [pde |-> ((x + 1) \div S) \div T, pte |-> ((x + 1) \div S) % T,
                      pa |-> (x + 1) % S]
  BY PlaceOf DEF S, T
<1> HIDE DEF q, r
<1>5. u \in Nat /\ w \in 0 .. T - 1 /\ q = u * T + w
  BY <1>1, <1>2, Quotient
<1> HIDE DEF u, w
<1>6. CASE r + 1 < S
  <2>1. (x + 1) \div S = q /\ (x + 1) % S = r + 1
    <3>1. r + 1 \in 0 .. S - 1 /\ q * S + (r + 1) = x + 1
      BY <1>1, <1>2, <1>6
    <3> QED
      BY <1>1, <1>2, <3>1, Division
  <2>2. Place(x + 1) = [pde |-> u, pte |-> w, pa |-> r + 1]
    BY <1>4, <2>1 DEF u, w
  <2> QED
    BY <1>3, <1>6, <2>2 DEF NextByte, S
<1>7. CASE ~(r + 1 < S)
  <2>1. (x + 1) \div S = q + 1 /\ (x + 1) % S = 0
    <3>1. r + 1 = S /\ 0 \in 0 .. S - 1 /\ (q + 1) * S + 0 = q * S + S
      BY <1>1, <1>2, <1>7
    <3>2. (q + 1) * S + 0 = x + 1 /\ q + 1 \in Nat
      BY <1>1, <1>2, <3>1
    <3> DEFINE z == q + 1
    <3> HIDE DEF z
    <3>3. z \in Nat /\ (z * S + 0) \div S = z /\ (z * S + 0) % S = 0
      <4>1. z \in Nat
        BY <3>2 DEF z
      <4> QED
        BY <1>1, <3>1, <4>1, Division
    <3> QED
      BY <3>2, <3>3 DEF z
  <2>2. CASE w + 1 < T
    <3>1. (q + 1) \div T = u /\ (q + 1) % T = w + 1
      <4>1. w + 1 \in 0 .. T - 1 /\ u * T + (w + 1) = q + 1
        BY <1>1, <1>5, <2>2
      <4> QED
        BY <1>1, <1>5, <4>1, Division
    <3>2. Place(x + 1) = [pde |-> u, pte |-> w + 1, pa |-> 0]
      BY <1>4, <2>1, <3>1
    <3>3. NextByte(Place(x)) = [Place(x) EXCEPT !.pte = Place(x).pte + 1, !.pa = 0]
      BY <1>3, <1>7, <2>2 DEF NextByte, S, T
    <3> DEFINE at == [Place(x) EXCEPT !.pte = w + 1]
    <3>4. at = [pde |-> u, pte |-> w + 1, pa |-> r] /\ Place(x).pte = w
      BY <1>3
    <3>5. NextByte(Place(x)) = [at EXCEPT !.pa = 0]
      BY <3>3, <3>4
    <3> HIDE DEF at
    <3>6. [at EXCEPT !.pa = 0] = [pde |-> u, pte |-> w + 1, pa |-> 0]
      BY <3>4
    <3> QED
      BY <3>2, <3>5, <3>6
  <2>3. CASE ~(w + 1 < T)
    <3>1. (q + 1) \div T = u + 1 /\ (q + 1) % T = 0
      <4>1. w + 1 = T /\ 0 \in 0 .. T - 1 /\ (u + 1) * T + 0 = u * T + T
        BY <1>1, <1>5, <2>3
      <4>2. (u + 1) * T + 0 = q + 1 /\ u + 1 \in Nat
        BY <1>1, <1>5, <4>1
      <4>3. T \in Nat \ {0}
        BY <1>1
      <4>4. ((u + 1) * T + 0) \div T = u + 1 /\ ((u + 1) * T + 0) % T = 0
        BY ONLY <4>1, <4>2, <4>3, Division, Zenon
      <4> QED
        BY <4>2, <4>4
    <3>2. Place(x + 1) = [pde |-> u + 1, pte |-> 0, pa |-> 0]
      BY <1>4, <2>1, <3>1
    <3> QED
      BY <1>3, <1>7, <2>3, <3>2 DEF NextByte, S, T
  <2> QED
    BY <2>2, <2>3
<1> QED
  BY <1>6, <1>7

LEMMA Walked ==
    ASSUME NEW va \in Nat, NEW n \in Nat, NEW at,
           at = CHOOSE g : g = [k \in 1 .. n |-> IF k = 1 THEN Place(va) ELSE NextByte(g[k - 1])]
    PROVE  \A k \in 1 .. n : at[k] = Place(va + k - 1)
<1> DEFINE Eq(g) == g = [k \in 1 .. n |-> IF k = 1 THEN Place(va) ELSE NextByte(g[k - 1])]
           h == [k \in 1 .. n |-> Place(va + k - 1)]
<1>1. Eq(h)
  <2>1. ASSUME NEW k \in 1 .. n
        PROVE  Place(va + k - 1) = IF k = 1 THEN Place(va) ELSE NextByte(h[k - 1])
    <3>1. CASE k = 1
      BY <3>1
    <3>2. CASE k # 1
      <4>1. k - 1 \in 1 .. n /\ va + (k - 1) - 1 \in Nat
            /\ (va + (k - 1) - 1) + 1 = va + k - 1
        BY <3>2
      <4>2. h[k - 1] = Place(va + (k - 1) - 1)
        BY <4>1
      <4> HIDE DEF h
      <4> QED
        BY <3>2, <4>1, <4>2, NextPlace
    <3> QED
      BY <3>1, <3>2
  <2> QED
    BY <2>1
<1>2. Eq(at)
  BY <1>1
<1> DEFINE wrong == {k \in 1 .. n : at[k] # Place(va + k - 1)}
<1>3. ASSUME wrong # {} PROVE FALSE
  <2>1. wrong \subseteq Nat
    OBVIOUS
  <2>2. PICK k \in wrong : \A x \in wrong : k <= x
    BY <1>3, <2>1, Least
  <2>3. k \in 1 .. n /\ at[k] # Place(va + k - 1)
    OBVIOUS
  <2>4. at[k] = IF k = 1 THEN Place(va) ELSE NextByte(at[k - 1])
    BY <1>2, <2>3
  <2>5. k # 1
    BY <2>3, <2>4
  <2>6. k - 1 \in 1 .. n /\ ~(k <= k - 1)
    BY <2>3, <2>5
  <2>7. at[k - 1] = Place(va + (k - 1) - 1)
    BY <2>2, <2>6
  <2>8. va + (k - 1) - 1 \in Nat /\ (va + (k - 1) - 1) + 1 = va + k - 1
    BY <2>6
  <2> QED
    BY <2>3, <2>4, <2>5, <2>7, <2>8, NextPlace
<1> QED
  BY <1>3

\* What copy_from_kernel writes, if no page is mapped twice: each byte of
\* the range, and nothing else.
OnPages(pg, va, bytes) ==
    /\ \A v, w \in VPages : pg[v] = pg[w] /\ pg[v] # None => v = w
    /\ \A k \in 1 .. Len(bytes) : (va + k - 1) \div PageSize \in VPages

Writes(new, pg, va, bytes) ==
    /\ \A a \in Nat :
          a \div PageSize \in VPages /\ pg[a \div PageSize] \in Frames =>
          new[pg[a \div PageSize]][a % PageSize] =
             IF a \in va .. va + Len(bytes) - 1 THEN bytes[a - va + 1]
             ELSE mem[pg[a \div PageSize]][a % PageSize]
    /\ \A f \in Frames, o \in Offsets :
          (\A v \in VPages : pg[v] # f) => new[f][o] = mem[f][o]

LEMMA CopiedByte ==
    ASSUME NEW pg, NEW va \in Nat, NEW bytes \in Seq(Nat), OnPages(pg, va, bytes)
    PROVE  Writes(Copied(pg, va, bytes), pg, va, bytes)
<1> DEFINE n == Len(bytes)
           at[k \in 1 .. Len(bytes)] == IF k = 1 THEN Place(va) ELSE NextByte(at[k - 1])
           here(f, o) == {k \in 1 .. n : at[k].pa = o /\ pg[at[k].pde * NPte + at[k].pte] = f}
           new == Copied(pg, va, bytes)
           add(k) == va + k - 1
<1>0. /\ \A v, w \in VPages : pg[v] = pg[w] /\ pg[v] # None => v = w
      /\ \A k \in 1 .. n : add(k) \div PageSize \in VPages
  BY DEF OnPages
<1>1. \A f \in Frames, o \in Offsets :
         new[f][o] = IF here(f, o) = {} THEN mem[f][o] ELSE bytes[CHOOSE k \in here(f, o) : TRUE]
  BY DEF Copied
<1>2. n \in Nat /\ PageSize \in Nat \ {0}
  BY GeometryAssumption
<1>3. \A k \in 1 .. n : at[k] = Place(add(k))
  <2>1. at = CHOOSE g : g = [k \in 1 .. n |-> IF k = 1 THEN Place(va) ELSE NextByte(g[k - 1])]
    OBVIOUS
  <2> HIDE DEF at
  <2> QED
    BY <1>2, <2>1, Walked
<1> HIDE DEF new, at
<1>4. \A k \in 1 .. n : add(k) \in Nat
  BY <1>2
<1>5. \A k \in 1 .. n : /\ at[k].pa = add(k) % PageSize
                        /\ at[k].pde * NPte + at[k].pte = add(k) \div PageSize
                        /\ add(k) \div PageSize \in VPages
  <2> HIDE DEF add, n
  <2> QED
    BY <1>0, <1>3, <1>4, PlaceOf
<1> HIDE DEF add
<1>6. \A f, o : here(f, o) = {k \in 1 .. n : add(k) % PageSize = o /\ pg[add(k) \div PageSize] = f}
  BY <1>5
<1> HIDE DEF here, n
<1>7. ASSUME NEW a \in Nat, a \div PageSize \in VPages, pg[a \div PageSize] \in Frames
      PROVE  new[pg[a \div PageSize]][a % PageSize] =
                IF a \in va .. va + n - 1 THEN bytes[a - va + 1]
                ELSE mem[pg[a \div PageSize]][a % PageSize]
  <2> DEFINE v == a \div PageSize
             o == a % PageSize
             f == pg[v]
  <2>1. o \in Offsets /\ v \in VPages /\ f \in Frames /\ f # None
    BY <1>2, <1>7, Quotient, FiniteThings DEF Offsets
  <2>2. a = v * PageSize + o
    BY <1>2, Quotient
  <2>3. ASSUME NEW k \in 1 .. n
        PROVE  k \in here(f, o) <=> add(k) = a
    <3>1. k \in here(f, o) <=> add(k) % PageSize = o /\ pg[add(k) \div PageSize] = f
      BY <1>6
    <3>2. add(k) = (add(k) \div PageSize) * PageSize + (add(k) % PageSize)
      BY <1>2, <1>4, Quotient
    <3>3. ASSUME add(k) % PageSize = o, pg[add(k) \div PageSize] = f PROVE add(k) = a
      <4>1. add(k) \div PageSize = v
        BY <1>0, <1>5, <2>1, <3>3
      <4> HIDE DEF v, o
      <4> QED
        BY <2>2, <3>2, <3>3, <4>1
    <3> QED
      BY <3>1, <3>3
  <2> HIDE DEF v, o, f
  <2>4. new[f][o] = IF here(f, o) = {} THEN mem[f][o] ELSE bytes[CHOOSE k \in here(f, o) : TRUE]
    BY <1>1, <2>1
  <2>5. here(f, o) \subseteq 1 .. n
    BY <1>6
  <2>6. CASE a \in va .. va + n - 1
    <3>1. a - va + 1 \in 1 .. n /\ add(a - va + 1) = a
      BY <1>2, <2>6 DEF add
    <3>2. \A k \in 1 .. n : add(k) = a => k = a - va + 1
      BY <1>2 DEF add
    <3>3. here(f, o) = {a - va + 1}
      BY <2>3, <2>5, <3>1, <3>2
    <3> QED
      BY <2>4, <2>6, <3>3 DEF f, o, v
  <2>7. CASE a \notin va .. va + n - 1
    <3>1. \A k \in 1 .. n : add(k) \in va .. va + n - 1
      BY <1>2 DEF add
    <3>2. here(f, o) = {}
      BY <2>3, <2>5, <2>7, <3>1
    <3> QED
      BY <2>4, <2>7, <3>2 DEF f, o, v
  <2> QED
    BY <2>6, <2>7
<1>8. ASSUME NEW f \in Frames, NEW o \in Offsets, \A v \in VPages : pg[v] # f
      PROVE  new[f][o] = mem[f][o]
  <2>1. here(f, o) = {}
    BY <1>5, <1>6, <1>8
  <2> QED
    BY <1>1, <2>1
<1> QED
  BY <1>7, <1>8 DEF new, n, Writes

(***************************************************************************)
(* A page that a process has at some place is nowhere else.                *)
(***************************************************************************)
Distinct(pg) ==
    \A q, r \in Pids, v, w \in VPages :
       pg[q][v] = pg[r][w] /\ pg[q][v] # None => q = r /\ v = w

LEMMA PagesDistinct ==
    ASSUME NEW fl, NEW tb, NEW pg, NEW kt, Counted(fl, tb, pg, kt)
    PROVE  /\ Distinct(pg)
           /\ \A q \in Pids, v \in VPages : pg[q][v] # None => pg[q][v] \in Frames /\ fl[pg[q][v]] = 1
<1>1. /\ tb \in [Pids -> Rows(Pde)] /\ pg \in [Pids -> Rows(VPages)] /\ kt \in [Pids -> Rows(Kde)]
      /\ \A f \in Frames :
          /\ fl[f] = UsesOf(tb, pg, kt, f)
          /\ Uses(tb, Pde, f) + Uses(pg, VPages, f) > 0 => fl[f] = 1
  BY DEF Counted
<1>2. ASSUME NEW q \in Pids, NEW v \in VPages, pg[q][v] # None
      PROVE  /\ pg[q][v] \in Frames /\ fl[pg[q][v]] = 1
             /\ \A r \in Pids, w \in VPages : pg[r][w] = pg[q][v] => <<r, w>> = <<q, v>>
  <2> DEFINE f == pg[q][v]
             U == {x \in Pids \X VPages : pg[x[1]][x[2]] = f}
  <2>1. f \in Frames
    BY <1>1, <1>2 DEF Rows
  <2> HIDE DEF f
  <2>2. /\ Uses(tb, Pde, f) \in Nat /\ Uses(pg, VPages, f) \in Nat /\ Uses(kt, Kde, f) \in Nat
    BY <1>1, UsesTyped
  <2>3. Uses(pg, VPages, f) = Cardinality(U)
    BY DEF Uses
  <2>4. <<q, v>> \in U
    BY DEF f
  <2>5. IsFiniteSet(U)
    <3>1. IsFiniteSet(Pids \X VPages) /\ U \in SUBSET (Pids \X VPages)
      BY FiniteThings, FS_Product
    <3> HIDE DEF U
    <3> QED
      BY <3>1, FS_Subset
  <2>6. \A r \in Pids, w \in VPages : pg[r][w] = f => <<r, w>> \in U
    OBVIOUS
  <2> HIDE DEF U
  <2>7. Cardinality(U) # 0
    BY <2>4, <2>5, FS_EmptySet
  <2>8. fl[f] = 1 /\ Cardinality(U) = 1
    BY <1>1, <2>1, <2>2, <2>3, <2>7 DEF UsesOf
  <2>9. PICK x : U = {x}
    BY <2>5, <2>8, FS_Singleton
  <2> QED
    BY <2>1, <2>4, <2>6, <2>8, <2>9 DEF f
<1>3. Distinct(pg)
  <2> SUFFICES ASSUME NEW q \in Pids, NEW r \in Pids, NEW v \in VPages, NEW w \in VPages,
                      pg[q][v] = pg[r][w], pg[q][v] # None
               PROVE  q = r /\ v = w
    BY DEF Distinct
  <2>1. <<r, w>> = <<q, v>>
    BY <1>2
  <2> QED
    BY <2>1
<1> QED
  BY <1>2, <1>3
-----------------------------------------------------------------------------
(***************************************************************************)
(* MemoryIsOwn, request by request: for the process that a request is      *)
(* about, and for the others, whose pages it leaves alone.                 *)
(***************************************************************************)
OwnMemory(p) ==
    /\ page[p][StackPage] # None
    /\ \A s \in image[p] : \A a \in s.va .. s.va + s.memsz - 1 : Mapped(p, a)
    /\ \A a \in DOMAIN view[p] : Mapped(p, a) /\ ByteOf(p, a) = view[p][a]

LEMMA OwnParts ==
    /\ MemoryIsOwn <=> \A p \in live : OwnMemory(p)
    /\ MemoryIsOwn' <=> \A p \in live' : OwnMemory(p)'
  BY DEF MemoryIsOwn, OwnMemory

\* An address that a process has.
LEMMA HasAddress ==
    ASSUME PagesInv, NEW p \in Pids, NEW a, a \in DOMAIN view[p]
    PROVE  a \in Nat /\ a % PageSize \in Offsets /\ a \div PageSize \in Nat
<1>1. a \in Nat
  BY InvParts DEF Views, IsView
<1> QED
  BY <1>1, GeometryAssumption, Quotient DEF Offsets

LEMMA Untouched ==
    ASSUME PagesInv, NEW r \in Pids, OwnMemory(r),
           page'[r] = page[r], image'[r] = image[r], view'[r] = view[r],
           \A v \in VPages : page[r][v] # None =>
              \A o \in Offsets : mem'[page[r][v]][o] = mem[page[r][v]][o]
    PROVE  OwnMemory(r)'
<1>1. ASSUME NEW a, Mapped(r, a) PROVE Mapped(r, a)'
  BY <1>1 DEF Mapped
<1>2. ASSUME NEW a \in DOMAIN view[r] PROVE ByteOf(r, a)' = view[r][a]
  <2>1. a % PageSize \in Offsets
    BY HasAddress
  <2>2. Mapped(r, a) /\ ByteOf(r, a) = view[r][a]
    BY DEF OwnMemory
  <2> QED
    BY <2>1, <2>2 DEF Mapped, ByteOf
<1> QED
  BY <1>1, <1>2 DEF OwnMemory

LEMMA SameMemory ==
    ASSUME PagesInv, MemoryIsOwn, live' = live, UNCHANGED <<page, image, view, mem>>
    PROVE  MemoryIsOwn'
<1>1. live \subseteq Pids
  BY InvParts DEF Rest
<1>2. \A r \in live : OwnMemory(r)'
  BY <1>1, OwnParts, Untouched
<1> QED
  BY <1>2, OwnParts

\* A program that has only a stack.
LEMMA OnlyAStack ==
    ASSUME PagesInv', NEW p \in live', image'[p] = {}, view'[p] = NoBytes
    PROVE  OwnMemory(p)'
<1>1. page'[p][StackPage] # None
  BY DEF PagesInv, StackMapped
<1>2. DOMAIN view'[p] = {}
  BY DEF NoBytes
<1> QED
  BY <1>1, <1>2 DEF OwnMemory

LEMMA CreateOwn ==
    ASSUME PagesInv, PagesInv', MemoryIsOwn, NEW p \in Pids, NEW prog \in Programs, Create(p, prog)
    PROVE  MemoryIsOwn'
<1>1. live = {} /\ live' = live \cup {p}
  BY DEF Create, PagesInv
<1>2. image'[p] = {} /\ view'[p] = NoBytes
  BY InvParts DEF Create, Views
<1> QED
  BY <1>1, <1>2, OnlyAStack, OwnParts

\* Pages that stay in use keep their bytes.
LEMMA KeptOwn ==
    ASSUME PagesInv, NEW fl, NEW tb, NEW pg, NEW kt, Counted(fl, tb, pg, kt),
           NEW r \in Pids, pg[r] = page[r], mem' = Kept(fl)
    PROVE  \A v \in VPages : page[r][v] # None =>
              \A o \in Offsets : mem'[page[r][v]][o] = mem[page[r][v]][o]
<1> SUFFICES ASSUME NEW v \in VPages, page[r][v] # None
             PROVE  mem'[page[r][v]] = mem[page[r][v]]
  OBVIOUS
<1>1. page[r][v] \in Frames /\ fl[page[r][v]] = 1
  BY PagesDistinct
<1> QED
  BY <1>1 DEF Kept

LEMMA ExecOwn ==
    ASSUME PagesInv, PagesInv', MemoryIsOwn, NEW p \in Pids, NEW prog \in Programs, Exec(p, prog)
    PROVE  MemoryIsOwn'
<1> DEFINE fl == Released(Released(flag, page[p]), tab[p])
           pg == [page EXCEPT ![p] = NoPages]
<1>1. Counted(flag, tab, page, ktab) /\ Rest /\ Views
  BY InvParts
<1>2. Counted(fl, [tab EXCEPT ![p] = NoTables], pg, ktab)
  BY <1>1, Shrunk
<1>3. page \in [Pids -> Rows(VPages)] /\ live \subseteq Pids
  BY <1>1 DEF Counted, Rest
<1>4. /\ live' = live /\ mem' = Kept(fl)
      /\ \E m : page' = [page EXCEPT ![p] = m]
      /\ image' = [image EXCEPT ![p] = {}] /\ view' = [view EXCEPT ![p] = NoBytes]
  BY DEF Exec
<1> HIDE DEF fl
<1>5. OwnMemory(p)' \/ p \notin live'
  <2>1. image'[p] = {} /\ view'[p] = NoBytes
    BY <1>1, <1>4 DEF Views
  <2> QED
    BY <2>1, OnlyAStack
<1>6. ASSUME NEW r \in live, r # p PROVE OwnMemory(r)'
  <2>1. page'[r] = page[r] /\ image'[r] = image[r] /\ view'[r] = view[r] /\ pg[r] = page[r]
    BY <1>1, <1>3, <1>4, <1>6 DEF Views
  <2> HIDE DEF pg
  <2>2. \A v \in VPages : page[r][v] # None =>
           \A o \in Offsets : mem'[page[r][v]][o] = mem[page[r][v]][o]
    BY <1>2, <1>3, <1>4, <2>1, KeptOwn
  <2> QED
    BY <1>3, <2>1, <2>2, OwnParts, Untouched
<1> QED
  BY <1>4, <1>5, <1>6, OwnParts

LEMMA ExitOwn ==
    ASSUME PagesInv, PagesInv', MemoryIsOwn, NEW p \in Pids, Exit(p)
    PROVE  MemoryIsOwn'
<1> DEFINE fl == Released(Released(flag, page[p]), tab[p])
           pg == [page EXCEPT ![p] = NoPages]
<1>1. Counted(flag, tab, page, ktab) /\ Rest /\ Views
  BY InvParts
<1>2. Counted(Released(fl, ktab[p]), [tab EXCEPT ![p] = NoTables], pg, [ktab EXCEPT ![p] = NoKernel])
  BY <1>1, Shrunk, KernelForgotten
<1>3. page \in [Pids -> Rows(VPages)] /\ live \subseteq Pids
  BY <1>1 DEF Counted, Rest
<1>4. /\ live' = live \ {p} /\ mem' = Kept(Released(fl, ktab[p]))
      /\ page' = pg
      /\ image' = [image EXCEPT ![p] = {}] /\ view' = [view EXCEPT ![p] = NoBytes]
  BY DEF Exit, ExitPage
<1> HIDE DEF fl
<1>5. ASSUME NEW r \in live, r # p PROVE OwnMemory(r)'
  <2>1. page'[r] = page[r] /\ image'[r] = image[r] /\ view'[r] = view[r] /\ pg[r] = page[r]
    BY <1>1, <1>3, <1>4, <1>5 DEF Views
  <2> HIDE DEF pg
  <2>2. \A v \in VPages : page[r][v] # None =>
           \A o \in Offsets : mem'[page[r][v]][o] = mem[page[r][v]][o]
    BY <1>2, <1>3, <1>4, <2>1, KeptOwn
  <2> QED
    BY <1>3, <2>1, <2>2, OwnParts, Untouched
<1> QED
  BY <1>4, <1>5, OwnParts

LEMMA NextDistinct ==
    ASSUME PagesInv'
    PROVE  /\ Distinct(page') /\ page' \in [Pids -> Rows(VPages)]
           /\ \A q \in Pids, v \in VPages : page'[q][v] # None => page'[q][v] \in Frames
<1>1. (Counted(flag, tab, page, ktab))'
  BY InvParts, PTL
<1>2. Counted(flag', tab', page', ktab')
  BY <1>1 DEF Counted
<1> QED
  BY <1>2, PagesDistinct DEF Counted

\* copy_page gives the child pages where its parent has them.
LEMMA ForkPages ==
    ASSUME PagesInv, NEW p \in Pids, NEW q \in Pids, Fork(p, q)
    PROVE  \A v \in VPages : page'[q][v] # None <=> page[p][v] # None
<1> DEFINE A == Present(tab[p])
           B == Present(page[p])
<1>1. Counted(flag, tab, page, ktab)
  BY InvParts
<1>2. tab \in [Pids -> Rows(Pde)] /\ page \in [Pids -> Rows(VPages)]
  BY <1>1 DEF Counted
<1>3. A \in SUBSET Pde /\ B = {v \in VPages : page[p][v] # None}
  BY <1>2 DEF Present, Rows
<1>4. page'[q] = Put(Give(flag, B, Cardinality(A)), NoPages)
  BY <1>2 DEF Fork, CopyPage
<1>5. Cardinality(Free(flag)) >= Cardinality(A) + Cardinality(B)
  BY DEF Fork, Fits, CopyNeed
<1> HIDE DEF A, B
<1>6. Cardinality(A) \in Nat /\ Cardinality(A) + Cardinality(B) <= Cardinality(Free(flag))
  <2>1. IsFiniteSet(A) /\ IsFiniteSet(B)
    BY <1>3, FiniteThings, FS_Subset
  <2>2. Cardinality(A) \in Nat /\ Cardinality(B) \in Nat /\ Cardinality(Free(flag)) \in Nat
    BY <2>1, FS_CardinalityType, FreeFinite
  <2> QED
    BY <1>5, <2>2
<1>7. \A v \in B : NoPages[v] = None
  BY <1>3 DEF NoPages
<1>8. Completed(VPages, B, NoPages, Put(Give(flag, B, Cardinality(A)), NoPages))
  BY <1>3, <1>6, <1>7, FiniteThings, EmptyRows, GivenPresent
<1>9. \A v \in VPages : NoPages[v] = None
  BY DEF NoPages
<1> QED
  BY <1>3, <1>4, <1>8, <1>9 DEF Completed

LEMMA ForkOwn ==
    ASSUME PagesInv, PagesInv', MemoryIsOwn, NEW p \in Pids, NEW q \in Pids, Fork(p, q)
    PROVE  MemoryIsOwn'
<1> DEFINE m == page'[q]
<1>1. Counted(flag, tab, page, ktab) /\ Rest /\ Views
  BY InvParts
<1>2. /\ p \in live /\ q \notin live /\ live \subseteq Pids /\ live' = live \cup {q}
      /\ image' = [image EXCEPT ![q] = image[p]] /\ view' = [view EXCEPT ![q] = view[p]]
      /\ mem' = CopiedPages(page[p], m)
  BY <1>1 DEF Fork, CopyPage, IsEmptyPCB, Rest
<1>3. page \in [Pids -> Rows(VPages)]
  BY <1>1 DEF Counted
<1>4. PICK row : page' = [page EXCEPT ![q] = row]
  BY DEF Fork, CopyPage
<1>5. \A r \in Pids : r # q => page'[r] = page[r]
  BY <1>3, <1>4
<1>6. /\ \A v, w \in VPages : m[v] = m[w] /\ m[v] # None => v = w
      /\ \A r \in Pids, v, w \in VPages : r # q /\ page[r][v] # None => m[w] # page[r][v]
      /\ \A v \in VPages : m[v] # None => m[v] \in Frames
      /\ DOMAIN m = VPages
  BY <1>5, NextDistinct DEF Distinct, Rows
<1>7. \A v \in VPages : m[v] # None <=> page[p][v] # None
  BY ForkPages
<1>8. image'[q] = image[p] /\ view'[q] = view[p]
  BY <1>1, <1>2 DEF Views
<1>9. OwnMemory(p) /\ OwnMemory(q)' = OwnMemory(q)'
  BY <1>2, OwnParts
<1>10. Present(m) = {v \in VPages : m[v] # None}
  BY <1>6 DEF Present
<1> HIDE DEF m
<1>11. ASSUME NEW v \in VPages, m[v] # None PROVE mem'[m[v]] = mem[page[p][v]]
  <2>1. v \in Present(m) /\ \A w \in Present(m) : m[w] = m[v] => w = v
    BY <1>6, <1>10, <1>11
  <2>2. (CHOOSE w \in Present(m) : m[w] = m[v]) = v
    BY <2>1
  <2>3. m[v] \in Frames
    BY <1>6, <1>11
  <2> QED
    BY <1>2, <2>1, <2>2, <2>3 DEF CopiedPages
<1>12. OwnMemory(q)'
  <2>1. page'[q][StackPage] # None
    BY <1>2 DEF PagesInv, StackMapped
  <2>2. ASSUME NEW a, Mapped(p, a) PROVE Mapped(q, a)'
    BY <1>7, <2>2 DEF Mapped, m
  <2>3. ASSUME NEW a \in DOMAIN view[p] PROVE Mapped(q, a)' /\ ByteOf(q, a)' = view[p][a]
    <3>1. Mapped(p, a) /\ ByteOf(p, a) = view[p][a]
      BY <1>9 DEF OwnMemory
    <3>2. mem'[m[a \div PageSize]] = mem[page[p][a \div PageSize]]
      BY <1>7, <1>11, <3>1 DEF Mapped
    <3> QED
      BY <2>2, <3>1, <3>2 DEF ByteOf, m
  <2>4. \A s \in image[p] : \A a \in s.va .. s.va + s.memsz - 1 : Mapped(p, a)
    BY <1>9 DEF OwnMemory
  <2> QED
    BY <1>8, <2>1, <2>2, <2>3, <2>4 DEF OwnMemory
<1>13. ASSUME NEW r \in live PROVE OwnMemory(r)'
  <2>1. page'[r] = page[r] /\ image'[r] = image[r] /\ view'[r] = view[r] /\ r # q
    BY <1>1, <1>2, <1>5 DEF Views
  <2>2. ASSUME NEW v \in VPages, page[r][v] # None PROVE mem'[page[r][v]] = mem[page[r][v]]
    <3>1. ~\E w \in Present(m) : m[w] = page[r][v]
      BY <1>2, <1>6, <1>10, <2>1, <2>2
    <3>2. page[r][v] \in Frames
      BY <1>2, <1>3, <2>2 DEF Rows
    <3> QED
      BY <1>2, <3>1, <3>2 DEF CopiedPages
  <2> QED
    BY <1>2, <2>1, <2>2, OwnParts, Untouched
<1> QED
  BY <1>2, <1>12, <1>13, OwnParts

\* The pages of a segment are new, and those that there were stay.
LEMMA LoadPages ==
    ASSUME PagesInv, NEW p \in Pids, Load(p)
    PROVE  LET vs == SegmentPages(Head(todo.rest))
           IN  /\ vs \subseteq VPages /\ \A v \in vs : page[p][v] = None /\ page'[p][v] # None
               /\ \A v \in VPages : page[p][v] # None => page'[p][v] = page[p][v]
               /\ \A r \in Pids : r # p => page'[r] = page[r]
<1> DEFINE vs == SegmentPages(Head(todo.rest))
           A == NewTables(tab[p], vs)
           g == Give(flag, vs, Cardinality(A))
           old == page[p]
<1>1. Counted(flag, tab, page, ktab)
  BY InvParts
<1>2. page \in [Pids -> Rows(VPages)]
  BY <1>1 DEF Counted
<1>3. ~Overlaps(p, vs) /\ Fits(Need(tab[p], vs))
  BY DEF Load
<1>4. vs \in SUBSET VPages /\ \A v \in vs : old[v] = None
  BY <1>3 DEF Overlaps
<1>5. page' = [page EXCEPT ![p] = Put(g, old)]
  BY <1>2 DEF Load, WithPages
<1>6. A \in SUBSET Pde /\ Cardinality(Free(flag)) >= Cardinality(A) + Cardinality(vs)
  BY <1>3 DEF NewTables, Fits, Need
<1> HIDE DEF vs, A
<1>7. Cardinality(A) \in Nat /\ Cardinality(A) + Cardinality(vs) <= Cardinality(Free(flag))
  <2>1. IsFiniteSet(A) /\ IsFiniteSet(vs)
    BY <1>4, <1>6, FiniteThings, FS_Subset
  <2>2. Cardinality(A) \in Nat /\ Cardinality(vs) \in Nat /\ Cardinality(Free(flag)) \in Nat
    BY <2>1, FS_CardinalityType, FreeFinite
  <2> QED
    BY <1>6, <2>2
<1>8. old \in Rows(VPages)
  BY <1>2
<1> HIDE DEF old
<1>9. g \in [vs -> Free(flag)]
  <2>1. IsFiniteSet(vs) /\ vs \in SUBSET Int
    BY <1>4, FiniteThings, FS_Subset
  <2> QED
    BY <1>7, <2>1, Given
<1>10. Completed(VPages, vs, old, Put(g, old))
  BY <1>4, <1>7, <1>8, FiniteThings, GivenPresent
<1> HIDE DEF g
<1>11. \A v \in VPages : old[v] # None => Put(g, old)[v] = old[v]
  <2>1. DOMAIN g = vs /\ DOMAIN old = VPages
    BY <1>8, <1>9 DEF Rows
  <2> QED
    BY <1>4, <2>1 DEF Put
<1>12. page'[p] = Put(g, old) /\ \A r \in Pids : r # p => page'[r] = page[r]
  BY <1>2, <1>5
<1>13. \A v \in vs : page'[p][v] # None
  BY <1>4, <1>10, <1>12 DEF Completed
<1> QED
  BY <1>4, <1>11, <1>12, <1>13 DEF old, vs

\* Every byte of a segment is on one of its pages.
LEMMA OnItsPages ==
    ASSUME NEW s \in Segments, FitsPages(s), NEW a \in s.va .. s.va + s.memsz - 1
    PROVE  a \in Nat /\ a \div PageSize \in SegmentPages(s)
<1> DEFINE S == PageSize
           f == s.va \div S
           n == s.memsz \div S
           q == a \div S
<1>1. S \in Nat \ {0} /\ s.va \in Nat /\ s.memsz \in Nat
  <2>1. NPde * NPte * PageSize \in Nat /\ PageSize \in Nat \ {0}
    BY GeometryAssumption
  <2>2. s \in Segment
    BY ProgramSegments
  <2> QED
    BY <2>1, <2>2 DEF Segment
<1>2. a \in Nat /\ s.va <= a /\ a < s.va + s.memsz
  BY <1>1
<1>3. (s.va % S) + s.memsz <= (n + 1) * S
  BY DEF FitsPages
<1> HIDE DEF S
<1>4. f \in Nat /\ s.va % S \in 0 .. S - 1 /\ s.va = f * S + (s.va % S)
  BY <1>1, Quotient
<1>5. n \in Nat
  BY <1>1, Quotient
<1>6. q \in Nat /\ a % S \in 0 .. S - 1 /\ a = q * S + (a % S)
  BY <1>1, <1>2, Quotient
<1> HIDE DEF f, n, q
<1>7. f * S \in Nat /\ q * S \in Nat /\ (n + 1) * S \in Nat /\ (f + n + 1) * S = f * S + (n + 1) * S
  BY <1>1, <1>4, <1>5, <1>6
<1>8. ~(q < f)
  <2> SUFFICES ASSUME q < f PROVE FALSE
    OBVIOUS
  <2>1. q * S + S <= f * S
    BY <1>1, <1>4, <1>6, Scaled
  <2> QED
    BY <1>1, <1>2, <1>4, <1>6, <1>7, <2>1
<1>9. ~(f + n < q)
  <2> SUFFICES ASSUME f + n < q PROVE FALSE
    OBVIOUS
  <2>1. f + n \in Nat
    BY <1>4, <1>5
  <2>2. (f + n) * S + S <= q * S
    BY <1>1, <1>6, <2>1, Scaled
  <2>3. (f + n) * S + S = (f + n + 1) * S
    BY <1>1, <1>4, <1>5
  <2>4. f * S + (n + 1) * S <= a
    BY <1>1, <1>6, <1>7, <2>2, <2>3
  <2> QED
    BY <1>1, <1>2, <1>3, <1>4, <1>7, <2>4
<1>10. q \in f .. f + n
  BY <1>4, <1>5, <1>6, <1>8, <1>9
<1> QED
  BY <1>2, <1>10 DEF SegmentPages, f, n, q, S

LEMMA LoadOwn ==
    ASSUME \A s \in Segments : FitsPages(s),
           PagesInv, PagesInv', MemoryIsOwn, NEW p \in Pids, Load(p)
    PROVE  MemoryIsOwn'
<1> DEFINE s == Head(todo.rest)
           vs == SegmentPages(s)
           pg == page'[p]
           bytes == FileBytes(s)
           n == s.filesz
<1>1. Counted(flag, tab, page, ktab) /\ Rest /\ Views
  BY InvParts
<1>2. s \in Segments /\ FitsPages(s) /\ p \in live /\ live \subseteq Pids
  <2>1. p # None
    BY GeometryAssumption DEF Pids, None
  <2>2. s \in Segments
    BY <1>1 DEF Rest, Load
  <2> QED
    BY <1>1, <2>1, <2>2 DEF Rest, Load
<1>3. s.va \in Nat /\ n \in Nat /\ s.off \in Nat /\ s.memsz \in Nat /\ n <= s.memsz
  <2>1. NPde * NPte * PageSize \in Nat
    BY GeometryAssumption
  <2>2. s \in Segment /\ s.filesz <= s.memsz
    BY <1>2, ProgramSegments
  <2> QED
    BY <2>1, <2>2 DEF Segment
<1>4. /\ vs \subseteq VPages /\ \A v \in vs : page[p][v] = None /\ pg[v] # None
      /\ \A v \in VPages : page[p][v] # None => pg[v] = page[p][v]
      /\ \A r \in Pids : r # p => page'[r] = page[r]
  BY LoadPages
<1>5. /\ mem' = Copied(pg, s.va, bytes) /\ live' = live
      /\ image' = [image EXCEPT ![p] = @ \cup {s}]
      /\ view' = [view EXCEPT ![p] = Put(Loads(s), @)]
  BY DEF Load
<1>6. bytes \in Seq(Nat) /\ Len(bytes) = n /\ \A k \in 1 .. n : bytes[k] = s.off + k - 1
  <2>1. bytes = [k \in 1 .. n |-> s.off + k - 1]
    BY DEF FileBytes
  <2>2. bytes \in [1 .. n -> Nat]
    BY <1>3, <2>1
  <2> HIDE DEF bytes, n
  <2> QED
    BY <1>3, <2>1, <2>2, FunctionIsSeq
<1>7. /\ \A v, w \in VPages : pg[v] = pg[w] /\ pg[v] # None => v = w
      /\ \A r \in Pids, v, w \in VPages : r # p /\ page[r][v] # None => pg[w] # page[r][v]
      /\ \A v \in VPages : pg[v] # None => pg[v] \in Frames
  BY <1>4, NextDistinct DEF Distinct
<1>8. \A a \in s.va .. s.va + s.memsz - 1 : a \in Nat /\ a \div PageSize \in vs
  BY <1>2, OnItsPages
<1>9. \A k \in 1 .. n : (s.va + k - 1) \div PageSize \in VPages
  <2>1. \A k \in 1 .. n : s.va + k - 1 \in s.va .. s.va + s.memsz - 1
    BY <1>3
  <2> QED
    BY <1>4, <1>8, <2>1
<1>10. image'[p] = image[p] \cup {s} /\ view'[p] = Put(Loads(s), view[p])
  BY <1>1, <1>5 DEF Views
<1>11. \A r \in Pids : r # p => image'[r] = image[r] /\ view'[r] = view[r]
  BY <1>1, <1>5 DEF Views
<1>12. page \in [Pids -> Rows(VPages)]
  BY <1>1 DEF Counted
<1> HIDE DEF s, vs, pg, bytes
<1>13. /\ \A a \in Nat :
             a \div PageSize \in VPages /\ pg[a \div PageSize] \in Frames =>
             mem'[pg[a \div PageSize]][a % PageSize] =
                IF a \in s.va .. s.va + Len(bytes) - 1 THEN bytes[a - s.va + 1]
                ELSE mem[pg[a \div PageSize]][a % PageSize]
       /\ \A f \in Frames, o \in Offsets :
             (\A v \in VPages : pg[v] # f) => mem'[f][o] = mem[f][o]
  <2>1. OnPages(pg, s.va, bytes)
    BY <1>6, <1>7, <1>9 DEF OnPages
  <2>2. s.va \in Nat /\ bytes \in Seq(Nat) /\ mem' = Copied(pg, s.va, bytes)
    BY <1>3, <1>5, <1>6
  <2>3. Writes(mem', pg, s.va, bytes)
    BY <2>1, <2>2, CopiedByte
  <2> QED
    BY <2>3 DEF Writes
<1>14. OwnMemory(p)'
  <2>1. OwnMemory(p)
    BY <1>2, OwnParts
  <2>2. page'[p][StackPage] # None
    BY <1>2, <1>5 DEF PagesInv, StackMapped
  <2>3. ASSUME NEW a, Mapped(p, a) PROVE Mapped(p, a)'
    BY <1>4, <2>3 DEF Mapped, pg
  <2>4. \A t \in image'[p] : \A a \in t.va .. t.va + t.memsz - 1 : Mapped(p, a)'
    <3>1. \A t \in image[p] : \A a \in t.va .. t.va + t.memsz - 1 : Mapped(p, a)
      BY <2>1 DEF OwnMemory
    <3>2. \A a \in s.va .. s.va + s.memsz - 1 : Mapped(p, a)'
      BY <1>4, <1>8 DEF Mapped, pg
    <3> QED
      BY <1>10, <2>3, <3>1, <3>2
  <2>5. ASSUME NEW a \in DOMAIN view'[p] PROVE Mapped(p, a)' /\ ByteOf(p, a)' = view'[p][a]
    <3>1. DOMAIN Loads(s) = s.va .. s.va + n - 1
          /\ \A x \in s.va .. s.va + n - 1 : Loads(s)[x] = s.off + x - s.va
      BY DEF Loads
    <3>2. CASE a \in s.va .. s.va + n - 1
      <4>1. a \in s.va .. s.va + s.memsz - 1
        BY <1>3, <3>2
      <4>2. a \in Nat /\ a \div PageSize \in VPages /\ pg[a \div PageSize] \in Frames
            /\ pg[a \div PageSize] # None
        BY <1>4, <1>7, <1>8, <4>1
      <4>3. mem'[pg[a \div PageSize]][a % PageSize] = bytes[a - s.va + 1]
        BY <1>6, <1>13, <3>2, <4>2
      <4>4. bytes[a - s.va + 1] = s.off + a - s.va
        <5>1. a - s.va + 1 \in 1 .. n /\ s.off + (a - s.va + 1) - 1 = s.off + a - s.va
          BY <1>3, <3>2
        <5> QED
          BY <1>6, <5>1
      <4>5. view'[p][a] = s.off + a - s.va
        BY <1>10, <3>1, <3>2 DEF Put
      <4> QED
        BY <4>2, <4>3, <4>4, <4>5 DEF Mapped, ByteOf, pg
    <3>3. CASE a \notin s.va .. s.va + n - 1
      <4>1. a \in DOMAIN view[p] /\ view'[p][a] = view[p][a]
        BY <1>10, <3>1, <3>3 DEF Put
      <4>2. Mapped(p, a) /\ ByteOf(p, a) = view[p][a] /\ a \in Nat
        BY <2>1, <4>1, HasAddress DEF OwnMemory
      <4>3. /\ a \div PageSize \in VPages /\ pg[a \div PageSize] = page[p][a \div PageSize]
            /\ pg[a \div PageSize] \in Frames
        BY <1>4, <1>7, <4>2 DEF Mapped
      <4>4. mem'[pg[a \div PageSize]][a % PageSize] = mem[pg[a \div PageSize]][a % PageSize]
        BY <1>6, <1>13, <3>3, <4>2, <4>3
      <4> QED
        BY <2>3, <4>1, <4>2, <4>3, <4>4 DEF ByteOf, pg
    <3> QED
      BY <3>2, <3>3
  <2> QED
    BY <2>2, <2>4, <2>5 DEF OwnMemory
<1>15. ASSUME NEW r \in live, r # p PROVE OwnMemory(r)'
  <2>1. page'[r] = page[r] /\ image'[r] = image[r] /\ view'[r] = view[r]
    BY <1>2, <1>4, <1>11, <1>15
  <2>2. ASSUME NEW v \in VPages, page[r][v] # None, NEW o \in Offsets
        PROVE  mem'[page[r][v]][o] = mem[page[r][v]][o]
    <3>1. page[r][v] \in Frames
      BY <1>2, <1>12, <2>2 DEF Rows
    <3>2. \A w \in VPages : pg[w] # page[r][v]
      BY <1>2, <1>7, <1>15, <2>2
    <3> QED
      BY <1>13, <3>1, <3>2
  <2> QED
    BY <1>2, <2>1, <2>2, OwnParts, Untouched
<1> QED
  BY <1>5, <1>14, <1>15, OwnParts

LEMMA StoreOwn ==
    ASSUME PagesInv, MemoryIsOwn, NEW p \in Pids, Store(p)
    PROVE  MemoryIsOwn'
<1> DEFINE b == CHOOSE x \in DOMAIN view[p] : \A y \in DOMAIN view[p] : x <= y
           f == page[p][b \div PageSize]
           o == b % PageSize
<1>1. Counted(flag, tab, page, ktab) /\ Rest /\ Views
  BY InvParts
<1>2. p \in live /\ live' = live /\ live \subseteq Pids /\ page' = page /\ image' = image
  BY <1>1 DEF Store, Rest
<1>3. mem' = [mem EXCEPT ![f][o] = Stored] /\ view' = [view EXCEPT ![p][b] = Stored]
  BY DEF Store
<1>4. b \in DOMAIN view[p]
  <2>1. view[p] # NoBytes /\ DOMAIN view[p] \subseteq Nat /\ view[p] \in [DOMAIN view[p] -> Nat]
    BY <1>1 DEF Store, Views, IsView
  <2>2. DOMAIN view[p] # {}
    BY <2>1 DEF NoBytes
  <2> QED
    BY <2>1, <2>2, Least
<1> HIDE DEF b
<1>5. b \in Nat /\ o \in Offsets /\ Mapped(p, b)
  BY <1>2, <1>4, HasAddress, OwnParts DEF OwnMemory
<1>6. mem \in [Frames -> [Offsets -> Nat]]
  BY <1>1 DEF Rest
<1>7. /\ Distinct(page)
      /\ \A q \in Pids, v \in VPages : page[q][v] # None => page[q][v] \in Frames
  BY <1>1, PagesDistinct
<1>8. f \in Frames /\ b \div PageSize \in VPages /\ f # None
  BY <1>5, <1>7 DEF Mapped
<1>9. \A g \in Frames, x \in Offsets :
         mem'[g][x] = IF g = f /\ x = o THEN Stored ELSE mem[g][x]
  BY <1>3, <1>5, <1>6, <1>8
<1>10. ASSUME NEW r \in live, r # p PROVE OwnMemory(r)'
  <2>1. view'[r] = view[r]
    BY <1>1, <1>2, <1>3, <1>10 DEF Views
  <2>2. ASSUME NEW v \in VPages, page[r][v] # None, NEW x \in Offsets
        PROVE  mem'[page[r][v]][x] = mem[page[r][v]][x]
    <3>1. page[r][v] \in Frames /\ page[r][v] # f
      BY <1>2, <1>7, <1>8, <1>10, <2>2 DEF Distinct
    <3> QED
      BY <1>9, <3>1
  <2> QED
    BY <1>2, <2>1, <2>2, OwnParts, Untouched
<1>11. OwnMemory(p)'
  <2>1. OwnMemory(p)
    BY <1>2, OwnParts
  <2>2. \A a : Mapped(p, a)' <=> Mapped(p, a)
    BY <1>2 DEF Mapped
  <2>3. DOMAIN view'[p] = DOMAIN view[p]
        /\ \A a \in DOMAIN view[p] : view'[p][a] = IF a = b THEN Stored ELSE view[p][a]
    BY <1>1, <1>3, <1>4 DEF Views
  <2>4. ASSUME NEW a \in DOMAIN view[p] PROVE ByteOf(p, a)' = view'[p][a]
    <3>1. Mapped(p, a) /\ ByteOf(p, a) = view[p][a] /\ a \in Nat /\ a % PageSize \in Offsets
      BY <2>1, HasAddress DEF OwnMemory
    <3>2. page[p][a \div PageSize] \in Frames
      BY <1>7, <3>1 DEF Mapped
    <3>3. CASE a = b
      BY <1>2, <1>9, <2>3, <3>1, <3>2, <3>3 DEF ByteOf
    <3>4. CASE a # b
      <4>1. PageSize \in Nat \ {0}
        BY GeometryAssumption
      <4>2. a = (a \div PageSize) * PageSize + (a % PageSize)
            /\ b = (b \div PageSize) * PageSize + (b % PageSize)
        BY <1>5, <3>1, <4>1, Quotient
      <4>3. ~(a \div PageSize = b \div PageSize /\ a % PageSize = b % PageSize)
        BY <3>4, <4>2
      <4>4. ~(page[p][a \div PageSize] = f /\ a % PageSize = o)
        BY <1>7, <1>8, <3>1, <4>3 DEF Distinct, Mapped
      <4> QED
        BY <1>2, <1>9, <2>3, <3>1, <3>2, <3>4, <4>4 DEF ByteOf
    <3> QED
      BY <3>3, <3>4
  <2> QED
    BY <1>2, <2>1, <2>2, <2>3, <2>4 DEF OwnMemory
<1> QED
  BY <1>2, <1>10, <1>11, OwnParts

LEMMA NextOwn ==
    ASSUME \A s \in Segments : FitsPages(s)
    PROVE  PagesInv /\ PagesInv' /\ MemoryIsOwn /\ [Next]_vars => MemoryIsOwn'
<1> SUFFICES ASSUME PagesInv, PagesInv', MemoryIsOwn, [Next]_vars PROVE MemoryIsOwn'
  OBVIOUS
<1>1. CASE UNCHANGED vars
  BY <1>1, SameMemory DEF vars, memory, program
<1>2. CASE Loaded
  BY <1>2, SameMemory DEF Loaded, memory
<1>3. ASSUME NEW p \in Pids, LoadPanics(p) \/ ForkPanics(p) PROVE MemoryIsOwn'
  <2>1. UNCHANGED <<page, mem, image, view>> /\ live' = live
    BY <1>3 DEF LoadPanics, ForkPanics, Panic, memory, program
  <2> QED
    BY <2>1, SameMemory
<1>4. ASSUME NEW p \in Pids, Load(p) PROVE MemoryIsOwn'
  BY <1>4, LoadOwn
<1>5. ASSUME NEW p \in Pids, Exit(p) PROVE MemoryIsOwn'
  BY <1>5, ExitOwn
<1>6. ASSUME NEW p \in Pids, Store(p) PROVE MemoryIsOwn'
  BY <1>6, StoreOwn
<1>7. ASSUME NEW p \in Pids, NEW prog \in Programs, Create(p, prog) PROVE MemoryIsOwn'
  BY <1>7, CreateOwn
<1>8. ASSUME NEW p \in Pids, NEW prog \in Programs, Exec(p, prog) PROVE MemoryIsOwn'
  BY <1>8, ExecOwn
<1>9. ASSUME NEW p \in Pids, NEW q \in Pids, Fork(p, q) PROVE MemoryIsOwn'
  BY <1>9, ForkOwn
<1> QED
  BY <1>1, <1>2, <1>3, <1>4, <1>5, <1>6, <1>7, <1>8, <1>9 DEF Next, Request, Stopped

(***************************************************************************)
(* Whatever segments are loaded, if the pages allocated for each have all  *)
(* of it: a program finds in its memory what was loaded there and what it  *)
(* has stored, through forks, and whatever other programs load, store and  *)
(* free.                                                                   *)
(***************************************************************************)
THEOREM MemoryStaysOwn ==
    ASSUME \A s \in Segments : FitsPages(s)
    PROVE  Spec => []MemoryIsOwn
<1>1. Init => MemoryIsOwn
  BY DEF Init, MemoryIsOwn
<1>2. PagesInv /\ PagesInv' /\ MemoryIsOwn /\ [Next]_vars => MemoryIsOwn'
  BY NextOwn
<1> QED
  BY <1>1, <1>2, PagesInvariant, PTL DEF Spec
=============================================================================
