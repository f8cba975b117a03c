----------------------------- MODULE ListProofs -----------------------------
(***************************************************************************)
(* Lemmas about lists, which are sequences in the models: what linking,    *)
(* unlinking and joining do to their elements; and some about numbers.     *)
(* Nothing here is about a particular component.                           *)
(***************************************************************************)
EXTENDS Integers, SequencesExt, FiniteSetTheorems, SequenceTheorems,
        WellFoundedInduction, TLAPS

(***************************************************************************)
(* Numbers: quotient and remainder, and the least of a set.                *)
(***************************************************************************)
LEMMA Quotient ==
    ASSUME NEW n \in Nat \ {0}, NEW a \in Nat
    PROVE  /\ a \div n \in Nat /\ a % n \in 0 .. n - 1
           /\ a = (a \div n) * n + (a % n)
  OBVIOUS

LEMMA Scaled ==
    ASSUME NEW n \in Nat \ {0}, NEW p \in Nat, NEW q \in Nat, p < q
    PROVE  p * n + n <= q * n
<1>1. (q - p - 1) * n >= 0
  OBVIOUS
<1>2. (q - p - 1) * n = q * n - p * n - n
  OBVIOUS
<1> QED
  BY <1>1, <1>2

LEMMA Division ==
    ASSUME NEW n \in Nat \ {0}, NEW q \in Nat, NEW b \in 0 .. n - 1
    PROVE  /\ q * n + b \in Nat
           /\ (q * n + b) \div n = q /\ (q * n + b) % n = b
<1> DEFINE a == q * n + b
<1>1. q * n \in Nat /\ a \in Nat
  OBVIOUS
<1> HIDE DEF a
<1>2. /\ a \div n \in Nat /\ a % n \in 0 .. n - 1
      /\ a = (a \div n) * n + (a % n)
  BY <1>1, Quotient
<1>3. ~(a \div n < q)
  <2> SUFFICES ASSUME a \div n < q PROVE FALSE
    OBVIOUS
  <2>1. (a \div n) * n + n <= q * n
    BY <1>2, Scaled
  <2>2. (a \div n) * n \in Nat
    BY <1>2
  <2> QED
    BY <1>1, <1>2, <2>1, <2>2 DEF a
<1>4. ~(q < a \div n)
  <2> SUFFICES ASSUME q < a \div n PROVE FALSE
    OBVIOUS
  <2>1. q * n + n <= (a \div n) * n
    BY <1>2, Scaled
  <2>2. (a \div n) * n \in Nat
    BY <1>2
  <2> QED
    BY <1>1, <1>2, <2>1, <2>2 DEF a
<1>5. a \div n = q
  <2>1. \A p \in Nat : ~(p < q) /\ ~(q < p) => p = q
    OBVIOUS
  <2> QED
    BY <1>2, <1>3, <1>4, <2>1
<1> QED
  BY <1>1, <1>2, <1>5 DEF a

\* The least of some numbers.
LEMMA Least ==
    ASSUME NEW S, S \subseteq Nat, S # {}
    PROVE  \E q \in S : \A x \in S : q <= x
<1> DEFINE upto(x) == {y \in S : y <= x}
           T == {upto(x) : x \in S}
           R == StrictSubsetOrdering(S)
<1>1. T \subseteq FiniteSubsetsOf(S) /\ T # {}
  <2>1. ASSUME NEW x \in S PROVE IsFiniteSet(upto(x)) /\ upto(x) \subseteq S
    <3>1. \A y \in upto(x) : y \in Nat /\ y <= x /\ x \in Nat
      OBVIOUS
    <3>2. upto(x) \subseteq 0 .. x
      <4> HIDE DEF upto
      <4>1. \A y \in upto(x) : y \in 0 .. x
        BY <3>1
      <4> QED
        BY <4>1
    <3>3. IsFiniteSet(0 .. x)
      BY FS_Interval
    <3> QED
      BY <3>2, <3>3, FS_Subset
  <2> QED
    BY <2>1 DEF FiniteSubsetsOf
<1>2. IsWellFoundedOn(R, FiniteSubsetsOf(S))
  BY FS_StrictSubsetOrderingWellFounded
<1>3. \A A, B \in T : A \subseteq B /\ A # B => <<A, B>> \in R
  BY DEF StrictSubsetOrdering
<1> HIDE DEF T, R
<1>4. PICK A \in T : \A B \in T : ~(<<B, A>> \in R)
  BY <1>1, <1>2, WFMin
<1>5. PICK q \in S : A = upto(q)
  BY <1>4 DEF T
<1>6. ASSUME NEW x \in S, ~(q <= x)
      PROVE  FALSE
  <2>1. upto(x) \in T
    BY DEF T
  <2>2. \A y \in S : y <= x => y <= q
    BY <1>6
  <2>3. upto(x) \subseteq A /\ q \notin upto(x)
    BY <1>5, <1>6, <2>2
  <2>4. q \in A
    <3>1. q <= q
      OBVIOUS
    <3> QED
      BY <1>5, <3>1
  <2> HIDE DEF upto
  <2> QED
    BY <1>3, <1>4, <2>1, <2>3, <2>4
<1> QED
  BY <1>6

\* Induction up to n.
LEMMA Counting ==
    ASSUME NEW n \in Nat, NEW S, 0 \in S, \A j \in 1 .. n : j - 1 \in S => j \in S
    PROVE  0 .. n \subseteq S
<1> DEFINE T == (0 .. n) \ S
<1> SUFFICES ASSUME T # {} PROVE FALSE
  OBVIOUS
<1>1. PICK k \in T : \A x \in T : k <= x
  <2>1. T \subseteq Nat
    OBVIOUS
  <2> HIDE DEF T
  <2> QED
    BY <2>1, Least
<1>2. k \in 1 .. n /\ k - 1 \in 0 .. n
  BY <1>1
<1>3. k - 1 \in S
  <2>1. k - 1 \notin T
    <3>1. k \in Nat /\ ~(k <= k - 1)
      BY <1>2
    <3> HIDE DEF T
    <3> QED
      BY <1>1, <3>1
  <2> QED
    BY <1>2, <2>1
<1> QED
  BY <1>1, <1>2, <1>3

\* A function that never falls.
LEMMA Increasing ==
    ASSUME NEW n \in Nat, NEW F \in [0 .. n -> Int], \A j \in 1 .. n : F[j - 1] <= F[j],
           NEW i \in 0 .. n
    PROVE  \A j \in i .. n : F[i] <= F[j]
<1> DEFINE S == {j \in 0 .. n : i <= j => F[i] <= F[j]}
<1>1. 0 \in S
  OBVIOUS
<1>2. ASSUME NEW j \in 1 .. n, j - 1 \in S PROVE j \in S
  <2>1. F[j] \in Int /\ F[j - 1] \in Int /\ F[i] \in Int /\ F[j - 1] <= F[j]
    OBVIOUS
  <2>2. i <= j - 1 => F[i] <= F[j - 1]
    BY <1>2
  <2>3. i <= j - 1 \/ i = j \/ ~(i <= j)
    OBVIOUS
  <2> QED
    BY <2>1, <2>2, <2>3
<1>3. 0 .. n \subseteq S
  <2> HIDE DEF S
  <2> QED
    BY <1>1, <1>2, Counting
<1>4. ASSUME NEW j \in i .. n PROVE F[i] <= F[j]
  <2>1. j \in S
    BY <1>3
  <2> QED
    BY <2>1
<1> QED
  BY <1>4

\* Numbers that increase: the first k of them are k.
LEMMA Ranked ==
    ASSUME NEW n \in Nat, NEW F \in [1 .. n -> Nat],
           \A i, j \in 1 .. n : i < j => F[i] < F[j],
           NEW k \in 0 .. n, NEW Z, Z = {F[i] : i \in 1 .. k}
    PROVE  IsFiniteSet(Z) /\ Cardinality(Z) = k
<1> DEFINE g == [i \in 1 .. k |-> F[i]]
<1>1. IsFiniteSet(1 .. k) /\ Cardinality(1 .. k) = k
  <2>1. 1 \in Int /\ k \in Int /\ (1 > k <=> k = 0) /\ k - 1 + 1 = k
    OBVIOUS
  <2> QED
    BY <2>1, FS_Interval
<1>2. g \in Bijection(1 .. k, Z)
  <2>1. g \in [1 .. k -> Z]
    OBVIOUS
  <2>2. \A i, j \in 1 .. k : g[i] = g[j] => i = j
    OBVIOUS
  <2>3. \A z \in Z : \E i \in 1 .. k : g[i] = z
    OBVIOUS
  <2> HIDE DEF g
  <2> QED
    BY <2>1, <2>2, <2>3 DEF Bijection, Injection, Surjection, IsInjective
<1>3. ExistsBijection(1 .. k, Z)
  BY <1>2 DEF ExistsBijection
<1> QED
  BY <1>1, <1>3, FS_Bijection

\* The k-th of them.
KthOf(S, k) == CHOOSE r \in S : Cardinality({q \in S : q <= r}) = k

LEMMA Picked ==
    ASSUME NEW n \in Nat, NEW F \in [1 .. n -> Nat],
           \A i, j \in 1 .. n : i < j => F[i] < F[j], NEW k \in 1 .. n,
           NEW S, S = {F[i] : i \in 1 .. n}
    PROVE  KthOf(S, k) = F[k]
<1> DEFINE P(r) == Cardinality({q \in S : q <= r}) = k
<1>1. ASSUME NEW i \in 1 .. n PROVE Cardinality({q \in S : q <= F[i]}) = i
  <2>1. {q \in S : q <= F[i]} = {F[j] : j \in 1 .. i}
    <3>1. \A j \in 1 .. n : F[j] <= F[i] <=> j \in 1 .. i
      <4> TAKE j \in 1 .. n
      <4>1. F[i] \in Nat /\ F[j] \in Nat
        OBVIOUS
      <4>2. (i < j => F[i] < F[j]) /\ (j < i => F[j] < F[i])
        OBVIOUS
      <4> QED
        BY <4>1, <4>2
    <3>2. \A j \in 1 .. i : j \in 1 .. n
      OBVIOUS
    <3> QED
      BY <3>1, <3>2
  <2>2. i \in 0 .. n
    OBVIOUS
  <2> QED
    BY <2>1, <2>2, Ranked
<1>2. F[k] \in S /\ P(F[k])
  BY <1>1
<1>3. ASSUME NEW r \in S, P(r) PROVE r = F[k]
  <2>1. PICK i \in 1 .. n : r = F[i]
    OBVIOUS
  <2>2. i = k
    BY <1>1, <1>3, <2>1
  <2> QED
    BY <2>1, <2>2
<1>4. KthOf(S, k) = CHOOSE r \in S : P(r)
  BY DEF KthOf
<1> HIDE DEF P
<1> QED
  BY <1>2, <1>3, <1>4

\* What lies behind the start of a row lies in one of its parts.
LEMMA Covered ==
    ASSUME NEW n \in Nat, NEW F \in [0 .. n -> Nat], F[0] = 0, NEW r \in 1 .. F[n]
    PROVE  \E i \in 1 .. n : F[i - 1] < r /\ r <= F[i]
<1> DEFINE T == {k \in 0 .. n : r <= F[k] => \E i \in 1 .. k : F[i - 1] < r /\ r <= F[i]}
<1>1. 0 \in T
  OBVIOUS
<1>2. ASSUME NEW k \in 1 .. n, k - 1 \in T PROVE k \in T
  <2>1. F[k] \in Nat /\ F[k - 1] \in Nat /\ r \in Nat
    OBVIOUS
  <2>2. CASE r <= F[k - 1]
    BY <1>2, <2>2
  <2>3. CASE F[k - 1] < r
    BY <2>3
  <2> QED
    BY <2>1, <2>2, <2>3
<1>3. n \in T
  <2>1. 0 .. n \subseteq T
    <3> HIDE DEF T
    <3> QED
      BY <1>1, <1>2, Counting
  <2> QED
    BY <2>1
<1> QED
  BY <1>3


(***************************************************************************)
(* Lists without repetitions: what linking and unlinking a slot does to    *)
(* the set of the slots that are linked.                                   *)
(***************************************************************************)
LEMMA SetOfList ==
    ASSUME NEW S, NEW s \in Seq(S)
    PROVE  /\ ToSet(s) = {s[i] : i \in 1 .. Len(s)}
           /\ IsInjective(s) <=> \A i, j \in 1 .. Len(s) : s[i] = s[j] => i = j
           /\ Len(s) \in Nat
           /\ ToSet(s) \subseteq S
  BY LenProperties, ElementOfSeq DEF ToSet, IsInjective

\* list_add_before: an element that is not in the list is linked at its end.
LEMMA Linking ==
    ASSUME NEW S, NEW s \in Seq(S), NEW e \in S, IsInjective(s), e \notin ToSet(s)
    PROVE  /\ Append(s, e) \in Seq(S)
           /\ ToSet(Append(s, e)) = ToSet(s) \cup {e}
           /\ IsInjective(Append(s, e))
<1> DEFINE t == Append(s, e)
<1>1. /\ t \in Seq(S) /\ Len(t) = Len(s) + 1
      /\ \A i \in 1 .. Len(s) : t[i] = s[i]
      /\ t[Len(s) + 1] = e
  BY AppendProperties
<1> HIDE DEF t
<1>2. /\ ToSet(s) = {s[i] : i \in 1 .. Len(s)} /\ Len(s) \in Nat
      /\ \A i, j \in 1 .. Len(s) : s[i] = s[j] => i = j
      /\ ToSet(t) = {t[i] : i \in 1 .. Len(t)}
      /\ IsInjective(t) <=> \A i, j \in 1 .. Len(t) : t[i] = t[j] => i = j
  BY <1>1, SetOfList
<1>3. 1 .. Len(t) = (1 .. Len(s)) \cup {Len(s) + 1}
  BY <1>1, <1>2
<1>4. ToSet(t) = ToSet(s) \cup {e}
  BY <1>1, <1>2, <1>3
<1>5. \A i \in 1 .. Len(s) : s[i] # e
  BY <1>2
<1>6. IsInjective(t)
  BY <1>1, <1>2, <1>3, <1>5
<1> QED
  BY <1>1, <1>4, <1>6 DEF t

\* The elements of a list from which one is unlinked.
LEMMA RemoveAtElements ==
    ASSUME NEW S, NEW s \in Seq(S), NEW k \in 1 .. Len(s)
    PROVE  /\ RemoveAt(s, k) \in Seq(S)
           /\ Len(RemoveAt(s, k)) = Len(s) - 1
           /\ \A i \in 1 .. Len(s) - 1 :
                 RemoveAt(s, k)[i] = IF i < k THEN s[i] ELSE s[i + 1]
<1> DEFINE a == SubSeq(s, 1, k - 1)
           b == SubSeq(s, k + 1, Len(s))
<1>1. Len(s) \in Nat /\ \A i \in 1 .. Len(s) : s[i] \in S
  BY LenProperties, ElementOfSeq
<1>2. /\ a \in Seq(S) /\ Len(a) = k - 1
      /\ \A i \in 1 .. k - 1 : a[i] = s[i]
  <2>1. \A i \in 1 .. k - 1 : s[i] \in S
    BY <1>1
  <2>2. /\ a \in Seq(S)
        /\ Len(a) = IF 1 <= k - 1 THEN (k - 1) - 1 + 1 ELSE 0
        /\ \A i \in 1 .. (k - 1) - 1 + 1 : a[i] = s[1 + i - 1]
    BY <1>1, <2>1, SubSeqProperties
  <2> QED
    BY <1>1, <2>2
<1>3. /\ b \in Seq(S) /\ Len(b) = Len(s) - k
      /\ \A i \in 1 .. Len(s) - k : b[i] = s[k + i]
  <2>1. \A i \in k + 1 .. Len(s) : s[i] \in S
    BY <1>1
  <2>2. /\ b \in Seq(S)
        /\ Len(b) = IF k + 1 <= Len(s) THEN Len(s) - (k + 1) + 1 ELSE 0
        /\ \A i \in 1 .. Len(s) - (k + 1) + 1 : b[i] = s[(k + 1) + i - 1]
    BY <1>1, <2>1, SubSeqProperties
  <2> QED
    BY <1>1, <2>2
<1> HIDE DEF a, b
<1>4. /\ a \o b \in Seq(S)
      /\ Len(a \o b) = Len(a) + Len(b)
      /\ \A i \in 1 .. Len(a) + Len(b) :
            (a \o b)[i] = IF i <= Len(a) THEN a[i] ELSE b[i - Len(a)]
  BY <1>2, <1>3, ConcatProperties
<1>5. Len(a) + Len(b) = Len(s) - 1
  BY <1>1, <1>2, <1>3
<1>6. ASSUME NEW i \in 1 .. Len(s) - 1
      PROVE  (a \o b)[i] = IF i < k THEN s[i] ELSE s[i + 1]
  <2>1. CASE i < k
    BY <1>1, <1>2, <1>4, <1>5, <2>1
  <2>2. CASE ~(i < k)
    <3>1. i - (k - 1) \in 1 .. Len(s) - k /\ k + (i - (k - 1)) = i + 1 /\ ~(i <= k - 1)
      BY <1>1, <2>2
    <3> QED
      BY <1>2, <1>3, <1>4, <1>5, <2>2, <3>1
  <2> QED
    BY <2>1, <2>2
<1>7. RemoveAt(s, k) = a \o b
  BY DEF RemoveAt, a, b
<1> QED
  BY <1>4, <1>5, <1>6, <1>7

\* list_delete: the element is no longer in the list.
LEMMA Unlinking ==
    ASSUME NEW S, NEW s \in Seq(S), NEW k \in 1 .. Len(s), IsInjective(s)
    PROVE  /\ RemoveAt(s, k) \in Seq(S)
           /\ ToSet(RemoveAt(s, k)) = ToSet(s) \ {s[k]}
           /\ IsInjective(RemoveAt(s, k))
<1> DEFINE t == RemoveAt(s, k)
<1>1. /\ t \in Seq(S) /\ Len(t) = Len(s) - 1
      /\ \A i \in 1 .. Len(s) - 1 : t[i] = IF i < k THEN s[i] ELSE s[i + 1]
  BY RemoveAtElements
<1> HIDE DEF t
<1>2. /\ ToSet(s) = {s[i] : i \in 1 .. Len(s)} /\ Len(s) \in Nat
      /\ \A i, j \in 1 .. Len(s) : s[i] = s[j] => i = j
      /\ ToSet(t) = {t[i] : i \in 1 .. Len(t)}
      /\ IsInjective(t) <=> \A i, j \in 1 .. Len(t) : t[i] = t[j] => i = j
  BY <1>1, SetOfList
<1>3. ASSUME NEW e \in ToSet(t)
      PROVE  e \in ToSet(s) \ {s[k]}
  <2>1. PICK i \in 1 .. Len(t) : e = t[i]
    BY <1>2
  <2>2. i \in 1 .. Len(s) - 1 /\ e = IF i < k THEN s[i] ELSE s[i + 1]
    BY <1>1, <2>1
  <2> QED
    BY <1>2, <2>2
<1>4. ASSUME NEW e \in ToSet(s) \ {s[k]}
      PROVE  e \in ToSet(t)
  <2>1. PICK i \in 1 .. Len(s) : e = s[i]
    BY <1>2
  <2>2. CASE i < k
    BY <1>1, <1>2, <2>1, <2>2
  <2>3. CASE i > k
    <3>1. i - 1 \in 1 .. Len(s) - 1 /\ ~(i - 1 < k) /\ (i - 1) + 1 = i
      BY <1>2, <2>3
    <3>2. t[i - 1] = e
      BY <1>1, <2>1, <3>1
    <3> QED
      BY <1>1, <1>2, <3>1, <3>2
  <2> QED
    BY <1>2, <2>1, <2>2, <2>3
<1>5. IsInjective(t)
  <2> SUFFICES ASSUME NEW i \in 1 .. Len(s) - 1, NEW j \in 1 .. Len(s) - 1, t[i] = t[j]
               PROVE  i = j
    BY <1>1, <1>2
  <2> DEFINE from(n) == IF n < k THEN n ELSE n + 1
  <2>1. from(i) \in 1 .. Len(s) /\ from(j) \in 1 .. Len(s)
    BY <1>2
  <2>2. t[i] = s[from(i)] /\ t[j] = s[from(j)]
    BY <1>1
  <2>3. from(i) = from(j)
    BY <1>2, <2>1, <2>2
  <2> QED
    BY <2>3
<1> QED
  BY <1>1, <1>3, <1>4, <1>5 DEF t

\* The head of a list is its first element; the tail is the list without it.
LEMMA TailUnlinks ==
    ASSUME NEW S, NEW s \in Seq(S), s # <<>>
    PROVE  /\ 1 \in 1 .. Len(s) /\ Head(s) = s[1] /\ Head(s) \in S
           /\ Tail(s) = RemoveAt(s, 1)
           /\ IsInjective(s) => /\ ToSet(Tail(s)) = ToSet(s) \ {Head(s)}
                                /\ IsInjective(Tail(s))
                                /\ Head(s) \in ToSet(s)
<1>1. Len(s) \in Nat \ {0} /\ Head(s) = s[1]
  BY EmptySeq
<1>2. 1 \in 1 .. Len(s)
  BY <1>1
<1>3. /\ RemoveAt(s, 1) \in Seq(S)
      /\ Len(RemoveAt(s, 1)) = Len(s) - 1
      /\ \A i \in 1 .. Len(s) - 1 : RemoveAt(s, 1)[i] = s[i + 1]
  BY <1>2, RemoveAtElements
<1>4. /\ Tail(s) \in Seq(S) /\ Len(Tail(s)) = Len(s) - 1
      /\ \A i \in 1 .. Len(Tail(s)) : Tail(s)[i] = s[i + 1]
  BY HeadTailProperties
<1>5. Tail(s) = RemoveAt(s, 1)
  BY <1>3, <1>4, SeqEqual
<1>6. Head(s) \in S /\ Head(s) \in ToSet(s)
  BY <1>1, <1>2, ElementOfSeq, SetOfList
<1>7. ASSUME IsInjective(s)
      PROVE  ToSet(Tail(s)) = ToSet(s) \ {Head(s)} /\ IsInjective(Tail(s))
  <2>1. /\ ToSet(RemoveAt(s, 1)) = ToSet(s) \ {s[1]}
        /\ IsInjective(RemoveAt(s, 1))
    BY <1>2, <1>7, Unlinking
  <2> QED
    BY <1>1, <1>5, <2>1
<1> QED
  BY <1>1, <1>2, <1>5, <1>6, <1>7
\* The lists one behind the other repeat nothing that they do not repeat alone.
LEMMA Concatenated ==
    ASSUME NEW S, NEW s \in Seq(S), NEW t \in Seq(S),
           IsInjective(s), IsInjective(t), ToSet(s) \cap ToSet(t) = {}
    PROVE  /\ s \o t \in Seq(S)
           /\ IsInjective(s \o t)
           /\ ToSet(s \o t) = ToSet(s) \cup ToSet(t)
<1> DEFINE u == s \o t
<1>1. /\ u \in Seq(S) /\ Len(u) = Len(s) + Len(t)
      /\ \A i \in 1 .. Len(s) + Len(t) : u[i] = IF i <= Len(s) THEN s[i] ELSE t[i - Len(s)]
  BY ConcatProperties
<1> HIDE DEF u
<1>2. /\ ToSet(s) = {s[i] : i \in 1 .. Len(s)} /\ Len(s) \in Nat
      /\ \A i, j \in 1 .. Len(s) : s[i] = s[j] => i = j
      /\ ToSet(t) = {t[i] : i \in 1 .. Len(t)} /\ Len(t) \in Nat
      /\ \A i, j \in 1 .. Len(t) : t[i] = t[j] => i = j
  BY SetOfList
<1>3. /\ ToSet(u) = {u[i] : i \in 1 .. Len(u)}
      /\ IsInjective(u) <=> \A i, j \in 1 .. Len(u) : u[i] = u[j] => i = j
  <2>1. u \in Seq(S)
    BY <1>1
  <2> QED
    BY <2>1, SetOfList
<1>4. \A i \in 1 .. Len(s) : i \in 1 .. Len(u) /\ u[i] = s[i]
  BY <1>1, <1>2
<1>5. \A i \in 1 .. Len(t) : i + Len(s) \in 1 .. Len(u) /\ u[i + Len(s)] = t[i]
  <2> SUFFICES ASSUME NEW i \in 1 .. Len(t)
               PROVE  i + Len(s) \in 1 .. Len(u) /\ u[i + Len(s)] = t[i]
    OBVIOUS
  <2>1. /\ i + Len(s) \in 1 .. Len(s) + Len(t)
        /\ ~(i + Len(s) <= Len(s)) /\ (i + Len(s)) - Len(s) = i
    BY <1>2
  <2> QED
    BY <1>1, <2>1
<1>6. \A i \in 1 .. Len(u) : \/ i \in 1 .. Len(s)
                             \/ i - Len(s) \in 1 .. Len(t) /\ (i - Len(s)) + Len(s) = i
  BY <1>1, <1>2
<1>7. ToSet(u) = ToSet(s) \cup ToSet(t)
  <2>1. \A e \in ToSet(u) : e \in ToSet(s) \cup ToSet(t)
    <3> SUFFICES ASSUME NEW e \in ToSet(u) PROVE e \in ToSet(s) \cup ToSet(t)
      OBVIOUS
    <3>1. PICK i \in 1 .. Len(u) : e = u[i]
      BY <1>3
    <3>2. CASE i \in 1 .. Len(s)
      BY <1>2, <1>4, <3>1, <3>2
    <3>3. CASE i - Len(s) \in 1 .. Len(t) /\ (i - Len(s)) + Len(s) = i
      <4>1. e = t[i - Len(s)]
        BY <1>5, <3>1, <3>3
      <4> QED
        BY <1>2, <3>3, <4>1
    <3> QED
      BY <1>6, <3>2, <3>3
  <2>2. \A e \in ToSet(s) : e \in ToSet(u)
    BY <1>2, <1>3, <1>4
  <2>3. \A e \in ToSet(t) : e \in ToSet(u)
    BY <1>2, <1>3, <1>5
  <2> QED
    BY <2>1, <2>2, <2>3
<1>8. IsInjective(u)
  <2> SUFFICES ASSUME NEW i \in 1 .. Len(u), NEW j \in 1 .. Len(u), u[i] = u[j]
               PROVE  i = j
    BY <1>3
  <2>1. CASE i \in 1 .. Len(s) /\ j \in 1 .. Len(s)
    BY <1>2, <1>4, <2>1
  <2>2. CASE i - Len(s) \in 1 .. Len(t) /\ j - Len(s) \in 1 .. Len(t)
    <3>1. t[i - Len(s)] = t[j - Len(s)]
      BY <1>5, <1>6, <2>2, <1>2
    <3> QED
      BY <1>2, <2>2, <3>1
  <2>3. ASSUME NEW a \in 1 .. Len(u), NEW b \in 1 .. Len(u), u[a] = u[b],
               a \in 1 .. Len(s), b - Len(s) \in 1 .. Len(t)
        PROVE  FALSE
    <3>1. u[a] \in ToSet(s)
      BY <1>2, <1>4, <2>3
    <3>2. u[b] \in ToSet(t)
      <4>1. u[b] = t[b - Len(s)]
        BY <1>2, <1>5, <2>3
      <4> QED
        BY <1>2, <2>3, <4>1
    <3> QED
      BY <2>3, <3>1, <3>2
  <2> QED
    BY <1>6, <2>1, <2>2, <2>3
<1> QED
  BY <1>1, <1>7, <1>8 DEF u

\* A function on 1 .. n is a list of length n.
LEMMA FunctionIsSeq ==
    ASSUME NEW S, NEW n \in Nat, NEW f \in [1 .. n -> S]
    PROVE  f \in Seq(S) /\ Len(f) = n
  BY SeqDef

\* An element entered anywhere in a list.
LEMMA Entering ==
    ASSUME NEW S, NEW s \in Seq(S), NEW e \in S, NEW k \in 0 .. Len(s), NEW t \in Seq(S),
           Len(t) = Len(s) + 1,
           \A j \in 1 .. Len(s) + 1 :
              t[j] = IF j <= k THEN s[j] ELSE IF j = k + 1 THEN e ELSE s[j - 1],
           IsInjective(s), e \notin ToSet(s)
    PROVE  ToSet(t) = ToSet(s) \cup {e} /\ IsInjective(t)
<1>1. /\ ToSet(s) = {s[i] : i \in 1 .. Len(s)} /\ Len(s) \in Nat
      /\ \A i, j \in 1 .. Len(s) : s[i] = s[j] => i = j
      /\ ToSet(t) = {t[i] : i \in 1 .. Len(t)}
      /\ IsInjective(t) <=> \A i, j \in 1 .. Len(t) : t[i] = t[j] => i = j
  BY SetOfList
<1>2. k \in Int /\ k + 1 \in 1 .. Len(t) /\ t[k + 1] = e
  BY <1>1
<1>3. \A j \in 1 .. Len(t) : \/ j <= k /\ j \in 1 .. Len(s) /\ t[j] = s[j]
                             \/ j = k + 1 /\ t[j] = e
                             \/ j > k + 1 /\ j - 1 \in 1 .. Len(s) /\ t[j] = s[j - 1]
  BY <1>1, <1>2
<1>4. ASSUME NEW i \in 1 .. Len(s)
      PROVE  s[i] \in ToSet(t)
  <2>1. CASE i <= k
    <3>1. i \in 1 .. Len(t) /\ t[i] = s[i]
      BY <1>1, <2>1
    <3> QED
      BY <1>1, <3>1
  <2>2. CASE i > k
    <3>1. i + 1 \in 1 .. Len(t) /\ ~(i + 1 <= k) /\ i + 1 # k + 1 /\ (i + 1) - 1 = i
      BY <1>1, <1>2, <2>2
    <3>2. t[i + 1] = s[i]
      BY <3>1
    <3> QED
      BY <1>1, <3>1, <3>2
  <2> QED
    BY <1>2, <2>1, <2>2
<1>5. ToSet(t) = ToSet(s) \cup {e}
  <2>1. \A j \in 1 .. Len(t) : t[j] \in ToSet(s) \cup {e}
    BY <1>1, <1>3
  <2> QED
    BY <1>1, <1>2, <1>4, <2>1
<1>6. IsInjective(t)
  <2> SUFFICES ASSUME NEW i \in 1 .. Len(t), NEW j \in 1 .. Len(t), t[i] = t[j]
               PROVE  i = j
    BY <1>1
  <2>1. i = k + 1 <=> j = k + 1
    <3>1. \A x \in 1 .. Len(t) : x # k + 1 => t[x] \in ToSet(s)
      BY <1>1, <1>3
    <3> QED
      BY <1>2, <3>1
  <2> DEFINE from(n) == IF n <= k THEN n ELSE n - 1
  <2>2. CASE i # k + 1
    <3>1. /\ from(i) \in 1 .. Len(s) /\ t[i] = s[from(i)]
          /\ from(j) \in 1 .. Len(s) /\ t[j] = s[from(j)]
      BY <1>2, <1>3, <2>1, <2>2
    <3>2. from(i) = from(j)
      BY <1>1, <3>1
    <3> QED
      BY <1>2, <2>1, <2>2, <3>2
  <2> QED
    BY <2>1, <2>2
<1> QED
  BY <1>5, <1>6

\* A list cut in two: a is its first n elements, b the others.
IsCut(s, n, a, b) ==
    /\ Len(a) = n /\ \A j \in 1 .. n : a[j] = s[j]
    /\ Len(b) = Len(s) - n /\ \A j \in 1 .. Len(s) - n : b[j] = s[n + j]

LEMMA Splitting ==
    ASSUME NEW S, NEW s \in Seq(S), NEW n \in 0 .. Len(s), NEW a \in Seq(S), NEW b \in Seq(S),
           IsCut(s, n, a, b), IsInjective(s)
    PROVE  /\ IsInjective(a) /\ IsInjective(b)
           /\ ToSet(a) \cap ToSet(b) = {}
           /\ ToSet(a) \cup ToSet(b) = ToSet(s)
<1>1. /\ ToSet(s) = {s[i] : i \in 1 .. Len(s)} /\ Len(s) \in Nat /\ n \in Nat
      /\ \A i, j \in 1 .. Len(s) : s[i] = s[j] => i = j
      /\ ToSet(a) = {a[i] : i \in 1 .. n}
      /\ IsInjective(a) <=> \A i, j \in 1 .. n : a[i] = a[j] => i = j
      /\ ToSet(b) = {b[i] : i \in 1 .. Len(s) - n}
      /\ IsInjective(b) <=> \A i, j \in 1 .. Len(s) - n : b[i] = b[j] => i = j
  <2>1. /\ ToSet(s) = {s[i] : i \in 1 .. Len(s)} /\ Len(s) \in Nat
        /\ \A i, j \in 1 .. Len(s) : s[i] = s[j] => i = j
    BY SetOfList
  <2>2. /\ ToSet(a) = {a[i] : i \in 1 .. Len(a)}
        /\ IsInjective(a) <=> \A i, j \in 1 .. Len(a) : a[i] = a[j] => i = j
    BY SetOfList
  <2>3. /\ ToSet(b) = {b[i] : i \in 1 .. Len(b)}
        /\ IsInjective(b) <=> \A i, j \in 1 .. Len(b) : b[i] = b[j] => i = j
    BY SetOfList
  <2> QED
    BY <2>1, <2>2, <2>3 DEF IsCut
<1> \A j \in 1 .. n : a[j] = s[j]
  BY DEF IsCut
<1> \A j \in 1 .. Len(s) - n : b[j] = s[n + j]
  BY DEF IsCut
<1>2. /\ \A i \in 1 .. n : i \in 1 .. Len(s)
      /\ \A i \in 1 .. Len(s) - n : n + i \in 1 .. Len(s) /\ n + i \notin 1 .. n
      /\ \A i \in 1 .. Len(s) : i \in 1 .. n \/ (i - n \in 1 .. Len(s) - n /\ n + (i - n) = i)
  BY <1>1
<1>3. IsInjective(a)
  BY <1>1, <1>2
<1>4. IsInjective(b)
  <2> SUFFICES ASSUME NEW i \in 1 .. Len(s) - n, NEW j \in 1 .. Len(s) - n, b[i] = b[j]
               PROVE  i = j
    BY <1>1
  <2>1. n + i \in 1 .. Len(s) /\ n + j \in 1 .. Len(s) /\ s[n + i] = s[n + j]
    BY <1>2
  <2>2. n + i = n + j
    BY <1>1, <2>1
  <2> QED
    BY <1>1, <2>2
<1>5. ASSUME NEW e \in ToSet(a), e \in ToSet(b) PROVE FALSE
  <2>1. PICK i \in 1 .. n : e = a[i]
    BY <1>1
  <2>2. PICK j \in 1 .. Len(s) - n : e = b[j]
    BY <1>1, <1>5
  <2>3. i = n + j
    BY <1>1, <1>2, <2>1, <2>2
  <2> QED
    BY <1>2, <2>3
<1>6. \A e \in ToSet(a) \cup ToSet(b) : e \in ToSet(s)
  <2>1. \A i \in 1 .. n : a[i] \in ToSet(s)
    BY <1>1, <1>2
  <2>2. \A i \in 1 .. Len(s) - n : b[i] \in ToSet(s)
    BY <1>1, <1>2
  <2>3. \A e \in ToSet(a) : e \in ToSet(s)
    BY <1>1, <2>1
  <2>4. \A e \in ToSet(b) : e \in ToSet(s)
    BY <1>1, <2>2
  <2> QED
    BY <2>3, <2>4
<1>7. ASSUME NEW e \in ToSet(s) PROVE e \in ToSet(a) \cup ToSet(b)
  <2>1. PICK i \in 1 .. Len(s) : e = s[i]
    BY <1>1
  <2>2. CASE i \in 1 .. n
    BY <1>1, <2>1, <2>2
  <2>3. CASE i - n \in 1 .. Len(s) - n /\ n + (i - n) = i
    <3>1. b[i - n] = e
      BY <2>1, <2>3
    <3> QED
      BY <1>1, <2>3, <3>1
  <2> QED
    BY <1>2, <2>2, <2>3
<1> QED
  BY <1>3, <1>4, <1>5, <1>6, <1>7

\* A list without repetitions is no longer than the set it is drawn from.
LEMMA NoRepetitions ==
    ASSUME NEW S, NEW s \in Seq(S), IsInjective(s), NEW T, IsFiniteSet(T), ToSet(s) \subseteq T
    PROVE  Len(s) <= Cardinality(T)
<1>1. /\ ToSet(s) = {s[i] : i \in 1 .. Len(s)} /\ Len(s) \in Nat
      /\ \A i, j \in 1 .. Len(s) : s[i] = s[j] => i = j
  BY SetOfList
<1> DEFINE f == [i \in 1 .. Len(s) |-> s[i]]
<1>2. f \in Injection(1 .. Len(s), T)
  <2>1. \A i \in 1 .. Len(s) : s[i] \in T
    BY <1>1
  <2>2. f \in [1 .. Len(s) -> T]
    BY <2>1
  <2>3. \A i, j \in 1 .. Len(s) : f[i] = f[j] => i = j
    BY <1>1
  <2> HIDE DEF f
  <2> QED
    BY <2>2, <2>3 DEF Injection, IsInjective
<1>3. IsFiniteSet(1 .. Len(s)) /\ Cardinality(1 .. Len(s)) = Len(s)
  BY <1>1, FS_Interval
<1> HIDE DEF f
<1>4. Cardinality(1 .. Len(s)) <= Cardinality(T)
  BY <1>2, FS_Injection DEF ExistsInjection
<1> QED
  BY <1>3, <1>4

\* SubSeq cuts a list.
LEMMA Cutting ==
    ASSUME NEW S, NEW s \in Seq(S), NEW n \in 0 .. Len(s)
    PROVE  /\ SubSeq(s, 1, n) \in Seq(S) /\ SubSeq(s, n + 1, Len(s)) \in Seq(S)
           /\ IsCut(s, n, SubSeq(s, 1, n), SubSeq(s, n + 1, Len(s)))
<1> DEFINE a == SubSeq(s, 1, n)
           b == SubSeq(s, n + 1, Len(s))
<1>1. Len(s) \in Nat /\ n \in Nat /\ \A i \in 1 .. Len(s) : s[i] \in S
  BY LenProperties, ElementOfSeq
<1>2. a \in Seq(S) /\ Len(a) = n /\ \A i \in 1 .. n : a[i] = s[i]
  <2>1. \A i \in 1 .. n : s[i] \in S
    BY <1>1
  <2>2. /\ a \in Seq(S)
        /\ Len(a) = IF 1 <= n THEN n - 1 + 1 ELSE 0
        /\ \A i \in 1 .. n - 1 + 1 : a[i] = s[1 + i - 1]
    BY <1>1, <2>1, SubSeqProperties
  <2> QED
    BY <1>1, <2>2
<1>3. b \in Seq(S) /\ Len(b) = Len(s) - n /\ \A i \in 1 .. Len(s) - n : b[i] = s[n + i]
  <2>1. \A i \in n + 1 .. Len(s) : s[i] \in S
    BY <1>1
  <2>2. /\ b \in Seq(S)
        /\ Len(b) = IF n + 1 <= Len(s) THEN Len(s) - (n + 1) + 1 ELSE 0
        /\ \A i \in 1 .. Len(s) - (n + 1) + 1 : b[i] = s[(n + 1) + i - 1]
    BY <1>1, <2>1, SubSeqProperties
  <2> QED
    BY <1>1, <2>2
<1> QED
  BY <1>2, <1>3 DEF IsCut

\* A list of elements of S is one of elements of a larger set.
LEMMA SeqMono ==
    ASSUME NEW S, NEW T, S \subseteq T, NEW s \in Seq(S)
    PROVE  s \in Seq(T)
<1>1. Len(s) \in Nat /\ s \in [1 .. Len(s) -> S]
  BY LenProperties
<1>2. s \in [1 .. Len(s) -> T]
  BY <1>1
<1> QED
  BY <1>1, <1>2, FunctionIsSeq

\* An element between two lists.
LEMMA Between ==
    ASSUME NEW S, NEW a \in Seq(S), NEW e \in S, NEW b \in Seq(S)
    PROVE  /\ a \o <<e>> \o b \in Seq(S)
           /\ Len(a \o <<e>> \o b) = Len(a) + 1 + Len(b)
           /\ Len(a) \in Nat /\ Len(b) \in Nat
           /\ \A j \in 1 .. Len(a) + 1 + Len(b) :
                 (a \o <<e>> \o b)[j] = IF j <= Len(a) THEN a[j]
                                        ELSE IF j = Len(a) + 1 THEN e ELSE b[j - Len(a) - 1]
<1> DEFINE c == Append(a, e)
<1>1. a \o <<e>> = c
  BY AppendIsConcat
<1>2. /\ c \in Seq(S) /\ Len(c) = Len(a) + 1 /\ Len(a) \in Nat /\ Len(b) \in Nat
      /\ \A i \in 1 .. Len(a) : c[i] = a[i]
      /\ c[Len(a) + 1] = e
  BY AppendProperties, LenProperties
<1> HIDE DEF c
<1>3. /\ c \o b \in Seq(S) /\ Len(c \o b) = Len(c) + Len(b)
      /\ \A j \in 1 .. Len(c) + Len(b) : (c \o b)[j] = IF j <= Len(c) THEN c[j] ELSE b[j - Len(c)]
  BY <1>2, ConcatProperties
<1>4. ASSUME NEW j \in 1 .. Len(a) + 1 + Len(b)
      PROVE  (c \o b)[j] = IF j <= Len(a) THEN a[j]
                           ELSE IF j = Len(a) + 1 THEN e ELSE b[j - Len(a) - 1]
  <2>1. j \in 1 .. Len(c) + Len(b) /\ j - Len(c) = j - Len(a) - 1
    BY <1>2
  <2>2. (c \o b)[j] = IF j <= Len(a) + 1 THEN c[j] ELSE b[j - Len(a) - 1]
    BY <1>2, <1>3, <2>1
  <2>3. j <= Len(a) => j \in 1 .. Len(a)
    BY <1>2
  <2> QED
    BY <1>2, <2>2, <2>3
<1> QED
  BY <1>1, <1>2, <1>3, <1>4

\* An element leaves, and the last takes its place.
LEMMA LastTakesPlace ==
    ASSUME NEW S, NEW s \in Seq(S), NEW k \in 1 .. Len(s)
    PROVE  /\ Front([s EXCEPT ![k] = s[Len(s)]]) \in Seq(S)
           /\ Len(Front([s EXCEPT ![k] = s[Len(s)]])) = Len(s) - 1
           /\ \A j \in 1 .. Len(s) - 1 :
                 Front([s EXCEPT ![k] = s[Len(s)]])[j] = IF j = k THEN s[Len(s)] ELSE s[j]
<1> DEFINE n == Len(s)
           t == [s EXCEPT ![k] = s[n]]
<1>1. n \in Nat /\ s \in [1 .. n -> S] /\ n \in 1 .. n /\ n - 1 \in 0 .. n
  BY LenProperties
<1>2. t \in [1 .. n -> S] /\ \A j \in 1 .. n : t[j] = IF j = k THEN s[n] ELSE s[j]
  BY <1>1
<1> HIDE DEF t
<1>3. t \in Seq(S) /\ Len(t) = n
  BY <1>1, <1>2, FunctionIsSeq
<1>4. /\ SubSeq(t, 1, n - 1) \in Seq(S) /\ Len(SubSeq(t, 1, n - 1)) = n - 1
      /\ \A j \in 1 .. n - 1 : SubSeq(t, 1, n - 1)[j] = t[j]
  BY <1>1, <1>3, Cutting DEF IsCut
<1>5. Front(t) = SubSeq(t, 1, n - 1)
  BY <1>3 DEF Front
<1>6. \A j \in 1 .. n - 1 : j \in 1 .. n
  BY <1>1
<1> QED
  BY <1>2, <1>4, <1>5, <1>6 DEF t

(***************************************************************************)
(* FlattenSeq, the lists of a list one behind the other: where each of     *)
(* them lies.                                                              *)
(***************************************************************************)
\* F[i] is where the i-th list of ss ends in w.
Joins(ss, F, w) ==
    /\ F[0] = 0 /\ \A i \in 1 .. Len(ss) : F[i] = F[i - 1] + Len(ss[i])
    /\ \A i \in 1 .. Len(ss) : \A j \in 1 .. Len(ss[i]) : w[F[i - 1] + j] = ss[i][j]

LEMMA Strung ==
    ASSUME NEW S, NEW ss \in Seq(Seq(S)), NEW n \in Nat \ {0}, Len(ss) = n
    PROVE  /\ FlattenSeq(ss) \in Seq(S)
           /\ \E F \in [0 .. n -> Nat] :
                 Joins(ss, F, FlattenSeq(ss)) /\ Len(FlattenSeq(ss)) = F[n]
<1>1. PICK f \in [1 .. n -> Seq(S)] :
         /\ f[1] = ss[1] /\ FlattenSeq(ss) = f[n]
         /\ \A i \in 2 .. n : f[i] = f[i - 1] \o ss[i]
  <2> DEFINE IsFlat(f, k) == /\ f \in [1 .. k -> Seq(S)]
                             /\ \A i \in 1 .. k : f[i] = IF i = 1 THEN ss[i] ELSE f[i - 1] \o ss[i]
             T == {k \in 0 .. n : \E f : IsFlat(f, k)}
  <2>1. \A i \in 1 .. n : ss[i] \in Seq(S)
    BY ElementOfSeq
  <2>2. 0 \in T
    <3> DEFINE e == [i \in 1 .. 0 |-> <<>>]
    <3>1. IsFlat(e, 0)
      OBVIOUS
    <3> HIDE DEF IsFlat, e
    <3> QED
      BY <3>1
  <2>3. ASSUME NEW k \in 1 .. n, k - 1 \in T PROVE k \in T
    <3>1. PICK f : IsFlat(f, k - 1)
      BY <2>3
    <3> DEFINE x == IF k = 1 THEN ss[k] ELSE f[k - 1] \o ss[k]
               h == [i \in 1 .. k |-> IF i = k THEN x ELSE f[i]]
    <3>2. x \in Seq(S)
      <4>1. CASE k = 1
        BY <2>1, <4>1
      <4>2. CASE k # 1
        <5>1. f[k - 1] \in Seq(S) /\ ss[k] \in Seq(S)
          BY <2>1, <3>1, <4>2
        <5>2. f[k - 1] \o ss[k] \in Seq(S)
          BY <5>1, ConcatProperties
        <5> QED
          BY <4>2, <5>2
      <4> QED
        BY <4>1, <4>2
    <3>3. \A i \in 1 .. k : h[i] = IF i = k THEN x ELSE f[i]
      OBVIOUS
    <3>4. h \in [1 .. k -> Seq(S)]
      <4> HIDE DEF x
      <4> QED
        BY <3>1, <3>2
    <3>5. x = IF k = 1 THEN ss[k] ELSE f[k - 1] \o ss[k]
      OBVIOUS
    <3> HIDE DEF h, x
    <3>6. \A i \in 1 .. k : h[i] = IF i = 1 THEN ss[i] ELSE h[i - 1] \o ss[i]
      <4> TAKE i \in 1 .. k
      <4>1. i = 1 \/ i - 1 \in 1 .. k
        OBVIOUS
      <4>2. i # 1 => h[i - 1] = f[i - 1]
        BY <3>3, <4>1
      <4>3. CASE i = k
        BY <3>3, <3>5, <4>2, <4>3
      <4>4. CASE i # k
        <5>1. i \in 1 .. k - 1 /\ h[i] = f[i]
          BY <3>3, <4>4
        <5>2. f[i] = IF i = 1 THEN ss[i] ELSE f[i - 1] \o ss[i]
          BY <3>1, <5>1
        <5> QED
          BY <4>2, <5>1, <5>2
      <4> QED
        BY <4>3, <4>4
    <3>7. IsFlat(h, k)
      BY <3>4, <3>6
    <3> HIDE DEF IsFlat
    <3> QED
      BY <3>7
  <2>4. n \in T
    <3>1. 0 .. n \subseteq T
      <4> HIDE DEF T
      <4> QED
        BY <2>2, <2>3, Counting
    <3>2. n \in 0 .. n
      OBVIOUS
    <3> HIDE DEF T
    <3> QED
      BY <3>1, <3>2
  <2>5. PICK f : IsFlat(f, n)
    BY <2>4
  <2> DEFINE flatten[i \in 1 .. n] == IF i = 1 THEN ss[i] ELSE flatten[i - 1] \o ss[i]
  <2>6. FlattenSeq(ss) = flatten[n]
    BY DEF FlattenSeq
  <2>7. flatten = CHOOSE g : g = [i \in 1 .. n |-> IF i = 1 THEN ss[i] ELSE g[i - 1] \o ss[i]]
    OBVIOUS
  <2> HIDE DEF flatten
  <2>8. f = [i \in 1 .. n |-> IF i = 1 THEN ss[i] ELSE f[i - 1] \o ss[i]]
    BY <2>5
  <2>9. flatten = [i \in 1 .. n |-> IF i = 1 THEN ss[i] ELSE flatten[i - 1] \o ss[i]]
    BY ONLY <2>7, <2>8, Zenon
  <2>10. flatten[1] = ss[1] /\ \A i \in 2 .. n : flatten[i] = flatten[i - 1] \o ss[i]
    <3>1. \A i \in 1 .. n : flatten[i] = IF i = 1 THEN ss[i] ELSE flatten[i - 1] \o ss[i]
      BY <2>9
    <3>2. 1 \in 1 .. n /\ \A i \in 2 .. n : i \in 1 .. n /\ i # 1
      OBVIOUS
    <3> QED
      BY <3>1, <3>2
  <2>11. \A i \in 1 .. n : flatten[i] \in Seq(S)
    <3> DEFINE U == {k \in 0 .. n : k = 0 \/ flatten[k] \in Seq(S)}
    <3>1. 0 \in U
      OBVIOUS
    <3>2. ASSUME NEW k \in 1 .. n, k - 1 \in U PROVE k \in U
      <4>1. ss[k] \in Seq(S) /\ k \in 0 .. n
        BY ElementOfSeq
      <4>2. CASE k = 1
        BY <2>10, <4>1, <4>2
      <4>3. CASE k # 1
        <5>1. flatten[k - 1] \in Seq(S) /\ k \in 2 .. n
          BY <3>2, <4>3
        <5>2. flatten[k - 1] \o ss[k] \in Seq(S)
          BY <4>1, <5>1, ConcatProperties
        <5> QED
          BY <2>10, <4>1, <5>1, <5>2
      <4> QED
        BY <4>2, <4>3
    <3>3. 0 .. n \subseteq U
      <4> HIDE DEF U
      <4> QED
        BY <3>1, <3>2, Counting
    <3>4. \A i \in 1 .. n : i \in 0 .. n /\ i # 0
      OBVIOUS
    <3> QED
      BY <3>3, <3>4
  <2>12. flatten \in [1 .. n -> Seq(S)]
    BY <2>9, <2>11
  <2> QED
    BY <2>6, <2>10, <2>12
<1> DEFINE F == [i \in 0 .. n |-> IF i = 0 THEN 0 ELSE Len(f[i])]
           len(i) == Len(ss[i])
<1>2. \A i \in 1 .. n : f[i] \in Seq(S) /\ ss[i] \in Seq(S) /\ Len(f[i]) \in Nat /\ len(i) \in Nat
  <2> TAKE i \in 1 .. n
  <2>1. f[i] \in Seq(S) /\ ss[i] \in Seq(S)
    BY <1>1, ElementOfSeq
  <2> QED
    BY <2>1, LenProperties
<1>3. F[0] = 0 /\ \A i \in 1 .. n : F[i] = Len(f[i])
  OBVIOUS
<1>4. F \in [0 .. n -> Nat]
  BY <1>2
<1> HIDE DEF F
<1>5. \A i \in 2 .. n : /\ Len(f[i]) = Len(f[i - 1]) + len(i)
                        /\ \A j \in 1 .. Len(f[i - 1]) : f[i][j] = f[i - 1][j]
                        /\ \A j \in 1 .. len(i) : f[i][Len(f[i - 1]) + j] = ss[i][j]
  <2> TAKE i \in 2 .. n
  <2> DEFINE s == f[i - 1]
             t == ss[i]
  <2>1. i \in 1 .. n /\ i - 1 \in 1 .. n
    OBVIOUS
  <2>2. s \in Seq(S) /\ t \in Seq(S) /\ Len(s) \in Nat /\ Len(t) \in Nat /\ f[i] = s \o t
    BY <1>1, <1>2, <2>1
  <2> HIDE DEF s, t
  <2>3. /\ Len(f[i]) = Len(s) + Len(t)
        /\ \A j \in 1 .. Len(s) + Len(t) : f[i][j] = IF j <= Len(s) THEN s[j] ELSE t[j - Len(s)]
    BY <2>2, ConcatProperties
  <2>4. \A j \in 1 .. Len(s) : f[i][j] = s[j]
    BY <2>2, <2>3
  <2>5. \A j \in 1 .. Len(t) : f[i][Len(s) + j] = t[j]
    <3> TAKE j \in 1 .. Len(t)
    <3>1. /\ Len(s) + j \in 1 .. Len(s) + Len(t) /\ ~(Len(s) + j <= Len(s))
          /\ Len(s) + j - Len(s) = j
      BY <2>2
    <3> DEFINE m == Len(s) + j
    <3> HIDE DEF m
    <3>2. f[i][m] = IF m <= Len(s) THEN s[m] ELSE t[m - Len(s)]
      BY <2>3, <3>1 DEF m
    <3>3. f[i][m] = t[j]
      BY <3>1, <3>2 DEF m
    <3> QED
      BY <3>3 DEF m
  <2> QED
    BY <2>3, <2>4, <2>5 DEF s, t
<1>6. \A i \in 1 .. n : F[i] = F[i - 1] + len(i)
  <2> TAKE i \in 1 .. n
  <2>1. CASE i = 1
    <3>1. F[1] = len(1) /\ F[1 - 1] = 0 /\ len(1) \in Nat
      BY <1>1, <1>2, <1>3
    <3> QED
      BY <2>1, <3>1
  <2>2. CASE i # 1
    <3>1. i \in 2 .. n /\ i - 1 \in 1 .. n
      BY <2>2
    <3> QED
      BY <1>3, <1>5, <3>1
  <2> QED
    BY <2>1, <2>2
<1> DEFINE Lies(k, i) == \A j \in 1 .. len(i) : /\ F[i - 1] + j \in 1 .. F[k]
                                                /\ f[k][F[i - 1] + j] = ss[i][j]
           T == {k \in 0 .. n : k # 0 => \A i \in 1 .. k : Lies(k, i)}
<1>7. 0 \in T
  OBVIOUS
<1>8. ASSUME NEW k \in 1 .. n, k - 1 \in T PROVE k \in T
  <2>1. /\ F[k] \in Nat /\ F[k - 1] \in Nat /\ len(k) \in Nat
        /\ F[k] = F[k - 1] + len(k) /\ F[k - 1] <= F[k]
    <3>1. F[k] \in Nat /\ F[k - 1] \in Nat /\ len(k) \in Nat /\ F[k] = F[k - 1] + len(k)
      BY <1>2, <1>4, <1>6
    <3> QED
      BY <3>1
  <2>2. Lies(k, k)
    <3> TAKE j \in 1 .. len(k)
    <3>1. F[k - 1] + j \in 1 .. F[k]
      BY <2>1
    <3>2. CASE k = 1
      <4>1. F[k - 1] + j = j /\ f[k] = ss[k]
        BY <1>1, <1>3, <2>1, <3>2
      <4> QED
        BY <3>1, <4>1
    <3>3. CASE k # 1
      <4>1. k \in 2 .. n /\ F[k - 1] = Len(f[k - 1])
        BY <1>3, <3>3
      <4> QED
        BY <1>5, <3>1, <4>1
    <3> QED
      BY <3>2, <3>3
  <2>3. ASSUME NEW i \in 1 .. k - 1 PROVE Lies(k, i)
    <3>1. k \in 2 .. n /\ k - 1 \in 1 .. n /\ F[k - 1] = Len(f[k - 1]) /\ i \in 1 .. n
      BY <1>3
    <3>2. Lies(k - 1, i)
      BY <1>8, <3>1
    <3> HIDE DEF T
    <3> TAKE j \in 1 .. len(i)
    <3>3. F[i - 1] + j \in 1 .. F[k - 1] /\ f[k - 1][F[i - 1] + j] = ss[i][j]
      BY <3>2
    <3>4. f[k][F[i - 1] + j] = ss[i][j]
      BY <1>5, <3>1, <3>3
    <3>5. F[i - 1] + j \in 1 .. F[k]
      <4> DEFINE x == F[i - 1] + j  a == F[k - 1]  c == F[k]
      <4>1. x \in 1 .. a /\ a \in Nat /\ c \in Nat /\ a <= c
        BY <2>1, <3>3
      <4> HIDE DEF x, a, c
      <4>2. x \in 1 .. c
        BY ONLY <4>1
      <4> QED
        BY <4>2 DEF x, c
    <3> QED
      BY <3>4, <3>5
  <2>4. \A i \in 1 .. k : i = k \/ i \in 1 .. k - 1
    OBVIOUS
  <2> HIDE DEF Lies
  <2> QED
    BY <2>2, <2>3, <2>4
<1>9. \A i \in 1 .. n : Lies(n, i)
  <2>1. 0 .. n \subseteq T
    <3> HIDE DEF T
    <3> QED
      BY <1>7, <1>8, Counting
  <2> QED
    BY <2>1
<1>10. FlattenSeq(ss) = f[n] /\ f[n] \in Seq(S) /\ Len(f[n]) = F[n]
  BY <1>1, <1>2, <1>3
<1>11. \A i \in 1 .. n : \A j \in 1 .. Len(ss[i]) : FlattenSeq(ss)[F[i - 1] + j] = ss[i][j]
  BY <1>9, <1>10
<1>12. Joins(ss, F, FlattenSeq(ss))
  BY <1>3, <1>6, <1>11 DEF Joins
<1> QED
  BY <1>4, <1>10, <1>12

=============================================================================
