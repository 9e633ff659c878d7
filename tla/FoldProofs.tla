------------------------------ MODULE FoldProofs ------------------------------
(***************************************************************************)
(* Induction over sequences and over the turns of a loop, for the other    *)
(* modules.  A module that folds, or repeats a step of its own, takes this *)
(* one with Op standing for that step.                                     *)
(***************************************************************************)
EXTENDS Integers, SequencesExt, SequenceTheorems, WellFoundedInduction, TLAPS

CONSTANT Op(_, _)   \* what a step makes of the outcome so far and an element

Fold(base, seq) == FoldLeft(Op, base, seq)

\* The fold's recursion: from the steps over the first places to the one over all.
IsIter(f, base, seq, n) ==
    f = [s \in SUBSET (1..n) |->
           IF s = {} THEN base ELSE Op(f[s \ {Max(s)}], seq[Max(s)])]

\* Every set of naturals has a least member, so what holds of 0 and of the next of
\* each number holds of all.
LEMMA LeastNatural ==
    ASSUME NEW T, T \subseteq Nat, T # {}
    PROVE  \E n \in T : \A m \in T : n <= m
<1> DEFINE R == OpToRel(<, Nat)
<1>1. IsWellFoundedOn(R, Nat)
  BY NatLessThanWellFounded
<1>2. \A n, m \in Nat : <<n, m>> \in R <=> n < m
  BY DEF OpToRel
<1> HIDE DEF R
<1>3. PICK n \in T : \A m \in T : ~ (<<m, n>> \in R)
  BY <1>1, WFMin
<1>4. ASSUME NEW m \in T
      PROVE  n <= m
  <2>1. n \in Nat /\ m \in Nat /\ ~(m < n)
    BY <1>2, <1>3
  <2> QED
    BY <2>1
<1> QED
  BY <1>4

LEMMA SetInduction ==
    ASSUME NEW T, 0 \in T, \A n \in Nat : n \in T => n + 1 \in T
    PROVE  \A n \in Nat : n \in T
<1> SUFFICES ASSUME Nat \ T # {}
             PROVE  FALSE
  OBVIOUS
<1>1. PICK n \in Nat \ T : \A m \in Nat \ T : n <= m
  BY LeastNatural
<1>2. n # 0 /\ n - 1 \in Nat /\ n - 1 \in T /\ (n - 1) + 1 = n
  BY <1>1
<1> QED
  BY <1>1, <1>2

LEMMA MaxOfNext ==
    ASSUME NEW n \in Nat, NEW s \in SUBSET (1..(n + 1)), s # {}
    PROVE  /\ Max(s) \in s
           /\ n + 1 \in s => Max(s) = n + 1 /\ s \ {Max(s)} \in SUBSET (1..n)
           /\ n + 1 \notin s => s \in SUBSET (1..n)
<1> DEFINE T == {m \in Nat : \E x \in s : x = n + 1 - m}
<1>1. PICK w \in s : TRUE
  OBVIOUS
<1>2. T \subseteq Nat /\ n + 1 - w \in T
  BY <1>1
<1>3. PICK m \in T : \A k \in T : m <= k
  BY <1>2, LeastNatural
<1>4. PICK y \in s : y = n + 1 - m
  BY <1>3
<1>5. \A z \in s : y >= z
  <2> TAKE z \in s
  <2>1. n + 1 - z \in T /\ z \in 1..(n + 1)
    OBVIOUS
  <2>2. m <= n + 1 - z /\ m \in Nat /\ y = n + 1 - m
    BY <1>3, <1>4, <2>1
  <2> HIDE DEF T
  <2> QED
    BY <2>1, <2>2
<1>6. Max(s) \in s /\ \A z \in s : Max(s) >= z
  BY <1>5 DEF Max
<1> DEFINE x == Max(s)
<1> HIDE DEF T, x
<1>7. x \in s /\ x \in 1..(n + 1) /\ \A z \in s : x >= z /\ z \in 1..(n + 1)
  BY <1>6 DEF x
<1>8. ASSUME n + 1 \in s
      PROVE  x = n + 1 /\ s \ {x} \in SUBSET (1..n)
  <2>1. x = n + 1
    BY <1>7, <1>8
  <2>2. \A z \in s \ {x} : z \in 1..n
    BY <1>7, <2>1
  <2> QED
    BY <2>1, <2>2
<1>9. ASSUME n + 1 \notin s
      PROVE  s \in SUBSET (1..n)
  <2>1. \A z \in s : z \in 1..n
    BY <1>7, <1>9
  <2> QED
    BY <2>1
<1> QED
  BY <1>7, <1>8, <1>9 DEF x

\* The recursion defines a function, whatever the step.
LEMMA IterExists ==
    ASSUME NEW base, NEW seq
    PROVE  \A n \in Nat : \E f : IsIter(f, base, seq, n)
<1> DEFINE T == {n \in Nat : \E f : IsIter(f, base, seq, n)}
<1>1. 0 \in T
  <2> DEFINE f == [s \in SUBSET (1..0) |-> base]
  <2>1. SUBSET (1..0) = {{}}
    OBVIOUS
  <2>2. IsIter(f, base, seq, 0)
    BY <2>1 DEF IsIter
  <2> QED
    BY <2>2
<1>2. ASSUME NEW n \in Nat, n \in T
      PROVE  n + 1 \in T
  <2>1. PICK f : IsIter(f, base, seq, n)
    BY <1>2
  <2>2. f = [s \in SUBSET (1..n) |->
               IF s = {} THEN base ELSE Op(f[s \ {Max(s)}], seq[Max(s)])]
    BY <2>1 DEF IsIter
  <2> DEFINE g == [s \in SUBSET (1..(n + 1)) |->
                     IF n + 1 \in s THEN Op(f[s \ {n + 1}], seq[n + 1]) ELSE f[s]]
  <2>3. ASSUME NEW s \in SUBSET (1..(n + 1))
        PROVE  g[s] = IF s = {} THEN base ELSE Op(g[s \ {Max(s)}], seq[Max(s)])
    <3>1. CASE s = {}
      BY <2>2, <3>1
    <3>2. CASE s # {} /\ n + 1 \in s
      <4>1. Max(s) = n + 1 /\ s \ {Max(s)} \in SUBSET (1..n)
        BY <3>2, MaxOfNext
      <4>2. g[s \ {Max(s)}] = f[s \ {Max(s)}]
        BY <4>1
      <4>3. g[s] = Op(f[s \ {Max(s)}], seq[Max(s)])
        BY <3>2, <4>1
      <4> QED
        BY <3>2, <4>2, <4>3
    <3>3. CASE s # {} /\ n + 1 \notin s
      <4>1. Max(s) \in s /\ s \in SUBSET (1..n)
        BY <3>3, MaxOfNext
      <4>2. g[s \ {Max(s)}] = f[s \ {Max(s)}]
        BY <3>3, <4>1
      <4>3. g[s] = f[s] /\ f[s] = Op(f[s \ {Max(s)}], seq[Max(s)])
        BY <2>2, <3>3, <4>1
      <4> QED
        BY <3>3, <4>2, <4>3
    <3> QED
      BY <3>1, <3>2, <3>3
  <2>4. IsIter(g, base, seq, n + 1)
    <3>1. g = [s \in SUBSET (1..(n + 1)) |-> g[s]]
      OBVIOUS
    <3> HIDE DEF g
    <3> QED
      BY <2>3, <3>1 DEF IsIter
  <2> HIDE DEF g
  <2> QED
    BY <2>4
<1> HIDE DEF T
<1>3. \A n \in Nat : n \in T
  BY <1>1, <1>2, SetInduction
<1> QED
  BY <1>3 DEF T

\* A fold is the last of a series of outcomes: the first is the base, and each other
\* one is what the step makes of the one before and the element of its place.
THEOREM FoldSteps ==
    ASSUME NEW base, NEW seq, Len(seq) \in Nat, DOMAIN seq = 1..Len(seq)
    PROVE  \E o : /\ o[0] = base
                  /\ \A k \in 1..Len(seq) : o[k] = Op(o[k - 1], seq[k])
                  /\ Fold(base, seq) = o[Len(seq)]
<1> DEFINE n == Len(seq)
           f == CHOOSE g : IsIter(g, base, seq, n)
           o == [k \in 0..n |-> f[1..k]]
<1>1. Fold(base, seq) = f[1..n]
  BY DEF Fold, FoldLeft, MapThenFoldSet, IsIter
<1>2. IsIter(f, base, seq, n)
  BY IterExists
<1> HIDE DEF f
<1>3. o[0] = base
  <2>1. 1..0 = {}
    OBVIOUS
  <2> QED
    BY <1>2, <2>1 DEF IsIter
<1>4. ASSUME NEW k \in 1..n
      PROVE  o[k] = Op(o[k - 1], seq[k])
  <2>1. k \in Nat /\ k - 1 \in Nat /\ (k - 1) + 1 = k
    OBVIOUS
  <2>2. 1..k \in SUBSET (1..n) /\ 1..k # {} /\ k \in 1..k /\ 1..k \in SUBSET (1..((k - 1) + 1))
    <3>1. \A j \in 1..k : j \in 1..n /\ j \in 1..((k - 1) + 1)
      BY <2>1
    <3> QED
      BY <2>1, <3>1
  <2>3. Max(1..k) = k
    BY <2>1, <2>2, MaxOfNext
  <2>4. (1..k) \ {k} = 1..(k - 1)
    BY <2>1
  <2>5. f[1..k] = Op(f[(1..k) \ {Max(1..k)}], seq[Max(1..k)])
    BY <1>2, <2>2 DEF IsIter
  <2>6. f[1..k] = Op(f[1..(k - 1)], seq[k])
    BY <2>3, <2>4, <2>5
  <2>7. o[k] = f[1..k] /\ o[k - 1] = f[1..(k - 1)]
    BY <2>1
  <2> QED
    BY <2>6, <2>7
<1>5. Fold(base, seq) = o[n]
  BY <1>1
<1> HIDE DEF o
<1> QED
  BY <1>3, <1>4, <1>5

\* The outcomes of the first n steps over a sequence.
Series(o, base, t, n) == o[0] = base /\ \A k \in 1..n : o[k] = Op(o[k - 1], t[k])

\* A series of outcomes is settled by its start and its steps.
LEMMA SameSteps ==
    ASSUME NEW o, NEW r, NEW base, NEW t, NEW n \in Nat,
           Series(o, base, t, n), Series(r, base, t, n)
    PROVE  o[n] = r[n]
<1> DEFINE T == {k \in Nat : k <= n => o[k] = r[k]}
<1>1. 0 \in T
  BY DEF Series
<1>2. ASSUME NEW k \in Nat, k \in T
      PROVE  k + 1 \in T
  <2> SUFFICES ASSUME k + 1 <= n
               PROVE  o[k + 1] = r[k + 1]
    OBVIOUS
  <2>1. k + 1 \in 1..n /\ (k + 1) - 1 = k /\ k <= n
    OBVIOUS
  <2>2. o[k + 1] = Op(o[k], t[k + 1]) /\ r[k + 1] = Op(r[k], t[k + 1])
    BY <2>1 DEF Series
  <2> QED
    BY <1>2, <2>1, <2>2
<1> HIDE DEF T
<1>3. n \in T
  BY <1>1, <1>2, SetInduction
<1> QED
  BY <1>3 DEF T

\* The fold over a sequence of two parts goes on with the second where the first ends.
THEOREM FoldConcat ==
    ASSUME NEW base, NEW S, NEW s \in Seq(S), NEW t \in Seq(S)
    PROVE  Fold(base, s \o t) = Fold(Fold(base, s), t)
<1> DEFINE c == s \o t
           n == Len(s)
           m == Len(t)
           mid == Fold(base, s)
<1>1. n \in Nat /\ DOMAIN s = 1..n /\ m \in Nat /\ DOMAIN t = 1..m
  BY LenProperties
<1>2. /\ Len(c) = n + m /\ DOMAIN c = 1..Len(c) /\ Len(c) \in Nat
      /\ \A i \in 1..(n + m) : c[i] = IF i <= n THEN s[i] ELSE t[i - n]
  <2>1. c \in Seq(S) /\ Len(c) = n + m
    BY ConcatProperties
  <2> QED
    BY <2>1, <1>1, ConcatProperties, LenProperties
<1> HIDE DEF c, mid
<1>3. PICK o : Series(o, base, c, n + m) /\ Fold(base, c) = o[n + m]
  <2>1. \E o : Series(o, base, c, Len(c)) /\ Fold(base, c) = o[Len(c)]
    <3>1. Len(c) \in Nat /\ DOMAIN c = 1..Len(c)
      BY <1>2
    <3> QED
      BY <3>1, FoldSteps DEF Series
  <2> QED
    BY <1>2, <2>1
<1>4. PICK a : Series(a, base, s, n) /\ mid = a[n]
  <2>1. Len(s) \in Nat /\ DOMAIN s = 1..Len(s)
    BY <1>1
  <2> QED
    BY <2>1, FoldSteps DEF Series, mid
<1>5. PICK b : Series(b, mid, t, m) /\ Fold(mid, t) = b[m]
  <2>1. \A x : \E b : Series(b, x, t, Len(t)) /\ Fold(x, t) = b[Len(t)]
    <3>1. Len(t) \in Nat /\ DOMAIN t = 1..Len(t)
      BY <1>1
    <3> TAKE x
    <3>2. \E b : /\ b[0] = x
                 /\ \A k \in 1..Len(t) : b[k] = Op(b[k - 1], t[k])
                 /\ Fold(x, t) = b[Len(t)]
      BY <3>1, FoldSteps
    <3> QED
      BY <3>2 DEF Series
  <2> QED
    BY <2>1
<1> HIDE DEF n, m
<1>6. o[n] = mid
  <2>1. \A k \in 1..n : k \in 1..(n + m) /\ c[k] = s[k]
    BY <1>1, <1>2
  <2>2. Series(o, base, s, n)
    BY <1>3, <2>1 DEF Series
  <2> QED
    BY <1>1, <1>4, <2>2, SameSteps
<1>7. o[n + m] = b[m]
  <2> DEFINE r == [k \in 0..m |-> o[n + k]]
  <2>1. \A k \in 1..m : /\ n + k \in 1..(n + m) /\ c[n + k] = t[k]
                        /\ (n + k) - 1 = n + (k - 1) /\ k \in 0..m /\ k - 1 \in 0..m
    BY <1>1, <1>2
  <2>2. r[0] = mid /\ r[m] = o[n + m]
    BY <1>1, <1>6
  <2>3. ASSUME NEW k \in 1..m
        PROVE  r[k] = Op(r[k - 1], t[k])
    <3>1. o[n + k] = Op(o[(n + k) - 1], c[n + k])
      BY <1>3, <2>1 DEF Series
    <3>2. o[n + k] = Op(o[n + (k - 1)], t[k])
      BY <2>1, <3>1
    <3> QED
      BY <2>1, <3>2
  <2> HIDE DEF r
  <2>4. Series(r, mid, t, m)
    BY <2>2, <2>3 DEF Series
  <2>5. r[m] = b[m]
    BY <1>1, <1>5, <2>4, SameSteps
  <2> QED
    BY <2>2, <2>5
<1> QED
  BY <1>3, <1>5, <1>7 DEF c, mid

\* As many turns of the step over a text as it has places.
Turned(base, text) ==
    LET after[n \in Nat] == IF n = 0 THEN base ELSE Op(after[n - 1], text)
    IN after[Len(text)]

\* What n turns come to.
After(o, base, text, n) == o[0] = base /\ \A k \in 1..n : o[k] = Op(o[k - 1], text)

LEMMA AfterExists ==
    ASSUME NEW base, NEW text
    PROVE  \A n \in Nat : \E o : After(o, base, text, n)
<1> DEFINE T == {n \in Nat : \E o : After(o, base, text, n)}
<1>1. 0 \in T
  <2> DEFINE o == [k \in {0} |-> base]
  <2>1. After(o, base, text, 0)
    BY DEF After
  <2> HIDE DEF o
  <2> QED
    BY <2>1
<1>2. ASSUME NEW n \in Nat, n \in T
      PROVE  n + 1 \in T
  <2>1. PICK o : After(o, base, text, n)
    BY <1>2
  <2> DEFINE r == [k \in 0..(n + 1) |-> IF k = n + 1 THEN Op(o[n], text) ELSE o[k]]
  <2>2. r[0] = base /\ r[n + 1] = Op(r[n], text)
    BY <2>1 DEF After
  <2>3. \A k \in 1..n : r[k] = Op(r[k - 1], text)
    <3> TAKE k \in 1..n
    <3>1. o[k] = Op(o[k - 1], text)
      BY <2>1 DEF After
    <3>2. r[k] = o[k] /\ r[k - 1] = o[k - 1]
      OBVIOUS
    <3> QED
      BY <3>1, <3>2
  <2> HIDE DEF r
  <2>4. \A k \in 1..(n + 1) : k \in 1..n \/ (k = n + 1 /\ k - 1 = n)
    OBVIOUS
  <2>5. After(r, base, text, n + 1)
    BY <2>2, <2>3, <2>4 DEF After
  <2> QED
    BY <2>5
<1> HIDE DEF T
<1>3. \A n \in Nat : n \in T
  BY <1>1, <1>2, SetInduction
<1> QED
  BY <1>3 DEF T

LEMMA SameTurns ==
    ASSUME NEW o, NEW r, NEW base, NEW text, NEW n \in Nat, NEW m \in Nat,
           n <= m, After(o, base, text, n), After(r, base, text, m)
    PROVE  o[n] = r[n]
<1> DEFINE T == {k \in Nat : k <= n => o[k] = r[k]}
<1>1. 0 \in T
  BY DEF After
<1>2. ASSUME NEW k \in Nat, k \in T
      PROVE  k + 1 \in T
  <2> SUFFICES ASSUME k + 1 <= n
               PROVE  o[k + 1] = r[k + 1]
    OBVIOUS
  <2>1. k + 1 \in 1..n /\ k + 1 \in 1..m /\ (k + 1) - 1 = k /\ k <= n
    OBVIOUS
  <2>2. o[k + 1] = Op(o[k], text) /\ r[k + 1] = Op(r[k], text)
    BY <2>1 DEF After
  <2> QED
    BY <1>2, <2>1, <2>2
<1> HIDE DEF T
<1>3. n \in T
  BY <1>1, <1>2, SetInduction
<1> QED
  BY <1>3 DEF T

\* The loop's recursion defines a function on all numbers of turns.
THEOREM TurnSteps ==
    ASSUME NEW base, NEW text
    PROVE  \E o : /\ o[0] = base
                  /\ \A n \in Nat : o[n + 1] = Op(o[n], text)
                  /\ Turned(base, text) = o[Len(text)]
<1> DEFINE IsRun(f) == f = [n \in Nat |-> IF n = 0 THEN base ELSE Op(f[n - 1], text)]
           Up(n) == CHOOSE o : After(o, base, text, n)
           r == [n \in Nat |-> Up(n)[n]]
           f == CHOOSE g : IsRun(g)
<1>1. \A n \in Nat : After(Up(n), base, text, n)
  BY AfterExists
<1> HIDE DEF Up
<1>2. r[0] = base
  BY <1>1 DEF After
<1>3. ASSUME NEW n \in Nat
      PROVE  r[n + 1] = Op(r[n], text)
  <2>1. After(Up(n), base, text, n) /\ After(Up(n + 1), base, text, n + 1)
    BY <1>1
  <2>2. Up(n)[n] = Up(n + 1)[n]
    <3> DEFINE m == n + 1
    <3>1. m \in Nat /\ n <= m /\ After(Up(m), base, text, m)
      BY <2>1
    <3> HIDE DEF m
    <3>2. Up(n)[n] = Up(m)[n]
      BY <2>1, <3>1, SameTurns
    <3> QED
      BY <3>2 DEF m
  <2>3. n + 1 \in 1..(n + 1) /\ (n + 1) - 1 = n
    OBVIOUS
  <2>4. Up(n + 1)[n + 1] = Op(Up(n + 1)[n], text)
    BY <2>1, <2>3 DEF After
  <2> QED
    BY <2>2, <2>4
<1>4. IsRun(r)
  <2>1. r = [n \in Nat |-> r[n]]
    OBVIOUS
  <2>2. ASSUME NEW n \in Nat
        PROVE  r[n] = IF n = 0 THEN base ELSE Op(r[n - 1], text)
    <3>1. CASE n = 0
      BY <1>2, <3>1
    <3>2. CASE n # 0
      <4>1. n - 1 \in Nat /\ (n - 1) + 1 = n
        BY <3>2
      <4> HIDE DEF r
      <4> QED
        BY <1>3, <3>2, <4>1
    <3> QED
      BY <3>1, <3>2
  <2> HIDE DEF r
  <2> QED
    BY <2>1, <2>2
<1>5. IsRun(f)
  <2> HIDE DEF IsRun, r
  <2> QED
    BY <1>4
<1>6. Turned(base, text) = f[Len(text)]
  BY DEF Turned
<1> HIDE DEF f
<1>7. f[0] = base /\ \A n \in Nat : f[n + 1] = Op(f[n], text)
  <2>1. f = [n \in Nat |-> IF n = 0 THEN base ELSE Op(f[n - 1], text)]
    BY <1>5
  <2>2. f[0] = base
    BY <2>1
  <2>3. ASSUME NEW n \in Nat
        PROVE  f[n + 1] = Op(f[n], text)
    <3>1. n + 1 \in Nat /\ n + 1 # 0 /\ (n + 1) - 1 = n
      OBVIOUS
    <3>2. f[n + 1] = Op(f[(n + 1) - 1], text)
      BY <2>1, <3>1
    <3> QED
      BY <3>1, <3>2
  <2> QED
    BY <2>2, <2>3
<1> QED
  BY <1>6, <1>7
=============================================================================
