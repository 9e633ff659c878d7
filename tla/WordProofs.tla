------------------------------ MODULE WordProofs ------------------------------
(***************************************************************************)
(* Theorems about Lexer, for every alphabet and texts of any length: how   *)
(* words are cut into parts, and what the reading keeps.                   *)
(***************************************************************************)
EXTENDS LexerProofs, FiniteSetTheorems

Ext == INSTANCE FoldProofs WITH Op <- ExtractTurn
Opd == INSTANCE FoldProofs WITH Op <- OperandTurn
Prt == INSTANCE FoldProofs WITH Op <- WordPartTurn
Spl == INSTANCE FoldProofs WITH Op <- WithSource

USE DEF Tick, Space, Semicolon, OpenBrace, CloseBrace, DQuote, Underscore, End

\* ------------------------------ parentheses ------------------------------

CountOf(s, c, n) == Cardinality({i \in 1..n : s[i] = c})

\* How many parentheses are open after n characters.
Height(s, n) == CountOf(s, "(", n) - CountOf(s, ")", n)

LEMMA CountFacts ==
    ASSUME NEW s, NEW c, NEW n \in Nat
    PROVE  /\ CountOf(s, c, 0) = 0
           /\ CountOf(s, c, n) \in Nat
           /\ CountOf(s, c, n + 1) = CountOf(s, c, n) + IF s[n + 1] = c THEN 1 ELSE 0
<1> DEFINE S == {i \in 1..n : s[i] = c}
           T == {i \in 1..(n + 1) : s[i] = c}
<1>1. CountOf(s, c, 0) = 0
  <2>1. {i \in 1..0 : s[i] = c} = {}
    OBVIOUS
  <2> QED
    BY <2>1, FS_EmptySet DEF CountOf
<1>2. IsFiniteSet(S)
  <2>1. IsFiniteSet(1..n)
    BY FS_Interval
  <2> QED
    BY <2>1, FS_Subset
<1>3. Cardinality(S) \in Nat
  BY <1>2, FS_CardinalityType
<1>4. CASE s[n + 1] = c
  <2>1. T = S \cup {n + 1} /\ n + 1 \notin S
    BY <1>4
  <2> HIDE DEF S, T
  <2>2. Cardinality(T) = Cardinality(S) + 1
    BY <1>2, <2>1, FS_AddElement
  <2> QED
    BY <1>1, <1>3, <1>4, <2>2 DEF CountOf, S, T
<1>5. CASE s[n + 1] # c
  <2>1. T = S
    BY <1>5
  <2> HIDE DEF S, T
  <2>2. Cardinality(T) = Cardinality(S) + 0
    BY <1>3, <2>1
  <2> QED
    BY <1>1, <1>3, <1>5, <2>2 DEF CountOf, S, T
<1> QED
  BY <1>4, <1>5

LEMMA HeightFacts ==
    ASSUME NEW s, NEW n \in Nat
    PROVE  /\ Height(s, 0) = 0
           /\ Height(s, n) \in Int
           /\ s[n + 1] = "(" => Height(s, n + 1) = Height(s, n) + 1
           /\ s[n + 1] = ")" => Height(s, n + 1) = Height(s, n) - 1
           /\ s[n + 1] \notin {"(", ")"} => Height(s, n + 1) = Height(s, n)
<1> DEFINE a == CountOf(s, "(", n)
           b == CountOf(s, ")", n)
           c == CountOf(s, "(", n + 1)
           d == CountOf(s, ")", n + 1)
<1>1. /\ a \in Nat /\ b \in Nat
      /\ c = a + IF s[n + 1] = "(" THEN 1 ELSE 0
      /\ d = b + IF s[n + 1] = ")" THEN 1 ELSE 0
  BY CountFacts
<1>2. Height(s, 0) = 0
  BY CountFacts DEF Height
<1>3. Height(s, n) = a - b /\ Height(s, n + 1) = c - d
  BY DEF Height
<1> HIDE DEF a, b, c, d
<1> QED
  BY <1>1, <1>2, <1>3

LEMMA PieceHeight ==
    ASSUME NEW s \in Text, NEW m \in 1..(Len(s) + 1), NEW n \in Int, n <= Len(s)
    PROVE  \A k \in 0..(n - m + 1) :
               Height(SubSeq(s, m, n), k) = Height(s, m + k - 1) - Height(s, m - 1)
<1> DEFINE t == SubSeq(s, m, n)
           l == n - m + 1
           Same(k) == Height(t, k) = Height(s, m + k - 1) - Height(s, m - 1)
           T == {k \in Nat : k \in 0..l => Same(k)}
<1>1. Len(s) \in Nat /\ m \in Nat /\ m - 1 \in Nat
  BY TextFacts
<1>2. \A i \in 1..l : t[i] = s[m + i - 1]
  <2>1. m \in Int /\ 1 <= m
    OBVIOUS
  <2> QED
    BY <2>1, PieceFacts
<1> HIDE DEF t, l
<1>3. 0 \in T
  <2>1. Height(t, 0) = 0 /\ Height(s, m - 1) \in Int /\ m + 0 - 1 = m - 1
    BY <1>1, HeightFacts
  <2> QED
    BY <2>1
<1>4. ASSUME NEW k \in Nat, k \in T
      PROVE  k + 1 \in T
  <2> SUFFICES ASSUME k + 1 \in 0..l
               PROVE  Same(k + 1)
    OBVIOUS
  <2>1. l \in Int /\ k \in 0..l /\ k + 1 \in 1..l
    BY <1>1 DEF l
  <2> DEFINE j == m + k - 1
  <2>2. j \in Nat /\ m + (k + 1) - 1 = j + 1
    BY <1>1
  <2>3. t[k + 1] = s[j + 1]
    BY <1>2, <2>1, <2>2
  <2>4. Height(t, k) = Height(s, j) - Height(s, m - 1)
    BY <1>4, <2>1
  <2> HIDE DEF j
  <2>5. Height(s, j) \in Int /\ Height(s, m - 1) \in Int /\ Height(t, k) \in Int
    BY <1>1, <2>2, HeightFacts
  <2>6. Height(t, k + 1) - Height(t, k) = Height(s, j + 1) - Height(s, j)
    <3>1. CASE t[k + 1] = "("
      <4>1. Height(t, k + 1) = Height(t, k) + 1 /\ Height(s, j + 1) = Height(s, j) + 1
        BY <2>2, <2>3, <3>1, HeightFacts
      <4> QED
        BY <2>5, <4>1
    <3>2. CASE t[k + 1] = ")"
      <4>1. Height(t, k + 1) = Height(t, k) - 1 /\ Height(s, j + 1) = Height(s, j) - 1
        BY <2>2, <2>3, <3>2, HeightFacts
      <4> QED
        BY <2>5, <4>1
    <3>3. CASE t[k + 1] \notin {"(", ")"}
      <4>1. Height(t, k + 1) = Height(t, k) /\ Height(s, j + 1) = Height(s, j)
        BY <2>2, <2>3, <3>3, HeightFacts
      <4> QED
        BY <2>5, <4>1
    <3> QED
      BY <3>1, <3>2, <3>3
  <2>7. Height(t, k + 1) \in Int /\ Height(s, j + 1) \in Int
    BY <2>2, HeightFacts
  <2>8. Height(t, k + 1) = Height(s, j + 1) - Height(s, m - 1)
    BY <2>4, <2>5, <2>6, <2>7
  <2> QED
    BY <2>2, <2>8
<1> HIDE DEF T
<1>5. \A k \in Nat : k \in T
  BY <1>3, <1>4, Ext!SetInduction
<1> QED
  BY <1>5 DEF T, t, l

LEMMA HeightBalanced ==
    ASSUME NEW t \in Text, \A n \in 1..Len(t) : Height(t, n) >= 0, Height(t, Len(t)) = 0
    PROVE  Balanced(t)
<1>1. Len(t) \in Nat /\ DOMAIN t = 1..Len(t)
  BY TextFacts
<1>2. \A n \in Nat : CountOf(t, "(", n) \in Nat /\ CountOf(t, ")", n) \in Nat
  BY CountFacts
<1>3. \A n \in DOMAIN t : CountOf(t, ")", n) <= CountOf(t, "(", n)
  <2> TAKE n \in DOMAIN t
  <2>1. n \in Nat /\ Height(t, n) >= 0
    BY <1>1
  <2>2. CountOf(t, "(", n) - CountOf(t, ")", n) >= 0
    BY <2>1 DEF Height
  <2>3. CountOf(t, "(", n) \in Nat /\ CountOf(t, ")", n) \in Nat
    BY <1>2, <2>1
  <2> QED
    BY <2>2, <2>3
<1>4. CountOf(t, ")", Len(t)) = CountOf(t, "(", Len(t))
  <2>1. CountOf(t, "(", Len(t)) - CountOf(t, ")", Len(t)) = 0
    BY DEF Height
  <2>2. CountOf(t, "(", Len(t)) \in Nat /\ CountOf(t, ")", Len(t)) \in Nat
    BY <1>1, <1>2
  <2> QED
    BY <2>1, <2>2
<1> QED
  BY <1>3, <1>4 DEF Balanced, CountOf

\* ---------------------- the inside of a substitution ---------------------

IsStop(stop) == stop = <<")">> \/ stop = <<")", ")">>

\* Since i no more parentheses were closed than opened.
Open(w, i, k) == \A j \in i..k : Height(w, j) >= Height(w, i - 1)

\* A search from i for the closing parenthesis.
IsExtract(x, w, i, stop) ==
    /\ x \in [st : {"err", "ok", "panic"}, to : Nat, last : Nat, depth : Nat, stop : {stop}]
    /\ x.to \in i..(Len(w) + 1)
    /\ x.st # "ok" => /\ x.depth >= 1
                      /\ x.depth = 1 + Height(w, x.to - 1) - Height(w, i - 1)
                      /\ Open(w, i, x.to - 1)
    /\ x.st = "panic" => x.to \in i..Len(w) /\ w[x.to] \in Wide
    /\ x.st = "ok" => /\ x.last \in (i - 1)..(Len(w) - 1)
                      /\ w[x.last + 1] = ")"
                      /\ \/ x.to = x.last + 2
                         \/ x.to = x.last + 3 /\ stop = <<")", ")">> /\ w[x.last + 2] = ")"
                      /\ Height(w, x.last) = Height(w, i - 1)
                      /\ Open(w, i, x.last)

IsLeft(c) == c = "("
IsRight(c) == c = ")"

LEMMA ExtractCases ==
    ASSUME NEW w, NEW x
    PROVE  LET y == ExtractTurn(x, w)
               c == At(w, x.to)
               both == Len(x.stop) = 2 /\ At(w, x.to + 1) = ")"
           IN /\ x.st # "err" \/ c = End => y = x
              /\ x.st = "err" /\ IsRight(c) /\ x.depth = 1 =>
                     y = [x EXCEPT !.st = "ok", !.last = x.to - 1,
                                   !.to = x.to + IF both THEN 2 ELSE 1]
              /\ x.st = "err" /\ IsRight(c) /\ x.depth # 1 =>
                     y = [x EXCEPT !.to = x.to + 1, !.depth = x.depth - 1]
              /\ x.st = "err" /\ IsLeft(c) =>
                     y = [x EXCEPT !.to = x.to + 1, !.depth = x.depth + 1]
              /\ x.st = "err" /\ c \in Wide /\ x.depth = 1 => y = [x EXCEPT !.st = "panic"]
              /\ x.st = "err" /\ c \notin {End, "(", ")"} /\ ~(c \in Wide /\ x.depth = 1) =>
                     y = [x EXCEPT !.to = x.to + 1, !.depth = x.depth]
<1> DEFINE y == ExtractTurn(x, w)
           c == At(w, x.to)
           both == Len(x.stop) = 2 /\ At(w, x.to + 1) = ")"
<1>1. \A d \in Wide : d \notin {"(", ")", End}
  <2> TAKE d \in Wide
  <2>1. d \notin Mark /\ d \in Char
    BY KindFacts
  <2> QED
    BY <2>1 DEF Mark, NotInWord, Char
<1>2. ASSUME x.st # "err" \/ c = End PROVE y = x
  <2>1. CASE x.st # "err"
    BY <2>1 DEF ExtractTurn
  <2>2. CASE c = End
    BY <1>1, <2>2 DEF ExtractTurn
  <2> QED
    BY <1>2, <2>1, <2>2
<1>3. ASSUME x.st = "err", c = ")", x.depth = 1
      PROVE  y = [x EXCEPT !.st = "ok", !.last = x.to - 1, !.to = x.to + IF both THEN 2 ELSE 1]
  BY <1>1, <1>3 DEF ExtractTurn
<1>4. ASSUME x.st = "err", c = ")", x.depth # 1
      PROVE  y = [x EXCEPT !.to = x.to + 1, !.depth = x.depth - 1]
  BY <1>1, <1>4 DEF ExtractTurn
<1>5. ASSUME x.st = "err", c = "("
      PROVE  y = [x EXCEPT !.to = x.to + 1, !.depth = x.depth + 1]
  BY <1>1, <1>5 DEF ExtractTurn
<1>6. ASSUME x.st = "err", c \in Wide, x.depth = 1
      PROVE  y = [x EXCEPT !.st = "panic"]
  BY <1>1, <1>6 DEF ExtractTurn
<1>7. ASSUME x.st = "err", c \notin {End, "(", ")"}, ~(c \in Wide /\ x.depth = 1)
      PROVE  y = [x EXCEPT !.to = x.to + 1, !.depth = x.depth]
  BY <1>7 DEF ExtractTurn
<1> HIDE DEF y, c, both
<1>8. /\ x.st # "err" \/ c = End => y = x
      /\ x.st = "err" /\ IsRight(c) /\ x.depth = 1 =>
             y = [x EXCEPT !.st = "ok", !.last = x.to - 1, !.to = x.to + IF both THEN 2 ELSE 1]
      /\ x.st = "err" /\ IsRight(c) /\ x.depth # 1 =>
             y = [x EXCEPT !.to = x.to + 1, !.depth = x.depth - 1]
      /\ x.st = "err" /\ IsLeft(c) => y = [x EXCEPT !.to = x.to + 1, !.depth = x.depth + 1]
      /\ x.st = "err" /\ c \in Wide /\ x.depth = 1 => y = [x EXCEPT !.st = "panic"]
      /\ x.st = "err" /\ c \notin {End, "(", ")"} /\ ~(c \in Wide /\ x.depth = 1) =>
             y = [x EXCEPT !.to = x.to + 1, !.depth = x.depth]
  BY <1>2, <1>3, <1>4, <1>5, <1>6, <1>7 DEF IsLeft, IsRight
<1> QED
  BY <1>8 DEF y, c, both

LEMMA ExtractStep ==
    ASSUME NEW w \in Text, NEW i \in 1..(Len(w) + 1), NEW stop, IsStop(stop),
           NEW x, IsExtract(x, w, i, stop)
    PROVE  LET y == ExtractTurn(x, w)
           IN /\ IsExtract(y, w, i, stop)
              /\ x.st # "err" => y = x
              /\ x.st = "err" /\ x.to <= Len(w) => y.st # "err" \/ y.to = x.to + 1
<1> DEFINE n == Len(w)
           to == x.to
           d == x.depth
           c == At(w, to)
           y == ExtractTurn(x, w)
           X == [st : {"err", "ok", "panic"}, to : Nat, last : Nat, depth : Nat, stop : {stop}]
           both == Len(x.stop) = 2 /\ At(w, to + 1) = ")"
<1>1. /\ n \in Nat /\ i \in Nat /\ i >= 1 /\ to \in Nat /\ to \in i..(n + 1) /\ d \in Nat
      /\ x \in X /\ x.stop = stop
      /\ c # End => to \in 1..n /\ w[to] = c
      /\ c = End => to = n + 1
  <2>1. n \in Nat /\ to \in i..(n + 1) /\ x \in X
    BY TextFacts DEF IsExtract
  <2>2. to \in Int /\ to \in 1..(n + 1)
    BY <2>1
  <2>3. to \in 1..n => c # End
    BY <2>2, TextFacts
  <2>4. c # End => to \in 1..n /\ w[to] = c
    BY <2>2, TextFacts
  <2>5. to = n + 1 \/ to \in 1..n
    BY <2>1, <2>2
  <2> HIDE DEF c, n, to
  <2>6. c = End => to = n + 1
    BY <2>3, <2>5
  <2> QED
    BY <2>1, <2>2, <2>4, <2>6 DEF to
<1>2. CASE x.st # "err" \/ c = End
  <2>1. y = x
    BY <1>2, ExtractCases
  <2>2. x.st = "err" => ~(x.to <= n)
    BY <1>1, <1>2
  <2> QED
    BY <2>1, <2>2
<1>3. CASE x.st = "err" /\ c # End
  <2>1. /\ to \in 1..n /\ to \in i..n /\ w[to] = c /\ to - 1 \in Nat /\ (to - 1) + 1 = to
        /\ i - 1 \in Nat /\ to + 1 \in Nat /\ (to + 1) - 1 = to
    BY <1>1, <1>3
  <2> DEFINE h == Height(w, to - 1)
             g == Height(w, to)
             b == Height(w, i - 1)
  <2>2. /\ d >= 1 /\ d = 1 + h - b /\ Open(w, i, to - 1)
    BY <1>3 DEF IsExtract
  <2>3. /\ h \in Int /\ b \in Int
        /\ w[to] = "(" => g = h + 1
        /\ w[to] = ")" => g = h - 1
        /\ w[to] \notin {"(", ")"} => g = h
    BY <2>1, HeightFacts
  <2>4. /\ c = ")" /\ d = 1 => y = [x EXCEPT !.st = "ok", !.last = to - 1,
                                             !.to = to + IF both THEN 2 ELSE 1]
        /\ c = ")" /\ d # 1 => y = [x EXCEPT !.to = to + 1, !.depth = d - 1]
        /\ c = "(" => y = [x EXCEPT !.to = to + 1, !.depth = d + 1]
        /\ c \in Wide /\ d = 1 => y = [x EXCEPT !.st = "panic"]
        /\ c \notin {End, "(", ")"} /\ ~(c \in Wide /\ d = 1) =>
               y = [x EXCEPT !.to = to + 1, !.depth = d]
    <3>1. x.st = "err" /\ IsRight(c) /\ x.depth = 1 =>
              y = [x EXCEPT !.st = "ok", !.last = x.to - 1, !.to = x.to + IF both THEN 2 ELSE 1]
      BY ExtractCases
    <3>2. x.st = "err" /\ IsRight(c) /\ x.depth # 1 =>
              y = [x EXCEPT !.to = x.to + 1, !.depth = x.depth - 1]
      BY ExtractCases
    <3>3. x.st = "err" /\ IsLeft(c) => y = [x EXCEPT !.to = x.to + 1, !.depth = x.depth + 1]
      BY ExtractCases
    <3>4. x.st = "err" /\ c \in Wide /\ x.depth = 1 => y = [x EXCEPT !.st = "panic"]
      BY ExtractCases
    <3>5. x.st = "err" /\ c \notin {End, "(", ")"} /\ ~(c \in Wide /\ x.depth = 1) =>
              y = [x EXCEPT !.to = x.to + 1, !.depth = x.depth]
      BY ExtractCases
    <3> HIDE DEF y, c, both
    <3> QED
      BY <1>3, <3>1, <3>2, <3>3, <3>4, <3>5 DEF IsLeft, IsRight
  <2>5. g >= b => Open(w, i, to)
    <3> SUFFICES ASSUME g >= b, NEW j \in i..to
                 PROVE  Height(w, j) >= b
      BY DEF Open
    <3>1. j \in i..(to - 1) \/ j = to
      BY <1>1, <2>1
    <3> QED
      BY <2>2, <3>1 DEF Open
  \* Going on to the next character, at depth e.
  <2>6. ASSUME NEW e \in Nat, e >= 1, e = 1 + g - b, y = [x EXCEPT !.to = to + 1, !.depth = e]
        PROVE  IsExtract(y, w, i, stop) /\ y.to = to + 1
    <3>1. y \in X /\ y.to = to + 1 /\ y.depth = e /\ y.st = "err"
      BY <1>1, <1>3, <2>1, <2>6
    <3>2. Open(w, i, to)
      <4>1. g \in Int
        BY <2>1, HeightFacts
      <4> HIDE DEF g, b
      <4>2. g >= b
        BY <2>3, <2>6, <4>1
      <4> QED
        BY <2>5, <4>2 DEF b
    <3>3. to + 1 \in i..(n + 1)
      BY <1>1, <2>1
    <3> HIDE DEF y, d, c, to, n
    <3> QED
      BY <2>1, <2>6, <3>1, <3>2, <3>3 DEF IsExtract, n
  <2>7. CASE c = ")" /\ d = 1
    <3>1. y = [x EXCEPT !.st = "ok", !.last = to - 1, !.to = to + IF both THEN 2 ELSE 1]
      BY <2>4, <2>7
    <3>2. /\ y \in X /\ y.st = "ok" /\ y.last = to - 1
          /\ y.to = to + IF both THEN 2 ELSE 1
      <4>1. to + (IF both THEN 2 ELSE 1) \in Nat
        BY <1>1
      <4> HIDE DEF both
      <4> QED
        BY <1>1, <2>1, <3>1, <4>1
    <3>3. both => to + 1 \in 1..n /\ w[to + 1] = ")" /\ stop = <<")", ")">>
      <4> SUFFICES ASSUME both PROVE to + 1 \in 1..n /\ w[to + 1] = ")" /\ stop = <<")", ")">>
        OBVIOUS
      <4>1. to + 1 \in Int /\ At(w, to + 1) # End
        BY <2>1
      <4>2. stop = <<")", ")">>
        BY <1>1 DEF IsStop
      <4> QED
        BY <4>1, <4>2, TextFacts
    <3>4. h = b
      BY <2>2, <2>3, <2>7
    <3>5. /\ y.last \in (i - 1)..(n - 1) /\ y.last + 1 = to
          /\ y.to \in i..(n + 1)
          /\ \/ y.to = y.last + 2
             \/ y.to = y.last + 3 /\ both /\ y.last + 2 = to + 1
      <4> HIDE DEF both, y, to
      <4> QED
        BY <1>1, <2>1, <3>2, <3>3
    <3>6. Height(w, y.last) = b /\ Open(w, i, y.last)
      BY <2>2, <3>2, <3>4
    <3> HIDE DEF y, both, d, c
    <3>7. IsExtract(y, w, i, stop)
      BY <2>1, <2>7, <3>2, <3>3, <3>5, <3>6 DEF IsExtract, c
    <3> QED
      BY <1>3, <3>2, <3>7 DEF y
  <2>8. CASE c = ")" /\ d # 1
    <3>1. d - 1 \in Nat /\ d - 1 >= 1 /\ d - 1 = 1 + g - b
      <4> HIDE DEF d, g, h, b, c
      <4> QED
        BY <1>1, <2>1, <2>2, <2>3, <2>8
    <3>2. y = [x EXCEPT !.to = to + 1, !.depth = d - 1]
      BY <2>4, <2>8
    <3> HIDE DEF y, d, g, b
    <3> QED
      BY <1>3, <2>6, <3>1, <3>2 DEF y
  <2>9. CASE c = "("
    <3>1. d + 1 \in Nat /\ d + 1 >= 1 /\ d + 1 = 1 + g - b
      <4> HIDE DEF d, g, h, b, c
      <4> QED
        BY <1>1, <2>1, <2>2, <2>3, <2>9
    <3>2. y = [x EXCEPT !.to = to + 1, !.depth = d + 1]
      BY <2>4, <2>9
    <3> HIDE DEF y, d, g, b
    <3> QED
      BY <1>3, <2>6, <3>1, <3>2 DEF y
  <2>10. CASE c \in Wide /\ d = 1
    <3>1. y = [x EXCEPT !.st = "panic"]
      BY <2>4, <2>10
    <3>2. /\ y \in X /\ y.st = "panic" /\ y.to = to /\ y.depth = d
      BY <1>1, <3>1
    <3> HIDE DEF y
    <3>3. IsExtract(y, w, i, stop)
      BY <1>1, <2>1, <2>2, <2>10, <3>2 DEF IsExtract
    <3> QED
      BY <1>3, <3>2, <3>3 DEF y
  <2>11. CASE c \notin {"(", ")"} /\ ~(c \in Wide /\ d = 1)
    <3>1. d = 1 + g - b
      BY <2>1, <2>2, <2>3, <2>11
    <3>2. y = [x EXCEPT !.to = to + 1, !.depth = d]
      BY <1>3, <2>4, <2>11
    <3> HIDE DEF y, g, b
    <3> QED
      BY <1>1, <1>3, <2>2, <2>6, <3>1, <3>2 DEF y
  <2> QED
    BY <2>7, <2>8, <2>9, <2>10, <2>11
<1> QED
  BY <1>2, <1>3

LEMMA ExtractRun ==
    ASSUME NEW w, NEW start
    PROVE  \E o : /\ o[0] = start
                  /\ \A n \in Nat : o[n + 1] = ExtractTurn(o[n], w)
                  /\ Turns(ExtractTurn, start, w) = o[Len(w)]
<1>1. Turns(ExtractTurn, start, w) = Ext!Turned(start, w)
  BY DEF Turns, Ext!Turned
<1>2. \E o : /\ o[0] = start
             /\ \A n \in Nat : o[n + 1] = ExtractTurn(o[n], w)
             /\ Ext!Turned(start, w) = o[Len(w)]
  BY Ext!TurnSteps
<1> QED
  BY <1>1, <1>2

LEMMA ExtractSteps ==
    ASSUME NEW w \in Text, NEW i \in 1..(Len(w) + 1), NEW stop, IsStop(stop)
    PROVE  \E o : /\ o[0] = [st |-> "err", to |-> i, last |-> i, depth |-> 1, stop |-> stop]
                  /\ \A n \in Nat : /\ o[n + 1] = ExtractTurn(o[n], w)
                                    /\ IsExtract(o[n], w, i, stop)
                  /\ ExtractBalanced(w, i, stop) = o[Len(w)]
<1> DEFINE start == [st |-> "err", to |-> i, last |-> i, depth |-> 1, stop |-> stop]
<1>1. ExtractBalanced(w, i, stop) = Turns(ExtractTurn, start, w)
  BY DEF ExtractBalanced
<1>2. IsExtract(start, w, i, stop)
  <2>1. Len(w) \in Nat /\ i \in Nat /\ i - 1 \in Nat
    BY TextFacts
  <2>2. Height(w, i - 1) \in Int
    BY <2>1, HeightFacts
  <2>3. Open(w, i, i - 1)
    <3>1. i..(i - 1) = {}
      BY <2>1
    <3> QED
      BY <3>1 DEF Open
  <2>4. 1 = 1 + Height(w, i - 1) - Height(w, i - 1)
    BY <2>2
  <2> QED
    BY <2>1, <2>3, <2>4 DEF IsExtract
<1> HIDE DEF start
<1>3. PICK o : /\ o[0] = start
               /\ \A n \in Nat : o[n + 1] = ExtractTurn(o[n], w)
               /\ Turns(ExtractTurn, start, w) = o[Len(w)]
  BY ExtractRun
<1> DEFINE T == {n \in Nat : IsExtract(o[n], w, i, stop)}
<1>4. 0 \in T
  BY <1>2, <1>3
<1>5. ASSUME NEW n \in Nat, n \in T
      PROVE  n + 1 \in T
  <2>1. IsExtract(o[n], w, i, stop) /\ o[n + 1] = ExtractTurn(o[n], w)
    BY <1>3, <1>5
  <2>2. IsExtract(o[n + 1], w, i, stop)
    BY <2>1, ExtractStep
  <2> QED
    BY <2>2
<1> HIDE DEF T
<1>6. \A n \in Nat : n \in T
  BY <1>4, <1>5, Ext!SetInduction
<1> QED
  BY <1>1, <1>3, <1>6 DEF T, start

LEMMA ExtractFacts ==
    ASSUME NEW w \in Text, NEW i \in 1..(Len(w) + 1), NEW stop, IsStop(stop)
    PROVE  IsExtract(ExtractBalanced(w, i, stop), w, i, stop)
<1>1. PICK o : /\ o[0] = [st |-> "err", to |-> i, last |-> i, depth |-> 1, stop |-> stop]
               /\ \A n \in Nat : /\ o[n + 1] = ExtractTurn(o[n], w)
                                 /\ IsExtract(o[n], w, i, stop)
               /\ ExtractBalanced(w, i, stop) = o[Len(w)]
  BY ExtractSteps
<1>2. Len(w) \in Nat
  BY TextFacts
<1> QED
  BY <1>1, <1>2

\* Somewhere from i on more parentheses are closed than opened.
Closes(w, i) == \E j \in i..Len(w) : Height(w, j) < Height(w, i - 1)

LEMMA ExtractCloses ==
    ASSUME NEW w \in Text, NEW i \in 1..(Len(w) + 1), NEW stop, IsStop(stop),
           Closes(w, i), Range(w) \cap Wide = {}
    PROVE  ExtractBalanced(w, i, stop).st = "ok"
<1> DEFINE n == Len(w)
<1>1. n \in Nat /\ i \in Nat /\ i \in Int /\ i >= 1 /\ DOMAIN w = 1..n
  BY TextFacts
<1>2. PICK o : /\ o[0] = [st |-> "err", to |-> i, last |-> i, depth |-> 1, stop |-> stop]
               /\ \A k \in Nat : /\ o[k + 1] = ExtractTurn(o[k], w)
                                 /\ IsExtract(o[k], w, i, stop)
               /\ ExtractBalanced(w, i, stop) = o[n]
  BY ExtractSteps
<1> DEFINE Reached(k) == o[k].st = "err" => o[k].to = n + 1 \/ o[k].to >= i + k
           T == {k \in Nat : Reached(k)}
<1>3. 0 \in T
  <2>1. o[0].to = i
    BY <1>2
  <2> QED
    BY <1>1, <2>1
<1>4. ASSUME NEW k \in Nat, k \in T
      PROVE  k + 1 \in T
  <2> DEFINE x == o[k]
             y == o[k + 1]
  <2>1. y = ExtractTurn(x, w) /\ IsExtract(x, w, i, stop)
    BY <1>2
  <2> HIDE DEF x, y
  <2>2. /\ x.st # "err" => y = x
        /\ x.st = "err" /\ x.to <= n => y.st # "err" \/ y.to = x.to + 1
        /\ IsExtract(y, w, i, stop)
    BY <2>1, ExtractStep
  <2>3. x.to \in i..(n + 1) /\ y.to \in i..(n + 1) /\ x.to \in Nat /\ y.to \in Nat
    BY <1>1, <2>1, <2>2 DEF IsExtract
  <2>4. ASSUME y.st = "err"
        PROVE  y.to = n + 1 \/ y.to >= i + (k + 1)
    <3>1. x.st = "err"
      BY <2>2, <2>4
    <3>2. x.to = n + 1 \/ x.to >= i + k
      BY <1>4, <3>1 DEF x
    <3>3. CASE x.to <= n
      BY <1>1, <2>2, <2>3, <2>4, <3>1, <3>2, <3>3
    <3>4. CASE ~(x.to <= n)
      <4>1. At(w, x.to) = End
        <5>1. x.to \in Int /\ x.to \notin 1..n
          BY <1>1, <2>3, <3>4
        <5> QED
          BY <5>1, TextFacts
      <4>2. y = x
        BY <2>1, <4>1, ExtractCases
      <4> QED
        BY <1>1, <2>3, <3>4, <4>2
    <3> QED
      BY <3>3, <3>4
  <2> QED
    BY <2>4 DEF y
<1> HIDE DEF T
<1>5. n \in T
  BY <1>1, <1>3, <1>4, Ext!SetInduction
<1> DEFINE x == o[n]
<1>6. IsExtract(x, w, i, stop) /\ (x.st = "err" => x.to = n + 1 \/ x.to >= i + n)
  BY <1>1, <1>2, <1>5 DEF T
<1> HIDE DEF x
<1>7. x.st # "panic"
  <2> SUFFICES ASSUME x.st = "panic" PROVE FALSE
    OBVIOUS
  <2>1. x.to \in 1..n /\ w[x.to] \in Wide
    BY <1>1, <1>6 DEF IsExtract
  <2> QED
    BY <1>1, <2>1 DEF Range
<1>8. x.st # "err"
  <2> SUFFICES ASSUME x.st = "err" PROVE FALSE
    OBVIOUS
  <2>1. x.to = n + 1 /\ Open(w, i, x.to - 1)
    <3>1. x.to \in i..(n + 1) /\ Open(w, i, x.to - 1)
      BY <1>6 DEF IsExtract
    <3> QED
      BY <1>1, <1>6, <3>1
  <2>2. Open(w, i, n)
    BY <1>1, <2>1
  <2>3. PICK j \in i..n : Height(w, j) < Height(w, i - 1)
    BY DEF Closes
  <2>4. Height(w, j) >= Height(w, i - 1)
    BY <2>2, <2>3 DEF Open
  <2>5. Height(w, j) \in Int /\ Height(w, i - 1) \in Int
    <3>1. j \in Nat /\ i - 1 \in Nat
      BY <1>1
    <3> QED
      BY <3>1, HeightFacts
  <2> QED
    BY <2>3, <2>4, <2>5
<1>9. x.st \in {"err", "ok", "panic"}
  BY <1>6 DEF IsExtract
<1>10. x.st = "ok"
  BY <1>7, <1>8, <1>9
<1> QED
  BY <1>2, <1>10 DEF x

\* ---------------------------- pieces of words ----------------------------

LEMMA FirstOf ==
    ASSUME NEW w \in Text, NEW i \in 1..Len(w), NEW j \in i..Len(w)
    PROVE  SubSeq(w, i, j) = <<w[i]>> \o SubSeq(w, i + 1, j)
BY SubSeqRecursiveFirst DEF Text

LEMMA LastOf ==
    ASSUME NEW w \in Text, NEW i \in 1..Len(w), NEW j \in i..Len(w)
    PROVE  SubSeq(w, i, j) = SubSeq(w, i, j - 1) \o <<w[j]>>
BY SubSeqRecursiveSecond DEF Text

LEMMA OneOf ==
    ASSUME NEW w \in Text, NEW i \in 1..Len(w)
    PROVE  SubSeq(w, i, i) = <<w[i]>>
<1>1. Len(w) \in Nat /\ i \in i..Len(w) /\ i \in Int /\ i < i + 1
  BY TextFacts
<1>2. SubSeq(w, i, i) = <<w[i]>> \o SubSeq(w, i + 1, i)
  BY <1>1, FirstOf
<1>3. SubSeq(w, i + 1, i) = <<>>
  BY <1>1, SubSeqEmpty
<1>4. <<w[i]>> \in Seq({w[i]})
  OBVIOUS
<1> QED
  BY <1>2, <1>3, <1>4, ConcatEmptySeq

LEMMA Glue ==
    ASSUME NEW w \in Text, NEW i \in 1..(Len(w) + 1), NEW k \in (i - 1)..Len(w),
           NEW j \in k..Len(w)
    PROVE  SubSeq(w, i, k) \o SubSeq(w, k + 1, j) = SubSeq(w, i, j)
BY ConcatAdjacentSubSeq DEF Text

LEMMA TwoOf ==
    ASSUME NEW w \in Text, NEW i \in 1..Len(w), i + 1 \in 1..Len(w)
    PROVE  SubSeq(w, i, i + 1) = <<w[i], w[i + 1]>>
<1>1. Len(w) \in Nat /\ i + 1 \in i..Len(w)
  BY TextFacts
<1>2. SubSeq(w, i, i + 1) = <<w[i]>> \o SubSeq(w, i + 1, i + 1)
  BY <1>1, FirstOf
<1>3. SubSeq(w, i + 1, i + 1) = <<w[i + 1]>>
  BY OneOf
<1> QED
  BY <1>2, <1>3, PairFacts

\* A stretch with its last character.
LEMMA Between1 ==
    ASSUME NEW w \in Text, NEW i \in 1..Len(w), NEW j \in (i + 1)..Len(w)
    PROVE  SubSeq(w, i, j) = <<w[i]>> \o SubSeq(w, i + 1, j - 1) \o <<w[j]>>
<1>1. /\ Len(w) \in Nat /\ j \in i..Len(w) /\ i + 1 \in 1..Len(w) /\ j \in 1..Len(w)
      /\ i + 1 \in Int /\ j - 1 \in Int /\ 1 <= i + 1 /\ j - 1 <= Len(w)
  BY TextFacts
<1> DEFINE a == SubSeq(w, i + 1, j - 1)
<1>2. SubSeq(w, i, j) = <<w[i]>> \o SubSeq(w, i + 1, j)
  BY <1>1, FirstOf
<1>3. SubSeq(w, i + 1, j) = a \o <<w[j]>>
  BY <1>1, LastOf
<1>4. a \in Seq(Char)
  BY <1>1, PieceFacts DEF Text
<1> HIDE DEF a
<1>5. <<w[i]>> \in Seq(Char) /\ <<w[j]>> \in Seq(Char)
  <2>1. w[i] \in Char /\ w[j] \in Char
    BY <1>1, TextFacts
  <2> QED
    BY <2>1
<1>6. (<<w[i]>> \o a) \o <<w[j]>> = <<w[i]>> \o (a \o <<w[j]>>)
  BY <1>4, <1>5, ConcatAssociative
<1> QED
  BY <1>2, <1>3, <1>6 DEF a

\* -------------------------------- one part -------------------------------

Outcome == {"ok", "err", "panic"}
Form == {"literal", "variable", "special", "length", "subst", "arith"}

SpeltPart == {p \in [form : Form, text : Text, src : Text] : SpeltAlone(p)}

PanicPlace(w) == \E i, j \in DOMAIN w : /\ i < j /\ SubSeq(w, i, i + 1) = <<"$", "(">>
                                        /\ w[j] \in Wide

\* What comes of the expansion at i: a part of S that says what it was read from.
IsCut(e, w, i, S) ==
    /\ e.st \in Outcome
    /\ e.st = "ok" => /\ e.to \in (i + 1)..(Len(w) + 1)
                      /\ e.part \in S
                      /\ e.part.src = SubSeq(w, i, e.to - 1)
    /\ e.st = "panic" => PanicPlace(w)

LEMMA SpeltCases ==
    ASSUME NEW p
    PROVE  /\ p.form = "literal" => (SpeltAlone(p) <=> p.src = p.text \/ "\\" \in Range(p.src))
           /\ p.form = "variable" =>
                  (SpeltAlone(p) <=> p.src \in {<<"$">> \o p.text, Braced(p.text)})
           /\ p.form = "special" => (SpeltAlone(p) <=> p.src = <<"$">> \o p.text)
           /\ p.form = "length" => (SpeltAlone(p) <=> p.src = Braced(<<"#">> \o p.text))
           /\ p.form = "subst" =>
                  (SpeltAlone(p) <=>
                     \/ p.src = <<Tick>> \o p.text \o <<Tick>>
                     \/ p.src = <<"$", "(">> \o p.text \o <<")">> /\ Balanced(p.text))
           /\ p.form = "arith" =>
                  (SpeltAlone(p) <=>
                     \E closing \in {<<")">>, <<")", ")">>} :
                         p.src = <<"$", "(", "(">> \o p.text \o closing /\ Balanced(p.text))
<1>1. p.form = "literal" => (SpeltAlone(p) <=> p.src = p.text \/ "\\" \in Range(p.src))
  BY DEF SpeltAlone
<1>2. p.form = "variable" => (SpeltAlone(p) <=> p.src \in {<<"$">> \o p.text, Braced(p.text)})
  BY DEF SpeltAlone
<1>3. p.form = "special" => (SpeltAlone(p) <=> p.src = <<"$">> \o p.text)
  BY DEF SpeltAlone
<1>4. p.form = "length" => (SpeltAlone(p) <=> p.src = Braced(<<"#">> \o p.text))
  BY DEF SpeltAlone
<1>5. p.form = "subst" =>
          (SpeltAlone(p) <=>
             \/ p.src = <<Tick>> \o p.text \o <<Tick>>
             \/ p.src = <<"$", "(">> \o p.text \o <<")">> /\ Balanced(p.text))
  BY DEF SpeltAlone
<1>6. p.form = "arith" =>
          (SpeltAlone(p) <=>
             \E closing \in {<<")">>, <<")", ")">>} :
                 p.src = <<"$", "(", "(">> \o p.text \o closing /\ Balanced(p.text))
  BY DEF SpeltAlone
<1> QED
  BY <1>1, <1>2, <1>3, <1>4, <1>5, <1>6

\* What an extraction leaves is balanced, and the closing parentheses follow it.
LEMMA ExtractedFacts ==
    ASSUME NEW w \in Text, NEW i \in 1..(Len(w) + 1), NEW stop, IsStop(stop),
           ExtractBalanced(w, i, stop).st = "ok"
    PROVE  LET x == ExtractBalanced(w, i, stop)
               text == SubSeq(w, i, x.last)
           IN /\ text \in Text /\ Balanced(text) /\ ")" \in Char
              /\ x.to \in (i + 1)..(Len(w) + 1)
              /\ \/ SubSeq(w, i, x.to - 1) = text \o <<")">>
                 \/ stop = <<")", ")">> /\ SubSeq(w, i, x.to - 1) = text \o <<")", ")">>
<1> DEFINE n == Len(w)
           x == ExtractBalanced(w, i, stop)
           l == x.last
           text == SubSeq(w, i, l)
<1>0. IsExtract(x, w, i, stop) /\ x.st = "ok"
  BY ExtractFacts
<1> HIDE DEF x
<1>1. /\ n \in Nat /\ i \in Nat /\ i >= 1 /\ i - 1 \in Nat
      /\ l \in (i - 1)..(n - 1) /\ l \in Nat /\ x.to \in Nat /\ x.to \in i..(n + 1)
      /\ w[l + 1] = ")"
      /\ \/ x.to = l + 2
         \/ x.to = l + 3 /\ stop = <<")", ")">> /\ w[l + 2] = ")"
      /\ Height(w, l) = Height(w, i - 1)
      /\ Open(w, i, l)
  BY <1>0, TextFacts DEF IsExtract
<1> HIDE DEF l
<1>2. /\ i \in Int /\ l \in Int /\ l <= n
  BY <1>1
<1>3. /\ text \in Text
      /\ Len(text) = IF i <= l THEN l - i + 1 ELSE 0
  BY <1>2, <1>1, PieceFacts
<1>4. \A k \in 0..(l - i + 1) : Height(text, k) = Height(w, i + k - 1) - Height(w, i - 1)
  BY <1>2, PieceHeight
<1> HIDE DEF text
<1>5. Len(text) = l - i + 1 /\ Len(text) \in 0..(l - i + 1) /\ Len(text) \in Nat
  BY <1>1, <1>3
<1>6. \A k \in 1..Len(text) : Height(text, k) >= 0
  <2> TAKE k \in 1..Len(text)
  <2>1. k \in 0..(l - i + 1) /\ i + k - 1 \in i..l /\ i + k - 1 \in Nat
    BY <1>1, <1>5
  <2>2. Height(w, i + k - 1) >= Height(w, i - 1)
    BY <1>1, <2>1 DEF Open
  <2>3. Height(w, i + k - 1) \in Int /\ Height(w, i - 1) \in Int
    BY <1>1, <2>1, HeightFacts
  <2> QED
    BY <1>4, <2>1, <2>2, <2>3
<1>7. Height(text, Len(text)) = 0
  <2>1. i + Len(text) - 1 = l
    BY <1>1, <1>5
  <2>2. Height(w, i - 1) \in Int
    BY <1>1, HeightFacts
  <2> QED
    BY <1>1, <1>4, <1>5, <2>1, <2>2
<1>8. Balanced(text)
  BY <1>3, <1>6, <1>7, HeightBalanced
<1>9. x.to \in (i + 1)..(n + 1)
  BY <1>1
<1>10. l + 1 \in 1..n /\ l + 1 \in i..n /\ (l + 1) - 1 = l
  BY <1>1
<1>11. ")" \in Char
  <2>1. w[l + 1] \in Char
    BY <1>10, TextFacts
  <2> QED
    BY <1>1, <2>1
<1>12. CASE x.to = l + 2
  <2>1. x.to - 1 = l + 1
    BY <1>1, <1>12
  <2>2. SubSeq(w, i, l + 1) = text \o <<")">>
    <3>1. i \in 1..n
      BY <1>1
    <3>2. SubSeq(w, i, l + 1) = SubSeq(w, i, (l + 1) - 1) \o <<w[l + 1]>>
      BY <1>10, <3>1, LastOf
    <3> QED
      BY <1>1, <1>10, <3>2 DEF text
  <2> QED
    BY <1>3, <1>8, <1>9, <1>11, <2>1, <2>2 DEF text, l, x
<1>13. CASE x.to = l + 3 /\ stop = <<")", ")">> /\ w[l + 2] = ")"
  <2>1. x.to - 1 = l + 2 /\ l + 2 \in 1..n /\ l + 2 = (l + 1) + 1
    BY <1>1, <1>13
  <2>2. SubSeq(w, i, l + 2) = text \o <<")", ")">>
    <3>1. l \in (i - 1)..n /\ l + 2 \in l..n
      BY <1>1, <2>1
    <3>2. text \o SubSeq(w, l + 1, l + 2) = SubSeq(w, i, l + 2)
      BY <3>1, Glue DEF text
    <3>3. SubSeq(w, l + 1, (l + 1) + 1) = <<w[l + 1], w[(l + 1) + 1]>>
      BY <1>10, <2>1, TwoOf
    <3> QED
      BY <1>1, <1>13, <2>1, <3>2, <3>3
  <2> QED
    BY <1>3, <1>8, <1>9, <1>13, <1>11, <2>1, <2>2 DEF text, l, x
<1> QED
  BY <1>1, <1>12, <1>13

LEMMA TripleFacts ==
    ASSUME NEW a, NEW b, NEW c
    PROVE  <<a, b>> \o <<c>> = <<a, b, c>>
<1> DEFINE S == {a, b, c}
           u == <<a, b>> \o <<c>>
<1>1. <<a, b>> \in Seq(S) /\ <<c>> \in Seq(S) /\ <<a, b, c>> \in Seq(S)
  OBVIOUS
<1>2. Len(<<a, b>>) = 2 /\ Len(<<c>>) = 1 /\ Len(<<a, b, c>>) = 3
  OBVIOUS
<1>3. u \in Seq(S) /\ Len(u) = 3 /\ u[1] = a /\ u[2] = b /\ u[3] = c
  BY <1>1, <1>2, ConcatProperties
<1> HIDE DEF u, S
<1>4. Len(u) = Len(<<a, b, c>>) /\ \A i \in 1..Len(u) : u[i] = <<a, b, c>>[i]
  BY <1>2, <1>3
<1>5. u = <<a, b, c>>
  BY <1>1, <1>3, <1>4, SeqEqual
<1> QED
  BY <1>5 DEF u

LEMMA ThreeOf ==
    ASSUME NEW w \in Text, NEW i \in 1..Len(w), i + 2 \in 1..Len(w)
    PROVE  SubSeq(w, i, i + 2) = <<w[i], w[i + 1], w[i + 2]>>
<1>1. /\ Len(w) \in Nat /\ i \in 1..(Len(w) + 1) /\ i + 1 \in (i - 1)..Len(w)
      /\ i + 2 \in (i + 1)..Len(w) /\ (i + 1) + 1 = i + 2 /\ i + 1 \in 1..Len(w)
  BY TextFacts
<1>2. SubSeq(w, i, i + 1) \o SubSeq(w, (i + 1) + 1, i + 2) = SubSeq(w, i, i + 2)
  BY <1>1, Glue
<1>3. SubSeq(w, i + 2, i + 2) = <<w[i + 2]>>
  BY OneOf
<1>4. SubSeq(w, i, i + 1) = <<w[i], w[i + 1]>>
  BY <1>1, TwoOf
<1> QED
  BY <1>1, <1>2, <1>3, <1>4, TripleFacts

LEMMA SubstCut ==
    ASSUME NEW w \in Text, NEW i \in 1..Len(w), w[i] = "$", At(w, i + 1) = "(", NEW brace
    PROVE  LET e == ParseDollar(w, i, brace)
           IN /\ IsCut(e, w, i, SpeltPart)
              /\ /\ Range(w) \cap Wide = {} /\ Closes(w, i + 2)
                 /\ At(w, i + 2) = "(" => Closes(w, i + 3)
                 => e.st = "ok"
<1> DEFINE n == Len(w)
           arith == At(w, i + 2) = "("
           start == IF arith THEN i + 3 ELSE i + 2
           stop == IF arith THEN <<")", ")">> ELSE <<")">>
           x == ExtractBalanced(w, start, stop)
           text == SubSeq(w, start, x.last)
           source == SubSeq(w, i, x.to - 1)
           e == ParseDollar(w, i, brace)
<1>1. /\ n \in Nat /\ i \in Nat /\ i + 1 \in 1..n /\ w[i + 1] = "("
      /\ arith => i + 2 \in 1..n /\ w[i + 2] = "("
  BY TextFacts
<1>2. /\ start \in 1..(n + 1) /\ start \in Nat /\ start > i + 1
      /\ IsStop(stop)
  BY <1>1 DEF IsStop
<1>3. e = IF x.st # "ok" THEN [st |-> x.st]
          ELSE [st |-> "ok",
                part |-> Part(IF arith THEN "arith" ELSE "subst", text, source), to |-> x.to]
  <2>1. /\ At(w, i + 1) # OpenBrace /\ At(w, i + 1) \notin Digits \cup SpecialChar
        /\ At(w, i + 1) \notin NameStart
    BY NameFacts
  <2> QED
    BY <2>1 DEF ParseDollar
<1>4. IsExtract(x, w, start, stop)
  <2> HIDE DEF start, stop
  <2> QED
    BY <1>2, ExtractFacts
<1>5. x.st = "ok" =>
          /\ text \in Text /\ Balanced(text) /\ ")" \in Char
          /\ x.to \in (start + 1)..(n + 1)
          /\ \/ SubSeq(w, start, x.to - 1) = text \o <<")">>
             \/ stop = <<")", ")">> /\ SubSeq(w, start, x.to - 1) = text \o <<")", ")">>
  <2> HIDE DEF start, stop
  <2> QED
    BY <1>2, ExtractedFacts
<1>6. Range(w) \cap Wide = {} /\ Closes(w, i + 2) /\ (arith => Closes(w, i + 3)) => x.st = "ok"
  <2> SUFFICES ASSUME Range(w) \cap Wide = {}, Closes(w, i + 2), arith => Closes(w, i + 3)
               PROVE  x.st = "ok"
    OBVIOUS
  <2>1. Closes(w, start)
    OBVIOUS
  <2> HIDE DEF start, stop
  <2> QED
    BY <1>2, <2>1, ExtractCloses
<1>7. SubSeq(w, i, start - 1) = IF arith THEN <<"$", "(", "(">> ELSE <<"$", "(">>
  <2>1. CASE arith
    <3>1. start - 1 = i + 2 /\ i + 2 \in 1..n /\ w[i + 2] = "("
      BY <1>1, <2>1
    <3> HIDE DEF start, arith
    <3> QED
      BY <1>1, <2>1, <3>1, ThreeOf
  <2>2. CASE ~arith
    <3>1. start - 1 = i + 1
      BY <1>1, <2>2
    <3> HIDE DEF start, arith
    <3> QED
      BY <1>1, <2>2, <3>1, TwoOf
  <2> QED
    BY <2>1, <2>2
<1>8. /\ arith => stop = <<")", ")">>
      /\ ~arith => stop # <<")", ")">>
  OBVIOUS
<1> HIDE DEF e, x, text, source, start, stop, arith
<1>9. CASE x.st # "ok"
  <2>1. e = [st |-> x.st]
    BY <1>3, <1>9
  <2>2. e.st = x.st
    BY <2>1
  <2>3. x.st \in Outcome
    BY <1>4 DEF IsExtract, Outcome
  <2>4. x.st = "panic" => PanicPlace(w)
    <3> SUFFICES ASSUME x.st = "panic" PROVE PanicPlace(w)
      OBVIOUS
    <3>1. x.to \in start..n /\ w[x.to] \in Wide
      BY <1>4 DEF IsExtract
    <3>2. SubSeq(w, i, i + 1) = <<"$", "(">>
      BY <1>1, TwoOf
    <3>3. DOMAIN w = 1..n /\ i \in DOMAIN w /\ x.to \in DOMAIN w /\ i < x.to
      BY <1>1, <1>2, <3>1, TextFacts
    <3> QED
      BY <3>1, <3>2, <3>3 DEF PanicPlace
  <2>5. IsCut(e, w, i, SpeltPart)
    BY <1>9, <2>2, <2>3, <2>4 DEF IsCut
  <2> QED
    BY <1>6, <1>9, <2>5 DEF e, arith
<1>10. CASE x.st = "ok"
  <2>1. /\ text \in Text /\ Balanced(text) /\ x.to \in (start + 1)..(n + 1) /\ x.to \in Nat
        /\ \/ SubSeq(w, start, x.to - 1) = text \o <<")">>
           \/ stop = <<")", ")">> /\ SubSeq(w, start, x.to - 1) = text \o <<")", ")">>
    <3>1. x.to \in (start + 1)..(n + 1)
      BY <1>5, <1>10
    <3>2. x.to \in Nat
      BY <1>1, <1>2, <3>1
    <3> QED
      BY <1>5, <1>10, <3>1, <3>2
  <2> DEFINE p == Part(IF arith THEN "arith" ELSE "subst", text, source)
  <2>2. e = [st |-> "ok", part |-> p, to |-> x.to]
    BY <1>3, <1>10
  <2>3. p.form = (IF arith THEN "arith" ELSE "subst") /\ p.text = text /\ p.src = source
    BY DEF Part
  <2>4. source = SubSeq(w, i, start - 1) \o SubSeq(w, start, x.to - 1)
    <3>1. /\ i \in 1..(n + 1) /\ start - 1 \in (i - 1)..n /\ x.to - 1 \in (start - 1)..n
          /\ (start - 1) + 1 = start
      BY <1>1, <1>2, <2>1
    <3>2. SubSeq(w, i, start - 1) \o SubSeq(w, (start - 1) + 1, x.to - 1) = SubSeq(w, i, x.to - 1)
      BY <3>1, Glue
    <3> QED
      BY <3>1, <3>2 DEF source
  <2>5. source \in Text
    <3>1. i \in Int /\ x.to - 1 \in Int /\ 1 <= i /\ x.to - 1 <= n
      BY <1>1, <2>1
    <3> QED
      BY <3>1, PieceFacts DEF source
  <2>6. \A a, b \in Text : a \o (text \o b) = (a \o text) \o b
    <3> TAKE a, b \in Text
    <3>1. a \in Seq(Char) /\ b \in Seq(Char) /\ text \in Seq(Char)
      BY <2>1 DEF Text
    <3> QED
      BY <3>1, ConcatAssociative
  <2>7. /\ <<"$", "(">> \in Text /\ <<"$", "(", "(">> \in Text
        /\ <<")">> \in Text /\ <<")", ")">> \in Text
    <3>1. "$" \in Char /\ "(" \in Char /\ ")" \in Char
      <4>1. w[i] \in Char /\ w[i + 1] \in Char
        BY <1>1, TextFacts
      <4> QED
        BY <1>1, <1>5, <1>10, <4>1
    <3> QED
      BY <3>1 DEF Text
  <2> HIDE DEF p
  <2>8. SpeltAlone(p)
    <3>1. CASE arith
      <4>1. SubSeq(w, i, start - 1) = <<"$", "(", "(">>
        BY <1>7, <3>1
      <4>2. PICK closing \in {<<")">>, <<")", ")">>} :
                SubSeq(w, start, x.to - 1) = text \o closing
        BY <2>1
      <4>3. closing \in Text
        BY <2>7, <4>2
      <4>4. source = <<"$", "(", "(">> \o (text \o closing)
        BY <2>4, <4>1, <4>2
      <4>5. source = <<"$", "(", "(">> \o text \o closing
        BY <2>6, <2>7, <4>3, <4>4
      <4> QED
        BY <2>1, <2>3, <3>1, <4>2, <4>5, SpeltCases
    <3>2. CASE ~arith
      <4>1. SubSeq(w, i, start - 1) = <<"$", "(">>
        BY <1>7, <3>2
      <4>2. SubSeq(w, start, x.to - 1) = text \o <<")">>
        BY <1>8, <2>1, <3>2
      <4>3. source = <<"$", "(">> \o (text \o <<")">>)
        BY <2>4, <4>1, <4>2
      <4>4. source = <<"$", "(">> \o text \o <<")">>
        BY <2>6, <2>7, <4>3
      <4> QED
        BY <2>1, <2>3, <3>2, <4>4, SpeltCases
    <3> QED
      BY <3>1, <3>2
  <2>9. p \in SpeltPart
    <3>1. p \in [form : Form, text : Text, src : Text]
      BY <2>1, <2>5 DEF p, Part, Form
    <3> QED
      BY <2>8, <3>1 DEF SpeltPart
  <2>10. e.st = "ok" /\ e.part = p /\ e.to = x.to
    BY <2>2
  <2>11. IsCut(e, w, i, SpeltPart)
    <3>1. x.to \in (i + 1)..(n + 1)
      BY <1>1, <1>2, <2>1
    <3> QED
      BY <2>3, <2>9, <2>10, <3>1 DEF IsCut, Outcome, source
  <2> QED
    BY <2>10, <2>11 DEF e
<1> QED
  BY <1>9, <1>10

\* A part and where it ends make a cut.
LEMMA PartCut ==
    ASSUME NEW w \in Text, NEW i \in 1..Len(w), NEW to \in (i + 1)..(Len(w) + 1),
           NEW form \in Form, NEW text \in Text,
           SpeltAlone(Part(form, text, SubSeq(w, i, to - 1)))
    PROVE  IsCut([st |-> "ok", part |-> Part(form, text, SubSeq(w, i, to - 1)), to |-> to],
                 w, i, SpeltPart)
<1> DEFINE source == SubSeq(w, i, to - 1)
           p == Part(form, text, source)
           e == [st |-> "ok", part |-> p, to |-> to]
<1>1. source \in Text
  <2>1. i \in Int /\ to - 1 \in Int /\ 1 <= i /\ to - 1 <= Len(w)
    BY TextFacts
  <2> QED
    BY <2>1, PieceFacts
<1>2. e.st = "ok" /\ e.part = p /\ e.to = to /\ p.src = source
  BY DEF Part
<1>3. p \in SpeltPart
  <2>1. p \in [form : Form, text : Text, src : Text]
    BY <1>1 DEF Part
  <2> QED
    BY <2>1 DEF SpeltPart
<1> HIDE DEF e, p, source
<1>4. IsCut(e, w, i, SpeltPart)
  BY <1>2, <1>3 DEF IsCut, Outcome, source
<1> QED
  BY <1>4 DEF e, p, source

LEMMA WiderCut ==
    ASSUME NEW e, NEW w, NEW i, NEW S, NEW T, S \subseteq T, IsCut(e, w, i, S)
    PROVE  IsCut(e, w, i, T)
BY DEF IsCut

LEMMA DollarCut ==
    ASSUME NEW w \in Text, NEW i \in 1..Len(w), w[i] = "$", NEW brace,
           NEW S, SpeltPart \subseteq S,
           At(w, i + 1) = OpenBrace => IsCut(brace, w, i, S)
    PROVE  LET e == ParseDollar(w, i, brace)
           IN /\ IsCut(e, w, i, S)
              /\ /\ At(w, i + 1) = "(" =>
                        /\ Range(w) \cap Wide = {} /\ Closes(w, i + 2)
                        /\ At(w, i + 2) = "(" => Closes(w, i + 3)
                 /\ At(w, i + 1) = OpenBrace => brace.st = "ok"
                 => e.st = "ok"
<1> DEFINE n == Len(w)
           c == At(w, i + 1)
           e == ParseDollar(w, i, brace)
           name == SkipOver(w, i + 1, NameChar)
           Got(form, text, to) ==
               [st |-> "ok", part |-> Part(form, text, SubSeq(w, i, to - 1)), to |-> to]
<1>1. /\ n \in Nat /\ i \in Nat /\ i + 1 \in 1..(n + 1)
      /\ c # End => i + 1 \in 1..n /\ w[i + 1] = c /\ c \in Char
  <2>1. n \in Nat /\ i + 1 \in 1..(n + 1) /\ i + 1 \in Int
    BY TextFacts
  <2>2. c # End => i + 1 \in 1..n /\ w[i + 1] = c
    BY <2>1, TextFacts
  <2>3. c # End => c \in Char
    BY <2>2, TextFacts
  <2> QED
    BY <2>1, <2>2, <2>3
<1>2. CASE c = "("
  <2>1. IsCut(e, w, i, SpeltPart)
    BY <1>2, SubstCut
  <2>2. /\ Range(w) \cap Wide = {} /\ Closes(w, i + 2)
        /\ At(w, i + 2) = "(" => Closes(w, i + 3)
        => e.st = "ok"
    BY <1>2, SubstCut
  <2> HIDE DEF e
  <2> QED
    BY <1>2, <2>1, <2>2, WiderCut DEF e
<1>3. CASE c = OpenBrace
  <2>1. c # "(" /\ c \notin Digits \cup SpecialChar /\ c \notin NameStart
    BY <1>3, NameFacts
  <2>2. e = brace
    BY <1>3, <2>1 DEF ParseDollar
  <2> QED
    BY <1>3, <2>1, <2>2
<1>4. CASE c \in Digits \cup SpecialChar
  <2>1. c \notin {"(", OpenBrace} /\ c \notin NameStart /\ c # End
    <3>1. \A d \in NameStart : d \notin Digits \cup SpecialChar
      BY NameFacts
    <3>2. \A d \in Digits \cup SpecialChar : d \notin {OpenBrace, "("}
      BY NameFacts
    <3>3. End \notin Digits \cup SpecialChar
      BY KindFacts DEF SpecialChar, Char
    <3> HIDE DEF c
    <3> QED
      BY <1>4, <3>1, <3>2, <3>3
  <2>2. e = Got("special", <<c>>, i + 2)
    BY <1>4, <2>1 DEF ParseDollar
  <2>3. i + 1 \in 1..n /\ w[i + 1] = c /\ <<c>> \in Text
    BY <1>1, <2>1 DEF Text
  <2> DEFINE t == <<c>>
             source == SubSeq(w, i, (i + 2) - 1)
             p == Part("special", t, source)
  <2>4. SubSeq(w, i, (i + 2) - 1) = <<"$">> \o <<c>>
    <3>1. (i + 2) - 1 = i + 1
      BY <1>1
    <3>2. SubSeq(w, i, i + 1) = <<w[i], w[i + 1]>>
      BY <2>3, TwoOf
    <3>3. <<"$">> \o <<w[i + 1]>> = <<"$", w[i + 1]>>
      BY PairFacts
    <3> HIDE DEF c
    <3> QED
      BY <2>3, <3>1, <3>2, <3>3
  <2>5. p.form = "special" /\ p.text = t /\ p.src = source
    BY DEF Part
  <2>6. SpeltAlone(p)
    <3> HIDE DEF p, c
    <3> QED
      BY <2>4, <2>5, SpeltCases
  <2>7. i + 2 \in (i + 1)..(n + 1) /\ "special" \in Form /\ t \in Text
    BY <1>1, <2>3 DEF Form
  <2> HIDE DEF t, e
  <2>8. IsCut([st |-> "ok", part |-> p, to |-> i + 2], w, i, SpeltPart)
    BY <2>6, <2>7, PartCut
  <2>9. e = [st |-> "ok", part |-> p, to |-> i + 2]
    BY <2>2 DEF t
  <2> HIDE DEF p
  <2> QED
    BY <2>8, <2>9, WiderCut DEF e
<1>5. CASE c \in NameStart
  <2>1. c \notin {"(", OpenBrace} /\ c \notin Digits \cup SpecialChar /\ c # End
    <3>1. c \notin {OpenBrace, "("} /\ c \notin Digits \cup SpecialChar
      BY <1>5, NameFacts
    <3>2. End \notin NameStart
      BY KindFacts DEF NameStart, Char
    <3> QED
      BY <1>5, <3>1, <3>2
  <2> DEFINE t == SubSeq(w, i + 1, name - 1)
             source == SubSeq(w, i, name - 1)
             p == Part("variable", t, source)
  <2>2. e = Got("variable", t, name)
    BY <1>5, <2>1 DEF ParseDollar
  <2>3. name \in (i + 1)..(n + 1)
    BY <1>1, SkipOverFacts
  <2> HIDE DEF name
  <2>4. t \in Text
    <3>1. i + 1 \in Int /\ name - 1 \in Int /\ 1 <= i + 1 /\ name - 1 <= n
      BY <1>1, <2>3
    <3> QED
      BY <3>1, PieceFacts
  <2>5. source = <<"$">> \o t
    <3>1. name - 1 \in i..n
      BY <1>1, <2>3
    <3> QED
      BY <3>1, FirstOf
  <2>6. p.form = "variable" /\ p.text = t /\ p.src = source
    BY DEF Part
  <2>7. SpeltAlone(p)
    <3> HIDE DEF p, t, source
    <3> QED
      BY <2>5, <2>6, SpeltCases
  <2>8. "variable" \in Form
    BY DEF Form
  <2> HIDE DEF t, e
  <2>9. IsCut([st |-> "ok", part |-> p, to |-> name], w, i, SpeltPart)
    BY <2>3, <2>4, <2>7, <2>8, PartCut
  <2>10. e = [st |-> "ok", part |-> p, to |-> name]
    BY <2>2
  <2> HIDE DEF p
  <2> QED
    BY <2>9, <2>10, WiderCut DEF e
<1>6. CASE c \notin {"(", OpenBrace} /\ c \notin Digits \cup SpecialChar /\ c \notin NameStart
  <2> DEFINE t == <<"$">>
             source == SubSeq(w, i, (i + 1) - 1)
             p == Part("literal", t, source)
  <2>1. e = Got("literal", t, i + 1)
    BY <1>6 DEF ParseDollar
  <2>2. source = t
    <3>1. (i + 1) - 1 = i
      BY <1>1
    <3> QED
      BY <3>1, OneOf
  <2>3. t \in Text
    <3>1. "$" \in Char
      BY TextFacts
    <3> QED
      BY <3>1 DEF Text
  <2>4. p.form = "literal" /\ p.text = t /\ p.src = source
    BY DEF Part
  <2>5. SpeltAlone(p)
    <3> HIDE DEF p, t, source
    <3> QED
      BY <2>2, <2>4, SpeltCases
  <2>6. i + 1 \in (i + 1)..(n + 1) /\ "literal" \in Form
    BY <1>1 DEF Form
  <2> HIDE DEF t, e
  <2>7. IsCut([st |-> "ok", part |-> p, to |-> i + 1], w, i, SpeltPart)
    BY <2>3, <2>5, <2>6, PartCut
  <2>8. e = [st |-> "ok", part |-> p, to |-> i + 1]
    BY <2>1
  <2> HIDE DEF p
  <2> QED
    BY <2>7, <2>8, WiderCut DEF e
<1> QED
  BY <1>2, <1>3, <1>4, <1>5, <1>6

LEMMA BacktickCut ==
    ASSUME NEW w \in Text, NEW i \in 1..Len(w), w[i] = Tick
    PROVE  IsCut(ParseBacktick(w, i), w, i, SpeltPart)
<1> DEFINE n == Len(w)
           close == SkipTo(w, i + 1, {Tick})
           e == ParseBacktick(w, i)
           t == SubSeq(w, i + 1, close - 1)
           to == close + 1
           source == SubSeq(w, i, to - 1)
           p == Part("subst", t, source)
<1>1. n \in Nat /\ i \in Nat /\ i + 1 \in 1..(n + 1)
  BY TextFacts
<1>2. close \in (i + 1)..(n + 1) /\ (close <= n => w[close] \in {Tick})
  BY <1>1, SkipToFacts
<1> HIDE DEF close
<1>3. (close + 1) - 1 = close
  BY <1>1, <1>2
<1>4. e = IF close > n THEN [st |-> "err"] ELSE [st |-> "ok", part |-> p, to |-> to]
  BY <1>3 DEF ParseBacktick, close
<1>5. CASE close > n
  <2>1. e.st = "err"
    BY <1>4, <1>5
  <2> HIDE DEF e
  <2> QED
    BY <2>1 DEF IsCut, Outcome, e
<1>6. CASE ~(close > n)
  <2>1. /\ close \in (i + 1)..n /\ w[close] = Tick /\ to \in (i + 1)..(n + 1)
        /\ i + 1 \in Int /\ close - 1 \in Int /\ 1 <= i + 1 /\ close - 1 <= n
    BY <1>1, <1>2, <1>6
  <2>2. t \in Text
    BY <2>1, PieceFacts
  <2>3. source = <<Tick>> \o t \o <<Tick>>
    BY <1>3, <2>1, Between1
  <2>4. p.form = "subst" /\ p.text = t /\ p.src = source /\ "subst" \in Form
    BY DEF Part, Form
  <2> HIDE DEF to, e, t
  <2>5. SpeltAlone(p)
    <3> HIDE DEF p, source
    <3> QED
      BY <2>3, <2>4, SpeltCases
  <2>6. IsCut([st |-> "ok", part |-> p, to |-> to], w, i, SpeltPart)
    BY <2>1, <2>2, <2>4, <2>5, PartCut
  <2> HIDE DEF p
  <2> QED
    BY <1>4, <1>6, <2>6 DEF e
<1> QED
  BY <1>5, <1>6

\* ------------------------- the source of the parts -----------------------

LEMMA SourceFacts ==
    /\ Source(<<>>) = <<>>
    /\ \A S : \A parts \in Seq(S), p \in S : Source(Append(parts, p)) = Source(parts) \o p.src
<1>1. \A parts : Source(parts) = Spl!Fold(<<>>, parts)
  BY DEF Source, FoldLeft, MapThenFoldSet, Max, Spl!Fold, Spl!FoldLeft, Spl!MapThenFoldSet,
         Spl!Max
<1>2. Source(<<>>) = <<>>
  <2>1. Len(<<>>) \in Nat /\ DOMAIN <<>> = 1..Len(<<>>) /\ Len(<<>>) = 0
    OBVIOUS
  <2>2. \E o : o[0] = <<>> /\ Spl!Fold(<<>>, <<>>) = o[Len(<<>>)]
    BY <2>1, Spl!FoldSteps
  <2> QED
    BY <1>1, <2>1, <2>2
<1>3. ASSUME NEW S, NEW parts \in Seq(S), NEW p \in S
      PROVE  Source(Append(parts, p)) = Source(parts) \o p.src
  <2>1. <<p>> \in Seq(S) /\ Len(<<p>>) = 1 /\ Len(<<p>>) \in Nat /\ DOMAIN <<p>> = 1..Len(<<p>>)
    OBVIOUS
  <2>2. Append(parts, p) = parts \o <<p>>
    BY AppendIsConcat
  <2>3. Spl!Fold(<<>>, parts \o <<p>>) = Spl!Fold(Spl!Fold(<<>>, parts), <<p>>)
    <3> DEFINE t == <<p>>
    <3>1. t \in Seq(S)
      BY <2>1
    <3> HIDE DEF t
    <3>2. \A b : Spl!Fold(b, parts \o t) = Spl!Fold(Spl!Fold(b, parts), t)
      BY <3>1, Spl!FoldConcat
    <3> QED
      BY <3>2 DEF t
  <2>4. ASSUME NEW b
        PROVE  Spl!Fold(b, <<p>>) = b \o p.src
    <3>1. PICK o : /\ o[0] = b
                   /\ \A k \in 1..Len(<<p>>) : o[k] = WithSource(o[k - 1], <<p>>[k])
                   /\ Spl!Fold(b, <<p>>) = o[Len(<<p>>)]
      BY <2>1, Spl!FoldSteps
    <3>2. o[1] = WithSource(o[1 - 1], <<p>>[1])
      BY <2>1, <3>1
    <3>3. o[1] = WithSource(b, p)
      BY <3>1, <3>2
    <3> QED
      BY <2>1, <3>1, <3>3 DEF WithSource
  <2> QED
    BY <1>1, <2>2, <2>3, <2>4
<1> QED
  BY <1>2, <1>3

\* --------------------------- the parts of a word -------------------------

\* No backslash of the word is left out of the parts.
Clean(w) == ~Escaped(w, "\n") /\ (w # <<>> => Last(w) # "\\")

\* A set of parts that spell what they were read from.
IsPartSet(S) == SpeltPart \subseteq S /\ \A p \in S : p.src \in Text

Literal == [form : {"literal"}, text : Text, src : Text]

\* A word being cut: the parts so far and the literal being read spell it up to x.at.
IsReading(x, w, S) ==
    /\ x \in [st : Outcome, at : Nat, lit : Literal, parts : Seq(S), dq : BOOLEAN]
    /\ x.at \in 1..(Len(w) + 1)
    /\ SpeltAlone(x.lit)
    /\ Source(x.parts) \in Text
    /\ Clean(w) /\ x.st = "ok" => /\ Source(x.parts) \o x.lit.src = SubSeq(w, 1, x.at - 1)
                                  /\ x.lit.text = <<>> => x.lit.src = <<>>
    /\ x.st = "panic" => PanicPlace(w)

LEMMA FlushedFacts ==
    ASSUME NEW w, NEW S, IsPartSet(S), NEW x, IsReading(x, w, S)
    PROVE  /\ Flushed(x) \in Seq(S)
           /\ Source(Flushed(x)) \in Text
           /\ Clean(w) /\ x.st = "ok" => Source(Flushed(x)) = SubSeq(w, 1, x.at - 1)
<1>1. /\ x.parts \in Seq(S) /\ x.lit \in Literal /\ x.lit.src \in Text /\ Source(x.parts) \in Text
      /\ SpeltAlone(x.lit)
  BY DEF IsReading, Literal
<1>2. CASE x.lit.text = <<>>
  <2>1. Flushed(x) = x.parts
    BY <1>2 DEF Flushed
  <2>2. Source(x.parts) \o <<>> = Source(x.parts)
    BY <1>1, ConcatEmptySeq DEF Text
  <2>3. Clean(w) /\ x.st = "ok" => Source(x.parts) = SubSeq(w, 1, x.at - 1)
    BY <1>2, <2>2 DEF IsReading
  <2> QED
    BY <1>1, <2>1, <2>3
<1>3. CASE x.lit.text # <<>>
  <2>1. Flushed(x) = Append(x.parts, x.lit)
    BY <1>3 DEF Flushed
  <2>2. x.lit \in S
    <3>1. x.lit \in SpeltPart
      BY <1>1 DEF SpeltPart, Literal, Form
    <3> QED
      BY <3>1 DEF IsPartSet
  <2>3. Append(x.parts, x.lit) \in Seq(S)
    BY <1>1, <2>2, AppendProperties
  <2>4. Source(Flushed(x)) = Source(x.parts) \o x.lit.src
    BY <1>1, <2>1, <2>2, SourceFacts
  <2>5. Source(x.parts) \o x.lit.src \in Text
    BY <1>1, ConcatProperties DEF Text
  <2> QED
    BY <2>1, <2>3, <2>4, <2>5 DEF IsReading
<1> QED
  BY <1>2, <1>3

\* Two stretches, the second from i on, make one.
LEMMA Prolonged ==
    ASSUME NEW w \in Text, NEW i \in 1..Len(w), NEW to \in (i + 1)..(Len(w) + 1)
    PROVE  /\ SubSeq(w, i, to - 1) \in Text
           /\ SubSeq(w, 1, i - 1) \o SubSeq(w, i, to - 1) = SubSeq(w, 1, to - 1)
<1>1. /\ Len(w) \in Nat /\ i \in Int /\ to - 1 \in Int /\ 1 <= i /\ to - 1 <= Len(w)
      /\ 1 \in 1..(Len(w) + 1) /\ i - 1 \in (1 - 1)..Len(w) /\ to - 1 \in (i - 1)..Len(w)
      /\ (i - 1) + 1 = i
  BY TextFacts
<1>2. SubSeq(w, 1, i - 1) \o SubSeq(w, (i - 1) + 1, to - 1) = SubSeq(w, 1, to - 1)
  BY <1>1, Glue
<1>3. SubSeq(w, i, to - 1) \in Text
  BY <1>1, PieceFacts
<1> QED
  BY <1>1, <1>2, <1>3

LEMMA TextConcat ==
    ASSUME NEW a \in Text, NEW b \in Text
    PROVE  /\ a \o b \in Text
           /\ Range(a \o b) = Range(a) \cup Range(b)
           /\ a \o b = <<>> => b = <<>>
<1>1. a \in Seq(Char) /\ b \in Seq(Char)
  BY DEF Text
<1>2. Range(a \o b) = Range(a) \cup Range(b)
  BY <1>1, RangeConcatenation
<1>4. a \o b = <<>> => b = <<>>
  BY <1>1, ConcatEqualIffEmpty
<1>5. a \o b \in Text
  BY <1>1, ConcatProperties DEF Text
<1> QED
  BY <1>2, <1>4, <1>5

LEMMA TextAssociative == \A a, b, c \in Text : a \o (b \o c) = (a \o b) \o c
<1> TAKE a, b, c \in Text
<1>1. a \in Seq(Char) /\ b \in Seq(Char) /\ c \in Seq(Char)
  BY DEF Text
<1> QED
  BY <1>1, ConcatAssociative

\* What the turns make of x.
LiteralTo(x, text, source, to) ==
    [x EXCEPT !.lit = Part("literal", x.lit.text \o text, x.lit.src \o source), !.at = to]
CutTo(x, e) == [x EXCEPT !.parts = Append(Flushed(x), e.part), !.lit = NoLit, !.at = e.to]
FailTo(x, e) == [x EXCEPT !.st = e.st]

\* A literal is written as it reads, or with a backslash.
SpeltBy(source, text) == source = text \/ "\\" \in Range(source)
Kept(text, w) == Clean(w) => text # <<>>

\* The literal goes on.
LEMMA LiteralStep ==
    ASSUME NEW w \in Text, NEW S, NEW x, IsReading(x, w, S), x.st = "ok",
           x.at \in 1..Len(w), NEW to \in (x.at + 1)..(Len(w) + 1),
           NEW text \in Text, SpeltBy(SubSeq(w, x.at, to - 1), text), Kept(text, w)
    PROVE  LET y == LiteralTo(x, text, SubSeq(w, x.at, to - 1), to)
           IN IsReading(y, w, S) /\ y.st = "ok" /\ y.at = to
<1> DEFINE source == SubSeq(w, x.at, to - 1)
           lit == Part("literal", x.lit.text \o text, x.lit.src \o source)
           y == LiteralTo(x, text, source, to)
<1>1. /\ x \in [st : Outcome, at : Nat, lit : Literal, parts : Seq(S), dq : BOOLEAN]
      /\ x.lit \in Literal /\ x.lit.form = "literal" /\ x.lit.text \in Text /\ x.lit.src \in Text
      /\ SpeltAlone(x.lit) /\ Source(x.parts) \in Text
  BY DEF IsReading, Literal
<1>2. /\ source \in Text
      /\ SubSeq(w, 1, x.at - 1) \o source = SubSeq(w, 1, to - 1)
  BY Prolonged
<1> HIDE DEF source
<1>3. to \in Nat /\ to \in 1..(Len(w) + 1)
  BY TextFacts
<1>4. x.lit.text \o text \in Text /\ x.lit.src \o source \in Text
  BY <1>1, <1>2, ConcatProperties DEF Text
<1>5. /\ lit.form = "literal" /\ lit.text = x.lit.text \o text /\ lit.src = x.lit.src \o source
      /\ lit \in Literal
  BY <1>4 DEF Part, Literal
<1> HIDE DEF lit
<1>6. /\ y \in [st : Outcome, at : Nat, lit : Literal, parts : Seq(S), dq : BOOLEAN]
      /\ y.st = "ok" /\ y.at = to /\ y.lit = lit /\ y.parts = x.parts
  <2>1. y = [x EXCEPT !.lit = lit, !.at = to]
    BY DEF LiteralTo, lit
  <2> HIDE DEF y
  <2> QED
    BY <1>1, <1>3, <1>5, <2>1
<1> HIDE DEF y
<1>7. SpeltAlone(lit)
  <2>1. x.lit.src = x.lit.text \/ "\\" \in Range(x.lit.src)
    BY <1>1, SpeltCases
  <2>2. Range(x.lit.src \o source) = Range(x.lit.src) \cup Range(source)
    BY <1>1, <1>2, TextConcat
  <2>3. lit.src = lit.text \/ "\\" \in Range(lit.src)
    BY <1>5, <2>1, <2>2 DEF SpeltBy, source
  <2> QED
    BY <1>5, <2>3, SpeltCases
<1>8. ASSUME Clean(w)
      PROVE  /\ Source(y.parts) \o y.lit.src = SubSeq(w, 1, y.at - 1)
             /\ y.lit.text # <<>>
  <2>1. Source(x.parts) \o x.lit.src = SubSeq(w, 1, x.at - 1)
    BY <1>8 DEF IsReading
  <2>2. Source(x.parts) \o (x.lit.src \o source) = (Source(x.parts) \o x.lit.src) \o source
    BY <1>1, <1>2, TextAssociative
  <2>3. x.lit.text \o text # <<>>
    <3>1. x.lit.text \o text = <<>> => text = <<>>
      BY <1>1, ConcatEqualIffEmpty DEF Text
    <3> QED
      BY <1>8, <3>1 DEF Kept
  <2> QED
    BY <1>2, <1>5, <1>6, <2>1, <2>2, <2>3
<1>9. IsReading(y, w, S)
  BY <1>1, <1>3, <1>6, <1>7, <1>8 DEF IsReading
<1> QED
  BY <1>6, <1>9 DEF y, lit, source

\* An expansion follows the literal.
LEMMA CutStep ==
    ASSUME NEW w \in Text, NEW S, IsPartSet(S), NEW x, IsReading(x, w, S), x.st = "ok",
           x.at \in 1..Len(w), NEW e, IsCut(e, w, x.at, S), e.st = "ok"
    PROVE  LET y == CutTo(x, e)
           IN IsReading(y, w, S) /\ y.st = "ok" /\ y.at = e.to
<1> DEFINE parts == Append(Flushed(x), e.part)
           to == e.to
           y == CutTo(x, e)
<1>1. /\ x \in [st : Outcome, at : Nat, lit : Literal, parts : Seq(S), dq : BOOLEAN]
      /\ to \in (x.at + 1)..(Len(w) + 1) /\ e.part \in S
      /\ e.part.src = SubSeq(w, x.at, to - 1)
  BY DEF IsReading, IsCut
<1>2. /\ Flushed(x) \in Seq(S) /\ Source(Flushed(x)) \in Text
      /\ Clean(w) => Source(Flushed(x)) = SubSeq(w, 1, x.at - 1)
  BY FlushedFacts
<1>3. parts \in Seq(S)
  BY <1>1, <1>2, AppendProperties
<1>4. Source(parts) = Source(Flushed(x)) \o e.part.src
  BY <1>1, <1>2, SourceFacts
<1>5. /\ SubSeq(w, x.at, to - 1) \in Text
      /\ SubSeq(w, 1, x.at - 1) \o SubSeq(w, x.at, to - 1) = SubSeq(w, 1, to - 1)
  <2> HIDE DEF to
  <2> QED
    BY <1>1, Prolonged
<1> HIDE DEF parts
<1>6. Source(parts) \in Text /\ Source(parts) \o <<>> = Source(parts)
  <2>1. Source(parts) \in Text
    BY <1>1, <1>2, <1>4, <1>5, ConcatProperties DEF Text
  <2> QED
    BY <2>1, ConcatEmptySeq DEF Text
<1>7. NoLit \in Literal /\ NoLit.src = <<>> /\ NoLit.text = <<>> /\ NoLit.form = "literal"
  BY DEF NoLit, Part, Literal, Text
<1>8. SpeltAlone(NoLit)
  BY <1>7, SpeltCases
<1>9. to \in Nat /\ to \in 1..(Len(w) + 1)
  <2>1. Len(w) \in Nat
    BY TextFacts
  <2> HIDE DEF to
  <2> QED
    BY <1>1, <2>1
<1> HIDE DEF to
<1>10. /\ y \in [st : Outcome, at : Nat, lit : Literal, parts : Seq(S), dq : BOOLEAN]
       /\ y.st = "ok" /\ y.at = to /\ y.lit = NoLit /\ y.parts = parts
  <2>1. y = [x EXCEPT !.parts = parts, !.lit = NoLit, !.at = to]
    BY DEF CutTo, parts, to
  <2> HIDE DEF y
  <2> QED
    BY <1>1, <1>3, <1>7, <1>9, <2>1
<1> HIDE DEF y
<1>11. Clean(w) => Source(y.parts) \o y.lit.src = SubSeq(w, 1, y.at - 1)
  BY <1>1, <1>2, <1>4, <1>5, <1>6, <1>7, <1>10
<1>12. IsReading(y, w, S)
  BY <1>6, <1>7, <1>8, <1>9, <1>10, <1>11 DEF IsReading
<1> QED
  BY <1>10, <1>12 DEF y, parts, to
\* ------------------------------ a turn's part ----------------------------

\* A backslash with the character after it, if there is one.
Escape(w, i) == SubSeq(w, i + 1, SkipEscape(w, i) - 1)
Quoted(escaped) == IF escaped = <<"\n">> THEN <<>> ELSE escaped

LEMMA PartCases ==
    ASSUME NEW x, NEW w, NEW brace
    PROVE  LET i == x.at
               c == At(w, i)
               y == PartTurn(x, w, brace)
               e == IF c = "$" THEN ParseDollar(w, i, brace) ELSE ParseBacktick(w, i)
               escaped == Escape(w, i)
           IN /\ x.st # "ok" \/ c = End => y = x
              /\ x.st = "ok" /\ c = "\\" /\ ~x.dq =>
                     y = LiteralTo(x, Quoted(escaped), <<c>> \o escaped, SkipEscape(w, i))
              /\ x.st = "ok" /\ c \in {"$", Tick} /\ e.st # "ok" => y = FailTo(x, e)
              /\ x.st = "ok" /\ c \in {"$", Tick} /\ e.st = "ok" => y = CutTo(x, e)
              /\ x.st = "ok" /\ c \notin {End, "$", Tick} /\ ~(c = "\\" /\ ~x.dq) =>
                     y = LiteralTo(x, <<c>>, <<c>>, i + 1)
<1> DEFINE i == x.at
           c == At(w, i)
<1> HIDE DEF c
<1>1. CASE x.st # "ok" \/ c = End
  BY <1>1 DEF PartTurn, c
<1>2. CASE x.st = "ok" /\ c = "\\" /\ ~x.dq
  BY <1>2 DEF PartTurn, LiteralTo, Escape, Quoted, c
<1>3. CASE x.st = "ok" /\ c \in {"$", Tick}
  BY <1>3 DEF PartTurn, CutTo, FailTo, c
<1>4. CASE x.st = "ok" /\ c \notin {End, "$", Tick} /\ ~(c = "\\" /\ ~x.dq)
  BY <1>4 DEF PartTurn, LiteralTo, c
<1> QED
  BY <1>1, <1>2, <1>3, <1>4 DEF c
\* An expansion that nothing keeps from being read.
Readable(w, i, brace) ==
    /\ At(w, i) # Tick
    /\ At(w, i) = "$" /\ At(w, i + 1) = "(" =>
           /\ Range(w) \cap Wide = {} /\ Closes(w, i + 2)
           /\ At(w, i + 2) = "(" => Closes(w, i + 3)
    /\ At(w, i) = "$" /\ At(w, i + 1) = OpenBrace => brace.st = "ok"

IsBrace(w, i) == At(w, i) = "$" /\ At(w, i + 1) = OpenBrace

LEMMA CharStep ==
    ASSUME NEW w \in Text, NEW S, NEW x, IsReading(x, w, S), x.st = "ok",
           x.at \in 1..Len(w), NEW c, c = w[x.at]
    PROVE  LET y == LiteralTo(x, <<c>>, <<c>>, x.at + 1)
           IN IsReading(y, w, S) /\ y.st = "ok" /\ y.at = x.at + 1
<1> DEFINE to == x.at + 1
           text == <<c>>
<1>1. /\ c \in Char /\ Len(w) \in Nat /\ x.at \in Nat /\ to \in Nat /\ to \in (x.at + 1)..(Len(w) + 1)
      /\ to - 1 = x.at
  BY TextFacts
<1>2. text = SubSeq(w, x.at, to - 1)
  BY <1>1, OneOf
<1>3. text \in Text /\ text # <<>> /\ SpeltBy(text, text)
  BY <1>1 DEF Text, SpeltBy
<1>4. Kept(text, w) /\ SpeltBy(SubSeq(w, x.at, to - 1), text)
  BY <1>2, <1>3 DEF Kept
<1> HIDE DEF to, text
<1> DEFINE y == LiteralTo(x, text, SubSeq(w, x.at, to - 1), to)
<1>5. IsReading(y, w, S) /\ y.st = "ok" /\ y.at = to
  BY <1>1, <1>3, <1>4, LiteralStep
<1>6. y = LiteralTo(x, text, text, to)
  BY <1>2
<1> HIDE DEF y
<1> QED
  BY <1>5, <1>6 DEF to, text

LEMMA EscapeFacts2 ==
    ASSUME NEW w \in Text, NEW i \in 1..Len(w)
    PROVE  /\ SkipEscape(w, i) \in (i + 1)..(Len(w) + 1)
           /\ Escape(w, i) = IF i = Len(w) THEN <<>> ELSE <<w[i + 1]>>
           /\ Escape(w, i) \in Text /\ Quoted(Escape(w, i)) \in Text
           /\ <<w[i]>> \o Escape(w, i) = SubSeq(w, i, SkipEscape(w, i) - 1)
<1> DEFINE n == Len(w)
<1>1. n \in Nat /\ i \in Nat /\ i \in 1..n /\ w[i] \in Char
  BY TextFacts
<1>2. SkipEscape(w, i) = IF i = n THEN i + 1 ELSE i + 2
  BY EscapeFacts
<1> HIDE DEF n
<1>3. CASE i = n
  <2>1. SkipEscape(w, i) - 1 = i /\ SkipEscape(w, i) \in (i + 1)..(n + 1)
    BY <1>1, <1>2, <1>3
  <2>2. SubSeq(w, i + 1, i) = <<>>
    <3>1. i + 1 \in Int /\ i \in Int /\ 1 <= i + 1 /\ i <= n /\ ~(i + 1 <= i)
      BY <1>1
    <3>2. SubSeq(w, i + 1, i) \in Text /\ Len(SubSeq(w, i + 1, i)) = 0
      BY <3>1, PieceFacts DEF n
    <3> QED
      BY <3>2, EmptySeq DEF Text
  <2>3. SubSeq(w, i, i) = <<w[i]>>
    BY OneOf
  <2>4. Escape(w, i) = <<>>
    BY <2>1, <2>2 DEF Escape
  <2>5. <<w[i]>> \o <<>> = <<w[i]>>
    OBVIOUS
  <2>6. <<>> \in Text /\ Quoted(<<>>) \in Text
    BY DEF Text, Quoted
  <2> QED
    BY <1>3, <2>1, <2>3, <2>4, <2>5, <2>6 DEF n
<1>4. CASE i # n
  <2>1. /\ SkipEscape(w, i) - 1 = i + 1 /\ SkipEscape(w, i) \in (i + 1)..(n + 1)
        /\ i + 1 \in 1..n /\ i + 1 \in i..n
    BY <1>1, <1>2, <1>4
  <2>2. SubSeq(w, i + 1, i + 1) = <<w[i + 1]>> /\ w[i + 1] \in Char
    BY <2>1, OneOf, TextFacts DEF n
  <2>3. SubSeq(w, i, i + 1) = <<w[i]>> \o SubSeq(w, i + 1, i + 1)
    BY <2>1, FirstOf DEF n
  <2>4. Escape(w, i) = <<w[i + 1]>>
    BY <2>1, <2>2 DEF Escape
  <2>5. <<w[i + 1]>> \in Text
    BY <2>2 DEF Text
  <2>6. Quoted(<<w[i + 1]>>) \in Text
    BY <2>5 DEF Quoted, Text
  <2> QED
    BY <1>4, <2>1, <2>2, <2>3, <2>4, <2>5, <2>6 DEF n
<1> QED
  BY <1>3, <1>4

LEMMA EscapeStep ==
    ASSUME NEW w \in Text, NEW S, NEW x, IsReading(x, w, S), x.st = "ok",
           x.at \in 1..Len(w), w[x.at] = "\\"
    PROVE  LET escaped == Escape(w, x.at)
               y == LiteralTo(x, Quoted(escaped), <<w[x.at]>> \o escaped, SkipEscape(w, x.at))
           IN IsReading(y, w, S) /\ y.st = "ok" /\ y.at > x.at
<1> DEFINE n == Len(w)
           i == x.at
           to == SkipEscape(w, i)
           escaped == Escape(w, i)
           quoted == Quoted(escaped)
           source == <<w[x.at]>> \o escaped
<1>1. /\ n \in Nat /\ i \in 1..n /\ i \in Nat
  BY TextFacts
<1>2. /\ to \in (i + 1)..(n + 1)
      /\ escaped = IF i = n THEN <<>> ELSE <<w[i + 1]>>
      /\ escaped \in Text /\ quoted \in Text
      /\ source = SubSeq(w, i, to - 1)
  BY EscapeFacts2
<1> HIDE DEF escaped
<1>3. SpeltBy(source, quoted)
  <2>1. <<w[x.at]>> \in Text
    <3>1. w[x.at] \in Char
      BY TextFacts
    <3> QED
      BY <3>1 DEF Text
  <2>2. Range(<<w[x.at]>> \o escaped) = Range(<<w[x.at]>>) \cup Range(escaped)
    BY <1>2, <2>1, TextConcat
  <2>3. w[x.at] \in Range(<<w[x.at]>>)
    <3>1. 1 \in DOMAIN <<w[x.at]>> /\ <<w[x.at]>>[1] = w[x.at]
      OBVIOUS
    <3> QED
      BY <3>1 DEF Range
  <2> QED
    BY <2>2, <2>3 DEF SpeltBy
<1>4. ASSUME Clean(w) PROVE quoted # <<>>
  <2>1. i # n
    <3>1. ASSUME i = n PROVE FALSE
      <4>1. w # <<>> /\ Last(w) = w[n]
        BY <1>1, <3>1 DEF Last
      <4> QED
        BY <1>4, <3>1, <4>1 DEF Clean
    <3> QED
      BY <3>1
  <2>2. w[i + 1] # "\n"
    <3> DEFINE j == i + 1
    <3>1. j \in 2..n /\ j - 1 = i
      BY <1>1, <2>1
    <3>2. w[j - 1] = "\\"
      BY <3>1
    <3> HIDE DEF j
    <3> QED
      BY <1>4, <3>1, <3>2 DEF Clean, Escaped, j
  <2>3. escaped = <<w[i + 1]>>
    BY <1>2, <2>1
  <2>4. escaped # <<"\n">> /\ escaped # <<>>
    BY <2>2, <2>3
  <2> QED
    BY <2>4 DEF Quoted
<1>5. to > i
  <2> HIDE DEF to, i, n
  <2> QED
    BY <1>1, <1>2
<1>6. Kept(quoted, w) /\ SpeltBy(SubSeq(w, x.at, to - 1), quoted)
  BY <1>2, <1>3, <1>4 DEF Kept
<1> HIDE DEF source, to, quoted
<1> DEFINE y == LiteralTo(x, quoted, SubSeq(w, x.at, to - 1), to)
<1>7. IsReading(y, w, S) /\ y.st = "ok" /\ y.at = to
  <2>1. to \in (x.at + 1)..(Len(w) + 1) /\ quoted \in Text
    BY <1>2
  <2> QED
    BY <1>6, <2>1, LiteralStep
<1>8. y = LiteralTo(x, quoted, source, to)
  BY <1>2
<1> HIDE DEF y
<1> QED
  BY <1>5, <1>7, <1>8 DEF to, source, quoted, escaped

\* The expansion cannot be read.
LEMMA FailStep ==
    ASSUME NEW w \in Text, NEW S, NEW x, IsReading(x, w, S), x.st = "ok",
           NEW e, IsCut(e, w, x.at, S), e.st # "ok"
    PROVE  LET y == FailTo(x, e) IN IsReading(y, w, S) /\ y.st # "ok"
<1> DEFINE y == FailTo(x, e)
<1>1. /\ x \in [st : Outcome, at : Nat, lit : Literal, parts : Seq(S), dq : BOOLEAN]
      /\ x.at \in 1..(Len(w) + 1) /\ SpeltAlone(x.lit) /\ Source(x.parts) \in Text
  BY DEF IsReading
<1>2. e.st \in Outcome /\ (e.st = "panic" => PanicPlace(w))
  BY DEF IsCut
<1>3. /\ y \in [st : Outcome, at : Nat, lit : Literal, parts : Seq(S), dq : BOOLEAN]
      /\ y.st = e.st /\ y.at = x.at /\ y.lit = x.lit /\ y.parts = x.parts
  BY <1>1, <1>2 DEF FailTo
<1> HIDE DEF y
<1>4. IsReading(y, w, S)
  BY <1>1, <1>2, <1>3 DEF IsReading
<1> QED
  BY <1>3, <1>4 DEF y

\* A turn reads the next part or character, unless the word is at its end or an
\* expansion cannot be read.
LEMMA PartStep ==
    ASSUME NEW w \in Text, NEW S, IsPartSet(S), NEW x, IsReading(x, w, S),
           NEW brace, x.st = "ok" /\ IsBrace(w, x.at) => IsCut(brace, w, x.at, S)
    PROVE  LET y == PartTurn(x, w, brace)
           IN /\ IsReading(y, w, S)
              /\ x.st # "ok" \/ x.at > Len(w) => y = x
              /\ x.st = "ok" /\ x.at <= Len(w) => y.st # "ok" \/ y.at > x.at
              /\ x.st = "ok" /\ Readable(w, x.at, brace) => y.st = "ok"
<1> DEFINE i == x.at
           c == At(w, i)
           y == PartTurn(x, w, brace)
           e == IF c = "$" THEN ParseDollar(w, i, brace) ELSE ParseBacktick(w, i)
<1>0. i \in 1..(Len(w) + 1) /\ Len(w) \in Nat /\ x.dq \in BOOLEAN
  BY TextFacts DEF IsReading
<1>1. CASE x.st # "ok" \/ i > Len(w)
  <2>1. i > Len(w) => c = End
    <3>1. i > Len(w) => i \notin 1..Len(w) /\ i \in Int
      BY <1>0
    <3> QED
      BY <3>1, TextFacts
  <2>2. y = x
    BY <1>1, <2>1, PartCases
  <2> QED
    BY <1>0, <1>1, <2>2
<1>2. CASE x.st = "ok" /\ i <= Len(w)
  <2>1. i \in 1..Len(w) /\ c = w[i] /\ c # End
    <3>1. i \in 1..Len(w)
      BY <1>0, <1>2
    <3> QED
      BY <3>1, TextFacts
  <2> DEFINE Good == /\ IsReading(y, w, S)
                     /\ y.st # "ok" \/ y.at > i
                     /\ Readable(w, i, brace) => y.st = "ok"
  <2>2. ASSUME c = "\\" /\ ~x.dq PROVE Good
    <3> DEFINE z == LiteralTo(x, Quoted(Escape(w, i)), <<c>> \o Escape(w, i), SkipEscape(w, i))
    <3>1. y = z
      BY <1>2, <2>2, PartCases
    <3>2. IsReading(z, w, S) /\ z.st = "ok" /\ z.at > i
      <4>1. w[i] = "\\" /\ <<c>> = <<w[i]>>
        BY <2>1, <2>2
      <4> QED
        BY <1>2, <2>1, <4>1, EscapeStep
    <3> HIDE DEF y, z
    <3> QED
      BY <3>1, <3>2
  <2>3. ASSUME c \in {"$", Tick} PROVE Good
    <3> DEFINE cut == IsCut(e, w, i, S)
    <3>1. cut /\ (Readable(w, i, brace) => e.st = "ok")
      <4>1. CASE c = "$"
        <5>1. e = ParseDollar(w, i, brace)
          BY <4>1
        <5>2. At(w, i + 1) = OpenBrace => IsCut(brace, w, i, S)
          BY <1>2, <4>1 DEF IsBrace
        <5>3. SpeltPart \subseteq S
          BY DEF IsPartSet
        <5>4. w[i] = "$"
          BY <2>1, <4>1
        <5>5. /\ IsCut(ParseDollar(w, i, brace), w, i, S)
              /\ /\ At(w, i + 1) = "(" =>
                        /\ Range(w) \cap Wide = {} /\ Closes(w, i + 2)
                        /\ At(w, i + 2) = "(" => Closes(w, i + 3)
                 /\ At(w, i + 1) = OpenBrace => brace.st = "ok"
                 => ParseDollar(w, i, brace).st = "ok"
          BY <2>1, <5>2, <5>3, <5>4, DollarCut
        <5> HIDE DEF e
        <5> QED
          BY <4>1, <5>1, <5>5 DEF Readable
      <4>2. CASE c = Tick
        <5>1. e = ParseBacktick(w, i)
          BY <4>2
        <5>2. SpeltPart \subseteq S
          BY DEF IsPartSet
        <5>3. IsCut(ParseBacktick(w, i), w, i, SpeltPart)
          BY <2>1, <4>2, BacktickCut
        <5>4. IsCut(ParseBacktick(w, i), w, i, S)
          BY <5>2, <5>3, WiderCut
        <5> HIDE DEF e
        <5> QED
          BY <4>2, <5>1, <5>4 DEF Readable
      <4> QED
        BY <2>3, <4>1, <4>2
    <3>2. CASE e.st = "ok"
      <4>1. y = CutTo(x, e)
        BY <1>2, <2>3, <3>2, PartCases
      <4> HIDE DEF e, y
      <4>2. IsReading(CutTo(x, e), w, S) /\ CutTo(x, e).st = "ok" /\ CutTo(x, e).at = e.to
        BY <1>2, <2>1, <3>1, <3>2, CutStep
      <4>3. e.to > i
        BY <1>0, <3>1, <3>2 DEF IsCut
      <4> QED
        BY <4>1, <4>2, <4>3
    <3>3. CASE e.st # "ok"
      <4>1. y = FailTo(x, e)
        BY <1>2, <2>3, <3>3, PartCases
      <4> HIDE DEF e, y
      <4>2. IsReading(FailTo(x, e), w, S) /\ FailTo(x, e).st # "ok"
        BY <1>2, <3>1, <3>3, FailStep
      <4> QED
        BY <3>1, <3>3, <4>1, <4>2
    <3> QED
      BY <3>2, <3>3
  <2>4. ASSUME c \notin {"$", Tick} /\ ~(c = "\\" /\ ~x.dq) PROVE Good
    <3>1. y = LiteralTo(x, <<c>>, <<c>>, i + 1)
      BY <1>2, <2>1, <2>4, PartCases
    <3>2. IsReading(y, w, S) /\ y.st = "ok" /\ y.at = i + 1
      <4> DEFINE z == LiteralTo(x, <<c>>, <<c>>, i + 1)
      <4>1. IsReading(z, w, S) /\ z.st = "ok" /\ z.at = i + 1
        BY <1>2, <2>1, CharStep
      <4> HIDE DEF y, z
      <4> QED
        BY <3>1, <4>1 DEF z
    <3> HIDE DEF y
    <3> QED
      BY <1>0, <3>2
  <2>5. Good
    BY <2>2, <2>3, <2>4
  <2> QED
    BY <1>0, <1>2, <2>5
<1> QED
  BY <1>0, <1>1, <1>2
\* ------------------------------ the cutting ------------------------------

\* What cutting w into parts of S comes to.
IsCutting(r, w, S) ==
    /\ r.st \in Outcome
    /\ r.parts \in Seq(S)
    /\ r.st = "ok" /\ Clean(w) => Source(r.parts) = w
    /\ r.st = "panic" => PanicPlace(w)

LEMMA StartReading ==
    ASSUME NEW w \in Text, NEW S, NEW dq \in BOOLEAN
    PROVE  /\ IsReading(PartsFrom(dq), w, S)
           /\ PartsFrom(dq).st = "ok" /\ PartsFrom(dq).at = 1
<1> DEFINE x == PartsFrom(dq)
<1>1. NoLit \in Literal /\ NoLit.src = <<>> /\ NoLit.text = <<>> /\ NoLit.form = "literal"
  BY DEF NoLit, Part, Literal, Text
<1>2. SpeltAlone(NoLit)
  BY <1>1, SpeltCases
<1>3. Source(<<>>) = <<>> /\ <<>> \in Text /\ <<>> \o <<>> = <<>>
  BY SourceFacts DEF Text
<1>4. Len(w) \in Nat /\ 1 \in 1..(Len(w) + 1) /\ 1 - 1 = 0
  BY TextFacts
<1>5. SubSeq(w, 1, 0) = <<>>
  BY <1>4, PieceFacts
<1>6. /\ x \in [st : Outcome, at : Nat, lit : Literal, parts : Seq(S), dq : BOOLEAN]
      /\ x.st = "ok" /\ x.at = 1 /\ x.lit = NoLit /\ x.parts = <<>>
  BY <1>1 DEF PartsFrom, Outcome
<1> HIDE DEF x
<1>7. IsReading(x, w, S)
  BY <1>1, <1>2, <1>3, <1>4, <1>5, <1>6 DEF IsReading
<1> QED
  BY <1>6, <1>7 DEF x

LEMMA PartsReadFacts ==
    ASSUME NEW w \in Text, NEW S, IsPartSet(S), NEW x, IsReading(x, w, S),
           x.st # "ok" \/ x.at = Len(w) + 1
    PROVE  IsCutting(PartsRead(x), w, S) /\ PartsRead(x).st = x.st
<1>1. x.st \in Outcome /\ (x.st = "panic" => PanicPlace(w)) /\ Len(w) \in Nat
  BY TextFacts DEF IsReading
<1>2. CASE x.st = "ok"
  <2>1. PartsRead(x).st = "ok" /\ PartsRead(x).parts = Flushed(x)
    BY <1>2 DEF PartsRead, Parts
  <2>2. x.at - 1 = Len(w)
    BY <1>1, <1>2
  <2>3. SubSeq(w, 1, Len(w)) = w
    BY SubSeqFull DEF Text
  <2>4. Flushed(x) \in Seq(S) /\ (Clean(w) => Source(Flushed(x)) = w)
    BY <1>2, <2>2, <2>3, FlushedFacts
  <2> QED
    BY <1>1, <1>2, <2>1, <2>4 DEF IsCutting
<1>3. CASE x.st # "ok"
  <2>1. PartsRead(x).st = x.st /\ PartsRead(x).parts = <<>>
    BY <1>3 DEF PartsRead, Failed
  <2>2. <<>> \in Seq(S)
    OBVIOUS
  <2> QED
    BY <1>1, <1>3, <2>1, <2>2 DEF IsCutting
<1> QED
  BY <1>2, <1>3

\* Cutting a word, turn by turn; b[n] is what comes of a `${` at the n-th turn.
CutRun(o, b, w, S) ==
    /\ \A n \in Nat : o[n + 1] = PartTurn(o[n], w, b[n])
    /\ \A n \in Nat : o[n].at \in 1..Len(w) /\ IsBrace(w, o[n].at) =>
           IsCut(b[n], w, o[n].at, S)
AllReadable(o, b, w) == \A n \in Nat : o[n].at \in 1..Len(w) => Readable(w, o[n].at, b[n])

LEMMA CuttingFacts ==
    ASSUME NEW w \in Text, NEW S, IsPartSet(S), NEW dq \in BOOLEAN, NEW o, NEW b,
           o[0] = PartsFrom(dq), CutRun(o, b, w, S)
    PROVE  LET r == PartsRead(o[Len(w)])
           IN /\ IsCutting(r, w, S)
              /\ AllReadable(o, b, w) => r.st = "ok"
<1> DEFINE easy == AllReadable(o, b, w)
           Reached(n) == /\ IsReading(o[n], w, S)
                         /\ o[n].st # "ok" \/ o[n].at > n \/ o[n].at = Len(w) + 1
                         /\ easy => o[n].st = "ok"
           T == {n \in Nat : Reached(n)}
<1>1. Len(w) \in Nat
  BY TextFacts
<1>2. 0 \in T
  <2>1. IsReading(o[0], w, S) /\ o[0].st = "ok" /\ o[0].at = 1
    BY StartReading
  <2> QED
    BY <2>1
<1>3. ASSUME NEW n \in Nat, n \in T PROVE n + 1 \in T
  <2> DEFINE x == o[n]
             y == o[n + 1]
  <2>1. /\ IsReading(x, w, S) /\ (x.st # "ok" \/ x.at > n \/ x.at = Len(w) + 1)
        /\ easy => x.st = "ok"
    BY <1>3
  <2>2. x.at \in 1..(Len(w) + 1) /\ x.at \in Nat
    BY <1>1, <2>1 DEF IsReading
  <2>3. y = PartTurn(x, w, b[n])
    BY DEF CutRun
  <2>11. x.at \in 1..Len(w) /\ IsBrace(w, x.at) => IsCut(b[n], w, x.at, S)
    BY DEF CutRun
  <2>6. easy /\ x.at \in 1..Len(w) => Readable(w, x.at, b[n])
    BY DEF AllReadable
  <2> HIDE DEF easy, x, y
  <2>4. IsBrace(w, x.at) => x.at \in 1..Len(w)
    <3>1. At(w, x.at) = "$" => x.at \in 1..Len(w)
      BY <2>2, TextFacts
    <3> QED
      BY <3>1 DEF IsBrace
  <2>5. x.st = "ok" /\ IsBrace(w, x.at) => IsCut(b[n], w, x.at, S)
    BY <2>4, <2>11
  <2>7. /\ IsReading(y, w, S)
        /\ x.st # "ok" \/ x.at > Len(w) => y = x
        /\ x.st = "ok" /\ x.at <= Len(w) => y.st # "ok" \/ y.at > x.at
        /\ x.st = "ok" /\ Readable(w, x.at, b[n]) => y.st = "ok"
    BY <2>1, <2>3, <2>5, PartStep
  <2>8. y.at \in 1..(Len(w) + 1) /\ y.at \in Nat
    BY <1>1, <2>7 DEF IsReading
  <2>9. y.st # "ok" \/ y.at > n + 1 \/ y.at = Len(w) + 1
    <3>1. CASE x.st # "ok"
      BY <2>7, <3>1
    <3>2. CASE x.at > Len(w)
      BY <1>1, <2>2, <2>7, <3>2
    <3>3. CASE x.st = "ok" /\ x.at <= Len(w)
      BY <1>1, <2>1, <2>2, <2>7, <2>8, <3>3
    <3> QED
      BY <1>1, <2>2, <3>1, <3>2, <3>3
  <2>10. easy => y.st = "ok"
    <3>1. ASSUME easy PROVE y.st = "ok"
      <4>1. CASE x.at > Len(w)
        BY <2>1, <2>7, <3>1, <4>1
      <4>2. CASE x.at <= Len(w)
        <5>1. x.at \in 1..Len(w)
          BY <1>1, <2>2, <4>2
        <5> QED
          BY <2>1, <2>6, <2>7, <3>1, <5>1
      <4> QED
        BY <1>1, <2>2, <4>1, <4>2
    <3> QED
      BY <3>1
  <2> QED
    BY <2>7, <2>9, <2>10 DEF y
<1> HIDE DEF T
<1>4. \A n \in Nat : n \in T
  BY <1>2, <1>3, Join!SetInduction
<1>5. Reached(Len(w))
  BY <1>1, <1>4 DEF T
<1> HIDE DEF easy
<1> DEFINE x == o[Len(w)]
<1>6. IsReading(x, w, S) /\ (easy => x.st = "ok") /\ (x.st # "ok" \/ x.at > Len(w) \/ x.at = Len(w) + 1)
  BY <1>5
<1> HIDE DEF x, Reached
<1>7. x.st # "ok" \/ x.at = Len(w) + 1
  <2>1. x.at \in 1..(Len(w) + 1)
    BY <1>6 DEF IsReading
  <2> QED
    BY <1>1, <1>6, <2>1
<1>8. IsCutting(PartsRead(x), w, S) /\ PartsRead(x).st = x.st
  BY <1>6, <1>7, PartsReadFacts
<1> QED
  BY <1>6, <1>8 DEF x, easy
LEMMA SpeltPartSet == IsPartSet(SpeltPart)
BY DEF IsPartSet, SpeltPart

\* The word of an operator is cut the same way, and the cutting of it comes to an end
\* if it has neither a dollar nor a backtick.
LEMMA OperandFacts ==
    ASSUME NEW w \in Text
    PROVE  /\ IsCutting(OperandParts(w), w, SpeltPart)
           /\ (\A i \in 1..Len(w) : w[i] \notin {"$", Tick}) => OperandParts(w).st = "ok"
<1> DEFINE start == PartsFrom(FALSE)
           brace == [st |-> "err"]
           b == [n \in Nat |-> brace]
<1>1. Turns(OperandTurn, start, w) = Opd!Turned(start, w)
  BY DEF Turns, Opd!Turned
<1>2. PICK o : /\ o[0] = start
               /\ \A n \in Nat : o[n + 1] = OperandTurn(o[n], w)
               /\ Opd!Turned(start, w) = o[Len(w)]
  BY Opd!TurnSteps
<1>3. \A n \in Nat : o[n + 1] = PartTurn(o[n], w, b[n])
  BY <1>2 DEF OperandTurn
<1>4. \A i : IsCut(brace, w, i, SpeltPart)
  BY DEF IsCut, Outcome
<1>5. \A n \in Nat : b[n] = brace
  OBVIOUS
<1> HIDE DEF b, brace
<1>6. LET r == PartsRead(o[Len(w)])
      IN /\ IsCutting(r, w, SpeltPart)
         /\ AllReadable(o, b, w) => r.st = "ok"
  <2>1. CutRun(o, b, w, SpeltPart)
    BY <1>3, <1>4, <1>5 DEF CutRun
  <2> QED
    BY <1>2, <2>1, SpeltPartSet, CuttingFacts
<1>7. OperandParts(w) = PartsRead(o[Len(w)])
  BY <1>1, <1>2 DEF OperandParts
<1>8. ASSUME \A i \in 1..Len(w) : w[i] \notin {"$", Tick}
      PROVE  AllReadable(o, b, w)
  BY <1>8, TextFacts DEF Readable, AllReadable
<1> QED
  BY <1>6, <1>7, <1>8
\* ------------------------------- variables -------------------------------

\* The parts of w: what stands alone, and operators that spell what they were read from.
OperatorPart == [form : {"operator"}, text : Text, src : Text, op : Char, word : Seq(SpeltPart)]
WordPart(w) == SpeltPart \cup
    {p \in OperatorPart : Clean(w) /\ ~Escaped(w, CloseBrace) => Spelt(p)}

LEMMA WordPartSet ==
    ASSUME NEW w
    PROVE  IsPartSet(WordPart(w)) /\ SpeltPart \subseteq WordPart(w)
BY DEF IsPartSet, WordPart, SpeltPart, OperatorPart

\* `${` at i, with something in it, and no `$` or brace, up to a `}`.
Filled(w, i) == \E k \in (i + 3)..Len(w) :
                    /\ w[k] = CloseBrace
                    /\ \A j \in (i + 2)..(k - 1) : w[j] \notin {"$", OpenBrace, CloseBrace}

LEMMA BracedPiece ==
    ASSUME NEW w \in Text, NEW i \in 1..Len(w), IsBrace(w, i),
           NEW close \in (i + 2)..Len(w), w[close] = CloseBrace
    PROVE  /\ SubSeq(w, i, close) = Braced(SubSeq(w, i + 2, close - 1))
           /\ SubSeq(w, i + 2, close - 1) \in Text
           /\ Len(SubSeq(w, i + 2, close - 1)) = close - (i + 2)
           /\ \A j \in 1..(close - (i + 2)) : SubSeq(w, i + 2, close - 1)[j] = w[i + 1 + j]
<1> DEFINE n == Len(w)
           inner == SubSeq(w, i + 2, close - 1)
<1>1. /\ n \in Nat /\ i \in Nat /\ close \in Nat /\ i + 1 \in 1..n /\ close \in 1..n
      /\ close - 1 \in (i + 1)..n /\ close \in (i + 1)..n
      /\ (i + 1) + 1 = i + 2 /\ i + 2 \in Int /\ close - 1 \in Int /\ 1 <= i + 2 /\ close - 1 <= n
      /\ close - 1 - (i + 2) + 1 = close - (i + 2)
      /\ \A j \in Int : i + 2 + j - 1 = i + 1 + j
      /\ i + 2 <= close - 1 \/ close - (i + 2) = 0
  BY TextFacts
<1>2. w[i] = "$" /\ w[i + 1] = OpenBrace
  BY <1>1, TextFacts DEF IsBrace
<1>3. SubSeq(w, i, close) = <<w[i]>> \o SubSeq(w, i + 1, close - 1) \o <<w[close]>>
  BY <1>1, Between1
<1>4. SubSeq(w, i + 1, close - 1) = <<w[i + 1]>> \o inner
  BY <1>1, FirstOf
<1>5. inner \in Text /\ <<w[i]>> \in Text /\ <<w[i + 1]>> \in Text
  <2>1. w[i] \in Char /\ w[i + 1] \in Char
    BY <1>1, TextFacts
  <2>2. inner \in Text
    BY <1>1, PieceFacts
  <2> QED
    BY <2>1, <2>2 DEF Text
<1>6. /\ Len(inner) = close - (i + 2)
      /\ \A j \in 1..(close - (i + 2)) : inner[j] = w[i + 1 + j]
  BY <1>1, PieceFacts
<1>7. <<w[i]>> \o (<<w[i + 1]>> \o inner) = <<w[i], w[i + 1]>> \o inner
  <2> HIDE DEF inner
  <2>1. <<w[i]>> \o (<<w[i + 1]>> \o inner) = (<<w[i]>> \o <<w[i + 1]>>) \o inner
    BY <1>5, TextAssociative
  <2>2. <<w[i]>> \o <<w[i + 1]>> = <<w[i], w[i + 1]>>
    BY PairFacts
  <2> QED
    BY <2>1, <2>2
<1> HIDE DEF inner
<1>8. SubSeq(w, i, close) = Braced(inner)
  BY <1>2, <1>3, <1>4, <1>7 DEF Braced
<1> QED
  BY <1>5, <1>6, <1>8 DEF inner

\* The operator's letter may follow a colon.
IsLetter(s, op, letter) == letter = op \/ (letter = op + 1 /\ s[op] = ":")

LEMMA OperatorPlace ==
    ASSUME NEW s \in Text, FindVarOperator(s) # 0
    PROVE  LET op == FindVarOperator(s)
               letter == IF At(s, op) = ":" THEN op + 1 ELSE op
           IN /\ op \in 1..Len(s) /\ letter \in 1..Len(s)
              /\ IsLetter(s, op, letter)
<1> DEFINE ops == {"-", "=", "+", "?"}
           hits == {i \in DOMAIN s : \/ s[i] = ":" /\ At(s, i + 1) \in ops
                                     \/ s[i] \in ops /\ i > 1}
           op == FindVarOperator(s)
           letter == IF At(s, op) = ":" THEN op + 1 ELSE op
<1>1. op = IF hits = {} THEN 0 ELSE Min(hits)
  BY DEF FindVarOperator
<1>2. hits # {} /\ op = Min(hits)
  BY <1>1
<1>3. hits \subseteq 1..Len(s) /\ Len(s) \in Nat
  BY TextFacts
<1>4. op \in hits
  BY <1>2, <1>3, MinFacts
<1>5. op \in 1..Len(s) /\ ((s[op] = ":" /\ At(s, op + 1) \in ops) \/ s[op] \in ops)
  BY <1>3, <1>4
<1> HIDE DEF op
<1>6. At(s, op) = s[op]
  BY <1>5, TextFacts
<1>7. letter = IF s[op] = ":" THEN op + 1 ELSE op
  BY <1>6
<1> HIDE DEF letter
<1>8. letter \in 1..Len(s) /\ IsLetter(s, op, letter)
  <2>1. CASE s[op] = ":"
    <3>1. At(s, op + 1) # End
      BY <1>5, <2>1
    <3>2. op + 1 \in 1..Len(s)
      BY <1>5, <3>1, TextFacts
    <3> QED
      BY <1>7, <2>1, <3>2 DEF IsLetter
  <2>2. CASE s[op] # ":"
    BY <1>5, <1>7, <2>2 DEF IsLetter
  <2> QED
    BY <2>1, <2>2
<1> QED
  BY <1>5, <1>8 DEF op, letter

\* The name, the operator and the rest of a `${...}` make the whole of it.
LEMMA OperatorSplit ==
    ASSUME NEW s \in Text, NEW op \in 1..Len(s), NEW letter \in 1..Len(s),
           IsLetter(s, op, letter)
    PROVE  LET text == SubSeq(s, 1, op - 1)
               rest == <<s[letter]>> \o SubSeq(s, letter + 1, Len(s))
           IN s = text \o rest \/ s = text \o <<":">> \o rest
<1> DEFINE n == Len(s)
           text == SubSeq(s, 1, op - 1)
           tail == SubSeq(s, letter + 1, n)
           rest == <<s[letter]>> \o tail
<1>1. /\ n \in Nat /\ op \in Nat /\ letter \in Nat /\ n \in 1..n /\ 1 \in 1..(n + 1)
      /\ op - 1 \in (1 - 1)..n /\ n \in (op - 1)..n /\ (op - 1) + 1 = op
      /\ n \in letter..n /\ n \in op..n
  BY TextFacts
<1>2. text \o SubSeq(s, op, n) = s
  <2>1. text \o SubSeq(s, (op - 1) + 1, n) = SubSeq(s, 1, n)
    BY <1>1, Glue
  <2>2. SubSeq(s, 1, n) = s
    BY SubSeqFull DEF Text
  <2> QED
    BY <1>1, <2>1, <2>2
<1>3. SubSeq(s, letter, n) = rest
  BY <1>1, FirstOf
<1>4. CASE letter = op
  BY <1>2, <1>3, <1>4
<1>5. CASE letter = op + 1 /\ s[op] = ":"
  <2>1. SubSeq(s, op, n) = <<s[op]>> \o SubSeq(s, op + 1, n)
    BY <1>1, FirstOf
  <2>2. text \in Text /\ rest \in Text /\ <<s[op]>> \in Text
    <3>1. s[op] \in Char /\ s[letter] \in Char
      BY <1>1, TextFacts
    <3>2. SubSeq(s, letter, n) \in Text /\ text \in Text
      BY <1>1, PieceFacts
    <3> QED
      BY <1>3, <3>1, <3>2 DEF Text
  <2>3. s = text \o (<<s[op]>> \o rest)
    BY <1>2, <1>3, <1>5, <2>1
  <2> HIDE DEF text, rest
  <2>4. text \o (<<s[op]>> \o rest) = (text \o <<s[op]>>) \o rest
    BY <2>2, TextAssociative
  <2> QED
    BY <1>5, <2>3, <2>4 DEF text, rest
<1> QED
  BY <1>4, <1>5 DEF IsLetter

\* A piece of a text panics where the text does.
LEMMA PanicPiece ==
    ASSUME NEW w \in Text, NEW m \in Int, NEW n \in Int, 1 <= m, n <= Len(w),
           PanicPlace(SubSeq(w, m, n))
    PROVE  PanicPlace(w)
<1> DEFINE v == SubSeq(w, m, n)
<1>1. /\ v \in Text /\ DOMAIN v = 1..(n - m + 1) /\ Len(v) \in Nat
      /\ Len(v) = (IF m <= n THEN n - m + 1 ELSE 0)
      /\ \A i \in 1..(n - m + 1) : v[i] = w[m + i - 1]
  <2>1. v \in Text /\ DOMAIN v = 1..(n - m + 1) /\ Len(v) = (IF m <= n THEN n - m + 1 ELSE 0)
        /\ \A i \in 1..(n - m + 1) : v[i] = w[m + i - 1]
    BY PieceFacts
  <2> QED
    BY <2>1
<1> HIDE DEF v
<1>2. PICK i \in DOMAIN v, j \in DOMAIN v :
          i < j /\ SubSeq(v, i, i + 1) = <<"$", "(">> /\ v[j] \in Wide
  BY DEF v, PanicPlace
<1>3. /\ i \in 1..Len(v) /\ j \in 1..Len(v) /\ i \in Nat /\ j \in Nat /\ i + 1 \in 1..Len(v)
      /\ i + 1 \in 1..(n - m + 1) /\ i \in 1..(n - m + 1) /\ j \in 1..(n - m + 1)
  BY <1>1, <1>2
<1>4. <<v[i], v[i + 1]>> = <<"$", "(">>
  <2>1. SubSeq(v, i, i + 1) = <<v[i], v[i + 1]>>
    BY <1>1, <1>3, TwoOf
  <2> QED
    BY <1>2, <2>1
<1>5. v[i] = w[m + i - 1] /\ v[i + 1] = w[m + i] /\ v[j] = w[m + j - 1]
  <2>1. m + (i + 1) - 1 = m + i
    BY <1>3
  <2> QED
    BY <1>1, <1>3, <2>1
<1>6. /\ Len(w) \in Nat /\ m + i - 1 \in 1..Len(w) /\ m + i \in 1..Len(w) /\ m + j - 1 \in 1..Len(w)
      /\ m + i - 1 < m + j - 1 /\ (m + i - 1) + 1 = m + i
  BY <1>2, <1>3, TextFacts
<1> DEFINE p == m + i - 1
           q == m + j - 1
<1> HIDE DEF p, q
<1>7. p \in 1..Len(w) /\ q \in 1..Len(w) /\ p < q /\ p + 1 = m + i /\ p + 1 \in 1..Len(w)
  BY <1>6 DEF p, q
<1>8. SubSeq(w, p, p + 1) = <<w[p], w[p + 1]>>
  BY <1>7, TwoOf
<1>9. <<w[p], w[p + 1]>> = <<v[i], v[i + 1]>>
  BY <1>5, <1>7 DEF p
<1>10. w[q] \in Wide
  BY <1>2, <1>5 DEF q
<1>11. DOMAIN w = 1..Len(w)
  BY TextFacts
<1> QED
  BY <1>4, <1>7, <1>8, <1>9, <1>10, <1>11 DEF PanicPlace

\* A piece of a clean text is clean if no backslash ends it.
LEMMA CleanPiece ==
    ASSUME NEW w \in Text, Clean(w), NEW m \in Int, NEW n \in Int, 1 <= m, n <= Len(w),
           m <= n => w[n] # "\\"
    PROVE  Clean(SubSeq(w, m, n))
<1> DEFINE v == SubSeq(w, m, n)
<1>1. /\ v \in Text /\ Len(v) \in Nat /\ Len(w) \in Nat
      /\ Len(v) = (IF m <= n THEN n - m + 1 ELSE 0)
      /\ \A i \in 1..(n - m + 1) : v[i] = w[m + i - 1]
  BY PieceFacts, TextFacts
<1> HIDE DEF v
<1>2. ~Escaped(v, "\n")
  <2>1. ASSUME NEW i \in 2..Len(v), v[i - 1] = "\\", v[i] = "\n" PROVE FALSE
    <3>1. /\ i \in 1..(n - m + 1) /\ i - 1 \in 1..(n - m + 1) /\ m + i - 1 \in 2..Len(w)
          /\ (m + i - 1) - 1 = m + (i - 1) - 1
      BY <1>1
    <3>2. w[m + i - 1] = "\n" /\ w[(m + i - 1) - 1] = "\\"
      BY <1>1, <2>1, <3>1
    <3> QED
      BY <3>1, <3>2 DEF Clean, Escaped
  <2> QED
    BY <2>1 DEF Escaped
<1>3. ASSUME v # <<>> PROVE Last(v) # "\\"
  <2>1. Len(v) # 0
    BY <1>1, <1>3, EmptySeq DEF Text
  <2>2. m <= n /\ Len(v) = n - m + 1 /\ Len(v) \in 1..(n - m + 1)
    BY <1>1, <2>1
  <2>3. v[Len(v)] = w[n]
    <3>1. v[Len(v)] = w[m + Len(v) - 1] /\ m + Len(v) - 1 = n
      BY <1>1, <2>2
    <3> QED
      BY <3>1
  <2>4. Last(v) = v[Len(v)]
    BY DEF Last
  <2> QED
    BY <2>2, <2>3, <2>4
<1> QED
  BY <1>2, <1>3 DEF Clean, v
\* What stands between the braces.
IsInner(s, w, i, close) ==
    /\ close \in (i + 2)..Len(w) /\ w[close] = CloseBrace
    /\ s = SubSeq(w, i + 2, close - 1)

\* The word after the operator's letter, and the operator's part.
OperandOf(s, letter) == OperandParts(SubSeq(s, letter + 1, Len(s)))
OperatorOf(s, op, letter, source) ==
    [form |-> "operator", text |-> SubSeq(s, 1, op - 1), src |-> source,
     op |-> s[letter], word |-> OperandOf(s, letter).parts]

LEMMA InnerFacts ==
    ASSUME NEW w \in Text, NEW i \in 1..Len(w), IsBrace(w, i), NEW close, NEW s,
           IsInner(s, w, i, close)
    PROVE  /\ s \in Text /\ Len(s) = close - (i + 2) /\ SubSeq(w, i, close) = Braced(s)
           /\ \A j \in 1..Len(s) : s[j] = w[i + 1 + j]
           /\ close \in (i + 2)..Len(w) /\ w[close] = CloseBrace
           /\ SubSeq(w, i, close) \in Text
           /\ Clean(w) /\ ~Escaped(w, CloseBrace) => Clean(s) /\ (Len(s) > 0 => s[Len(s)] # "\\")
           /\ PanicPlace(s) => PanicPlace(w)
<1> DEFINE k == i + 2
           n == close - 1
<1>1. close \in (i + 2)..Len(w) /\ w[close] = CloseBrace /\ s = SubSeq(w, i + 2, close - 1)
  BY DEF IsInner
<1>2. /\ SubSeq(w, i, close) = Braced(SubSeq(w, i + 2, close - 1))
      /\ SubSeq(w, i + 2, close - 1) \in Text
      /\ Len(SubSeq(w, i + 2, close - 1)) = close - (i + 2)
      /\ \A j \in 1..(close - (i + 2)) : SubSeq(w, i + 2, close - 1)[j] = w[i + 1 + j]
  BY <1>1, BracedPiece
<1>3. /\ k \in Int /\ n \in Int /\ 1 <= k /\ n <= Len(w) /\ Len(w) \in Nat
      /\ i \in Int /\ close \in Int /\ 1 <= i /\ close <= Len(w) /\ close \in 2..Len(w)
      /\ i + 1 + (close - (i + 2)) = n
  BY <1>1, TextFacts
<1>4. SubSeq(w, i, close) \in Text
  BY <1>3, PieceFacts
<1>5. ASSUME ~Escaped(w, CloseBrace) PROVE w[n] # "\\"
  <2>1. n = close - 1
    OBVIOUS
  <2> QED
    BY <1>1, <1>3, <1>5 DEF Escaped
<1> HIDE DEF k, n
<1>6. ASSUME Clean(w), ~Escaped(w, CloseBrace) PROVE Clean(SubSeq(w, k, n))
  BY <1>3, <1>5, <1>6, CleanPiece
<1>7. PanicPlace(SubSeq(w, k, n)) => PanicPlace(w)
  BY <1>3, PanicPiece
<1>8. ASSUME ~Escaped(w, CloseBrace), Len(s) > 0 PROVE s[Len(s)] # "\\"
  <2>1. s[Len(s)] = w[n]
    BY <1>1, <1>2, <1>3, <1>8
  <2> QED
    BY <1>5, <1>8, <2>1
<1>9. s = SubSeq(w, k, n)
  BY <1>1 DEF k, n
<1> QED
  BY <1>1, <1>2, <1>4, <1>6, <1>7, <1>8, <1>9

LEMMA OperatorCut ==
    ASSUME NEW w \in Text, NEW i \in 1..Len(w), IsBrace(w, i), NEW close, NEW s,
           IsInner(s, w, i, close), NEW op \in 1..Len(s), NEW letter \in 1..Len(s),
           IsLetter(s, op, letter)
    PROVE  LET word == OperandOf(s, letter)
           IN /\ word.st = "ok" => OperatorOf(s, op, letter, SubSeq(w, i, close)) \in WordPart(w)
              /\ word.st \in Outcome
              /\ word.st = "panic" => PanicPlace(w)
              /\ (\A j \in 1..Len(s) : s[j] \notin {"$", Tick}) => word.st = "ok"
<1> DEFINE m == Len(s)
           v == SubSeq(s, letter + 1, m)
           text == SubSeq(s, 1, op - 1)
           source == SubSeq(w, i, close)
           word == OperandOf(s, letter)
           p == OperatorOf(s, op, letter, source)
<1>1. /\ s \in Text /\ source \in Text /\ source = Braced(s)
      /\ Clean(w) /\ ~Escaped(w, CloseBrace) => Clean(s) /\ (m > 0 => s[m] # "\\")
      /\ PanicPlace(s) => PanicPlace(w)
  BY InnerFacts
<1> HIDE DEF source
<1>2. /\ m \in Nat /\ op \in 1..m /\ letter \in 1..m /\ m > 0
      /\ letter + 1 \in Int /\ 1 <= letter + 1 /\ m <= m /\ m \in Int /\ 1 \in Int /\ op - 1 \in Int
      /\ op - 1 <= m /\ 1 <= 1
  BY <1>1, TextFacts
<1>3. v \in Text /\ text \in Text /\ s[letter] \in Char
      /\ Len(v) = (IF letter + 1 <= m THEN m - (letter + 1) + 1 ELSE 0)
      /\ \A j \in 1..(m - (letter + 1) + 1) : v[j] = s[letter + 1 + j - 1]
  <2>1. s[letter] \in Char
    BY <1>1, TextFacts
  <2>2. text \in Text
    BY <1>1, <1>2, PieceFacts
  <2>3. /\ v \in Text
        /\ Len(v) = (IF letter + 1 <= m THEN m - (letter + 1) + 1 ELSE 0)
        /\ \A j \in 1..(m - (letter + 1) + 1) : v[j] = s[letter + 1 + j - 1]
    BY <1>1, <1>2, PieceFacts
  <2> QED
    BY <2>1, <2>2, <2>3
<1>4. IsCutting(word, v, SpeltPart)
  BY <1>3, OperandFacts DEF OperandOf
<1> HIDE DEF word
<1>5. p = [form |-> "operator", text |-> text, src |-> source, op |-> s[letter], word |-> word.parts]
  BY DEF OperatorOf, word
<1>6. ASSUME word.st = "panic" PROVE PanicPlace(w)
  <2>1. PanicPlace(v)
    BY <1>4, <1>6 DEF IsCutting
  <2>2. PanicPlace(s)
    BY <1>1, <1>2, <2>1, PanicPiece
  <2> QED
    BY <1>1, <2>2
<1>7. ASSUME word.st = "ok" PROVE p \in WordPart(w)
  <2>1. p \in OperatorPart
    <3>1. word.parts \in Seq(SpeltPart)
      BY <1>4 DEF IsCutting
    <3> HIDE DEF p, text, v
    <3> QED
      BY <1>1, <1>3, <1>5, <3>1 DEF OperatorPart
  <2>2. ASSUME Clean(w), ~Escaped(w, CloseBrace) PROVE Spelt(p)
    <3>1. s[m] # "\\" /\ Clean(s)
      BY <1>1, <1>2, <2>2
    <3>2. Clean(v)
      BY <1>1, <1>2, <3>1, CleanPiece
    <3>3. Source(word.parts) = v
      BY <1>4, <1>7, <3>2 DEF IsCutting
    <3>4. LET rest == <<s[letter]>> \o v
          IN s = text \o rest \/ s = text \o <<":">> \o rest
      BY <1>1, OperatorSplit
    <3>5. \A j \in DOMAIN word.parts : SpeltAlone(word.parts[j])
      <4>1. word.parts \in Seq(SpeltPart)
        BY <1>4 DEF IsCutting
      <4>2. \A j \in DOMAIN word.parts : word.parts[j] \in SpeltPart
        BY <4>1
      <4> QED
        BY <4>2 DEF SpeltPart
    <3> HIDE DEF v, text, p
    <3>6. /\ p.form = "operator" /\ p.op = s[letter] /\ p.text = text /\ p.word = word.parts
          /\ p.src = Braced(s)
      BY <1>1, <1>5
    <3> QED
      BY <3>3, <3>4, <3>5, <3>6 DEF Spelt
  <2> HIDE DEF p
  <2> QED
    BY <2>1, <2>2 DEF WordPart
<1>8. ASSUME \A j \in 1..m : s[j] \notin {"$", Tick} PROVE word.st = "ok"
  <2>1. \A j \in 1..Len(v) : v[j] \notin {"$", Tick}
    <3> HIDE DEF v
    <3> TAKE j \in 1..Len(v)
    <3>1. j \in 1..(m - (letter + 1) + 1) /\ letter + 1 + j - 1 \in 1..m
      BY <1>2, <1>3
    <3> QED
      BY <1>3, <1>8, <3>1
  <2> QED
    BY <1>3, <2>1, OperandFacts DEF OperandOf, word
<1>9. word.st \in Outcome
  BY <1>4 DEF IsCutting
<1> HIDE DEF p
<1> QED
  BY <1>6, <1>7, <1>8, <1>9 DEF word, p, source

LEMMA BraceCases ==
    ASSUME NEW w, NEW k
    PROVE  LET close == SkipTo(w, k, {CloseBrace})
               s == SubSeq(w, k, close - 1)
               source == SubSeq(w, k - 2, close)
               op == FindVarOperator(s)
               letter == IF At(s, op) = ":" THEN op + 1 ELSE op
               Got(part) == [st |-> "ok", part |-> part, to |-> close + 1]
               long == s[1] = "#" /\ IsValidName(Tail(s))
               e == ParseBraceVar(w, k)
           IN /\ close > Len(w) \/ s = <<>> => e = [st |-> "err"]
              /\ ~(close > Len(w) \/ s = <<>>) =>
                     /\ long => e = Got(Part("length", Tail(s), source))
                     /\ ~long /\ op = 0 => e = Got(Part("variable", s, source))
                     /\ ~long /\ op # 0 =>
                            /\ OperandOf(s, letter).st # "ok" => e = [st |-> OperandOf(s, letter).st]
                            /\ OperandOf(s, letter).st = "ok" =>
                                   e = Got(OperatorOf(s, op, letter, source))
BY DEF ParseBraceVar, OperandOf, OperatorOf

\* A part that stands alone, up to the closing brace.
LEMMA AloneCut ==
    ASSUME NEW w \in Text, NEW i \in 1..Len(w), NEW close \in (i + 2)..Len(w),
           NEW form \in Form, NEW text \in Text,
           SpeltAlone(Part(form, text, SubSeq(w, i, close)))
    PROVE  IsCut([st |-> "ok", part |-> Part(form, text, SubSeq(w, i, close)), to |-> close + 1],
                 w, i, WordPart(w))
<1> DEFINE to == close + 1
           p == Part(form, text, SubSeq(w, i, close))
<1>1. Len(w) \in Nat
  BY TextFacts
<1>2. to \in (i + 1)..(Len(w) + 1) /\ to - 1 = close
  BY <1>1
<1>3. SubSeq(w, i, to - 1) = SubSeq(w, i, close)
  BY <1>2
<1> HIDE DEF to
<1>4. SpeltAlone(Part(form, text, SubSeq(w, i, to - 1)))
  BY <1>3
<1>5. IsCut([st |-> "ok", part |-> Part(form, text, SubSeq(w, i, to - 1)), to |-> to],
            w, i, SpeltPart)
  BY <1>2, <1>4, PartCut
<1>6. IsCut([st |-> "ok", part |-> p, to |-> to], w, i, SpeltPart)
  BY <1>3, <1>5
<1> HIDE DEF p
<1>7. IsCut([st |-> "ok", part |-> p, to |-> to], w, i, WordPart(w))
  BY <1>6, WiderCut, WordPartSet
<1> QED
  BY <1>7 DEF p, to

LEMMA LengthSpelt ==
    ASSUME NEW s \in Text, s # <<>>, s[1] = "#"
    PROVE  Tail(s) \in Text /\ SpeltAlone(Part("length", Tail(s), Braced(s)))
<1>1. s \in Seq(Char)
  BY DEF Text
<1>2. s = <<s[1]>> \o Tail(s) /\ Tail(s) \in Seq(Char)
  BY <1>1, HeadTailProperties
<1> DEFINE p == Part("length", Tail(s), Braced(s))
<1>3. p.form = "length" /\ p.text = Tail(s) /\ p.src = Braced(s)
  BY DEF Part
<1> HIDE DEF p
<1>4. p.src = Braced(<<"#">> \o p.text)
  BY <1>2, <1>3
<1>5. SpeltAlone(p)
  BY <1>3, <1>4, SpeltCases
<1> QED
  BY <1>2, <1>5 DEF p, Text

LEMMA BracedVariableSpelt ==
    ASSUME NEW s
    PROVE  SpeltAlone(Part("variable", s, Braced(s)))
<1> DEFINE p == Part("variable", s, Braced(s))
<1>1. p.form = "variable" /\ p.text = s /\ p.src = Braced(s)
  BY DEF Part
<1> HIDE DEF p
<1>2. SpeltAlone(p)
  BY <1>1, SpeltCases
<1> QED
  BY <1>2 DEF p

LEMMA BraceEnd ==
    ASSUME NEW w \in Text, NEW i \in 1..Len(w), IsBrace(w, i)
    PROVE  LET close == SkipTo(w, i + 2, {CloseBrace})
               s == SubSeq(w, i + 2, close - 1)
           IN /\ close \in (i + 2)..(Len(w) + 1)
              /\ close <= Len(w) => IsInner(s, w, i, close)
              /\ Filled(w, i) /\ Tick \notin Range(w) =>
                     /\ close <= Len(w) /\ s # <<>>
                     /\ \A j \in 1..Len(s) : s[j] \notin {"$", Tick}
<1> DEFINE n == Len(w)
           k == i + 2
           close == SkipTo(w, k, {CloseBrace})
           s == SubSeq(w, k, close - 1)
           easy == Filled(w, i) /\ Tick \notin Range(w)
<1>1. n \in Nat /\ i \in Nat /\ k \in 1..(n + 1) /\ k \in Nat
  <2>1. i + 1 \in 1..n
    BY TextFacts DEF IsBrace
  <2> QED
    BY <2>1, TextFacts
<1>2. /\ close \in k..(n + 1) /\ close \in Nat
      /\ \A j \in k..(close - 1) : w[j] # CloseBrace
      /\ close <= n => w[close] = CloseBrace
  <2> HIDE DEF k
  <2>1. /\ close \in k..(n + 1)
        /\ \A j \in k..(close - 1) : w[j] \notin {CloseBrace}
        /\ close <= n => w[close] \in {CloseBrace}
    BY <1>1, SkipToFacts
  <2> HIDE DEF close
  <2> QED
    BY <1>1, <2>1
<1>3. close <= n => IsInner(s, w, i, close)
  <2> HIDE DEF close
  <2> QED
    BY <1>1, <1>2 DEF IsInner
<1>4. ASSUME easy
      PROVE  close <= n /\ s # <<>> /\ \A j \in 1..Len(s) : s[j] \notin {"$", Tick}
  <2>1. PICK q \in (i + 3)..n : /\ w[q] = CloseBrace
                                /\ \A j \in (i + 2)..(q - 1) : w[j] \notin {"$", OpenBrace, CloseBrace}
    BY <1>4 DEF Filled
  <2> HIDE DEF close
  <2>2. close = q
    <3>1. ~(q < close)
      BY <1>1, <1>2, <2>1
    <3>2. ~(close < q)
      BY <1>1, <1>2, <2>1
    <3> QED
      BY <1>1, <1>2, <2>1, <3>1, <3>2
  <2>3. close <= n /\ close > k
    BY <1>1, <2>1, <2>2
  <2>4. s \in Text /\ Len(s) = close - k /\ \A j \in 1..Len(s) : s[j] = w[i + 1 + j]
    BY <1>3, <2>3, InnerFacts
  <2> HIDE DEF s
  <2>5. s # <<>>
    BY <1>1, <1>2, <2>3, <2>4
  <2>6. ASSUME NEW j \in 1..Len(s) PROVE s[j] \notin {"$", Tick}
    <3>1. i + 1 + j \in (i + 2)..(q - 1) /\ i + 1 + j \in 1..n
      BY <1>1, <2>2, <2>3, <2>4
    <3>2. w[i + 1 + j] # "$"
      BY <2>1, <3>1
    <3>3. w[i + 1 + j] \in Range(w)
      BY <3>1, TextFacts DEF Range
    <3>4. w[i + 1 + j] # Tick
      BY <1>4, <3>3
    <3> QED
      BY <2>4, <3>2, <3>4
  <2> QED
    BY <2>3, <2>5, <2>6
<1> HIDE DEF close, s
<1> QED
  BY <1>2, <1>3, <1>4 DEF close, s

LEMMA BraceCut ==
    ASSUME NEW w \in Text, NEW i \in 1..Len(w), IsBrace(w, i)
    PROVE  /\ IsCut(ParseBraceVar(w, i + 2), w, i, WordPart(w))
           /\ Filled(w, i) /\ Tick \notin Range(w) => ParseBraceVar(w, i + 2).st = "ok"
<1> DEFINE n == Len(w)
           k == i + 2
           close == SkipTo(w, k, {CloseBrace})
           s == SubSeq(w, k, close - 1)
           source == SubSeq(w, i, close)
           op == FindVarOperator(s)
           letter == IF At(s, op) = ":" THEN op + 1 ELSE op
           Got(part) == [st |-> "ok", part |-> part, to |-> close + 1]
           long == s[1] = "#" /\ IsValidName(Tail(s))
           e == ParseBraceVar(w, k)
           easy == Filled(w, i) /\ Tick \notin Range(w)
<1>1. /\ close \in (i + 2)..(n + 1)
      /\ close <= n => IsInner(s, w, i, close)
      /\ easy => /\ close <= n /\ s # <<>>
                 /\ \A j \in 1..Len(s) : s[j] \notin {"$", Tick}
  BY BraceEnd
<1>2. k - 2 = i /\ n \in Nat /\ i \in Nat /\ close \in Int
  BY <1>1, TextFacts
<1>3. /\ close > n \/ s = <<>> => e = [st |-> "err"]
      /\ ~(close > n \/ s = <<>>) =>
             /\ long => e = Got(Part("length", Tail(s), source))
             /\ ~long /\ op = 0 => e = Got(Part("variable", s, source))
             /\ ~long /\ op # 0 =>
                    /\ OperandOf(s, letter).st # "ok" => e = [st |-> OperandOf(s, letter).st]
                    /\ OperandOf(s, letter).st = "ok" =>
                           e = Got(OperatorOf(s, op, letter, source))
  <2>1. SubSeq(w, k - 2, close) = source
    BY <1>2
  <2> HIDE DEF k
  <2> QED
    BY <2>1, BraceCases
<1>4. ~(close > n \/ s = <<>>) => s \in Text /\ source = Braced(s) /\ close \in (i + 2)..n
  <2>1. ~(close > n) => IsInner(s, w, i, close)
    BY <1>1, <1>2
  <2> HIDE DEF close, s
  <2> QED
    BY <2>1, InnerFacts
<1> HIDE DEF close
<1>5. ASSUME close > n \/ s = <<>>
      PROVE  IsCut(e, w, i, WordPart(w)) /\ ~easy
  <2>1. e = [st |-> "err"]
    BY <1>3, <1>5
  <2>2. ~easy
    <3> HIDE DEF s, easy
    <3> QED
      BY <1>1, <1>2, <1>5
  <2> HIDE DEF e
  <2>3. IsCut(e, w, i, WordPart(w))
    BY <2>1 DEF IsCut, Outcome
  <2> QED
    BY <2>2, <2>3
<1>6. ASSUME ~(close > n \/ s = <<>>), long
      PROVE  IsCut(e, w, i, WordPart(w)) /\ e.st = "ok"
  <2>1. e = Got(Part("length", Tail(s), source))
    BY <1>3, <1>6
  <2>2. Tail(s) \in Text /\ SpeltAlone(Part("length", Tail(s), source))
    <3>1. s \in Text /\ s # <<>> /\ s[1] = "#" /\ source = Braced(s)
      BY <1>4, <1>6
    <3> HIDE DEF s, source
    <3> QED
      BY <3>1, LengthSpelt
  <2> HIDE DEF s
  <2>3. IsCut(Got(Part("length", Tail(s), source)), w, i, WordPart(w))
    BY <1>4, <1>6, <2>2, AloneCut DEF Form
  <2> HIDE DEF e
  <2> QED
    BY <2>1, <2>3
<1>7. ASSUME ~(close > n \/ s = <<>>), ~long, op = 0
      PROVE  IsCut(e, w, i, WordPart(w)) /\ e.st = "ok"
  <2>1. e = Got(Part("variable", s, source))
    BY <1>3, <1>7
  <2>2. SpeltAlone(Part("variable", s, source))
    <3>1. source = Braced(s)
      BY <1>4, <1>7
    <3> HIDE DEF s, source
    <3> QED
      BY <3>1, BracedVariableSpelt
  <2> HIDE DEF s
  <2>3. IsCut(Got(Part("variable", s, source)), w, i, WordPart(w))
    BY <1>4, <1>7, <2>2, AloneCut DEF Form
  <2> HIDE DEF e
  <2> QED
    BY <2>1, <2>3
<1>8. ASSUME ~(close > n \/ s = <<>>), ~long, op # 0
      PROVE  IsCut(e, w, i, WordPart(w)) /\ (easy => e.st = "ok")
  <2> DEFINE word == OperandOf(s, letter)
             oper == OperatorOf(s, op, letter, source)
  <2>1. /\ word.st # "ok" => e = [st |-> word.st]
        /\ word.st = "ok" => e = Got(oper)
    BY <1>3, <1>8
  <2>2. s \in Text /\ IsInner(s, w, i, close) /\ close \in (i + 2)..n
    BY <1>1, <1>4, <1>8
  <2>3. op \in 1..Len(s) /\ letter \in 1..Len(s) /\ IsLetter(s, op, letter)
    <3> HIDE DEF s
    <3> QED
      BY <1>8, <2>2, OperatorPlace
  <2>4. /\ word.st = "ok" => oper \in WordPart(w)
        /\ word.st \in Outcome
        /\ word.st = "panic" => PanicPlace(w)
        /\ (\A j \in 1..Len(s) : s[j] \notin {"$", Tick}) => word.st = "ok"
    <3> HIDE DEF s, op, letter
    <3> QED
      BY <2>2, <2>3, OperatorCut
  <2>5. oper.src = source
    BY DEF OperatorOf
  <2>6. easy => \A j \in 1..Len(s) : s[j] \notin {"$", Tick}
    BY <1>1
  <2> DEFINE to == close + 1
  <2>7. to \in (i + 1)..(n + 1) /\ source = SubSeq(w, i, to - 1)
    <3>1. to - 1 = close
      BY <1>2
    <3> QED
      BY <1>2, <2>2, <3>1
  <2> HIDE DEF word, oper, e, s, easy, source
  <2>8. ASSUME word.st = "ok" PROVE IsCut(e, w, i, WordPart(w)) /\ e.st = "ok"
    <3>1. e.st = "ok" /\ e.part = oper /\ e.to = to
      BY <2>1, <2>8
    <3> HIDE DEF to
    <3> QED
      BY <2>4, <2>5, <2>7, <2>8, <3>1 DEF IsCut
  <2>9. ASSUME word.st # "ok" PROVE IsCut(e, w, i, WordPart(w)) /\ ~easy
    <3>1. e.st = word.st
      BY <2>1, <2>9
    <3>2. IsCut(e, w, i, WordPart(w))
      BY <2>4, <2>9, <3>1 DEF IsCut
    <3> QED
      BY <2>4, <2>6, <2>9, <3>2
  <2> QED
    BY <2>8, <2>9
<1> HIDE DEF s, op, long, easy, e
<1>9. IsCut(e, w, i, WordPart(w)) /\ (easy => e.st = "ok")
  BY <1>5, <1>6, <1>7, <1>8
<1> QED
  BY <1>9 DEF e, easy
\* --------------------------------- words ---------------------------------

\* Every `$(` is closed, every `${` filled, and there is no backtick.
Wholesome(w) ==
    /\ Range(w) \cap (Wide \cup {Tick}) = {}
    /\ \A i \in 1..Len(w) : /\ w[i] = "$" /\ At(w, i + 1) = "(" => Closes(w, i + 2)
                            /\ w[i] = "$" /\ At(w, i + 1) = "(" /\ At(w, i + 2) = "(" =>
                                   Closes(w, i + 3)
                            /\ w[i] = "$" /\ At(w, i + 1) = OpenBrace => Filled(w, i)

LEMMA PartsOfFacts ==
    ASSUME NEW w \in Text, NEW dq \in BOOLEAN
    PROVE  /\ IsCutting(PartsOf(w, dq), w, WordPart(w))
           /\ Wholesome(w) => PartsOf(w, dq).st = "ok"
<1> DEFINE start == PartsFrom(dq)
<1>1. Turns(WordPartTurn, start, w) = Prt!Turned(start, w)
  BY DEF Turns, Prt!Turned
<1>2. PICK o : /\ o[0] = start
               /\ \A n \in Nat : o[n + 1] = WordPartTurn(o[n], w)
               /\ Prt!Turned(start, w) = o[Len(w)]
  BY Prt!TurnSteps
<1> DEFINE b == [n \in Nat |-> ParseBraceVar(w, o[n].at + 2)]
<1>3. \A n \in Nat : b[n] = ParseBraceVar(w, o[n].at + 2)
  OBVIOUS
<1> HIDE DEF b
<1>4. \A n \in Nat : o[n + 1] = PartTurn(o[n], w, b[n])
  BY <1>2, <1>3 DEF WordPartTurn
<1>5. \A n \in Nat : o[n].at \in 1..Len(w) /\ IsBrace(w, o[n].at) =>
          IsCut(b[n], w, o[n].at, WordPart(w))
  BY <1>3, BraceCut
<1>6. CutRun(o, b, w, WordPart(w))
  BY <1>4, <1>5 DEF CutRun
<1>7. LET r == PartsRead(o[Len(w)])
      IN /\ IsCutting(r, w, WordPart(w))
         /\ AllReadable(o, b, w) => r.st = "ok"
  BY <1>2, <1>6, WordPartSet, CuttingFacts
<1>8. PartsOf(w, dq) = PartsRead(o[Len(w)])
  BY <1>1, <1>2 DEF PartsOf
<1>9. ASSUME Wholesome(w) PROVE AllReadable(o, b, w)
  <2> SUFFICES ASSUME NEW n \in Nat, o[n].at \in 1..Len(w) PROVE Readable(w, o[n].at, b[n])
    BY DEF AllReadable
  <2> DEFINE i == o[n].at
  <2>1. i \in 1..Len(w) /\ At(w, i) = w[i] /\ w[i] \in Range(w) /\ b[n] = ParseBraceVar(w, i + 2)
    BY <1>3, TextFacts DEF Range
  <2> HIDE DEF i
  <2>2. At(w, i) # Tick /\ Tick \notin Range(w) /\ Range(w) \cap Wide = {}
    BY <1>9, <2>1 DEF Wholesome
  <2>3. ASSUME At(w, i) = "$", At(w, i + 1) = "("
        PROVE  Closes(w, i + 2) /\ (At(w, i + 2) = "(" => Closes(w, i + 3))
    BY <1>9, <2>1, <2>3 DEF Wholesome
  <2>4. ASSUME At(w, i) = "$", At(w, i + 1) = OpenBrace PROVE b[n].st = "ok"
    <3>1. Filled(w, i) /\ IsBrace(w, i)
      BY <1>9, <2>1, <2>4 DEF Wholesome, IsBrace
    <3> QED
      BY <2>1, <2>2, <3>1, BraceCut
  <2>5. Readable(w, i, b[n])
    BY <2>2, <2>3, <2>4 DEF Readable
  <2> QED
    BY <2>5 DEF i
<1> QED
  BY <1>7, <1>8, <1>9
LEMMA EscapedPiece ==
    ASSUME NEW w \in Text, NEW c, NEW m \in Int, NEW n \in Int, 1 <= m, n <= Len(w),
           Escaped(SubSeq(w, m, n), c)
    PROVE  Escaped(w, c)
<1> DEFINE v == SubSeq(w, m, n)
<1>1. /\ Len(v) \in Nat /\ Len(w) \in Nat
      /\ Len(v) = (IF m <= n THEN n - m + 1 ELSE 0)
      /\ \A i \in 1..(n - m + 1) : v[i] = w[m + i - 1]
  BY PieceFacts, TextFacts
<1> HIDE DEF v
<1>2. PICK i \in 2..Len(v) : v[i - 1] = "\\" /\ v[i] = c
  BY DEF Escaped, v
<1>3. /\ i \in 1..(n - m + 1) /\ i - 1 \in 1..(n - m + 1) /\ m + i - 1 \in 2..Len(w)
      /\ (m + i - 1) - 1 = m + (i - 1) - 1
  BY <1>1
<1>4. w[m + i - 1] = c /\ w[(m + i - 1) - 1] = "\\"
  BY <1>1, <1>2, <1>3
<1> QED
  BY <1>3, <1>4 DEF Escaped

LEMMA AssignmentFacts ==
    ASSUME NEW w \in Text, NEW assignable \in BOOLEAN
    PROVE  LET eq == IF assignable THEN SplitAssignment(w) ELSE 0
               name == SubSeq(w, 1, eq)
               value == SubSeq(w, eq + 1, Len(w))
           IN /\ eq \in 0..Len(w)
              /\ value \in Text /\ name \o value = w
              /\ name # <<>> => IsValidName(Front(name)) /\ Last(name) = "="
<1> DEFINE n == Len(w)
           to == SkipTo(w, 1, {"="})
           eq == IF assignable THEN SplitAssignment(w) ELSE 0
           name == SubSeq(w, 1, eq)
           value == SubSeq(w, eq + 1, n)
<1>1. n \in Nat /\ 1 \in 1..(n + 1)
  BY TextFacts
<1>2. to \in 1..(n + 1) /\ (to <= n => w[to] = "=")
  BY <1>1, SkipToFacts
<1>3. \/ eq = 0
      \/ eq \in 1..n /\ w[eq] = "=" /\ IsValidName(SubSeq(w, 1, eq - 1))
  BY <1>1, <1>2 DEF SplitAssignment
<1> HIDE DEF eq
<1>4. /\ eq \in 0..n /\ eq \in Int /\ eq + 1 \in Int /\ 1 <= eq + 1 /\ n <= n /\ n \in Int
      /\ eq \in (1 - 1)..n /\ n \in eq..n
  BY <1>1, <1>3
<1>5. value \in Text
  BY <1>4, PieceFacts
<1>6. name \o value = w
  <2>1. name \o value = SubSeq(w, 1, n)
    BY <1>1, <1>4, Glue
  <2>2. SubSeq(w, 1, n) = w
    BY SubSeqFull DEF Text
  <2> QED
    BY <2>1, <2>2
<1>7. ASSUME name # <<>> PROVE IsValidName(Front(name)) /\ Last(name) = "="
  <2>1. eq # 0
    <3>1. ASSUME eq = 0 PROVE FALSE
      <4>1. 1 \in Int /\ 0 \in Int /\ 1 <= 1 /\ 0 <= n /\ ~(1 <= 0)
        BY <1>1
      <4>2. SubSeq(w, 1, 0) \in Text /\ Len(SubSeq(w, 1, 0)) = 0
        BY <4>1, PieceFacts
      <4>3. SubSeq(w, 1, 0) = <<>>
        BY <4>2, EmptySeq DEF Text
      <4> QED
        BY <1>7, <3>1, <4>3
    <3> QED
      BY <3>1
  <2>2. /\ eq \in 1..n /\ w[eq] = "=" /\ IsValidName(SubSeq(w, 1, eq - 1))
        /\ 1 <= 1 /\ 1 \in Int /\ eq <= n /\ 1 <= eq /\ eq \in Int /\ eq \in Nat
        /\ eq - 1 + 1 = eq /\ eq - 1 \in Int /\ 1 + (eq - 1) - 1 = eq - 1
    BY <1>3, <1>4, <2>1
  <2>3. /\ name \in Text /\ Len(name) = eq - 1 + 1
        /\ \A i \in 1..(eq - 1 + 1) : name[i] = w[1 + i - 1]
    BY <2>2, PieceFacts
  <2>4. Len(name) = eq /\ name[eq] = "="
    <3>1. name[eq] = w[1 + eq - 1] /\ 1 + eq - 1 = eq
      BY <2>2, <2>3
    <3> QED
      BY <2>2, <2>3, <3>1
  <2>5. Last(name) = "="
    BY <2>4 DEF Last
  <2>6. Front(name) = SubSeq(name, 1, eq - 1)
    BY <2>4 DEF Front
  <2>7. SubSeq(name, 1, eq - 1) = SubSeq(w, 1, eq - 1)
    <3> DEFINE a == SubSeq(name, 1, eq - 1)
               b == SubSeq(w, 1, eq - 1)
    <3>1. eq - 1 <= Len(name) /\ eq - 1 <= n
      BY <2>2, <2>4
    <3> HIDE DEF name
    <3>2. a \in Text /\ Len(a) = (IF 1 <= eq - 1 THEN (eq - 1) - 1 + 1 ELSE 0)
          /\ \A i \in 1..((eq - 1) - 1 + 1) : a[i] = name[1 + i - 1]
      BY <2>2, <2>3, <3>1, PieceFacts
    <3>3. b \in Text /\ Len(b) = (IF 1 <= eq - 1 THEN (eq - 1) - 1 + 1 ELSE 0)
          /\ \A i \in 1..((eq - 1) - 1 + 1) : b[i] = w[1 + i - 1]
      BY <2>2, <3>1, PieceFacts
    <3> HIDE DEF a, b
    <3>4. Len(a) = Len(b)
      BY <3>2, <3>3
    <3>5. \A i \in 1..Len(a) : a[i] = b[i]
      <4> TAKE i \in 1..Len(a)
      <4>1. i \in 1..((eq - 1) - 1 + 1) /\ 1 + i - 1 = i /\ i \in 1..(eq - 1 + 1)
        BY <2>2, <3>2
      <4> QED
        BY <2>3, <3>2, <3>3, <4>1
    <3>6. a = b
      BY <3>2, <3>3, <3>4, <3>5, SeqEqual DEF Text
    <3> QED
      BY <3>6 DEF a, b
  <2> QED
    BY <2>2, <2>5, <2>6, <2>7
<1> HIDE DEF name, value
<1> QED
  BY <1>4, <1>5, <1>6, <1>7 DEF eq, name, value
\* What follows in a text to its end.
LEMMA SuffixFacts ==
    ASSUME NEW w \in Text, NEW m \in 1..(Len(w) + 1)
    PROVE  LET v == SubSeq(w, m, Len(w))
           IN /\ v \in Text /\ Len(v) = Len(w) - m + 1
              /\ \A j \in 1..Len(v) : v[j] = w[m + j - 1]
              /\ \A j \in 1..(Len(v) + 1) : At(v, j) = At(w, m + j - 1)
              /\ \A k \in 0..Len(v) : Height(v, k) = Height(w, m + k - 1) - Height(w, m - 1)
<1> DEFINE n == Len(w)
           v == SubSeq(w, m, n)
<1>1. n \in Nat /\ m \in Int /\ n \in Int /\ 1 <= m /\ n <= n
  BY TextFacts
<1>2. /\ v \in Text /\ Len(v) = (IF m <= n THEN n - m + 1 ELSE 0)
      /\ \A i \in 1..(n - m + 1) : v[i] = w[m + i - 1]
  BY <1>1, PieceFacts
<1>3. \A k \in 0..(n - m + 1) : Height(v, k) = Height(w, m + k - 1) - Height(w, m - 1)
  BY <1>1, PieceHeight
<1> HIDE DEF v, n
<1>4. Len(v) = n - m + 1
  BY <1>1, <1>2 DEF n
<1>5. ASSUME NEW j \in 1..(Len(v) + 1) PROVE At(v, j) = At(w, m + j - 1)
  <2>1. CASE j <= Len(v)
    <3>1. j \in 1..Len(v) /\ m + j - 1 \in 1..n
      BY <1>1, <1>4, <2>1 DEF n
    <3>2. At(v, j) = v[j]
      BY <1>2, <3>1, TextFacts
    <3>3. At(w, m + j - 1) = w[m + j - 1]
      BY <3>1, TextFacts DEF n
    <3> QED
      BY <1>2, <1>4, <3>1, <3>2, <3>3
  <2>2. CASE ~(j <= Len(v))
    <3>1. j \in Int /\ j \notin 1..Len(v) /\ m + j - 1 \in Int /\ m + j - 1 \notin 1..n
      BY <1>1, <1>4, <2>2 DEF n
    <3> QED
      BY <1>2, <3>1, TextFacts DEF n
  <2> QED
    BY <2>1, <2>2
<1> QED
  BY <1>2, <1>3, <1>4, <1>5 DEF v, n

LEMMA WholesomeSuffix ==
    ASSUME NEW w \in Text, Wholesome(w), NEW m \in 1..(Len(w) + 1)
    PROVE  Wholesome(SubSeq(w, m, Len(w)))
<1> DEFINE n == Len(w)
           v == SubSeq(w, m, n)
<1>1. n \in Nat /\ m \in Nat /\ m >= 1 /\ DOMAIN w = 1..n
  BY TextFacts
<1>2. /\ v \in Text /\ Len(v) = n - m + 1
      /\ \A j \in 1..Len(v) : v[j] = w[m + j - 1]
      /\ \A j \in 1..(Len(v) + 1) : At(v, j) = At(w, m + j - 1)
      /\ \A k \in 0..Len(v) : Height(v, k) = Height(w, m + k - 1) - Height(w, m - 1)
  BY SuffixFacts
<1>3. DOMAIN v = 1..Len(v) /\ Len(v) \in Nat /\ \A j \in Int : At(v, j) # End => j \in 1..Len(v)
  BY <1>2, TextFacts
<1> HIDE DEF v, n
<1>4. \A k \in Nat : Height(w, k) \in Int
  BY HeightFacts
<1>5. ASSUME NEW j \in 1..(Len(v) + 1), Closes(w, m + j - 1) PROVE Closes(v, j)
  <2>1. PICK q \in (m + j - 1)..n : Height(w, q) < Height(w, (m + j - 1) - 1)
    BY <1>5 DEF Closes, n
  <2> DEFINE k == q - m + 1
             l == j - 1
  <2>2. k \in j..Len(v) /\ k \in 0..Len(v) /\ m + k - 1 = q /\ l \in 0..Len(v)
        /\ m + l - 1 = (m + j - 1) - 1 /\ q \in Nat /\ m - 1 \in Nat /\ (m + j - 1) - 1 \in Nat
    BY <1>1, <1>2
  <2> HIDE DEF k, l
  <2>3. Height(v, k) = Height(w, q) - Height(w, m - 1)
    BY <1>2, <2>2
  <2>4. Height(v, l) = Height(w, (m + j - 1) - 1) - Height(w, m - 1)
    BY <1>2, <2>2
  <2>5. Height(v, k) < Height(v, l)
    BY <1>4, <2>1, <2>2, <2>3, <2>4
  <2> QED
    BY <2>2, <2>5 DEF Closes, l
<1>6. Range(v) \cap (Wide \cup {Tick}) = {}
  <2>1. Range(v) \subseteq Range(w)
    <3>1. \A j \in 1..Len(v) : m + j - 1 \in 1..n
      BY <1>1, <1>2
    <3> QED
      BY <1>1, <1>2, <1>3, <3>1 DEF Range
  <2> QED
    BY <2>1 DEF Wholesome
<1>7. ASSUME NEW j \in 1..Len(v), v[j] = "$"
      PROVE  /\ At(v, j + 1) = "(" => Closes(v, j + 2)
             /\ At(v, j + 1) = "(" /\ At(v, j + 2) = "(" => Closes(v, j + 3)
             /\ At(v, j + 1) = OpenBrace => Filled(v, j)
  <2> DEFINE i == m + j - 1
  <2>1. i \in 1..n /\ i + 1 = m + (j + 1) - 1 /\ i + 2 = m + (j + 2) - 1 /\ i + 3 = m + (j + 3) - 1
        /\ j + 1 \in Int /\ j + 2 \in Int /\ w[i] = "$" /\ j + 1 \in 1..(Len(v) + 1)
    BY <1>1, <1>2, <1>7
  <2>2. At(v, j + 1) = At(w, i + 1)
    BY <1>2, <2>1
  <2>3. At(v, j + 1) # End => j + 2 \in 1..(Len(v) + 1) /\ At(v, j + 2) = At(w, i + 2)
    <3>1. At(v, j + 1) # End => j + 1 \in 1..Len(v)
      BY <1>3, <2>1
    <3>2. At(v, j + 1) # End => j + 2 \in 1..(Len(v) + 1)
      BY <1>3, <3>1
    <3> QED
      BY <1>2, <2>1, <3>2
  <2>4. At(v, j + 2) # End => j + 3 \in 1..(Len(v) + 1)
    <3>1. At(v, j + 2) # End => j + 2 \in 1..Len(v)
      BY <1>3, <2>1
    <3> QED
      BY <1>3, <3>1
  <2> HIDE DEF i
  <2>5. /\ At(w, i + 1) = "(" => Closes(w, i + 2)
        /\ At(w, i + 1) = "(" /\ At(w, i + 2) = "(" => Closes(w, i + 3)
        /\ At(w, i + 1) = OpenBrace => Filled(w, i)
    BY <2>1 DEF Wholesome, n
  <2>6. ASSUME At(v, j + 1) = "(" PROVE Closes(v, j + 2)
    <3>1. Closes(w, m + (j + 2) - 1) /\ j + 2 \in 1..(Len(v) + 1)
      BY <2>1, <2>2, <2>3, <2>5, <2>6
    <3> QED
      BY <1>5, <3>1
  <2>7. ASSUME At(v, j + 1) = "(", At(v, j + 2) = "(" PROVE Closes(v, j + 3)
    <3>1. Closes(w, m + (j + 3) - 1) /\ j + 3 \in 1..(Len(v) + 1)
      BY <2>1, <2>2, <2>3, <2>4, <2>5, <2>7
    <3> QED
      BY <1>5, <3>1
  <2>8. ASSUME At(v, j + 1) = OpenBrace PROVE Filled(v, j)
    <3>1. PICK q \in (i + 3)..n : /\ w[q] = CloseBrace
                                  /\ \A k \in (i + 2)..(q - 1) : w[k] \notin {"$", OpenBrace, CloseBrace}
      BY <2>2, <2>5, <2>8 DEF Filled, n
    <3> DEFINE p == q - m + 1
    <3>2. /\ p \in (j + 3)..Len(v) /\ m + p - 1 = q /\ p \in 1..Len(v)
          /\ \A k \in (j + 2)..(p - 1) : k \in 1..Len(v) /\ m + k - 1 \in (i + 2)..(q - 1)
      BY <1>1, <1>2, <2>1 DEF i
    <3> HIDE DEF p
    <3>3. v[p] = CloseBrace
      BY <1>2, <3>1, <3>2
    <3>4. \A k \in (j + 2)..(p - 1) : v[k] \notin {"$", OpenBrace, CloseBrace}
      BY <1>2, <3>1, <3>2
    <3> QED
      BY <3>2, <3>3, <3>4 DEF Filled
  <2> QED
    BY <2>6, <2>7, <2>8
<1>8. Wholesome(v)
  BY <1>6, <1>7 DEF Wholesome
<1> QED
  BY <1>8 DEF v, n

\* The word of a token, whether or not an assignment is looked for.
LEMMA WordOfFacts ==
    ASSUME NEW t, t.text \in Text, NEW dq \in BOOLEAN, NEW assignable \in BOOLEAN
    PROVE  LET w == t.text
               x == WordOf(t, dq, assignable)
           IN /\ x.st \in Outcome
              /\ x.st = "panic" => PanicPlace(w)
              /\ Wholesome(w) => x.st = "ok"
              /\ x.st = "ok" /\ Clean(w) /\ ~Escaped(w, CloseBrace) =>
                     /\ x.name \o Source(x.parts) = w
                     /\ x.name # <<>> => IsValidName(Front(x.name)) /\ Last(x.name) = "="
                     /\ \A i \in DOMAIN x.parts : Spelt(x.parts[i])
<1> DEFINE w == t.text
           n == Len(w)
           eq == IF assignable THEN SplitAssignment(w) ELSE 0
           name == SubSeq(w, 1, eq)
           value == SubSeq(w, eq + 1, n)
           y == PartsOf(value, dq)
           x == WordOf(t, dq, assignable)
<1>1. w \in Text /\ n \in Nat
  BY TextFacts
<1>2. x.st = y.st /\ x.name = name /\ x.parts = y.parts
  BY DEF WordOf
<1>3. /\ eq \in 0..n /\ value \in Text /\ name \o value = w
      /\ name # <<>> => IsValidName(Front(name)) /\ Last(name) = "="
  BY AssignmentFacts
<1> HIDE DEF eq, x, w
<1>4. /\ eq + 1 \in Int /\ n \in Int /\ 1 <= eq + 1 /\ n <= n /\ eq + 1 \in 1..(n + 1)
  BY <1>1, <1>3
<1>5. IsCutting(y, value, WordPart(value)) /\ (Wholesome(value) => y.st = "ok")
  BY <1>3, PartsOfFacts
<1>6. ASSUME y.st = "panic" PROVE PanicPlace(w)
  <2>1. PanicPlace(value)
    BY <1>5, <1>6 DEF IsCutting
  <2> QED
    BY <1>1, <1>4, <2>1, PanicPiece
<1>7. ASSUME Wholesome(w) PROVE y.st = "ok"
  <2>1. Wholesome(value)
    BY <1>1, <1>4, <1>7, WholesomeSuffix
  <2> QED
    BY <1>5, <2>1
<1>8. ASSUME y.st = "ok", Clean(w), ~Escaped(w, CloseBrace)
      PROVE  /\ name \o Source(y.parts) = w
             /\ \A i \in DOMAIN y.parts : Spelt(y.parts[i])
  <2>1. Clean(value)
    <3>1. eq + 1 <= n => w[n] # "\\"
      <4>1. ASSUME eq + 1 <= n PROVE w[n] # "\\"
        <5>1. w # <<>> /\ Last(w) = w[n]
          BY <1>1, <1>3, <4>1 DEF Last
        <5> QED
          BY <1>8, <5>1 DEF Clean
      <4> QED
        BY <4>1
    <3> QED
      BY <1>1, <1>4, <1>8, <3>1, CleanPiece
  <2>2. ~Escaped(value, CloseBrace)
    BY <1>1, <1>4, <1>8, EscapedPiece
  <2>3. Source(y.parts) = value /\ y.parts \in Seq(WordPart(value))
    BY <1>5, <1>8, <2>1 DEF IsCutting
  <2>4. \A p \in WordPart(value) : Spelt(p)
    BY <2>1, <2>2 DEF WordPart, SpeltPart, Spelt
  <2>5. \A i \in DOMAIN y.parts : y.parts[i] \in WordPart(value)
    <3> HIDE DEF y, value
    <3> QED
      BY <2>3
  <2> QED
    BY <1>3, <2>3, <2>4, <2>5
<1>9. y.st \in Outcome
  BY <1>5 DEF IsCutting
<1> HIDE DEF name, y
<1> QED
  BY <1>2, <1>3, <1>6, <1>7, <1>8, <1>9 DEF x, w

\* ------------------------------- plain words -----------------------------

\* No quote stands from i on before e.
Unquoted(s, i, e) == \A j \in i..(e - 1) : s[j] # "'"

\* The depth of a search is the height above where it began.
Level(x, s, i, depth) ==
    /\ Height(s, x.at - 1) = Height(s, i - 1) + x.depth - depth
    /\ \A m \in (i - 1)..(x.at - 2) : Height(s, m) > Height(s, i - 1) - depth
    /\ x.depth = 0 => x.at > i /\ s[x.at - 1] = ")"

LEMMA LevelStep ==
    ASSUME NEW s \in Text, NEW i \in 1..(Len(s) + 1), NEW depth \in Nat, NEW e \in Nat,
           Unquoted(s, i, e), NEW x, IsSearch(x, s, "(", ")"), x.at >= i,
           x.at <= e => Level(x, s, i, depth),
           BalancedTurn(x, s).at <= e
    PROVE  Level(BalancedTurn(x, s), s, i, depth)
<1> DEFINE y == BalancedTurn(x, s)
           at == x.at
           d == x.depth
           c == At(s, at)
           h == Height(s, i - 1)
           g == Height(s, at - 1)
<1>1. Delims("(", ")")
  BY DEF Delims
<1>2. /\ IsSearch(y, s, "(", ")") /\ y.at >= at
      /\ d = 0 \/ c = End => y = x
      /\ d # 0 /\ c = "'" => y.at > at
      /\ d # 0 /\ c = "(" => y.at = at + 1 /\ y.depth = d + 1
      /\ d # 0 /\ c = ")" => y.at = at + 1 /\ y.depth = d - 1
      /\ d # 0 /\ c \notin {End, "'", "(", ")"} => y.at = at + 1 /\ y.depth = d
  BY <1>1, BalancedStep
<1>3. at \in Nat /\ at >= 1 /\ d \in Nat /\ y.at \in Nat /\ y.depth \in Nat /\ i \in Nat /\ at <= e
      /\ y.at <= e /\ Len(s) \in Nat
  <2>1. at \in Nat /\ at >= 1 /\ d \in Nat
    BY DEF IsSearch
  <2>2. y.at \in Nat /\ y.depth \in Nat
    BY <1>2 DEF IsSearch
  <2> HIDE DEF y, at, d
  <2> QED
    BY <1>2, <2>1, <2>2, TextFacts DEF y
<1>4. Level(x, s, i, depth)
  BY <1>3
<1>5. /\ g = h + d - depth
      /\ \A m \in (i - 1)..(at - 2) : Height(s, m) > h - depth
  BY <1>4 DEF Level
<1>6. h \in Int /\ g \in Int
  <2>1. i - 1 \in Nat /\ at - 1 \in Nat
    BY <1>3
  <2> QED
    BY <2>1, HeightFacts
<1> HIDE DEF y, h, g
<1>7. CASE y = x
  BY <1>4, <1>7 DEF y
<1>8. CASE y # x
  <2>1. d # 0 /\ c # End /\ at \in 1..Len(s) /\ s[at] = c
    <3>1. d # 0 /\ c # End
      BY <1>2, <1>8
    <3>2. at \in Int
      BY <1>3
    <3> QED
      BY <3>1, <3>2, TextFacts
  <2>2. c # "'"
    <3>1. ASSUME y.at > at PROVE s[at] # "'"
      <4>1. at \in i..(e - 1)
        BY <1>3, <3>1
      <4> QED
        BY <4>1 DEF Unquoted
    <3> HIDE DEF at, d, c
    <3> QED
      BY <1>2, <2>1, <3>1
  <2>3. /\ c = "(" => Height(s, at) = g + 1
        /\ c = ")" => Height(s, at) = g - 1
        /\ c \notin {"(", ")"} => Height(s, at) = g
    <3>1. at - 1 \in Nat /\ (at - 1) + 1 = at
      BY <1>3
    <3> HIDE DEF at, c
    <3> QED
      BY <2>1, <3>1, HeightFacts DEF g
  <2>4. /\ y.at = at + 1
        /\ c = "(" => y.depth = d + 1
        /\ c = ")" => y.depth = d - 1
        /\ c \notin {"(", ")"} => y.depth = d
    <3> HIDE DEF at, d, c
    <3> QED
      BY <1>2, <2>1, <2>2
  <2> HIDE DEF at, d, c
  <2>5. Height(s, at) = h + y.depth - depth
    BY <1>3, <1>5, <1>6, <2>3, <2>4
  <2>6. g > h - depth
    BY <1>3, <1>5, <1>6, <2>1
  <2>7. y.at - 1 = at /\ y.at - 2 = at - 1
    BY <1>3, <2>4
  <2>8. \A m \in (i - 1)..(at - 1) : Height(s, m) > h - depth
    <3> TAKE m \in (i - 1)..(at - 1)
    <3>1. m \in (i - 1)..(at - 2) \/ m = at - 1
      BY <1>3
    <3> QED
      BY <1>5, <2>6, <3>1 DEF g
  <2>9. y.depth = 0 => y.at > i /\ s[at] = ")"
    <3>1. at >= i
      BY DEF at
    <3> QED
      BY <1>3, <2>1, <2>4, <3>1
  <2> QED
    BY <2>5, <2>7, <2>8, <2>9 DEF Level, y, h
<1> QED
  BY <1>7, <1>8

\* The search of BalancedSteps.
Searching(o, s, i, depth, open, close) ==
    /\ o[0] = [at |-> i, depth |-> depth, open |-> open, close |-> close]
    /\ \A n \in Nat : /\ o[n + 1] = BalancedTurn(o[n], s)
                      /\ IsSearch(o[n], s, open, close)
                      /\ o[n].at >= i
    /\ BalancedEnd(s, i, open, close, depth) =
           IF o[Len(s)].depth = 0 THEN o[Len(s)].at ELSE NoEnd

LEMMA BalancedSearch ==
    ASSUME NEW s \in Text, NEW i \in 1..(Len(s) + 1), NEW depth \in Nat,
           NEW open, NEW close, Delims(open, close)
    PROVE  \E o : Searching(o, s, i, depth, open, close)
BY BalancedSteps DEF Searching

\* What a search for a parenthesis finds, where no quote hides one.
LEMMA SearchLevel ==
    ASSUME NEW s \in Text, NEW i \in 1..(Len(s) + 1), NEW depth \in Nat, depth > 0,
           BalancedEnd(s, i, "(", ")", depth) # NoEnd,
           Unquoted(s, i, BalancedEnd(s, i, "(", ")", depth))
    PROVE  LET e == BalancedEnd(s, i, "(", ")", depth)
           IN /\ e \in (i + 1)..(Len(s) + 1)
              /\ s[e - 1] = ")"
              /\ Height(s, e - 1) = Height(s, i - 1) - depth
              /\ \A m \in (i - 1)..(e - 2) : Height(s, m) > Height(s, i - 1) - depth
<1> DEFINE e == BalancedEnd(s, i, "(", ")", depth)
           n == Len(s)
<1>1. n \in Nat /\ i \in Nat /\ Delims("(", ")") /\ i - 1 \in Nat /\ Height(s, i - 1) \in Int
  <2>1. n \in Nat /\ i \in Nat /\ i - 1 \in Nat
    BY TextFacts
  <2> QED
    BY <2>1, HeightFacts DEF Delims
<1>2. PICK o : /\ o[0] = [at |-> i, depth |-> depth, open |-> "(", close |-> ")"]
               /\ \A k \in Nat : /\ o[k + 1] = BalancedTurn(o[k], s)
                                 /\ IsSearch(o[k], s, "(", ")")
                                 /\ o[k].at >= i
               /\ e = IF o[n].depth = 0 THEN o[n].at ELSE NoEnd
  <2>1. PICK o : Searching(o, s, i, depth, "(", ")")
    BY <1>1, BalancedSearch
  <2> QED
    BY <2>1 DEF Searching
<1>3. o[n].depth = 0 /\ e = o[n].at /\ o[n].at \in i..(n + 1)
  <2>1. o[n].depth = 0 /\ e = o[n].at
    BY <1>2
  <2> HIDE DEF e
  <2>2. IsSearch(o[n], s, "(", ")") /\ o[n].at >= i
    BY <1>1, <1>2
  <2>3. o[n].at \in 1..(n + 1)
    BY <2>2 DEF IsSearch
  <2> QED
    BY <1>1, <2>1, <2>2, <2>3
<1> HIDE DEF e
<1>4. e \in Nat /\ Unquoted(s, i, e)
  BY <1>1, <1>3 DEF e
<1> DEFINE T == {k \in Nat : o[k].at <= e => Level(o[k], s, i, depth)}
<1>5. 0 \in T
  <2>1. o[0].at = i /\ o[0].depth = depth
    BY <1>2
  <2>2. Level(o[0], s, i, depth)
    BY <1>1, <2>1 DEF Level
  <2> QED
    BY <2>2
<1>6. ASSUME NEW k \in Nat, k \in T
      PROVE  k + 1 \in T
  <2> DEFINE x == o[k]
  <2>1. /\ o[k + 1] = BalancedTurn(x, s) /\ IsSearch(x, s, "(", ")") /\ x.at >= i
        /\ x.at <= e => Level(x, s, i, depth)
    BY <1>2, <1>6
  <2> HIDE DEF x
  <2>2. BalancedTurn(x, s).at <= e => Level(BalancedTurn(x, s), s, i, depth)
    BY <1>4, <2>1, LevelStep
  <2> QED
    BY <2>1, <2>2
<1> HIDE DEF T
<1>7. n \in T
  BY <1>1, <1>5, <1>6, Bal!SetInduction
<1> DEFINE x == o[n]
<1>8. Level(x, s, i, depth) /\ x.at = e /\ x.depth = 0
  BY <1>1, <1>3, <1>4, <1>7 DEF T
<1> HIDE DEF x
<1>9. /\ Height(s, e - 1) = Height(s, i - 1) + 0 - depth
      /\ \A m \in (i - 1)..(e - 2) : Height(s, m) > Height(s, i - 1) - depth
      /\ e > i /\ s[e - 1] = ")"
  BY <1>8 DEF Level
<1>10. e \in (i + 1)..(n + 1)
  BY <1>1, <1>3, <1>9
<1> QED
  BY <1>1, <1>9, <1>10 DEF e

\* A search for a brace ends at the first one if none opens before it.
LEMMA BraceSearch ==
    ASSUME NEW s \in Text, NEW i \in 1..(Len(s) + 1), NEW k \in i..Len(s), s[k] = CloseBrace,
           \A j \in i..(k - 1) : s[j] \notin {"'", OpenBrace, CloseBrace}
    PROVE  BalancedEnd(s, i, OpenBrace, CloseBrace, 1) = k + 1
<1> DEFINE n == Len(s)
           e == BalancedEnd(s, i, OpenBrace, CloseBrace, 1)
           Here(x, m) == /\ m <= k - i => x.at = i + m /\ x.depth = 1
                         /\ m > k - i => x.at = k + 1 /\ x.depth = 0
<1>1. /\ n \in Nat /\ i \in Nat /\ i >= 1 /\ k \in Nat /\ k >= i /\ k <= n
      /\ Delims(OpenBrace, CloseBrace) /\ 1 \in Nat
  BY TextFacts DEF Delims
<1>2. PICK o : Searching(o, s, i, 1, OpenBrace, CloseBrace)
  BY <1>1, BalancedSearch
<1>3. /\ o[0] = [at |-> i, depth |-> 1, open |-> OpenBrace, close |-> CloseBrace]
      /\ \A m \in Nat : /\ o[m + 1] = BalancedTurn(o[m], s)
                        /\ IsSearch(o[m], s, OpenBrace, CloseBrace)
      /\ e = IF o[n].depth = 0 THEN o[n].at ELSE NoEnd
  BY <1>2 DEF Searching
<1> HIDE DEF e
<1> DEFINE T == {m \in Nat : Here(o[m], m)}
<1>4. 0 \in T
  <2>1. o[0].at = i /\ o[0].depth = 1
    BY <1>3
  <2> QED
    BY <1>1, <2>1
<1>5. ASSUME NEW m \in Nat, m \in T
      PROVE  m + 1 \in T
  <2> DEFINE x == o[m]
             y == BalancedTurn(x, s)
             c == At(s, x.at)
  <2>1. Here(x, m) /\ o[m + 1] = y /\ IsSearch(x, s, OpenBrace, CloseBrace)
    BY <1>3, <1>5
  <2> HIDE DEF x
  <2>2. /\ x.depth = 0 => y = x
        /\ x.depth # 0 /\ c = CloseBrace => y.at = x.at + 1 /\ y.depth = x.depth - 1
        /\ x.depth # 0 /\ c \notin {End, "'", OpenBrace, CloseBrace} =>
               y.at = x.at + 1 /\ y.depth = x.depth
    BY <1>1, <2>1, BalancedStep
  <2> HIDE DEF y
  <2>3. CASE m < k - i
    <3>1. x.at = i + m /\ x.depth = 1 /\ i + m \in i..(k - 1) /\ i + m \in 1..n
      BY <1>1, <2>1, <2>3
    <3>2. c \notin {"'", OpenBrace, CloseBrace} /\ c # End
      BY <3>1, TextFacts
    <3>3. y.at = x.at + 1 /\ y.depth = 1
      <4> HIDE DEF c
      <4> QED
        BY <2>2, <3>1, <3>2
    <3> QED
      BY <1>1, <2>1, <2>3, <3>1, <3>3
  <2>4. CASE m = k - i
    <3>1. x.at = k /\ x.depth = 1 /\ k \in 1..n
      BY <1>1, <2>1, <2>4
    <3>2. c = CloseBrace
      BY <3>1, TextFacts
    <3>3. y.at = k + 1 /\ y.depth = 0
      <4> HIDE DEF c
      <4> QED
        BY <2>2, <3>1, <3>2
    <3> QED
      BY <1>1, <2>1, <2>4, <3>3
  <2>5. CASE m > k - i
    <3>1. x.at = k + 1 /\ x.depth = 0
      BY <1>1, <2>1, <2>5
    <3>2. y = x
      BY <2>2, <3>1
    <3> QED
      BY <1>1, <2>1, <2>5, <3>1, <3>2
  <2> QED
    BY <1>1, <2>3, <2>4, <2>5
<1> HIDE DEF T
<1>6. n \in T
  BY <1>1, <1>4, <1>5, Bal!SetInduction
<1>7. Here(o[n], n)
  BY <1>6 DEF T
<1>8. n > k - i
  BY <1>1
<1>9. o[n].at = k + 1 /\ o[n].depth = 0
  BY <1>7, <1>8
<1> QED
  BY <1>3, <1>9 DEF e

\* A substitution whose `$` is at p and that ends before e is closed, and so is
\* whatever opens in it.
LEMMA SubstEnd ==
    ASSUME NEW s \in Text, NEW p \in 1..Len(s), At(s, p + 1) = "(",
           DollarEnd(s, p + 1) # NoEnd, Unquoted(s, p, DollarEnd(s, p + 1))
    PROVE  LET e == DollarEnd(s, p + 1)
           IN /\ e \in (p + 3)..(Len(s) + 1)
              /\ s[e - 1] = ")"
              /\ \A q \in (p + 2)..(e - 1) : Height(s, e - 1) < Height(s, q - 1)
<1> DEFINE n == Len(s)
           e == DollarEnd(s, p + 1)
<1>1. /\ n \in Nat /\ p \in Nat /\ p >= 1 /\ p + 1 \in Int /\ p + 2 \in Int
      /\ p + 1 \in 1..n /\ p + 1 \in 1..(n + 1) /\ p + 2 \in 1..(n + 1) /\ s[p + 1] = "("
  <2>1. n \in Nat /\ p \in Nat /\ p >= 1 /\ p + 1 \in Int /\ p + 2 \in Int
    BY TextFacts
  <2>2. p + 1 \in 1..n /\ s[p + 1] = "("
    BY <2>1, TextFacts
  <2> QED
    BY <2>1, <2>2
<1>2. e = IF At(s, (p + 1) + 1) = "(" THEN BalancedEnd(s, (p + 1) + 2, "(", ")", 2)
                                      ELSE BalancedEnd(s, (p + 1) + 1, "(", ")", 1)
  BY <1>1, DollarEndFacts
<1>3. (p + 1) + 1 = p + 2 /\ (p + 1) + 2 = p + 3
  BY <1>1
<1>4. e # NoEnd /\ Unquoted(s, p, e)
  OBVIOUS
<1> HIDE DEF e
<1>5. CASE At(s, p + 2) # "("
  <2>1. e = BalancedEnd(s, p + 2, "(", ")", 1)
    BY <1>2, <1>3, <1>5
  <2>2. Unquoted(s, p + 2, e)
    BY <1>1, <1>4 DEF Unquoted
  <2>3. /\ e \in ((p + 2) + 1)..(n + 1) /\ s[e - 1] = ")"
        /\ Height(s, e - 1) = Height(s, (p + 2) - 1) - 1
        /\ \A m \in ((p + 2) - 1)..(e - 2) : Height(s, m) > Height(s, (p + 2) - 1) - 1
    BY <1>1, <1>4, <2>1, <2>2, SearchLevel
  <2>4. e \in (p + 3)..(n + 1) /\ e \in Nat
    BY <1>1, <2>3
  <2>5. \A q \in (p + 2)..(e - 1) : Height(s, e - 1) < Height(s, q - 1)
    <3> TAKE q \in (p + 2)..(e - 1)
    <3>1. q - 1 \in ((p + 2) - 1)..(e - 2) /\ q - 1 \in Nat /\ e - 1 \in Nat /\ (p + 2) - 1 \in Nat
      BY <1>1, <2>4
    <3>2. Height(s, q - 1) > Height(s, (p + 2) - 1) - 1
      BY <2>3, <3>1
    <3>3. Height(s, q - 1) \in Int /\ Height(s, e - 1) \in Int /\ Height(s, (p + 2) - 1) \in Int
      BY <3>1, HeightFacts
    <3> QED
      BY <2>3, <3>2, <3>3
  <2> QED
    BY <2>3, <2>4, <2>5 DEF e
<1>6. CASE At(s, p + 2) = "("
  <2>1. e = BalancedEnd(s, p + 3, "(", ")", 2)
    BY <1>2, <1>3, <1>6
  <2>2. p + 2 \in 1..n /\ s[p + 2] = "(" /\ p + 3 \in 1..(n + 1)
    <3>1. p + 2 \in 1..n /\ s[p + 2] = "("
      BY <1>1, <1>6, TextFacts
    <3> QED
      BY <1>1, <3>1
  <2>3. Unquoted(s, p + 3, e)
    BY <1>1, <1>4 DEF Unquoted
  <2>4. /\ e \in ((p + 3) + 1)..(n + 1) /\ s[e - 1] = ")"
        /\ Height(s, e - 1) = Height(s, (p + 3) - 1) - 2
        /\ \A m \in ((p + 3) - 1)..(e - 2) : Height(s, m) > Height(s, (p + 3) - 1) - 2
    BY <1>1, <1>4, <2>1, <2>2, <2>3, SearchLevel
  <2>5. e \in (p + 3)..(n + 1) /\ e \in Nat /\ (p + 3) - 1 = p + 2
    BY <1>1, <2>4
  <2>6. Height(s, p + 2) = Height(s, p + 1) + 1
    <3>1. p + 1 \in Nat /\ (p + 1) + 1 = p + 2
      BY <1>1
    <3> QED
      BY <2>2, <3>1, HeightFacts
  <2>7. Height(s, p + 1) \in Int /\ Height(s, p + 2) \in Int /\ Height(s, e - 1) \in Int
    <3>1. p + 1 \in Nat /\ p + 2 \in Nat /\ e - 1 \in Nat
      BY <1>1, <2>5
    <3> QED
      BY <3>1, HeightFacts
  <2>8. \A q \in (p + 2)..(e - 1) : Height(s, e - 1) < Height(s, q - 1)
    <3> TAKE q \in (p + 2)..(e - 1)
    <3>1. q = p + 2 \/ q - 1 \in (p + 2)..(e - 2)
      BY <1>1, <2>5
    <3>2. CASE q = p + 2
      <4>1. q - 1 = p + 1
        BY <1>1, <3>2
      <4> QED
        BY <2>4, <2>5, <2>6, <2>7, <4>1
    <3>3. CASE q - 1 \in (p + 2)..(e - 2)
      <4>1. Height(s, q - 1) > Height(s, p + 2) - 2 /\ Height(s, e - 1) = Height(s, p + 2) - 2
        BY <2>4, <2>5, <3>3
      <4>2. q - 1 \in Nat
        BY <1>1, <3>3
      <4>3. Height(s, q - 1) \in Int
        BY <4>2, HeightFacts
      <4> QED
        BY <2>7, <4>1, <4>3
    <3> QED
      BY <3>1, <3>2, <3>3
  <2> QED
    BY <2>4, <2>5, <2>8 DEF e
<1> QED
  BY <1>5, <1>6

\* What Plain says of the word from i up to e, said of the text it stands in.
PlainTo(s, i, e) ==
    /\ \A j \in i..(e - 1) : s[j] \notin {"'", "\\", Tick}
    /\ \A p \in i..(e - 2) : (s[p] = "$" /\ s[p + 1] = OpenBrace) =>
           \E k \in (p + 3)..(e - 1) : /\ s[k] = CloseBrace
                                       /\ \A j \in (p + 2)..(k - 1) :
                                              s[j] \notin {"$", OpenBrace, CloseBrace}

\* From q on, and before e, more parentheses are closed than opened.
Shuts(s, q, e) == \E m \in q..(e - 1) : Height(s, m) < Height(s, q - 1)

\* Every `$(` between i and e is closed there.
Shut(s, i, e) ==
    \A p \in i..(e - 2) : (s[p] = "$" /\ s[p + 1] = "(") =>
        Shuts(s, p + 2, e) /\ (s[p + 2] = "(" => Shuts(s, p + 3, e))

\* What an expansion adds to the word.
LEMMA ShutDollar ==
    ASSUME NEW s \in Text, NEW i \in Nat, i >= 1, NEW e \in Nat, e <= Len(s) + 1,
           PlainTo(s, i, e), NEW j \in i..(e - 1), s[j] = "$",
           NEW y \in (j + 1)..e, y = DollarEnd(s, j + 1)
    PROVE  Shut(s, j, y)
<1> DEFINE n == Len(s)
           c == At(s, j + 1)
<1>1. /\ n \in Nat /\ j \in Nat /\ y \in Nat /\ j \in 1..n /\ j + 1 \in 1..(n + 1) /\ j + 1 \in Int
      /\ y >= j + 1 /\ y <= e /\ e <= n + 1 /\ j >= i
  BY TextFacts
<1>2. /\ c = OpenBrace => y = BalancedEnd(s, (j + 1) + 1, OpenBrace, CloseBrace, 1)
      /\ c \in NameStart => y = SkipOver(s, j + 1, NameChar)
      /\ c \in Digits \cup SpecialChar => y = (j + 1) + 1
      /\ c \notin {OpenBrace, "("} \cup NameStart \cup Digits \cup SpecialChar => y = j + 1
  BY <1>1, DollarEndFacts
<1>3. j + 1 \in 1..n => s[j + 1] = c
  BY TextFacts
<1>4. c # End => j + 1 \in 1..n
  BY <1>1, TextFacts
<1>5. SUFFICES ASSUME NEW p \in j..(y - 2), s[p] = "$", s[p + 1] = "("
               PROVE  Shuts(s, p + 2, y) /\ (s[p + 2] = "(" => Shuts(s, p + 3, y))
  BY DEF Shut
<1>6. p \in Nat /\ p >= j /\ p + 1 \in (j + 1)..(y - 1) /\ p + 1 \in 1..n /\ p \in 1..n
  BY <1>1
<1> HIDE DEF c
<1>7. CASE c = "("
  <2>1. y # NoEnd
    BY <1>1 DEF NoEnd
  <2>2. Unquoted(s, j, y)
    BY <1>1 DEF Unquoted, PlainTo
  <2>3. /\ y \in (j + 3)..(n + 1) /\ s[y - 1] = ")"
        /\ \A q \in (j + 2)..(y - 1) : Height(s, y - 1) < Height(s, q - 1)
    BY <1>1, <1>7, <2>1, <2>2, SubstEnd DEF c
  <2>4. p + 1 # y - 1
    BY <1>5, <2>3
  <2>5. p + 2 \in (j + 2)..(y - 1) /\ y - 1 \in (p + 2)..(y - 1)
    BY <1>1, <1>6, <2>4
  <2>6. Shuts(s, p + 2, y)
    BY <2>3, <2>5 DEF Shuts
  <2>7. ASSUME s[p + 2] = "(" PROVE Shuts(s, p + 3, y)
    <3>1. p + 2 # y - 1
      BY <2>3, <2>7
    <3>2. p + 3 \in (j + 2)..(y - 1) /\ y - 1 \in (p + 3)..(y - 1)
      BY <1>1, <1>6, <2>5, <3>1
    <3> QED
      BY <2>3, <3>2 DEF Shuts
  <2> QED
    BY <2>6, <2>7
<1>8. CASE c = OpenBrace
  <2>1. j + 1 \in 1..n /\ s[j + 1] = OpenBrace
    BY <1>3, <1>4, <1>8
  <2>2. j \in i..(e - 2)
    BY <1>1, <1>6
  <2>3. PICK k \in (j + 3)..(e - 1) :
            /\ s[k] = CloseBrace
            /\ \A m \in (j + 2)..(k - 1) : s[m] \notin {"$", OpenBrace, CloseBrace}
    BY <2>1, <2>2 DEF PlainTo
  <2>4. /\ j + 2 \in 1..(n + 1) /\ k \in (j + 2)..n /\ (j + 1) + 1 = j + 2
        /\ \A m \in (j + 2)..(k - 1) : m \in i..(e - 1)
    BY <1>1, <2>3
  <2>5. \A m \in (j + 2)..(k - 1) : s[m] \notin {"'", OpenBrace, CloseBrace}
    BY <2>3, <2>4 DEF PlainTo
  <2>6. BalancedEnd(s, j + 2, OpenBrace, CloseBrace, 1) = k + 1
    BY <2>3, <2>4, <2>5, BraceSearch
  <2>7. y = k + 1
    BY <1>2, <1>8, <2>4, <2>6
  <2>8. p = j \/ p = j + 1 \/ p \in (j + 2)..(k - 1)
    BY <1>1, <1>6, <2>3, <2>7
  <2>9. CASE p = j
    BY <1>5, <2>1, <2>9
  <2>10. CASE p = j + 1
    BY <1>5, <2>1, <2>10
  <2>11. CASE p \in (j + 2)..(k - 1)
    BY <1>5, <2>3, <2>11
  <2> QED
    BY <2>8, <2>9, <2>10, <2>11
<1>9. CASE c \in NameStart
  <2>1. y = SkipOver(s, j + 1, NameChar)
    BY <1>2, <1>9
  <2>2. \A m \in (j + 1)..(y - 1) : s[m] \in NameChar
    BY <1>1, <2>1, SkipOverFacts
  <2>3. "(" \notin NameChar
    BY NameFacts
  <2> QED
    BY <1>5, <1>6, <2>2, <2>3
<1>10. CASE c \in Digits \cup SpecialChar
  <2>1. y = (j + 1) + 1
    BY <1>2, <1>10
  <2>2. p = j /\ s[j + 1] = c
    BY <1>1, <1>3, <1>6, <2>1
  <2>3. "(" \notin Digits \cup SpecialChar
    BY KindFacts DEF SpecialChar, Mark, NotInWord
  <2> QED
    BY <1>5, <1>10, <2>2, <2>3
<1>11. CASE c \notin {OpenBrace, "("} \cup NameStart \cup Digits \cup SpecialChar
  <2>1. y = j + 1
    BY <1>2, <1>11
  <2> QED
    BY <1>1, <2>1
<1> QED
  BY <1>7, <1>8, <1>9, <1>10, <1>11

LEMMA ShutStep ==
    ASSUME NEW s \in Text, NEW i \in Nat, i >= 1, NEW e \in Nat, e <= Len(s) + 1,
           PlainTo(s, i, e), NEW j \in i..e, Shut(s, i, j),
           WordTurn(j, s) \in j..e
    PROVE  Shut(s, i, WordTurn(j, s))
<1> DEFINE n == Len(s)
           c == At(s, j)
           y == WordTurn(j, s)
<1>1. n \in Nat /\ j \in Nat /\ j \in 1..(n + 1) /\ y \in j..e /\ y \in Nat /\ j <= e
  BY TextFacts
<1>2. IsPlace(j, s)
  BY <1>1 DEF IsPlace
<1>3. /\ c \in NotInWord \cup {End} => y = j
      /\ c = "$" => y = DollarEnd(s, j + 1)
      /\ c \notin NotInWord \cup {End, "\\", "$", Tick} => y = j + 1
      /\ c \notin NotInWord \cup {End} => y = NoEnd \/ y > j
  BY <1>2, WordStep
<1>4. c # End => j \in 1..n /\ s[j] = c
  BY <1>1, TextFacts
<1> HIDE DEF c, y
<1>5. CASE y = j
  BY <1>5 DEF y
<1>6. CASE y # j
  <2>1. c \notin NotInWord \cup {End} /\ s[j] = c /\ j \in i..(e - 1) /\ y \in (j + 1)..e
    BY <1>1, <1>3, <1>4, <1>6
  <2>2. Shut(s, j, y)
    <3>1. CASE c = "$"
      BY <1>3, <2>1, <3>1, ShutDollar
    <3>2. CASE c # "$"
      <4>1. c \notin {"\\", Tick}
        BY <2>1 DEF PlainTo
      <4>2. y = j + 1
        BY <1>3, <2>1, <3>2, <4>1
      <4>3. j..(y - 2) = {}
        BY <1>1, <4>2
      <4> QED
        BY <4>3 DEF Shut
    <3> QED
      BY <3>1, <3>2
  <2>3. ASSUME NEW p \in i..(y - 2), s[p] = "$", s[p + 1] = "("
        PROVE  Shuts(s, p + 2, y) /\ (s[p + 2] = "(" => Shuts(s, p + 3, y))
    <3>1. p \in i..(j - 2) \/ p = j - 1 \/ p \in j..(y - 2)
      BY <1>1, <2>1
    <3>2. CASE p \in i..(j - 2)
      <4>1. Shuts(s, p + 2, j) /\ (s[p + 2] = "(" => Shuts(s, p + 3, j))
        BY <2>3, <3>2 DEF Shut
      <4>2. \A q \in Int : Shuts(s, q, j) => Shuts(s, q, y)
        <5>1. \A q \in Int : \A m \in q..(j - 1) : m \in q..(y - 1)
          BY <1>1, <2>1
        <5> QED
          BY <5>1 DEF Shuts
      <4>3. p + 2 \in Int /\ p + 3 \in Int
        BY <1>1
      <4> QED
        BY <4>1, <4>2, <4>3
    <3>3. CASE p = j - 1
      <4>1. p + 1 = j
        BY <1>1, <3>3
      <4>2. s[j] = "("
        BY <2>3, <4>1
      <4> QED
        BY <2>1, <4>2 DEF NotInWord
    <3>4. CASE p \in j..(y - 2)
      BY <2>2, <2>3, <3>4 DEF Shut
    <3> QED
      BY <3>1, <3>2, <3>3, <3>4
  <2>4. Shut(s, i, y)
    BY <2>3 DEF Shut
  <2> QED
    BY <2>4 DEF y
<1> QED
  BY <1>5, <1>6

\* A word the lexer takes whole closes every `$(` in it.
LEMMA WordShut ==
    ASSUME NEW s \in Text, NEW i \in 1..Len(s), s[i] \notin NotInWord,
           WordEnd(s, i) # NoEnd, PlainTo(s, i, WordEnd(s, i))
    PROVE  Shut(s, i, WordEnd(s, i))
<1> DEFINE n == Len(s)
           e == WordEnd(s, i)
<1>1. n \in Nat /\ i \in Nat /\ i >= 1 /\ NoEnd = 0
  BY TextFacts DEF NoEnd
<1>2. e \in (i + 1)..(n + 1)
  BY WordEndFacts
<1>3. PICK o : /\ o[0] = i
               /\ \A k \in Nat : o[k + 1] = WordTurn(o[k], s)
               /\ e = o[n]
  BY WordRun
<1>4. e \in Nat /\ e <= n + 1 /\ PlainTo(s, i, e) /\ e # NoEnd
  BY <1>1, <1>2
<1> HIDE DEF e
<1> DEFINE Good(j) == /\ j = NoEnd \/ j \in i..(n + 1)
                      /\ j # NoEnd /\ j <= e => Shut(s, i, j)
           T == {k \in Nat : Good(o[k])}
<1>5. 0 \in T
  <2>1. i..(i - 2) = {}
    BY <1>1
  <2>2. Shut(s, i, i)
    BY <2>1 DEF Shut
  <2> QED
    BY <1>1, <1>3, <2>2
<1>6. ASSUME NEW k \in Nat, k \in T
      PROVE  k + 1 \in T
  <2> DEFINE j == o[k]
             y == WordTurn(j, s)
  <2>1. Good(j) /\ o[k + 1] = y
    BY <1>3, <1>6
  <2> HIDE DEF j
  <2>2. IsPlace(j, s)
    BY <1>1, <2>1 DEF IsPlace
  <2>3. IsPlace(y, s) /\ (y = NoEnd \/ (j # NoEnd /\ y >= j))
    BY <2>2, WordStep
  <2>4. y = NoEnd \/ (j \in i..(n + 1) /\ y \in i..(n + 1) /\ y >= j)
    <3> HIDE DEF y
    <3> QED
      BY <1>1, <2>1, <2>3 DEF IsPlace
  <2>5. ASSUME y # NoEnd, y <= e PROVE Shut(s, i, y)
    <3>1. j # NoEnd /\ j \in i..e /\ y \in j..e
      <4> HIDE DEF y
      <4> QED
        BY <1>1, <1>4, <2>4, <2>5
    <3>2. Shut(s, i, j)
      BY <1>1, <2>1, <3>1
    <3> QED
      BY <1>1, <1>4, <3>1, <3>2, ShutStep
  <2> QED
    BY <2>1, <2>4, <2>5
<1> HIDE DEF T
<1>7. n \in T
  BY <1>1, <1>5, <1>6, Wrd!SetInduction
<1>8. Shut(s, i, e)
  BY <1>3, <1>4, <1>7 DEF T
<1> QED
  BY <1>8 DEF e

\* A plain word can be cut.
LEMMA PlainWord ==
    ASSUME NEW s \in Text, NEW i, NEW t, IsWordToken(t, s, i), Plain(t.text)
    PROVE  Wholesome(t.text)
<1> DEFINE n == Len(s)
           e == WordEnd(s, i)
           w == SubSeq(s, i, e - 1)
           l == e - i
<1>1. /\ n \in Nat /\ i \in 1..n /\ i \in Nat /\ i >= 1 /\ s[i] \notin NotInWord
      /\ e \in (i + 1)..(n + 1) /\ t = TextTok("Word", i, e, w)
  BY TextFacts DEF IsWordToken
<1>2. t.text = w
  BY <1>1 DEF TextTok
<1> HIDE DEF e
<1>3. /\ e \in Nat /\ e - 1 \in Int /\ e - 1 <= n /\ l \in Nat /\ (e - 1) - i + 1 = l /\ i <= e - 1
      /\ i \in 1..(n + 1) /\ i - 1 \in Nat
  BY <1>1
<1>4. /\ w \in Text /\ Len(w) = l /\ DOMAIN w = 1..l
      /\ \A a \in 1..l : w[a] = s[i + a - 1] /\ At(w, a) = w[a]
      /\ \A a \in Int : At(w, a) # End => a \in 1..l /\ At(w, a) = w[a]
  <2>1. /\ w \in Text /\ Len(w) = l
        /\ \A a \in 1..l : w[a] = s[i + a - 1]
    <3>1. i \in Int
      BY <1>1
    <3> QED
      BY <1>1, <1>3, <3>1, PieceFacts
  <2> QED
    BY <2>1, TextFacts
<1>5. \A k \in 0..l : Height(w, k) = Height(s, i + k - 1) - Height(s, i - 1)
  <2>1. \A k \in 0..((e - 1) - i + 1) : Height(w, k) = Height(s, i + k - 1) - Height(s, i - 1)
    BY <1>3, PieceHeight
  <2> QED
    BY <1>3, <2>1
<1> HIDE DEF w, l
<1>6. /\ Range(w) \cap (Wide \cup {"'", "\\", Tick}) = {}
      /\ \A a \in 2..l : (w[a - 1] = "$" /\ w[a] = OpenBrace) =>
             \E k \in (a + 2)..l : /\ w[k] = CloseBrace
                                   /\ \A j \in (a + 1)..(k - 1) :
                                          w[j] \notin {"$", OpenBrace, CloseBrace}
  BY <1>2, <1>4 DEF Plain
<1>7. PlainTo(s, i, e)
  <2>1. ASSUME NEW j \in i..(e - 1) PROVE s[j] \notin {"'", "\\", Tick}
    <3>1. j - i + 1 \in 1..l /\ i + (j - i + 1) - 1 = j
      BY <1>1, <1>3 DEF l
    <3>2. w[j - i + 1] = s[j] /\ w[j - i + 1] \in Range(w)
      BY <1>4, <3>1 DEF Range
    <3> QED
      BY <1>6, <3>2
  <2>2. ASSUME NEW p \in i..(e - 2), s[p] = "$", s[p + 1] = OpenBrace
        PROVE  \E k \in (p + 3)..(e - 1) : /\ s[k] = CloseBrace
                                           /\ \A j \in (p + 2)..(k - 1) :
                                                  s[j] \notin {"$", OpenBrace, CloseBrace}
    <3> DEFINE a == p - i + 2
    <3>1. a \in 2..l /\ a \in 1..l /\ a - 1 \in 1..l /\ i + a - 1 = p + 1 /\ i + (a - 1) - 1 = p
      BY <1>1, <1>3 DEF l
    <3>2. w[a - 1] = "$" /\ w[a] = OpenBrace
      BY <1>4, <2>2, <3>1
    <3>3. PICK k \in (a + 2)..l : /\ w[k] = CloseBrace
                                  /\ \A j \in (a + 1)..(k - 1) :
                                         w[j] \notin {"$", OpenBrace, CloseBrace}
      BY <1>6, <3>1, <3>2
    <3> DEFINE q == i + k - 1
    <3>4. q \in (p + 3)..(e - 1) /\ k \in 1..l
      BY <1>1, <1>3, <3>1, <3>3 DEF l
    <3>5. s[q] = CloseBrace
      BY <1>4, <3>3, <3>4
    <3>6. ASSUME NEW j \in (p + 2)..(q - 1) PROVE s[j] \notin {"$", OpenBrace, CloseBrace}
      <4>1. j - i + 1 \in (a + 1)..(k - 1) /\ j - i + 1 \in 1..l /\ i + (j - i + 1) - 1 = j
        BY <1>1, <1>3, <3>1, <3>4 DEF l
      <4>2. w[j - i + 1] = s[j]
        BY <1>4, <4>1
      <4> QED
        BY <3>3, <4>1, <4>2
    <3> HIDE DEF q
    <3> QED
      BY <3>4, <3>5, <3>6
  <2> QED
    BY <2>1, <2>2 DEF PlainTo
<1>8. Shut(s, i, e)
  <2>1. e # NoEnd
    BY <1>1, <1>3 DEF NoEnd
  <2> QED
    BY <1>1, <1>7, <2>1, WordShut DEF e
<1>9. \A k \in Nat : Height(s, k) \in Int
  BY HeightFacts
<1>10. ASSUME NEW q \in 1..(l + 1), Shuts(s, i + q - 1, e) PROVE Closes(w, q)
  <2>1. PICK m \in (i + q - 1)..(e - 1) : Height(s, m) < Height(s, (i + q - 1) - 1)
    BY <1>10 DEF Shuts
  <2> DEFINE k == m - i + 1
  <2>2. /\ k \in q..l /\ k \in 0..l /\ i + k - 1 = m /\ q - 1 \in 0..l
        /\ i + (q - 1) - 1 = (i + q - 1) - 1 /\ m \in Nat /\ (i + q - 1) - 1 \in Nat
    BY <1>1, <1>3 DEF l
  <2> HIDE DEF k
  <2>3. Height(w, k) = Height(s, m) - Height(s, i - 1)
    BY <1>5, <2>2
  <2>4. Height(w, q - 1) = Height(s, (i + q - 1) - 1) - Height(s, i - 1)
    BY <1>5, <2>2
  <2>5. Height(w, k) < Height(w, q - 1)
    BY <1>3, <1>9, <2>1, <2>2, <2>3, <2>4
  <2> QED
    BY <1>4, <2>2, <2>5 DEF Closes
<1>11. ASSUME NEW a \in 1..l, w[a] = "$"
       PROVE  /\ At(w, a + 1) = "(" => Closes(w, a + 2)
              /\ At(w, a + 1) = "(" /\ At(w, a + 2) = "(" => Closes(w, a + 3)
              /\ At(w, a + 1) = OpenBrace => Filled(w, a)
  <2> DEFINE p == i + a - 1
  <2>1. a \in Nat /\ a + 1 \in Int /\ a + 2 \in Int /\ s[p] = "$"
    BY <1>3, <1>4, <1>11
  <2>2. /\ At(w, a + 1) # End => a + 1 \in 1..l /\ At(w, a + 1) = w[a + 1]
        /\ At(w, a + 2) # End => a + 2 \in 1..l /\ At(w, a + 2) = w[a + 2]
    BY <1>4, <2>1
  <2>3. /\ i + (a + 1) - 1 = p + 1 /\ i + (a + 2) - 1 = p + 2 /\ i + (a + 3) - 1 = p + 3
        /\ a + 1 \in 1..l => p \in i..(e - 2) /\ a + 2 \in 1..(l + 1)
        /\ a + 2 \in 1..l => a + 3 \in 1..(l + 1)
    BY <1>1, <1>3, <2>1 DEF l
  <2> HIDE DEF p
  <2>4. ASSUME At(w, a + 1) = "("
        PROVE  /\ a + 2 \in 1..(l + 1) /\ Shuts(s, p + 2, e)
               /\ s[p + 2] = "(" => Shuts(s, p + 3, e)
    <3>1. a + 1 \in 1..l /\ w[a + 1] = "("
      BY <2>2, <2>4
    <3>2. s[p + 1] = "(" /\ p \in i..(e - 2) /\ a + 2 \in 1..(l + 1)
      BY <1>4, <2>3, <3>1
    <3> QED
      BY <1>8, <2>1, <3>2 DEF Shut
  <2>5. ASSUME At(w, a + 1) = "(" PROVE Closes(w, a + 2)
    BY <1>10, <2>3, <2>4, <2>5
  <2>6. ASSUME At(w, a + 1) = "(", At(w, a + 2) = "(" PROVE Closes(w, a + 3)
    <3>1. a + 2 \in 1..l /\ w[a + 2] = "("
      BY <2>2, <2>6
    <3>2. s[p + 2] = "(" /\ a + 3 \in 1..(l + 1)
      BY <1>4, <2>3, <3>1
    <3> QED
      BY <1>10, <2>3, <2>4, <2>6, <3>2
  <2>7. ASSUME At(w, a + 1) = OpenBrace PROVE Filled(w, a)
    <3>1. a + 1 \in 2..l /\ w[a + 1] = OpenBrace /\ (a + 1) - 1 = a
      BY <2>1, <2>2, <2>7
    <3>2. PICK k \in ((a + 1) + 2)..l : /\ w[k] = CloseBrace
                                        /\ \A j \in ((a + 1) + 1)..(k - 1) :
                                               w[j] \notin {"$", OpenBrace, CloseBrace}
      BY <1>6, <1>11, <3>1
    <3>3. (a + 1) + 2 = a + 3 /\ (a + 1) + 1 = a + 2
      BY <2>1
    <3> QED
      BY <1>4, <3>2, <3>3 DEF Filled
  <2> QED
    BY <2>5, <2>6, <2>7
<1>12. Wholesome(w)
  BY <1>4, <1>6, <1>11 DEF Wholesome
<1> QED
  BY <1>2, <1>12

\* ------------------------------- the reading -----------------------------

\* A token of s, and its word.
IsGot(g, s) ==
    /\ g.before \in 1..(Len(s) + 1) /\ g.dq \in BOOLEAN
    /\ Covers(s, g.before, g.dq, g.tok)
    /\ g.tok.kind = "Word" => \E a \in BOOLEAN : g.word = WordOf(g.tok, g.dq, a)

(***************************************************************************)
(* The inductive invariant: the lexer's position is in the text, and what  *)
(* it got last was read from there.                                        *)
(***************************************************************************)
ReaderInv ==
    /\ inDq \in BOOLEAN
    /\ st = "write" => src \in Seq(Text) /\ pos = 1 /\ got.tok = NoToken
    /\ st # "write" => src \in Text /\ pos \in 1..(Len(src) + 1)
    /\ got.tok # NoToken => IsGot(got, src)

\* The pieces of a text are joined to one.
LEMMA JoinedPieces ==
    ASSUME NEW pieces \in Seq(Text)
    PROVE  FoldLeft(Joined, <<>>, pieces) \in Text
<1>1. FoldLeft(Joined, <<>>, pieces) = Join!Fold(<<>>, pieces)
  BY DEF FoldLeft, MapThenFoldSet, Max, Join!Fold, Join!FoldLeft, Join!MapThenFoldSet, Join!Max
<1> DEFINE n == Len(pieces)
<1>2. n \in Nat /\ DOMAIN pieces = 1..n /\ \A k \in 1..n : pieces[k] \in Text
  BY LenProperties, ElementOfSeq
<1>3. PICK o : /\ o[0] = <<>>
               /\ \A k \in 1..n : o[k] = Joined(o[k - 1], pieces[k])
               /\ Join!Fold(<<>>, pieces) = o[n]
  BY <1>2, Join!FoldSteps
<1> DEFINE T == {k \in Nat : k <= n => o[k] \in Text}
<1>4. 0 \in T
  <2>1. <<>> \in Text
    BY DEF Text
  <2>2. o[0] \in Text
    BY <1>3, <2>1
  <2> QED
    BY <2>2
<1>5. ASSUME NEW k \in Nat, k \in T
      PROVE  k + 1 \in T
  <2> SUFFICES ASSUME k + 1 <= n
               PROVE  o[k + 1] \in Text
    OBVIOUS
  <2>1. k + 1 \in 1..n /\ (k + 1) - 1 = k /\ o[k] \in Text
    BY <1>2, <1>5
  <2>2. o[k + 1] = o[k] \o pieces[k + 1]
    BY <1>3, <2>1 DEF Joined
  <2>3. pieces[k + 1] \in Text
    BY <1>2, <2>1
  <2> QED
    BY <2>1, <2>2, <2>3, TextConcat
<1> HIDE DEF T
<1>6. n \in T
  BY <1>2, <1>4, <1>5, Join!SetInduction
<1> QED
  BY <1>1, <1>2, <1>3, <1>6 DEF T

LEMMA ReaderInit == Init => ReaderInv
<1> SUFFICES ASSUME Init PROVE ReaderInv
  OBVIOUS
<1>1. <<>> \in Seq(Text)
  OBVIOUS
<1>2. inDq = FALSE /\ st = "write" /\ src = <<>> /\ pos = 1 /\ got.tok = NoToken
  BY DEF Init
<1> QED
  BY <1>1, <1>2 DEF ReaderInv

LEMMA WriteKeeps ==
    ASSUME ReaderInv, NEW piece, Write(piece)
    PROVE  ReaderInv'
<1>1. piece \in Text
  <2>1. PICK a \in Alphabets : Range(src) \cup {piece} \subseteq a.pieces
    BY DEF Write
  <2>2. a.pieces \subseteq Seq(Char)
    BY LexerAssumption
  <2> QED
    BY <2>1, <2>2 DEF Text
<1>2. /\ st = "write" /\ src' = Append(src, piece) /\ pos' = pos /\ inDq' = inDq /\ got' = got
      /\ st' = st
  BY DEF Write
<1>3. src \in Seq(Text) /\ pos = 1 /\ got.tok = NoToken /\ inDq \in BOOLEAN
  BY <1>2 DEF ReaderInv
<1>4. src' \in Seq(Text)
  <2> HIDE DEF Text
  <2> QED
    BY <1>1, <1>2, <1>3
<1> QED
  BY <1>2, <1>3, <1>4 DEF ReaderInv

LEMMA BeginKeeps ==
    ASSUME ReaderInv, Begin
    PROVE  ReaderInv'
<1>1. /\ st = "write" /\ src' = FoldLeft(Joined, <<>>, src) /\ st' = "run" /\ pos' = pos
      /\ inDq' = inDq /\ got' = got
  BY DEF Begin
<1>2. src \in Seq(Text) /\ pos = 1 /\ got.tok = NoToken /\ inDq \in BOOLEAN
  BY <1>1 DEF ReaderInv
<1>3. src' \in Text
  BY <1>1, <1>2, JoinedPieces
<1>4. 1 \in 1..(Len(src') + 1)
  <2>1. Len(src') \in Nat
    BY <1>3, TextFacts
  <2> QED
    BY <2>1
<1> QED
  BY <1>1, <1>2, <1>3, <1>4 DEF ReaderInv

\* The text of a word.
LEMMA WordTokenText ==
    ASSUME NEW s \in Text, NEW i, NEW t, IsWordToken(t, s, i)
    PROVE  t.text \in Text /\ t.text # <<>>
<1> DEFINE e == WordEnd(s, i)
           w == SubSeq(s, i, e - 1)
<1>1. Len(s) \in Nat /\ i \in 1..Len(s) /\ e \in (i + 1)..(Len(s) + 1) /\ t = TextTok("Word", i, e, w)
  BY TextFacts DEF IsWordToken
<1>2. t.text = w
  BY <1>1 DEF TextTok
<1> HIDE DEF e
<1>3. i \in Int /\ e - 1 \in Int /\ 1 <= i /\ e - 1 <= Len(s) /\ i <= e - 1
  BY <1>1
<1>4. w \in Text /\ Len(w) = (e - 1) - i + 1
  BY <1>3, PieceFacts
<1> HIDE DEF w
<1>5. Len(w) # 0
  BY <1>3, <1>4
<1>6. w # <<>>
  BY <1>5
<1> QED
  BY <1>2, <1>4, <1>6

LEMMA ReadKeeps ==
    ASSUME ReaderInv, NEW assignable \in BOOLEAN, Read(assignable)
    PROVE  ReaderInv'
<1> DEFINE t == NextToken(src, pos, inDq)
           a == assignable /\ ~inDq
           word == IF t.kind = "Word" THEN WordOf(t, inDq, a) ELSE NoWord
<1>1. /\ st = "run" /\ src' = src /\ pos' = t.to
      /\ got' = [before |-> pos, dq |-> inDq, tok |-> t, word |-> word]
      /\ inDq' = ((inDq \/ t.kind = "DoubleQuoteOpen") /\ t.kind # "DoubleQuoteClose")
      /\ st' = CASE t.kind = "Error" -> "err"
                 [] t.kind # "Error" /\ word.st # "ok" -> word.st
                 [] t.kind = "Eof" -> "end"
                 [] t.kind = "Newline" /\ docs -> "bodies"
                 [] OTHER -> "run"
  BY DEF Read
<1>2. src \in Text /\ pos \in 1..(Len(src) + 1) /\ inDq \in BOOLEAN /\ a \in BOOLEAN
  BY <1>1 DEF ReaderInv
<1>3. Covers(src, pos, inDq, t)
  BY <1>2, NextTokenCovers
<1> HIDE DEF t, a
<1>4. t.kind = "Word" => word = WordOf(t, inDq, a)
  OBVIOUS
<1>5. word.st \in Outcome
  <2>1. CASE t.kind = "Word"
    <3>1. IsWordToken(t, src, t.from)
      BY <1>3, <2>1 DEF Covers, TokenAt
    <3>2. t.text \in Text
      BY <1>2, <3>1, WordTokenText
    <3>3. WordOf(t, inDq, a).st \in Outcome
      BY <1>2, <3>2, WordOfFacts
    <3> QED
      BY <1>4, <2>1, <3>3
  <2>2. CASE t.kind # "Word"
    BY <2>2 DEF NoWord, Outcome
  <2> QED
    BY <2>1, <2>2
<1> HIDE DEF word
<1>6. st' # "write"
  <2>1. word.st # "write"
    BY <1>5 DEF Outcome
  <2> QED
    BY <1>1, <2>1
<1>7. pos' \in 1..(Len(src') + 1)
  <2>1. Len(src) \in Nat /\ pos \in Nat
    BY <1>2, TextFacts
  <2>2. t.from \in pos..(Len(src) + 1) /\ t.to \in (t.from)..(Len(src) + 1)
    BY <1>3 DEF Covers, TokenAt
  <2>3. t.to \in 1..(Len(src) + 1)
    BY <1>2, <2>1, <2>2
  <2> QED
    BY <1>1, <2>3
<1>8. inDq' \in BOOLEAN
  BY <1>1
<1>9. IsGot(got', src')
  <2>1. got'.before = pos /\ got'.dq = inDq /\ got'.tok = t /\ got'.word = word
    BY <1>1
  <2>2. t.kind = "Word" => \E b \in BOOLEAN : word = WordOf(t, inDq, b)
    BY <1>2, <1>4
  <2> QED
    BY <1>1, <1>2, <1>3, <2>1, <2>2 DEF IsGot
<1> QED
  BY <1>1, <1>2, <1>6, <1>7, <1>8, <1>9 DEF ReaderInv

LEMMA ReaderStep == ReaderInv /\ [Next]_vars => ReaderInv'
<1> SUFFICES ASSUME ReaderInv, [Next]_vars
             PROVE  ReaderInv'
  OBVIOUS
<1>1. CASE \E piece \in UNION {a.pieces : a \in Alphabets} : Write(piece)
  BY <1>1, WriteKeeps
<1>2. CASE Begin
  BY <1>2, BeginKeeps
<1>3. CASE \E assignable \in BOOLEAN : Read(assignable)
  BY <1>3, ReadKeeps
<1>4. CASE UNCHANGED vars
  BY <1>4 DEF vars, ReaderInv
<1> QED
  BY <1>1, <1>2, <1>3, <1>4 DEF Next

\* The reading keeps the invariant (parser.rs:355-406).
THEOREM ReaderKept == Spec => []ReaderInv
<1> QED
  BY ReaderInit, ReaderStep, PTL DEF Spec

(***************************************************************************)
(* The lexer loses nothing and goes on, whatever the text: its tokens and  *)
(* the blanks and comments between them are the text, and every token but  *)
(* the last takes some of it (lexer.rs:171-372, 560-591).                  *)
(***************************************************************************)
THEOREM LexerLosesNothing == Spec => []TokensCoverTheText
<1>1. ReaderInv => TokensCoverTheText
  <2> SUFFICES ASSUME ReaderInv, got.tok # NoToken
               PROVE  LET t == got.tok
                          gap == SubSeq(src, got.before, t.from - 1)
                      IN /\ t.kind \notin {"Error", "Eof"} => t.to > got.before
                         /\ \A i \in DOMAIN gap :
                                /\ ~got.dq /\ gap[i] # "\n"
                                /\ gap[i] \in {Space, "\t"} \/ \E j \in 1..i : gap[j] = "#"
                         /\ Spells(t, SubSeq(src, t.from, Len(src)))
    BY DEF TokensCoverTheText
  <2> DEFINE t == got.tok
             p == got.before
             f == t.from
             gap == SubSeq(src, p, f - 1)
  <2>1. src \in Text /\ p \in 1..(Len(src) + 1) /\ Covers(src, p, got.dq, t)
    BY DEF ReaderInv, IsGot
  <2>2. /\ f \in p..(Len(src) + 1) /\ Spells(t, SubSeq(src, f, Len(src)))
        /\ t.kind \notin {"Error", "Eof"} => t.to > p
        /\ \A j \in p..(f - 1) : ~got.dq /\ Between(src, p, j)
    BY <2>1 DEF Covers, TokenAt
  <2> HIDE DEF t, p, f
  <2>3. Len(src) \in Nat /\ p \in Int /\ f - 1 \in Int /\ 1 <= p /\ f - 1 <= Len(src) /\ f \in Int
    BY <2>1, <2>2, TextFacts
  <2>4. DOMAIN gap = 1..(f - p) /\ \A i \in 1..(f - p) : gap[i] = src[p + i - 1]
    <3>1. (f - 1) - p + 1 = f - p
      BY <2>3
    <3>2. /\ DOMAIN gap = 1..((f - 1) - p + 1)
          /\ \A i \in 1..((f - 1) - p + 1) : gap[i] = src[p + i - 1]
      BY <2>1, <2>3, PieceFacts
    <3> QED
      BY <3>1, <3>2
  <2> HIDE DEF gap
  <2>5. ASSUME NEW i \in DOMAIN gap
        PROVE  /\ ~got.dq /\ gap[i] # "\n"
               /\ gap[i] \in {Space, "\t"} \/ \E j \in 1..i : gap[j] = "#"
    <3> DEFINE q == p + i - 1
    <3>1. i \in 1..(f - p) /\ q \in p..(f - 1) /\ gap[i] = src[q]
      BY <2>3, <2>4, <2>5
    <3>2. ~got.dq /\ Between(src, p, q)
      BY <2>2, <3>1
    <3>3. src[q] # "\n" /\ (src[q] \in {Space, "\t"} \/ \E k \in p..q : src[k] = "#")
      BY <3>2 DEF Between
    <3>4. ASSUME NEW k \in p..q, src[k] = "#" PROVE \E j \in 1..i : gap[j] = "#"
      <4>1. k - p + 1 \in 1..i /\ k - p + 1 \in 1..(f - p) /\ p + (k - p + 1) - 1 = k
        BY <2>3, <3>1
      <4> QED
        BY <2>4, <3>4, <4>1
    <3> QED
      BY <3>1, <3>2, <3>3, <3>4
  <2> QED
    BY <2>2, <2>5 DEF t, p, f, gap
<1> QED
  BY <1>1, ReaderKept, PTL

\* What the reader knows of a word it got.
LEMMA GotWordFacts ==
    ASSUME ReaderInv, GotWord
    PROVE  /\ src \in Text
           /\ IsWordToken(got.tok, src, got.tok.from)
           /\ got.tok.text \in Text /\ got.tok.text # <<>>
           /\ got.dq \in BOOLEAN
           /\ \E a \in BOOLEAN : got.word = WordOf(got.tok, got.dq, a)
<1>1. got.tok # NoToken /\ got.tok.kind = "Word"
  BY DEF GotWord, NoToken, Tok
<1>2. IsGot(got, src)
  BY <1>1 DEF ReaderInv
<1>3. src \in Text
  BY <1>1 DEF ReaderInv
<1>4. IsWordToken(got.tok, src, got.tok.from)
  BY <1>1, <1>2 DEF IsGot, Covers, TokenAt
<1>5. got.tok.text \in Text /\ got.tok.text # <<>>
  BY <1>3, <1>4, WordTokenText
<1> QED
  BY <1>1, <1>2, <1>3, <1>4, <1>5 DEF IsGot

(***************************************************************************)
(* The parser's cutting of a word loses nothing either: the byte counts    *)
(* that parse_dollar, parse_brace_var and parse_backtick hand back are     *)
(* those of what they read (parser.rs:513-768).                            *)
(***************************************************************************)
THEOREM CuttingLosesNothing == Spec => []PartsSpellTheWord
<1>1. ReaderInv => PartsSpellTheWord
  <2> SUFFICES ASSUME ReaderInv, GotWord, got.word.st = "ok", ~Escaped(got.tok.text, "\n"),
                      ~Escaped(got.tok.text, CloseBrace), Last(got.tok.text) # "\\"
               PROVE  /\ got.word.name \o Source(got.word.parts) = got.tok.text
                      /\ got.word.name # <<>> => /\ IsValidName(Front(got.word.name))
                                                 /\ Last(got.word.name) = "="
                      /\ \A i \in DOMAIN got.word.parts : Spelt(got.word.parts[i])
    BY DEF PartsSpellTheWord
  <2> DEFINE t == got.tok
  <2>1. t.text \in Text /\ got.dq \in BOOLEAN
    BY GotWordFacts
  <2>2. PICK a \in BOOLEAN : got.word = WordOf(t, got.dq, a)
    BY GotWordFacts
  <2>3. Clean(t.text)
    BY DEF Clean
  <2>4. ~Escaped(t.text, CloseBrace)
    OBVIOUS
  <2> HIDE DEF t
  <2> DEFINE x == WordOf(t, got.dq, a)
  <2>5. x.st = "ok" /\ Clean(t.text) /\ ~Escaped(t.text, CloseBrace) =>
            /\ x.name \o Source(x.parts) = t.text
            /\ x.name # <<>> => IsValidName(Front(x.name)) /\ Last(x.name) = "="
            /\ \A i \in DOMAIN x.parts : Spelt(x.parts[i])
    BY <2>1, WordOfFacts
  <2>6. x = got.word
    BY <2>2
  <2> HIDE DEF x
  <2> QED
    BY <2>3, <2>4, <2>5, <2>6 DEF t
<1> QED
  BY <1>1, ReaderKept, PTL

(***************************************************************************)
(* The lexer and the parser agree on plain words, however long and however *)
(* deep their substitutions, and only a character of several bytes inside  *)
(* `$(` makes the cutting of a word panic (lexer.rs:435-436,               *)
(* parser.rs:684-688, 706).                                                *)
(***************************************************************************)
THEOREM LexerAndParserAgree == Spec => []WordsParse
<1>1. ReaderInv => WordsParse
  <2> SUFFICES ASSUME ReaderInv, GotWord
               PROVE  LET w == got.tok.text
                      IN /\ Plain(w) => got.word.st = "ok"
                         /\ got.word.st = "panic" =>
                                \E i, j \in DOMAIN w : /\ i < j
                                                       /\ SubSeq(w, i, i + 1) = <<"$", "(">>
                                                       /\ w[j] \in Wide
    BY DEF WordsParse
  <2> DEFINE t == got.tok
  <2>1. t.text \in Text /\ got.dq \in BOOLEAN /\ src \in Text /\ IsWordToken(t, src, t.from)
    BY GotWordFacts
  <2>2. PICK a \in BOOLEAN : got.word = WordOf(t, got.dq, a)
    BY GotWordFacts
  <2> HIDE DEF t
  <2> DEFINE x == WordOf(t, got.dq, a)
  <2>3. /\ x.st = "panic" => PanicPlace(t.text)
        /\ Wholesome(t.text) => x.st = "ok"
    BY <2>1, WordOfFacts
  <2>4. x = got.word
    BY <2>2
  <2> HIDE DEF x
  <2>5. Plain(t.text) => Wholesome(t.text)
    BY <2>1, PlainWord
  <2>6. Plain(t.text) => got.word.st = "ok"
    BY <2>3, <2>4, <2>5
  <2>7. got.word.st = "panic" => PanicPlace(t.text)
    BY <2>3, <2>4
  <2> QED
    BY <2>6, <2>7 DEF PanicPlace, t
<1> QED
  BY <1>1, ReaderKept, PTL
=============================================================================
