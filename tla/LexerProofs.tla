----------------------------- MODULE LexerProofs -----------------------------
(***************************************************************************)
(* Theorems about Lexer, for every alphabet and texts of any length.       *)
(***************************************************************************)
EXTENDS Lexer, SequenceTheorems, TLAPS

Join == INSTANCE FoldProofs WITH Op <- Joined
Bal == INSTANCE FoldProofs WITH Op <- BalancedTurn
Tic == INSTANCE FoldProofs WITH Op <- BacktickTurn
Wrd == INSTANCE FoldProofs WITH Op <- WordTurn
Dq == INSTANCE FoldProofs WITH Op <- DqTurn

Text == Seq(Char)

USE DEF Tick, Space, Semicolon, OpenBrace, CloseBrace, DQuote, Underscore, End

\* ---------------------------- texts and scans ----------------------------

LEMMA TextFacts ==
    ASSUME NEW s \in Text
    PROVE  /\ Len(s) \in Nat /\ DOMAIN s = 1..Len(s)
           /\ \A i \in 1..Len(s) : s[i] \in Char /\ s[i] # End /\ At(s, i) = s[i]
           /\ \A i \in Int : i \notin 1..Len(s) => At(s, i) = End
           /\ \A i \in Int : At(s, i) # End => i \in 1..Len(s) /\ At(s, i) = s[i]
<1>1. Len(s) \in Nat /\ DOMAIN s = 1..Len(s)
  BY LenProperties DEF Text
<1>2. \A i \in 1..Len(s) : s[i] \in Char
  BY ElementOfSeq DEF Text
<1> QED
  BY <1>1, <1>2 DEF At, Char

\* A scan stops at the first place, if any, from where it starts.
LEMMA MinFacts ==
    ASSUME NEW S, S \subseteq Nat, S # {}
    PROVE  Min(S) \in S /\ \A x \in S : Min(S) <= x
BY Wrd!LeastNatural DEF Min

LEMMA SkipToFacts ==
    ASSUME NEW s \in Text, NEW i \in 1..(Len(s) + 1), NEW stops
    PROVE  LET e == SkipTo(s, i, stops)
           IN /\ e \in i..(Len(s) + 1)
              /\ \A j \in i..(e - 1) : s[j] \notin stops
              /\ e <= Len(s) => s[e] \in stops /\ At(s, e) = s[e]
              /\ e > Len(s) => At(s, e) = End
<1> DEFINE n == Len(s)
           S == {j \in i..(n + 1) : j > n \/ s[j] \in stops}
           e == SkipTo(s, i, stops)
<1>0. /\ n \in Nat /\ DOMAIN s = 1..n
      /\ \A j \in 1..n : At(s, j) = s[j]
      /\ \A j \in Int : j \notin 1..n => At(s, j) = End
  BY TextFacts
<1>1. n + 1 \in S /\ S \subseteq Nat
  BY <1>0
<1>2. e \in S /\ \A x \in S : e <= x
  BY <1>1, MinFacts DEF SkipTo
<1> HIDE DEF e
<1>3. e \in i..(n + 1) /\ (e > n \/ s[e] \in stops)
  BY <1>2
<1>4. \A j \in i..(e - 1) : s[j] \notin stops
  <2> TAKE j \in i..(e - 1)
  <2>1. j \in i..(n + 1) /\ ~(e <= j) /\ j \notin S
    BY <1>0, <1>1, <1>2, <1>3
  <2> QED
    BY <2>1
<1>5. e <= n => At(s, e) = s[e]
  BY <1>0, <1>3
<1>6. e > n => At(s, e) = End
  BY <1>0, <1>3
<1> QED
  BY <1>3, <1>4, <1>5, <1>6 DEF e

LEMMA SkipOverFacts ==
    ASSUME NEW s \in Text, NEW i \in 1..(Len(s) + 1), NEW chars
    PROVE  LET e == SkipOver(s, i, chars)
           IN /\ e \in i..(Len(s) + 1)
              /\ \A j \in i..(e - 1) : s[j] \in chars
              /\ e <= Len(s) => s[e] \notin chars /\ At(s, e) = s[e]
              /\ e > Len(s) => At(s, e) = End
              /\ e = i => i > Len(s) \/ s[i] \notin chars
<1> DEFINE n == Len(s)
           S == {j \in i..(n + 1) : j > n \/ s[j] \notin chars}
           e == SkipOver(s, i, chars)
<1>0. /\ n \in Nat /\ DOMAIN s = 1..n
      /\ \A j \in 1..n : At(s, j) = s[j]
      /\ \A j \in Int : j \notin 1..n => At(s, j) = End
  BY TextFacts
<1>1. n + 1 \in S /\ S \subseteq Nat
  BY <1>0
<1>2. e \in S /\ \A x \in S : e <= x
  BY <1>1, MinFacts DEF SkipOver
<1> HIDE DEF e
<1>3. e \in i..(n + 1) /\ (e > n \/ s[e] \notin chars)
  BY <1>2
<1>4. \A j \in i..(e - 1) : s[j] \in chars
  <2> TAKE j \in i..(e - 1)
  <2>1. j \in i..(n + 1) /\ ~(e <= j) /\ j \notin S
    BY <1>0, <1>1, <1>2, <1>3
  <2> QED
    BY <2>1
<1>5. e <= n => At(s, e) = s[e]
  BY <1>0, <1>3
<1>6. e > n => At(s, e) = End
  BY <1>0, <1>3
<1> QED
  BY <1>3, <1>4, <1>5, <1>6 DEF e

LEMMA EscapeFacts ==
    ASSUME NEW s \in Text, NEW i \in 1..Len(s)
    PROVE  SkipEscape(s, i) = IF i = Len(s) THEN i + 1 ELSE i + 2
<1>1. {i + 2, Len(s) + 1} \subseteq Nat /\ Len(s) \in Nat
  BY TextFacts
<1>2. /\ SkipEscape(s, i) \in {i + 2, Len(s) + 1}
      /\ \A x \in {i + 2, Len(s) + 1} : SkipEscape(s, i) <= x
  BY <1>1, MinFacts DEF SkipEscape
<1> QED
  BY <1>1, <1>2


\* ------------------------------ delimiters -------------------------------

\* What opens and what closes.
Delims(open, close) == \/ open = OpenBrace /\ close = CloseBrace
                       \/ open = "(" /\ close = ")"

\* A search for the closing delimiter.
IsSearch(x, s, open, close) ==
    /\ x \in [at : Nat, depth : Nat, open : {open}, close : {close}]
    /\ x.at \in 1..(Len(s) + 1)

LEMMA BalancedCases ==
    ASSUME NEW s, NEW x, Delims(x.open, x.close), x.depth \in Nat
    PROVE  LET y == BalancedTurn(x, s)
               c == At(s, x.at)
           IN /\ x.depth = 0 \/ c = End => y = x
              /\ x.depth # 0 /\ c = "'" =>
                     y = [x EXCEPT !.at = Min({SkipTo(s, x.at + 1, {"'"}), Len(s)}) + 1]
              /\ x.depth # 0 /\ c = x.open =>
                     y = [x EXCEPT !.at = x.at + 1, !.depth = x.depth + 1]
              /\ x.depth # 0 /\ c = x.close =>
                     y = [x EXCEPT !.at = x.at + 1, !.depth = x.depth - 1]
              /\ x.depth # 0 /\ c \notin {End, "'", x.open, x.close} =>
                     y = [x EXCEPT !.at = x.at + 1]
<1>1. ASSUME x.depth = 0 \/ At(s, x.at) = End
      PROVE  BalancedTurn(x, s) = x
  <2>1. CASE x.depth = 0
    BY <2>1 DEF BalancedTurn
  <2>2. CASE At(s, x.at) = End
    BY <2>2 DEF BalancedTurn, Delims
  <2> QED
    BY <1>1, <2>1, <2>2
<1>2. x.depth # 0 => x.depth > 0
  OBVIOUS
<1>3. ASSUME x.depth # 0, At(s, x.at) = "'"
      PROVE  BalancedTurn(x, s) = [x EXCEPT !.at = Min({SkipTo(s, x.at + 1, {"'"}), Len(s)}) + 1]
  BY <1>2, <1>3 DEF BalancedTurn, Delims
<1>4. ASSUME x.depth # 0, At(s, x.at) = x.open
      PROVE  BalancedTurn(x, s) = [x EXCEPT !.at = x.at + 1, !.depth = x.depth + 1]
  BY <1>2, <1>4 DEF BalancedTurn, Delims
<1>5. ASSUME x.depth # 0, At(s, x.at) = x.close
      PROVE  BalancedTurn(x, s) = [x EXCEPT !.at = x.at + 1, !.depth = x.depth - 1]
  BY <1>2, <1>5 DEF BalancedTurn, Delims
<1>6. ASSUME x.depth # 0, At(s, x.at) \notin {End, "'", x.open, x.close}
      PROVE  BalancedTurn(x, s) = [x EXCEPT !.at = x.at + 1]
  BY <1>2, <1>6 DEF BalancedTurn, Delims
<1> QED
  BY <1>1, <1>3, <1>4, <1>5, <1>6

LEMMA BalancedStep ==
    ASSUME NEW s \in Text, NEW open, NEW close, Delims(open, close),
           NEW x, IsSearch(x, s, open, close)
    PROVE  LET y == BalancedTurn(x, s)
               c == At(s, x.at)
           IN /\ IsSearch(y, s, open, close)
              /\ y.at >= x.at
              /\ x.depth = 0 \/ c = End => y = x
              /\ x.depth # 0 /\ c = "'" => y.at > x.at /\ y.depth = x.depth
              /\ x.depth # 0 /\ c = open => y.at = x.at + 1 /\ y.depth = x.depth + 1
              /\ x.depth # 0 /\ c = close => y.at = x.at + 1 /\ y.depth = x.depth - 1
              /\ x.depth # 0 /\ c \notin {End, "'", open, close} =>
                     y.at = x.at + 1 /\ y.depth = x.depth
<1> DEFINE n == Len(s)
           i == x.at
           c == At(s, i)
           d == x.depth
           y == BalancedTurn(x, s)
           X == [at : Nat, depth : Nat, open : {open}, close : {close}]
<1>1. /\ n \in Nat /\ x \in X /\ i \in 1..(n + 1) /\ d \in Nat
      /\ x.open = open /\ x.close = close /\ i \in Nat
  BY TextFacts DEF IsSearch
<1>2. c # End => i \in 1..n
  BY <1>1, TextFacts
<1>3. open \in {OpenBrace, "("} /\ close \in {CloseBrace, ")"} /\ open # close
  BY DEF Delims
<1>4. /\ d = 0 \/ c = End => y = x
      /\ d # 0 /\ c = "'" => y = [x EXCEPT !.at = Min({SkipTo(s, i + 1, {"'"}), n}) + 1]
      /\ d # 0 /\ c = open => y = [x EXCEPT !.at = i + 1, !.depth = d + 1]
      /\ d # 0 /\ c = close => y = [x EXCEPT !.at = i + 1, !.depth = d - 1]
      /\ d # 0 /\ c \notin {End, "'", open, close} => y = [x EXCEPT !.at = i + 1]
  <2>1. Delims(x.open, x.close) /\ d \in Nat
    BY <1>1
  <2>2. /\ d = 0 \/ c = End => y = x
        /\ d # 0 /\ c = "'" => y = [x EXCEPT !.at = Min({SkipTo(s, i + 1, {"'"}), n}) + 1]
        /\ d # 0 /\ c = x.open => y = [x EXCEPT !.at = i + 1, !.depth = d + 1]
        /\ d # 0 /\ c = x.close => y = [x EXCEPT !.at = i + 1, !.depth = d - 1]
        /\ d # 0 /\ c \notin {End, "'", x.open, x.close} => y = [x EXCEPT !.at = i + 1]
    BY <2>1, BalancedCases
  <2> HIDE DEF y, c, d, n
  <2> QED
    BY <1>1, <2>2
<1> SUFFICES /\ IsSearch(y, s, open, close)
             /\ y.at >= i
             /\ d = 0 \/ c = End => y = x
             /\ d # 0 /\ c = "'" => y.at > i /\ y.depth = d
             /\ d # 0 /\ c = open => y.at = i + 1 /\ y.depth = d + 1
             /\ d # 0 /\ c = close => y.at = i + 1 /\ y.depth = d - 1
             /\ d # 0 /\ c \notin {End, "'", open, close} => y.at = i + 1 /\ y.depth = d
  OBVIOUS
<1>5. \A k, m \in Nat : [x EXCEPT !.at = k, !.depth = m] \in X /\ [x EXCEPT !.at = k] \in X
  BY <1>1
<1>6. IsSearch(y, s, open, close) <=> y \in X /\ y.at \in 1..(n + 1)
  BY DEF IsSearch
<1> HIDE DEF c, y
<1>7. CASE d = 0 \/ c = End
  <2> HIDE DEF d
  <2> QED
    BY <1>1, <1>3, <1>4, <1>6, <1>7
<1>8. CASE d # 0 /\ c = "'"
  <2> DEFINE e == SkipTo(s, i + 1, {"'"})
             m == Min({e, n})
  <2>1. y = [x EXCEPT !.at = m + 1]
    BY <1>4, <1>8
  <2>2. i \in 1..n /\ i + 1 \in 1..(n + 1)
    BY <1>1, <1>2, <1>8
  <2>3. e \in (i + 1)..(n + 1)
    BY <2>2, SkipToFacts
  <2> HIDE DEF e
  <2>4. {e, n} \subseteq Nat
    BY <1>1, <2>2, <2>3
  <2>5. m \in {e, n} /\ \A z \in {e, n} : m <= z
    BY <2>4, MinFacts
  <2> HIDE DEF m
  <2>6. m \in i..n
    BY <1>1, <2>2, <2>3, <2>5
  <2>7. y \in X /\ y.at = m + 1 /\ y.depth = d
    BY <1>1, <2>1, <2>6
  <2> HIDE DEF X, d
  <2> QED
    BY <1>1, <1>3, <1>6, <1>8, <2>2, <2>6, <2>7
<1>9. CASE d # 0 /\ c \notin {End, "'"}
  <2>1. i \in 1..n /\ i + 1 \in 1..(n + 1) /\ i + 1 \in Nat /\ d + 1 \in Nat /\ d - 1 \in Nat
    BY <1>1, <1>2, <1>9
  <2>2. CASE c = open
    <3>1. y \in X /\ y.at = i + 1 /\ y.depth = d + 1
      BY <1>1, <1>4, <1>9, <2>1, <2>2
    <3> HIDE DEF X, d
    <3> QED
      BY <1>1, <1>3, <1>6, <1>9, <2>1, <2>2, <3>1
  <2>3. CASE c = close
    <3>1. y \in X /\ y.at = i + 1 /\ y.depth = d - 1
      BY <1>1, <1>4, <1>9, <2>1, <2>3
    <3> HIDE DEF X, d
    <3> QED
      BY <1>1, <1>3, <1>6, <1>9, <2>1, <2>3, <3>1
  <2>4. CASE c \notin {open, close}
    <3>1. y \in X /\ y.at = i + 1 /\ y.depth = d
      BY <1>1, <1>4, <1>9, <2>1, <2>4
    <3> HIDE DEF X, d
    <3> QED
      BY <1>1, <1>3, <1>6, <1>9, <2>1, <2>4, <3>1
  <2> QED
    BY <2>2, <2>3, <2>4
<1> QED
  BY <1>1, <1>7, <1>8, <1>9

\* The search, turn by turn.
LEMMA BalancedRun ==
    ASSUME NEW s, NEW start
    PROVE  \E o : /\ o[0] = start
                  /\ \A n \in Nat : o[n + 1] = BalancedTurn(o[n], s)
                  /\ Turns(BalancedTurn, start, s) = o[Len(s)]
<1>1. Turns(BalancedTurn, start, s) = Bal!Turned(start, s)
  BY DEF Turns, Bal!Turned
<1>2. \E o : /\ o[0] = start
             /\ \A n \in Nat : o[n + 1] = BalancedTurn(o[n], s)
             /\ Bal!Turned(start, s) = o[Len(s)]
  BY Bal!TurnSteps
<1> QED
  BY <1>1, <1>2

LEMMA BalancedSteps ==
    ASSUME NEW s \in Text, NEW i \in 1..(Len(s) + 1), NEW depth \in Nat,
           NEW open, NEW close, Delims(open, close)
    PROVE  \E o : /\ o[0] = [at |-> i, depth |-> depth, open |-> open, close |-> close]
                  /\ \A n \in Nat : /\ o[n + 1] = BalancedTurn(o[n], s)
                                    /\ IsSearch(o[n], s, open, close)
                                    /\ o[n].at >= i
                  /\ BalancedEnd(s, i, open, close, depth) =
                         IF o[Len(s)].depth = 0 THEN o[Len(s)].at ELSE NoEnd
<1> DEFINE start == [at |-> i, depth |-> depth, open |-> open, close |-> close]
           Good(x) == IsSearch(x, s, open, close) /\ x.at >= i
           end == Turns(BalancedTurn, start, s)
<1>2. BalancedEnd(s, i, open, close, depth) = IF end.depth = 0 THEN end.at ELSE NoEnd
  BY DEF BalancedEnd
<1>3. start.at = i /\ Good(start)
  BY TextFacts DEF IsSearch
<1> HIDE DEF start, end
<1>4. PICK o : /\ o[0] = start
               /\ \A n \in Nat : o[n + 1] = BalancedTurn(o[n], s)
               /\ end = o[Len(s)]
  BY BalancedRun DEF end
<1> DEFINE T == {n \in Nat : Good(o[n])}
<1>5. 0 \in T
  BY <1>3, <1>4
<1>6. ASSUME NEW n \in Nat, n \in T
      PROVE  n + 1 \in T
  <2> DEFINE x == o[n]
  <2>1. IsSearch(x, s, open, close) /\ x.at >= i /\ o[n + 1] = BalancedTurn(x, s)
    BY <1>4, <1>6
  <2> HIDE DEF x
  <2>2. IsSearch(o[n + 1], s, open, close) /\ o[n + 1].at >= x.at
    BY <2>1, BalancedStep
  <2>3. x.at \in Nat /\ o[n + 1].at \in Nat
    BY <2>1, <2>2 DEF IsSearch
  <2> QED
    BY <2>1, <2>2, <2>3
<1> HIDE DEF T
<1>7. \A n \in Nat : n \in T
  BY <1>5, <1>6, Bal!SetInduction
<1> QED
  BY <1>2, <1>4, <1>7 DEF T, start

LEMMA BalancedEndFacts ==
    ASSUME NEW s \in Text, NEW i \in 1..(Len(s) + 1), NEW depth \in Nat,
           NEW open, NEW close, Delims(open, close)
    PROVE  LET e == BalancedEnd(s, i, open, close, depth)
           IN e = NoEnd \/ e \in i..(Len(s) + 1)
<1>1. PICK o : /\ o[0] = [at |-> i, depth |-> depth, open |-> open, close |-> close]
               /\ \A n \in Nat : /\ o[n + 1] = BalancedTurn(o[n], s)
                                 /\ IsSearch(o[n], s, open, close)
                                 /\ o[n].at >= i
               /\ BalancedEnd(s, i, open, close, depth) =
                      IF o[Len(s)].depth = 0 THEN o[Len(s)].at ELSE NoEnd
  BY BalancedSteps
<1>2. Len(s) \in Nat
  BY TextFacts
<1>3. o[Len(s)].at \in 1..(Len(s) + 1) /\ o[Len(s)].at >= i
  BY <1>1, <1>2 DEF IsSearch
<1> DEFINE e == BalancedEnd(s, i, open, close, depth)
<1>4. e = o[Len(s)].at \/ e = NoEnd
  BY <1>1
<1> HIDE DEF e
<1>5. e = NoEnd \/ e \in i..(Len(s) + 1)
  BY <1>2, <1>3, <1>4
<1> QED
  BY <1>5 DEF e

\* ------------------------- characters by their kind ----------------------

LEMMA KindFacts ==
    /\ \A c \in Letters \cup Digits \cup Wide : c \notin Mark /\ c \in Char
    /\ \A c \in Digits : c \notin NameStart /\ c \notin Wide
    /\ \A c \in Letters : c \notin Wide
BY LexerAssumption DEF NameStart, Mark

LEMMA NameFacts ==
    /\ \A c \in NameStart : c \notin {OpenBrace, "("} /\ c \notin Digits \cup SpecialChar
    /\ \A c \in Digits \cup SpecialChar : c \notin {OpenBrace, "("}
    /\ \A c \in NameChar : c \notin {"$", "(", ")", OpenBrace, CloseBrace, "'", "\\", Tick, "="}
<1>1. ASSUME NEW c \in Letters \cup Digits
      PROVE  /\ c \notin {"$", "(", ")", OpenBrace, CloseBrace, "'", "\\", Tick, "=", Underscore}
             /\ c \notin SpecialChar
  <2>1. c \notin Mark
    BY KindFacts
  <2> QED
    BY <2>1 DEF Mark, NotInWord, SpecialChar
<1>2. Underscore \notin SpecialChar
  BY DEF SpecialChar
<1>3. \A c \in SpecialChar : c \notin {OpenBrace, "("}
  BY DEF SpecialChar
<1>4. \A c \in Letters : c \notin Digits
  BY LexerAssumption
<1> QED
  BY <1>1, <1>2, <1>3, <1>4 DEF NameStart, NameChar

LEMMA DollarEndFacts ==
    ASSUME NEW s \in Text, NEW i \in 1..(Len(s) + 1)
    PROVE  /\ DollarEnd(s, i) = NoEnd \/ DollarEnd(s, i) \in i..(Len(s) + 1)
           /\ LET c == At(s, i)
              IN /\ c = OpenBrace =>
                        DollarEnd(s, i) = BalancedEnd(s, i + 1, OpenBrace, CloseBrace, 1)
                 /\ c = "(" => DollarEnd(s, i) =
                        IF At(s, i + 1) = "(" THEN BalancedEnd(s, i + 2, "(", ")", 2)
                                              ELSE BalancedEnd(s, i + 1, "(", ")", 1)
                 /\ c \in NameStart => DollarEnd(s, i) = SkipOver(s, i, NameChar)
                 /\ c \in Digits \cup SpecialChar => DollarEnd(s, i) = i + 1
                 /\ c \notin {OpenBrace, "("} \cup NameStart \cup Digits \cup SpecialChar =>
                        DollarEnd(s, i) = i
<1> DEFINE n == Len(s)
           c == At(s, i)
           e == DollarEnd(s, i)
<1>1. /\ n \in Nat /\ i \in Nat
      /\ c # End => i \in 1..n
      /\ At(s, i + 1) # End => i + 1 \in 1..n
  BY TextFacts
<1>2. ASSUME c = OpenBrace
      PROVE  e = BalancedEnd(s, i + 1, OpenBrace, CloseBrace, 1) /\ (e = NoEnd \/ e \in i..(n + 1))
  <2>1. e = BalancedEnd(s, i + 1, OpenBrace, CloseBrace, 1)
    <3>1. c \notin NameStart /\ c \notin Digits \cup SpecialChar
      BY <1>2, NameFacts
    <3> QED
      BY <1>2, <3>1 DEF DollarEnd
  <2>2. i + 1 \in 1..(n + 1) /\ Delims(OpenBrace, CloseBrace) /\ 1 \in Nat
    BY <1>1, <1>2 DEF Delims
  <2>3. e = NoEnd \/ e \in (i + 1)..(n + 1)
    BY <2>1, <2>2, BalancedEndFacts
  <2> HIDE DEF e
  <2> QED
    BY <1>1, <2>1, <2>3
<1>3. ASSUME c = "("
      PROVE  /\ e = IF At(s, i + 1) = "(" THEN BalancedEnd(s, i + 2, "(", ")", 2)
                                          ELSE BalancedEnd(s, i + 1, "(", ")", 1)
             /\ e = NoEnd \/ e \in i..(n + 1)
  <2>1. e = IF At(s, i + 1) = "(" THEN BalancedEnd(s, i + 2, "(", ")", 2)
                                  ELSE BalancedEnd(s, i + 1, "(", ")", 1)
    <3>1. c \notin NameStart /\ c \notin Digits \cup SpecialChar
      BY <1>3, NameFacts
    <3> QED
      BY <1>3, <3>1 DEF DollarEnd
  <2>2. i + 1 \in 1..(n + 1) /\ Delims("(", ")") /\ 1 \in Nat /\ 2 \in Nat
    BY <1>1, <1>3 DEF Delims
  <2>3. At(s, i + 1) = "(" => i + 2 \in 1..(n + 1)
    BY <1>1
  <2>4. BalancedEnd(s, i + 1, "(", ")", 1) \in {NoEnd} \cup ((i + 1)..(n + 1))
    BY <2>2, BalancedEndFacts
  <2>5. At(s, i + 1) = "(" =>
            BalancedEnd(s, i + 2, "(", ")", 2) \in {NoEnd} \cup ((i + 2)..(n + 1))
    BY <2>2, <2>3, BalancedEndFacts
  <2> HIDE DEF e
  <2> QED
    BY <1>1, <2>1, <2>4, <2>5
<1>4. ASSUME c \in NameStart
      PROVE  e = SkipOver(s, i, NameChar) /\ e \in i..(n + 1)
  <2>1. c \notin {OpenBrace, "("} /\ c \notin Digits \cup SpecialChar
    BY <1>4, NameFacts
  <2>2. e = SkipOver(s, i, NameChar)
    BY <1>4, <2>1 DEF DollarEnd
  <2> QED
    BY <2>2, SkipOverFacts
<1>5. ASSUME c \in Digits \cup SpecialChar
      PROVE  e = i + 1 /\ e \in i..(n + 1)
  <2>1. c \notin {OpenBrace, "("} /\ c \notin NameStart
    BY <1>5, NameFacts
  <2>2. e = i + 1
    BY <1>5, <2>1 DEF DollarEnd
  <2>3. c # End
    BY <1>5, KindFacts DEF SpecialChar, Char
  <2> QED
    BY <1>1, <2>2, <2>3
<1>6. ASSUME c \notin {OpenBrace, "("} \cup NameStart \cup Digits \cup SpecialChar
      PROVE  e = i /\ e \in i..(n + 1)
  <2>1. e = i
    BY <1>6 DEF DollarEnd
  <2> QED
    BY <1>1, <2>1
<1> HIDE DEF e, c
<1> QED
  BY <1>2, <1>3, <1>4, <1>5, <1>6 DEF e, c

\* ------------------------------- the loops -------------------------------

LEMMA BacktickRun ==
    ASSUME NEW s, NEW start
    PROVE  \E o : /\ o[0] = start
                  /\ \A n \in Nat : o[n + 1] = BacktickTurn(o[n], s)
                  /\ Turns(BacktickTurn, start, s) = o[Len(s)]
<1>1. Turns(BacktickTurn, start, s) = Tic!Turned(start, s)
  BY DEF Turns, Tic!Turned
<1>2. \E o : /\ o[0] = start
             /\ \A n \in Nat : o[n + 1] = BacktickTurn(o[n], s)
             /\ Tic!Turned(start, s) = o[Len(s)]
  BY Tic!TurnSteps
<1> QED
  BY <1>1, <1>2

LEMMA WordRun ==
    ASSUME NEW s, NEW start
    PROVE  \E o : /\ o[0] = start
                  /\ \A n \in Nat : o[n + 1] = WordTurn(o[n], s)
                  /\ WordEnd(s, start) = o[Len(s)]
<1>1. WordEnd(s, start) = Wrd!Turned(start, s)
  BY DEF WordEnd, Turns, Wrd!Turned
<1>2. \E o : /\ o[0] = start
             /\ \A n \in Nat : o[n + 1] = WordTurn(o[n], s)
             /\ Wrd!Turned(start, s) = o[Len(s)]
  BY Wrd!TurnSteps
<1> QED
  BY <1>1, <1>2

LEMMA DqRun ==
    ASSUME NEW s, NEW start
    PROVE  \E o : /\ o[0] = start
                  /\ \A n \in Nat : o[n + 1] = DqTurn(o[n], s)
                  /\ Turns(DqTurn, start, s) = o[Len(s)]
<1>1. Turns(DqTurn, start, s) = Dq!Turned(start, s)
  BY DEF Turns, Dq!Turned
<1>2. \E o : /\ o[0] = start
             /\ \A n \in Nat : o[n + 1] = DqTurn(o[n], s)
             /\ Dq!Turned(start, s) = o[Len(s)]
  BY Dq!TurnSteps
<1> QED
  BY <1>1, <1>2

LEMMA BacktickEndFacts ==
    ASSUME NEW s \in Text, NEW i \in 1..(Len(s) + 1)
    PROVE  BacktickEnd(s, i) \in i..(Len(s) + 1)
<1> DEFINE n == Len(s)
           e == Turns(BacktickTurn, i, s)
<1>1. n \in Nat /\ i \in Nat
  BY TextFacts
<1>2. PICK o : /\ o[0] = i
               /\ \A k \in Nat : o[k + 1] = BacktickTurn(o[k], s)
               /\ e = o[n]
  BY BacktickRun
<1> DEFINE T == {k \in Nat : o[k] \in i..(n + 1)}
<1>3. 0 \in T
  BY <1>1, <1>2
<1>4. ASSUME NEW k \in Nat, k \in T
      PROVE  k + 1 \in T
  <2> DEFINE j == o[k]
             y == BacktickTurn(j, s)
  <2>1. j \in i..(n + 1) /\ o[k + 1] = y
    BY <1>2, <1>4
  <2>2. j \in 1..(n + 1) /\ (At(s, j) # End => j \in 1..n)
    <3>1. j \in 1..(n + 1) /\ j \in Int
      BY <1>1, <2>1
    <3> HIDE DEF j
    <3> QED
      BY <3>1, TextFacts
  <2> HIDE DEF j
  <2>3. CASE At(s, j) \in {End, "\n", Tick}
    BY <2>1, <2>3 DEF BacktickTurn
  <2>4. CASE At(s, j) = "\\"
    <3>1. y = SkipEscape(s, j)
      BY <2>4 DEF BacktickTurn
    <3>2. y \in {j + 1, j + 2} /\ (y = j + 2 => j # n)
      BY <2>2, <2>4, <3>1, EscapeFacts
    <3> HIDE DEF y
    <3> QED
      BY <1>1, <2>1, <2>2, <2>4, <3>2
  <2>5. CASE At(s, j) \notin {End, "\n", Tick, "\\"}
    <3>1. y = j + 1
      BY <2>5 DEF BacktickTurn
    <3> HIDE DEF y
    <3> QED
      BY <1>1, <2>1, <2>2, <2>5, <3>1
  <2> QED
    BY <2>3, <2>4, <2>5
<1> HIDE DEF T
<1>5. n \in T
  BY <1>1, <1>3, <1>4, Tic!SetInduction
<1>6. e \in i..(n + 1)
  BY <1>2, <1>5 DEF T
<1> HIDE DEF e
<1>7. At(s, e) = Tick => e \in 1..n
  BY <1>1, <1>6, TextFacts
<1>8. BacktickEnd(s, i) = IF At(s, e) = Tick THEN e + 1 ELSE e
  BY DEF BacktickEnd, e
<1> QED
  BY <1>1, <1>6, <1>7, <1>8

\* Where the lexer is in a word: a turn goes on to a later place, or ends the word.
IsPlace(i, s) == i = NoEnd \/ i \in 1..(Len(s) + 1)

LEMMA WordStep ==
    ASSUME NEW s \in Text, NEW i, IsPlace(i, s)
    PROVE  LET c == At(s, i)
               y == WordTurn(i, s)
           IN /\ IsPlace(y, s)
              /\ y = NoEnd \/ (i # NoEnd /\ y >= i)
              /\ c \in NotInWord \cup {End} => y = i
              /\ c \notin NotInWord \cup {End} => y = NoEnd \/ y > i
              /\ c = "\\" => y = SkipEscape(s, i)
              /\ c = "$" => y = DollarEnd(s, i + 1)
              /\ c = Tick => y = BacktickEnd(s, i + 1)
              /\ c \notin NotInWord \cup {End, "\\", "$", Tick} => y = i + 1
<1> DEFINE n == Len(s)
           c == At(s, i)
           y == WordTurn(i, s)
<1>1. n \in Nat /\ i \in Nat /\ (i # NoEnd => i \in 1..(n + 1)) /\ (c # End => i \in 1..n)
  BY TextFacts DEF IsPlace, NoEnd
<1>2. NoEnd = 0
  BY DEF NoEnd
<1>3. {"\\", "$", Tick} \cap (NotInWord \cup {End}) = {}
  BY DEF NotInWord
<1>4. CASE c \in NotInWord \cup {End}
  <2>1. y = i
    <3>1. c # "\\" /\ c # "$" /\ c # Tick
      BY <1>3, <1>4
    <3> HIDE DEF c
    <3> QED
      BY <1>4, <3>1 DEF WordTurn, c
  <2>2. i = NoEnd => c = End
    BY <1>1, <1>2, TextFacts
  <2> HIDE DEF y, c
  <2> QED
    BY <1>1, <1>2, <1>3, <1>4, <2>1 DEF IsPlace, c, y
<1>5. CASE c = "\\"
  <2>1. y = SkipEscape(s, i)
    BY <1>3, <1>5 DEF WordTurn
  <2>2. i \in 1..n /\ y \in {i + 1, i + 2} /\ (y = i + 2 => i # n)
    BY <1>1, <1>5, <2>1, EscapeFacts
  <2>3. y \in 1..(n + 1) /\ y > i
    <3> HIDE DEF y
    <3> QED
      BY <1>1, <2>2
  <2> HIDE DEF y, c
  <2> QED
    BY <1>1, <1>2, <1>3, <1>5, <2>1, <2>3 DEF IsPlace, c, y
<1>6. CASE c = "$"
  <2>1. y = DollarEnd(s, i + 1)
    BY <1>3, <1>6 DEF WordTurn
  <2>2. i \in 1..n /\ i + 1 \in 1..(n + 1)
    BY <1>1, <1>6
  <2>3. y = NoEnd \/ y \in (i + 1)..(n + 1)
    BY <2>1, <2>2, DollarEndFacts
  <2> HIDE DEF y, c
  <2>4. y = NoEnd \/ (y \in 1..(n + 1) /\ y > i)
    BY <1>1, <2>2, <2>3
  <2> QED
    BY <1>1, <1>2, <1>3, <1>6, <2>1, <2>4 DEF IsPlace, c, y
<1>7. CASE c = Tick
  <2>1. y = BacktickEnd(s, i + 1)
    BY <1>3, <1>7 DEF WordTurn
  <2>2. i \in 1..n /\ i + 1 \in 1..(n + 1)
    BY <1>1, <1>7
  <2>3. y \in (i + 1)..(n + 1)
    BY <2>1, <2>2, BacktickEndFacts
  <2> HIDE DEF y, c
  <2>4. y \in 1..(n + 1) /\ y > i
    BY <1>1, <2>2, <2>3
  <2> QED
    BY <1>1, <1>2, <1>3, <1>7, <2>1, <2>4 DEF IsPlace, c, y
<1>8. CASE c \notin NotInWord \cup {End, "\\", "$", Tick}
  <2>1. y = i + 1
    BY <1>8 DEF WordTurn
  <2>2. i \in 1..n
    BY <1>1, <1>8
  <2> HIDE DEF y, c
  <2> QED
    BY <1>1, <1>2, <1>8, <2>1, <2>2 DEF IsPlace, c, y
<1> QED
  BY <1>4, <1>5, <1>6, <1>7, <1>8

LEMMA WordEndFacts ==
    ASSUME NEW s \in Text, NEW i \in 1..Len(s), s[i] \notin NotInWord
    PROVE  WordEnd(s, i) = NoEnd \/ WordEnd(s, i) \in (i + 1)..(Len(s) + 1)
<1> DEFINE n == Len(s)
           Later(j) == j = NoEnd \/ j \in (i + 1)..(n + 1)
<1>1. n \in Nat /\ i \in Nat /\ NoEnd = 0 /\ At(s, i) = s[i] /\ s[i] # End
  BY TextFacts DEF NoEnd
<1>2. PICK o : /\ o[0] = i
               /\ \A k \in Nat : o[k + 1] = WordTurn(o[k], s)
               /\ WordEnd(s, i) = o[n]
  BY WordRun
<1> DEFINE T == {k \in Nat : Later(o[k + 1])}
<1>3. 0 \in T
  <2> DEFINE y == WordTurn(i, s)
  <2>1. IsPlace(i, s) /\ At(s, i) \notin NotInWord \cup {End}
    BY <1>1 DEF IsPlace
  <2>2. IsPlace(y, s) /\ (y = NoEnd \/ y > i)
    BY <2>1, WordStep
  <2>3. o[0 + 1] = y
    BY <1>2
  <2> HIDE DEF y
  <2> QED
    BY <1>1, <2>2, <2>3 DEF IsPlace
<1>4. ASSUME NEW k \in Nat, k \in T
      PROVE  k + 1 \in T
  <2> DEFINE j == o[k + 1]
             y == WordTurn(j, s)
  <2>1. Later(j) /\ o[(k + 1) + 1] = y
    BY <1>2, <1>4
  <2> HIDE DEF j
  <2>2. IsPlace(j, s)
    BY <1>1, <2>1 DEF IsPlace
  <2>3. IsPlace(y, s) /\ (y = NoEnd \/ (j # NoEnd /\ y >= j))
    BY <2>2, WordStep
  <2> HIDE DEF y
  <2>4. Later(y)
    BY <1>1, <2>1, <2>3 DEF IsPlace
  <2> QED
    BY <2>1, <2>4
<1> HIDE DEF T
<1>5. n - 1 \in T
  <2>1. n - 1 \in Nat
    BY <1>1
  <2> QED
    BY <1>3, <1>4, <2>1, Wrd!SetInduction
<1>6. (n - 1) + 1 = n
  BY <1>1
<1> QED
  BY <1>2, <1>5, <1>6 DEF T

\* In double quotes a run of text ends at a character that a backslash does not quote.
DqStop == {DQuote, "$", Tick}
OnlyQuotedStops(s, i, e) == \A j \in i..(e - 1) : s[j] \in DqStop => j > i /\ s[j - 1] = "\\"

LEMMA DqTextFacts ==
    ASSUME NEW s \in Text, NEW i \in 1..Len(s), s[i] \notin DqStop
    PROVE  LET e == Turns(DqTurn, i, s)
           IN e \in (i + 1)..(Len(s) + 1) /\ OnlyQuotedStops(s, i, e)
<1> DEFINE n == Len(s)
           e == Turns(DqTurn, i, s)
           Good(j) == j \in i..(n + 1) /\ OnlyQuotedStops(s, i, j)
<1>1. /\ n \in Nat /\ i \in Nat
      /\ \A j \in 1..n : At(s, j) = s[j] /\ s[j] # End
      /\ \A j \in Int : j \notin 1..n => At(s, j) = End
  BY TextFacts
<1>2. PICK o : /\ o[0] = i
               /\ \A k \in Nat : o[k + 1] = DqTurn(o[k], s)
               /\ e = o[n]
  BY DqRun
<1>3. Good(i)
  BY <1>1 DEF OnlyQuotedStops
<1>4. ASSUME NEW j, Good(j)
      PROVE  LET y == DqTurn(j, s)
             IN Good(y) /\ y >= j /\ (At(s, j) \notin DqStop \cup {End} => y > j)
  <2> DEFINE c == At(s, j)
             y == DqTurn(j, s)
  <2>1. /\ j \in i..(n + 1) /\ OnlyQuotedStops(s, i, j) /\ (c # End => j \in 1..n)
        /\ j \in Nat /\ j \in 1..(n + 1)
    BY <1>1, <1>4
  <2>2. CASE c \in DqStop \cup {End}
    <3>1. c \in {End, DQuote, "$", Tick}
      BY <2>2 DEF DqStop
    <3>2. y = j
      BY <3>1 DEF DqTurn
    <3> HIDE DEF y, c
    <3> QED
      BY <1>4, <2>1, <2>2, <3>2 DEF c, y
  <2>3. CASE c = "\\"
    <3>1. y = SkipEscape(s, j) /\ c \notin DqStop /\ c # End
      BY <2>3 DEF DqTurn, DqStop
    <3>2. j \in 1..n /\ s[j] = "\\"
      BY <1>1, <2>1, <3>1, <2>3
    <3>3. y = IF j = n THEN j + 1 ELSE j + 2
      BY <3>1, <3>2, EscapeFacts
    <3> HIDE DEF y
    <3>4. y \in i..(n + 1) /\ y > j
      BY <1>1, <2>1, <3>2, <3>3
    <3>5. OnlyQuotedStops(s, i, y)
      <4> SUFFICES ASSUME NEW k \in i..(y - 1), s[k] \in DqStop
                   PROVE  k > i /\ s[k - 1] = "\\"
        BY DEF OnlyQuotedStops
      <4>1. k \in i..(j - 1) \/ k = j \/ k = j + 1
        BY <1>1, <2>1, <3>2, <3>3
      <4>2. CASE k \in i..(j - 1)
        BY <2>1, <4>2 DEF OnlyQuotedStops
      <4>3. CASE k = j
        BY <3>2, <4>3 DEF DqStop
      <4>4. CASE k = j + 1
        BY <2>1, <1>1, <3>2, <4>4
      <4> QED
        BY <4>1, <4>2, <4>3, <4>4
    <3> QED
      BY <1>1, <2>1, <3>4, <3>5 DEF y
  <2>4. CASE c \notin DqStop \cup {End, "\\"}
    <3>1. y = j + 1
      BY <2>4 DEF DqTurn, DqStop
    <3>2. j \in 1..n /\ s[j] = c
      BY <1>1, <2>1, <2>4
    <3> HIDE DEF y
    <3>3. OnlyQuotedStops(s, i, y)
      <4> SUFFICES ASSUME NEW k \in i..(y - 1), s[k] \in DqStop
                   PROVE  k > i /\ s[k - 1] = "\\"
        BY DEF OnlyQuotedStops
      <4>1. k \in i..(j - 1) \/ k = j
        BY <1>1, <2>1, <3>1, <3>2
      <4> QED
        BY <2>1, <2>4, <3>2, <4>1 DEF OnlyQuotedStops
    <3> QED
      BY <1>1, <2>1, <3>1, <3>2, <3>3 DEF y
  <2> QED
    BY <2>2, <2>3, <2>4
<1> HIDE DEF Good
<1> DEFINE T == {k \in Nat : Good(o[k + 1]) /\ o[k + 1] > i}
<1>5. 0 \in T
  <2>1. At(s, i) \notin DqStop \cup {End}
    BY <1>1
  <2> QED
    BY <1>2, <1>3, <1>4, <2>1
<1>6. ASSUME NEW k \in Nat, k \in T
      PROVE  k + 1 \in T
  <2>1. Good(o[k + 1]) /\ o[k + 1] > i /\ o[(k + 1) + 1] = DqTurn(o[k + 1], s)
    BY <1>2, <1>6
  <2>2. Good(o[(k + 1) + 1]) /\ o[(k + 1) + 1] >= o[k + 1]
    BY <1>4, <2>1
  <2>3. o[(k + 1) + 1] > i
    BY <1>1, <2>1, <2>2 DEF Good
  <2> QED
    BY <2>2, <2>3
<1> HIDE DEF T
<1>7. n - 1 \in Nat /\ (n - 1) + 1 = n
  BY <1>1
<1>8. n - 1 \in T
  BY <1>5, <1>6, <1>7, Dq!SetInduction
<1> QED
  BY <1>1, <1>2, <1>7, <1>8 DEF T, Good

\* ----------------------------- parts of a text ---------------------------

LEMMA PieceFacts ==
    ASSUME NEW s \in Text, NEW m \in Int, NEW n \in Int, 1 <= m, n <= Len(s)
    PROVE  /\ SubSeq(s, m, n) \in Text
           /\ Len(SubSeq(s, m, n)) = IF m <= n THEN n - m + 1 ELSE 0
           /\ DOMAIN SubSeq(s, m, n) = 1..(n - m + 1)
           /\ \A i \in 1..(n - m + 1) : SubSeq(s, m, n)[i] = s[m + i - 1]
<1>1. Len(s) \in Nat /\ \A i \in 1..Len(s) : s[i] \in Char
  BY TextFacts
<1>2. \A i \in m..n : s[i] \in Char
  <2> TAKE i \in m..n
  <2>1. i \in 1..Len(s)
    BY <1>1
  <2> QED
    BY <1>1, <2>1
<1> DEFINE t == SubSeq(s, m, n)
<1>3. /\ t \in Seq(Char)
      /\ Len(t) = IF m <= n THEN n - m + 1 ELSE 0
      /\ \A i \in 1..(n - m + 1) : t[i] = s[m + i - 1]
  BY <1>2, SubSeqProperties
<1>4. DOMAIN t = 1..Len(t)
  BY <1>3, LenProperties
<1> HIDE DEF t
<1>5. DOMAIN t = 1..(n - m + 1)
  BY <1>3, <1>4
<1> QED
  BY <1>3, <1>5 DEF Text, t

\* A piece of what is left of a text is a piece of the text.
LEMMA RestFacts ==
    ASSUME NEW s \in Text, NEW i \in 1..(Len(s) + 1)
    PROVE  LET rest == SubSeq(s, i, Len(s))
           IN /\ rest \in Text /\ Len(rest) = Len(s) - i + 1
              /\ \A j \in 1..Len(rest) : rest[j] = s[i + j - 1]
              /\ \A k \in i..(Len(s) + 1) : SubSeq(rest, 1, k - i) = SubSeq(s, i, k - 1)
              /\ \A k \in i..(Len(s) + 1) :
                     SubSeq(rest, k - i + 1, Len(rest)) = SubSeq(s, k, Len(s))
<1> DEFINE n == Len(s)
           rest == SubSeq(s, i, n)
<1>1. n \in Nat /\ i \in Int /\ n \in Int /\ 1 <= i /\ n <= n /\ i <= n + 1
  BY TextFacts
<1>2. /\ rest \in Text
      /\ Len(rest) = n - i + 1
      /\ \A j \in 1..Len(rest) : rest[j] = s[i + j - 1]
  <2>1. /\ rest \in Text
        /\ Len(rest) = IF i <= n THEN n - i + 1 ELSE 0
        /\ \A j \in 1..(n - i + 1) : rest[j] = s[i + j - 1]
    BY <1>1, PieceFacts
  <2> HIDE DEF rest, n
  <2> QED
    BY <1>1, <2>1
<1> HIDE DEF rest
<1>3. ASSUME NEW k \in i..(n + 1)
      PROVE  SubSeq(rest, 1, k - i) = SubSeq(s, i, k - 1)
  <2> DEFINE a == SubSeq(rest, 1, k - i)
             b == SubSeq(s, i, k - 1)
             m == k - i
  <2>1. m \in Int /\ 1 \in Int /\ 1 <= 1 /\ m <= Len(rest) /\ k - 1 \in Int /\ k - 1 <= n
    BY <1>1, <1>2
  <2>2. /\ a \in Text /\ Len(a) = IF 1 <= m THEN m - 1 + 1 ELSE 0
        /\ \A j \in 1..(m - 1 + 1) : a[j] = rest[1 + j - 1]
    BY <1>2, <2>1, PieceFacts
  <2>3. /\ b \in Text /\ Len(b) = IF i <= k - 1 THEN (k - 1) - i + 1 ELSE 0
        /\ \A j \in 1..((k - 1) - i + 1) : b[j] = s[i + j - 1]
    BY <1>1, <2>1, PieceFacts
  <2> HIDE DEF a, b
  <2>4. Len(a) = Len(b)
    BY <1>1, <2>2, <2>3
  <2>5. \A j \in 1..Len(a) : a[j] = b[j]
    <3> TAKE j \in 1..Len(a)
    <3>1. /\ j \in 1..(m - 1 + 1) /\ j \in 1..((k - 1) - i + 1) /\ 1 + j - 1 = j
          /\ j \in 1..Len(rest)
      BY <1>1, <1>2, <2>1, <2>2
    <3> QED
      BY <1>2, <2>2, <2>3, <3>1
  <2> QED
    BY <2>2, <2>3, <2>4, <2>5, SeqEqual DEF Text, a, b
<1>4. ASSUME NEW k \in i..(n + 1)
      PROVE  SubSeq(rest, k - i + 1, Len(rest)) = SubSeq(s, k, n)
  <2> DEFINE l == Len(rest)
             h == k - i + 1
             a == SubSeq(rest, h, l)
             b == SubSeq(s, k, n)
  <2>1. h \in Int /\ l \in Int /\ 1 <= h /\ l <= l /\ k \in Int /\ 1 <= k /\ l = n - i + 1
    BY <1>1, <1>2
  <2> HIDE DEF l
  <2>2. /\ a \in Text /\ Len(a) = IF h <= l THEN l - h + 1 ELSE 0
        /\ \A j \in 1..(l - h + 1) : a[j] = rest[h + j - 1]
    BY <1>2, <2>1, PieceFacts DEF l
  <2>3. /\ b \in Text /\ Len(b) = IF k <= n THEN n - k + 1 ELSE 0
        /\ \A j \in 1..(n - k + 1) : b[j] = s[k + j - 1]
    BY <1>1, <2>1, PieceFacts
  <2> HIDE DEF a, b
  <2>4. Len(a) = Len(b)
    BY <1>1, <2>1, <2>2, <2>3
  <2>5. \A j \in 1..Len(a) : a[j] = b[j]
    <3> TAKE j \in 1..Len(a)
    <3>1. /\ j \in 1..(l - h + 1) /\ j \in 1..(n - k + 1) /\ h + j - 1 \in 1..Len(rest)
          /\ i + (h + j - 1) - 1 = k + j - 1
      BY <1>1, <1>2, <2>1, <2>2
    <3> QED
      BY <1>2, <2>2, <2>3, <3>1
  <2> QED
    BY <2>2, <2>3, <2>4, <2>5, SeqEqual DEF Text, a, b, l
<1> QED
  BY <1>2, <1>3, <1>4 DEF rest

LEMMA PairFacts ==
    ASSUME NEW a, NEW b
    PROVE  <<a>> \o <<b>> = <<a, b>>
<1>1. <<a>> \in Seq({a, b}) /\ <<b>> \in Seq({a, b}) /\ <<a, b>> \in Seq({a, b})
  OBVIOUS
<1>2. Len(<<a>>) = 1 /\ Len(<<b>>) = 1 /\ Len(<<a, b>>) = 2
  OBVIOUS
<1> DEFINE c == <<a>> \o <<b>>
<1>3. c \in Seq({a, b}) /\ Len(c) = 2 /\ c[1] = a /\ c[2] = b
  BY <1>1, <1>2, ConcatProperties
<1> HIDE DEF c
<1>4. Len(c) = Len(<<a, b>>) /\ \A i \in 1..Len(c) : c[i] = <<a, b>>[i]
  BY <1>2, <1>3
<1>5. c = <<a, b>>
  BY <1>1, <1>3, <1>4, SeqEqual
<1> QED
  BY <1>5 DEF c

LEMMA PrefixFacts ==
    ASSUME NEW s \in Text, NEW a, NEW b
    PROVE  /\ IsPrefix(<<a>>, s) <=> (1 <= Len(s) /\ s[1] = a)
           /\ IsPrefix(<<a, b>>, s) <=> (2 <= Len(s) /\ s[1] = a /\ s[2] = b)
<1>1. Len(s) \in Nat
  BY TextFacts
<1>2. Len(<<a>>) = 1 /\ Len(<<a, b>>) = 2
  OBVIOUS
<1>3. ASSUME 1 <= Len(s)
      PROVE  SubSeq(s, 1, 1) = <<s[1]>>
  <2>1. SubSeq(s, 1, 1) = <<s[1]>> \o SubSeq(s, 2, 1)
    <3>1. s \in Seq(Char) /\ 1 \in 1..Len(s) /\ 1 \in 1..Len(s) /\ 1 + 1 = 2
      BY <1>1, <1>3 DEF Text
    <3> QED
      BY <3>1, SubSeqRecursiveFirst
  <2>2. SubSeq(s, 2, 1) = <<>>
    BY SubSeqEmpty
  <2>3. <<s[1]>> \in Seq({s[1]})
    OBVIOUS
  <2> QED
    BY <2>1, <2>2, <2>3, ConcatEmptySeq
<1>4. ASSUME 2 <= Len(s)
      PROVE  SubSeq(s, 1, 2) = <<s[1], s[2]>>
  <2>1. SubSeq(s, 1, 2) = SubSeq(s, 1, 1) \o <<s[2]>>
    <3>1. s \in Seq(Char) /\ 1 \in 1..Len(s) /\ 2 \in 1..Len(s) /\ 2 - 1 = 1
      BY <1>1, <1>4 DEF Text
    <3> QED
      BY <3>1, SubSeqRecursiveSecond
  <2>2. SubSeq(s, 1, 1) = <<s[1]>>
    BY <1>1, <1>3, <1>4
  <2>3. <<s[1]>> \o <<s[2]>> = <<s[1], s[2]>>
    BY PairFacts
  <2> QED
    BY <2>1, <2>2, <2>3
<1>5. SubSeq(<<a>>, 1, 1) = <<a>> /\ SubSeq(<<a, b>>, 1, 2) = <<a, b>>
  <2>1. <<a>> \in Seq({a, b}) /\ <<a, b>> \in Seq({a, b})
    OBVIOUS
  <2> QED
    BY <1>2, <2>1, SubSeqFull
<1>6. <<s[1]>> = <<a>> <=> s[1] = a
  OBVIOUS
<1>7. <<s[1], s[2]>> = <<a, b>> <=> s[1] = a /\ s[2] = b
  OBVIOUS
<1> QED
  BY <1>1, <1>2, <1>3, <1>4, <1>5, <1>6, <1>7 DEF IsPrefix

LEMMA OperatorFacts ==
    /\ \A k \in DOMAIN Longer : /\ k \in DOMAIN Spelling /\ Spelling[k] = Longer[k]
                                /\ Longer[k] = <<Longer[k][1], Longer[k][2]>>
                                /\ Longer[k][2] # End
    /\ \A k \in DOMAIN Single : k \in DOMAIN Spelling /\ Spelling[k] = <<Single[k]>>
    /\ DOMAIN Spelling = DOMAIN Longer \cup DOMAIN Single \cup {"HereDoc"}
    /\ Spelling["HereDoc"] = <<"<", "<">>
    /\ DOMAIN Spelling \cap {"Word", "SingleQuote", "DQText", "DoubleQuoteClose",
                              "Error", "Eof", "None"} = {}
    /\ Range(Single) = (NotInWord \ {Space, "\t", "'"}) \cup {"!"}
<1>1. DOMAIN Longer = {"LessGreater", "LessAmp", "GreaterGreater", "GreaterPipe", "GreaterAmp",
                        "SemiSemi", "AndAnd", "OrOr"}
  BY DEF Longer
<1>2. DOMAIN Single = {"Less", "Greater", "Semi", "Amp", "Pipe", "LParen", "RParen", "LBrace",
                        "RBrace", "Bang", "Newline", "DoubleQuoteOpen"}
  BY DEF Single
<1>3. DOMAIN Spelling = DOMAIN Longer \cup DOMAIN Single \cup {"HereDoc"}
  BY <1>1, <1>2 DEF Spelling
<1>4. Spelling["HereDoc"] = <<"<", "<">>
  BY DEF Spelling
<1>5. ASSUME NEW k \in DOMAIN Longer
      PROVE  /\ Spelling[k] = Longer[k]
             /\ Longer[k] = <<Longer[k][1], Longer[k][2]>>
             /\ Longer[k][2] # End
  BY <1>1 DEF Longer, Spelling
<1>6. ASSUME NEW k \in DOMAIN Single
      PROVE  Spelling[k] = <<Single[k]>>
  BY <1>2 DEF Single, Spelling
<1>7. DOMAIN Spelling \cap {"Word", "SingleQuote", "DQText", "DoubleQuoteClose", "Error",
                            "Eof", "None"} = {}
  BY <1>1, <1>2, <1>3
<1>8. Range(Single) = (NotInWord \ {Space, "\t", "'"}) \cup {"!"}
  <2>1. Range(Single) = {"<", ">", Semicolon, "&", "|", "(", ")", OpenBrace, CloseBrace, "!",
                         "\n", DQuote}
    BY <1>2 DEF Single, Range
  <2> QED
    BY <2>1 DEF NotInWord
<1> QED
  BY <1>3, <1>4, <1>5, <1>6, <1>7, <1>8

\* ------------------------------- one token -------------------------------

LEMMA SpellsCases ==
    ASSUME NEW t, NEW s
    PROVE  LET whole == SubSeq(s, 1, t.to - t.from)
               op == SubSeq(s, Len(t.fd) + 1, Len(s))
           IN /\ t.kind = "Word" => (Spells(t, s) <=> whole = t.text)
              /\ t.kind = "SingleQuote" =>
                     (Spells(t, s) <=> whole = <<"'">> \o t.text \o <<"'">>)
              /\ t.kind = "DQText" =>
                     (Spells(t, s) <=>
                        \A i \in DOMAIN whole : whole[i] \in DqStop =>
                            i \in {j \in 2..Len(whole) : whole[j - 1] = "\\"})
              /\ t.kind = "DoubleQuoteClose" => (Spells(t, s) <=> whole = <<DQuote>>)
              /\ t.kind \in {"Error", "Eof"} => Spells(t, s)
              /\ t.kind \in DOMAIN Spelling =>
                     (Spells(t, s) <=>
                        /\ IsPrefix(Spelling[t.kind], op)
                        /\ \A k \in DOMAIN Spelling : IsPrefix(Spelling[k], op) =>
                               Len(Spelling[k]) <= Len(Spelling[t.kind])
                        /\ \/ t.kind = "HereDoc"
                           \/ Len(whole) - Len(s) + Len(op) = Len(Spelling[t.kind]))
<1> DEFINE whole == SubSeq(s, 1, t.to - t.from)
           op == SubSeq(s, Len(t.fd) + 1, Len(s))
<1>1. t.kind = "Word" => (Spells(t, s) <=> whole = t.text)
  BY DEF Spells
<1>2. t.kind = "SingleQuote" => (Spells(t, s) <=> whole = <<"'">> \o t.text \o <<"'">>)
  BY DEF Spells
<1>3. t.kind = "DQText" =>
          (Spells(t, s) <=>
             \A i \in DOMAIN whole : whole[i] \in DqStop =>
                 i \in {j \in 2..Len(whole) : whole[j - 1] = "\\"})
  BY DEF Spells, DqStop
<1>4. t.kind = "DoubleQuoteClose" => (Spells(t, s) <=> whole = <<DQuote>>)
  BY DEF Spells
<1>5. t.kind \in {"Error", "Eof"} => Spells(t, s)
  BY DEF Spells
<1>6. ASSUME t.kind \in DOMAIN Spelling
      PROVE  Spells(t, s) <=>
               /\ IsPrefix(Spelling[t.kind], op)
               /\ \A k \in DOMAIN Spelling : IsPrefix(Spelling[k], op) =>
                      Len(Spelling[k]) <= Len(Spelling[t.kind])
               /\ \/ t.kind = "HereDoc"
                  \/ Len(whole) - Len(s) + Len(op) = Len(Spelling[t.kind])
  <2>1. t.kind \notin {"Word", "SingleQuote", "DQText", "DoubleQuoteClose", "Error", "Eof"}
    BY <1>6, OperatorFacts
  <2> QED
    BY <2>1 DEF Spells
<1> QED
  BY <1>1, <1>2, <1>3, <1>4, <1>5, <1>6

\* t is the word at i.
IsWordToken(t, s, i) ==
    /\ i \in 1..Len(s) /\ s[i] \notin NotInWord
    /\ WordEnd(s, i) \in (i + 1)..(Len(s) + 1)
    /\ t = TextTok("Word", i, WordEnd(s, i), SubSeq(s, i, WordEnd(s, i) - 1))

\* The token t starts at i, is not empty unless nothing comes after it, and says
\* what is written there.
TokenAt(t, s, i) ==
    /\ t.from = i
    /\ t.to \in i..(Len(s) + 1)
    /\ t.kind \notin {"Error", "Eof"} => t.to > i
    /\ Spells(t, SubSeq(s, i, Len(s)))
    /\ t.kind = "Word" => IsWordToken(t, s, i)

LEMMA BadAt ==
    ASSUME NEW s \in Text, NEW i \in 1..(Len(s) + 1)
    PROVE  TokenAt(Bad(i), s, i)
<1>1. Len(s) \in Nat
  BY TextFacts
<1>2. Bad(i).from = i /\ Bad(i).to = i /\ Bad(i).kind = "Error"
  BY DEF Bad, Tok
<1>3. Spells(Bad(i), SubSeq(s, i, Len(s)))
  BY <1>2, SpellsCases
<1> QED
  BY <1>1, <1>2, <1>3 DEF TokenAt

LEMMA WordAt ==
    ASSUME NEW s \in Text, NEW i \in 1..Len(s), s[i] \notin NotInWord
    PROVE  /\ TokenAt(LexWord(s, i), s, i)
           /\ LET e == WordEnd(s, i)
              IN \/ e = NoEnd /\ LexWord(s, i) = Bad(i)
                 \/ /\ e \in (i + 1)..(Len(s) + 1)
                    /\ LexWord(s, i) = TextTok("Word", i, e, SubSeq(s, i, e - 1))
<1> DEFINE n == Len(s)
           e == WordEnd(s, i)
           t == LexWord(s, i)
<1>1. n \in Nat /\ i \in 1..(n + 1) /\ NoEnd = 0
  BY TextFacts DEF NoEnd
<1>2. e = NoEnd \/ e \in (i + 1)..(n + 1)
  BY WordEndFacts
<1>3. CASE e = NoEnd
  <2>1. t = Bad(i)
    BY <1>3 DEF LexWord
  <2> QED
    BY <1>1, <1>3, <2>1, BadAt
<1>4. CASE e \in (i + 1)..(n + 1)
  <2>1. t = TextTok("Word", i, e, SubSeq(s, i, e - 1))
    BY <1>1, <1>4 DEF LexWord
  <2> HIDE DEF e, t
  <2>2. t.from = i /\ t.to = e /\ t.kind = "Word" /\ t.text = SubSeq(s, i, e - 1)
    BY <2>1 DEF TextTok
  <2>3. SubSeq(SubSeq(s, i, n), 1, e - i) = SubSeq(s, i, e - 1)
    <3>1. e \in i..(n + 1)
      BY <1>1, <1>4
    <3> QED
      BY <1>1, <3>1, RestFacts
  <2>4. Spells(t, SubSeq(s, i, n))
    BY <2>2, <2>3, SpellsCases
  <2>5. e \in i..(n + 1) /\ e > i
    BY <1>1, <1>4
  <2>6. IsWordToken(t, s, i)
    BY <1>4, <2>1 DEF IsWordToken, e
  <2>7. TokenAt(t, s, i)
    BY <2>2, <2>4, <2>5, <2>6 DEF TokenAt
  <2> QED
    BY <1>4, <2>1, <2>7 DEF t, e
<1> QED
  BY <1>2, <1>3, <1>4

LEMMA SingleQuoteAt ==
    ASSUME NEW s \in Text, NEW i \in 1..Len(s), s[i] = "'"
    PROVE  TokenAt(LexSingleQuote(s, i), s, i)
<1> DEFINE n == Len(s)
           e == SkipTo(s, i + 1, {"'"})
           t == LexSingleQuote(s, i)
<1>1. n \in Nat /\ i \in 1..(n + 1) /\ i + 1 \in 1..(n + 1)
  BY TextFacts
<1>2. e \in (i + 1)..(n + 1) /\ (e <= n => s[e] = "'")
  BY <1>1, SkipToFacts
<1>3. t = IF e > n THEN Bad(i) ELSE TextTok("SingleQuote", i, e + 1, SubSeq(s, i + 1, e - 1))
  BY DEF LexSingleQuote
<1> HIDE DEF e, t
<1>4. CASE e > n
  <2>1. t = Bad(i)
    BY <1>3, <1>4
  <2> QED
    BY <1>1, <2>1, BadAt DEF t
<1>5. CASE ~(e > n)
  <2>1. e \in (i + 1)..n /\ s[e] = "'" /\ e + 1 \in i..(n + 1) /\ e + 1 > i
    BY <1>1, <1>2, <1>5
  <2>2. /\ t.from = i /\ t.to = e + 1 /\ t.kind = "SingleQuote"
        /\ t.text = SubSeq(s, i + 1, e - 1)
    BY <1>3, <1>5 DEF TextTok
  <2>3. SubSeq(SubSeq(s, i, n), 1, (e + 1) - i) = SubSeq(s, i, (e + 1) - 1)
    BY <1>1, <2>1, RestFacts
  <2>4. SubSeq(s, i, e) = <<"'">> \o SubSeq(s, i + 1, e - 1) \o <<"'">>
    <3> DEFINE a == SubSeq(s, i + 1, e - 1)
    <3>1. /\ s \in Seq(Char) /\ e \in i..n /\ i + 1 \in 1..n /\ e \in (i + 1)..n /\ e \in 1..n
      BY <1>1, <2>1 DEF Text
    <3>2. SubSeq(s, i, e) = <<s[i]>> \o SubSeq(s, i + 1, e)
      BY <3>1, SubSeqRecursiveFirst
    <3>3. SubSeq(s, i + 1, e) = a \o <<s[e]>>
      BY <3>1, SubSeqRecursiveSecond
    <3>4. a \in Seq(Char)
      <4>1. i + 1 \in Int /\ e - 1 \in Int /\ 1 <= i + 1 /\ e - 1 <= n
        BY <1>1, <2>1
      <4> QED
        BY <4>1, PieceFacts DEF Text
    <3> HIDE DEF a
    <3>5. <<s[i]>> \in Seq(Char) /\ <<s[e]>> \in Seq(Char)
      <4>1. s[i] \in Char /\ s[e] \in Char
        BY <3>1, TextFacts
      <4> QED
        BY <4>1
    <3>6. (<<s[i]>> \o a) \o <<s[e]>> = <<s[i]>> \o (a \o <<s[e]>>)
      BY <3>4, <3>5, ConcatAssociative
    <3> QED
      BY <2>1, <3>2, <3>3, <3>6 DEF a
  <2>5. (e + 1) - 1 = e
    BY <2>1
  <2>6. Spells(t, SubSeq(s, i, n))
    <3>1. SubSeq(SubSeq(s, i, n), 1, t.to - t.from) = <<"'">> \o t.text \o <<"'">>
      BY <2>2, <2>3, <2>4, <2>5
    <3> QED
      BY <2>2, <3>1, SpellsCases
  <2> QED
    BY <2>1, <2>2, <2>6 DEF TokenAt, t
<1> QED
  BY <1>4, <1>5

LEMMA DqFragmentAt ==
    ASSUME NEW s \in Text, NEW i \in 1..(Len(s) + 1)
    PROVE  TokenAt(LexDqFragment(s, i), s, i)
<1> DEFINE n == Len(s)
           c == At(s, i)
           e == Turns(DqTurn, i, s)
           t == LexDqFragment(s, i)
<1>1. /\ n \in Nat
      /\ c # End => i \in 1..n /\ s[i] = c
  BY TextFacts
<1>2. CASE c = End
  <2>1. t = Bad(i)
    BY <1>2 DEF LexDqFragment
  <2> QED
    BY <2>1, BadAt
<1>3. CASE c = DQuote
  <2>1. t = Tok("DoubleQuoteClose", i, i + 1)
    BY <1>3 DEF LexDqFragment
  <2> HIDE DEF t
  <2>2. t.from = i /\ t.to = i + 1 /\ t.kind = "DoubleQuoteClose"
    BY <2>1 DEF Tok
  <2>3. i \in 1..n /\ s[i] = DQuote
    BY <1>1, <1>3
  <2>4. i + 1 \in i..(n + 1) /\ i + 1 > i /\ (i + 1) - 1 = i
    BY <1>1, <2>3
  <2>5. SubSeq(SubSeq(s, i, n), 1, (i + 1) - i) = SubSeq(s, i, (i + 1) - 1)
    BY <2>4, RestFacts
  <2>6. SubSeq(s, i, i) = <<s[i]>>
    <3>1. s \in Seq(Char) /\ i \in i..n /\ i \in Int /\ i < i + 1
      BY <1>1, <2>3 DEF Text
    <3>2. SubSeq(s, i, i) = <<s[i]>> \o SubSeq(s, i + 1, i)
      BY <2>3, <3>1, SubSeqRecursiveFirst
    <3>3. SubSeq(s, i + 1, i) = <<>>
      BY <3>1, SubSeqEmpty
    <3>4. <<s[i]>> \in Seq({s[i]})
      OBVIOUS
    <3> QED
      BY <3>2, <3>3, <3>4, ConcatEmptySeq
  <2>7. SubSeq(SubSeq(s, i, n), 1, t.to - t.from) = <<DQuote>>
    BY <2>2, <2>3, <2>4, <2>5, <2>6
  <2>8. Spells(t, SubSeq(s, i, n))
    BY <2>2, <2>7, SpellsCases
  <2>9. TokenAt(t, s, i)
    BY <2>2, <2>4, <2>8 DEF TokenAt
  <2> QED
    BY <2>9 DEF t
<1>4. CASE c \in {"$", Tick}
  <2>1. t = LexWord(s, i)
    BY <1>4 DEF LexDqFragment
  <2>2. i \in 1..n /\ s[i] \notin NotInWord
    BY <1>1, <1>4 DEF NotInWord
  <2> QED
    BY <2>1, <2>2, WordAt
<1>5. CASE c \notin {End, DQuote, "$", Tick}
  <2>1. t = TextTok("DQText", i, e, UnescapeDq(SubSeq(s, i, e - 1)))
    BY <1>5 DEF LexDqFragment
  <2>2. i \in 1..n /\ s[i] \notin DqStop
    BY <1>1, <1>5 DEF DqStop
  <2>3. e \in (i + 1)..(n + 1) /\ OnlyQuotedStops(s, i, e)
    BY <2>2, DqTextFacts
  <2> HIDE DEF e, t
  <2>4. t.from = i /\ t.to = e /\ t.kind = "DQText"
    BY <2>1 DEF TextTok
  <2>5. e \in i..(n + 1) /\ e > i /\ e \in Int /\ i \in Int
    BY <1>1, <2>3
  <2> DEFINE whole == SubSeq(SubSeq(s, i, n), 1, t.to - t.from)
  <2>6. whole = SubSeq(s, i, e - 1)
    BY <2>4, <2>5, RestFacts
  <2>7. /\ DOMAIN whole = 1..((e - 1) - i + 1) /\ Len(whole) = (e - 1) - i + 1
        /\ \A j \in 1..((e - 1) - i + 1) : whole[j] = s[i + j - 1]
    <3>1. i \in Int /\ e - 1 \in Int /\ 1 <= i /\ e - 1 <= n /\ i <= e - 1
      BY <1>1, <2>5
    <3> HIDE DEF whole, n
    <3> QED
      BY <2>6, <3>1, PieceFacts DEF n
  <2> HIDE DEF whole
  <2>8. ASSUME NEW j \in DOMAIN whole, whole[j] \in DqStop
        PROVE  j \in {k \in 2..Len(whole) : whole[k - 1] = "\\"}
    <3>1. j \in 1..((e - 1) - i + 1) /\ whole[j] = s[i + j - 1] /\ i + j - 1 \in i..(e - 1)
      BY <2>5, <2>7
    <3>2. i + j - 1 > i /\ s[(i + j - 1) - 1] = "\\"
      BY <2>3, <2>8, <3>1 DEF OnlyQuotedStops
    <3>3. j - 1 \in 1..((e - 1) - i + 1) /\ i + (j - 1) - 1 = (i + j - 1) - 1 /\ j \in 2..Len(whole)
      BY <2>5, <2>7, <3>1, <3>2
    <3>4. whole[j - 1] = s[i + (j - 1) - 1]
      BY <2>7, <3>3
    <3> QED
      BY <3>2, <3>3, <3>4
  <2>9. Spells(t, SubSeq(s, i, n))
    BY <2>4, <2>8, SpellsCases DEF whole
  <2>10. TokenAt(t, s, i)
    BY <2>4, <2>5, <2>9 DEF TokenAt
  <2> QED
    BY <2>10 DEF t
<1> QED
  BY <1>2, <1>3, <1>4, <1>5

\* An operator of `size` characters at i, the longest one there, after the digits from
\* `from` on.
LEMMA OperatorSpells ==
    ASSUME NEW s \in Text, NEW i \in 1..Len(s), NEW from \in 1..i, NEW t,
           t.from = from, t.fd = SubSeq(s, from, i - 1), t.kind \in DOMAIN Spelling,
           IsPrefix(Spelling[t.kind], SubSeq(s, i, Len(s))),
           \A k \in DOMAIN Spelling : IsPrefix(Spelling[k], SubSeq(s, i, Len(s))) =>
               Len(Spelling[k]) <= Len(Spelling[t.kind]),
           t.to \in (i + 1)..(Len(s) + 1),
           t.kind = "HereDoc" \/ t.to = i + Len(Spelling[t.kind])
    PROVE  TokenAt(t, s, from)
<1> DEFINE n == Len(s)
           rest == SubSeq(s, from, n)
           op == SubSeq(rest, Len(t.fd) + 1, Len(rest))
           whole == SubSeq(rest, 1, t.to - t.from)
<1>1. n \in Nat /\ i \in from..(n + 1) /\ from \in 1..(n + 1) /\ t.to \in from..(n + 1)
  BY TextFacts
<1>2. Len(t.fd) = i - from
  <2>1. from \in Int /\ i - 1 \in Int /\ 1 <= from /\ i - 1 <= n
    BY <1>1
  <2>2. Len(SubSeq(s, from, i - 1)) = IF from <= i - 1 THEN (i - 1) - from + 1 ELSE 0
    BY <2>1, PieceFacts
  <2> DEFINE l == Len(t.fd)
  <2>3. l = IF from <= i - 1 THEN (i - 1) - from + 1 ELSE 0
    BY <2>2
  <2> HIDE DEF l, n
  <2>4. l = i - from
    BY <1>1, <2>3
  <2> QED
    BY <2>4 DEF l
<1>3. op = SubSeq(s, i, n)
  <2>1. SubSeq(rest, i - from + 1, Len(rest)) = SubSeq(s, i, n)
    BY <1>1, RestFacts
  <2> QED
    BY <1>2, <2>1
<1>4. Len(op) = n - i + 1 /\ Len(rest) = n - from + 1
  <2>1. i \in 1..(n + 1)
    BY <1>1
  <2> QED
    BY <1>1, <1>3, <2>1, RestFacts
<1>5. Len(whole) = t.to - from
  <2>1. whole = SubSeq(s, from, t.to - 1)
    BY <1>1, RestFacts
  <2>2. from \in Int /\ t.to - 1 \in Int /\ 1 <= from /\ t.to - 1 <= n /\ from <= t.to - 1
    BY <1>1
  <2>3. Len(SubSeq(s, from, t.to - 1)) = IF from <= t.to - 1 THEN (t.to - 1) - from + 1 ELSE 0
    BY <2>2, PieceFacts
  <2> HIDE DEF whole, n
  <2> QED
    BY <2>1, <2>2, <2>3
<1>6. t.kind = "HereDoc" \/ Len(whole) - Len(rest) + Len(op) = Len(Spelling[t.kind])
  <2> DEFINE l == Len(Spelling[t.kind])
  <2>1. CASE t.kind = "HereDoc"
    BY <2>1
  <2>2. CASE t.kind # "HereDoc"
    <3>1. t.to = i + l
      BY <2>2
    <3>2. l \in Nat
      BY OperatorFacts
    <3> HIDE DEF l, whole, rest, op, n
    <3>3. Len(whole) - Len(rest) + Len(op) = l
      BY <1>1, <1>4, <1>5, <3>1, <3>2
    <3> QED
      BY <3>3 DEF l
  <2> QED
    BY <2>1, <2>2
<1> HIDE DEF op, whole, rest
<1>7. Spells(t, rest)
  BY <1>3, <1>6, SpellsCases DEF op, whole
<1>8. t.kind # "Word"
  BY OperatorFacts
<1> QED
  BY <1>1, <1>7, <1>8 DEF TokenAt, rest

\* What is spelt at a place: an operator of two characters or of one.
LEMMA SpeltThere ==
    ASSUME NEW s \in Text, NEW i \in 1..Len(s)
    PROVE  LET op == SubSeq(s, i, Len(s))
           IN /\ \A k \in DOMAIN Longer : /\ Len(Spelling[k]) = 2
                                          /\ IsPrefix(Spelling[k], op) <=>
                                                 Longer[k] = <<At(s, i), At(s, i + 1)>>
              /\ \A k \in DOMAIN Single : /\ Len(Spelling[k]) = 1
                                          /\ IsPrefix(Spelling[k], op) <=> Single[k] = At(s, i)
              /\ /\ Len(Spelling["HereDoc"]) = 2
                 /\ IsPrefix(Spelling["HereDoc"], op) <=> At(s, i) = "<" /\ At(s, i + 1) = "<"
<1> DEFINE n == Len(s)
           op == SubSeq(s, i, n)
<1>1. /\ n \in Nat /\ i \in 1..(n + 1) /\ At(s, i) = s[i]
      /\ i + 1 <= n => At(s, i + 1) = s[i + 1]
      /\ i + 1 > n => At(s, i + 1) = End
  BY TextFacts
<1>2. op \in Text /\ Len(op) = n - i + 1 /\ \A j \in 1..Len(op) : op[j] = s[i + j - 1]
  BY <1>1, RestFacts
<1> HIDE DEF op
<1>3. 1 <= Len(op) /\ op[1] = At(s, i)
  BY <1>1, <1>2
<1>4. 2 <= Len(op) <=> i + 1 <= n
  BY <1>1, <1>2
<1>5. 2 <= Len(op) => op[2] = At(s, i + 1)
  BY <1>1, <1>2, <1>4
<1>6. ASSUME NEW a, NEW b, b # End
      PROVE  IsPrefix(<<a, b>>, op) <=> a = At(s, i) /\ b = At(s, i + 1)
  <2>1. IsPrefix(<<a, b>>, op) <=> (2 <= Len(op) /\ op[1] = a /\ op[2] = b)
    BY <1>2, PrefixFacts
  <2>2. b = At(s, i + 1) => i + 1 <= n
    BY <1>1, <1>6
  <2> QED
    BY <1>3, <1>4, <1>5, <2>1, <2>2
<1>7. ASSUME NEW k \in DOMAIN Longer
      PROVE  /\ Len(Spelling[k]) = 2
             /\ IsPrefix(Spelling[k], op) <=> Longer[k] = <<At(s, i), At(s, i + 1)>>
  <2> DEFINE a == Longer[k][1]
             b == Longer[k][2]
  <2>1. Spelling[k] = <<a, b>> /\ Longer[k] = <<a, b>> /\ b # End
    BY OperatorFacts
  <2> HIDE DEF a, b
  <2>2. IsPrefix(<<a, b>>, op) <=> a = At(s, i) /\ b = At(s, i + 1)
    BY <1>6, <2>1
  <2> QED
    BY <2>1, <2>2
<1>8. ASSUME NEW k \in DOMAIN Single
      PROVE  Len(Spelling[k]) = 1 /\ (IsPrefix(Spelling[k], op) <=> Single[k] = At(s, i))
  <2>1. Spelling[k] = <<Single[k]>>
    BY OperatorFacts
  <2>2. IsPrefix(<<Single[k]>>, op) <=> (1 <= Len(op) /\ op[1] = Single[k])
    BY <1>2, PrefixFacts
  <2> QED
    BY <1>3, <2>1, <2>2
<1>9. /\ Len(Spelling["HereDoc"]) = 2
      /\ IsPrefix(Spelling["HereDoc"], op) <=> At(s, i) = "<" /\ At(s, i + 1) = "<"
  <2>1. Spelling["HereDoc"] = <<"<", "<">>
    BY OperatorFacts
  <2>2. IsPrefix(<<"<", "<">>, op) <=> "<" = At(s, i) /\ "<" = At(s, i + 1)
    BY <1>6
  <2> QED
    BY <2>1, <2>2
<1> QED
  BY <1>7, <1>8, <1>9 DEF op

LEMMA AtMostTwo ==
    ASSUME NEW a, NEW b, a = 1 \/ a = 2, b = 2 \/ a = b
    PROVE  a <= b
OBVIOUS

LEMMA OperatorAt ==
    ASSUME NEW s \in Text, NEW i \in 1..Len(s), NEW from \in 1..i,
           At(s, i) \in Range(Single), ~(At(s, i) = "<" /\ At(s, i + 1) = "<")
    PROVE  TokenAt(LexOperator(s, from, i), s, from)
<1> DEFINE n == Len(s)
           op == SubSeq(s, i, n)
           Fits(k) == IsPrefix(Spelling[k], op)
           two == {k \in DOMAIN Longer : Longer[k] = <<At(s, i), At(s, i + 1)>>}
           one == {k \in DOMAIN Single : Single[k] = At(s, i)}
           t == LexOperator(s, from, i)
           Op(kind, len) == [kind |-> kind, from |-> from, to |-> i + len,
                             fd |-> SubSeq(s, from, i - 1)]
<1>1. n \in Nat /\ i \in Nat /\ i <= n /\ (At(s, i + 1) # End => i + 1 <= n)
  BY TextFacts
<1>2. /\ \A k \in DOMAIN Longer : Len(Spelling[k]) = 2 /\ (Fits(k) <=> k \in two)
      /\ \A k \in DOMAIN Single : Len(Spelling[k]) = 1 /\ (Fits(k) <=> k \in one)
      /\ ~Fits("HereDoc")
  BY SpeltThere
<1>3. DOMAIN Spelling = DOMAIN Longer \cup DOMAIN Single \cup {"HereDoc"}
  BY OperatorFacts
<1>4. t = IF two # {} THEN Op(CHOOSE k \in two : TRUE, 2) ELSE Op(CHOOSE k \in one : TRUE, 1)
  BY DEF LexOperator
<1>9. \A k \in DOMAIN Spelling : Len(Spelling[k]) = 1 \/ Len(Spelling[k]) = 2
  <2>1. Len(Spelling["HereDoc"]) = 2
    BY SpeltThere
  <2> QED
    BY <1>2, <1>3, <2>1
<1> HIDE DEF Fits, t
<1>6. CASE two # {}
  <2> DEFINE k == CHOOSE x \in two : TRUE
  <2>1. k \in two
    BY <1>6
  <2>2. t = Op(k, 2)
    BY <1>4, <1>6
  <2> HIDE DEF k
  <2>3. k \in DOMAIN Longer /\ Longer[k] = <<At(s, i), At(s, i + 1)>>
    BY <2>1
  <2>4. i + 1 <= n
    <3>1. Longer[k][2] # End
      BY <2>3, OperatorFacts
    <3> QED
      BY <1>1, <2>3, <3>1
  <2> HIDE DEF two, one
  <2>5. t.kind = k /\ t.from = from /\ t.to = i + 2 /\ t.fd = SubSeq(s, from, i - 1)
    BY <2>2
  <2>6. Fits(k) /\ Len(Spelling[k]) = 2 /\ k \in DOMAIN Spelling
    BY <1>2, <1>3, <2>1, <2>3
  <2>7. \A x \in DOMAIN Spelling : Fits(x) => Len(Spelling[x]) <= Len(Spelling[k])
    BY <1>9, <2>6, AtMostTwo
  <2>8. t.to \in (i + 1)..(n + 1) /\ t.to = i + Len(Spelling[t.kind])
    BY <1>1, <2>4, <2>5, <2>6
  <2> QED
    BY <2>5, <2>6, <2>7, <2>8, OperatorSpells DEF Fits, t
<1>7. CASE two = {}
  <2> DEFINE k == CHOOSE x \in one : TRUE
  <2>1. k \in one
    BY DEF Range
  <2>2. t = Op(k, 1)
    BY <1>4, <1>7
  <2> HIDE DEF k
  <2>3. k \in DOMAIN Single
    BY <2>1
  <2> HIDE DEF two, one
  <2>5. t.kind = k /\ t.from = from /\ t.to = i + 1 /\ t.fd = SubSeq(s, from, i - 1)
    BY <2>2
  <2>6. Fits(k) /\ Len(Spelling[k]) = 1 /\ k \in DOMAIN Spelling
    BY <1>2, <1>3, <2>1, <2>3
  <2>7. \A x \in DOMAIN Spelling : Fits(x) => Len(Spelling[x]) <= Len(Spelling[k])
    <3>1. \A x \in DOMAIN Spelling : Fits(x) => Len(Spelling[x]) = 1
      BY <1>2, <1>3, <1>7
    <3> QED
      BY <2>6, <3>1, AtMostTwo
  <2>8. t.to \in (i + 1)..(n + 1) /\ t.to = i + Len(Spelling[t.kind])
    BY <1>1, <2>5, <2>6
  <2> QED
    BY <2>5, <2>6, <2>7, <2>8, OperatorSpells DEF Fits, t
<1> QED
  BY <1>6, <1>7

LEMMA HereDocAt ==
    ASSUME NEW s \in Text, NEW i \in 1..Len(s), NEW from \in 1..i,
           At(s, i) = "<", At(s, i + 1) = "<",
           NEW j \in (i + 2)..(Len(s) + 1), NEW strip
    PROVE  TokenAt(LexHeredocDelimiter(s, from, i, j, strip), s, from)
<1> DEFINE n == Len(s)
           quote == At(s, j)
           quoted == quote \in {"'", DQuote}
           start == IF quoted THEN j + 1 ELSE j
           stops == IF quoted THEN {"\n", quote} ELSE {"\n", Space, "\t"}
           e == SkipTo(s, start, stops)
           t == LexHeredocDelimiter(s, from, i, j, strip)
           bad == (quoted /\ At(s, e) # quote) \/ (~quoted /\ e = start)
<1>1. /\ n \in Nat /\ from \in 1..(n + 1) /\ j \in Nat /\ i \in Nat /\ i <= n
      /\ quote # End => j \in 1..n
  BY TextFacts
<1>2. start \in j..(n + 1) /\ start \in 1..(n + 1)
  BY <1>1
<1>3. e \in start..(n + 1) /\ (e <= n \/ At(s, e) = End)
  <2> HIDE DEF start, stops
  <2> QED
    BY <1>1, <1>2, SkipToFacts
<1>4. t = IF bad THEN Bad(from)
          ELSE [kind |-> "HereDoc", from |-> from, to |-> IF quoted THEN e + 1 ELSE e,
                fd |-> SubSeq(s, from, i - 1), delim |-> SubSeq(s, start, e - 1),
                quoted |-> quoted, strip |-> strip]
  BY DEF LexHeredocDelimiter
<1>5. quoted /\ ~bad => e <= n
  <2>1. quote = End => ~quoted
    OBVIOUS
  <2> HIDE DEF e, start, stops
  <2> QED
    BY <1>3, <2>1
<1> HIDE DEF t, e, bad, start, quoted, stops
<1>6. CASE bad
  <2>1. t = Bad(from)
    BY <1>4, <1>6
  <2>2. TokenAt(t, s, from)
    BY <1>1, <2>1, BadAt
  <2> QED
    BY <2>2 DEF t
<1>7. CASE ~bad
  <2>1. /\ t.kind = "HereDoc" /\ t.from = from /\ t.fd = SubSeq(s, from, i - 1)
        /\ t.to = IF quoted THEN e + 1 ELSE e
    BY <1>4, <1>7
  <2>2. t.to \in (i + 1)..(n + 1)
    BY <1>1, <1>2, <1>3, <1>5, <1>7, <2>1
  <2>3. t.kind \in DOMAIN Spelling
    BY <2>1, OperatorFacts
  <2>4. /\ Len(Spelling["HereDoc"]) = 2
        /\ IsPrefix(Spelling["HereDoc"], SubSeq(s, i, n))
        /\ \A k \in DOMAIN Longer : Len(Spelling[k]) = 2
        /\ \A k \in DOMAIN Single : Len(Spelling[k]) = 1
    BY SpeltThere
  <2>5. \A k \in DOMAIN Spelling : Len(Spelling[k]) <= Len(Spelling[t.kind])
    <3>1. DOMAIN Spelling = DOMAIN Longer \cup DOMAIN Single \cup {"HereDoc"}
      BY OperatorFacts
    <3>2. \A k \in DOMAIN Spelling : Len(Spelling[k]) = 1 \/ Len(Spelling[k]) = 2
      BY <2>4, <3>1
    <3> QED
      BY <2>1, <2>4, <3>2, AtMostTwo
  <2>6. TokenAt(t, s, from)
    BY <2>1, <2>2, <2>3, <2>4, <2>5, OperatorSpells
  <2> QED
    BY <2>6 DEF t
<1> QED
  BY <1>6, <1>7

LEMMA RedirectAt ==
    ASSUME NEW s \in Text, NEW i \in 1..Len(s), At(s, SkipOver(s, i, Digits)) \in {"<", ">"}
    PROVE  TokenAt(LexRedirect(s, i), s, i)
<1> DEFINE n == Len(s)
           op == SkipOver(s, i, Digits)
           strip == At(s, op + 2) = "-"
           k == IF strip THEN op + 3 ELSE op + 2
           delim == SkipOver(s, k, {Space, "\t"})
<1>1. n \in Nat /\ i \in 1..(n + 1) /\ i \in Nat
  BY TextFacts
<1>2. op \in i..(n + 1) /\ At(s, op) \in {"<", ">"} /\ At(s, op) # End
  BY <1>1, SkipOverFacts
<1>3. LexRedirect(s, i) = IF At(s, op) = "<" /\ At(s, op + 1) = "<"
                          THEN LexHeredocDelimiter(s, i, op, delim, strip)
                          ELSE LexOperator(s, i, op)
  BY DEF LexRedirect
<1> HIDE DEF op
<1>4. op \in 1..n /\ i \in 1..op
  <2>1. op \in Int
    BY <1>1, <1>2
  <2>2. op \in 1..n
    BY <1>2, <2>1, TextFacts
  <2> QED
    BY <1>1, <1>2, <2>2
<1>5. CASE At(s, op) = "<" /\ At(s, op + 1) = "<"
  <2>1. op + 1 \in 1..n
    BY <1>1, <1>4, <1>5, TextFacts
  <2>2. strip => op + 2 \in 1..n
    BY <1>1, <1>4, TextFacts
  <2>3. k \in (op + 2)..(n + 1) /\ k \in 1..(n + 1)
    BY <1>1, <1>4, <2>1, <2>2
  <2> HIDE DEF k
  <2>4. delim \in k..(n + 1)
    BY <2>3, SkipOverFacts
  <2> HIDE DEF delim, strip
  <2>5. delim \in (op + 2)..(n + 1)
    BY <1>1, <1>4, <2>3, <2>4
  <2> QED
    BY <1>3, <1>4, <1>5, <2>5, HereDocAt
<1>6. CASE ~(At(s, op) = "<" /\ At(s, op + 1) = "<")
  <2>1. At(s, op) \in Range(Single)
    BY <1>2, OperatorFacts DEF NotInWord
  <2> QED
    BY <1>3, <1>4, <1>6, <2>1, OperatorAt
<1> QED
  BY <1>5, <1>6

\* ------------------------------ the next token ---------------------------

\* What may stand between two tokens.
Between(s, p, j) ==
    /\ s[j] # "\n"
    /\ s[j] \in {Space, "\t"} \/ \E k \in p..j : s[k] = "#"

LEMMA TokenStartFacts ==
    ASSUME NEW s \in Text, NEW p \in 1..(Len(s) + 1)
    PROVE  LET i == TokenStart(s, p)
           IN /\ i \in p..(Len(s) + 1)
              /\ At(s, i) \notin {Space, "\t", "#"}
              /\ \A j \in p..(i - 1) : Between(s, p, j)
<1> DEFINE n == Len(s)
           k == SkipOver(s, p, {Space, "\t"})
           e == SkipTo(s, k, {"\n"})
           i == TokenStart(s, p)
<1>1. n \in Nat /\ p \in Nat
  BY TextFacts
<1>2. /\ k \in p..(n + 1)
      /\ \A j \in p..(k - 1) : s[j] \in {Space, "\t"}
      /\ k <= n => s[k] \notin {Space, "\t"} /\ At(s, k) = s[k]
      /\ k > n => At(s, k) = End
  BY SkipOverFacts
<1>3. i = IF At(s, k) = "#" THEN e ELSE k
  BY DEF TokenStart
<1> HIDE DEF k, i
<1>4. k \in 1..(n + 1)
  BY <1>1, <1>2
<1>5. At(s, k) \notin {Space, "\t"}
  BY <1>1, <1>2
<1>6. \A j \in p..(k - 1) : Between(s, p, j)
  BY <1>2 DEF Between
<1>7. CASE At(s, k) # "#"
  BY <1>2, <1>3, <1>5, <1>6, <1>7 DEF i
<1>8. CASE At(s, k) = "#"
  <2>1. /\ e \in k..(n + 1)
        /\ \A j \in k..(e - 1) : s[j] \notin {"\n"}
        /\ e <= n => s[e] \in {"\n"} /\ At(s, e) = s[e]
        /\ e > n => At(s, e) = End
    BY <1>4, SkipToFacts
  <2> HIDE DEF e
  <2>2. i = e /\ s[k] = "#"
    BY <1>1, <1>2, <1>3, <1>8
  <2>3. At(s, i) \notin {Space, "\t", "#"} /\ i \in p..(n + 1)
    BY <1>1, <1>2, <2>1, <2>2
  <2>4. ASSUME NEW j \in p..(i - 1)
        PROVE  Between(s, p, j)
    <3>1. j \in p..(k - 1) \/ (j \in k..(e - 1) /\ k \in p..j)
      BY <1>1, <1>2, <2>1, <2>2
    <3>2. CASE j \in p..(k - 1)
      BY <1>6, <3>2
    <3>3. CASE j \in k..(e - 1) /\ k \in p..j
      BY <2>1, <2>2, <3>3 DEF Between
    <3> QED
      BY <3>1, <3>2, <3>3
  <2> QED
    BY <2>3, <2>4 DEF i
<1> QED
  BY <1>7, <1>8

\* The token t is read from p on.
Covers(s, p, dq, t) ==
    /\ t.from \in p..(Len(s) + 1)
    /\ TokenAt(t, s, t.from)
    /\ t.kind \notin {"Error", "Eof"} => t.to > p
    /\ \A j \in p..(t.from - 1) : ~dq /\ Between(s, p, j)

(***************************************************************************)
(* Asked for a token anywhere, in quotes or out, next_token moves on, has  *)
(* skipped only blanks and a comment, and says what is written where the   *)
(* token starts (lexer.rs:171-286).                                        *)
(***************************************************************************)
THEOREM NextTokenCovers ==
    ASSUME NEW s \in Text, NEW p \in 1..(Len(s) + 1), NEW dq \in BOOLEAN
    PROVE  Covers(s, p, dq, NextToken(s, p, dq))
<1> DEFINE n == Len(s)
           i == TokenStart(s, p)
           c == At(s, i)
           t == NextToken(s, p, dq)
<1>1. n \in Nat /\ p \in Nat
  BY TextFacts
<1>2. CASE dq
  <2>1. t = LexDqFragment(s, p)
    BY <1>2 DEF NextToken
  <2>2. TokenAt(t, s, p)
    BY <2>1, DqFragmentAt
  <2> HIDE DEF t
  <2>3. t.from = p /\ p..(p - 1) = {}
    BY <1>1, <2>2 DEF TokenAt
  <2>4. Covers(s, p, dq, t)
    BY <1>1, <2>2, <2>3 DEF Covers, TokenAt
  <2> QED
    BY <2>4 DEF t
<1>3. CASE ~dq
  <2>1. /\ i \in p..(n + 1) /\ c \notin {Space, "\t", "#"}
        /\ \A j \in p..(i - 1) : Between(s, p, j)
    BY TokenStartFacts
  <2>2. i \in 1..(n + 1) /\ i \in Nat
    BY <1>1, <2>1
  <2> HIDE DEF i
  <2>3. c # End => i \in 1..n /\ s[i] = c
    BY <2>2, TextFacts
  <2>4. TokenAt(t, s, i)
    <3>1. CASE c = End
      <4>1. ~IsFdRedirect(s, i)
        BY <3>1, KindFacts DEF IsFdRedirect, Char
      <4>2. c \notin {"<", ">", "'"} /\ c \notin Range(Single)
        BY <3>1, OperatorFacts DEF NotInWord
      <4>3. t = Tok("Eof", i, i)
        BY <1>3, <3>1, <4>1, <4>2 DEF NextToken, i
      <4> HIDE DEF t
      <4>4. t.from = i /\ t.to = i /\ t.kind = "Eof"
        BY <4>3 DEF Tok
      <4>5. Spells(t, SubSeq(s, i, n))
        BY <4>4, SpellsCases
      <4> QED
        BY <1>1, <2>2, <4>4, <4>5 DEF TokenAt
    <3>2. CASE c = "'"
      <4>1. ~IsFdRedirect(s, i)
        BY <3>2, KindFacts DEF IsFdRedirect, Mark, NotInWord
      <4>2. c \notin {"<", ">", End} /\ c \notin Range(Single)
        BY <3>2, OperatorFacts
      <4>3. t = LexSingleQuote(s, i)
        BY <1>3, <3>2, <4>1, <4>2 DEF NextToken, i
      <4>4. i \in 1..n /\ s[i] = "'"
        BY <2>3, <3>2
      <4> QED
        BY <4>3, <4>4, SingleQuoteAt
    <3>3. CASE c \in {"<", ">"} \/ IsFdRedirect(s, i)
      <4>1. c \notin {End, "'"} /\ c \notin Range(Single) \ {"<", ">"}
        <5>1. CASE c \in {"<", ">"}
          BY <5>1
        <5>2. CASE IsFdRedirect(s, i)
          <6>1. c \in Digits
            BY <5>2 DEF IsFdRedirect
          <6>2. c \notin Mark /\ c # End
            BY <6>1, KindFacts DEF Char
          <6>3. c \notin NotInWord /\ c # "!"
            BY <6>2 DEF Mark, SpecialChar
          <6>4. c # "'"
            BY <6>3 DEF NotInWord
          <6> QED
            BY <6>2, <6>3, <6>4, OperatorFacts
        <5> QED
          BY <3>3, <5>1, <5>2
      <4>2. t = LexRedirect(s, i)
        BY <1>3, <3>3, <4>1 DEF NextToken, i
      <4>3. i \in 1..n
        BY <2>3, <4>1
      <4>4. At(s, SkipOver(s, i, Digits)) \in {"<", ">"}
        <5>1. CASE c \in {"<", ">"}
          <6> DEFINE op == SkipOver(s, i, Digits)
          <6>1. op \in i..(n + 1) /\ \A j \in i..(op - 1) : s[j] \in Digits
            BY <2>2, SkipOverFacts
          <6>2. s[i] \notin Digits
            BY <2>3, <4>3, <5>1, KindFacts DEF Mark, NotInWord
          <6> HIDE DEF op
          <6>3. op = i
            BY <1>1, <2>2, <6>1, <6>2
          <6> QED
            BY <5>1, <6>3 DEF op
        <5>2. CASE IsFdRedirect(s, i)
          BY <5>2 DEF IsFdRedirect
        <5> QED
          BY <3>3, <5>1, <5>2
      <4> QED
        BY <4>2, <4>3, <4>4, RedirectAt
    <3>4. CASE c \in Range(Single) \ {"<", ">"}
      <4>1. c \notin {End, "'"}
        BY <3>4, OperatorFacts DEF NotInWord
      <4>2. i \in 1..n /\ i \in 1..i
        BY <2>2, <2>3, <4>1
      <4>3. TokenAt(LexOperator(s, i, i), s, i)
        BY <3>4, <4>2, OperatorAt
      <4>4. CASE IsFdRedirect(s, i)
        BY <3>3, <4>4
      <4>5. CASE ~IsFdRedirect(s, i)
        <5>1. t = LexOperator(s, i, i)
          BY <1>3, <3>4, <4>1, <4>5 DEF NextToken, i
        <5> QED
          BY <4>3, <5>1
      <4> QED
        BY <4>4, <4>5
    <3>5. CASE /\ c \notin {End, "'", "<", ">"} /\ ~IsFdRedirect(s, i)
               /\ c \notin Range(Single) \ {"<", ">"}
      <4>1. t = LexWord(s, i)
        BY <1>3, <3>5 DEF NextToken, i
      <4>2. i \in 1..n /\ s[i] = c
        BY <2>3, <3>5
      <4>3. c \notin NotInWord
        BY <2>1, <3>5, OperatorFacts
      <4> QED
        BY <4>1, <4>2, <4>3, WordAt
    <3> QED
      BY <3>1, <3>2, <3>3, <3>4, <3>5
  <2> HIDE DEF t
  <2>5. t.from = i /\ (t.to > i => t.to > p)
    BY <1>1, <2>1, <2>2, <2>4 DEF TokenAt
  <2>6. Covers(s, p, dq, t)
    BY <1>3, <2>1, <2>4, <2>5 DEF Covers, TokenAt
  <2> QED
    BY <2>6 DEF t
<1> QED
  BY <1>2, <1>3
=============================================================================
