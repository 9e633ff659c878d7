----------------------------- MODULE SessionProofs -----------------------------
(***************************************************************************)
(* What commands do to the shell, for any command lines, paths, variables  *)
(* and programs.                                                           *)
(***************************************************************************)
EXTENDS Session, SequenceTheorems, FiniteSetTheorems, TLAPS

(***************************************************************************)
(* Texts, words, values and lines.                                         *)
(***************************************************************************)

\* The segments the shell's own texts are made of.
OwnSegments ==
    Builtins \cup {"", "usr", "bin", "local", "home", "PATH", "HOME", "REPLY"}

LEMMA Tuples ==
    ASSUME NEW S
    PROVE  /\ \A x \in S : <<x>> \in Seq(S) \ {<<>>} /\ <<x>>[1] = x /\ Len(<<x>>) = 1
           /\ \A x, y \in S : <<x, y>> \in Seq(S) \ {<<>>}
           /\ \A x, y, z \in S : <<x, y, z>> \in Seq(S) \ {<<>>}
           /\ \A x, y, z, w \in S : <<x, y, z, w>> \in Seq(S) \ {<<>>}
OBVIOUS

LEMMA OwnTexts ==
    /\ OwnSegments \subseteq Segments
    /\ \A s \in Segments : <<s>> \in Text
    /\ HOME \in Text /\ PATH \in Text /\ <<"REPLY">> \in Text /\ Root \in Text
    /\ \A b \in Builtins : UsrBin(b) \in Text
    /\ DefaultPath \in Value /\ EmptyValue \in Value /\ <<<<"", "home">>>> \in Value
<1>1. OwnSegments \subseteq Segments
  BY SessionAssumption DEF OwnSegments
<1>2. /\ "" \in Segments /\ "usr" \in Segments /\ "bin" \in Segments /\ "local" \in Segments
      /\ "home" \in Segments /\ "PATH" \in Segments /\ "HOME" \in Segments
      /\ "REPLY" \in Segments /\ Builtins \subseteq Segments
  BY <1>1 DEF OwnSegments
<1>3. \A s \in Segments : <<s>> \in Text
  BY Tuples DEF Text
<1>4. /\ <<"", "usr", "bin">> \in Text /\ <<"", "bin">> \in Text
      /\ <<"", "usr", "local", "bin">> \in Text /\ <<"", "home">> \in Text
      /\ <<"">> \in Text /\ <<"", "">> \in Text
  BY <1>2, Tuples DEF Text
<1>5. \A b \in Builtins : UsrBin(b) \in Text
  BY <1>2, Tuples DEF Text, UsrBin
<1>6. DefaultPath \in Value /\ EmptyValue \in Value /\ <<<<"", "home">>>> \in Value
  BY <1>4, Tuples DEF Value, DefaultPath, EmptyValue
<1> QED
  BY <1>1, <1>2, <1>3, <1>4, <1>5, <1>6 DEF HOME, PATH, Root

LEMMA WordFacts ==
    /\ \A w \in Words : /\ w.text \in Text /\ w.set \in BOOLEAN /\ w.value \in Seq(Text)
                        /\ w.name \in Text
                        /\ IF w.set THEN w.value \in Value ELSE w.name = w.text
    /\ \A t \in Text : Word(t) \in Words /\ Word(t).text = t /\ ~Word(t).set
<1>1. <<>> \in Seq(Text)
  BY EmptySeq
<1> QED
  BY <1>1 DEF Words, Word, Value

LEMMA ValueFacts ==
    ASSUME NEW v \in Value
    PROVE  Len(v) \in Nat \ {0} /\ DOMAIN v = 1..Len(v) /\ \A i \in 1..Len(v) : v[i] \in Text
<1>1. v \in Seq(Text) /\ v # <<>>
  BY DEF Value
<1>2. Len(v) \in Nat \ {0} /\ DOMAIN v = 1..Len(v)
  BY <1>1, EmptySeq, LenProperties
<1>3. \A i \in 1..Len(v) : v[i] \in Text
  BY <1>1, ElementOfSeq
<1> QED
  BY <1>2, <1>3

LEMMA LineFacts ==
    ASSUME NEW line \in Lines
    PROVE  /\ line \in Seq(Words) /\ line # <<>> /\ line[1] \in Words /\ ~line[1].set
           /\ Len(line) \in Nat \ {0}
           /\ Tail(line) \in Seq(Words) /\ Len(Tail(line)) = Len(line) - 1
           /\ \A i \in 1..(Len(line) - 1) : Tail(line)[i] = line[i + 1]
<1>1. line \in Seq(Words) /\ line # <<>> /\ ~line[1].set
  BY SessionAssumption
<1>2. Len(line) \in Nat \ {0} /\ Len(Tail(line)) = Len(line) - 1
  BY <1>1, EmptySeq, HeadTailProperties
<1>3. line[1] \in Words
  BY <1>1, <1>2, ElementOfSeq
<1>4. /\ Tail(line) \in Seq(Words)
      /\ \A i \in 1..(Len(line) - 1) : Tail(line)[i] = line[i + 1]
  BY <1>1, <1>2, HeadTailProperties
<1> QED
  BY <1>1, <1>2, <1>3, <1>4

\* The values an alias may have.
AliasValues == LineValues \cap Value

LEMMA BroughtFacts ==
    ASSUME NEW v \in Seq(Text)
    PROVE  /\ Brought(v) \in Seq(Words)
           /\ \A i \in 1..Len(Brought(v)) : ~Brought(v)[i].set
           /\ v # <<>> => /\ Len(Brought(v)) = Len(v) - 1
                          /\ \A i \in 1..(Len(v) - 1) : Brought(v)[i] = Word(v[i + 1])
<1>1. CASE v = <<>>
  <2>1. Len(v) = 0 /\ 1..(Len(v) - 1) = {}
    BY <1>1, EmptySeq
  <2>2. Brought(v) \in [{} -> Words]
    BY <2>1 DEF Brought
  <2>3. Brought(v) \in Seq(Words) /\ DOMAIN Brought(v) = {}
    <3>1. 1..0 = {} /\ 0 \in Nat
      OBVIOUS
    <3> QED
      BY <2>2, <3>1, SeqDef
  <2>4. 1..Len(Brought(v)) = {}
    BY <2>3, LenProperties
  <2> QED
    BY <1>1, <2>3, <2>4
<1>2. CASE v # <<>>
  <2> DEFINE n == Len(v) - 1
             b == Brought(v)
  <2>1. n \in Nat /\ n + 1 = Len(v)
    BY <1>2, EmptySeq
  <2>2. \A i \in 1..n : v[i + 1] \in Text
    BY <2>1, ElementOfSeq
  <2>3. b = [i \in 1..n |-> Word(v[i + 1])]
    BY DEF Brought
  <2> HIDE DEF n
  <2>4. b \in [1..n -> Words]
    BY <2>2, <2>3, WordFacts
  <2>5. b \in Seq(Words) /\ Len(b) = n
    <3>1. b \in Seq(Words)
      BY <2>1, <2>4, SeqDef
    <3> QED
      BY <2>1, <2>4, <3>1, LenProperties
  <2>6. \A i \in 1..n : b[i] = Word(v[i + 1]) /\ ~b[i].set
    BY <2>2, <2>3, WordFacts
  <2> HIDE DEF b
  <2> QED
    BY <1>2, <2>5, <2>6 DEF b, n
<1> QED
  BY <1>1, <1>2

LEMMA LineValueFacts ==
    /\ LineValues \subseteq Seq(Text)
    /\ \A line \in Lines : \A i \in 1..Len(line) : line[i].value \in LineValues
    /\ EmptyValue \in AliasValues
<1> DEFINE all == UNION {Range(line) : line \in Lines}
<1>1. \A w \in all : w \in Words
  <2>1. ASSUME NEW line \in Lines
        PROVE  Range(line) \subseteq Words
    BY LineFacts, LenProperties, ElementOfSeq DEF Range
  <2> QED
    BY <2>1
<1>2. ASSUME NEW line \in Lines, NEW i \in 1..Len(line)
      PROVE  line[i] \in all
  BY LineFacts, LenProperties DEF Range
<1> HIDE DEF all
<1>3. LineValues = {w.value : w \in all} \cup {EmptyValue}
  BY DEF LineValues, all
<1>4. EmptyValue \in Seq(Text) /\ EmptyValue \in Value
  BY OwnTexts DEF Value
<1>5. LineValues \subseteq Seq(Text)
  BY <1>1, <1>3, <1>4, WordFacts
<1>6. \A line \in Lines : \A i \in 1..Len(line) : line[i].value \in LineValues
  BY <1>2, <1>3
<1> QED
  BY <1>3, <1>4, <1>5, <1>6 DEF AliasValues

\* The operands of a command are words, and a value among them is one of its line.
LEMMA OperandFacts ==
    ASSUME NEW ops \in OperandLists
    PROVE  /\ ops \in Seq(Words)
           /\ \A i \in 1..Len(ops) :
                 ops[i] \in Words /\ (ops[i].set => ops[i].value \in AliasValues)
<1>1. PICK v \in LineValues, line \in Lines : ops = Brought(v) \o Tail(line)
  BY DEF OperandLists
<1> DEFINE b == Brought(v)
           t == Tail(line)
<1>2. v \in Seq(Text)
  BY LineValueFacts
<1>3. b \in Seq(Words) /\ \A i \in 1..Len(b) : ~b[i].set
  BY <1>2, BroughtFacts
<1>4. /\ t \in Seq(Words) /\ Len(t) = Len(line) - 1 /\ Len(line) \in Nat
      /\ \A i \in 1..Len(t) : t[i] = line[i + 1]
  BY LineFacts
<1> HIDE DEF b, t
<1>5. ops = b \o t
  BY <1>1 DEF b, t
<1>6. Len(b) \in Nat /\ Len(t) \in Nat
  BY <1>3, <1>4, LenProperties
<1>7. /\ ops \in Seq(Words) /\ Len(ops) = Len(b) + Len(t)
      /\ \A i \in 1..(Len(b) + Len(t)) : ops[i] = IF i <= Len(b) THEN b[i] ELSE t[i - Len(b)]
  BY <1>3, <1>4, <1>5, ConcatProperties
<1>8. ASSUME NEW i \in 1..Len(ops), ops[i].set
      PROVE  ops[i].value \in AliasValues
  <2> DEFINE j == i - Len(b)
  <2>1. j \in 1..Len(t) /\ ops[i] = t[j]
    BY <1>3, <1>6, <1>7, <1>8
  <2> HIDE DEF j
  <2>2. ops[i] = line[j + 1] /\ j + 1 \in 1..Len(line)
    BY <1>4, <1>6, <2>1
  <2>3. ops[i].value \in LineValues
    BY <2>2, LineValueFacts
  <2>4. ops[i] \in Words
    BY <1>7, ElementOfSeq
  <2> QED
    BY <1>8, <2>3, <2>4, WordFacts DEF AliasValues
<1> QED
  BY <1>7, <1>8, ElementOfSeq

(***************************************************************************)
(* Functions from texts.                                                   *)
(***************************************************************************)

Maps(V) == UNION {[D -> V] : D \in SUBSET Text}

LEMMA MapFacts ==
    ASSUME NEW V
    PROVE  /\ <<>> \in Maps(V)
           /\ \A f \in Maps(V) : DOMAIN f \subseteq Text /\ \A k \in DOMAIN f : f[k] \in V
           /\ \A f \in Maps(V) : \A k \in Text : \A x \in V : With(f, k, x) \in Maps(V)
           /\ \A f \in Maps(V) : \A k : Without(f, k) \in Maps(V)
<1>1. <<>> \in [{} -> V] /\ {} \in SUBSET Text
  <2>1. <<>> \in [1..0 -> V] /\ 1..0 = {}
    BY EmptySeq, LenProperties
  <2> QED
    BY <2>1
<1>2. <<>> \in Maps(V)
  BY <1>1 DEF Maps
<1>3. ASSUME NEW f \in Maps(V)
      PROVE  /\ DOMAIN f \subseteq Text /\ \A k \in DOMAIN f : f[k] \in V
             /\ \A k \in Text : \A x \in V : With(f, k, x) \in Maps(V)
             /\ \A k : Without(f, k) \in Maps(V)
  <2>1. PICK D \in SUBSET Text : f \in [D -> V]
    BY DEF Maps
  <2>2. ASSUME NEW k \in Text, NEW x \in V
        PROVE  With(f, k, x) \in Maps(V)
    <3>1. With(f, k, x) \in [D \cup {k} -> V] /\ D \cup {k} \in SUBSET Text
      BY <2>1 DEF With
    <3> QED
      BY <3>1 DEF Maps
  <2>3. ASSUME NEW k
        PROVE  Without(f, k) \in Maps(V)
    <3>1. Without(f, k) \in [D \ {k} -> V] /\ D \ {k} \in SUBSET Text
      BY <2>1 DEF Without
    <3> QED
      BY <3>1 DEF Maps
  <2> QED
    BY <2>1, <2>2, <2>3
<1> QED
  BY <1>2, <1>3

\* Two functions that agree are one.
LEMMA SameMap ==
    ASSUME NEW V, NEW W, NEW f \in Maps(V), NEW g \in Maps(W),
           DOMAIN f = DOMAIN g, \A k \in DOMAIN f : f[k] = g[k]
    PROVE  f = g
<1>1. PICK D : f \in [D -> V]
  BY DEF Maps
<1>2. PICK E : g \in [E -> W]
  BY DEF Maps
<1>3. f = [k \in DOMAIN f |-> f[k]] /\ g = [k \in DOMAIN g |-> g[k]]
  BY <1>1, <1>2
<1> QED
  BY <1>3, Zenon

(***************************************************************************)
(* Paths.                                                                  *)
(***************************************************************************)

\* What is known of folds, for the steps of normalising a path.
Pushing == INSTANCE FoldProofs WITH Op <- Push

LEMMA PartsFold ==
    \A parts, s : FoldLeft(Push, parts, s) = Pushing!Fold(parts, s)
BY DEF FoldLeft, MapThenFoldSet, Max, Pushing!Fold, Pushing!FoldLeft,
       Pushing!MapThenFoldSet, Pushing!Max

Names == {s \in Segments : IsName(s)}

LEMMA PushFacts ==
    ASSUME NEW p \in Seq(Names)
    PROVE  /\ \A s \in Segments : Push(p, s) \in Seq(Names)
           /\ \A s \in Names : Push(p, s) = Append(p, s)
           /\ \A s \in {"", "."} : Push(p, s) = p
           /\ Push(p, "..") = IF p = <<>> THEN <<>> ELSE Front(p)
<1>1. \A s \in Names : Push(p, s) = Append(p, s)
  BY DEF Push, Names, IsName
<1>2. \A s \in {"", "."} : Push(p, s) = p
  BY DEF Push
<1>3. Push(p, "..") = IF p = <<>> THEN <<>> ELSE Front(p)
  <2>1. ".." \notin {"", "."}
    OBVIOUS
  <2> QED
    BY <2>1 DEF Push
<1>4. ASSUME NEW s \in Segments
      PROVE  Push(p, s) \in Seq(Names)
  <2>1. CASE s \in Names
    BY <1>1, <2>1, AppendProperties
  <2>2. CASE s \in {"", "."}
    BY <1>2, <2>2
  <2>3. CASE s = ".." /\ p = <<>>
    BY <1>3, <2>3
  <2>4. CASE s = ".." /\ p # <<>>
    <3>1. Len(p) \in Nat \ {0} /\ \A i \in 1..(Len(p) - 1) : p[i] \in Names
      BY <2>4, EmptySeq, ElementOfSeq
    <3>2. Front(p) \in Seq(Names)
      BY <3>1, SubSeqProperties DEF Front
    <3> QED
      BY <1>3, <2>4, <3>2
  <2> QED
    BY <2>1, <2>2, <2>3, <2>4 DEF Names, IsName
<1> QED
  BY <1>1, <1>2, <1>3, <1>4

\* The parts of a text, step by step.
LEMMA PushSteps ==
    ASSUME NEW p, NEW t \in Seq(Segments)
    PROVE  \E o : Pushing!Series(o, p, t, Len(t)) /\ Pushing!Fold(p, t) = o[Len(t)]
<1>1. Len(t) \in Nat /\ DOMAIN t = 1..Len(t)
  BY LenProperties
<1>2. \E o : /\ o[0] = p
             /\ \A k \in 1..Len(t) : o[k] = Push(o[k - 1], t[k])
             /\ Pushing!Fold(p, t) = o[Len(t)]
  BY <1>1, Pushing!FoldSteps
<1> QED
  BY <1>2 DEF Pushing!Series

LEMMA SeriesOfNames ==
    ASSUME NEW p \in Seq(Names), NEW t \in Seq(Segments), NEW o,
           Pushing!Series(o, p, t, Len(t))
    PROVE  \A k \in 0..Len(t) : o[k] \in Seq(Names)
<1> DEFINE T == {k \in Nat : k <= Len(t) => o[k] \in Seq(Names)}
<1>1. Len(t) \in Nat
  BY LenProperties
<1>2. 0 \in T
  BY DEF Pushing!Series
<1>3. ASSUME NEW k \in Nat, k \in T
      PROVE  k + 1 \in T
  <2> SUFFICES ASSUME k + 1 <= Len(t)
               PROVE  o[k + 1] \in Seq(Names)
    OBVIOUS
  <2>1. k + 1 \in 1..Len(t) /\ (k + 1) - 1 = k /\ k <= Len(t)
    BY <1>1
  <2>2. o[k] \in Seq(Names) /\ t[k + 1] \in Segments
    BY <1>3, <2>1, ElementOfSeq
  <2>3. o[k + 1] = Push(o[k], t[k + 1])
    BY <2>1 DEF Pushing!Series
  <2> QED
    BY <2>2, <2>3, PushFacts
<1> HIDE DEF T
<1>4. \A k \in Nat : k \in T
  BY <1>2, <1>3, Pushing!SetInduction
<1> QED
  BY <1>1, <1>4 DEF T

LEMMA FoldsToNames ==
    ASSUME NEW p \in Seq(Names), NEW t \in Seq(Segments)
    PROVE  Pushing!Fold(p, t) \in Seq(Names)
<1>1. PICK o : Pushing!Series(o, p, t, Len(t)) /\ Pushing!Fold(p, t) = o[Len(t)]
  BY PushSteps
<1>2. Len(t) \in 0..Len(t)
  BY LenProperties
<1> QED
  BY <1>1, <1>2, SeriesOfNames

\* Names go on the stack as they come.
LEMMA NamesStay ==
    ASSUME NEW t \in Seq(Names)
    PROVE  Pushing!Fold(<<>>, t) = t
<1> DEFINE n == Len(t)
<1>1. n \in Nat /\ t \in Seq(Segments) /\ Names \subseteq Segments
  BY LenProperties, SeqMonotonic DEF Names
<1>2. PICK o : Pushing!Series(o, <<>>, t, n) /\ Pushing!Fold(<<>>, t) = o[n]
  BY <1>1, PushSteps
<1> DEFINE U == {k \in Nat : k <= n => o[k] = SubSeq(t, 1, k)}
<1>3. 0 \in U
  <2>1. SubSeq(t, 1, 0) = <<>>
    BY SubSeqEmpty
  <2> QED
    BY <1>2, <2>1 DEF Pushing!Series
<1>4. ASSUME NEW k \in Nat, k \in U
      PROVE  k + 1 \in U
  <2> SUFFICES ASSUME k + 1 <= n
               PROVE  o[k + 1] = SubSeq(t, 1, k + 1)
    OBVIOUS
  <2>1. k + 1 \in 1..n /\ (k + 1) - 1 = k /\ k <= n /\ 1 \in 1..n /\ k + 1 \in 1..(k + 1)
    BY <1>1
  <2>2. o[k + 1] = Push(o[k], t[k + 1]) /\ o[k] = SubSeq(t, 1, k)
    BY <1>2, <1>4, <2>1 DEF Pushing!Series
  <2>3. t[k + 1] \in Names /\ \A i \in 1..k : t[i] \in Names
    <3>1. \A i \in 1..k : i \in 1..n
      BY <1>1, <2>1
    <3> QED
      BY <2>1, <3>1, ElementOfSeq
  <2>4. SubSeq(t, 1, k) \in Seq(Names)
    BY <2>3, SubSeqProperties
  <2>5. o[k + 1] = Append(SubSeq(t, 1, k), t[k + 1])
    BY <2>2, <2>3, <2>4, PushFacts
  <2>6. SubSeq(t, 1, k + 1) = SubSeq(t, 1, k) \o <<t[k + 1]>>
    <3>1. k + 1 \in 1..Len(t) /\ 1 \in 1..Len(t) /\ k + 1 \in 1..Len(t)
      BY <2>1
    <3>2. SubSeq(t, 1, k + 1) = SubSeq(t, 1, (k + 1) - 1) \o <<t[k + 1]>>
      BY <2>1, <3>1, SubSeqRecursiveSecond
    <3> QED
      BY <2>1, <3>2
  <2> QED
    BY <2>3, <2>4, <2>5, <2>6, AppendIsConcat
<1> HIDE DEF U
<1>5. n \in U
  BY <1>1, <1>3, <1>4, Pushing!SetInduction
<1> QED
  BY <1>1, <1>2, <1>5, SubSeqFull DEF U

\* Slashes at the start say nothing.
LEMMA PartsOfPath ==
    /\ \A t \in Seq(Segments) : Parts(<<"">> \o t) = Parts(t)
    /\ Parts(<<"">>) = <<>> /\ Parts(Root) = <<>>
    /\ \A t \in Seq(Names) : Parts(t) = t
<1>1. <<"">> \in Seq(Segments) /\ Len(<<"">>) = 1 /\ <<"">>[1] = ""
  BY OwnTexts, Tuples DEF OwnSegments
<1>2. Pushing!Fold(<<>>, <<"">>) = <<>>
  <2>1. PICK o : Pushing!Series(o, <<>>, <<"">>, 1) /\ Pushing!Fold(<<>>, <<"">>) = o[1]
    BY <1>1, PushSteps
  <2>2. o[1] = Push(o[0], "") /\ o[0] = <<>>
    <3>1. 1 \in 1..1 /\ 1 - 1 = 0
      OBVIOUS
    <3> QED
      BY <1>1, <2>1, <3>1 DEF Pushing!Series
  <2> QED
    BY <2>1, <2>2, EmptySeq, PushFacts
<1>3. ASSUME NEW t \in Seq(Segments)
      PROVE  Parts(<<"">> \o t) = Parts(t)
  <2> DEFINE e == <<"">>
  <2> HIDE DEF e
  <2>1. e \in Seq(Segments)
    BY <1>1 DEF e
  <2>2. Pushing!Fold(<<>>, e \o t) = Pushing!Fold(Pushing!Fold(<<>>, e), t)
    BY <2>1, Pushing!FoldConcat
  <2>3. Pushing!Fold(<<>>, <<"">> \o t) = Pushing!Fold(Pushing!Fold(<<>>, <<"">>), t)
    BY <2>2 DEF e
  <2> QED
    BY <1>2, <2>3, PartsFold DEF Parts
<1>4. Parts(<<"">>) = <<>>
  BY <1>2, PartsFold DEF Parts
<1>5. Parts(Root) = <<>>
  <2>1. Root \in Seq(Segments) /\ Len(Root) = 2 /\ Root[1] = "" /\ Root[2] = ""
    BY OwnTexts DEF Root, Text
  <2>2. PICK o : Pushing!Series(o, <<>>, Root, 2) /\ Pushing!Fold(<<>>, Root) = o[2]
    BY <2>1, PushSteps
  <2>3. o[1] = Push(o[0], "") /\ o[2] = Push(o[1], "") /\ o[0] = <<>>
    <3>1. 1 \in 1..2 /\ 2 \in 1..2 /\ 1 - 1 = 0 /\ 2 - 1 = 1
      OBVIOUS
    <3> QED
      BY <2>1, <2>2, <3>1 DEF Pushing!Series
  <2>4. Push(<<>>, "") = <<>>
    BY EmptySeq, PushFacts
  <2> QED
    BY <2>2, <2>3, <2>4, PartsFold DEF Parts
<1> QED
  BY <1>1, <1>3, <1>4, <1>5, NamesStay, PartsFold DEF Parts

\* Normalising says the same in its own way.
LEMMA PartsOfNormal ==
    ASSUME NEW t \in Text
    PROVE  /\ Parts(t) \in Seq(Names)
           /\ NormalizePath(t) \in Text
           /\ Parts(NormalizePath(t)) = Parts(t)
           /\ NormalizePath(NormalizePath(t)) = NormalizePath(t)
<1>1. t \in Seq(Segments)
  BY DEF Text
<1>2. Parts(t) \in Seq(Names)
  BY <1>1, EmptySeq, FoldsToNames, PartsFold DEF Parts
<1>3. Parts(t) \in Seq(Segments)
  BY <1>2, SeqMonotonic DEF Names
<1>4. NormalizePath(t) \in Text
  <2> DEFINE e == <<"">>
  <2>1. e \in Seq(Segments) /\ e # <<>>
    BY OwnTexts, Tuples DEF OwnSegments
  <2> HIDE DEF e
  <2>2. e \o Parts(t) \in Seq(Segments) /\ e \o Parts(t) # <<>>
    BY <1>3, <2>1, ConcatProperties, ConcatEqualIffEmpty
  <2> QED
    BY <2>2, OwnTexts DEF NormalizePath, Text, e
<1>5. Parts(NormalizePath(t)) = Parts(t)
  <2>1. Parts(<<"">> \o Parts(t)) = Parts(t)
    BY <1>2, <1>3, PartsOfPath
  <2> QED
    BY <2>1, PartsOfPath DEF NormalizePath
<1> QED
  BY <1>2, <1>4, <1>5 DEF NormalizePath

\* What follows a text may as well follow the normalised one.
LEMMA NormalFirst ==
    ASSUME NEW d \in Text, NEW t \in Text
    PROVE  /\ d \o t \in Text
           /\ NormalizePath(NormalizePath(d) \o t) = NormalizePath(d \o t)
<1>1. d \in Seq(Segments) /\ t \in Seq(Segments) /\ t # <<>>
  BY DEF Text
<1>2. d \o t \in Text
  BY <1>1, ConcatProperties, ConcatEqualIffEmpty DEF Text
<1>3. NormalizePath(d) \in Seq(Segments)
  BY PartsOfNormal DEF Text
<1>4. Parts(NormalizePath(d) \o t) = Pushing!Fold(Parts(NormalizePath(d)), t)
  BY <1>1, <1>3, Pushing!FoldConcat, PartsFold DEF Parts
<1>5. Parts(d \o t) = Pushing!Fold(Parts(d), t)
  BY <1>1, Pushing!FoldConcat, PartsFold DEF Parts
<1>6. Parts(NormalizePath(d) \o t) = Parts(d \o t)
  BY <1>4, <1>5, PartsOfNormal
<1> QED
  BY <1>2, <1>6 DEF NormalizePath

LEMMA NormalRoot == NormalizePath(Root) = Root
BY PartsOfPath DEF NormalizePath

\* Seen from the root, a text is what it is.
LEMMA FromRoot ==
    ASSUME NEW t \in Text
    PROVE  ResolvePath(Root, t) = NormalizePath(t)
<1>1. t \in Seq(Segments) /\ Root \in Seq(Segments)
  BY OwnTexts DEF Text
<1>2. Parts(Root \o t) = Pushing!Fold(Parts(Root), t)
  BY <1>1, Pushing!FoldConcat, PartsFold DEF Parts
<1>3. Parts(Root \o t) = Parts(t)
  BY <1>2, PartsOfPath, PartsFold DEF Parts
<1> QED
  BY <1>3 DEF ResolvePath, NormalizePath

(***************************************************************************)
(* What becomes of functions, assignment by assignment.                    *)
(***************************************************************************)

\* The last place of some operands that assigns to a name, if any does.
IsTo(ops, k, i) == i \in DOMAIN ops /\ ops[i].set /\ ops[i].name = k
IsLastTo(ops, k, i) == IsTo(ops, k, i) /\ \A j \in DOMAIN ops : IsTo(ops, k, j) => j <= i

LEMMA GreatestOf ==
    ASSUME NEW n \in Nat, NEW s \in SUBSET (1..n), s # {}
    PROVE  \E i \in s : \A j \in s : j <= i
<1> DEFINE T == {m \in Nat : \E x \in s : x = n - m}
<1>1. PICK w \in s : TRUE
  OBVIOUS
<1>2. T \subseteq Nat /\ n - w \in T
  BY <1>1
<1>3. PICK m \in T : \A k \in T : m <= k
  BY <1>2, Pushing!LeastNatural
<1>4. PICK y \in s : y = n - m
  BY <1>3
<1>5. ASSUME NEW z \in s
      PROVE  z <= y
  <2>1. n - z \in T /\ z \in 1..n
    OBVIOUS
  <2>2. m <= n - z /\ m \in Nat /\ y = n - m
    BY <1>3, <1>4, <2>1
  <2> HIDE DEF T
  <2> QED
    BY <2>1, <2>2
<1> QED
  BY <1>5

LEMMA LastToExists ==
    ASSUME NEW ops \in Seq(Words), NEW k, NEW i, IsTo(ops, k, i)
    PROVE  \E j : IsLastTo(ops, k, j)
<1> DEFINE s == {j \in DOMAIN ops : IsTo(ops, k, j)}
<1>1. Len(ops) \in Nat /\ DOMAIN ops = 1..Len(ops)
  BY LenProperties
<1>2. s \in SUBSET (1..Len(ops)) /\ i \in s
  BY <1>1 DEF IsTo
<1>3. PICK j \in s : \A l \in s : l <= j
  BY <1>1, <1>2, GreatestOf
<1> QED
  BY <1>3 DEF IsLastTo

\* What a function is after the assignments among some operands.
LEMMA AssignedFacts ==
    ASSUME NEW V, NEW f \in Maps(V), NEW ops \in Seq(Words),
           \A i \in DOMAIN ops : ops[i].set => ops[i].value \in V
    PROVE  /\ Effects!Assigned(f, ops) \in Maps(V)
           /\ \A k : k \in DOMAIN Effects!Assigned(f, ops)
                       <=> k \in DOMAIN f \/ \E i : IsTo(ops, k, i)
           /\ \A k, i : IsLastTo(ops, k, i) => Effects!Assigned(f, ops)[k] = ops[i].value
           /\ \A k \in DOMAIN f : (\A i : ~IsTo(ops, k, i)) => Effects!Assigned(f, ops)[k] = f[k]
<1> DEFINE To(k) == {i \in DOMAIN ops : ops[i].set /\ ops[i].name = k}
           keys == {k \in Effects!Names(ops) : To(k) # {}}
           the(k) == CHOOSE i \in To(k) : \A j \in To(k) : j <= i
           g == [k \in DOMAIN f \cup keys |-> IF k \in keys THEN ops[the(k)].value ELSE f[k]]
<1>1. Effects!Assigned(f, ops) = g
  BY DEF Effects!Assigned
<1>2. \A k : k \in keys <=> \E i : IsTo(ops, k, i)
  BY DEF IsTo, Effects!Names
<1>3. \A k, i : i \in To(k) <=> IsTo(ops, k, i)
  BY DEF IsTo
<1> HIDE DEF keys
<1>4. ASSUME NEW k, NEW i, IsLastTo(ops, k, i)
      PROVE  the(k) = i
  <2>1. i \in To(k) /\ \A j \in To(k) : j <= i
    BY <1>3, <1>4 DEF IsLastTo, IsTo
  <2>2. the(k) \in To(k) /\ \A j \in To(k) : j <= the(k)
    <3> HIDE DEF To
    <3> QED
      BY <2>1
  <2>3. \A j \in To(k) : j \in Nat
    BY LenProperties
  <2> HIDE DEF To, the
  <2> QED
    BY <2>1, <2>2, <2>3
<1> HIDE DEF the
<1>5. \A k \in keys : ops[the(k)].value \in V
  <2> TAKE k \in keys
  <2>1. PICK j : IsLastTo(ops, k, j)
    BY <1>2, LastToExists
  <2>2. the(k) = j
    BY <1>4, <2>1
  <2> QED
    BY <2>1, <2>2 DEF IsLastTo, IsTo
<1>6. keys \subseteq Text
  <2>1. \A i \in DOMAIN ops : ops[i].name \in Text
    BY LenProperties, ElementOfSeq, WordFacts
  <2> QED
    BY <1>2, <2>1 DEF IsTo
<1>7. \A k \in DOMAIN f : f[k] \in V /\ k \in Text
  BY MapFacts
<1>8. g \in [DOMAIN f \cup keys -> V] /\ DOMAIN f \cup keys \in SUBSET Text
  BY <1>5, <1>6, <1>7
<1>9. g \in Maps(V)
  BY <1>8 DEF Maps
<1>10. DOMAIN g = DOMAIN f \cup keys
  OBVIOUS
<1>11. \A k \in DOMAIN f \cup keys : g[k] = IF k \in keys THEN ops[the(k)].value ELSE f[k]
  OBVIOUS
<1> HIDE DEF g
<1>12. \A k, i : IsLastTo(ops, k, i) => g[k] = ops[i].value
  BY <1>2, <1>4, <1>11 DEF IsLastTo
<1>13. \A k \in DOMAIN f : (\A i : ~IsTo(ops, k, i)) => g[k] = f[k]
  BY <1>2, <1>11
<1> QED
  BY <1>1, <1>2, <1>9, <1>10, <1>12, <1>13

LEMMA AppendedFacts ==
    ASSUME NEW p \in Seq(Words), NEW w \in Words
    PROVE  /\ Len(p) \in Nat /\ DOMAIN p = 1..Len(p)
           /\ Append(p, w) \in Seq(Words) /\ DOMAIN Append(p, w) = 1..(Len(p) + 1)
           /\ \A i \in 1..Len(p) : Append(p, w)[i] = p[i]
           /\ Append(p, w)[Len(p) + 1] = w
<1>1. Len(p) \in Nat /\ DOMAIN p = 1..Len(p)
  BY LenProperties
<1>2. Append(p, w) \in Seq(Words) /\ Len(Append(p, w)) = Len(p) + 1
  BY AppendProperties
<1>3. DOMAIN Append(p, w) = 1..(Len(p) + 1)
  BY <1>2, LenProperties
<1> QED
  BY <1>1, <1>2, <1>3, AppendProperties

\* One more operand makes one more assignment, or none.
LEMMA AssignedNext ==
    ASSUME NEW V, NEW f \in Maps(V), NEW p \in Seq(Words), NEW w \in Words,
           \A i \in DOMAIN p : p[i].set => p[i].value \in V,
           w.set => w.value \in V
    PROVE  Effects!Assigned(f, Append(p, w)) =
             IF w.set THEN With(Effects!Assigned(f, p), w.name, w.value)
             ELSE Effects!Assigned(f, p)
<1> DEFINE n == Len(p)
           q == Append(p, w)
           a == Effects!Assigned(f, p)
           b == Effects!Assigned(f, q)
           c == IF w.set THEN With(a, w.name, w.value) ELSE a
<1>1. /\ n \in Nat /\ DOMAIN p = 1..n /\ q \in Seq(Words) /\ DOMAIN q = 1..(n + 1)
      /\ \A i \in 1..n : q[i] = p[i]
      /\ q[n + 1] = w
  BY AppendedFacts
<1> HIDE DEF n, q
<1>2. \A i \in DOMAIN q : q[i].set => q[i].value \in V
  <2> TAKE i \in DOMAIN q
  <2>1. i \in 1..n \/ i = n + 1
    BY <1>1
  <2> QED
    BY <1>1, <2>1
<1>3. /\ a \in Maps(V)
      /\ \A k : k \in DOMAIN a <=> k \in DOMAIN f \/ \E i : IsTo(p, k, i)
      /\ \A k, i : IsLastTo(p, k, i) => a[k] = p[i].value
      /\ \A k \in DOMAIN f : (\A i : ~IsTo(p, k, i)) => a[k] = f[k]
  BY AssignedFacts
<1>4. /\ b \in Maps(V)
      /\ \A k : k \in DOMAIN b <=> k \in DOMAIN f \/ \E i : IsTo(q, k, i)
      /\ \A k, i : IsLastTo(q, k, i) => b[k] = q[i].value
      /\ \A k \in DOMAIN f : (\A i : ~IsTo(q, k, i)) => b[k] = f[k]
  <2>1. q \in Seq(Words)
    BY <1>1
  <2> QED
    BY <1>2, <2>1, AssignedFacts
<1> HIDE DEF a, b
<1>5. \A k, i : IsTo(q, k, i) <=> IsTo(p, k, i) \/ (i = n + 1 /\ w.set /\ w.name = k)
  <2> TAKE k, i
  <2>1. i \in DOMAIN q <=> i \in DOMAIN p \/ i = n + 1
    BY <1>1
  <2>2. n + 1 \notin DOMAIN p
    BY <1>1
  <2> QED
    BY <1>1, <2>1, <2>2 DEF IsTo
<1>6. /\ c \in Maps(V)
      /\ \A k : k \in DOMAIN c <=> k \in DOMAIN a \/ (w.set /\ w.name = k)
      /\ \A k \in DOMAIN c : c[k] = IF w.set /\ w.name = k THEN w.value ELSE a[k]
  <2>1. w.name \in Text
    BY WordFacts
  <2>2. c \in Maps(V)
    BY <1>3, <2>1, MapFacts
  <2> QED
    BY <2>2 DEF With
<1> HIDE DEF c
<1>7. \A k : k \in DOMAIN b <=> k \in DOMAIN c
  BY <1>3, <1>4, <1>5, <1>6
<1>8. ASSUME NEW k \in DOMAIN b
      PROVE  b[k] = c[k]
  <2>1. CASE w.set /\ w.name = k
    <3>1. IsLastTo(q, k, n + 1)
      BY <1>1, <1>5, <2>1 DEF IsLastTo
    <3> QED
      BY <1>1, <1>4, <1>6, <1>7, <2>1, <3>1
  <2>2. CASE ~(w.set /\ w.name = k)
    <3>1. \A i : IsTo(q, k, i) <=> IsTo(p, k, i)
      BY <1>5, <2>2
    <3>2. CASE \E i : IsTo(p, k, i)
      <4>1. PICK j : IsLastTo(p, k, j)
        BY <3>2, LastToExists
      <4>2. j \in 1..n
        BY <1>1, <4>1 DEF IsLastTo, IsTo
      <4>3. IsLastTo(q, k, j)
        BY <3>1, <4>1 DEF IsLastTo, IsTo
      <4> QED
        BY <1>1, <1>3, <1>4, <1>6, <1>7, <2>2, <4>1, <4>2, <4>3
    <3>3. CASE \A i : ~IsTo(p, k, i)
      BY <1>3, <1>4, <1>6, <1>7, <2>2, <3>1, <3>3
    <3> QED
      BY <3>2, <3>3
  <2> QED
    BY <2>1, <2>2
<1>9. b = c
  <2>1. DOMAIN b = DOMAIN c
    BY <1>7
  <2> QED
    BY <1>4, <1>6, <1>8, <2>1, SameMap
<1> QED
  BY <1>9 DEF a, b, c, q

\* Nothing is assigned, or taken away, by no operands.
LEMMA NoOperands ==
    ASSUME NEW V, NEW f \in Maps(V)
    PROVE  /\ Effects!Assigned(f, <<>>) = f
           /\ Effects!Without(f, Effects!Written(<<>>)) = f
<1>1. <<>> \in Seq(Words) /\ DOMAIN <<>> = {}
  OBVIOUS
<1>2. Effects!Assigned(f, <<>>) = f
  <2> DEFINE a == Effects!Assigned(f, <<>>)
  <2>1. \A k, i : ~IsTo(<<>>, k, i)
    BY <1>1 DEF IsTo
  <2>2. /\ a \in Maps(V)
        /\ \A k : k \in DOMAIN a <=> k \in DOMAIN f \/ \E i : IsTo(<<>>, k, i)
        /\ \A k \in DOMAIN f : (\A i : ~IsTo(<<>>, k, i)) => a[k] = f[k]
    BY <1>1, AssignedFacts
  <2> HIDE DEF a
  <2>3. DOMAIN a = DOMAIN f /\ \A k \in DOMAIN a : a[k] = f[k]
    BY <2>1, <2>2
  <2>4. a = f
    BY <2>2, <2>3, SameMap
  <2> QED
    BY <2>4 DEF a
<1>3. Effects!Written(<<>>) = {}
  BY <1>1 DEF Effects!Written
<1>4. Effects!Without(f, {}) = f
  <2>1. PICK D \in SUBSET Text : f \in [D -> V]
    BY DEF Maps
  <2>2. Effects!Without(f, {}) = [k \in DOMAIN f |-> f[k]]
    BY DEF Effects!Without, Restrict, Effects!Restrict
  <2> QED
    BY <2>1, <2>2
<1> QED
  BY <1>2, <1>3, <1>4

LEMMA WrittenNext ==
    ASSUME NEW p \in Seq(Words), NEW w \in Words
    PROVE  Effects!Written(Append(p, w)) = Effects!Written(p) \cup {w.text}
<1> DEFINE q == Append(p, w)
           n == Len(p)
<1>1. /\ n \in Nat /\ DOMAIN p = 1..n /\ DOMAIN q = 1..(n + 1)
      /\ \A i \in 1..n : q[i] = p[i]
      /\ q[n + 1] = w
  BY AppendedFacts
<1> HIDE DEF q, n
<1>2. \A i : i \in 1..(n + 1) <=> i \in 1..n \/ i = n + 1
  BY <1>1
<1>3. {q[i].text : i \in DOMAIN q} = {p[i].text : i \in DOMAIN p} \cup {w.text}
  BY <1>1, <1>2
<1> QED
  BY <1>3 DEF Effects!Written, q

LEMMA WithoutNext ==
    ASSUME NEW V, NEW f \in Maps(V), NEW p \in Seq(Words), NEW w \in Words
    PROVE  Effects!Without(f, Effects!Written(Append(p, w))) =
             Without(Effects!Without(f, Effects!Written(p)), w.text)
<1> DEFINE s == Effects!Written(p)
<1>1. Effects!Written(Append(p, w)) = s \cup {w.text}
  BY WrittenNext
<1> HIDE DEF s
<1>2. Effects!Without(f, s \cup {w.text}) = Without(Effects!Without(f, s), w.text)
  BY DEF Effects!Without, Restrict, Effects!Restrict, Without
<1> QED
  BY <1>1, <1>2 DEF s

\* One key more, or one less, is within what the abstract functions keep.
LEMMA WithoutMaps ==
    ASSUME NEW V, NEW f \in Maps(V), NEW s
    PROVE  Effects!Without(f, s) \in Maps(V)
<1>1. PICK D \in SUBSET Text : f \in [D -> V]
  BY DEF Maps
<1>2. Effects!Without(f, s) \in [D \ s -> V] /\ D \ s \in SUBSET Text
  BY <1>1 DEF Effects!Without, Restrict, Effects!Restrict
<1> QED
  BY <1>2 DEF Maps

(***************************************************************************)
(* How far a program has come, told from its operands and from the shell   *)
(* it started in.                                                          *)
(***************************************************************************)

\* The aliases there, or set further left, of operands without a value.
AllKnown(a, ops) ==
    \A i \in DOMAIN ops :
        \/ ops[i].set
        \/ ops[i].name \in DOMAIN a
        \/ \E j \in 1 .. i - 1 : ops[j].set /\ ops[j].name = ops[i].name

IsAll(ops, i) == ops[i].text = <<"-a">>
Gone(a, ops) ==
    IF \E i \in DOMAIN ops : IsAll(ops, i) THEN <<>>
    ELSE Effects!Without(a, Effects!Written(ops))

\* The operands of unalias that are aliases still when their turn comes.
AllFound(a, ops) ==
    \A i \in DOMAIN ops :
        \/ IsAll(ops, i)
        \/ /\ ops[i].text \in DOMAIN a
           /\ \A j \in 1 .. i - 1 : ~IsAll(ops, j) /\ ops[j].text # ops[i].text

LEMMA AllKnownNext ==
    ASSUME NEW V, NEW a \in Maps(V), NEW p \in Seq(Words), NEW w \in Words,
           \A i \in DOMAIN p : p[i].set => p[i].value \in V
    PROVE  AllKnown(a, Append(p, w)) <=>
             AllKnown(a, p) /\ (w.set \/ w.name \in DOMAIN Effects!Assigned(a, p))
<1> DEFINE q == Append(p, w)
           n == Len(p)
           D == DOMAIN Effects!Assigned(a, p)
<1>1. /\ n \in Nat /\ DOMAIN p = 1..n /\ DOMAIN q = 1..(n + 1)
      /\ \A i \in 1..n : q[i] = p[i]
      /\ q[n + 1] = w
  BY AppendedFacts
<1>2. \A k : k \in D <=> k \in DOMAIN a \/ \E i : IsTo(p, k, i)
  BY AssignedFacts
<1> HIDE DEF q, n, D
<1> DEFINE Ok(o, i) == \/ o[i].set
                       \/ o[i].name \in DOMAIN a
                       \/ \E j \in 1 .. i - 1 : o[j].set /\ o[j].name = o[i].name
<1>3. \A i \in 1..n : Ok(q, i) <=> Ok(p, i)
  <2> TAKE i \in 1..n
  <2>1. \A j \in 1 .. i - 1 : j \in 1..n
    BY <1>1
  <2> QED
    BY <1>1, <2>1
<1>4. Ok(q, n + 1) <=> w.set \/ w.name \in D
  <2>1. (n + 1) - 1 = n
    BY <1>1
  <2>2. Ok(q, n + 1) <=> \/ w.set
                         \/ w.name \in DOMAIN a
                         \/ \E j \in 1..n : p[j].set /\ p[j].name = w.name
    BY <1>1, <2>1
  <2>3. (\E j \in 1..n : p[j].set /\ p[j].name = w.name) <=> \E i : IsTo(p, w.name, i)
    BY <1>1 DEF IsTo
  <2> QED
    BY <1>2, <2>2, <2>3
<1>5. \A i : i \in DOMAIN q <=> i \in 1..n \/ i = n + 1
  BY <1>1
<1>6. AllKnown(a, q) <=> \A i \in DOMAIN q : Ok(q, i)
  BY DEF AllKnown
<1>7. AllKnown(a, p) <=> \A i \in 1..n : Ok(p, i)
  BY <1>1 DEF AllKnown
<1> HIDE DEF Ok
<1>8. AllKnown(a, q) <=> AllKnown(a, p) /\ (w.set \/ w.name \in D)
  BY <1>3, <1>4, <1>5, <1>6, <1>7
<1> QED
  BY <1>8 DEF q, D

\* Nothing is left of nothing.
LEMMA WithoutNothing ==
    \A k : Without(<<>>, k) = <<>>
<1> TAKE k
<1>1. <<>> \in Maps(Value) /\ DOMAIN <<>> = {}
  BY MapFacts
<1>2. Without(<<>>, k) \in Maps(Value)
  BY <1>1, MapFacts
<1>3. DOMAIN Without(<<>>, k) = {}
  BY <1>1 DEF Without
<1> QED
  BY <1>1, <1>2, <1>3, SameMap

LEMMA GoneNext ==
    ASSUME NEW V, NEW a \in Maps(V), NEW p \in Seq(Words), NEW w \in Words
    PROVE  /\ Gone(a, Append(p, w)) = IF w.text = <<"-a">> THEN <<>>
                                      ELSE Without(Gone(a, p), w.text)
           /\ AllFound(a, Append(p, w)) <=>
                AllFound(a, p) /\ (w.text = <<"-a">> \/ w.text \in DOMAIN Gone(a, p))
<1> DEFINE q == Append(p, w)
           n == Len(p)
           some == \E i \in DOMAIN p : IsAll(p, i)
<1>1. /\ n \in Nat /\ DOMAIN p = 1..n /\ DOMAIN q = 1..(n + 1)
      /\ \A i \in 1..n : q[i] = p[i]
      /\ q[n + 1] = w
  BY AppendedFacts
<1>2. Effects!Without(a, Effects!Written(q)) =
        Without(Effects!Without(a, Effects!Written(p)), w.text)
  BY WithoutNext
<1> HIDE DEF q, n
<1>3. \A i : i \in DOMAIN q <=> i \in 1..n \/ i = n + 1
  BY <1>1
<1>4. (\E i \in DOMAIN q : IsAll(q, i)) <=> some \/ w.text = <<"-a">>
  BY <1>1, <1>3 DEF IsAll
<1>5. Gone(a, q) = IF w.text = <<"-a">> THEN <<>> ELSE Without(Gone(a, p), w.text)
  <2>1. CASE w.text = <<"-a">>
    BY <1>4, <2>1 DEF Gone
  <2>2. CASE w.text # <<"-a">> /\ some
    <3>1. Gone(a, p) = <<>> /\ Gone(a, q) = <<>>
      BY <1>4, <2>2 DEF Gone
    <3> QED
      BY <2>2, <3>1, WithoutNothing
  <2>3. CASE w.text # <<"-a">> /\ ~some
    BY <1>2, <1>4, <2>3 DEF Gone
  <2> QED
    BY <2>1, <2>2, <2>3
<1> DEFINE Ok(o, i) == \/ IsAll(o, i)
                       \/ /\ o[i].text \in DOMAIN a
                          /\ \A j \in 1 .. i - 1 : ~IsAll(o, j) /\ o[j].text # o[i].text
<1>6. \A i \in 1..n : Ok(q, i) <=> Ok(p, i)
  <2> TAKE i \in 1..n
  <2>1. \A j \in 1 .. i - 1 : j \in 1..n
    BY <1>1
  <2> QED
    BY <1>1, <2>1 DEF IsAll
<1>7. w.text \in DOMAIN Gone(a, p) <=>
        /\ w.text \in DOMAIN a
        /\ \A j \in 1..n : ~IsAll(p, j) /\ p[j].text # w.text
  <2>1. CASE some
    <3>1. Gone(a, p) = <<>> /\ DOMAIN <<>> = {}
      BY <2>1 DEF Gone
    <3> QED
      BY <1>1, <2>1, <3>1
  <2>2. CASE ~some
    <3>1. DOMAIN Gone(a, p) = DOMAIN a \ Effects!Written(p)
      BY <2>2 DEF Gone, Effects!Without, Restrict, Effects!Restrict
    <3>2. w.text \in Effects!Written(p) <=> \E j \in 1..n : p[j].text = w.text
      BY <1>1 DEF Effects!Written
    <3> QED
      BY <1>1, <2>2, <3>1, <3>2
  <2> QED
    BY <2>1, <2>2
<1>8. Ok(q, n + 1) <=> w.text = <<"-a">> \/ w.text \in DOMAIN Gone(a, p)
  <2>1. (n + 1) - 1 = n
    BY <1>1
  <2>2. \A j \in 1..n : IsAll(q, j) <=> IsAll(p, j)
    BY <1>1 DEF IsAll
  <2>3. IsAll(q, n + 1) <=> w.text = <<"-a">>
    BY <1>1 DEF IsAll
  <2> QED
    BY <1>1, <1>7, <2>1, <2>2, <2>3
<1>9. AllFound(a, q) <=> \A i \in DOMAIN q : Ok(q, i)
  BY DEF AllFound
<1>10. AllFound(a, p) <=> \A i \in 1..n : Ok(p, i)
  BY <1>1 DEF AllFound
<1> HIDE DEF Ok
<1>11. AllFound(a, q) <=> AllFound(a, p) /\ (w.text = <<"-a">> \/ w.text \in DOMAIN Gone(a, p))
  BY <1>3, <1>6, <1>8, <1>9, <1>10
<1> QED
  BY <1>5, <1>11 DEF q

(***************************************************************************)
(* The invariant.  That a command is one step can only be told from a state *)
(* in the midst of it if what the program has made of its copies is what    *)
(* the operands it has dealt with say of the shell's state, which nobody    *)
(* changes meanwhile.                                                       *)
(***************************************************************************)

Paths == {NormalizePath(t) : t \in Text}
Programs == Builtins \cup {"host"}

Contexts ==
    [runs : Programs, ops : OperandLists, todo : Seq(Words), env : Maps(Value),
     cwd : Paths, aliases : Maps(AliasValues), code : {0, 1}]

Target(ops, e) ==
    IF ops # <<>> THEN ops[1].text
    ELSE IF HOME \in DOMAIN e THEN e[HOME][1] ELSE Root

Variable(ops) == IF ops = <<>> THEN <<"REPLY">> ELSE ops[1].text

\* The one operand that is left is the text t.
OneLeft(todo, t) == \E w \in Words : todo = <<w>> /\ w.text = t

CdSoFar(c, e, d) ==
    \/ OneLeft(c.todo, Target(c.ops, e)) /\ c.cwd = d /\ c.code = 0
    \/ c.todo = <<>> /\ c.cwd = d /\ c.code = 1
    \/ c.todo = <<>> /\ c.cwd = ResolvePath(d, Target(c.ops, e)) /\ c.code = 0

ReadSoFar(c, e) ==
    \/ OneLeft(c.todo, Variable(c.ops)) /\ c.env = e
    \/ c.todo = <<>> /\ \E x \in Values : c.env = With(e, Variable(c.ops), x)

\* What has come of the operands that are done.
DoneSoFar(c, e, a, done) ==
    /\ c.runs = "export" => c.env = Effects!Assigned(e, done)
    /\ c.runs = "unset" => c.env = Effects!Without(e, Effects!Written(done))
    /\ c.runs = "alias" => /\ c.aliases = Effects!Assigned(a, done)
                           /\ c.code = IF AllKnown(a, done) THEN 0 ELSE 1
    /\ c.runs = "unalias" => /\ c.aliases = Gone(a, done)
                             /\ c.code = IF AllFound(a, done) THEN 0 ELSE 1

\* Only variables of the host differ.
SameButHostVars(e, f) ==
    \A k \in (DOMAIN e \cup DOMAIN f) \ HostVars : k \in DOMAIN e \cap DOMAIN f /\ f[k] = e[k]

SoFar(c, e, d, a) ==
    /\ c.runs # "cd" => c.cwd = d
    /\ c.runs \notin {"export", "unset", "read", "host"} => c.env = e
    /\ c.runs \notin {"alias", "unalias"} => c.aliases = a
    /\ c.runs \notin {"cd", "alias", "unalias"} => c.code = 0
    /\ c.runs = "cd" => CdSoFar(c, e, d)
    /\ c.runs = "read" => ReadSoFar(c, e)
    /\ c.runs = "host" => SameButHostVars(e, c.env)
    /\ c.runs \in {"export", "unset", "alias", "unalias"} =>
          \E done \in Seq(Words) : c.ops = done \o c.todo /\ DoneSoFar(c, e, a, done)

ShellInv == env \in Maps(Value) /\ cwd \in Paths /\ aliases \in Maps(AliasValues)
RegistryInv ==
    /\ Range(programs) \subseteq Programs
    /\ \A t \in DOMAIN programs : t \in Paths \/ t = UsrBin(Last(t))
CtxInv == Idle \/ (ctx \in Contexts /\ SoFar(ctx, env, cwd, aliases))
IInv == ShellInv /\ RegistryInv /\ CtxInv

LEMMA AliasValuesAreValues ==
    /\ AliasValues \subseteq Value
    /\ Maps(AliasValues) \subseteq Maps(Value)
BY DEF AliasValues, Maps

LEMMA PathFacts ==
    /\ Paths \subseteq Text
    /\ \A t \in Text : NormalizePath(t) \in Paths
    /\ \A d \in Text, t \in Text : ResolvePath(d, t) \in Paths
<1>1. \A t \in Text : NormalizePath(t) \in Paths
  BY DEF Paths
<1>2. Paths \subseteq Text
  BY PartsOfNormal DEF Paths
<1> QED
  BY <1>1, <1>2, NormalFirst DEF ResolvePath

\* What is run under a line: its own words, or those of an alias and its own but the first.
LEMMA ExpandedFacts ==
    ASSUME NEW line \in Lines, aliases \in Maps(AliasValues)
    PROVE  /\ Operands(line) \in OperandLists
           /\ Called(line) \in Text
           /\ LET name == line[1].text
              IN Called(line) = IF name \in DOMAIN aliases /\ aliases[name] # EmptyValue
                                THEN aliases[name][1] ELSE name
<1> DEFINE name == line[1].text
<1>1. name \in Text
  BY LineFacts, WordFacts
<1>2. CASE name \in DOMAIN aliases /\ aliases[name] # EmptyValue
  <2> DEFINE v == aliases[name]
             n == Len(v)
             b == [i \in DOMAIN v |-> Word(v[i])]
             t == Tail(line)
  <2>1. v \in AliasValues
    BY <1>2, MapFacts
  <2>2. v \in Value /\ v \in LineValues /\ v \in Seq(Text) /\ v # <<>>
    BY <2>1 DEF AliasValues, Value
  <2>3. n \in Nat \ {0} /\ DOMAIN v = 1..n /\ \A i \in 1..n : v[i] \in Text
    BY <2>2, ValueFacts
  <2>4. Expanded(line) = b \o t
    BY <1>2 DEF Expanded
  <2>5. b \in [1..n -> Words]
    BY <2>3, WordFacts
  <2>6. b \in Seq(Words) /\ Len(b) = n
    <3>1. b \in Seq(Words)
      BY <2>3, <2>5, SeqDef
    <3> QED
      BY <2>3, <2>5, <3>1, LenProperties
  <2>7. t \in Seq(Words)
    BY LineFacts
  <2>8. \A i \in 1..n : b[i] = Word(v[i])
    BY <2>3
  <2>9. /\ Brought(v) \in Seq(Words) /\ Len(Brought(v)) = n - 1
        /\ \A i \in 1..(n - 1) : Brought(v)[i] = Word(v[i + 1])
    BY <2>2, BroughtFacts
  <2> HIDE DEF b, t, n, v
  <2> DEFINE e == b \o t
  <2>10. /\ e \in Seq(Words) /\ Len(e) = n + Len(t) /\ Len(t) \in Nat
         /\ \A i \in 1..(n + Len(t)) : e[i] = IF i <= n THEN b[i] ELSE t[i - n]
    BY <2>6, <2>7, ConcatProperties, LenProperties
  <2> HIDE DEF e
  <2>11. e # <<>> /\ e[1] = Word(v[1])
    <3>1. 1 \in 1..(n + Len(t)) /\ 1 <= n /\ 1 \in 1..n
      BY <2>3, <2>10
    <3>2. e[1] = Word(v[1])
      BY <2>8, <2>10, <3>1
    <3>3. Len(e) # 0
      BY <2>3, <2>10
    <3> QED
      BY <3>2, <3>3, EmptySeq
  <2>12. Called(line) = v[1] /\ v[1] \in Text
    BY <2>3, <2>4, <2>11, WordFacts DEF Called, e
  <2>13. Tail(e) = Brought(v) \o t
    <3> DEFINE r == Brought(v) \o t
               u == Tail(e)
    <3>1. /\ u \in Seq(Words) /\ Len(u) = n + Len(t) - 1
          /\ \A i \in 1..(n + Len(t) - 1) : u[i] = e[i + 1]
      <4>1. /\ u \in Seq(Words) /\ Len(u) = Len(e) - 1
            /\ \A i \in 1..Len(u) : u[i] = e[i + 1]
        BY <2>10, <2>11, HeadTailProperties
      <4> HIDE DEF u
      <4> QED
        BY <2>3, <2>10, <4>1
    <3>2. /\ r \in Seq(Words) /\ Len(r) = (n - 1) + Len(t)
          /\ \A i \in 1..((n - 1) + Len(t)) :
                r[i] = IF i <= n - 1 THEN Brought(v)[i] ELSE t[i - (n - 1)]
      BY <2>7, <2>9, ConcatProperties
    <3> HIDE DEF r, u
    <3>3. ASSUME NEW i \in 1..(n + Len(t) - 1)
          PROVE  u[i] = r[i]
      <4>1. u[i] = IF i + 1 <= n THEN b[i + 1] ELSE t[(i + 1) - n]
        BY <2>3, <2>10, <3>1
      <4>2. CASE i <= n - 1
        BY <2>3, <2>8, <2>9, <2>10, <3>2, <4>1, <4>2
      <4>3. CASE ~(i <= n - 1)
        <5>1. (i + 1) - n = i - (n - 1) /\ ~(i + 1 <= n) /\ i \in 1..((n - 1) + Len(t))
          BY <2>3, <2>10, <4>3
        <5> QED
          BY <3>2, <4>1, <4>3, <5>1
      <4> QED
        BY <4>2, <4>3
    <3>4. Len(u) = Len(r) /\ \A i \in 1..Len(u) : u[i] = r[i]
      BY <2>3, <2>10, <3>1, <3>2, <3>3
    <3>5. u = r
      BY <3>1, <3>2, <3>4, SeqEqual
    <3> QED
      BY <3>5 DEF u, r
  <2>14. Operands(line) = Brought(v) \o Tail(line)
    BY <2>4, <2>13 DEF Operands, e, t
  <2>15. Operands(line) \in OperandLists
    BY <2>2, <2>14 DEF OperandLists
  <2> QED
    BY <1>2, <2>12, <2>15 DEF v
<1>3. CASE ~(name \in DOMAIN aliases /\ aliases[name] # EmptyValue)
  <2>1. Expanded(line) = line
    BY <1>3 DEF Expanded
  <2>2. EmptyValue \in Seq(Text) /\ EmptyValue # <<>> /\ Len(EmptyValue) = 1
    BY OwnTexts DEF EmptyValue, Value
  <2>3. Brought(EmptyValue) \in Seq(Words) /\ Len(Brought(EmptyValue)) = 0
    BY <2>2, BroughtFacts
  <2>4. Brought(EmptyValue) = <<>>
    BY <2>3, EmptySeq
  <2>5. Brought(EmptyValue) \o Tail(line) = Tail(line)
    BY <2>4, LineFacts, ConcatEmptySeq
  <2>6. Operands(line) = Tail(line)
    BY <2>1 DEF Operands
  <2>7. EmptyValue \in LineValues
    BY DEF LineValues
  <2>8. Operands(line) \in OperandLists
    <3>1. Operands(line) = Brought(EmptyValue) \o Tail(line)
      BY <2>5, <2>6
    <3> QED
      BY <2>7, <3>1 DEF OperandLists
  <2> QED
    BY <1>1, <1>3, <2>1, <2>8 DEF Called
<1> QED
  BY <1>2, <1>3

(***************************************************************************)
(* The invariant holds: first of a new shell.                              *)
(***************************************************************************)

LEMMA ProgramNames ==
    /\ Programs = {"cd", "export", "unset", "alias", "unalias", "read", "echo", "host"}
    /\ "none" \notin Programs
BY DEF Programs, Builtins

LEMMA InitIInv == Init => IInv
<1> SUFFICES ASSUME Init
             PROVE  IInv
  OBVIOUS
<1>1. env \in Maps(Value)
  <2>1. With(<<>>, PATH, DefaultPath) \in Maps(Value)
    BY OwnTexts, MapFacts
  <2>2. InitEnv \in Maps(Value)
    BY <2>1, OwnTexts, MapFacts DEF InitEnv
  <2> QED
    BY <2>2 DEF Init
<1>2. cwd \in Paths
  BY NormalRoot, OwnTexts, PathFacts DEF Init
<1>3. aliases \in Maps(AliasValues)
  BY MapFacts DEF Init
<1>4. RegistryInv
  <2>1. ASSUME NEW b \in Builtins
        PROVE  Last(UsrBin(b)) = b
    BY DEF Last, UsrBin
  <2> QED
    BY <2>1 DEF Init, RegistryInv, Range, Programs
<1>5. CtxInv
  BY DEF Init, CtxInv, Idle
<1> QED
  BY <1>1, <1>2, <1>3, <1>4, <1>5 DEF IInv, ShellInv

(***************************************************************************)
(* The start of a program.                                                 *)
(***************************************************************************)

LEMMA TakenFacts ==
    ASSUME NEW program \in Programs, NEW ops \in OperandLists, env \in Maps(Value)
    PROVE  /\ Taken(program, ops) \in Seq(Words)
           /\ program = "cd" => OneLeft(Taken(program, ops), Target(ops, env))
           /\ program = "read" => OneLeft(Taken(program, ops), Variable(ops))
           /\ program \in {"echo", "host"} => Taken(program, ops) = <<>>
           /\ program \in {"export", "unset", "alias", "unalias"} => Taken(program, ops) = ops
<1>1. \A w \in Words : <<w>> \in Seq(Words)
  BY Tuples
<1>2. <<>> \in Seq(Words) /\ ops \in Seq(Words)
  BY EmptySeq, OperandFacts
<1>3. ops # <<>> => ops[1] \in Words
  BY <1>2, EmptySeq, OperandFacts
<1>4. CASE program = "cd" /\ ops = <<>>
  <2> DEFINE t == IF HOME \in DOMAIN env THEN env[HOME][1] ELSE Root
  <2>1. t \in Text
    <3>1. HOME \in DOMAIN env => env[HOME] \in Value
      BY MapFacts
    <3>2. HOME \in DOMAIN env => env[HOME][1] \in Text
      BY <3>1, ValueFacts
    <3> QED
      BY <3>2, OwnTexts
  <2>2. Taken(program, ops) = <<Word(t)>> /\ Target(ops, env) = t
    BY <1>4 DEF Taken, Target
  <2> HIDE DEF t
  <2> QED
    BY <1>1, <1>4, <2>1, <2>2, WordFacts DEF OneLeft
<1>5. CASE program = "read" /\ ops = <<>>
  <2>1. Taken(program, ops) = <<Word(<<"REPLY">>)>> /\ Variable(ops) = <<"REPLY">>
    BY <1>5 DEF Taken, Variable
  <2> QED
    BY <1>1, <1>5, <2>1, OwnTexts, WordFacts DEF OneLeft
<1>6. CASE program = "cd" /\ ops # <<>>
  <2>1. Taken(program, ops) = <<ops[1]>> /\ Target(ops, env) = ops[1].text
    BY <1>6 DEF Taken, Target
  <2> QED
    BY <1>1, <1>3, <1>6, <2>1 DEF OneLeft
<1>7. CASE program = "read" /\ ops # <<>>
  <2>1. Taken(program, ops) = <<ops[1]>> /\ Variable(ops) = ops[1].text
    BY <1>7 DEF Taken, Variable
  <2> QED
    BY <1>1, <1>3, <1>7, <2>1 DEF OneLeft
<1>8. CASE program \in {"echo", "host"}
  <2>1. Taken(program, ops) = <<>>
    BY <1>8 DEF Taken
  <2> QED
    BY <1>2, <1>8, <2>1
<1>9. CASE program \in {"export", "unset", "alias", "unalias"}
  <2>1. Taken(program, ops) = ops
    BY <1>9 DEF Taken
  <2> QED
    BY <1>2, <1>9, <2>1
<1> QED
  BY <1>4, <1>5, <1>6, <1>7, <1>8, <1>9, ProgramNames

LEMMA StartKeeps ==
    ASSUME IInv, NEW line \in Lines, StartProgram(line)
    PROVE  IInv'
<1> DEFINE program == Dispatched(Called(line))
           ops == Operands(line)
           c == [runs |-> program, ops |-> ops, todo |-> Taken(program, ops),
                 env |-> env, cwd |-> cwd, aliases |-> aliases, code |-> 0]
<1>1. env \in Maps(Value) /\ cwd \in Paths /\ aliases \in Maps(AliasValues)
  BY DEF IInv, ShellInv
<1>2. program \in Programs /\ ctx' = c
  BY DEF StartProgram, Programs
<1>3. UNCHANGED <<programs, env, cwd, aliases>>
  BY DEF StartProgram, shell
<1>4. ops \in OperandLists
  BY <1>1, ExpandedFacts
<1>5. /\ c.runs = program /\ c.ops = ops /\ c.todo = Taken(program, ops) /\ c.env = env
      /\ c.cwd = cwd /\ c.aliases = aliases /\ c.code = 0
  OBVIOUS
<1>6. c \in Contexts
  BY <1>1, <1>2, <1>4, TakenFacts DEF Contexts
<1> HIDE DEF c, program, ops
<1>7. SoFar(c, env, cwd, aliases)
  <2>1. c.runs = "cd" => CdSoFar(c, env, cwd)
    BY <1>1, <1>2, <1>4, <1>5, TakenFacts DEF CdSoFar
  <2>2. c.runs = "read" => ReadSoFar(c, env)
    BY <1>1, <1>2, <1>4, <1>5, TakenFacts DEF ReadSoFar
  <2>3. c.runs = "host" => SameButHostVars(env, c.env)
    BY <1>5 DEF SameButHostVars
  <2>4. ASSUME c.runs \in {"export", "unset", "alias", "unalias"}
        PROVE  \E done \in Seq(Words) : c.ops = done \o c.todo /\ DoneSoFar(c, env, aliases, done)
    <3>1. c.todo = ops /\ c.ops = ops
      BY <1>1, <1>2, <1>4, <1>5, <2>4, TakenFacts
    <3>2. <<>> \in Seq(Words) /\ <<>> \o ops = ops
      BY <1>4, OperandFacts, EmptySeq, ConcatEmptySeq
    <3>3. AllKnown(aliases, <<>>) /\ AllFound(aliases, <<>>) /\ DOMAIN <<>> = {}
      BY DEF AllKnown, AllFound
    <3>4. /\ Effects!Assigned(env, <<>>) = env
          /\ Effects!Without(env, Effects!Written(<<>>)) = env
          /\ Effects!Assigned(aliases, <<>>) = aliases
          /\ Effects!Without(aliases, Effects!Written(<<>>)) = aliases
      BY <1>1, NoOperands
    <3>5. Gone(aliases, <<>>) = aliases
      BY <3>3, <3>4 DEF Gone
    <3>6. DoneSoFar(c, env, aliases, <<>>)
      BY <1>5, <3>3, <3>4, <3>5 DEF DoneSoFar
    <3> QED
      BY <3>1, <3>2, <3>6
  <2> QED
    BY <1>5, <2>1, <2>2, <2>3, <2>4 DEF SoFar
<1>8. CtxInv'
  BY <1>2, <1>3, <1>6, <1>7 DEF CtxInv
<1> QED
  BY <1>3, <1>8 DEF IInv, ShellInv, RegistryInv

(***************************************************************************)
(* One operand after the other.  Each lemma takes a context c, the words    *)
(* its program is given, and what the program makes of the next of them.    *)
(***************************************************************************)

LEMMA NextOperand ==
    ASSUME NEW c \in Contexts, c.todo # <<>>
    PROVE  /\ Head(c.todo) \in Words /\ Tail(c.todo) \in Seq(Words)
           /\ \A w : c.todo = <<w>> => Head(c.todo) = w /\ Tail(c.todo) = <<>>
           /\ \A done \in Seq(Words) : c.ops = done \o c.todo =>
                 /\ Append(done, Head(c.todo)) \in Seq(Words)
                 /\ c.ops = Append(done, Head(c.todo)) \o Tail(c.todo)
                 /\ Head(c.todo).set => Head(c.todo).value \in AliasValues
                 /\ \A i \in DOMAIN done : done[i].set => done[i].value \in AliasValues
<1> DEFINE w == Head(c.todo)
           rest == Tail(c.todo)
<1>1. c.todo \in Seq(Words) /\ c.ops \in OperandLists
  BY DEF Contexts
<1>2. w \in Words /\ rest \in Seq(Words)
  BY <1>1, HeadTailProperties
<1>3. \A x : c.todo = <<x>> => w = x /\ rest = <<>>
  OBVIOUS
<1>4. ASSUME NEW done \in Seq(Words), c.ops = done \o c.todo
      PROVE  /\ Append(done, w) \in Seq(Words)
             /\ c.ops = Append(done, w) \o rest
             /\ w.set => w.value \in AliasValues
             /\ \A i \in DOMAIN done : done[i].set => done[i].value \in AliasValues
  <2>1. /\ Len(c.todo) \in Nat \ {0} /\ Len(done) \in Nat /\ DOMAIN done = 1..Len(done)
        /\ w = c.todo[1]
    BY <1>1, EmptySeq, LenProperties
  <2>2. <<w>> \in Seq(Words) /\ c.todo = <<w>> \o rest
    <3>1. <<w>> \in Seq(Words) /\ Len(<<w>>) = 1 /\ <<w>>[1] = w
      BY <1>2, Tuples
    <3>2. Len(rest) = Len(c.todo) - 1 /\ \A i \in 1..Len(rest) : rest[i] = c.todo[i + 1]
      BY <1>1, HeadTailProperties
    <3> DEFINE t == <<w>> \o rest
    <3>3. /\ t \in Seq(Words) /\ Len(t) = 1 + Len(rest)
          /\ \A i \in 1..(1 + Len(rest)) : t[i] = IF i <= 1 THEN <<w>>[i] ELSE rest[i - 1]
      BY <1>2, <3>1, ConcatProperties
    <3> HIDE DEF t, w, rest
    <3>4. Len(t) = Len(c.todo)
      BY <2>1, <3>2, <3>3
    <3>5. ASSUME NEW i \in 1..Len(c.todo)
          PROVE  c.todo[i] = t[i]
      <4>1. CASE i = 1
        BY <2>1, <3>1, <3>2, <3>3, <4>1
      <4>2. CASE i # 1
        <5>1. i \in 1..(1 + Len(rest)) /\ i - 1 \in 1..Len(rest) /\ ~(i <= 1) /\ (i - 1) + 1 = i
          BY <2>1, <3>2, <4>2
        <5> QED
          BY <3>2, <3>3, <5>1
      <4> QED
        BY <4>1, <4>2
    <3>6. c.todo = t
      BY <1>1, <3>3, <3>4, <3>5, SeqEqual
    <3> QED
      BY <3>1, <3>6 DEF t
  <2>3. Append(done, w) = done \o <<w>> /\ Append(done, w) \in Seq(Words)
    BY <1>2, AppendIsConcat, AppendProperties
  <2>4. c.ops = Append(done, w) \o rest
    <3> HIDE DEF w, rest
    <3>1. done \o (<<w>> \o rest) = (done \o <<w>>) \o rest
      BY <1>2, <2>2, ConcatAssociative
    <3> QED
      BY <1>4, <2>2, <2>3, <3>1
  <2>5. /\ c.ops \in Seq(Words) /\ Len(c.ops) = Len(done) + Len(c.todo)
        /\ \A i \in 1..(Len(done) + Len(c.todo)) :
              c.ops[i] = IF i <= Len(done) THEN done[i] ELSE c.todo[i - Len(done)]
    BY <1>1, <1>4, ConcatProperties
  <2>6. \A i \in 1..Len(c.ops) : c.ops[i].set => c.ops[i].value \in AliasValues
    BY <1>1, OperandFacts
  <2>7. \A i \in DOMAIN done : i \in 1..Len(c.ops) /\ c.ops[i] = done[i]
    BY <2>1, <2>5
  <2>8. Len(done) + 1 \in 1..Len(c.ops) /\ c.ops[Len(done) + 1] = w
    <3>1. /\ Len(done) + 1 \in 1..(Len(done) + Len(c.todo)) /\ ~(Len(done) + 1 <= Len(done))
          /\ (Len(done) + 1) - Len(done) = 1
      BY <2>1
    <3> HIDE DEF w
    <3> QED
      BY <2>1, <2>5, <3>1
  <2> QED
    BY <2>3, <2>4, <2>6, <2>7, <2>8
<1> QED
  BY <1>2, <1>3, <1>4

\* A program that works through its operands has come one further when it has made of the
\* copies what the next one says.
LEMMA GoesOn ==
    ASSUME NEW e \in Maps(Value), NEW d \in Paths, NEW a \in Maps(AliasValues),
           NEW c \in Contexts, c.todo # <<>>, SoFar(c, e, d, a),
           NEW w, w = Head(c.todo),
           NEW c2 \in Contexts,
           c2.runs = c.runs, c2.ops = c.ops, c2.todo = Tail(c.todo), c2.cwd = c.cwd,
           \/ /\ c.runs = "export" /\ c2.aliases = c.aliases /\ c2.code = c.code
              /\ c2.env = IF w.set THEN With(c.env, w.name, w.value) ELSE c.env
           \/ /\ c.runs = "unset" /\ c2.aliases = c.aliases /\ c2.code = c.code
              /\ c2.env = Without(c.env, w.text)
           \/ /\ c.runs = "alias" /\ c2.env = c.env
              /\ c2.aliases = IF w.set THEN With(c.aliases, w.name, w.value) ELSE c.aliases
              /\ c2.code = IF w.set \/ w.name \in DOMAIN c.aliases THEN c.code ELSE 1
           \/ /\ c.runs = "unalias" /\ c2.env = c.env
              /\ c2.aliases = IF w.text = <<"-a">> THEN <<>> ELSE Without(c.aliases, w.text)
              /\ c2.code = IF w.text = <<"-a">> \/ w.text \in DOMAIN c.aliases THEN c.code ELSE 1
    PROVE  SoFar(c2, e, d, a)
<1>1. c.runs \in {"export", "unset", "alias", "unalias"}
  OBVIOUS
<1>2. PICK done \in Seq(Words) : c.ops = done \o c.todo /\ DoneSoFar(c, e, a, done)
  BY <1>1 DEF SoFar
<1> DEFINE now == Append(done, w)
<1>3. /\ w \in Words /\ now \in Seq(Words) /\ c2.ops = now \o c2.todo
      /\ w.set => w.value \in AliasValues
      /\ \A i \in DOMAIN done : done[i].set => done[i].value \in AliasValues
  BY <1>2, NextOperand
<1>4. /\ w.set => w.value \in Value
      /\ \A i \in DOMAIN done : done[i].set => done[i].value \in Value
  BY <1>3, AliasValuesAreValues
<1>5. CASE c.runs = "export"
  <2>1. Effects!Assigned(e, now) = IF w.set THEN With(Effects!Assigned(e, done), w.name, w.value)
                                   ELSE Effects!Assigned(e, done)
    BY <1>3, <1>4, AssignedNext
  <2>2. c2.env = Effects!Assigned(e, now)
    BY <1>2, <1>5, <2>1 DEF DoneSoFar
  <2>3. DoneSoFar(c2, e, a, now)
    BY <1>5, <2>2 DEF DoneSoFar
  <2> QED
    BY <1>3, <1>5, <2>3 DEF SoFar
<1>6. CASE c.runs = "unset"
  <2>1. Effects!Without(e, Effects!Written(now)) =
          Without(Effects!Without(e, Effects!Written(done)), w.text)
    BY <1>3, WithoutNext
  <2>2. c2.env = Effects!Without(e, Effects!Written(now))
    BY <1>2, <1>6, <2>1 DEF DoneSoFar
  <2>3. DoneSoFar(c2, e, a, now)
    BY <1>6, <2>2 DEF DoneSoFar
  <2> QED
    BY <1>3, <1>6, <2>3 DEF SoFar
<1>7. CASE c.runs = "alias"
  <2>1. Effects!Assigned(a, now) = IF w.set THEN With(Effects!Assigned(a, done), w.name, w.value)
                                   ELSE Effects!Assigned(a, done)
    BY <1>3, AssignedNext
  <2>2. AllKnown(a, now) <=>
          AllKnown(a, done) /\ (w.set \/ w.name \in DOMAIN Effects!Assigned(a, done))
    BY <1>3, AllKnownNext
  <2>3. c.aliases = Effects!Assigned(a, done) /\ c.code = IF AllKnown(a, done) THEN 0 ELSE 1
    BY <1>2, <1>7 DEF DoneSoFar
  <2>4. c2.aliases = Effects!Assigned(a, now)
    BY <1>7, <2>1, <2>3
  <2>5. c2.code = IF AllKnown(a, now) THEN 0 ELSE 1
    BY <1>7, <2>2, <2>3
  <2>6. DoneSoFar(c2, e, a, now)
    BY <1>7, <2>4, <2>5 DEF DoneSoFar
  <2> QED
    BY <1>3, <1>7, <2>6 DEF SoFar
<1>8. CASE c.runs = "unalias"
  <2>1. /\ Gone(a, now) = IF w.text = <<"-a">> THEN <<>> ELSE Without(Gone(a, done), w.text)
        /\ AllFound(a, now) <=>
             AllFound(a, done) /\ (w.text = <<"-a">> \/ w.text \in DOMAIN Gone(a, done))
    BY <1>3, GoneNext
  <2>2. c.aliases = Gone(a, done) /\ c.code = IF AllFound(a, done) THEN 0 ELSE 1
    BY <1>2, <1>8 DEF DoneSoFar
  <2>3. c2.aliases = Gone(a, now)
    BY <1>8, <2>1, <2>2
  <2>4. c2.code = IF AllFound(a, now) THEN 0 ELSE 1
    BY <1>8, <2>1, <2>2
  <2>5. DoneSoFar(c2, e, a, now)
    BY <1>8, <2>3, <2>4 DEF DoneSoFar
  <2> QED
    BY <1>3, <1>8, <2>5 DEF SoFar
<1> QED
  BY <1>1, <1>5, <1>6, <1>7, <1>8

LEMMA RunningFacts ==
    ASSUME IInv, NEW p \in Programs, ctx.runs = p
    PROVE  /\ ~Idle /\ ctx \in Contexts /\ SoFar(ctx, env, cwd, aliases)
           /\ env \in Maps(Value) /\ cwd \in Paths /\ aliases \in Maps(AliasValues)
<1>1. ~Idle
  BY ProgramNames DEF Idle, NoProgram
<1> QED
  BY <1>1 DEF IInv, ShellInv, CtxInv

\* The invariant is kept when a program does one thing to its copies.
LEMMA KeptByStep ==
    ASSUME IInv, UNCHANGED <<programs, env, cwd, aliases>>,
           ctx' \in Contexts, SoFar(ctx', env, cwd, aliases)
    PROVE  IInv'
BY DEF IInv, ShellInv, RegistryInv, CtxInv

LEMMA ExportKeeps ==
    ASSUME IInv, Export
    PROVE  IInv'
<1>1. ctx.runs = "export" /\ ctx.todo # <<>>
  BY DEF Export, More
<1>2. /\ ctx \in Contexts /\ SoFar(ctx, env, cwd, aliases)
      /\ env \in Maps(Value) /\ cwd \in Paths /\ aliases \in Maps(AliasValues)
  BY <1>1, RunningFacts, ProgramNames
<1> DEFINE w == Head(ctx.todo)
<1>3. /\ ctx' = [(IF w.set THEN [ctx EXCEPT !.env = With(@, w.name, w.value)] ELSE ctx)
                  EXCEPT !.todo = Tail(@)]
      /\ UNCHANGED <<programs, env, cwd, aliases>>
  BY DEF Export, Takes, Operand, shell
<1>4. w \in Words /\ Tail(ctx.todo) \in Seq(Words)
  BY <1>1, <1>2, NextOperand
<1> HIDE DEF w
<1>5. w.set => With(ctx.env, w.name, w.value) \in Maps(Value)
  BY <1>2, <1>4, WordFacts, MapFacts DEF Contexts
<1>6. /\ ctx' \in Contexts /\ ctx'.runs = ctx.runs /\ ctx'.ops = ctx.ops
      /\ ctx'.todo = Tail(ctx.todo) /\ ctx'.cwd = ctx.cwd
      /\ ctx'.aliases = ctx.aliases /\ ctx'.code = ctx.code
      /\ ctx'.env = IF w.set THEN With(ctx.env, w.name, w.value) ELSE ctx.env
  BY <1>2, <1>3, <1>4, <1>5 DEF Contexts
<1>7. SoFar(ctx', env, cwd, aliases)
  BY <1>1, <1>2, <1>6, GoesOn DEF w
<1> QED
  BY <1>3, <1>6, <1>7, KeptByStep

LEMMA UnsetKeeps ==
    ASSUME IInv, Unset
    PROVE  IInv'
<1>1. ctx.runs = "unset" /\ ctx.todo # <<>>
  BY DEF Unset, More
<1>2. /\ ctx \in Contexts /\ SoFar(ctx, env, cwd, aliases)
      /\ env \in Maps(Value) /\ cwd \in Paths /\ aliases \in Maps(AliasValues)
  BY <1>1, RunningFacts, ProgramNames
<1> DEFINE w == Head(ctx.todo)
<1>3. /\ ctx' = [[ctx EXCEPT !.env = Without(@, w.text)] EXCEPT !.todo = Tail(@)]
      /\ UNCHANGED <<programs, env, cwd, aliases>>
  BY DEF Unset, Takes, Operand, shell
<1>4. w \in Words /\ Tail(ctx.todo) \in Seq(Words)
  BY <1>1, <1>2, NextOperand
<1> HIDE DEF w
<1>5. Without(ctx.env, w.text) \in Maps(Value)
  BY <1>2, MapFacts DEF Contexts
<1>6. /\ ctx' \in Contexts /\ ctx'.runs = ctx.runs /\ ctx'.ops = ctx.ops
      /\ ctx'.todo = Tail(ctx.todo) /\ ctx'.cwd = ctx.cwd
      /\ ctx'.aliases = ctx.aliases /\ ctx'.code = ctx.code
      /\ ctx'.env = Without(ctx.env, w.text)
  BY <1>2, <1>3, <1>4, <1>5 DEF Contexts
<1>7. SoFar(ctx', env, cwd, aliases)
  BY <1>1, <1>2, <1>6, GoesOn DEF w
<1> QED
  BY <1>3, <1>6, <1>7, KeptByStep

LEMMA AliasKeeps ==
    ASSUME IInv, Alias
    PROVE  IInv'
<1>1. ctx.runs = "alias" /\ ctx.todo # <<>>
  BY DEF Alias, More
<1>2. /\ ctx \in Contexts /\ SoFar(ctx, env, cwd, aliases)
      /\ env \in Maps(Value) /\ cwd \in Paths /\ aliases \in Maps(AliasValues)
  BY <1>1, RunningFacts, ProgramNames
<1> DEFINE w == Head(ctx.todo)
<1>3. /\ ctx' = [(IF w.set THEN [ctx EXCEPT !.aliases = With(@, w.name, w.value)]
                  ELSE [ctx EXCEPT !.code = IF w.text \in DOMAIN ctx.aliases THEN @ ELSE 1])
                  EXCEPT !.todo = Tail(@)]
      /\ UNCHANGED <<programs, env, cwd, aliases>>
  BY DEF Alias, Takes, Operand, shell
<1>4. /\ w \in Words /\ Tail(ctx.todo) \in Seq(Words)
      /\ IF w.set THEN w.value \in AliasValues ELSE w.name = w.text
  <2>1. PICK done \in Seq(Words) : ctx.ops = done \o ctx.todo
    BY <1>1, <1>2 DEF SoFar
  <2> QED
    BY <1>1, <1>2, <2>1, NextOperand, WordFacts
<1> HIDE DEF w
<1>5. w.set => With(ctx.aliases, w.name, w.value) \in Maps(AliasValues)
  BY <1>2, <1>4, WordFacts, MapFacts DEF Contexts
<1>6. /\ ctx' \in Contexts /\ ctx'.runs = ctx.runs /\ ctx'.ops = ctx.ops
      /\ ctx'.todo = Tail(ctx.todo) /\ ctx'.cwd = ctx.cwd /\ ctx'.env = ctx.env
      /\ ctx'.aliases = IF w.set THEN With(ctx.aliases, w.name, w.value) ELSE ctx.aliases
      /\ ctx'.code = IF w.set \/ w.name \in DOMAIN ctx.aliases THEN ctx.code ELSE 1
  BY <1>2, <1>3, <1>4, <1>5 DEF Contexts
<1>7. SoFar(ctx', env, cwd, aliases)
  BY <1>1, <1>2, <1>6, GoesOn DEF w
<1> QED
  BY <1>3, <1>6, <1>7, KeptByStep

LEMMA UnaliasKeeps ==
    ASSUME IInv, Unalias
    PROVE  IInv'
<1>1. ctx.runs = "unalias" /\ ctx.todo # <<>>
  BY DEF Unalias, More
<1>2. /\ ctx \in Contexts /\ SoFar(ctx, env, cwd, aliases)
      /\ env \in Maps(Value) /\ cwd \in Paths /\ aliases \in Maps(AliasValues)
  BY <1>1, RunningFacts, ProgramNames
<1> DEFINE w == Head(ctx.todo)
<1>3. /\ ctx' = [(IF w.text = <<"-a">> THEN [ctx EXCEPT !.aliases = <<>>]
                  ELSE [ctx EXCEPT !.aliases = Without(@, w.text),
                                   !.code = IF w.text \in DOMAIN ctx.aliases THEN @ ELSE 1])
                  EXCEPT !.todo = Tail(@)]
      /\ UNCHANGED <<programs, env, cwd, aliases>>
  BY DEF Unalias, Takes, Operand, shell
<1>4. w \in Words /\ Tail(ctx.todo) \in Seq(Words)
  BY <1>1, <1>2, NextOperand
<1> HIDE DEF w
<1>5. Without(ctx.aliases, w.text) \in Maps(AliasValues) /\ <<>> \in Maps(AliasValues)
  BY <1>2, MapFacts DEF Contexts
<1>6. /\ ctx' \in Contexts /\ ctx'.runs = ctx.runs /\ ctx'.ops = ctx.ops
      /\ ctx'.todo = Tail(ctx.todo) /\ ctx'.cwd = ctx.cwd /\ ctx'.env = ctx.env
      /\ ctx'.aliases = IF w.text = <<"-a">> THEN <<>> ELSE Without(ctx.aliases, w.text)
      /\ ctx'.code = IF w.text = <<"-a">> \/ w.text \in DOMAIN ctx.aliases THEN ctx.code ELSE 1
  BY <1>2, <1>3, <1>4, <1>5 DEF Contexts
<1>7. SoFar(ctx', env, cwd, aliases)
  BY <1>1, <1>2, <1>6, GoesOn DEF w
<1> QED
  BY <1>3, <1>6, <1>7, KeptByStep

LEMMA CdKeeps ==
    ASSUME IInv, Cd
    PROVE  IInv'
<1>1. ctx.runs = "cd" /\ ctx.todo # <<>>
  BY DEF Cd, More
<1>2. /\ ctx \in Contexts /\ SoFar(ctx, env, cwd, aliases)
      /\ env \in Maps(Value) /\ cwd \in Paths /\ aliases \in Maps(AliasValues)
  BY <1>1, RunningFacts, ProgramNames
<1> DEFINE w == Head(ctx.todo)
           target == ResolvePath(ctx.cwd, w.text)
<1>3. /\ ctx' = [(IF target \in dirs THEN [ctx EXCEPT !.cwd = target]
                  ELSE [ctx EXCEPT !.code = 1]) EXCEPT !.todo = Tail(@)]
      /\ UNCHANGED <<programs, env, cwd, aliases>>
  BY DEF Cd, Takes, Operand, shell
<1>4. w \in Words /\ Tail(ctx.todo) \in Seq(Words)
  BY <1>1, <1>2, NextOperand
<1>5. OneLeft(ctx.todo, Target(ctx.ops, env)) /\ ctx.cwd = cwd /\ ctx.code = 0
  BY <1>1, <1>2 DEF SoFar, CdSoFar
<1>6. w.text = Target(ctx.ops, env) /\ Tail(ctx.todo) = <<>>
  BY <1>1, <1>2, <1>5, NextOperand DEF OneLeft
<1> HIDE DEF w
<1>7. target \in Paths
  BY <1>2, <1>4, WordFacts, PathFacts DEF Contexts
<1> HIDE DEF target
<1>8. /\ ctx' \in Contexts /\ ctx'.runs = ctx.runs /\ ctx'.ops = ctx.ops
      /\ ctx'.todo = Tail(ctx.todo) /\ ctx'.env = ctx.env /\ ctx'.aliases = ctx.aliases
      /\ ctx'.cwd = IF target \in dirs THEN target ELSE ctx.cwd
      /\ ctx'.code = IF target \in dirs THEN ctx.code ELSE 1
  BY <1>2, <1>3, <1>4, <1>7 DEF Contexts
<1>9. CdSoFar(ctx', env, cwd)
  BY <1>5, <1>6, <1>8 DEF CdSoFar, target
<1>10. SoFar(ctx', env, cwd, aliases)
  BY <1>1, <1>2, <1>8, <1>9 DEF SoFar
<1> QED
  BY <1>3, <1>8, <1>10, KeptByStep

LEMMA ReadKeeps ==
    ASSUME IInv, Read
    PROVE  IInv'
<1>1. ctx.runs = "read" /\ ctx.todo # <<>>
  BY DEF Read, More
<1>2. /\ ctx \in Contexts /\ SoFar(ctx, env, cwd, aliases)
      /\ env \in Maps(Value) /\ cwd \in Paths /\ aliases \in Maps(AliasValues)
  BY <1>1, RunningFacts, ProgramNames
<1> DEFINE w == Head(ctx.todo)
<1>3. PICK x \in Values :
         /\ ctx' = [[ctx EXCEPT !.env = With(@, w.text, x)] EXCEPT !.todo = Tail(@)]
         /\ UNCHANGED <<programs, env, cwd, aliases>>
  BY DEF Read, Takes, Operand, shell
<1>4. w \in Words /\ Tail(ctx.todo) \in Seq(Words)
  BY <1>1, <1>2, NextOperand
<1>5. OneLeft(ctx.todo, Variable(ctx.ops)) /\ ctx.env = env
  BY <1>1, <1>2 DEF SoFar, ReadSoFar
<1>6. w.text = Variable(ctx.ops) /\ Tail(ctx.todo) = <<>>
  BY <1>1, <1>2, <1>5, NextOperand DEF OneLeft
<1> HIDE DEF w
<1>7. With(ctx.env, w.text, x) \in Maps(Value)
  BY <1>2, <1>4, SessionAssumption, WordFacts, MapFacts DEF Contexts
<1>8. /\ ctx' \in Contexts /\ ctx'.runs = ctx.runs /\ ctx'.ops = ctx.ops
      /\ ctx'.todo = Tail(ctx.todo) /\ ctx'.aliases = ctx.aliases
      /\ ctx'.cwd = ctx.cwd /\ ctx'.code = ctx.code
      /\ ctx'.env = With(ctx.env, w.text, x)
  BY <1>2, <1>3, <1>4, <1>7 DEF Contexts
<1>9. ReadSoFar(ctx', env)
  BY <1>5, <1>6, <1>8 DEF ReadSoFar
<1>10. SoFar(ctx', env, cwd, aliases)
  BY <1>1, <1>2, <1>8, <1>9 DEF SoFar
<1> QED
  BY <1>3, <1>8, <1>10, KeptByStep

LEMMA HostKeeps ==
    ASSUME IInv, NEW v \in HostVars,
           HostProgramUnsets(v) \/ \E x \in Values : HostProgramSets(v, x)
    PROVE  IInv'
<1>1. ctx.runs = "host" /\ UNCHANGED <<programs, env, cwd, aliases>>
  BY DEF HostProgramUnsets, HostProgramSets, shell
<1>2. /\ ctx \in Contexts /\ SoFar(ctx, env, cwd, aliases)
      /\ env \in Maps(Value) /\ cwd \in Paths /\ aliases \in Maps(AliasValues)
  BY <1>1, RunningFacts, ProgramNames
<1>3. PICK f : /\ ctx' = [ctx EXCEPT !.env = f]
               /\ f = Without(ctx.env, v) \/ \E x \in Values : f = With(ctx.env, v, x)
  BY DEF HostProgramUnsets, HostProgramSets
<1>4. v \in Text /\ Values \subseteq Value
  BY SessionAssumption
<1>5. f \in Maps(Value)
  BY <1>2, <1>3, <1>4, MapFacts DEF Contexts
<1>6. /\ ctx' \in Contexts /\ ctx'.runs = ctx.runs /\ ctx'.ops = ctx.ops /\ ctx'.todo = ctx.todo
      /\ ctx'.aliases = ctx.aliases /\ ctx'.cwd = ctx.cwd /\ ctx'.code = ctx.code
      /\ ctx'.env = f
  BY <1>2, <1>3, <1>5 DEF Contexts
<1>7. \A k : k # v => /\ k \in DOMAIN f <=> k \in DOMAIN ctx.env
                      /\ k \in DOMAIN f => f[k] = ctx.env[k]
  BY <1>3 DEF With, Without
<1>8. SameButHostVars(env, ctx.env)
  BY <1>1, <1>2 DEF SoFar
<1>9. SameButHostVars(env, f)
  BY <1>7, <1>8 DEF SameButHostVars
<1>10. SoFar(ctx', env, cwd, aliases)
  BY <1>1, <1>2, <1>6, <1>9 DEF SoFar
<1> QED
  BY <1>1, <1>6, <1>10, KeptByStep

LEMMA ReturnKeeps ==
    ASSUME IInv, NEW code \in {0, 1}, Return(code)
    PROVE  IInv'
<1>1. ctx \in Contexts
  BY DEF IInv, CtxInv, Return
<1>2. /\ env' = ctx.env /\ cwd' = ctx.cwd /\ aliases' = ctx.aliases
      /\ ctx' = NoProgram /\ programs' = programs
  BY DEF Return
<1>3. ShellInv'
  BY <1>1, <1>2 DEF ShellInv, Contexts
<1> QED
  BY <1>2, <1>3 DEF IInv, RegistryInv, CtxInv, Idle

LEMMA HostBetweenKeeps ==
    ASSUME IInv,
           \/ \E name \in HostNames : AddProgram(name)
           \/ \E v \in HostVars, x \in Values : SetEnv(v, x)
           \/ \E text \in Texts : SetCwd(text)
    PROVE  IInv'
<1>1. HostNames \subseteq Text /\ Texts \subseteq Text /\ HostVars \subseteq Text /\ Values \subseteq Value
  BY SessionAssumption
<1>2. ASSUME NEW name \in HostNames, AddProgram(name)
      PROVE  IInv'
  <2> DEFINE p == CanonicalProgramPath(name)
  <2>1. p \in Paths \/ p = UsrBin(Last(p))
    <3>1. Last(UsrBin(name[1])) = name[1]
      BY DEF Last, UsrBin
    <3> QED
      BY <1>1, <3>1, PathFacts DEF CanonicalProgramPath
  <2> HIDE DEF p
  <2>2. programs' = With(programs, p, "host") /\ UNCHANGED <<env, cwd, aliases, ctx>>
    BY <1>2 DEF AddProgram, shell, p
  <2>3. DOMAIN programs' = DOMAIN programs \cup {p}
    BY <2>2 DEF With
  <2>4. \A t \in DOMAIN programs' : programs'[t] \in Programs
    <3>1. \A t \in DOMAIN programs : programs[t] \in Programs
      BY DEF IInv, RegistryInv, Range
    <3> QED
      BY <2>2, <3>1, ProgramNames DEF With
  <2>5. RegistryInv'
    BY <2>1, <2>3, <2>4 DEF IInv, RegistryInv, Range
  <2> QED
    BY <2>2, <2>5 DEF IInv, ShellInv, CtxInv, Idle
<1>3. ASSUME NEW v \in HostVars, NEW x \in Values, SetEnv(v, x)
      PROVE  IInv'
  <2>1. /\ Idle /\ env' = With(env, v, x) /\ UNCHANGED <<programs, cwd, aliases, ctx>>
    BY <1>3 DEF SetEnv
  <2>2. With(env, v, x) \in Maps(Value)
    BY <1>1, MapFacts DEF IInv, ShellInv
  <2> QED
    BY <2>1, <2>2 DEF IInv, ShellInv, RegistryInv, CtxInv, Idle
<1>4. ASSUME NEW text \in Texts, SetCwd(text)
      PROVE  IInv'
  <2>1. /\ Idle /\ cwd' = NormalizePath(text) /\ UNCHANGED <<programs, env, aliases, ctx>>
    BY <1>4 DEF SetCwd
  <2>2. cwd' \in Paths
    BY <1>1, <2>1, PathFacts
  <2> QED
    BY <2>1, <2>2 DEF IInv, ShellInv, RegistryInv, CtxInv, Idle
<1> QED
  BY <1>2, <1>3, <1>4

\* What leaves the shell, its registry and any context alone, or drops the context.
LEMMA OtherKeeps ==
    ASSUME IInv, UNCHANGED <<programs, env, cwd, aliases>>, UNCHANGED ctx \/ ctx' = NoProgram
    PROVE  IInv'
BY DEF IInv, ShellInv, RegistryInv, CtxInv, Idle

LEMMA NextIInv ==
    IInv /\ [Next]_vars => IInv'
<1> SUFFICES ASSUME IInv, [Next]_vars
             PROVE  IInv'
  OBVIOUS
<1>1. CASE \E line \in Lines : Exit(line) \/ Which(line) \/ Type(line) \/ Missing(line)
  <2>1. UNCHANGED <<programs, env, cwd, aliases, ctx>>
    BY <1>1 DEF Exit, Which, Type, Missing, shell
  <2> QED
    BY <2>1, OtherKeeps
<1>2. CASE \E line \in Lines : StartProgram(line)
  BY <1>2, StartKeeps
<1>3. CASE Cd \/ Export \/ Unset \/ Read \/ Alias \/ Unalias
  BY <1>3, CdKeeps, ExportKeeps, UnsetKeeps, ReadKeeps, AliasKeeps, UnaliasKeeps
<1>4. CASE \E v \in HostVars : HostProgramUnsets(v) \/ \E x \in Values : HostProgramSets(v, x)
  BY <1>4, HostKeeps
<1>5. CASE \E code \in {0, 1} : Return(code)
  BY <1>5, ReturnKeeps
<1>6. CASE HostProgramFails
  <2>1. UNCHANGED <<programs, env, cwd, aliases>> /\ ctx' = NoProgram
    BY <1>6 DEF HostProgramFails, shell
  <2> QED
    BY <2>1, OtherKeeps
<1>7. CASE \/ \E name \in HostNames : AddProgram(name)
           \/ \E v \in HostVars, x \in Values : SetEnv(v, x)
           \/ \E text \in Texts : SetCwd(text)
  BY <1>7, HostBetweenKeeps
<1>8. CASE DirsChange \/ UNCHANGED vars
  <2>1. UNCHANGED <<programs, env, cwd, aliases, ctx>>
    BY <1>8 DEF DirsChange, vars, shell
  <2> QED
    BY <2>1, OtherKeeps
<1> QED
  BY <1>1, <1>2, <1>3, <1>4, <1>5, <1>6, <1>7, <1>8 DEF Next

THEOREM Invariance == Spec => []IInv
<1> QED
  BY InitIInv, NextIInv, PTL DEF Spec

(***************************************************************************)
(* A command is one step.                                                  *)
(***************************************************************************)

\* What a program has made of all of its operands is what the abstract command does.
LEMMA AllDone ==
    ASSUME NEW c \in Contexts, c.todo = <<>>, SoFar(c, env, cwd, aliases),
           env \in Maps(Value), aliases \in Maps(AliasValues),
           NEW code \in {0, 1}, c.runs # "host" => code = c.code,
           env' = c.env, cwd' = c.cwd, aliases' = c.aliases,
           last' = [ran |-> c.runs, ops |-> c.ops, code |-> code]
    PROVE  Effects!Next
<1> DEFINE ops == c.ops
<1>1. ops \in OperandLists /\ c.runs \in Programs
  BY DEF Contexts
<1>2. Effects!Returns(c.runs, ops, code)
  BY DEF Effects!Returns
<1>3. ~OneLeft(c.todo, Target(ops, env)) /\ ~OneLeft(c.todo, Variable(ops))
  <2>1. \A w : <<w>> # <<>>
    OBVIOUS
  <2> QED
    BY <2>1 DEF OneLeft
<1>4. CASE c.runs = "cd"
  <2>1. \/ c.cwd = cwd /\ c.code = 1
        \/ c.cwd = ResolvePath(cwd, Target(ops, env)) /\ c.code = 0
    BY <1>3, <1>4 DEF SoFar, CdSoFar
  <2>2. c.env = env /\ c.aliases = aliases /\ code = c.code
    BY <1>4 DEF SoFar
  <2>3. Effects!Cd(ops)
    BY <1>2, <1>4, <2>1, <2>2 DEF Effects!Cd, Target, HOME, Root, Effects!Root
  <2> QED
    BY <1>1, <2>3 DEF Effects!Next
<1>5. CASE c.runs = "read"
  <2>1. PICK x \in Values : c.env = With(env, Variable(ops), x)
    BY <1>3, <1>5 DEF SoFar, ReadSoFar
  <2>2. c.cwd = cwd /\ c.aliases = aliases /\ code = c.code /\ c.code = 0
    BY <1>5 DEF SoFar
  <2>3. Effects!Read(ops)
    <3> DEFINE v == Variable(ops)
    <3>1. env' = [k \in DOMAIN env \cup {v} |-> IF k = v THEN x ELSE env[k]]
      BY <2>1 DEF With
    <3> QED
      BY <1>2, <1>5, <2>2, <3>1 DEF Effects!Read, Variable
  <2> QED
    BY <1>1, <2>3 DEF Effects!Next
<1>6. ASSUME c.runs \in {"export", "unset", "alias", "unalias"}
      PROVE  DoneSoFar(c, env, aliases, ops)
  <2>1. PICK done \in Seq(Words) : ops = done \o c.todo /\ DoneSoFar(c, env, aliases, done)
    BY <1>6 DEF SoFar
  <2>2. done \o <<>> = done
    BY ConcatEmptySeq
  <2> QED
    BY <2>1, <2>2
<1>7. CASE c.runs = "export"
  <2>1. /\ c.cwd = cwd /\ c.aliases = aliases /\ code = c.code /\ c.code = 0
        /\ c.env = Effects!Assigned(env, ops)
    BY <1>6, <1>7 DEF SoFar, DoneSoFar
  <2>2. Effects!Export(ops)
    <3> DEFINE after == Effects!Assigned(env, ops)
    <3>1. after = [k \in DOMAIN after |-> after[k]]
      BY DEF Effects!Assigned
    <3> HIDE DEF after
    <3> DEFINE After(named) == [k \in DOMAIN after \cup named |->
                                  IF k \in DOMAIN after THEN after[k] ELSE <<<<"">>>>]
    <3>2. after = After({})
      BY <3>1
    <3>3. env' = After({})
      BY <1>2, <2>1, <3>2 DEF after
    <3> HIDE DEF After
    <3>4. \E named \in {{}, Effects!Names(ops)} : env' = After(named)
      BY <3>3
    <3> QED
      BY <1>2, <1>7, <2>1, <3>4 DEF Effects!Export, after, After
  <2> QED
    BY <1>1, <2>2 DEF Effects!Next
<1>8. CASE c.runs = "unset"
  <2>1. /\ c.cwd = cwd /\ c.aliases = aliases /\ code = c.code /\ c.code = 0
        /\ c.env = Effects!Without(env, Effects!Written(ops))
    BY <1>6, <1>8 DEF SoFar, DoneSoFar
  <2>2. Effects!Unset(ops)
    BY <1>2, <1>8, <2>1 DEF Effects!Unset
  <2> QED
    BY <1>1, <2>2 DEF Effects!Next
<1>9. CASE c.runs = "alias"
  <2>1. /\ c.cwd = cwd /\ c.env = env /\ code = c.code
        /\ c.aliases = Effects!Assigned(aliases, ops)
        /\ c.code = IF AllKnown(aliases, ops) THEN 0 ELSE 1
    BY <1>6, <1>9 DEF SoFar, DoneSoFar
  <2>2. Effects!Alias(ops)
    BY <1>2, <1>9, <2>1 DEF Effects!Alias, AllKnown
  <2> QED
    BY <1>1, <2>2 DEF Effects!Next
<1>10. CASE c.runs = "unalias"
  <2>1. /\ c.cwd = cwd /\ c.env = env /\ code = c.code
        /\ c.aliases = Gone(aliases, ops)
        /\ c.code = IF AllFound(aliases, ops) THEN 0 ELSE 1
    BY <1>6, <1>10 DEF SoFar, DoneSoFar
  <2>2. Effects!Unalias(ops)
    BY <1>2, <1>10, <2>1 DEF Effects!Unalias, AllFound, Gone, IsAll
  <2> QED
    BY <1>1, <2>2 DEF Effects!Next
<1>11. CASE c.runs = "host"
  <2>1. c.cwd = cwd /\ c.aliases = aliases /\ SameButHostVars(env, c.env)
    BY <1>11 DEF SoFar
  <2>2. Effects!OnlyHostVars
    BY <2>1 DEF SameButHostVars, Effects!OnlyHostVars
  <2>3. Effects!HostProgram(ops)
    BY <1>2, <1>11, <2>1, <2>2 DEF Effects!HostProgram
  <2> QED
    BY <1>1, <2>3 DEF Effects!Next
<1>12. CASE c.runs = "echo"
  <2>1. c.cwd = cwd /\ c.env = env /\ c.aliases = aliases /\ code = c.code /\ c.code = 0
    BY <1>12 DEF SoFar
  <2>2. Effects!Other(ops)
    BY <1>2, <1>12, <2>1 DEF Effects!Other
  <2> QED
    BY <1>1, <2>2 DEF Effects!Next
<1> QED
  BY <1>1, <1>4, <1>5, <1>7, <1>8, <1>9, <1>10, <1>11, <1>12, ProgramNames

\* Each step of the session is a step of the abstract one, or none.
LEMMA StepsAreEffects ==
    ASSUME IInv, Next
    PROVE  Effects!Next \/ UNCHANGED Effects!vars
<1>1. env \in Maps(Value) /\ cwd \in Paths /\ aliases \in Maps(AliasValues)
  BY DEF IInv, ShellInv
<1>2. \A line \in Lines : Operands(line) \in OperandLists
  BY <1>1, ExpandedFacts
<1>3. ASSUME NEW line \in Lines, Exit(line) \/ Which(line) \/ Type(line) \/ Missing(line)
      PROVE  Effects!Next
  <2> DEFINE ops == Operands(line)
  <2>1. UNCHANGED <<env, cwd, aliases>>
    BY <1>3 DEF Exit, Which, Type, Missing, shell
  <2>2. \/ Effects!Returns("exit", ops, 0)
        \/ \E ran \in {"which", "type"}, code \in {0, 1} : Effects!Returns(ran, ops, code)
        \/ \E code \in {126, 127} : Effects!Returns("missing", ops, code)
    BY <1>3 DEF Exit, Which, Type, Missing, Answer, Effects!Returns
  <2>3. Effects!Other(ops)
    BY <2>1, <2>2 DEF Effects!Other
  <2> QED
    BY <1>2, <2>3 DEF Effects!Next
<1>4. ASSUME NEW line \in Lines, StartProgram(line)
      PROVE  Effects!Next
  <2>1. Effects!Begins
    BY <1>4 DEF StartProgram, shell, Effects!Begins, NoCommand, Effects!NoCommand
  <2> QED
    BY <2>1 DEF Effects!Next
<1>5. CASE \/ Cd \/ Export \/ Unset \/ Read \/ Alias \/ Unalias
           \/ \E v \in HostVars : HostProgramUnsets(v) \/ \E x \in Values : HostProgramSets(v, x)
           \/ \E name \in HostNames : AddProgram(name)
           \/ DirsChange
  <2>1. UNCHANGED <<env, cwd, aliases, last>>
    BY <1>5 DEF Cd, Export, Unset, Read, Alias, Unalias, Takes, HostProgramUnsets,
                HostProgramSets, AddProgram, DirsChange, shell
  <2> QED
    BY <2>1 DEF Effects!vars
<1>6. ASSUME NEW code \in {0, 1}, Return(code)
      PROVE  Effects!Next
  <2>1. ctx \in Contexts /\ SoFar(ctx, env, cwd, aliases)
    BY <1>6 DEF Return, IInv, CtxInv
  <2>2. /\ ctx.todo = <<>> /\ (ctx.runs # "host" => code = ctx.code)
        /\ env' = ctx.env /\ cwd' = ctx.cwd /\ aliases' = ctx.aliases
        /\ last' = [ran |-> ctx.runs, ops |-> ctx.ops, code |-> code]
    BY <1>6 DEF Return, Answer
  <2> QED
    BY <1>1, <2>1, <2>2, AllDone
<1>7. ASSUME HostProgramFails
      PROVE  Effects!Next
  <2>1. ctx.runs = "host" /\ ctx \in Contexts
    BY <1>7, RunningFacts, ProgramNames DEF HostProgramFails
  <2>2. ctx.ops \in OperandLists
    BY <2>1 DEF Contexts
  <2>3. Effects!Other(ctx.ops)
    BY <1>7 DEF HostProgramFails, shell, Answer, Effects!Other, Effects!Returns
  <2> QED
    BY <2>2, <2>3 DEF Effects!Next
<1>8. ASSUME NEW v \in HostVars, NEW x \in Values, SetEnv(v, x)
      PROVE  Effects!Next
  <2>1. env' = With(env, v, x) /\ UNCHANGED <<cwd, aliases, last>>
    BY <1>8 DEF SetEnv
  <2>2. Effects!OnlyHostVars
    BY <2>1 DEF With, Effects!OnlyHostVars
  <2>3. Effects!HostSets
    BY <2>1, <2>2 DEF Effects!HostSets
  <2> QED
    BY <2>3 DEF Effects!Next
<1>9. ASSUME NEW text \in Texts, SetCwd(text)
      PROVE  Effects!Next
  <2>1. cwd' = NormalizePath(text) /\ UNCHANGED <<env, aliases, last>>
    BY <1>9 DEF SetCwd
  <2>2. cwd' = ResolvePath(Root, text)
    BY <2>1, SessionAssumption, FromRoot
  <2>3. Effects!HostSets
    BY <2>1, <2>2 DEF Effects!HostSets, Root, Effects!Root
  <2> QED
    BY <2>3 DEF Effects!Next
<1> QED
  BY <1>3, <1>4, <1>5, <1>6, <1>7, <1>8, <1>9 DEF Next

(***************************************************************************)
(* For any command lines, a command is one step for the shell: what comes   *)
(* of the copies a program works on is all of what its operands say or,     *)
(* when it fails, nothing, and the exit code tells of every operand         *)
(* (exec.rs:435-458, builtins.rs:1483-1559, 1807-1966).                     *)
(***************************************************************************)
THEOREM CommandsKept == Spec => CommandsAreAtomic
<1>1. Init => Effects!Init
  BY DEF Init, Effects!Init, Root, Effects!Root, NoCommand, Effects!NoCommand
<1>2. IInv /\ [Next]_vars => [Effects!Next]_(Effects!vars)
  <2>1. UNCHANGED vars => UNCHANGED Effects!vars
    BY DEF vars, shell, Effects!vars
  <2> QED
    BY <2>1, StepsAreEffects
<1> QED
  BY <1>1, <1>2, Invariance, PTL DEF Spec, CommandsAreAtomic, Effects!Spec

(***************************************************************************)
(* Whatever earlier commands have made of aliases, PATH and the registry,   *)
(* what `type` says of a name is what runs when it is called (exec.rs:377,  *)
(* 407, 435; registry.rs:47, 69).                                           *)
(***************************************************************************)
THEOREM TypeIsRightKept == Spec => []TypeIsRight
<1>1. IInv => TypeIsRight
  <2> SUFFICES ASSUME IInv, NEW line \in Lines
               PROVE  LET name == line[1].text
                          t == TypeOf(name)
                          runs == Dispatched(Called(line))
                      IN CASE t.is = "alias" ->
                                runs = Meaning(IF t.at = EmptyValue THEN name ELSE t.at[1])
                           [] t.is = "builtin" -> runs = name[1]
                           [] t.is = "file" -> runs = programs[t.at[1]]
                           [] t.is = "missing" -> runs = "missing"
    BY DEF TypeIsRight
  <2> DEFINE name == line[1].text
             t == TypeOf(name)
             runs == Dispatched(Called(line))
  <2>1. \A n : Dispatched(n) = Meaning(n)
    BY DEF Dispatched, Meaning, Resolve, FindPath
  <2>2. Called(line) = IF name \in DOMAIN aliases /\ aliases[name] # EmptyValue
                       THEN aliases[name][1] ELSE name
    BY ExpandedFacts DEF IInv, ShellInv
  <2>3. CASE name \in DOMAIN aliases
    <3>1. t.is = "alias" /\ t.at = aliases[name]
      BY <2>3 DEF TypeOf
    <3>2. runs = Meaning(IF t.at = EmptyValue THEN name ELSE t.at[1])
      BY <2>1, <2>2, <2>3, <3>1
    <3> QED
      BY <3>1, <3>2
  <2>4. CASE name \notin DOMAIN aliases
    <3>1. runs = Meaning(name)
      BY <2>1, <2>2, <2>4
    <3>2. CASE IsIntrinsic(name)
      <4>1. t.is = "builtin" /\ runs = name[1]
        BY <2>4, <3>1, <3>2 DEF TypeOf, Meaning
      <4> QED
        BY <4>1
    <3>3. CASE ~IsIntrinsic(name) /\ FindPath(name) # NotThere
      <4>1. t.is = "file" /\ t.at = <<FindPath(name)>> /\ runs = programs[FindPath(name)]
        BY <2>4, <3>1, <3>3 DEF TypeOf, Meaning
      <4> QED
        BY <4>1
    <3>4. CASE ~IsIntrinsic(name) /\ FindPath(name) = NotThere
      <4>1. t.is = "missing" /\ runs = "missing"
        BY <2>4, <3>1, <3>4 DEF TypeOf, Meaning
      <4> QED
        BY <4>1
    <3> QED
      BY <3>2, <3>3, <3>4
  <2> QED
    BY <2>3, <2>4
<1> QED
  BY <1>1, Invariance, PTL

(***************************************************************************)
(* What a path means, without a stack.                                     *)
(***************************************************************************)

\* How far up the stack stands after k segments above where it stood after i.
Rise(text, i, k) == Downs(text, i + 1, k) - Ups(text, i + 1, k)

LEMMA CountFacts ==
    ASSUME NEW text, NEW i \in Nat, NEW k \in Nat, i <= k
    PROVE  /\ Ups(text, i + 1, k) \in Nat /\ Downs(text, i + 1, k) \in Nat
           /\ Ups(text, i + 1, k + 1) = Ups(text, i + 1, k) + IF text[k + 1] = ".." THEN 1 ELSE 0
           /\ Downs(text, i + 1, k + 1) =
                Downs(text, i + 1, k) + IF IsName(text[k + 1]) THEN 1 ELSE 0
<1> DEFINE u(j) == {l \in i + 1 .. j : text[l] = ".."}
           d(j) == {l \in i + 1 .. j : IsName(text[l])}
<1>1. IsFiniteSet(i + 1 .. k)
  BY FS_Interval
<1>2. u(k) \in SUBSET (i + 1 .. k) /\ d(k) \in SUBSET (i + 1 .. k)
  OBVIOUS
<1>3. IsFiniteSet(u(k)) /\ IsFiniteSet(d(k))
  BY <1>1, <1>2, FS_Subset
<1>4. k + 1 \notin u(k) /\ k + 1 \notin d(k)
  OBVIOUS
<1>5. \A l : l \in i + 1 .. k + 1 <=> l \in i + 1 .. k \/ l = k + 1
  OBVIOUS
<1>6. u(k + 1) = IF text[k + 1] = ".." THEN u(k) \cup {k + 1} ELSE u(k)
  BY <1>5
<1>7. d(k + 1) = IF IsName(text[k + 1]) THEN d(k) \cup {k + 1} ELSE d(k)
  BY <1>5
<1> HIDE DEF u, d
<1>8. Cardinality(u(k)) \in Nat /\ Cardinality(d(k)) \in Nat
  BY <1>3, FS_CardinalityType
<1>9. Cardinality(u(k) \cup {k + 1}) = Cardinality(u(k)) + 1
  BY <1>3, <1>4, FS_AddElement
<1>10. Cardinality(d(k) \cup {k + 1}) = Cardinality(d(k)) + 1
  BY <1>3, <1>4, FS_AddElement
<1>11. \A j : Ups(text, i + 1, j) = Cardinality(u(j)) /\ Downs(text, i + 1, j) = Cardinality(d(j))
  BY DEF Ups, Downs, u, d
<1> QED
  BY <1>6, <1>7, <1>8, <1>9, <1>10, <1>11

LEMMA RiseFacts ==
    ASSUME NEW text, NEW i \in Nat, NEW k \in Nat, i <= k
    PROVE  /\ Rise(text, i, k) \in Int
           /\ Rise(text, i, k) >= 0 <=> Ups(text, i + 1, k) <= Downs(text, i + 1, k)
           /\ Rise(text, k, k) = 0
           /\ IsName(text[k + 1]) => Rise(text, i, k + 1) = Rise(text, i, k) + 1
           /\ text[k + 1] = ".." => Rise(text, i, k + 1) = Rise(text, i, k) - 1
           /\ ~IsName(text[k + 1]) /\ text[k + 1] # ".." => Rise(text, i, k + 1) = Rise(text, i, k)
<1>1. /\ Ups(text, i + 1, k) \in Nat /\ Downs(text, i + 1, k) \in Nat
      /\ Ups(text, i + 1, k + 1) = Ups(text, i + 1, k) + IF text[k + 1] = ".." THEN 1 ELSE 0
      /\ Downs(text, i + 1, k + 1) =
           Downs(text, i + 1, k) + IF IsName(text[k + 1]) THEN 1 ELSE 0
  BY CountFacts
<1>2. IsName(text[k + 1]) => text[k + 1] # ".."
  BY DEF IsName
<1>3. Rise(text, k, k) = 0
  <2>1. k + 1 .. k = {}
    OBVIOUS
  <2>2. Ups(text, k + 1, k) = 0 /\ Downs(text, k + 1, k) = 0
    BY <2>1, FS_EmptySet DEF Ups, Downs
  <2> QED
    BY <2>2 DEF Rise
<1> QED
  BY <1>1, <1>2, <1>3 DEF Rise

\* The names that stand among the first k segments.
StandsTo(text, k) ==
    {i \in 1..k : IsName(text[i]) /\ \A j \in i + 1 .. k : Rise(text, i, j) >= 0}

\* They are at the places p, in order, and each is as far from the top of the stack as the
\* stack has risen since.
IsStack(text, k, p, parts) ==
    /\ p \in Seq(Nat) /\ Len(parts) = Len(p)
    /\ \A m \in 1..Len(p) : p[m] \in 1..k /\ parts[m] = text[p[m]]
    /\ \A l, m \in 1..Len(p) : l < m => p[l] < p[m]
    /\ \A i : i \in StandsTo(text, k) <=> \E m \in 1..Len(p) : p[m] = i
    /\ \A m \in 1..Len(p) : Rise(text, p[m], k) = Len(p) - m

LEMMA StackNext ==
    ASSUME NEW text \in Seq(Segments), NEW k \in Nat, k + 1 <= Len(text),
           NEW parts \in Seq(Names), NEW p, IsStack(text, k, p, parts)
    PROVE  \E q : IsStack(text, k + 1, q, Push(parts, text[k + 1]))
<1> DEFINE s == text[k + 1]
           n == Len(p)
<1>1. n \in Nat /\ DOMAIN p = 1..n /\ p \in Seq(Nat) /\ Len(parts) = n
  BY LenProperties DEF IsStack
<1>2. /\ \A m \in 1..n : p[m] \in 1..k /\ p[m] \in Nat /\ parts[m] = text[p[m]]
      /\ \A l, m \in 1..n : l < m => p[l] < p[m]
      /\ \A i : i \in StandsTo(text, k) <=> \E m \in 1..n : p[m] = i
      /\ \A m \in 1..n : Rise(text, p[m], k) = n - m
  BY DEF IsStack
<1>3. s \in Segments
  BY LenProperties, ElementOfSeq
<1> HIDE DEF n, s
<1>4. \A i \in 1..k : /\ Rise(text, i, k) \in Int
                      /\ IsName(s) => Rise(text, i, k + 1) = Rise(text, i, k) + 1
                      /\ s = ".." => Rise(text, i, k + 1) = Rise(text, i, k) - 1
                      /\ ~IsName(s) /\ s # ".." => Rise(text, i, k + 1) = Rise(text, i, k)
  <2> TAKE i \in 1..k
  <2>1. i \in Nat /\ i <= k
    OBVIOUS
  <2> QED
    BY <2>1, RiseFacts DEF s
<1>5. \A i \in 1..k : i \in StandsTo(text, k + 1) <=>
                         i \in StandsTo(text, k) /\ Rise(text, i, k + 1) >= 0
  <2> TAKE i \in 1..k
  <2>1. \A j : j \in i + 1 .. k + 1 <=> j \in i + 1 .. k \/ j = k + 1
    OBVIOUS
  <2>2. i \in 1..(k + 1)
    OBVIOUS
  <2> QED
    BY <2>1, <2>2 DEF StandsTo
<1>6. k + 1 \in StandsTo(text, k + 1) <=> IsName(s)
  <2>1. (k + 1) + 1 .. k + 1 = {} /\ k + 1 \in 1..(k + 1)
    OBVIOUS
  <2> QED
    BY <2>1 DEF StandsTo, s
<1>7. \A i : i \in StandsTo(text, k + 1) => i \in 1..k \/ i = k + 1
  BY DEF StandsTo
<1>8. CASE IsName(s)
  <2> DEFINE q == Append(p, k + 1)
             new == Append(parts, s)
  <2>1. Push(parts, s) = new /\ s \in Names
    BY <1>3, <1>8, PushFacts DEF Names
  <2>2. /\ q \in Seq(Nat) /\ Len(q) = n + 1 /\ q[n + 1] = k + 1
        /\ \A m \in 1..n : q[m] = p[m]
    BY <1>1, AppendProperties DEF n
  <2>3. /\ Len(new) = n + 1 /\ new[n + 1] = s
        /\ \A m \in 1..n : new[m] = parts[m]
    BY <1>1, <2>1, AppendProperties
  <2> HIDE DEF q, new
  <2>4. \A m : m \in 1..(n + 1) <=> m \in 1..n \/ m = n + 1
    BY <1>1
  <2>5. \A m \in 1..(n + 1) : q[m] \in 1..(k + 1) /\ new[m] = text[q[m]]
    <3>1. \A m \in 1..n : q[m] \in 1..(k + 1) /\ new[m] = text[q[m]]
      BY <1>2, <2>2, <2>3
    <3>2. q[n + 1] \in 1..(k + 1) /\ new[n + 1] = text[q[n + 1]]
      BY <2>2, <2>3 DEF s
    <3> QED
      BY <2>4, <3>1, <3>2
  <2>6. ASSUME NEW l \in 1..(n + 1), NEW m \in 1..(n + 1), l < m
        PROVE  q[l] < q[m]
    <3>1. l \in 1..n
      BY <1>1, <2>6
    <3>2. CASE m \in 1..n
      BY <1>2, <2>2, <2>6, <3>1, <3>2
    <3>3. CASE m = n + 1
      BY <1>2, <2>2, <3>1, <3>3
    <3> QED
      BY <2>4, <3>2, <3>3
  <2>7. \A i \in 1..k : i \in StandsTo(text, k + 1) <=> i \in StandsTo(text, k)
    <3>1. ASSUME NEW i \in 1..k, i \in StandsTo(text, k)
          PROVE  Rise(text, i, k + 1) >= 0
      <4>1. PICK m \in 1..n : p[m] = i
        BY <1>2, <3>1
      <4>2. Rise(text, i, k) = n - m
        BY <1>2, <4>1
      <4> QED
        BY <1>1, <1>4, <1>8, <4>2
    <3> QED
      BY <1>5, <3>1
  <2>8. \A i : i \in StandsTo(text, k + 1) <=> \E m \in 1..(n + 1) : q[m] = i
    <3>1. \A i : i \in StandsTo(text, k) => i \in 1..k
      BY DEF StandsTo
    <3>2. \A i : i \in StandsTo(text, k + 1) <=> i \in StandsTo(text, k) \/ i = k + 1
      BY <1>6, <1>7, <1>8, <2>7, <3>1
    <3>3. \A i : (\E m \in 1..(n + 1) : q[m] = i) <=> (\E m \in 1..n : p[m] = i) \/ i = k + 1
      BY <2>2, <2>4
    <3> QED
      BY <1>2, <3>2, <3>3
  <2>9. ASSUME NEW m \in 1..(n + 1)
        PROVE  Rise(text, q[m], k + 1) = (n + 1) - m
    <3>1. CASE m \in 1..n
      BY <1>1, <1>2, <1>4, <1>8, <2>2, <3>1
    <3>2. CASE m = n + 1
      <4>1. Rise(text, k + 1, k + 1) = 0
        BY RiseFacts
      <4> QED
        BY <1>1, <2>2, <3>2, <4>1
    <3> QED
      BY <2>4, <3>1, <3>2
  <2>10. IsStack(text, k + 1, q, new)
    BY <2>2, <2>3, <2>5, <2>6, <2>8, <2>9 DEF IsStack
  <2> QED
    BY <2>1, <2>10 DEF s
<1>9. CASE ~IsName(s) /\ s # ".."
  <2>1. Push(parts, s) = parts
    BY <1>9, PushFacts DEF IsName
  <2>2. \A i : i \in StandsTo(text, k + 1) <=> i \in StandsTo(text, k)
    <3>1. ASSUME NEW i \in StandsTo(text, k)
          PROVE  i \in 1..k /\ Rise(text, i, k + 1) >= 0
      <4>1. PICK m \in 1..n : p[m] = i
        BY <1>2, <3>1
      <4>2. Rise(text, i, k) = n - m /\ i \in 1..k
        BY <1>2, <4>1
      <4> QED
        BY <1>1, <1>4, <1>9, <4>2
    <3> QED
      BY <1>5, <1>6, <1>7, <1>9, <3>1
  <2>3. \A m \in 1..n : Rise(text, p[m], k + 1) = n - m /\ p[m] \in 1..(k + 1)
    BY <1>2, <1>4, <1>9
  <2>4. IsStack(text, k + 1, p, parts)
    BY <1>1, <1>2, <2>2, <2>3 DEF IsStack, n
  <2> QED
    BY <2>1, <2>4 DEF s
<1>10. CASE s = ".." /\ parts = <<>>
  <2>1. Push(parts, s) = <<>> /\ n = 0
    BY <1>1, <1>10, EmptySeq, PushFacts
  <2>2. \A i : i \notin StandsTo(text, k + 1)
    <3>1. \A i : i \notin StandsTo(text, k)
      BY <1>2, <2>1
    <3>2. ~IsName(s)
      BY <1>10 DEF IsName
    <3> QED
      BY <1>5, <1>6, <1>7, <3>1, <3>2
  <2>3. IsStack(text, k + 1, p, parts)
    <3>1. 1..n = {}
      BY <2>1
    <3> QED
      BY <1>1, <2>2, <3>1 DEF IsStack, n
  <2> QED
    BY <1>10, <2>1, <2>3 DEF s
<1>11. CASE s = ".." /\ parts # <<>>
  <2> DEFINE q == SubSeq(p, 1, n - 1)
             new == Front(parts)
  <2>1. Push(parts, s) = new
    BY <1>11, PushFacts
  <2>2. n >= 1 /\ n - 1 \in Nat
    BY <1>1, <1>11, EmptySeq
  <2>3. \A m \in 1..(n - 1) : m \in 1..n /\ p[m] \in Nat /\ parts[m] \in Names
    BY <1>1, <1>2, ElementOfSeq
  <2>4. q \in Seq(Nat) /\ Len(q) = n - 1 /\ \A m \in 1..(n - 1) : q[m] = p[m]
    <3>1. /\ q \in Seq(Nat) /\ Len(q) = IF 1 <= n - 1 THEN (n - 1) - 1 + 1 ELSE 0
          /\ \A m \in 1..((n - 1) - 1 + 1) : q[m] = p[1 + m - 1]
      BY <2>2, <2>3, SubSeqProperties
    <3> HIDE DEF q
    <3>2. (n - 1) - 1 + 1 = n - 1 /\ \A m \in 1..(n - 1) : 1 + m - 1 = m
      BY <2>2
    <3> QED
      BY <2>2, <3>1, <3>2
  <2>5. Len(new) = n - 1 /\ \A m \in 1..(n - 1) : new[m] = parts[m]
    <3>1. new = SubSeq(parts, 1, n - 1)
      BY <1>1 DEF Front
    <3> HIDE DEF new
    <3>2. /\ Len(new) = IF 1 <= n - 1 THEN (n - 1) - 1 + 1 ELSE 0
          /\ \A m \in 1..((n - 1) - 1 + 1) : new[m] = parts[1 + m - 1]
      BY <2>2, <2>3, <3>1, SubSeqProperties
    <3>3. (n - 1) - 1 + 1 = n - 1 /\ \A m \in 1..(n - 1) : 1 + m - 1 = m
      BY <2>2
    <3> QED
      BY <2>2, <3>2, <3>3
  <2> HIDE DEF q, new
  <2>6. \A m \in 1..n : Rise(text, p[m], k + 1) = (n - 1) - m
    BY <1>1, <1>2, <1>4, <1>11
  <2>7. \A i : i \in StandsTo(text, k + 1) <=> \E m \in 1..(n - 1) : q[m] = i
    <3>1. ~IsName(s)
      BY <1>11 DEF IsName
    <3>2. \A i : i \in StandsTo(text, k + 1) <=>
                    i \in 1..k /\ i \in StandsTo(text, k) /\ Rise(text, i, k + 1) >= 0
      BY <1>5, <1>6, <1>7, <3>1
    <3>3. ASSUME NEW i \in StandsTo(text, k + 1)
          PROVE  \E m \in 1..(n - 1) : q[m] = i
      <4>1. PICK m \in 1..n : p[m] = i
        BY <1>2, <3>2
      <4>2. (n - 1) - m >= 0
        BY <2>6, <3>2, <4>1
      <4>3. m \in 1..(n - 1)
        BY <2>2, <4>2
      <4> QED
        BY <2>4, <4>1, <4>3
    <3>4. ASSUME NEW m \in 1..(n - 1)
          PROVE  q[m] \in StandsTo(text, k + 1)
      <4>1. m \in 1..n /\ (n - 1) - m >= 0
        BY <1>1, <2>2
      <4>2. p[m] \in 1..k /\ p[m] \in StandsTo(text, k) /\ Rise(text, p[m], k + 1) >= 0
        BY <1>2, <2>6, <4>1
      <4> QED
        BY <2>4, <3>2, <4>2
    <3> QED
      BY <3>3, <3>4
  <2>8. \A m \in 1..(n - 1) : /\ q[m] \in 1..(k + 1) /\ new[m] = text[q[m]]
                              /\ Rise(text, q[m], k + 1) = (n - 1) - m
    <3> TAKE m \in 1..(n - 1)
    <3>1. m \in 1..n /\ q[m] = p[m] /\ p[m] \in 1..k
      BY <1>2, <2>3, <2>4
    <3> QED
      BY <1>2, <2>5, <2>6, <3>1
  <2>9. \A l, m \in 1..(n - 1) : l < m => q[l] < q[m]
    BY <1>2, <2>3, <2>4
  <2>10. IsStack(text, k + 1, q, new)
    BY <2>4, <2>5, <2>7, <2>8, <2>9 DEF IsStack
  <2> QED
    BY <2>1, <2>10 DEF s
<1> QED
  BY <1>8, <1>9, <1>10, <1>11

LEMMA StackOf ==
    ASSUME NEW text \in Seq(Segments)
    PROVE  \E p : IsStack(text, Len(text), p, Parts(text))
<1> DEFINE n == Len(text)
<1>1. n \in Nat
  BY LenProperties
<1>2. PICK o : Pushing!Series(o, <<>>, text, n) /\ Pushing!Fold(<<>>, text) = o[n]
  BY PushSteps
<1>3. \A k \in 0..n : o[k] \in Seq(Names)
  BY <1>2, EmptySeq, SeriesOfNames
<1> DEFINE T == {k \in Nat : k <= n => \E p : IsStack(text, k, p, o[k])}
<1>4. 0 \in T
  <2>1. o[0] = <<>> /\ <<>> \in Seq(Nat) /\ Len(<<>>) = 0 /\ 1..0 = {}
    BY <1>2, EmptySeq DEF Pushing!Series
  <2>2. IsStack(text, 0, <<>>, o[0])
    BY <2>1 DEF IsStack, StandsTo
  <2> QED
    BY <2>2
<1>5. ASSUME NEW k \in Nat, k \in T
      PROVE  k + 1 \in T
  <2> SUFFICES ASSUME k + 1 <= n
               PROVE  \E p : IsStack(text, k + 1, p, o[k + 1])
    OBVIOUS
  <2>1. k + 1 \in 1..n /\ (k + 1) - 1 = k /\ k \in 0..n /\ k <= n
    BY <1>1
  <2>2. PICK p : IsStack(text, k, p, o[k])
    BY <1>5, <2>1
  <2>3. o[k + 1] = Push(o[k], text[k + 1])
    BY <1>2, <2>1 DEF Pushing!Series
  <2> QED
    BY <1>3, <2>1, <2>2, <2>3, StackNext
<1> HIDE DEF T
<1>6. n \in T
  BY <1>1, <1>4, <1>5, Pushing!SetInduction
<1> QED
  BY <1>1, <1>2, <1>6, PartsFold DEF T, Parts

\* The k-th smallest of what a growing sequence lists is its k-th element.
LEMMA NthOf ==
    ASSUME NEW p \in Seq(Nat), \A l, m \in 1..Len(p) : l < m => p[l] < p[m],
           NEW S, \A i : i \in S <=> \E m \in 1..Len(p) : p[m] = i
    PROVE  Cardinality(S) = Len(p) /\ \A m \in 1..Len(p) : Nth(S, m) = p[m]
<1> DEFINE n == Len(p)
           upto(i) == {j \in S : j <= i}
<1>1. n \in Nat /\ \A m \in 1..n : p[m] \in Nat
  BY LenProperties, ElementOfSeq
<1>2. \A l, m \in 1..n : p[l] = p[m] => l = m
  BY <1>1
<1>3. \A l, m \in 1..n : p[l] <= p[m] <=> l <= m
  BY <1>1
<1> HIDE DEF n
<1>4. ASSUME NEW m \in 0..n, NEW U, \A i : i \in U <=> \E l \in 1..m : p[l] = i
      PROVE  Cardinality(U) = m
  <2> DEFINE f == [l \in 1..m |-> p[l]]
  <2>1. \A l \in 1..m : l \in 1..n
    BY <1>1
  <2>2. f \in [1..m -> U]
    BY <1>4
  <2>3. f \in Bijection(1..m, U)
    BY <1>2, <1>4, <2>1, <2>2 DEF Bijection, Injection, Surjection, IsInjective
  <2>4. ExistsBijection(1..m, U)
    BY <2>3 DEF ExistsBijection
  <2> QED
    BY <1>1, <2>4, FS_CountingElements
<1>5. Cardinality(S) = n
  BY <1>1, <1>4 DEF n
<1>6. \A m \in 1..n : Cardinality(upto(p[m])) = m
  <2> TAKE m \in 1..n
  <2>1. \A l \in 1..n : l <= m <=> l \in 1..m
    BY <1>1
  <2>2. \A l \in 1..m : l \in 1..n
    BY <1>1
  <2>3. \A i : i \in S <=> \E l \in 1..n : p[l] = i
    BY DEF n
  <2>4. \A i : i \in upto(p[m]) <=> \E l \in 1..m : p[l] = i
    BY <1>3, <2>1, <2>2, <2>3
  <2> HIDE DEF upto
  <2>5. m \in 0..n
    BY <1>1
  <2> QED
    BY <1>4, <2>4, <2>5
<1>7. ASSUME NEW m \in 1..n
      PROVE  Nth(S, m) = p[m]
  <2>1. p[m] \in S
    BY DEF n
  <2>2. \A i \in S : Cardinality(upto(i)) = m => i = p[m]
    <3>1. \A i \in S : \E l \in 1..n : p[l] = i
      BY DEF n
    <3> HIDE DEF upto
    <3> QED
      BY <1>6, <3>1
  <2>3. Nth(S, m) = CHOOSE i \in S : Cardinality(upto(i)) = m
    BY DEF Nth
  <2> HIDE DEF upto
  <2> QED
    BY <1>6, <2>1, <2>2, <2>3
<1> QED
  BY <1>5, <1>7 DEF n

LEMMA NormalStands ==
    ASSUME NEW text \in Text
    PROVE  NormalizePath(text) = Standing(text)
<1> DEFINE n == Len(text)
           S == Stands(text)
           parts == Parts(text)
<1>1. text \in Seq(Segments) /\ n \in Nat /\ DOMAIN text = 1..n
  BY LenProperties DEF Text
<1>2. PICK p : IsStack(text, n, p, parts)
  BY <1>1, StackOf
<1>3. S = StandsTo(text, n)
  <2>1. ASSUME NEW i \in 1..n, NEW j \in i + 1 .. n
        PROVE  Rise(text, i, j) >= 0 <=> Ups(text, i + 1, j) <= Downs(text, i + 1, j)
    <3>1. i \in Nat /\ j \in Nat /\ i <= j
      BY <1>1
    <3> QED
      BY <3>1, RiseFacts
  <2> QED
    BY <1>1, <2>1 DEF Stands, StandsTo
<1>4. parts \in Seq(Names)
  BY PartsOfNormal
<1> HIDE DEF S, parts
<1>5. /\ p \in Seq(Nat) /\ Len(parts) = Len(p) /\ Len(p) \in Nat
      /\ \A m \in 1..Len(p) : parts[m] = text[p[m]]
      /\ \A l, m \in 1..Len(p) : l < m => p[l] < p[m]
      /\ \A i : i \in S <=> \E m \in 1..Len(p) : p[m] = i
  BY <1>2, <1>3, LenProperties DEF IsStack
<1>6. Cardinality(S) = Len(p) /\ \A m \in 1..Len(p) : Nth(S, m) = p[m]
  BY <1>5, NthOf
<1>7. S = {} <=> parts = <<>>
  <2>1. parts = <<>> <=> Len(p) = 0
    BY <1>4, <1>5, EmptySeq
  <2>2. Len(p) = 0 => S = {}
    <3>1. 1..0 = {}
      OBVIOUS
    <3> QED
      BY <1>5, <3>1
  <2>3. Len(p) # 0 => p[1] \in S
    <3>1. Len(p) # 0 => 1 \in 1..Len(p)
      BY <1>5
    <3> QED
      BY <1>5, <3>1
  <2> QED
    BY <2>1, <2>2, <2>3
<1>8. [m \in 1 .. Cardinality(S) |-> text[Nth(S, m)]] = parts
  <2>1. parts = [m \in 1 .. Len(p) |-> parts[m]]
    BY <1>4, <1>5, LenProperties
  <2>2. \A m \in 1..Len(p) : text[Nth(S, m)] = parts[m]
    BY <1>5, <1>6
  <2> QED
    BY <1>6, <2>1, <2>2
<1> QED
  BY <1>7, <1>8 DEF NormalizePath, Standing, S, parts

(***************************************************************************)
(* Variables, aliases and running programs have their shape; the working    *)
(* directory and the keys of the registry are normalised paths, however     *)
(* they were given (vfs.rs:58, wasm.rs:613, registry.rs:90).                *)
(***************************************************************************)
THEOREM TypeKept == Spec => []TypeOK
<1>1. \A t \in Paths : t = Standing(t)
  <2> TAKE t \in Paths
  <2>1. PICK u \in Text : t = NormalizePath(u)
    BY DEF Paths
  <2>2. t \in Text /\ NormalizePath(t) = t
    BY <2>1, PartsOfNormal
  <2> QED
    BY <2>2, NormalStands
<1>2. IInv => TypeOK
  <2> SUFFICES ASSUME IInv
               PROVE  TypeOK
    OBVIOUS
  <2>1. /\ Range(programs) \subseteq Builtins \cup {"host"}
        /\ \A t \in DOMAIN programs : t = Standing(t) \/ t = UsrBin(Last(t))
    BY <1>1 DEF IInv, RegistryInv, Programs
  <2>2. cwd = Standing(cwd)
    BY <1>1 DEF IInv, ShellInv
  <2>3. /\ \A k \in DOMAIN env : env[k] \in Value
        /\ \A k \in DOMAIN aliases : aliases[k] \in Value
    BY MapFacts, AliasValuesAreValues DEF IInv, ShellInv
  <2>4. Idle \/ (ctx.runs \in Builtins \cup {"host"} /\ ctx.code \in {0, 1}
                 /\ ctx.cwd = Standing(ctx.cwd))
    BY <1>1 DEF IInv, CtxInv, Contexts, Programs
  <2> QED
    BY <2>1, <2>2, <2>3, <2>4 DEF TypeOK
<1> QED
  BY <1>2, Invariance, PTL

(***************************************************************************)
(* Names mean after `cd d` what they meant behind `d` before it             *)
(* (builtins.rs:1483, vfs.rs:58, 75).                                       *)
(***************************************************************************)
THEOREM CdThenNameKept == Spec => CdThenName
<1> DEFINE Step ==
      ctx.runs = "cd" /\ ctx.ops # <<>> /\ ctx'.runs = "none" /\ last'.code = 0 =>
         LET d == ctx.ops[1].text
             from == IF Absolute(d) THEN d ELSE cwd \o d
         IN \A t \in Texts : ~Absolute(t) => ResolvePath(cwd', t) = Standing(from \o t)
<1>1. ASSUME IInv, [Next]_vars
      PROVE  Step \/ UNCHANGED vars
  <2> SUFFICES ASSUME ctx.runs = "cd", ctx.ops # <<>>, ctx'.runs = "none", last'.code = 0,
                      Next, NEW t \in Texts, ~Absolute(t)
               PROVE  LET d == ctx.ops[1].text
                          from == IF Absolute(d) THEN d ELSE cwd \o d
                      IN ResolvePath(cwd', t) = Standing(from \o t)
    BY <1>1
  <2> DEFINE d == ctx.ops[1].text
             from == IF Absolute(d) THEN d ELSE cwd \o d
  <2>1. /\ ~Idle /\ ctx \in Contexts /\ SoFar(ctx, env, cwd, aliases) /\ cwd \in Paths
    BY <1>1, RunningFacts, ProgramNames
  <2>2. PICK code \in {0, 1} : Return(code)
    <3>1. ctx' # ctx
      OBVIOUS
    <3>2. ~Cd
      <4>1. Cd => ctx'.runs = ctx.runs
        BY <2>1 DEF Cd, Takes, Contexts
      <4> QED
        BY <4>1
    <3> QED
      BY <2>1, <3>1, <3>2
         DEF Next, Exit, Which, Type, Missing, StartProgram, Export, Unset, Read, Alias, Unalias,
             More, HostProgramUnsets, HostProgramSets, HostProgramFails, AddProgram, SetEnv,
             SetCwd, DirsChange
  <2>3. ctx.todo = <<>> /\ cwd' = ctx.cwd /\ ctx.code = 0
    BY <2>2 DEF Return, Answer
  <2>4. cwd' = ResolvePath(cwd, d)
    <3>1. ~OneLeft(ctx.todo, Target(ctx.ops, env))
      <4>1. \A w : <<w>> # <<>>
        OBVIOUS
      <4> QED
        BY <2>3, <4>1 DEF OneLeft
    <3>2. Target(ctx.ops, env) = d
      BY DEF Target
    <3>3. CdSoFar(ctx, env, cwd)
      BY <2>1 DEF SoFar
    <3> QED
      BY <2>3, <3>1, <3>2, <3>3 DEF CdSoFar
  <2>5. d \in Text /\ t \in Text /\ cwd \in Text
    <3>1. ctx.ops \in OperandLists
      BY <2>1 DEF Contexts
    <3>2. Len(ctx.ops) \in Nat \ {0}
      BY <3>1, OperandFacts, EmptySeq
    <3>3. ctx.ops[1] \in Words
      BY <3>1, <3>2, OperandFacts
    <3> QED
      BY <2>1, <3>3, WordFacts, PathFacts, SessionAssumption
  <2>6. from \in Text /\ cwd' = NormalizePath(from)
    BY <2>4, <2>5, NormalFirst DEF ResolvePath
  <2> HIDE DEF d, from
  <2>7. ResolvePath(cwd', t) = NormalizePath(cwd' \o t)
    BY DEF ResolvePath
  <2>8. /\ from \o t \in Text
        /\ NormalizePath(NormalizePath(from) \o t) = NormalizePath(from \o t)
    BY <2>5, <2>6, NormalFirst
  <2>9. ResolvePath(cwd', t) = Standing(from \o t)
    BY <2>6, <2>7, <2>8, NormalStands
  <2> QED
    BY <2>9 DEF d, from
<1>2. IInv /\ [Next]_vars => [Step]_vars
  BY <1>1
<1> QED
  BY <1>2, Invariance, PTL DEF Spec, CdThenName
=============================================================================
