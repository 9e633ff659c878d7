------------------------------ MODULE VfsProofs ------------------------------
(***************************************************************************)
(* Theorems about Vfs, for every set of names, every depth, every initial  *)
(* tree and every mount.  First what the paths and their prefixes are, by  *)
(* positions; then what each helper on trees does to the shape of a tree.  *)
(***************************************************************************)
EXTENDS Vfs, SequenceTheorems, TLAPS

\* Paths are the sequences of names within the bound.
LEMMA PathFacts ==
    /\ \A p \in Paths : p \in Seq(Names) /\ Len(p) <= MaxDepth
    /\ \A p \in Seq(Names) : Len(p) <= MaxDepth => p \in Paths
    /\ <<>> \in Paths /\ <<>> \in Seq(Names)
<1>1. ASSUME NEW p \in Paths
      PROVE  p \in Seq(Names) /\ Len(p) <= MaxDepth
  <2>1. PICK n \in 0..MaxDepth : p \in [1..n -> Names]
    BY DEF Paths
  <2>2. n \in Nat
    BY <2>1, BoundAssumption
  <2>3. p \in Seq(Names)
    BY <2>1, <2>2, IsASeq
  <2>4. Len(p) = n
    BY <2>1, <2>2, <2>3, LenProperties
  <2> QED
    BY <2>1, <2>3, <2>4, BoundAssumption
<1>2. ASSUME NEW p \in Seq(Names), Len(p) <= MaxDepth
      PROVE  p \in Paths
  <2>1. p \in [1..Len(p) -> Names] /\ Len(p) \in Nat
    BY LenProperties
  <2>2. Len(p) \in 0..MaxDepth
    BY <1>2, <2>1, BoundAssumption
  <2> QED
    BY <2>1, <2>2 DEF Paths
<1>3. <<>> \in Seq(Names) /\ Len(<<>>) <= MaxDepth
  BY EmptySeq, BoundAssumption
<1> QED
  BY <1>1, <1>2, <1>3

\* A part of a sequence of names, by positions.
LEMMA PartFacts ==
    ASSUME NEW p \in Seq(Names), NEW m \in Nat \ {0}, NEW n \in Nat, n <= Len(p), m <= n + 1
    PROVE  /\ SubSeq(p, m, n) \in Seq(Names)
           /\ Len(SubSeq(p, m, n)) = n - m + 1
           /\ \A i \in 1..(n - m + 1) : SubSeq(p, m, n)[i] = p[m + i - 1]
<1>1. Len(p) \in Nat /\ \A i \in m..n : p[i] \in Names
  BY ElementOfSeq, LenProperties
<1>2. CASE m <= n
  BY <1>1, <1>2, SubSeqProperties
<1>3. CASE m = n + 1
  BY <1>1, <1>3, SubSeqProperties, SubSeqEmpty, EmptySeq
<1> QED
  BY <1>2, <1>3

LEMMA ParentFacts ==
    ASSUME NEW p \in Seq(Names), p # <<>>
    PROVE  /\ Len(p) \in Nat \ {0}
           /\ Parent(p) \in Seq(Names)
           /\ Len(Parent(p)) = Len(p) - 1
           /\ \A i \in 1..(Len(p) - 1) : Parent(p)[i] = p[i]
           /\ p \in Paths => Parent(p) \in Paths
<1>1. Len(p) \in Nat \ {0}
  BY EmptySeq, LenProperties
<1>2. /\ Parent(p) \in Seq(Names)
      /\ Len(Parent(p)) = Len(p) - 1
      /\ \A i \in 1..(Len(p) - 1) : Parent(p)[i] = p[i]
  <2> DEFINE n == Len(p) - 1
  <2>1. n \in Nat /\ n <= Len(p) /\ 1 <= n + 1
    BY <1>1
  <2> HIDE DEF n
  <2>2. /\ SubSeq(p, 1, n) \in Seq(Names)
        /\ Len(SubSeq(p, 1, n)) = n
        /\ \A i \in 1..n : SubSeq(p, 1, n)[i] = p[i]
    BY <2>1, PartFacts
  <2> QED
    BY <2>2 DEF Parent, n
<1>3. ASSUME p \in Paths PROVE Parent(p) \in Paths
  <2>1. Len(Parent(p)) <= MaxDepth
    BY <1>1, <1>2, <1>3, PathFacts, BoundAssumption
  <2> QED
    BY <1>2, <2>1, PathFacts
<1> QED
  BY <1>1, <1>2, <1>3

\* Being a prefix, by positions.
LEMMA PrefixFacts ==
    ASSUME NEW p \in Seq(Names), NEW q \in Seq(Names)
    PROVE  IsPrefix(p, q) <=> Len(p) <= Len(q) /\ \A i \in 1..Len(p) : p[i] = q[i]
<1>1. Len(p) \in Nat /\ Len(q) \in Nat
  BY LenProperties
<1>2. SubSeq(p, 1, Len(p)) = p
  BY <1>1, SubSeqFull
<1>3. ASSUME Len(p) <= Len(q)
      PROVE  p = SubSeq(q, 1, Len(p)) <=> \A i \in 1..Len(p) : p[i] = q[i]
  <2>1. /\ SubSeq(q, 1, Len(p)) \in Seq(Names)
        /\ Len(SubSeq(q, 1, Len(p))) = Len(p)
        /\ \A i \in 1..Len(p) : SubSeq(q, 1, Len(p))[i] = q[i]
    BY <1>1, <1>3, PartFacts
  <2> QED
    BY <2>1, SeqEqual
<1> QED
  BY <1>2, <1>3 DEF IsPrefix

\* Stepping to the parent stays at or below p, until p itself is left.
LEMMA PrefixOfParent ==
    ASSUME NEW p \in Seq(Names), NEW q \in Seq(Names), q # <<>>
    PROVE  IsPrefix(p, Parent(q)) <=> IsPrefix(p, q) /\ q # p
<1>1. Len(p) \in Nat /\ Len(q) \in Nat \ {0}
  BY ParentFacts, LenProperties
<1>2. /\ Parent(q) \in Seq(Names)
      /\ Len(Parent(q)) = Len(q) - 1
      /\ \A i \in 1..(Len(q) - 1) : Parent(q)[i] = q[i]
  BY ParentFacts
<1>3. IsPrefix(p, q) <=> Len(p) <= Len(q) /\ \A i \in 1..Len(p) : p[i] = q[i]
  BY PrefixFacts
<1>4. IsPrefix(p, Parent(q)) <=>
        Len(p) <= Len(q) - 1 /\ \A i \in 1..Len(p) : p[i] = Parent(q)[i]
  BY <1>2, PrefixFacts
<1>5. IsPrefix(p, q) /\ Len(p) = Len(q) => p = q
  BY <1>3, SeqEqual
<1> QED
  BY <1>1, <1>2, <1>3, <1>4, <1>5

\* The root is below nothing else; everything is below itself.
LEMMA PrefixEnds ==
    ASSUME NEW p \in Seq(Names)
    PROVE  IsPrefix(p, p) /\ (IsPrefix(p, <<>>) => p = <<>>)
<1>1. Len(p) \in Nat /\ <<>> \in Seq(Names) /\ Len(<<>>) = 0
  BY EmptySeq, LenProperties
<1>2. IsPrefix(p, p)
  BY <1>1, PrefixFacts
<1>3. IsPrefix(p, <<>>) => Len(p) = 0
  <2>1. IsPrefix(p, <<>>) => Len(p) <= Len(<<>>)
    BY <1>1, PrefixFacts
  <2> QED
    BY <1>1, <2>1
<1> QED
  BY <1>2, <1>3, EmptySeq

\* What p \o r is.
LEMMA ConcatFacts ==
    ASSUME NEW p \in Seq(Names), NEW r \in Seq(Names)
    PROVE  /\ p \o r \in Seq(Names)
           /\ Len(p \o r) = Len(p) + Len(r)
           /\ IsPrefix(p, p \o r)
           /\ SubSeq(p \o r, Len(p) + 1, Len(p \o r)) = r
           /\ r = <<>> => p \o r = p
           /\ r # <<>> => Parent(p \o r) = p \o Parent(r) /\ p \o r # <<>>
<1>1. Len(p) \in Nat /\ Len(r) \in Nat
  BY LenProperties
<1>2. /\ p \o r \in Seq(Names)
      /\ Len(p \o r) = Len(p) + Len(r)
      /\ \A i \in 1..Len(p) : (p \o r)[i] = p[i]
      /\ \A i \in 1..Len(r) : (p \o r)[Len(p) + i] = r[i]
  <2>1. /\ p \o r \in Seq(Names)
        /\ Len(p \o r) = Len(p) + Len(r)
        /\ \A i \in 1..(Len(p) + Len(r)) :
              (p \o r)[i] = IF i <= Len(p) THEN p[i] ELSE r[i - Len(p)]
    BY ConcatProperties
  <2> QED
    BY <1>1, <2>1
<1>3. IsPrefix(p, p \o r)
  <2>1. Len(p) <= Len(p \o r) /\ \A i \in 1..Len(p) : p[i] = (p \o r)[i]
    BY <1>1, <1>2
  <2>2. p \o r \in Seq(Names)
    BY <1>2
  <2> QED
    BY <2>1, <2>2, PrefixFacts
<1>4. SubSeq(p \o r, Len(p) + 1, Len(p \o r)) = r
  <2> DEFINE s == SubSeq(p \o r, Len(p) + 1, Len(p \o r))
  <2>1. /\ s \in Seq(Names) /\ Len(s) = Len(r)
        /\ \A i \in 1..Len(r) : s[i] = (p \o r)[Len(p) + 1 + i - 1]
    BY <1>1, <1>2, PartFacts
  <2>2. \A i \in 1..Len(r) : s[i] = r[i]
    BY <1>1, <1>2, <2>1
  <2> QED
    BY <2>1, <2>2, SeqEqual
<1>5. r = <<>> => p \o r = p
  BY ConcatEmptySeq
<1>6. ASSUME r # <<>>
      PROVE  Parent(p \o r) = p \o Parent(r) /\ p \o r # <<>>
  <2>1. /\ Len(r) \in Nat \ {0} /\ Parent(r) \in Seq(Names)
        /\ Len(Parent(r)) = Len(r) - 1
        /\ \A i \in 1..(Len(r) - 1) : Parent(r)[i] = r[i]
    BY <1>6, ParentFacts
  <2>2. p \o r # <<>>
    BY <1>1, <1>2, <2>1, EmptySeq
  <2>3. /\ Parent(p \o r) \in Seq(Names)
        /\ Len(Parent(p \o r)) = Len(p) + Len(r) - 1
        /\ \A i \in 1..(Len(p) + Len(r) - 1) : Parent(p \o r)[i] = (p \o r)[i]
    <3> DEFINE c == p \o r
    <3>1. c \in Seq(Names) /\ c # <<>> /\ Len(c) = Len(p) + Len(r)
      BY <1>2, <2>2
    <3> HIDE DEF c
    <3>2. /\ Parent(c) \in Seq(Names)
          /\ Len(Parent(c)) = Len(c) - 1
          /\ \A i \in 1..(Len(c) - 1) : Parent(c)[i] = c[i]
      BY <3>1, ParentFacts
    <3>3. /\ Len(Parent(c)) = Len(p) + Len(r) - 1
          /\ \A i \in 1..(Len(p) + Len(r) - 1) : Parent(c)[i] = c[i]
      BY <1>1, <3>1, <3>2
    <3> QED
      BY <3>2, <3>3 DEF c
  <2>4. /\ p \o Parent(r) \in Seq(Names)
        /\ Len(p \o Parent(r)) = Len(p) + Len(r) - 1
        /\ \A i \in 1..(Len(p) + Len(r) - 1) :
              (p \o Parent(r))[i] = IF i <= Len(p) THEN p[i] ELSE Parent(r)[i - Len(p)]
    BY <1>1, <2>1, ConcatProperties
  <2>5. ASSUME NEW i \in 1..(Len(p) + Len(r) - 1)
        PROVE  (p \o Parent(r))[i] = (p \o r)[i]
    <3>1. CASE i <= Len(p)
      BY <1>1, <1>2, <2>4, <3>1
    <3>2. CASE i > Len(p)
      <4>1. i - Len(p) \in 1..(Len(r) - 1) /\ i = Len(p) + (i - Len(p))
        BY <1>1, <2>1, <3>2
      <4>2. (p \o r)[i] = r[i - Len(p)]
        BY <1>1, <1>2, <2>1, <4>1
      <4> QED
        BY <1>1, <2>1, <2>4, <3>2, <4>1, <4>2
    <3>3. i <= Len(p) \/ i > Len(p)
      BY <1>1, <2>1
    <3> QED
      BY <3>1, <3>2, <3>3
  <2> QED
    BY <2>2, <2>3, <2>4, <2>5, SeqEqual
<1> QED
  BY <1>2, <1>3, <1>4, <1>5, <1>6

\* What is below p is p with the rest put after it.
LEMMA SuffixFacts ==
    ASSUME NEW p \in Seq(Names), NEW q \in Seq(Names), IsPrefix(p, q)
    PROVE  /\ SubSeq(q, Len(p) + 1, Len(q)) \in Seq(Names)
           /\ p \o SubSeq(q, Len(p) + 1, Len(q)) = q
<1> DEFINE r == SubSeq(q, Len(p) + 1, Len(q))
<1>1. Len(p) \in Nat /\ Len(q) \in Nat
  BY LenProperties
<1>2. Len(p) <= Len(q) /\ \A i \in 1..Len(p) : p[i] = q[i]
  BY PrefixFacts
<1>3. /\ r \in Seq(Names) /\ Len(r) = Len(q) - Len(p)
      /\ \A i \in 1..(Len(q) - Len(p)) : r[i] = q[Len(p) + 1 + i - 1]
  BY <1>1, <1>2, PartFacts
<1>4. /\ p \o r \in Seq(Names) /\ Len(p \o r) = Len(q)
      /\ \A i \in 1..Len(q) : (p \o r)[i] = IF i <= Len(p) THEN p[i] ELSE r[i - Len(p)]
  BY <1>1, <1>2, <1>3, ConcatProperties
<1>5. \A i \in 1..Len(q) : (p \o r)[i] = q[i]
  BY <1>1, <1>2, <1>3, <1>4
<1> QED
  BY <1>3, <1>4, <1>5, SeqEqual
-----------------------------------------------------------------------------
\* A tree as Grafted and Subtree take it: p \o r stands for its entry r.
Hangs(p, sub) ==
    /\ DOMAIN sub \subseteq Seq(Names)
    /\ <<>> \in DOMAIN sub
    /\ \A r \in DOMAIN sub : p \o r \in Paths
    /\ \A r \in DOMAIN sub \ {<<>>} :
          Parent(r) \in DOMAIN sub /\ sub[Parent(r)].kind = "dir"

LEMMA LeafHangs ==
    ASSUME NEW p \in Paths, NEW node
    PROVE  Hangs(p, Leaf(node))
<1>1. p \o <<>> = p
  BY PathFacts, ConcatFacts
<1> QED
  BY <1>1, PathFacts DEF Hangs, Leaf

\* Where MemSetNode and MemMkdir put something there is a directory to hold it.
LEMMA ParentErrorFacts ==
    ASSUME NEW t, NEW p, ParentError(t, p) = "ok"
    PROVE  Parent(p) \in DOMAIN t /\ t[Parent(p)].kind = "dir"
<1>1. Missing(t, Parent(p)) # "ok"
  BY DEF Missing
<1> QED
  BY <1>1 DEF ParentError, IsDir

\* Taking a node out, with what hangs below it, leaves a tree.
LEMMA PrunedShape ==
    ASSUME NEW t, Shape(t), NEW p \in Paths, p # <<>>
    PROVE  Shape(Pruned(t, p))
<1>1. p \in Seq(Names) /\ DOMAIN t \subseteq Seq(Names)
  BY PathFacts DEF Shape
<1>2. DOMAIN Pruned(t, p) = {q \in DOMAIN t : ~IsPrefix(p, q)}
      /\ \A q \in DOMAIN t : ~IsPrefix(p, q) => Pruned(t, p)[q] = t[q]
  BY DEF Pruned
<1>3. <<>> \in DOMAIN Pruned(t, p) /\ Pruned(t, p)[<<>>].kind = "dir"
  BY <1>1, <1>2, PrefixEnds DEF Shape
<1>4. ASSUME NEW q \in DOMAIN Pruned(t, p), q # <<>>
      PROVE  Parent(q) \in DOMAIN Pruned(t, p) /\ Pruned(t, p)[Parent(q)].kind = "dir"
  <2>1. q \in DOMAIN t /\ q \in Seq(Names) /\ ~IsPrefix(p, q)
    BY <1>1, <1>2
  <2>2. Parent(q) \in DOMAIN t /\ t[Parent(q)].kind = "dir"
    BY <1>4, <2>1 DEF Shape
  <2>3. ~IsPrefix(p, Parent(q))
    BY <1>1, <1>4, <2>1, PrefixOfParent
  <2> QED
    BY <1>2, <2>2, <2>3
<1>5. DOMAIN Pruned(t, p) \subseteq Paths
  BY <1>2 DEF Shape
<1> QED
  BY <1>3, <1>4, <1>5 DEF Shape

\* What is at a path after a graft.
LEMMA GraftedValues ==
    ASSUME NEW t, DOMAIN t \subseteq Paths, NEW p \in Paths,
           NEW sub, DOMAIN sub \subseteq Seq(Names)
    PROVE  /\ \A q \in DOMAIN Grafted(t, p, sub) :
                 \/ q \in DOMAIN t /\ ~IsPrefix(p, q)
                 \/ \E r \in DOMAIN sub : q = p \o r
           /\ \A q \in DOMAIN t : ~IsPrefix(p, q) =>
                 q \in DOMAIN Grafted(t, p, sub) /\ Grafted(t, p, sub)[q] = t[q]
           /\ \A r \in DOMAIN sub :
                 /\ p \o r \in DOMAIN Grafted(t, p, sub)
                 /\ Grafted(t, p, sub)[p \o r] = sub[r]
<1> DEFINE all == {q \in DOMAIN t : ~IsPrefix(p, q)} \cup {p \o r : r \in DOMAIN sub}
<1>1. Grafted(t, p, sub) =
        [q \in all |-> IF IsPrefix(p, q) THEN sub[SubSeq(q, Len(p) + 1, Len(q))] ELSE t[q]]
  BY DEF Grafted, Pruned
<1>2. ASSUME NEW r \in DOMAIN sub
      PROVE  p \o r \in all /\ Grafted(t, p, sub)[p \o r] = sub[r]
  <2>1. IsPrefix(p, p \o r) /\ SubSeq(p \o r, Len(p) + 1, Len(p \o r)) = r
    BY PathFacts, ConcatFacts
  <2> QED
    BY <1>1, <2>1
<1>3. DOMAIN Grafted(t, p, sub) = all
  BY <1>1
<1>4. ASSUME NEW q \in DOMAIN t, ~IsPrefix(p, q)
      PROVE  q \in all /\ Grafted(t, p, sub)[q] = t[q]
  BY <1>1, <1>4
<1> QED
  BY <1>2, <1>3, <1>4

\* Putting a tree into a directory that exists leaves a tree.
LEMMA GraftedShape ==
    ASSUME NEW t, Shape(t), NEW p \in Paths, p # <<>>, ParentError(t, p) = "ok",
           NEW sub, Hangs(p, sub)
    PROVE  Shape(Grafted(t, p, sub))
<1> DEFINE g == Grafted(t, p, sub)
<1>1. /\ p \in Seq(Names)
      /\ DOMAIN t \subseteq Paths /\ DOMAIN t \subseteq Seq(Names)
      /\ DOMAIN sub \subseteq Seq(Names) /\ <<>> \in DOMAIN sub
      /\ \A r \in DOMAIN sub : p \o r \in Paths
  BY PathFacts DEF Shape, Hangs
<1>2. /\ \A q \in DOMAIN g : \/ q \in DOMAIN t /\ ~IsPrefix(p, q)
                             \/ \E r \in DOMAIN sub : q = p \o r
      /\ \A q \in DOMAIN t : ~IsPrefix(p, q) => q \in DOMAIN g /\ g[q] = t[q]
      /\ \A r \in DOMAIN sub : p \o r \in DOMAIN g /\ g[p \o r] = sub[r]
  <2>1. DOMAIN t \subseteq Paths /\ DOMAIN sub \subseteq Seq(Names)
    BY <1>1
  <2> QED
    BY <2>1, GraftedValues
<1> HIDE DEF g
<1>3. DOMAIN g \subseteq Paths
  BY <1>1, <1>2
<1>4. <<>> \in DOMAIN g /\ g[<<>>].kind = "dir"
  BY <1>1, <1>2, PrefixEnds DEF Shape
<1>5. ASSUME NEW q \in DOMAIN g, q # <<>>
      PROVE  Parent(q) \in DOMAIN g /\ g[Parent(q)].kind = "dir"
  <2>1. CASE q \in DOMAIN t /\ ~IsPrefix(p, q)
    <3>1. Parent(q) \in DOMAIN t /\ t[Parent(q)].kind = "dir"
      BY <1>5, <2>1 DEF Shape
    <3>2. ~IsPrefix(p, Parent(q))
      BY <1>1, <1>5, <2>1, PrefixOfParent
    <3> QED
      BY <1>2, <3>1, <3>2
  <2>2. CASE q = p
    <3>1. Parent(q) \in DOMAIN t /\ t[Parent(q)].kind = "dir"
      BY <2>2, ParentErrorFacts
    <3>2. ~IsPrefix(p, Parent(q))
      BY <1>1, <2>2, PrefixOfParent
    <3> QED
      BY <1>2, <3>1, <3>2
  <2>3. ASSUME NEW r \in DOMAIN sub, q = p \o r, r # <<>>
        PROVE  Parent(q) \in DOMAIN g /\ g[Parent(q)].kind = "dir"
    <3>1. Parent(r) \in DOMAIN sub /\ sub[Parent(r)].kind = "dir"
      BY <2>3 DEF Hangs
    <3>2. Parent(q) = p \o Parent(r)
      BY <1>1, <2>3, ConcatFacts
    <3> QED
      BY <1>2, <3>1, <3>2
  <2>4. p \o <<>> = p
    BY <1>1, ConcatFacts, PathFacts
  <2> QED
    BY <1>2, <2>1, <2>2, <2>3, <2>4
<1>6. Shape(g)
  BY <1>3, <1>4, <1>5 DEF Shape
<1> QED
  BY <1>6 DEF g

\* What hangs below an entry of a tree.
LEMMA SubtreeFacts ==
    ASSUME NEW t, Shape(t), NEW p \in DOMAIN t
    PROVE  /\ DOMAIN Subtree(t, p) \subseteq Seq(Names)
           /\ <<>> \in DOMAIN Subtree(t, p)
           /\ \A r \in Seq(Names) : r \in DOMAIN Subtree(t, p) <=> p \o r \in DOMAIN t
           /\ \A r \in DOMAIN Subtree(t, p) : Subtree(t, p)[r] = t[p \o r]
           /\ \A r \in DOMAIN Subtree(t, p) \ {<<>>} :
                 /\ Parent(r) \in DOMAIN Subtree(t, p)
                 /\ Subtree(t, p)[Parent(r)].kind = "dir"
<1>1. p \in Seq(Names) /\ DOMAIN t \subseteq Seq(Names)
  BY PathFacts DEF Shape
<1>2. DOMAIN Subtree(t, p) =
        {SubSeq(q, Len(p) + 1, Len(q)) : q \in {q \in DOMAIN t : IsPrefix(p, q)}}
      /\ \A r \in DOMAIN Subtree(t, p) : Subtree(t, p)[r] = t[p \o r]
  BY DEF Subtree
<1>3. ASSUME NEW r \in DOMAIN Subtree(t, p)
      PROVE  r \in Seq(Names) /\ p \o r \in DOMAIN t
  <2>1. PICK q \in DOMAIN t : IsPrefix(p, q) /\ r = SubSeq(q, Len(p) + 1, Len(q))
    BY <1>2
  <2>2. r \in Seq(Names) /\ p \o r = q
    BY <1>1, <2>1, SuffixFacts
  <2> QED
    BY <2>2
<1>4. ASSUME NEW r \in Seq(Names), p \o r \in DOMAIN t
      PROVE  r \in DOMAIN Subtree(t, p)
  <2>1. IsPrefix(p, p \o r) /\ SubSeq(p \o r, Len(p) + 1, Len(p \o r)) = r
    BY <1>1, ConcatFacts
  <2> QED
    BY <1>2, <1>4, <2>1
<1>5. <<>> \in DOMAIN Subtree(t, p)
  <2>1. p \o <<>> = p
    BY <1>1, ConcatFacts, PathFacts
  <2> QED
    BY <1>4, <2>1, PathFacts
<1>6. ASSUME NEW r \in DOMAIN Subtree(t, p), r # <<>>
      PROVE  Parent(r) \in DOMAIN Subtree(t, p) /\ Subtree(t, p)[Parent(r)].kind = "dir"
  <2>1. r \in Seq(Names) /\ p \o r \in DOMAIN t
    BY <1>3
  <2>2. Parent(r) \in Seq(Names)
    BY <1>6, <2>1, ParentFacts
  <2>3. Parent(p \o r) = p \o Parent(r) /\ p \o r # <<>>
    BY <1>1, <1>6, <2>1, ConcatFacts
  <2>4. p \o Parent(r) \in DOMAIN t /\ t[p \o Parent(r)].kind = "dir"
    BY <2>1, <2>3 DEF Shape
  <2> QED
    BY <1>2, <1>4, <2>2, <2>4
<1> QED
  BY <1>2, <1>3, <1>4, <1>5, <1>6
-----------------------------------------------------------------------------
\* Each operation on the tree leaves a tree.

LEMMA SetNodeShape ==
    ASSUME NEW t, Shape(t), NEW p \in Paths, NEW sub, Hangs(p, sub)
    PROVE  Shape(MemSetNode(t, p, sub).tree)
<1>1. CASE p # <<>> /\ ParentError(t, p) = "ok"
  BY <1>1, GraftedShape DEF MemSetNode, Outcome
<1>2. CASE ~(p # <<>> /\ ParentError(t, p) = "ok")
  BY <1>2 DEF MemSetNode, Outcome
<1> QED
  BY <1>1, <1>2

LEMMA WriteShape ==
    ASSUME NEW t, Shape(t), NEW p \in Paths, NEW data
    PROVE  Shape(MemWrite(t, p, data).tree)
<1>1. Shape(MemSetNode(t, p, Leaf(File(data))).tree)
  BY LeafHangs, SetNodeShape
<1>2. \/ MemWrite(t, p, data).tree = t
      \/ MemWrite(t, p, data).tree = MemSetNode(t, p, Leaf(File(data))).tree
  BY DEF MemWrite, Outcome
<1> QED
  BY <1>1, <1>2

LEMMA MkdirShape ==
    ASSUME NEW t, Shape(t), NEW p \in Paths
    PROVE  Shape(MemMkdir(t, p).tree)
<1>1. CASE p # <<>> /\ ParentError(t, p) = "ok" /\ p \notin DOMAIN t
  BY <1>1, LeafHangs, GraftedShape DEF MemMkdir, Outcome
<1>2. CASE ~(p # <<>> /\ ParentError(t, p) = "ok" /\ p \notin DOMAIN t)
  BY <1>2 DEF MemMkdir, Outcome
<1> QED
  BY <1>1, <1>2

\* Every directory mkdir -p makes has its parent among those it makes or finds.
LEMMA MkdirParentsShape ==
    ASSUME NEW t, Shape(t), NEW p \in Paths
    PROVE  Shape(MemMkdirParents(t, p).tree)
<1> DEFINE all == Ancestors(p) \cup {p}
           new == [q \in DOMAIN t \cup all |-> IF q \in DOMAIN t THEN t[q] ELSE Dir]
<1>1. p \in Seq(Names) /\ Len(p) \in Nat /\ Len(p) <= MaxDepth /\ SubSeq(p, 1, Len(p)) = p
  BY PathFacts, LenProperties, SubSeqFull
<1>2. all = {SubSeq(p, 1, k) : k \in 0..Len(p)}
  BY <1>1 DEF Ancestors
<1>3. ASSUME NEW k \in 0..Len(p)
      PROVE  /\ SubSeq(p, 1, k) \in Seq(Names) /\ Len(SubSeq(p, 1, k)) = k
             /\ \A i \in 1..k : SubSeq(p, 1, k)[i] = p[i]
  <2>1. k \in Nat /\ k <= Len(p) /\ 1 <= k + 1
    BY <1>1
  <2> QED
    BY <1>1, <2>1, PartFacts
<1>4. all \subseteq Paths
  <2>1. \A k \in 0..Len(p) : k <= MaxDepth
    BY <1>1, BoundAssumption
  <2> QED
    BY <1>2, <1>3, <2>1, PathFacts
<1>5. ASSUME NEW q \in all, q # <<>>
      PROVE  Parent(q) \in all
  <2>1. PICK k \in 0..Len(p) : q = SubSeq(p, 1, k)
    BY <1>2
  <2>2. q \in Seq(Names) /\ Len(q) = k /\ \A i \in 1..k : q[i] = p[i]
    BY <1>3, <2>1
  <2>3. /\ k \in Nat \ {0} /\ Parent(q) \in Seq(Names) /\ Len(Parent(q)) = k - 1
        /\ \A i \in 1..(k - 1) : Parent(q)[i] = q[i]
    BY <1>5, <2>2, ParentFacts
  <2>4. k - 1 \in 0..Len(p)
    BY <1>1, <2>3
  <2>5. Parent(q) = SubSeq(p, 1, k - 1)
    <3>1. /\ SubSeq(p, 1, k - 1) \in Seq(Names) /\ Len(SubSeq(p, 1, k - 1)) = k - 1
          /\ \A i \in 1..(k - 1) : SubSeq(p, 1, k - 1)[i] = p[i]
      BY <1>3, <2>4
    <3> QED
      BY <2>2, <2>3, <3>1, SeqEqual
  <2> QED
    BY <1>2, <2>4, <2>5
<1>6. CASE \E q \in all \cap DOMAIN t : t[q].kind # "dir"
  BY <1>6 DEF MemMkdirParents, Outcome
<1>7. CASE ~\E q \in all \cap DOMAIN t : t[q].kind # "dir"
  <2>1. MemMkdirParents(t, p).tree = new
    BY <1>7 DEF MemMkdirParents, Outcome
  <2>2. DOMAIN new = DOMAIN t \cup all
    OBVIOUS
  <2>3. \A q \in DOMAIN t : new[q] = t[q]
    OBVIOUS
  <2>4. \A q \in all : new[q].kind = "dir"
    BY <1>7 DEF Dir, Node
  <2> HIDE DEF new, all
  <2>5. ASSUME NEW q \in DOMAIN new, q # <<>>
        PROVE  Parent(q) \in DOMAIN new /\ new[Parent(q)].kind = "dir"
    <3>1. CASE q \in all
      BY <1>5, <2>2, <2>4, <2>5, <3>1
    <3>2. CASE q \in DOMAIN t
      BY <2>2, <2>3, <2>5, <3>2 DEF Shape
    <3> QED
      BY <2>2, <3>1, <3>2
  <2>6. Shape(new)
    BY <1>4, <2>2, <2>3, <2>5 DEF Shape
  <2> QED
    BY <2>1, <2>6
<1> QED
  BY <1>6, <1>7

LEMMA RemoveNodeShape ==
    ASSUME NEW t, Shape(t), NEW p \in Paths
    PROVE  Shape(MemRemoveNode(t, p).tree)
<1>1. CASE p # <<>>
  BY <1>1, PrunedShape DEF MemRemoveNode, Outcome
<1>2. CASE p = <<>>
  BY <1>2 DEF MemRemoveNode, Outcome
<1> QED
  BY <1>1, <1>2

LEMMA RemoveShape ==
    ASSUME NEW t, Shape(t), NEW p \in Paths, NEW recursive
    PROVE  Shape(MemRemove(t, p, recursive).tree)
BY RemoveNodeShape DEF MemRemove, Outcome

\* A node is only taken out of a tree when it is there.
LEMMA RemoveNodeOk ==
    ASSUME NEW t, NEW p, MemRemoveNode(t, p).res = "ok"
    PROVE  p # <<>> /\ p \in DOMAIN t /\ MemRemoveNode(t, p).tree = Pruned(t, p)
<1>1. Missing(t, Parent(p)) # "ok"
  BY DEF Missing
<1> QED
  BY <1>1 DEF MemRemoveNode, Outcome

LEMMA RenameShape ==
    ASSUME NEW t, Shape(t), NEW from \in Paths, NEW to \in Paths,
           \A r \in DOMAIN Subtree(t, from) : to \o r \in Paths
    PROVE  Shape(MemRename(t, from, to).tree)
<1> DEFINE out == MemRemoveNode(t, from)
<1>1. Shape(out.tree)
  BY RemoveNodeShape
<1>2. CASE out.res # "ok"
  BY <1>1, <1>2 DEF MemRename
<1>3. CASE out.res = "ok"
  <2>1. from \in DOMAIN t
    BY <1>3, RemoveNodeOk
  <2>2. Hangs(to, Subtree(t, from))
    BY <2>1, SubtreeFacts DEF Hangs
  <2>3. Shape(MemSetNode(out.tree, to, Subtree(t, from)).tree)
    BY <1>1, <2>2, SetNodeShape
  <2> QED
    BY <1>3, <2>3 DEF MemRename
<1> QED
  BY <1>2, <1>3
-----------------------------------------------------------------------------
\* The tree keeps its shape, whatever is written, made, removed, moved or copied
\* in it and whatever is mounted over it: no entry is ever left without a
\* directory that holds it (the walks of vfs.rs:104-136 rely on it).
THEOREM TreeKeepsShape == Spec => []TreeShape
<1>1. Init => TreeShape
  BY InitAssumption DEF Init, TreeShape, IsTree
<1>2. ASSUME TreeShape, [Next]_vars
      PROVE  TreeShape'
  <2> USE <1>2 DEF TreeShape
  <2>1. ASSUME NEW m \in MountPoints, NEW rels \in SUBSET HostFiles, AddMount(m, rels)
        PROVE  Shape(tree')
    BY <2>1 DEF AddMount
  <2>2. ASSUME NEW p \in Paths, NEW data, WriteFile(p, data)
        PROVE  Shape(tree')
    BY <2>2, WriteShape DEF WriteFile
  <2>3. ASSUME NEW p \in Paths, NEW parents \in BOOLEAN, Mkdir(p, parents)
        PROVE  Shape(tree')
    BY <2>3, MkdirShape, MkdirParentsShape DEF Mkdir
  <2>4. ASSUME NEW p \in Paths, NEW recursive \in BOOLEAN, RemovePath(p, recursive)
        PROVE  Shape(tree')
    BY <2>4, RemoveShape DEF RemovePath
  <2>5. ASSUME NEW from \in Paths, NEW to \in Paths, Rename(from, to)
        PROVE  Shape(tree')
    BY <2>5, RenameShape DEF Rename
  <2>6. ASSUME NEW from \in Paths, NEW to \in Paths, Copy(from, to)
        PROVE  Shape(tree')
    BY <2>2, <2>6 DEF Copy
  <2>7. CASE UNCHANGED vars
    BY <2>7 DEF vars
  <2> QED
    BY <2>1, <2>2, <2>3, <2>4, <2>5, <2>6, <2>7 DEF Next
<1> QED
  BY <1>1, <1>2, PTL DEF Spec

\* What hangs below p after a graft is what was grafted.
LEMMA GraftedSubtree ==
    ASSUME NEW t, DOMAIN t \subseteq Paths, NEW p \in Paths,
           NEW sub, DOMAIN sub \subseteq Seq(Names), sub = [r \in DOMAIN sub |-> sub[r]]
    PROVE  Subtree(Grafted(t, p, sub), p) = sub
<1> DEFINE g == Grafted(t, p, sub)
           under == {q \in DOMAIN g : IsPrefix(p, q)}
<1>1. /\ \A q \in DOMAIN g : \/ q \in DOMAIN t /\ ~IsPrefix(p, q)
                             \/ \E r \in DOMAIN sub : q = p \o r
      /\ \A r \in DOMAIN sub : p \o r \in DOMAIN g /\ g[p \o r] = sub[r]
  BY GraftedValues
<1>2. \A r \in DOMAIN sub :
         IsPrefix(p, p \o r) /\ SubSeq(p \o r, Len(p) + 1, Len(p \o r)) = r
  BY PathFacts, ConcatFacts
<1> HIDE DEF g
<1>3. under = {p \o r : r \in DOMAIN sub}
  BY <1>1, <1>2
<1>4. {SubSeq(q, Len(p) + 1, Len(q)) : q \in under} = DOMAIN sub
  <2>1. ASSUME NEW q \in under
        PROVE  SubSeq(q, Len(p) + 1, Len(q)) \in DOMAIN sub
    BY <1>2, <1>3
  <2>2. ASSUME NEW r \in DOMAIN sub
        PROVE  \E q \in under : r = SubSeq(q, Len(p) + 1, Len(q))
    <3>1. p \o r \in under
      BY <1>3
    <3> QED
      BY <1>2, <3>1
  <2> QED
    BY <2>1, <2>2
<1>5. Subtree(g, p) = [r \in DOMAIN sub |-> g[p \o r]]
  BY <1>4 DEF Subtree
<1> QED
  BY <1>1, <1>5 DEF g

\* What a rename that succeeds leaves behind, for every tree.
LEMMA RenameResult ==
    ASSUME NEW t, Shape(t), NEW from \in Paths, NEW to \in Paths,
           MemRename(t, from, to).res = "ok"
    PROVE  LET new == MemRename(t, from, to).tree
           IN /\ Subtree(new, to) = Subtree(t, from)
              /\ \A q \in Paths : ~IsPrefix(from, q) /\ ~IsPrefix(to, q) =>
                    /\ q \in DOMAIN new <=> q \in DOMAIN t
                    /\ q \in DOMAIN t => new[q] = t[q]
<1>1. PICK sub : sub = Subtree(t, from)
  OBVIOUS
<1>2. PICK rest : rest = Pruned(t, from)
  OBVIOUS
<1>3. MemRemoveNode(t, from).res = "ok"
  BY DEF MemRename
<1>4. from # <<>> /\ from \in DOMAIN t /\ MemRemoveNode(t, from).tree = rest
  BY <1>2, <1>3, RemoveNodeOk
<1>5. MemRename(t, from, to) = MemSetNode(rest, to, sub)
  BY <1>1, <1>3, <1>4 DEF MemRename
<1>6. MemRename(t, from, to).tree = Grafted(rest, to, sub)
  <2>1. to # <<>> /\ ParentError(rest, to) = "ok"
    BY <1>5 DEF MemSetNode, Outcome
  <2> QED
    BY <1>5, <2>1 DEF MemSetNode, Outcome
<1>7. /\ DOMAIN rest = {q \in DOMAIN t : ~IsPrefix(from, q)}
      /\ \A q \in DOMAIN rest : rest[q] = t[q]
  BY <1>2 DEF Pruned
<1>8. DOMAIN rest \subseteq Paths
  BY <1>7 DEF Shape
<1>9. DOMAIN sub \subseteq Seq(Names)
  BY <1>1, <1>4, SubtreeFacts
<1>10. Subtree(Grafted(rest, to, sub), to) = sub
  <2>1. sub = [r \in DOMAIN sub |-> sub[r]]
    BY <1>1 DEF Subtree
  <2> QED
    BY <1>8, <1>9, <2>1, GraftedSubtree
<1>11. ASSUME NEW q \in Paths, ~IsPrefix(from, q), ~IsPrefix(to, q)
       PROVE  /\ q \in DOMAIN Grafted(rest, to, sub) <=> q \in DOMAIN t
              /\ q \in DOMAIN t => Grafted(rest, to, sub)[q] = t[q]
  <2>1. /\ q \in DOMAIN Grafted(rest, to, sub) =>
              q \in DOMAIN rest \/ \E r \in DOMAIN sub : q = to \o r
        /\ q \in DOMAIN rest =>
              q \in DOMAIN Grafted(rest, to, sub) /\ Grafted(rest, to, sub)[q] = rest[q]
    BY <1>8, <1>9, <1>11, GraftedValues
  <2>2. \A r \in DOMAIN sub : IsPrefix(to, to \o r)
    BY <1>9, PathFacts, ConcatFacts
  <2> QED
    BY <1>7, <1>11, <2>1, <2>2
<1> QED
  BY <1>1, <1>6, <1>10, <1>11

\* In every reachable tree a rename that succeeds takes the node to `to` with all
\* that hangs below it and leaves the rest alone (vfs.rs:276-285), although it
\* does so in two steps on a tree it has already cut the node out of.
THEOREM RenameMovesAll == Spec => []RenameMoves
<1>1. TreeShape => RenameMoves
  BY RenameResult DEF TreeShape, RenameMoves
<1> QED
  BY <1>1, TreeKeepsShape, PTL
-----------------------------------------------------------------------------
(***************************************************************************)
(* The mounts.  Longer mount points are tried before shorter ones, and each *)
(* of them once.                                                           *)
(***************************************************************************)
Joins == INSTANCE FoldProofs WITH Op <- Joined

Ordered(s) == \A i, j \in 1..Len(s) : i < j => s[i] # s[j] /\ Len(s[j]) <= Len(s[i])

MountsInv ==
    /\ mounts \in Seq(MountPoints)
    /\ Ordered(mounts)
    /\ DOMAIN hosts = Range(mounts)
    /\ \A m \in DOMAIN hosts : hosts[m] \in [DOMAIN hosts[m] -> Contents]

\* What an entry of a list of mount points is.
LEMMA MountFacts ==
    ASSUME NEW s \in Seq(MountPoints)
    PROVE  /\ Len(s) \in Nat /\ DOMAIN s = 1..Len(s)
           /\ \A i \in 1..Len(s) : s[i] \in MountPoints /\ s[i] \in Range(s)
           /\ \A x \in Range(s) : x \in MountPoints /\ \E i \in 1..Len(s) : x = s[i]
           /\ \A x \in MountPoints : x \in Seq(Names) /\ x \in Paths /\ Len(x) \in Nat
<1>1. Len(s) \in Nat /\ DOMAIN s = 1..Len(s) /\ \A i \in 1..Len(s) : s[i] \in MountPoints
  BY LenProperties, ElementOfSeq
<1>2. \A x \in MountPoints : x \in Seq(Names) /\ x \in Paths /\ Len(x) \in Nat
  BY MountAssumption, PathFacts, LenProperties
<1> QED
  BY <1>1, <1>2 DEF Range

\* Two lists put one after the other, the longer mount points first.
LEMMA JoinOrdered ==
    ASSUME NEW s \in Seq(MountPoints), NEW r \in Seq(MountPoints),
           Ordered(s), Ordered(r),
           \A x \in Range(s), y \in Range(r) : x # y /\ Len(y) <= Len(x)
    PROVE  /\ s \o r \in Seq(MountPoints)
           /\ Range(s \o r) = Range(s) \cup Range(r)
           /\ Ordered(s \o r)
<1> DEFINE c == s \o r
<1>1. /\ Len(s) \in Nat /\ DOMAIN s = 1..Len(s) /\ Len(r) \in Nat /\ DOMAIN r = 1..Len(r)
      /\ \A i \in 1..Len(s) : s[i] \in Range(s) /\ Len(s[i]) \in Nat
      /\ \A i \in 1..Len(r) : r[i] \in Range(r) /\ Len(r[i]) \in Nat
  BY MountFacts
<1>2. /\ c \in Seq(MountPoints)
      /\ Len(c) = Len(s) + Len(r)
      /\ DOMAIN c = 1..(Len(s) + Len(r))
      /\ \A i \in 1..(Len(s) + Len(r)) : c[i] = IF i <= Len(s) THEN s[i] ELSE r[i - Len(s)]
  BY ConcatProperties, LenProperties
<1> HIDE DEF c
<1>3. \A i \in 1..Len(s) : i \in DOMAIN c /\ c[i] = s[i]
  BY <1>1, <1>2
<1>4. \A i \in 1..Len(r) : Len(s) + i \in DOMAIN c /\ c[Len(s) + i] = r[i]
  <2> TAKE i \in 1..Len(r)
  <2>1. Len(s) + i \in 1..(Len(s) + Len(r)) /\ ~(Len(s) + i <= Len(s)) /\ (Len(s) + i) - Len(s) = i
    BY <1>1
  <2> QED
    BY <1>2, <2>1
<1>5. \A i \in DOMAIN c : i \in 1..Len(s) \/ (i - Len(s) \in 1..Len(r) /\ i = Len(s) + (i - Len(s)))
  BY <1>1, <1>2
<1>6. Range(c) = Range(s) \cup Range(r)
  <2>1. ASSUME NEW i \in DOMAIN c PROVE c[i] \in Range(s) \cup Range(r)
    BY <1>1, <1>3, <1>4, <1>5
  <2>2. ASSUME NEW x \in Range(s) PROVE \E i \in DOMAIN c : c[i] = x
    BY <1>1, <1>3 DEF Range
  <2>3. ASSUME NEW x \in Range(r) PROVE \E i \in DOMAIN c : c[i] = x
    BY <1>1, <1>4 DEF Range
  <2>4. Range(c) = {c[i] : i \in DOMAIN c}
    BY DEF Range
  <2> QED
    BY <2>1, <2>2, <2>3, <2>4
<1>7. Ordered(c)
  <2> SUFFICES ASSUME NEW i \in 1..Len(c), NEW j \in 1..Len(c), i < j
               PROVE  c[i] # c[j] /\ Len(c[j]) <= Len(c[i])
    BY DEF Ordered
  <2>1. i \in DOMAIN c /\ j \in DOMAIN c /\ i \in Nat /\ j \in Nat
    BY <1>1, <1>2
  <2>2. CASE j \in 1..Len(s)
    <3>1. i \in 1..Len(s)
      BY <1>1, <2>1, <2>2
    <3> QED
      BY <1>3, <2>2, <3>1 DEF Ordered
  <2>3. CASE i \notin 1..Len(s)
    <3> DEFINE a == i - Len(s)
               b == j - Len(s)
    <3>1. i > Len(s) /\ i <= Len(s) + Len(r) /\ j <= Len(s) + Len(r)
      BY <1>1, <1>2, <2>1, <2>3
    <3>2. a \in 1..Len(r) /\ b \in 1..Len(r) /\ i = Len(s) + a /\ j = Len(s) + b /\ a < b
      BY <1>1, <2>1, <3>1
    <3> HIDE DEF a, b
    <3>3. r[a] # r[b] /\ Len(r[b]) <= Len(r[a])
      BY <3>2 DEF Ordered
    <3> QED
      BY <1>4, <3>2, <3>3
  <2>4. CASE i \in 1..Len(s) /\ j \notin 1..Len(s)
    <3> DEFINE b == j - Len(s)
    <3>1. b \in 1..Len(r) /\ j = Len(s) + b
      BY <1>5, <2>1, <2>4
    <3> HIDE DEF b
    <3> QED
      BY <1>1, <1>3, <1>4, <2>4, <3>1
  <2> QED
    BY <2>2, <2>3, <2>4
<1> QED
  BY <1>2, <1>6, <1>7 DEF c

\* A list of one mount point, and of none.
LEMMA OneOrdered ==
    /\ <<>> \in Seq(MountPoints) /\ Range(<<>>) = {} /\ Ordered(<<>>)
    /\ \A x \in MountPoints :
          <<x>> \in Seq(MountPoints) /\ Range(<<x>>) = {x} /\ Ordered(<<x>>)
<1>1. <<>> \in Seq(MountPoints) /\ Range(<<>>) = {} /\ Ordered(<<>>)
  <2>1. <<>> \in Seq(MountPoints) /\ Len(<<>>) = 0 /\ DOMAIN <<>> = {}
    BY EmptySeq
  <2> QED
    BY <2>1 DEF Range, Ordered
<1>2. ASSUME NEW x \in MountPoints
      PROVE  <<x>> \in Seq(MountPoints) /\ Range(<<x>>) = {x} /\ Ordered(<<x>>)
  <2> DEFINE s == <<x>>
  <2>1. s \in Seq(MountPoints) /\ Len(s) = 1 /\ DOMAIN s = {1} /\ s[1] = x
    OBVIOUS
  <2> HIDE DEF s
  <2>2. Range(s) = {x} /\ Ordered(s)
    BY <2>1 DEF Range, Ordered
  <2> QED
    BY <2>1, <2>2 DEF s
<1> QED
  BY <1>1, <1>2

\* What Retained keeps of an ordered list is ordered, and just what it has to keep.
LEMMA RetainedFacts ==
    ASSUME NEW s \in Seq(MountPoints), Ordered(s), NEW keep, keep \subseteq Range(s)
    PROVE  /\ Retained(s, keep) \in Seq(MountPoints)
           /\ Range(Retained(s, keep)) = keep
           /\ Ordered(Retained(s, keep))
<1> DEFINE n == Len(s)
           parts == [i \in DOMAIN s |-> IF s[i] \in keep THEN <<s[i]>> ELSE <<>>]
           First(k) == {s[i] : i \in 1..k}
           Good(r, k) == /\ r \in Seq(MountPoints)
                         /\ Range(r) = First(k) \cap keep
                         /\ Ordered(r)
<1>1. /\ n \in Nat /\ DOMAIN s = 1..n
      /\ \A i \in 1..n : s[i] \in MountPoints /\ s[i] \in Range(s) /\ Len(s[i]) \in Nat
      /\ Range(s) = First(n)
  BY MountFacts DEF Range
<1>2. /\ Len(parts) = n /\ DOMAIN parts = 1..n
      /\ \A i \in 1..n : parts[i] = IF s[i] \in keep THEN <<s[i]>> ELSE <<>>
  <2>1. \A i \in 1..n : (IF s[i] \in keep THEN <<s[i]>> ELSE <<>>) \in Seq(MountPoints)
    BY <1>1, OneOrdered
  <2>2. parts \in [1..n -> Seq(MountPoints)]
    BY <1>1, <2>1
  <2>3. parts \in Seq(Seq(MountPoints)) /\ DOMAIN parts = 1..n
    BY <1>1, <2>2, IsASeq
  <2>4. Len(parts) = n
    BY <1>1, <2>3, LenProperties
  <2> QED
    BY <1>1, <2>3, <2>4
<1>3. Retained(s, keep) = Joins!Fold(<<>>, parts)
  BY DEF Retained, FoldLeft, MapThenFoldSet, Max, Joins!Fold, Joins!FoldLeft,
         Joins!MapThenFoldSet, Joins!Max
<1> HIDE DEF parts
<1>4. PICK o : /\ o[0] = <<>>
               /\ \A k \in 1..n : o[k] = Joined(o[k - 1], parts[k])
               /\ Joins!Fold(<<>>, parts) = o[n]
  <2> HIDE DEF n
  <2>1. Len(parts) \in Nat /\ DOMAIN parts = 1..Len(parts)
    BY <1>1, <1>2
  <2>2. \E o : /\ o[0] = <<>>
               /\ \A k \in 1..Len(parts) : o[k] = Joined(o[k - 1], parts[k])
               /\ Joins!Fold(<<>>, parts) = o[Len(parts)]
    BY <2>1, Joins!FoldSteps
  <2> QED
    BY <1>2, <2>2
<1> DEFINE T == {k \in Nat : k <= n => Good(o[k], k)}
<1>5. 0 \in T
  <2>1. First(0) = {}
    OBVIOUS
  <2> QED
    BY <1>4, <2>1, OneOrdered
<1>6. ASSUME NEW k \in Nat, k \in T
      PROVE  k + 1 \in T
  <2> SUFFICES ASSUME k + 1 <= n
               PROVE  Good(o[k + 1], k + 1)
    OBVIOUS
  <2> DEFINE x == s[k + 1]
  <2>1. k <= n /\ k + 1 \in 1..n /\ (k + 1) - 1 = k
    BY <1>1
  <2>2. Good(o[k], k)
    BY <1>6, <2>1
  <2>3. o[k + 1] = o[k] \o parts[k + 1]
    BY <1>4, <2>1 DEF Joined
  <2>4. x \in MountPoints /\ Len(x) \in Nat
    BY <1>1, <2>1
  <2>5. \A y \in First(k) : y # x /\ Len(x) <= Len(y)
    <3> SUFFICES ASSUME NEW i \in 1..k
                 PROVE  s[i] # x /\ Len(x) <= Len(s[i])
      OBVIOUS
    <3>1. i \in 1..n /\ k + 1 \in 1..n /\ i < k + 1
      BY <2>1
    <3> QED
      BY <3>1 DEF Ordered
  <2>6. First(k + 1) = First(k) \cup {x}
    <3>1. \A i \in 1..(k + 1) : i \in 1..k \/ i = k + 1
      OBVIOUS
    <3>2. \A i \in 1..k : i \in 1..(k + 1)
      OBVIOUS
    <3>3. k + 1 \in 1..(k + 1)
      OBVIOUS
    <3> QED
      BY <3>1, <3>2, <3>3
  <2> HIDE DEF x, First
  <2>7. CASE x \in keep
    <3>1. parts[k + 1] = <<x>>
      BY <1>2, <2>1, <2>7 DEF x
    <3>2. <<x>> \in Seq(MountPoints) /\ Range(<<x>>) = {x} /\ Ordered(<<x>>)
      BY <2>4, OneOrdered
    <3>3. /\ o[k] \o <<x>> \in Seq(MountPoints)
          /\ Range(o[k] \o <<x>>) = Range(o[k]) \cup Range(<<x>>)
          /\ Ordered(o[k] \o <<x>>)
      BY <2>2, <2>5, <3>2, JoinOrdered
    <3> QED
      BY <2>2, <2>3, <2>6, <2>7, <3>1, <3>2, <3>3
  <2>8. CASE x \notin keep
    <3>1. parts[k + 1] = <<>>
      BY <1>2, <2>1, <2>8 DEF x
    <3>2. o[k + 1] = o[k]
      BY <2>2, <2>3, <3>1, ConcatEmptySeq
    <3> QED
      BY <2>2, <2>6, <2>8, <3>2
  <2> QED
    BY <2>7, <2>8
<1> HIDE DEF T
<1>7. n \in T
  <2>1. \A k \in Nat : k \in T
    BY <1>5, <1>6, Joins!SetInduction
  <2> QED
    BY <1>1, <2>1
<1>8. Good(o[n], n)
  BY <1>1, <1>7 DEF T
<1> QED
  BY <1>1, <1>3, <1>4, <1>8

\* The entry that serves a path: the first of those that cover it.
LEMMA FindFacts ==
    ASSUME mounts \in Seq(MountPoints), NEW p
    PROVE  /\ Mounted(p) <=> \E i \in 1..Len(mounts) : Covers(mounts[i], p)
           /\ Mounted(p) =>
                 /\ FindMount(p) \in 1..Len(mounts)
                 /\ Host(p) \in Range(mounts) /\ Host(p) \in MountPoints
                 /\ Covers(Host(p), p)
                 /\ \A j \in 1..Len(mounts) : Covers(mounts[j], p) => FindMount(p) <= j
<1> DEFINE hits == {i \in DOMAIN mounts : Covers(mounts[i], p)}
<1>1. /\ Len(mounts) \in Nat /\ DOMAIN mounts = 1..Len(mounts)
      /\ \A i \in 1..Len(mounts) : mounts[i] \in MountPoints /\ mounts[i] \in Range(mounts)
  BY MountFacts
<1>2. hits \subseteq Nat /\ hits \subseteq 1..Len(mounts)
      /\ \A i \in 1..Len(mounts) : i \in hits <=> Covers(mounts[i], p)
  BY <1>1
<1>3. FindMount(p) = IF hits = {} THEN NoMount ELSE CHOOSE i \in hits : \A j \in hits : i <= j
  BY DEF FindMount
<1> HIDE DEF hits
<1>4. CASE hits = {}
  BY <1>2, <1>3, <1>4 DEF Mounted
<1>5. CASE hits # {}
  <2>1. \E i \in hits : \A j \in hits : i <= j
    BY <1>2, <1>5, Joins!LeastNatural
  <2>2. FindMount(p) \in hits /\ \A j \in hits : FindMount(p) <= j
    BY <1>3, <1>5, <2>1
  <2>3. FindMount(p) \in 1..Len(mounts) /\ FindMount(p) # NoMount
    <3>1. PICK i : i = FindMount(p)
      OBVIOUS
    <3>2. i \in 1..Len(mounts)
      BY <1>2, <2>2, <3>1
    <3>3. i # Len(mounts) + 1
      BY <1>1, <3>2
    <3> QED
      BY <3>1, <3>2, <3>3 DEF NoMount
  <2> QED
    BY <1>1, <1>2, <2>2, <2>3 DEF Mounted, Host
<1> QED
  BY <1>4, <1>5

\* What a mounted host answers is something a file may hold.
LEMMA HostFacts ==
    ASSUME MountsInv, NEW p, Mounted(p)
    PROVE  /\ Host(p) \in DOMAIN hosts
           /\ HostRead(p).res = "ok" => HostRead(p).data \in Contents
<1>1. Host(p) \in DOMAIN hosts
  BY FindFacts DEF MountsInv
<1>2. hosts[Host(p)] \in [DOMAIN hosts[Host(p)] -> Contents]
  BY <1>1 DEF MountsInv
<1> QED
  BY <1>1, <1>2 DEF HostRead

\* A new mount finds its place, and takes that of the mount it replaces.
LEMMA AddMountKeeps ==
    ASSUME MountsInv, NEW m \in MountPoints, NEW rels, AddMount(m, rels)
    PROVE  MountsInv'
<1> DEFINE longer == Retained(mounts, Longer(m) \ {m})
           shorter == Retained(mounts, Shorter(m))
<1>1. mounts \in Seq(MountPoints) /\ Ordered(mounts)
  BY DEF MountsInv
<1>2. /\ \A x \in MountPoints : Len(x) \in Nat
      /\ \A x \in Range(mounts) : x \in MountPoints
  BY <1>1, MountFacts
<1>3. /\ longer \in Seq(MountPoints) /\ Ordered(longer)
      /\ Range(longer) = Longer(m) \ {m}
  <2>1. Longer(m) \ {m} \subseteq Range(mounts)
    BY DEF Longer
  <2> QED
    BY <1>1, <2>1, RetainedFacts
<1>4. /\ shorter \in Seq(MountPoints) /\ Ordered(shorter)
      /\ Range(shorter) = Shorter(m)
  <2>1. Shorter(m) \subseteq Range(mounts)
    BY DEF Shorter
  <2> QED
    BY <1>1, <2>1, RetainedFacts
<1> DEFINE front == longer \o <<m>>
<1>5. mounts' = front \o shorter
  BY DEF AddMount
<1> HIDE DEF longer, shorter
<1>6. front \in Seq(MountPoints) /\ Ordered(front) /\ Range(front) = Range(longer) \cup {m}
  <2>1. <<m>> \in Seq(MountPoints) /\ Ordered(<<m>>) /\ Range(<<m>>) = {m}
    BY OneOrdered
  <2>2. \A x \in Range(longer), y \in Range(<<m>>) : x # y /\ Len(y) <= Len(x)
    BY <1>2, <1>3, <2>1 DEF Longer
  <2> QED
    BY <1>3, <2>1, <2>2, JoinOrdered
<1> HIDE DEF front
<1>7. /\ front \o shorter \in Seq(MountPoints) /\ Ordered(front \o shorter)
      /\ Range(front \o shorter) = Range(front) \cup Range(shorter)
  <2>1. ASSUME NEW x \in Range(front), NEW y \in Range(shorter)
        PROVE  x # y /\ Len(y) <= Len(x)
    <3>1. Len(y) \in Nat /\ Len(y) < Len(m) /\ Len(m) \in Nat
      BY <1>2, <1>4 DEF Shorter
    <3>2. Len(x) \in Nat /\ Len(x) >= Len(m)
      BY <1>2, <1>3, <1>6, <3>1 DEF Longer
    <3> QED
      BY <3>1, <3>2
  <2> QED
    BY <1>4, <1>6, <2>1, JoinOrdered
<1>8. Range(front \o shorter) = Range(mounts) \cup {m}
  <2>1. Range(mounts) = Longer(m) \cup Shorter(m)
    BY <1>2 DEF Longer, Shorter
  <2> QED
    BY <1>3, <1>4, <1>6, <1>7, <2>1
<1>9. DOMAIN hosts' = Range(mounts) \cup {m}
      /\ \A x \in DOMAIN hosts' : hosts'[x] \in [DOMAIN hosts'[x] -> Contents]
  <2>1. PICK c \in [rels -> Contents] :
          hosts' = [x \in DOMAIN hosts \cup {m} |-> IF x = m THEN c ELSE hosts[x]]
    BY DEF AddMount
  <2>2. DOMAIN hosts' = Range(mounts) \cup {m}
    BY <2>1 DEF MountsInv
  <2>3. c \in [DOMAIN c -> Contents]
    OBVIOUS
  <2> QED
    BY <2>1, <2>2, <2>3 DEF MountsInv
<1>10. mounts' \in Seq(MountPoints) /\ Ordered(mounts') /\ DOMAIN hosts' = Range(mounts')
  BY <1>5, <1>7, <1>8, <1>9
<1> QED
  BY <1>9, <1>10 DEF MountsInv, Ordered, Range

LEMMA WriteKeepsMounts ==
    ASSUME MountsInv, NEW p, NEW data \in Contents, WriteFile(p, data)
    PROVE  MountsInv'
<1>1. CASE Mounted(p)
  <2>1. Host(p) \in DOMAIN hosts
    BY <1>1, HostFacts
  <2> DEFINE old == hosts[Host(p)]
             new == [r \in DOMAIN old \cup {Rel(p)} |-> IF r = Rel(p) THEN data ELSE old[r]]
  <2>2. old \in [DOMAIN old -> Contents]
    BY <2>1 DEF MountsInv
  <2>3. hosts' = [hosts EXCEPT ![Host(p)] = new] /\ mounts' = mounts
    BY <1>1 DEF WriteFile, HostWrite
  <2> HIDE DEF old
  <2>4. new \in [DOMAIN new -> Contents]
    BY <2>2
  <2> HIDE DEF new
  <2>5. DOMAIN hosts' = DOMAIN hosts
        /\ \A m \in DOMAIN hosts : hosts'[m] = IF m = Host(p) THEN new ELSE hosts[m]
    BY <2>3
  <2> QED
    BY <2>3, <2>4, <2>5 DEF MountsInv, Ordered, Range
<1>2. CASE ~Mounted(p)
  BY <1>2 DEF WriteFile, MountsInv, Ordered, Range
<1> QED
  BY <1>1, <1>2

LEMMA RemoveKeepsMounts ==
    ASSUME MountsInv, NEW p, NEW recursive, RemovePath(p, recursive)
    PROVE  MountsInv'
<1>1. CASE Mounted(p)
  <2>1. Host(p) \in DOMAIN hosts
    BY <1>1, HostFacts
  <2> DEFINE old == hosts[Host(p)]
             new == [r \in DOMAIN old \ {Rel(p)} |-> old[r]]
  <2>2. old \in [DOMAIN old -> Contents]
    BY <2>1 DEF MountsInv
  <2>3. hosts' = [hosts EXCEPT ![Host(p)] = new] /\ mounts' = mounts
    BY <1>1 DEF RemovePath, HostRemove
  <2> HIDE DEF old
  <2>4. new \in [DOMAIN new -> Contents]
    BY <2>2
  <2> HIDE DEF new
  <2>5. DOMAIN hosts' = DOMAIN hosts
        /\ \A m \in DOMAIN hosts : hosts'[m] = IF m = Host(p) THEN new ELSE hosts[m]
    BY <2>3
  <2> QED
    BY <2>3, <2>4, <2>5 DEF MountsInv, Ordered, Range
<1>2. CASE ~Mounted(p)
  BY <1>2 DEF RemovePath, MountsInv, Ordered, Range
<1> QED
  BY <1>1, <1>2
-----------------------------------------------------------------------------
(***************************************************************************)
(* The nodes.  Whatever is done to it, a tree holds nodes, and a file what *)
(* a file may hold.                                                        *)
(***************************************************************************)
HasNodes(t) == t \in [DOMAIN t -> Nodes]

LEMMA NodeFacts ==
    /\ Dir \in Nodes /\ Dir.kind = "dir"
    /\ \A d \in Contents : File(d) \in Nodes /\ File(d).kind = "file" /\ File(d).data = d
    /\ \A n \in Nodes : n.kind \in Kinds /\ n.data \in Contents
<1>1. \A k, d : Node(k, d).kind = k /\ Node(k, d).data = d
  BY DEF Node
<1>2. Dir \in Nodes /\ \A d \in Contents : File(d) \in Nodes
  BY DEF Nodes, Dir, Kinds
<1>3. \A n \in Nodes : \/ \E k \in Kinds : n = Node(k, NoBytes)
                      \/ \E d \in Contents : n = Node("file", d)
  BY DEF Nodes, File
<1> QED
  BY <1>1, <1>2, <1>3, ContentAssumption DEF Dir, File, Kinds

LEMMA GraftedNodes ==
    ASSUME NEW t, HasNodes(t), DOMAIN t \subseteq Paths, NEW p \in Paths,
           NEW sub, HasNodes(sub), DOMAIN sub \subseteq Seq(Names)
    PROVE  HasNodes(Grafted(t, p, sub))
<1> DEFINE g == Grafted(t, p, sub)
<1>1. /\ \A q \in DOMAIN g : \/ q \in DOMAIN t /\ ~IsPrefix(p, q)
                             \/ \E r \in DOMAIN sub : q = p \o r
      /\ \A q \in DOMAIN t : ~IsPrefix(p, q) => q \in DOMAIN g /\ g[q] = t[q]
      /\ \A r \in DOMAIN sub : p \o r \in DOMAIN g /\ g[p \o r] = sub[r]
  BY GraftedValues
<1>2. g = [q \in DOMAIN g |-> g[q]]
  BY DEF Grafted
<1> HIDE DEF g
<1>3. \A q \in DOMAIN g : g[q] \in Nodes
  BY <1>1 DEF HasNodes
<1>4. HasNodes(g)
  BY <1>2, <1>3 DEF HasNodes
<1> QED
  BY <1>4 DEF g

LEMMA SetNodeNodes ==
    ASSUME NEW t, HasNodes(t), DOMAIN t \subseteq Paths, NEW p \in Paths,
           NEW sub, HasNodes(sub), DOMAIN sub \subseteq Seq(Names)
    PROVE  HasNodes(MemSetNode(t, p, sub).tree)
BY GraftedNodes DEF MemSetNode, Outcome

LEMMA LeafNodes ==
    ASSUME NEW n \in Nodes
    PROVE  HasNodes(Leaf(n)) /\ DOMAIN Leaf(n) \subseteq Seq(Names)
BY PathFacts DEF HasNodes, Leaf

LEMMA WriteNodes ==
    ASSUME NEW t, HasNodes(t), DOMAIN t \subseteq Paths, NEW p \in Paths, NEW d \in Contents
    PROVE  HasNodes(MemWrite(t, p, d).tree)
<1>1. HasNodes(MemSetNode(t, p, Leaf(File(d))).tree)
  BY NodeFacts, LeafNodes, SetNodeNodes
<1>2. \/ MemWrite(t, p, d).tree = t
      \/ MemWrite(t, p, d).tree = MemSetNode(t, p, Leaf(File(d))).tree
  BY DEF MemWrite, Outcome
<1> QED
  BY <1>1, <1>2

LEMMA MkdirNodes ==
    ASSUME NEW t, HasNodes(t), DOMAIN t \subseteq Paths, NEW p \in Paths
    PROVE  HasNodes(MemMkdir(t, p).tree)
<1>1. HasNodes(Grafted(t, p, Leaf(Dir)))
  BY NodeFacts, LeafNodes, GraftedNodes
<1> QED
  BY <1>1 DEF MemMkdir, Outcome

LEMMA MkdirParentsNodes ==
    ASSUME NEW t, HasNodes(t), NEW p
    PROVE  HasNodes(MemMkdirParents(t, p).tree)
BY NodeFacts DEF MemMkdirParents, Outcome, HasNodes

LEMMA RemoveNodeNodes ==
    ASSUME NEW t, HasNodes(t), NEW p
    PROVE  HasNodes(MemRemoveNode(t, p).tree)
<1>1. HasNodes(Pruned(t, p))
  BY DEF HasNodes, Pruned
<1> QED
  BY <1>1 DEF MemRemoveNode, Outcome

LEMMA RenameNodes ==
    ASSUME NEW t, HasNodes(t), Shape(t), NEW from \in Paths, NEW to \in Paths
    PROVE  HasNodes(MemRename(t, from, to).tree)
<1> DEFINE out == MemRemoveNode(t, from)
<1>1. HasNodes(out.tree)
  BY RemoveNodeNodes
<1>2. CASE out.res # "ok"
  BY <1>1, <1>2 DEF MemRename
<1>3. CASE out.res = "ok"
  <2>1. from \in DOMAIN t
    BY <1>3, RemoveNodeOk
  <2>2. DOMAIN Subtree(t, from) \subseteq Seq(Names) /\ HasNodes(Subtree(t, from))
    <3> DEFINE sub == Subtree(t, from)
    <3>1. sub = [r \in DOMAIN sub |-> sub[r]]
      BY DEF Subtree
    <3>2. /\ DOMAIN sub \subseteq Seq(Names)
          /\ \A r \in Seq(Names) : r \in DOMAIN sub <=> from \o r \in DOMAIN t
          /\ \A r \in DOMAIN sub : sub[r] = t[from \o r]
      BY <2>1, SubtreeFacts
    <3> HIDE DEF sub
    <3>3. \A r \in DOMAIN sub : sub[r] \in Nodes
      BY <3>2 DEF HasNodes
    <3>4. DOMAIN sub \subseteq Seq(Names) /\ HasNodes(sub)
      BY <3>1, <3>2, <3>3 DEF HasNodes
    <3> QED
      BY <3>4 DEF sub
  <2>3. DOMAIN out.tree \subseteq Paths
    BY RemoveNodeShape DEF Shape
  <2>4. HasNodes(MemSetNode(out.tree, to, Subtree(t, from)).tree)
    BY <1>1, <2>2, <2>3, SetNodeNodes
  <2> QED
    BY <1>3, <2>4 DEF MemRename
<1> QED
  BY <1>2, <1>3

\* What a read returns is something a file may hold.
LEMMA ReadFacts ==
    ASSUME MountsInv, HasNodes(tree), NEW p, ReadFile(p).res = "ok"
    PROVE  ReadFile(p).data \in Contents
<1>1. CASE Mounted(p)
  BY <1>1, HostFacts DEF ReadFile
<1>2. CASE ~Mounted(p)
  <2>1. MemRead(tree, p).res = "ok" /\ ReadFile(p) = MemRead(tree, p)
    BY <1>2 DEF ReadFile
  <2>2. Missing(tree, p) # "ok"
    BY DEF Missing
  <2>3. p \in DOMAIN tree
    BY <2>1, <2>2 DEF MemRead
  <2>4. tree[p].data \in Contents /\ tree[p].kind \in {"dir", "file", "null", "device"}
    BY <2>3, NodeFacts DEF HasNodes, Kinds
  <2>5. tree[p].kind = "file" \/ tree[p].kind = "null"
    BY <2>1, <2>3, <2>4 DEF MemRead
  <2>6. MemRead(tree, p).data = tree[p].data \/ MemRead(tree, p).data = NoBytes
    BY <2>3, <2>5 DEF MemRead
  <2> QED
    BY <2>1, <2>4, <2>6, ContentAssumption
<1> QED
  BY <1>1, <1>2
-----------------------------------------------------------------------------
\* The invariant: a tree of nodes, under mounts in the order of find_mount.
IInv == TreeShape /\ HasNodes(tree) /\ MountsInv

LEMMA InvKept == Spec => []IInv
<1>1. Init => IInv
  <2> SUFFICES ASSUME Init PROVE IInv
    OBVIOUS
  <2>1. TreeShape /\ HasNodes(tree)
    BY InitAssumption DEF Init, TreeShape, HasNodes, IsTree
  <2>2. mounts = <<>> /\ DOMAIN hosts = {}
    BY DEF Init
  <2>3. MountsInv
    BY <2>2, OneOrdered DEF MountsInv
  <2> QED
    BY <2>1, <2>3 DEF IInv
<1>2. TreeShape /\ IInv /\ TreeShape' /\ [Next]_vars => IInv'
  <2> SUFFICES ASSUME TreeShape, IInv, TreeShape', [Next]_vars
               PROVE  HasNodes(tree)' /\ MountsInv'
    BY DEF IInv
  <2>1. Shape(tree) /\ DOMAIN tree \subseteq Paths /\ HasNodes(tree) /\ MountsInv
    BY DEF IInv, TreeShape, Shape
  <2>2. ASSUME UNCHANGED tree PROVE HasNodes(tree)'
    BY <2>1, <2>2 DEF HasNodes
  <2>3. ASSUME UNCHANGED <<mounts, hosts>> PROVE MountsInv'
    BY <2>1, <2>3 DEF MountsInv, Ordered, Range
  <2>4. ASSUME NEW t, HasNodes(t), tree' = t PROVE HasNodes(tree)'
    BY <2>4 DEF HasNodes
  <2>5. ASSUME NEW m \in MountPoints, NEW rels \in SUBSET HostFiles, AddMount(m, rels)
        PROVE  HasNodes(tree)' /\ MountsInv'
    BY <2>1, <2>2, <2>5, AddMountKeeps DEF AddMount
  <2>6. ASSUME NEW p \in Paths, NEW data \in Contents, WriteFile(p, data)
        PROVE  HasNodes(tree)' /\ MountsInv'
    BY <2>1, <2>2, <2>4, <2>6, WriteKeepsMounts, WriteNodes DEF WriteFile
  <2>7. ASSUME NEW p \in Paths, NEW parents \in BOOLEAN, Mkdir(p, parents)
        PROVE  HasNodes(tree)' /\ MountsInv'
    BY <2>1, <2>3, <2>4, <2>7, MkdirNodes, MkdirParentsNodes DEF Mkdir
  <2>8. ASSUME NEW p \in Paths, NEW recursive \in BOOLEAN, RemovePath(p, recursive)
        PROVE  HasNodes(tree)' /\ MountsInv'
    <3>1. HasNodes(MemRemove(tree, p, recursive).tree)
      BY <2>1, RemoveNodeNodes DEF MemRemove, Outcome
    <3> QED
      BY <2>1, <2>2, <2>4, <2>8, <3>1, RemoveKeepsMounts DEF RemovePath
  <2>9. ASSUME NEW from \in Paths, NEW to \in Paths, Rename(from, to)
        PROVE  HasNodes(tree)' /\ MountsInv'
    BY <2>1, <2>3, <2>4, <2>9, RenameNodes DEF Rename
  <2>10. ASSUME NEW from \in Paths, NEW to \in Paths, Copy(from, to)
         PROVE  HasNodes(tree)' /\ MountsInv'
    <3>1. ReadFile(from).data \in Contents
      BY <2>1, <2>10, ReadFacts DEF Copy
    <3> QED
      BY <2>6, <2>10, <3>1 DEF Copy
  <2>11. CASE UNCHANGED vars
    BY <2>2, <2>3, <2>11 DEF vars
  <2> QED
    BY <2>5, <2>6, <2>7, <2>8, <2>9, <2>10, <2>11 DEF Next
<1> QED
  BY <1>1, <1>2, TreeKeepsShape, PTL DEF Spec

\* The nodes are nodes, each mount point is listed once and has a host, and a host
\* holds what files hold: whatever the order in which mounts are made and replaced.
THEOREM TypeKept == Spec => []TypeOK
<1>1. IInv => TypeOK
  <2> SUFFICES ASSUME IInv PROVE TypeOK
    OBVIOUS
  <2>1. IsInjective(mounts)
    <3>1. DOMAIN mounts = 1..Len(mounts) /\ Len(mounts) \in Nat
      BY MountFacts DEF IInv, MountsInv
    <3>2. ASSUME NEW i \in DOMAIN mounts, NEW j \in DOMAIN mounts, mounts[i] = mounts[j]
          PROVE  i = j
      <4>1. ~(i < j) /\ ~(j < i) /\ i \in Nat /\ j \in Nat
        BY <3>1, <3>2 DEF IInv, MountsInv, Ordered
      <4> QED
        BY <4>1
    <3> QED
      BY <3>2 DEF IsInjective
  <2> QED
    BY <2>1 DEF IInv, MountsInv, HasNodes, TypeOK
<1> QED
  BY <1>1, InvKept, PTL

\* The mount that serves a path is the longest that covers it (vfs.rs:188): the list
\* is searched from the front, and is in order after every mount and replacement.
THEOREM MostSpecificKept == Spec => []MostSpecificMount
<1>1. IInv => MostSpecificMount
  <2> SUFFICES ASSUME IInv, NEW p \in Paths, NEW m \in Range(mounts), Covers(m, p)
               PROVE  Mounted(p) /\ Len(m) <= Len(Host(p))
    BY DEF MostSpecificMount
  <2>1. mounts \in Seq(MountPoints) /\ Ordered(mounts)
    BY DEF IInv, MountsInv
  <2>2. PICK j \in 1..Len(mounts) : m = mounts[j]
    BY <2>1, MountFacts
  <2>3. Mounted(p) /\ FindMount(p) \in 1..Len(mounts) /\ FindMount(p) <= j
    BY <2>1, <2>2, FindFacts
  <2>4. Len(mounts) \in Nat /\ Len(m) \in Nat
    BY <2>1, <2>2, MountFacts
  <2> DEFINE i == FindMount(p)
  <2>5. Host(p) = mounts[i]
    BY DEF Host
  <2> HIDE DEF i
  <2>6. i \in 1..Len(mounts) /\ i <= j
    BY <2>3 DEF i
  <2>7. i = j \/ i < j
    BY <2>4, <2>6
  <2> QED
    BY <2>1, <2>2, <2>3, <2>4, <2>5, <2>6, <2>7 DEF Ordered
<1> QED
  BY <1>1, InvKept, PTL

(***************************************************************************)
(* What the operations do to the files: mkdir -p is all or nothing, an     *)
(* error changes nothing, and a write is read back and leaves the other    *)
(* files alone.                                                            *)
(***************************************************************************)
Loop == INSTANCE FoldProofs WITH Op <- MkdirNext

\* The way down to p, one directory at a time.
LEMMA AncestorFacts ==
    ASSUME NEW p \in Seq(Names)
    PROVE  /\ p = <<>> => Ancestors(p) = {}
           /\ p # <<>> => Ancestors(p) = Ancestors(Parent(p)) \cup {Parent(p)}
           /\ p # <<>> => p # Parent(p) /\ p \notin Ancestors(p)
           /\ \A q \in Ancestors(p) : q \in Seq(Names) /\ Len(q) < Len(p) /\ IsPrefix(q, p)
           /\ \A q \in Seq(Names) : IsPrefix(q, p) /\ q # p => q \in Ancestors(p)
<1>1. Len(p) \in Nat
  BY LenProperties
<1>2. ASSUME NEW k \in 0..(Len(p) - 1)
      PROVE  /\ SubSeq(p, 1, k) \in Seq(Names) /\ Len(SubSeq(p, 1, k)) = k
             /\ \A i \in 1..k : SubSeq(p, 1, k)[i] = p[i]
             /\ IsPrefix(SubSeq(p, 1, k), p)
  <2>1. k \in Nat /\ k <= Len(p) /\ 1 <= k + 1
    BY <1>1
  <2>2. /\ SubSeq(p, 1, k) \in Seq(Names) /\ Len(SubSeq(p, 1, k)) = k
        /\ \A i \in 1..k : SubSeq(p, 1, k)[i] = p[i]
    BY <2>1, PartFacts
  <2> QED
    BY <2>1, <2>2, PrefixFacts
<1>3. \A q \in Ancestors(p) : q \in Seq(Names) /\ Len(q) < Len(p) /\ IsPrefix(q, p)
  <2> TAKE q \in Ancestors(p)
  <2>1. PICK k \in 0..(Len(p) - 1) : q = SubSeq(p, 1, k)
    BY DEF Ancestors
  <2>2. k < Len(p)
    BY <1>1
  <2> QED
    BY <1>2, <2>1, <2>2
<1>4. ASSUME p = <<>> PROVE Ancestors(p) = {}
  <2>1. Len(p) = 0
    BY <1>4, EmptySeq
  <2>2. 0..(Len(p) - 1) = {}
    BY <2>1
  <2> QED
    BY <2>2 DEF Ancestors
<1>5. ASSUME p # <<>>
      PROVE  Ancestors(p) = Ancestors(Parent(p)) \cup {Parent(p)}
  <2> DEFINE d == Parent(p)
  <2>1. /\ Len(p) \in Nat \ {0} /\ d \in Seq(Names) /\ Len(d) = Len(p) - 1
        /\ \A i \in 1..(Len(p) - 1) : d[i] = p[i] /\ d = SubSeq(p, 1, Len(p) - 1)
    BY <1>5, ParentFacts DEF Parent
  <2>2. d = SubSeq(p, 1, Len(p) - 1)
    BY DEF Parent
  <2> HIDE DEF d
  <2>3. ASSUME NEW k \in 0..(Len(d) - 1)
        PROVE  SubSeq(d, 1, k) = SubSeq(p, 1, k)
    <3>1. k \in Nat /\ k <= Len(d) /\ 1 <= k + 1 /\ k \in 0..(Len(p) - 1)
      BY <2>1
    <3>2. /\ SubSeq(d, 1, k) \in Seq(Names) /\ Len(SubSeq(d, 1, k)) = k
          /\ \A i \in 1..k : SubSeq(d, 1, k)[i] = d[i]
      BY <2>1, <3>1, PartFacts
    <3>3. \A i \in 1..k : d[i] = p[i]
      BY <2>1, <3>1
    <3> QED
      BY <1>2, <3>1, <3>2, <3>3, SeqEqual
  <2>4. Ancestors(d) = {SubSeq(p, 1, k) : k \in 0..(Len(d) - 1)}
    BY <2>3 DEF Ancestors
  <2>5. 0..(Len(p) - 1) = (0..(Len(d) - 1)) \cup {Len(p) - 1}
    BY <2>1
  <2>6. Ancestors(p) = Ancestors(d) \cup {d}
    BY <2>2, <2>4, <2>5 DEF Ancestors
  <2> QED
    BY <2>6 DEF d
<1>6. ASSUME p # <<>>
      PROVE  p # Parent(p) /\ p \notin Ancestors(p)
  BY <1>1, <1>3, <1>6, ParentFacts
<1>7. ASSUME NEW q \in Seq(Names), IsPrefix(q, p), q # p
      PROVE  q \in Ancestors(p)
  <2>1. Len(q) \in Nat /\ Len(q) <= Len(p) /\ \A i \in 1..Len(q) : q[i] = p[i]
    BY <1>7, PrefixFacts, LenProperties
  <2>2. Len(q) # Len(p)
    BY <1>7, <2>1, SeqEqual
  <2>3. Len(q) \in 0..(Len(p) - 1)
    BY <1>1, <2>1, <2>2
  <2>4. q = SubSeq(p, 1, Len(q))
    BY <1>2, <2>1, <2>3, SeqEqual
  <2> QED
    BY <2>3, <2>4 DEF Ancestors
<1> QED
  BY <1>3, <1>4, <1>5, <1>6, <1>7

\* Above an entry of a tree there are directories, all the way up.
LEMMA AncestorsExist ==
    ASSUME NEW t, Shape(t)
    PROVE  \A p \in DOMAIN t : \A q \in Ancestors(p) : q \in DOMAIN t /\ t[q].kind = "dir"
<1> DEFINE T == {n \in Nat : \A p \in DOMAIN t : Len(p) = n =>
                   \A q \in Ancestors(p) : q \in DOMAIN t /\ t[q].kind = "dir"}
<1>1. \A p \in DOMAIN t : p \in Seq(Names) /\ Len(p) \in Nat
  BY PathFacts, LenProperties DEF Shape
<1>2. 0 \in T
  BY <1>1, AncestorFacts, EmptySeq
<1>3. ASSUME NEW n \in Nat, n \in T
      PROVE  n + 1 \in T
  <2> SUFFICES ASSUME NEW p \in DOMAIN t, Len(p) = n + 1, NEW q \in Ancestors(p)
               PROVE  q \in DOMAIN t /\ t[q].kind = "dir"
    OBVIOUS
  <2>1. p \in Seq(Names) /\ p # <<>>
    BY <1>1, EmptySeq
  <2>2. Parent(p) \in DOMAIN t /\ t[Parent(p)].kind = "dir" /\ Len(Parent(p)) = n
    BY <2>1, ParentFacts DEF Shape
  <2>3. q \in Ancestors(Parent(p)) \/ q = Parent(p)
    BY <2>1, AncestorFacts
  <2> QED
    BY <1>3, <2>2, <2>3
<1> HIDE DEF T
<1>4. \A n \in Nat : n \in T
  BY <1>2, <1>3, Loop!SetInduction
<1> QED
  BY <1>1, <1>4 DEF T

\* Nothing lies below what is not a directory.
LEMMA NothingBelow ==
    ASSUME NEW t, Shape(t), NEW p \in Paths, p \notin DOMAIN t \/ t[p].kind # "dir"
    PROVE  \A q \in DOMAIN t : IsPrefix(p, q) => q = p
<1>1. \A q \in DOMAIN t : q \in Seq(Names)
  BY PathFacts DEF Shape
<1>2. p \in Seq(Names)
  BY PathFacts
<1> QED
  BY <1>1, <1>2, AncestorFacts, AncestorsExist

\* The tree t with the node n, and nothing below it, at p.
With(t, p, n) == [q \in DOMAIN t \cup {p} |-> IF q = p THEN n ELSE t[q]]

\* A leaf that is put in a place where nothing hangs is all that changes.
LEMMA LeafGrafted ==
    ASSUME NEW t, Shape(t), NEW p \in Paths, p \notin DOMAIN t \/ t[p].kind # "dir", NEW n
    PROVE  Grafted(t, p, Leaf(n)) = With(t, p, n)
<1> DEFINE g == Grafted(t, p, Leaf(n))
<1>1. p \in Seq(Names) /\ p \o <<>> = p /\ DOMAIN t \subseteq Paths /\ <<>> \in Seq(Names)
  BY PathFacts, ConcatFacts DEF Shape
<1>2. DOMAIN Leaf(n) = {<<>>} /\ Leaf(n)[<<>>] = n
  BY DEF Leaf
<1>3. /\ \A q \in DOMAIN g : \/ q \in DOMAIN t /\ ~IsPrefix(p, q)
                             \/ \E r \in DOMAIN Leaf(n) : q = p \o r
      /\ \A q \in DOMAIN t : ~IsPrefix(p, q) => q \in DOMAIN g /\ g[q] = t[q]
      /\ \A r \in DOMAIN Leaf(n) : p \o r \in DOMAIN g /\ g[p \o r] = Leaf(n)[r]
  <2>1. DOMAIN Leaf(n) \subseteq Seq(Names)
    BY <1>1, <1>2
  <2> QED
    BY <1>1, <2>1, GraftedValues
<1>4. g = [q \in DOMAIN g |-> g[q]]
  BY DEF Grafted
<1> HIDE DEF g
<1>5. \A q \in DOMAIN t : q = p \/ ~IsPrefix(p, q)
  BY NothingBelow
<1>6. DOMAIN g = DOMAIN t \cup {p}
  <2>1. p \in DOMAIN g
    BY <1>1, <1>2, <1>3
  <2>2. \A q \in DOMAIN t : q \in DOMAIN g
    BY <1>3, <1>5, <2>1
  <2>3. \A q \in DOMAIN g : q \in DOMAIN t \/ q = p
    BY <1>1, <1>2, <1>3
  <2> QED
    BY <2>1, <2>2, <2>3
<1>7. \A q \in DOMAIN g : g[q] = IF q = p THEN n ELSE t[q]
  BY <1>1, <1>2, <1>3, <1>5, <1>6
<1>8. g = With(t, p, n)
  BY <1>4, <1>6, <1>7 DEF With
<1> QED
  BY <1>8 DEF g
-----------------------------------------------------------------------------
\* A turn of the loop takes what mkdir -p makes of the parent to what it makes of p.
LEMMA MkdirTurn ==
    ASSUME NEW t, Shape(t), HasNodes(t), NEW p \in Paths, p # <<>>
    PROVE  MkdirNext(MemMkdirParents(t, Parent(p)), p) = MemMkdirParents(t, p)
<1> DEFINE d == Parent(p)
           above == Ancestors(d) \cup {d}
           all == Ancestors(p) \cup {p}
           g == [q \in DOMAIN t \cup above |-> IF q \in DOMAIN t THEN t[q] ELSE Dir]
           new == [q \in DOMAIN t \cup all |-> IF q \in DOMAIN t THEN t[q] ELSE Dir]
<1>1. p \in Seq(Names) /\ d \in Seq(Names) /\ d \in Paths
  BY PathFacts, ParentFacts
<1>2. Ancestors(p) = above /\ all = above \cup {p} /\ p \notin above
  BY <1>1, AncestorFacts
<1>3. Dir.kind = "dir"
  BY NodeFacts
<1>4. t = [q \in DOMAIN t |-> t[q]]
  BY DEF HasNodes
<1> HIDE DEF d, above, all
<1>5. CASE \E q \in above \cap DOMAIN t : t[q].kind # "dir"
  <2>1. MemMkdirParents(t, d) = Outcome("NotADir", t)
    BY <1>5 DEF MemMkdirParents, above
  <2>2. MemMkdirParents(t, p) = Outcome("NotADir", t)
    BY <1>2, <1>5 DEF MemMkdirParents, all
  <2>3. MkdirNext(Outcome("NotADir", t), p) = Outcome("NotADir", t)
    BY DEF MkdirNext, Outcome
  <2> QED
    BY <2>1, <2>2, <2>3 DEF d
<1>6. CASE \A q \in above \cap DOMAIN t : t[q].kind = "dir"
  <2>1. MemMkdirParents(t, d) = Outcome("ok", g)
    BY <1>6 DEF MemMkdirParents, above
  <2>2. Shape(g)
    <3>1. Outcome("ok", g).tree = g
      BY DEF Outcome
    <3> QED
      BY <1>1, <2>1, <3>1, MkdirParentsShape
  <2>3. DOMAIN g = DOMAIN t \cup above
        /\ \A q \in DOMAIN g : g[q] = IF q \in DOMAIN t THEN t[q] ELSE Dir
    OBVIOUS
  <2>4. \A q \in above : q \in DOMAIN g /\ g[q].kind = "dir"
    BY <1>3, <1>6
  <2>5. g = [q \in DOMAIN g |-> g[q]]
    OBVIOUS
  <2> HIDE DEF g
  <2>6. MkdirNext(Outcome("ok", g), p) =
          IF IsDir(g, p) THEN Outcome("ok", g)
          ELSE IF p \in DOMAIN g THEN Outcome("NotADir", g)
          ELSE IF Missing(g, p) = "NotFound" THEN MemMkdir(g, p)
          ELSE Outcome(Missing(g, p), g)
    BY DEF MkdirNext, Outcome
  <2>7. CASE p \in DOMAIN t /\ t[p].kind = "dir"
    <3>1. MemMkdirParents(t, p) = Outcome("ok", new)
      BY <1>2, <1>6, <2>7 DEF MemMkdirParents, all
    <3>2. new = g
      BY <1>2, <2>7 DEF g
    <3>3. IsDir(g, p)
      BY <2>3, <2>7 DEF IsDir
    <3> HIDE DEF new
    <3> QED
      BY <2>1, <2>6, <3>1, <3>2, <3>3 DEF d
  <2>8. CASE p \in DOMAIN t /\ t[p].kind # "dir"
    <3>1. MemMkdirParents(t, p) = Outcome("NotADir", t)
      BY <1>2, <2>8 DEF MemMkdirParents, all
    <3>2. above \subseteq DOMAIN t
      BY <1>2, <2>8, AncestorsExist
    <3>3. g = t
      BY <1>4, <2>3, <2>5, <3>2
    <3> QED
      BY <2>1, <2>6, <2>8, <3>1, <3>3 DEF d, IsDir
  <2>9. CASE p \notin DOMAIN t
    <3>1. p \notin DOMAIN g /\ ~IsDir(g, p)
      BY <1>2, <2>3, <2>9 DEF IsDir
    <3>2. Missing(g, p) = "NotFound"
      BY <1>2, <2>4 DEF Missing
    <3>3. ParentError(g, p) = "ok"
      <4>1. d \in above
        BY DEF above
      <4> QED
        BY <2>4, <4>1 DEF ParentError, IsDir, d
    <3>4. MemMkdir(g, p) = Outcome("ok", Grafted(g, p, Leaf(Dir)))
      BY <3>1, <3>3 DEF MemMkdir
    <3>5. Grafted(g, p, Leaf(Dir)) = With(g, p, Dir)
      <4>1. p \notin DOMAIN g \/ g[p].kind # "dir"
        BY <3>1
      <4> QED
        BY <2>2, <4>1, LeafGrafted
    <3>6. With(g, p, Dir) = new
      BY <1>2, <2>3, <2>9 DEF With
    <3>7. MemMkdirParents(t, p) = Outcome("ok", new)
      BY <1>2, <1>6, <2>9 DEF MemMkdirParents, all
    <3> HIDE DEF new
    <3> QED
      BY <2>1, <2>6, <3>1, <3>2, <3>4, <3>5, <3>6, <3>7 DEF d
  <2> QED
    BY <2>7, <2>8, <2>9
<1> QED
  BY <1>5, <1>6

\* The loop, for every tree and every path.
LEMMA LoopIsAllOrNothing ==
    ASSUME NEW t, Shape(t), HasNodes(t), NEW p \in Paths
    PROVE  MkdirParentsLoop(t, p) = MemMkdirParents(t, p)
<1> DEFINE n == Len(p)
           part == [k \in 1..n |-> SubSeq(p, 1, k)]
           base == Outcome("ok", t)
<1>1. p \in Seq(Names) /\ n \in Nat /\ n <= MaxDepth /\ SubSeq(p, 1, n) = p
  BY PathFacts, LenProperties, SubSeqFull
<1>2. ASSUME NEW k \in 0..n
      PROVE  /\ SubSeq(p, 1, k) \in Paths /\ SubSeq(p, 1, k) \in Seq(Names)
             /\ Len(SubSeq(p, 1, k)) = k /\ \A i \in 1..k : SubSeq(p, 1, k)[i] = p[i]
  <2>1. k \in Nat /\ k <= Len(p) /\ 1 <= k + 1 /\ k <= MaxDepth
    BY <1>1, BoundAssumption
  <2> QED
    <3>1. /\ SubSeq(p, 1, k) \in Seq(Names) /\ Len(SubSeq(p, 1, k)) = k
          /\ \A i \in 1..k : SubSeq(p, 1, k)[i] = p[i]
      BY <1>1, <2>1, PartFacts
    <3> QED
      BY <2>1, <3>1, PathFacts
<1>3. /\ Len(part) \in Nat /\ Len(part) = n /\ DOMAIN part = 1..Len(part)
      /\ \A k \in 1..n : part[k] = SubSeq(p, 1, k)
  <2>1. part \in [1..n -> Paths]
    BY <1>1, <1>2
  <2>2. part \in Seq(Paths)
    BY <1>1, <2>1, IsASeq
  <2> QED
    BY <1>1, <2>1, <2>2, LenProperties
<1>4. MkdirParentsLoop(t, p) = Loop!Fold(base, part)
  BY DEF MkdirParentsLoop, FoldLeft, MapThenFoldSet, Max, Loop!Fold, Loop!FoldLeft,
         Loop!MapThenFoldSet, Loop!Max
<1> HIDE DEF part, base, n
<1>5. PICK o : /\ o[0] = base
               /\ \A k \in 1..Len(part) : o[k] = MkdirNext(o[k - 1], part[k])
               /\ Loop!Fold(base, part) = o[Len(part)]
  <2>1. Len(part) \in Nat /\ DOMAIN part = 1..Len(part)
    BY <1>3
  <2>2. \E o : /\ o[0] = base
               /\ \A k \in 1..Len(part) : o[k] = MkdirNext(o[k - 1], part[k])
               /\ Loop!Fold(base, part) = o[Len(part)]
    BY <2>1, Loop!FoldSteps
  <2> QED
    BY <2>2
<1> DEFINE T == {k \in Nat : k <= n => o[k] = MemMkdirParents(t, SubSeq(p, 1, k))}
<1>6. 0 \in T
  <2>1. SubSeq(p, 1, 0) = <<>>
    <3>1. 0 \in 0..n
      BY <1>1
    <3> QED
      BY <1>2, <3>1, EmptySeq
  <2>2. Ancestors(<<>>) \cup {<<>>} = {<<>>}
    BY PathFacts, AncestorFacts
  <2>3. <<>> \in DOMAIN t /\ t[<<>>].kind = "dir" /\ t = [q \in DOMAIN t |-> t[q]]
    BY DEF Shape, HasNodes
  <2>4. [q \in DOMAIN t \cup {<<>>} |-> IF q \in DOMAIN t THEN t[q] ELSE Dir] = t
    BY <2>3
  <2>5. MemMkdirParents(t, <<>>) = Outcome("ok", t)
    BY <2>2, <2>3, <2>4 DEF MemMkdirParents
  <2> QED
    BY <1>5, <2>1, <2>5 DEF base
<1>7. ASSUME NEW k \in Nat, k \in T
      PROVE  k + 1 \in T
  <2> SUFFICES ASSUME k + 1 <= n
               PROVE  o[k + 1] = MemMkdirParents(t, SubSeq(p, 1, k + 1))
    OBVIOUS
  <2> DEFINE next == SubSeq(p, 1, k + 1)
  <2>1. k <= n /\ k \in 0..n /\ k + 1 \in 0..n /\ k + 1 \in 1..n /\ (k + 1) - 1 = k
    BY <1>1
  <2>2. o[k] = MemMkdirParents(t, SubSeq(p, 1, k))
    BY <1>7, <2>1
  <2>3. o[k + 1] = MkdirNext(o[k], next)
    BY <1>3, <1>5, <2>1
  <2>4. /\ next \in Paths /\ next \in Seq(Names) /\ Len(next) = k + 1
        /\ \A i \in 1..(k + 1) : next[i] = p[i]
    BY <1>2, <2>1
  <2> HIDE DEF next
  <2>5. next # <<>>
    BY <2>4, EmptySeq
  <2>6. Parent(next) = SubSeq(p, 1, k)
    <3>1. /\ Parent(next) \in Seq(Names) /\ Len(Parent(next)) = k
          /\ \A i \in 1..k : Parent(next)[i] = p[i]
      BY <2>1, <2>4, <2>5, ParentFacts
    <3> QED
      BY <1>2, <2>1, <3>1, SeqEqual
  <2> QED
    BY <2>2, <2>3, <2>4, <2>5, <2>6, MkdirTurn DEF next
<1> HIDE DEF T
<1>8. n \in T
  <2>1. \A k \in Nat : k \in T
    BY <1>6, <1>7, Loop!SetInduction
  <2> QED
    BY <1>1, <2>1
<1>9. o[n] = MemMkdirParents(t, SubSeq(p, 1, n))
  BY <1>1, <1>8 DEF T
<1>10. MkdirParentsLoop(t, p) = o[n]
  BY <1>3, <1>4, <1>5
<1> QED
  BY <1>1, <1>9, <1>10

\* mkdir -p makes every missing directory of the chain or none of them, for every
\* path in every reachable tree (vfs.rs:343-364), although it goes one by one.
THEOREM MkdirParentsKept == Spec => []MkdirParentsIsLoop
<1>1. IInv => MkdirParentsIsLoop
  BY LoopIsAllOrNothing DEF IInv, TreeShape, MkdirParentsIsLoop
<1> QED
  BY <1>1, InvKept, PTL

\* A write, mkdir, mkdir -p or remove that reports an error has changed nothing, in
\* any reachable tree (vfs.rs:218-274).
THEOREM ErrorsKept == Spec => []ErrorsChangeNothing
<1>1. ASSUME NEW t, NEW p, NEW sub, MemSetNode(t, p, sub).res # "ok"
      PROVE  MemSetNode(t, p, sub).tree = t
  BY <1>1 DEF MemSetNode, Outcome
<1>2. ASSUME NEW t, NEW p, NEW d, MemWrite(t, p, d).res # "ok"
      PROVE  MemWrite(t, p, d).tree = t
  <2>1. \/ MemWrite(t, p, d) = MemSetNode(t, p, Leaf(File(d)))
        \/ MemWrite(t, p, d).tree = t
    BY DEF MemWrite, Outcome
  <2> QED
    BY <1>1, <1>2, <2>1
<1>3. ASSUME NEW t, NEW p, MemMkdir(t, p).res # "ok"
      PROVE  MemMkdir(t, p).tree = t
  BY <1>3 DEF MemMkdir, Outcome
<1>4. ASSUME NEW t, NEW p, MemMkdirParents(t, p).res # "ok"
      PROVE  MemMkdirParents(t, p).tree = t
  BY <1>4 DEF MemMkdirParents, Outcome
<1>5. ASSUME NEW t, NEW p, NEW r, MemRemove(t, p, r).res # "ok"
      PROVE  MemRemove(t, p, r).tree = t
  BY <1>5 DEF MemRemove, MemRemoveNode, Outcome
<1>6. IInv => ErrorsChangeNothing
  BY <1>2, <1>3, <1>4, <1>5, LoopIsAllOrNothing DEF IInv, TreeShape, ErrorsChangeNothing
<1> QED
  BY <1>6, InvKept, PTL
-----------------------------------------------------------------------------
(***************************************************************************)
(* What an operation on the tree leaves alone.                             *)
(***************************************************************************)
KeptAt(t, u, q) == q \in DOMAIN u /\ u[q] = t[q]

LEMMA MkdirLeaves ==
    ASSUME NEW t, Shape(t), NEW p \in Paths
    PROVE  \A q \in DOMAIN t : KeptAt(t, MemMkdir(t, p).tree, q)
<1> DEFINE u == MemMkdir(t, p).tree
<1>1. u = t \/ (u = Grafted(t, p, Leaf(Dir)) /\ p \notin DOMAIN t)
  BY DEF MemMkdir, Outcome
<1>2. p \notin DOMAIN t => Grafted(t, p, Leaf(Dir)) = With(t, p, Dir)
  BY LeafGrafted
<1> HIDE DEF u
<1>3. \A q \in DOMAIN t : KeptAt(t, u, q)
  BY <1>1, <1>2 DEF KeptAt, With
<1> QED
  BY <1>3 DEF u

LEMMA MkdirParentsLeaves ==
    ASSUME NEW t, NEW p
    PROVE  \A q \in DOMAIN t : KeptAt(t, MemMkdirParents(t, p).tree, q)
BY DEF MemMkdirParents, Outcome, KeptAt

\* A write may change the file it writes to, and no directory.
LEMMA WriteLeaves ==
    ASSUME NEW t, Shape(t), NEW p \in Paths, NEW d
    PROVE  \A q \in DOMAIN t :
              /\ q \in DOMAIN MemWrite(t, p, d).tree
              /\ q # p \/ t[q].kind = "dir" => KeptAt(t, MemWrite(t, p, d).tree, q)
<1> DEFINE u == MemWrite(t, p, d).tree
           set == MemSetNode(t, p, Leaf(File(d)))
<1>1. u = t \/ (u = set.tree /\ (p \notin DOMAIN t \/ t[p].kind # "dir"))
  BY DEF MemWrite, Outcome
<1>2. set.tree = t \/ set.tree = Grafted(t, p, Leaf(File(d)))
  BY DEF MemSetNode, Outcome
<1>3. p \notin DOMAIN t \/ t[p].kind # "dir" => Grafted(t, p, Leaf(File(d))) = With(t, p, File(d))
  BY LeafGrafted
<1> HIDE DEF u, set
<1>4. CASE u = t
  BY <1>4 DEF KeptAt, u
<1>5. CASE u = With(t, p, File(d)) /\ (p \notin DOMAIN t \/ t[p].kind # "dir")
  <2>1. /\ DOMAIN u = DOMAIN t \cup {p}
        /\ \A q \in DOMAIN t \ {p} : u[q] = t[q]
    BY <1>5 DEF With
  <2>2. \A q \in DOMAIN t : q \in DOMAIN u /\ (q # p \/ t[q].kind = "dir" => KeptAt(t, u, q))
    BY <1>5, <2>1 DEF KeptAt
  <2> QED
    BY <2>2 DEF u
<1> QED
  BY <1>1, <1>2, <1>3, <1>4, <1>5

LEMMA PrunedLeaves ==
    ASSUME NEW t, NEW p
    PROVE  \A q \in DOMAIN t : ~IsPrefix(p, q) => KeptAt(t, Pruned(t, p), q)
BY DEF KeptAt, Pruned

LEMMA RemoveLeaves ==
    ASSUME NEW t, NEW p, NEW r
    PROVE  \A q \in DOMAIN t : ~IsPrefix(p, q) => KeptAt(t, MemRemove(t, p, r).tree, q)
<1>1. MemRemove(t, p, r).tree \in {t, Pruned(t, p)}
  BY DEF MemRemove, MemRemoveNode, Outcome
<1> QED
  BY <1>1, PrunedLeaves DEF KeptAt

\* A rename leaves the rest alone, whether it succeeds or not.
LEMMA RenameLeaves ==
    ASSUME NEW t, Shape(t), NEW from \in Paths, NEW to \in Paths
    PROVE  \A q \in DOMAIN t : ~IsPrefix(from, q) /\ ~IsPrefix(to, q)
              => KeptAt(t, MemRename(t, from, to).tree, q)
<1> DEFINE u == MemRename(t, from, to).tree
           rest == Pruned(t, from)
           sub == Subtree(t, from)
<1>1. CASE MemRemoveNode(t, from).res # "ok"
  <2>1. u = t
    BY <1>1 DEF MemRename, MemRemoveNode, Outcome
  <2> QED
    BY <2>1 DEF KeptAt
<1>2. CASE MemRemoveNode(t, from).res = "ok"
  <2>1. from # <<>> /\ from \in DOMAIN t /\ MemRemoveNode(t, from).tree = rest
    BY <1>2, RemoveNodeOk
  <2>2. u = MemSetNode(rest, to, sub).tree
    BY <1>2, <2>1 DEF MemRename
  <2>3. u = rest \/ u = Grafted(rest, to, sub)
    BY <2>2 DEF MemSetNode, Outcome
  <2>4. DOMAIN rest \subseteq Paths
    BY DEF Pruned, Shape
  <2>5. DOMAIN sub \subseteq Seq(Names)
    BY <2>1, SubtreeFacts
  <2>6. \A q \in DOMAIN t : ~IsPrefix(from, q) => q \in DOMAIN rest /\ rest[q] = t[q]
    BY PrunedLeaves DEF KeptAt
  <2> HIDE DEF u, rest, sub
  <2>7. \A q \in DOMAIN rest : ~IsPrefix(to, q) =>
           q \in DOMAIN Grafted(rest, to, sub) /\ Grafted(rest, to, sub)[q] = rest[q]
    BY <2>4, <2>5, GraftedValues
  <2>8. \A q \in DOMAIN t : ~IsPrefix(from, q) /\ ~IsPrefix(to, q) => KeptAt(t, u, q)
    BY <2>3, <2>6, <2>7 DEF KeptAt
  <2> QED
    BY <2>8 DEF u
<1> QED
  BY <1>1, <1>2
-----------------------------------------------------------------------------
(***************************************************************************)
(* What is read before and after a step.                                   *)
(***************************************************************************)
SameRead(t, u, q) ==
    (MemRead(t, q).res = "ok" \/ MemRead(u, q).res = "ok") => MemRead(u, q) = MemRead(t, q)

\* A read tells two trees apart only where a file or a device differs.
LEMMA SameReadFacts ==
    ASSUME NEW t, HasNodes(t), NEW u, NEW q,
           \/ q \in DOMAIN t /\ q \in DOMAIN u /\ u[q] = t[q]
           \/ (q \in DOMAIN t => t[q].kind = "dir") /\ (q \in DOMAIN u => u[q].kind = "dir")
    PROVE  SameRead(t, u, q)
<1>1. ASSUME NEW x, q \in DOMAIN x => x[q].kind = "dir"
      PROVE  MemRead(x, q).res # "ok"
  <2>1. Missing(x, q) # "ok"
    BY DEF Missing
  <2> QED
    BY <1>1, <2>1 DEF MemRead
<1>2. ASSUME q \in DOMAIN t, q \in DOMAIN u, u[q] = t[q]
      PROVE  MemRead(u, q) = MemRead(t, q)
  <2>1. t[q].kind \in {"dir", "file", "null", "device"}
    BY <1>2, NodeFacts DEF HasNodes, Kinds
  <2> QED
    BY <1>2, <2>1 DEF MemRead
<1> QED
  BY <1>1, <1>2 DEF SameRead

\* A write to the tree: the file is there with the data, and no other is touched.
LEMMA TreeWrite ==
    ASSUME NEW t, Shape(t), HasNodes(t), NEW p \in Paths, NEW d
    PROVE  LET u == MemWrite(t, p, d).tree
           IN /\ \A q \in Paths \ {p} : SameRead(t, u, q)
              /\ \/ p \in DOMAIN t /\ t[p].kind = "file"
                 \/ p \notin DOMAIN t /\ p \in DOMAIN u
                 => MemRead(u, p) = [res |-> "ok", data |-> d]
<1> DEFINE set == MemSetNode(t, p, Leaf(File(d)))
           new == With(t, p, File(d))
<1>1. <<>> \in DOMAIN t /\ t[<<>>].kind = "dir"
  BY DEF Shape
<1>2. ASSUME p \in DOMAIN t, t[p].kind = "file"
      PROVE  p # <<>> /\ ParentError(t, p) = "ok"
  BY <1>1, <1>2 DEF Shape, ParentError, IsDir
<1>3. ASSUME p \notin DOMAIN t \/ t[p].kind # "dir", p # <<>>, ParentError(t, p) = "ok"
      PROVE  set.tree = new
  <2>1. Grafted(t, p, Leaf(File(d))) = new
    BY <1>3, LeafGrafted
  <2> QED
    BY <1>3, <2>1 DEF MemSetNode, Outcome
<1>4. ASSUME p = <<>> \/ ParentError(t, p) # "ok"
      PROVE  set.tree = t
  BY <1>4 DEF MemSetNode, Outcome
<1>5. /\ \A q \in Paths \ {p} : SameRead(t, new, q)
      /\ MemRead(new, p) = [res |-> "ok", data |-> d]
  <2>1. /\ DOMAIN new = DOMAIN t \cup {p}
        /\ new[p] = File(d)
        /\ \A q \in DOMAIN t \ {p} : new[q] = t[q]
    BY DEF With
  <2> HIDE DEF new
  <2>2. ASSUME NEW q \in Paths \ {p}
        PROVE  SameRead(t, new, q)
    <3>1. CASE q \in DOMAIN t
      BY <2>1, <3>1, SameReadFacts
    <3>2. CASE q \notin DOMAIN t
      <4>1. q \notin DOMAIN new
        BY <2>1, <3>2
      <4> QED
        BY <3>2, <4>1, SameReadFacts
    <3> QED
      BY <3>1, <3>2
  <2>3. File(d).kind = "file" /\ File(d).data = d
    BY DEF File, Node
  <2>4. MemRead(new, p) = [res |-> "ok", data |-> d]
    BY <2>1, <2>3 DEF MemRead
  <2> QED
    BY <2>2, <2>4
<1>6. \A q : SameRead(t, t, q)
  BY DEF SameRead
<1> HIDE DEF set, new
<1>7. CASE p \notin DOMAIN t
  <2>1. MemWrite(t, p, d).tree = t \/ MemWrite(t, p, d).tree = set.tree
    BY <1>7 DEF MemWrite, Outcome, set
  <2>2. MemWrite(t, p, d).tree = t \/ MemWrite(t, p, d).tree = new
    BY <1>3, <1>4, <1>7, <2>1
  <2> QED
    BY <1>5, <1>6, <1>7, <2>2
<1>8. CASE p \in DOMAIN t /\ t[p].kind = "file"
  <2>1. MemWrite(t, p, d).tree = new
    BY <1>2, <1>3, <1>8 DEF MemWrite, set
  <2> QED
    BY <1>5, <2>1
<1>9. CASE p \in DOMAIN t /\ t[p].kind # "file"
  <2>1. MemWrite(t, p, d).tree = t
    BY <1>9 DEF MemWrite, Outcome
  <2> QED
    BY <1>6, <1>9, <2>1
<1> QED
  BY <1>7, <1>8, <1>9

\* A remove without -r takes at most one node out of the tree.
LEMMA TreeRemove ==
    ASSUME NEW t, Shape(t), HasNodes(t), NEW p \in Paths
    PROVE  \A q \in Paths \ {p} : SameRead(t, MemRemove(t, p, FALSE).tree, q)
<1> DEFINE u == MemRemove(t, p, FALSE).tree
<1>1. u = t \/ (u = Pruned(t, p) /\ ~(IsDir(t, p) /\ Children(t, p) # {}))
  BY DEF MemRemove, MemRemoveNode, Outcome
<1> HIDE DEF u
<1>2. CASE u = t
  BY <1>2 DEF SameRead, u
<1>3. CASE u = Pruned(t, p) /\ ~(IsDir(t, p) /\ Children(t, p) # {})
  <2>1. /\ DOMAIN u = {q \in DOMAIN t : ~IsPrefix(p, q)}
        /\ \A q \in DOMAIN u : u[q] = t[q]
    BY <1>3 DEF Pruned
  <2>2. \A q \in DOMAIN t : q \in Seq(Names)
    BY PathFacts DEF Shape
  <2>3. p \in Seq(Names) /\ Len(p) \in Nat
    BY PathFacts, LenProperties
  <2>4. ASSUME NEW q \in DOMAIN t, IsPrefix(p, q), q # p
        PROVE  FALSE
    <3>1. p \in Ancestors(q) /\ q \in Seq(Names) /\ Len(q) \in Nat /\ Len(p) < Len(q)
      BY <2>2, <2>3, <2>4, AncestorFacts, LenProperties
    <3>2. IsDir(t, p)
      BY <3>1, AncestorsExist DEF IsDir
    <3> DEFINE c == SubSeq(q, 1, Len(p) + 1)
    <3>3. /\ c \in Seq(Names) /\ Len(c) = Len(p) + 1
          /\ \A i \in 1..(Len(p) + 1) : c[i] = q[i]
      <4>1. Len(p) + 1 \in Nat /\ Len(p) + 1 <= Len(q) /\ 1 <= (Len(p) + 1) + 1
        BY <2>3, <3>1
      <4> QED
        BY <3>1, <4>1, PartFacts
    <3> HIDE DEF c
    <3>4. IsPrefix(c, q)
      <4>1. Len(c) <= Len(q) /\ \A i \in 1..Len(c) : c[i] = q[i]
        BY <2>3, <3>1, <3>3
      <4> QED
        BY <3>1, <3>3, <4>1, PrefixFacts
    <3>5. c \in DOMAIN t
      BY <2>4, <3>1, <3>3, <3>4, AncestorFacts, AncestorsExist
    <3>6. c # <<>>
      BY <2>3, <3>3, EmptySeq
    <3>7. Parent(c) = p
      <4>1. Parent(c) \in Seq(Names) /\ Len(Parent(c)) = Len(p)
            /\ \A i \in 1..Len(p) : Parent(c)[i] = q[i]
        <5>1. /\ Parent(c) \in Seq(Names) /\ Len(Parent(c)) = Len(c) - 1
              /\ \A i \in 1..(Len(c) - 1) : Parent(c)[i] = c[i]
          BY <3>3, <3>6, ParentFacts
        <5>2. Len(c) - 1 = Len(p) /\ \A i \in 1..Len(p) : i \in 1..(Len(p) + 1)
          BY <2>3, <3>3
        <5> QED
          BY <3>3, <5>1, <5>2
      <4>2. \A i \in 1..Len(p) : p[i] = q[i]
        BY <2>3, <2>4, <3>1, PrefixFacts
      <4> QED
        BY <2>3, <4>1, <4>2, SeqEqual
    <3>8. c \in Children(t, p)
      BY <3>5, <3>6, <3>7 DEF Children
    <3> QED
      BY <1>3, <3>2, <3>8
  <2>5. ASSUME NEW q \in Paths \ {p}
        PROVE  SameRead(t, u, q)
    <3>1. CASE q \in DOMAIN t
      <4>1. q \in DOMAIN u /\ u[q] = t[q]
        BY <2>1, <2>4, <3>1
      <4> QED
        BY <3>1, <4>1, SameReadFacts
    <3>2. CASE q \notin DOMAIN t
      <4>1. q \notin DOMAIN u
        BY <2>1, <3>2
      <4> QED
        BY <3>2, <4>1, SameReadFacts
    <3> QED
      BY <3>1, <3>2
  <2> QED
    BY <2>5 DEF u
<1> QED
  BY <1>1, <1>2, <1>3

\* mkdir -p adds directories only.
LEMMA TreeMkdirParents ==
    ASSUME NEW t, HasNodes(t), NEW p, MemMkdirParents(t, p).res = "ok"
    PROVE  LET u == MemMkdirParents(t, p).tree
           IN /\ p \in DOMAIN u /\ u[p].kind = "dir"
              /\ \A q : SameRead(t, u, q)
<1> DEFINE all == Ancestors(p) \cup {p}
           u == MemMkdirParents(t, p).tree
<1>1. /\ \A q \in all \cap DOMAIN t : t[q].kind = "dir"
      /\ u = [q \in DOMAIN t \cup all |-> IF q \in DOMAIN t THEN t[q] ELSE Dir]
  BY DEF MemMkdirParents, Outcome
<1>2. p \in all
  OBVIOUS
<1> HIDE DEF all, u
<1>3. /\ DOMAIN u = DOMAIN t \cup all
      /\ \A q \in DOMAIN t : u[q] = t[q]
      /\ \A q \in DOMAIN u \ DOMAIN t : u[q] = Dir
  BY <1>1
<1>4. Dir.kind = "dir"
  BY NodeFacts
<1>5. p \in DOMAIN u /\ u[p].kind = "dir"
  BY <1>1, <1>2, <1>3, <1>4
<1>6. ASSUME NEW q
      PROVE  SameRead(t, u, q)
  <2>1. CASE q \in DOMAIN t
    BY <1>3, <2>1, SameReadFacts
  <2>2. CASE q \notin DOMAIN t
    <3>1. q \in DOMAIN u => u[q].kind = "dir"
      BY <1>3, <1>4, <2>2
    <3> QED
      BY <2>2, <3>1, SameReadFacts
  <2> QED
    BY <2>1, <2>2
<1> QED
  BY <1>5, <1>6 DEF u

\* Which mount serves a path depends on nothing but the mounts.
LEMMA ServedTheSame ==
    ASSUME mounts' = mounts, NEW p
    PROVE  (Mounted(p)' <=> Mounted(p)) /\ Host(p)' = Host(p) /\ Rel(p)' = Rel(p)
<1>1. FindMount(p)' = FindMount(p) /\ NoMount' = NoMount
  BY DEF FindMount, NoMount
<1>2. Host(p)' = Host(p)
  BY <1>1 DEF Host
<1> QED
  BY <1>1, <1>2 DEF Mounted, Rel

\* No two paths of a host have the same name there.
LEMMA RelFacts ==
    ASSUME MountsInv, NEW p \in Paths, NEW q \in Paths, Mounted(p), Mounted(q),
           Host(p) = Host(q), Rel(p) = Rel(q)
    PROVE  p = q
<1>1. p \in Seq(Names) /\ q \in Seq(Names) /\ Host(p) \in Seq(Names)
      /\ Covers(Host(p), p) /\ Covers(Host(p), q)
  BY FindFacts, PathFacts, MountAssumption DEF MountsInv
<1>2. IsPrefix(Host(p), p) /\ IsPrefix(Host(p), q)
  BY <1>1, PrefixEnds DEF Covers
<1>3. Host(p) \o Rel(p) = p /\ Host(p) \o Rel(q) = q
  BY <1>1, <1>2, SuffixFacts DEF Rel
<1> QED
  BY <1>3

\* A step on the tree, seen through the mounts.
LEMMA TreeStepSame ==
    ASSUME UNCHANGED <<mounts, hosts>>, NEW q, ~Mounted(q) => SameRead(tree, tree', q)
    PROVE  SameFile(q)
<1>1. (Mounted(q)' <=> Mounted(q)) /\ Host(q)' = Host(q) /\ Rel(q)' = Rel(q)
  BY ServedTheSame
<1>2. CASE Mounted(q)
  <2>1. ReadFile(q) = HostRead(q) /\ ReadFile(q)' = HostRead(q)'
    BY <1>1, <1>2 DEF ReadFile
  <2>2. HostRead(q)' = HostRead(q)
    BY <1>1 DEF HostRead
  <2> QED
    BY <2>1, <2>2 DEF SameFile
<1>3. CASE ~Mounted(q)
  <2>1. ReadFile(q) = MemRead(tree, q) /\ ReadFile(q)' = MemRead(tree', q)
    BY <1>1, <1>3 DEF ReadFile
  <2> QED
    BY <1>3, <2>1 DEF SameFile, SameRead
<1> QED
  BY <1>2, <1>3

\* A step on the one file p of a host: the other files are what they were.
LEMMA HostStepSame ==
    ASSUME MountsInv, NEW p \in Paths, Mounted(p), UNCHANGED <<tree, mounts>>,
           NEW new, hosts' = [hosts EXCEPT ![Host(p)] = new],
           \A r : r # Rel(p) =>
              /\ r \in DOMAIN new <=> r \in DOMAIN hosts[Host(p)]
              /\ r \in DOMAIN new => new[r] = hosts[Host(p)][r],
           NEW q \in Paths, q # p
    PROVE  SameFile(q)
<1>1. (Mounted(q)' <=> Mounted(q)) /\ Host(q)' = Host(q) /\ Rel(q)' = Rel(q)
  BY ServedTheSame
<1>2. CASE Mounted(q)
  <2>1. ReadFile(q) = HostRead(q) /\ ReadFile(q)' = HostRead(q)'
    BY <1>1, <1>2 DEF ReadFile
  <2>2. Host(q) \in DOMAIN hosts
    BY <1>2, HostFacts
  <2>3. CASE Host(q) # Host(p)
    <3>1. hosts'[Host(q)] = hosts[Host(q)]
      BY <2>2, <2>3
    <3>2. HostRead(q)' = HostRead(q)
      BY <1>1, <3>1 DEF HostRead
    <3> QED
      BY <2>1, <3>2 DEF SameFile
  <2>4. CASE Host(q) = Host(p)
    <3>1. Rel(q) # Rel(p)
      BY <1>2, <2>4, RelFacts
    <3>2. hosts'[Host(q)] = new
      BY <2>2, <2>4
    <3>3. HostRead(q)' = HostRead(q)
      BY <1>1, <2>4, <3>1, <3>2 DEF HostRead
    <3> QED
      BY <2>1, <3>3 DEF SameFile
  <2> QED
    BY <2>3, <2>4
<1>3. CASE ~Mounted(q)
  BY <1>1, <1>3 DEF ReadFile, SameFile
<1> QED
  BY <1>2, <1>3

\* What Stat says of a path that no mount serves.
LEMMA StatFacts ==
    ASSUME NEW t, NEW p, HasNodes(t)
    PROVE  /\ Missing(t, p) \in {"NotADir", "NotFound"}
           /\ p \in DOMAIN t => t[p].kind \in {"dir", "file", "null", "device"}
BY NodeFacts DEF Missing, HasNodes, Kinds

LEMMA WriteEffect ==
    ASSUME IInv, NEW p \in Paths, NEW d \in Contents, WriteFile(p, d)
    PROVE  /\ Stat(p) \in {"file", "NotFound"} /\ Stat(p)' = "file"
                 => ReadFile(p)' = [res |-> "ok", data |-> d]
           /\ \A q \in Paths \ {p} : SameFile(q)
<1>1. Shape(tree) /\ HasNodes(tree) /\ MountsInv
  BY DEF IInv, TreeShape
<1>2. mounts' = mounts
  BY DEF WriteFile
<1>3. (Mounted(p)' <=> Mounted(p)) /\ Host(p)' = Host(p) /\ Rel(p)' = Rel(p)
  BY <1>2, ServedTheSame
<1>4. CASE Mounted(p)
  <2> DEFINE old == hosts[Host(p)]
             new == [r \in DOMAIN old \cup {Rel(p)} |-> IF r = Rel(p) THEN d ELSE old[r]]
  <2>1. hosts' = [hosts EXCEPT ![Host(p)] = new] /\ tree' = tree
    BY <1>4 DEF WriteFile, HostWrite
  <2>2. Host(p) \in DOMAIN hosts
    BY <1>1, <1>4, HostFacts
  <2>3. /\ Rel(p) \in DOMAIN new /\ new[Rel(p)] = d
        /\ \A r : r # Rel(p) => /\ r \in DOMAIN new <=> r \in DOMAIN old
                                /\ r \in DOMAIN new => new[r] = old[r]
    OBVIOUS
  <2> HIDE DEF new
  <2>4. hosts'[Host(p)] = new
    BY <2>1, <2>2
  <2>5. HostRead(p)' = [res |-> "ok", data |-> d]
    BY <1>3, <2>3, <2>4 DEF HostRead
  <2>6. ReadFile(p)' = [res |-> "ok", data |-> d]
    BY <1>3, <1>4, <2>5 DEF ReadFile
  <2>7. \A q \in Paths \ {p} : SameFile(q)
    BY <1>1, <1>2, <1>4, <2>1, <2>3, HostStepSame
  <2> QED
    BY <2>6, <2>7
<1>5. CASE ~Mounted(p)
  <2>1. tree' = MemWrite(tree, p, d).tree /\ UNCHANGED <<mounts, hosts>>
    BY <1>5 DEF WriteFile
  <2>2. /\ \A q \in Paths \ {p} : SameRead(tree, tree', q)
        /\ \/ p \in DOMAIN tree /\ tree[p].kind = "file"
           \/ p \notin DOMAIN tree /\ p \in DOMAIN tree'
           => MemRead(tree', p) = [res |-> "ok", data |-> d]
    BY <1>1, <2>1, TreeWrite
  <2>3. \A q \in Paths \ {p} : SameFile(q)
    BY <2>1, <2>2, TreeStepSame
  <2>4. ASSUME Stat(p) \in {"file", "NotFound"}, Stat(p)' = "file"
        PROVE  ReadFile(p)' = [res |-> "ok", data |-> d]
    <3>1. Stat(p) = IF p \in DOMAIN tree THEN tree[p].kind ELSE Missing(tree, p)
      BY <1>5 DEF Stat
    <3>2. Stat(p)' = IF p \in DOMAIN tree' THEN tree'[p].kind ELSE Missing(tree', p)
      BY <1>3, <1>5 DEF Stat
    <3>3. p \in DOMAIN tree'
      <4>1. Missing(tree', p) # "file"
        BY DEF Missing
      <4> QED
        BY <2>4, <3>2, <4>1
    <3>4. p \in DOMAIN tree => tree[p].kind = "file"
      BY <1>1, <2>4, <3>1, StatFacts
    <3>5. MemRead(tree', p) = [res |-> "ok", data |-> d]
      BY <2>2, <3>3, <3>4
    <3> QED
      BY <1>3, <1>5, <3>5 DEF ReadFile
  <2> QED
    BY <2>3, <2>4
<1> QED
  BY <1>4, <1>5

LEMMA RemoveEffect ==
    ASSUME IInv, NEW p \in Paths, RemovePath(p, FALSE), NEW q \in Paths, q # p
    PROVE  SameFile(q)
<1>1. Shape(tree) /\ HasNodes(tree) /\ MountsInv
  BY DEF IInv, TreeShape
<1>2. CASE Mounted(p)
  <2> DEFINE old == hosts[Host(p)]
             new == [r \in DOMAIN old \ {Rel(p)} |-> old[r]]
  <2>1. hosts' = [hosts EXCEPT ![Host(p)] = new] /\ UNCHANGED <<tree, mounts>>
    BY <1>2 DEF RemovePath, HostRemove
  <2>2. \A r : r # Rel(p) => /\ r \in DOMAIN new <=> r \in DOMAIN old
                             /\ r \in DOMAIN new => new[r] = old[r]
    OBVIOUS
  <2> HIDE DEF new
  <2> QED
    BY <1>1, <1>2, <2>1, <2>2, HostStepSame
<1>3. CASE ~Mounted(p)
  <2>1. tree' = MemRemove(tree, p, FALSE).tree /\ UNCHANGED <<mounts, hosts>>
    BY <1>3 DEF RemovePath
  <2>2. SameRead(tree, tree', q)
    BY <1>1, <2>1, TreeRemove
  <2> QED
    BY <2>1, <2>2, TreeStepSame
<1> QED
  BY <1>2, <1>3

LEMMA MkdirEffect ==
    ASSUME IInv, NEW p \in Paths, Mkdir(p, TRUE), MemMkdirParents(tree, p).res = "ok"
    PROVE  /\ Mounted(p) \/ Stat(p)' = "dir"
           /\ \A q \in Paths : SameFile(q)
<1>1. tree' = MemMkdirParents(tree, p).tree /\ UNCHANGED <<mounts, hosts>>
  BY DEF Mkdir
<1>2. /\ p \in DOMAIN tree' /\ tree'[p].kind = "dir"
      /\ \A q : SameRead(tree, tree', q)
  BY <1>1, TreeMkdirParents DEF IInv
<1>3. Mounted(p)' <=> Mounted(p)
  BY <1>1, ServedTheSame
<1>4. Mounted(p) \/ Stat(p)' = "dir"
  BY <1>2, <1>3 DEF Stat
<1> QED
  BY <1>1, <1>2, <1>4, TreeStepSame

\* A write that succeeds is read back; a write, a remove without -r and a mkdir -p
\* leave every other file as it was, whether the tree or a mount serves the path and
\* whatever is mounted inside what (tests.rs:141-149).
THEOREM WriteKept == Spec => WriteSticks
<1>1. ASSUME IInv, NEW p \in Paths
      PROVE  /\ \A d \in Contents : WriteFile(p, d) =>
                   /\ Stat(p) \in {"file", "NotFound"} /\ Stat(p)' = "file"
                         => ReadFile(p)' = [res |-> "ok", data |-> d]
                   /\ \A q \in Paths \ {p} : SameFile(q)
             /\ RemovePath(p, FALSE) => \A q \in Paths \ {p} : SameFile(q)
             /\ (Mkdir(p, TRUE) /\ MemMkdirParents(tree, p).res = "ok") =>
                   /\ Mounted(p) \/ Stat(p)' = "dir"
                   /\ \A q \in Paths : SameFile(q)
  BY <1>1, WriteEffect, RemoveEffect, MkdirEffect
<1>2. IInv => [\A p \in Paths :
          /\ \A d \in Contents : WriteFile(p, d) =>
                /\ Stat(p) \in {"file", "NotFound"} /\ Stat(p)' = "file"
                      => ReadFile(p)' = [res |-> "ok", data |-> d]
                /\ \A q \in Paths \ {p} : SameFile(q)
          /\ RemovePath(p, FALSE) => \A q \in Paths \ {p} : SameFile(q)
          /\ (Mkdir(p, TRUE) /\ MemMkdirParents(tree, p).res = "ok") =>
                /\ Mounted(p) \/ Stat(p)' = "dir"
                /\ \A q \in Paths : SameFile(q)]_vars
  BY <1>1
<1> QED
  BY <1>2, InvKept, PTL DEF WriteSticks
=============================================================================
