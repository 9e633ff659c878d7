--------------------------- MODULE FileToolsProofs ---------------------------
(***************************************************************************)
(* Theorems about FileTools, for every tree, every command line and any    *)
(* number of operands, over the lemmas about trees of VfsProofs.           *)
(***************************************************************************)
EXTENDS FileTools, SequenceTheorems, TLAPS

\* The filesystem again, with what is proved of it.
P == INSTANCE VfsProofs
       WITH MountPoints <- {}, HostFiles <- {}, mounts <- <<>>, hosts <- <<>>

\* Both instances say the same.
LEMMA Same ==
    /\ V!Paths = P!Paths
    /\ V!Nodes = P!Nodes
    /\ V!Dir = P!Dir
    /\ \A p : V!Parent(p) = P!Parent(p) /\ V!Ancestors(p) = P!Ancestors(p)
    /\ \A n : V!Leaf(n) = P!Leaf(n) /\ V!File(n) = P!File(n)
    /\ \A r, t : V!Outcome(r, t) = P!Outcome(r, t)
    /\ \A t, p : V!IsDir(t, p) <=> P!IsDir(t, p)
    /\ \A p, q : (V!IsPrefix(p, q) <=> IsPrefix(p, q)) /\ (P!IsPrefix(p, q) <=> IsPrefix(p, q))
BY DEF V!Paths, P!Paths, V!Nodes, P!Nodes, V!Kinds, P!Kinds, V!Leaf, P!Leaf, V!File, P!File,
       V!Node, P!Node, V!Dir, P!Dir, V!Parent, P!Parent, V!Ancestors, P!Ancestors,
       V!Outcome, P!Outcome, V!IsDir, P!IsDir, IsPrefix, V!IsPrefix, P!IsPrefix

LEMMA SameShape ==
    /\ \A t : V!Shape(t) <=> P!Shape(t)
    /\ \A t : V!IsTree(t) <=> P!Shape(t) /\ P!HasNodes(t)
BY Same DEF V!Shape, P!Shape, V!IsTree, P!HasNodes

LEMMA SamePruned ==
    ASSUME NEW t, NEW p
    PROVE  V!Pruned(t, p) = P!Pruned(t, p)
<1> DEFINE S == {q \in DOMAIN t : ~IsPrefix(p, q)}
<1>1. V!Pruned(t, p) = [q \in S |-> t[q]]
  BY Same DEF V!Pruned
<1>2. P!Pruned(t, p) = [q \in S |-> t[q]]
  BY Same DEF P!Pruned
<1> HIDE DEF S
<1> QED
  BY <1>1, <1>2

LEMMA SameSubtree ==
    ASSUME NEW t, NEW p
    PROVE  V!Subtree(t, p) = P!Subtree(t, p)
<1> DEFINE S == {SubSeq(q, Len(p) + 1, Len(q)) : q \in {q \in DOMAIN t : IsPrefix(p, q)}}
<1>1. V!Subtree(t, p) = [r \in S |-> t[p \o r]]
  BY Same DEF V!Subtree
<1>2. P!Subtree(t, p) = [r \in S |-> t[p \o r]]
  BY Same DEF P!Subtree
<1> HIDE DEF S
<1> QED
  BY <1>1, <1>2

LEMMA SameGrafted ==
    ASSUME NEW t, NEW p, NEW sub
    PROVE  V!Grafted(t, p, sub) = P!Grafted(t, p, sub)
<1> DEFINE S == DOMAIN P!Pruned(t, p) \cup {p \o r : r \in DOMAIN sub}
<1>1. V!Grafted(t, p, sub) =
        [q \in S |-> IF IsPrefix(p, q) THEN sub[SubSeq(q, Len(p) + 1, Len(q))] ELSE t[q]]
  BY Same, SamePruned DEF V!Grafted
<1>2. P!Grafted(t, p, sub) =
        [q \in S |-> IF IsPrefix(p, q) THEN sub[SubSeq(q, Len(p) + 1, Len(q))] ELSE t[q]]
  BY Same DEF P!Grafted
<1> HIDE DEF S
<1> QED
  BY <1>1, <1>2

LEMMA SameMkdirParents ==
    ASSUME NEW t, NEW p
    PROVE  V!MemMkdirParents(t, p) = P!MemMkdirParents(t, p)
<1> DEFINE all == P!Ancestors(p) \cup {p}
           new == [q \in DOMAIN t \cup all |-> IF q \in DOMAIN t THEN t[q] ELSE P!Dir]
<1>1. V!MemMkdirParents(t, p) =
        IF \E q \in all \cap DOMAIN t : t[q].kind # "dir"
          THEN P!Outcome("NotADir", t) ELSE P!Outcome("ok", new)
  BY Same DEF V!MemMkdirParents
<1>2. P!MemMkdirParents(t, p) =
        IF \E q \in all \cap DOMAIN t : t[q].kind # "dir"
          THEN P!Outcome("NotADir", t) ELSE P!Outcome("ok", new)
  BY DEF P!MemMkdirParents
<1> HIDE DEF all, new
<1> QED
  BY <1>1, <1>2

LEMMA SameOps ==
    /\ \A t, p : V!Missing(t, p) = P!Missing(t, p)
    /\ \A t, p : V!ParentError(t, p) = P!ParentError(t, p)
    /\ \A t, p, s : V!MemSetNode(t, p, s) = P!MemSetNode(t, p, s)
    /\ \A t, p : V!MemMkdir(t, p) = P!MemMkdir(t, p)
    /\ \A t, p : V!MemMkdirParents(t, p) = P!MemMkdirParents(t, p)
    /\ \A t, p, r : V!MemRemove(t, p, r) = P!MemRemove(t, p, r)
    /\ \A t, p, d : V!MemWrite(t, p, d) = P!MemWrite(t, p, d)
    /\ \A t, p, q : V!MemRename(t, p, q) = P!MemRename(t, p, q)
    /\ \A t, p : V!Children(t, p) = P!Children(t, p)
<1>1. \A t, p : V!Missing(t, p) = P!Missing(t, p)
  BY Same DEF V!Missing, P!Missing
<1>2. \A t, p : V!ParentError(t, p) = P!ParentError(t, p)
  BY <1>1, Same DEF V!ParentError, P!ParentError
<1>3. \A t, p, s : V!MemSetNode(t, p, s) = P!MemSetNode(t, p, s)
  BY <1>2, Same, SameGrafted DEF V!MemSetNode, P!MemSetNode
<1>4. \A t, p : V!MemMkdir(t, p) = P!MemMkdir(t, p)
  BY <1>2, Same, SameGrafted DEF V!MemMkdir, P!MemMkdir
<1>5. \A t, p : V!Children(t, p) = P!Children(t, p)
  BY Same DEF V!Children, P!Children
<1>6. \A t, p : V!MemRemoveNode(t, p) = P!MemRemoveNode(t, p)
  BY <1>2, Same, SamePruned DEF V!MemRemoveNode, P!MemRemoveNode
<1>7. \A t, p, r : V!MemRemove(t, p, r) = P!MemRemove(t, p, r)
  BY <1>5, <1>6, Same DEF V!MemRemove, P!MemRemove
<1>8. \A t, p, d : V!MemWrite(t, p, d) = P!MemWrite(t, p, d)
  BY <1>1, <1>3, Same DEF V!MemWrite, P!MemWrite
<1>9. \A t, p, q : V!MemRename(t, p, q) = P!MemRename(t, p, q)
  BY <1>3, <1>6, SameSubtree DEF V!MemRename, P!MemRename
<1> QED
  BY <1>1, <1>2, <1>3, <1>4, <1>5, <1>7, <1>8, <1>9, SameMkdirParents

\* What the lemmas about trees assume of the constants.
LEMMA Assumed ==
    P!BoundAssumption /\ P!ContentAssumption /\ P!MountAssumption /\ P!InitAssumption
BY TreeAssumption, SameShape
   DEF P!BoundAssumption, P!ContentAssumption, P!MountAssumption, P!InitAssumption,
       P!IsTree, P!HasNodes
-----------------------------------------------------------------------------
(***************************************************************************)
(* The facts about trees, in the words of FileTools.                       *)
(***************************************************************************)
Kept(t, u, q) == q \in DOMAIN u /\ u[q] = t[q]

\* A tree after a step of the filesystem that took nothing out of t.
Grows(t, u) ==
    /\ V!IsTree(u)
    /\ \A q \in DOMAIN t : q \in DOMAIN u /\ (t[q].kind = "dir" => u[q] = t[q])

LEMMA TreeFacts ==
    ASSUME NEW t, V!IsTree(t)
    PROVE  /\ P!Shape(t) /\ P!HasNodes(t)
           /\ \A q \in DOMAIN t : q \in V!Paths
           /\ \A q \in V!Paths : q \in Seq(Names) /\ Len(q) \in Nat
BY Same, SameShape, Assumed, P!PathFacts, LenProperties DEF P!Shape

LEMMA MkdirFacts ==
    ASSUME NEW t, V!IsTree(t), NEW p \in V!Paths
    PROVE  /\ Grows(t, V!MemMkdir(t, p).tree)
           /\ \A q \in DOMAIN t : Kept(t, V!MemMkdir(t, p).tree, q)
<1> DEFINE u == P!MemMkdir(t, p).tree
<1>1. /\ P!Shape(t) /\ P!HasNodes(t) /\ p \in P!Paths /\ DOMAIN t \subseteq P!Paths
      /\ V!MemMkdir(t, p).tree = u
  BY TreeFacts, Same, SameOps DEF P!Shape
<1>2. P!Shape(u) /\ P!HasNodes(u)
  BY <1>1, Assumed, P!MkdirShape, P!MkdirNodes
<1>3. \A q \in DOMAIN t : P!KeptAt(t, u, q)
  BY <1>1, Assumed, P!MkdirLeaves
<1> HIDE DEF u
<1> QED
  BY <1>1, <1>2, <1>3, SameShape DEF Grows, Kept, P!KeptAt

LEMMA MkdirParentsFacts ==
    ASSUME NEW t, V!IsTree(t), NEW p \in V!Paths
    PROVE  /\ Grows(t, V!MemMkdirParents(t, p).tree)
           /\ \A q \in DOMAIN t : Kept(t, V!MemMkdirParents(t, p).tree, q)
<1> DEFINE u == P!MemMkdirParents(t, p).tree
<1>1. /\ P!Shape(t) /\ P!HasNodes(t) /\ p \in P!Paths
      /\ V!MemMkdirParents(t, p).tree = u
  BY TreeFacts, Same, SameOps
<1>2. P!Shape(u) /\ P!HasNodes(u)
  BY <1>1, Assumed, P!MkdirParentsShape, P!MkdirParentsNodes
<1>3. \A q \in DOMAIN t : P!KeptAt(t, u, q)
  BY <1>1, Assumed, P!MkdirParentsLeaves
<1> HIDE DEF u
<1> QED
  BY <1>1, <1>2, <1>3, SameShape DEF Grows, Kept, P!KeptAt

LEMMA WriteFacts ==
    ASSUME NEW t, V!IsTree(t), NEW p \in V!Paths, NEW d \in Contents
    PROVE  /\ Grows(t, V!MemWrite(t, p, d).tree)
           /\ \A q \in DOMAIN t : q # p \/ t[q].kind # "file"
                                   => Kept(t, V!MemWrite(t, p, d).tree, q)
<1> DEFINE u == P!MemWrite(t, p, d).tree
<1>1. /\ P!Shape(t) /\ P!HasNodes(t) /\ p \in P!Paths /\ DOMAIN t \subseteq P!Paths
      /\ V!MemWrite(t, p, d).tree = u
  BY TreeFacts, Same, SameOps DEF P!Shape
<1>2. P!Shape(u) /\ P!HasNodes(u)
  BY <1>1, Assumed, P!WriteShape, P!WriteNodes
<1>3. \A q \in DOMAIN t : /\ q \in DOMAIN u
                          /\ q # p \/ t[q].kind = "dir" => P!KeptAt(t, u, q)
  BY <1>1, Assumed, P!WriteLeaves
<1>4. p \in DOMAIN t /\ t[p].kind \notin {"dir", "file"} => u = t
  BY DEF P!MemWrite, P!Outcome
<1> HIDE DEF u
<1> QED
  BY <1>1, <1>2, <1>3, <1>4, SameShape DEF Grows, Kept, P!KeptAt

LEMMA RemoveTreeFacts ==
    ASSUME NEW t, V!IsTree(t), NEW p \in V!Paths, NEW r
    PROVE  /\ V!IsTree(V!MemRemove(t, p, r).tree)
           /\ \A q \in DOMAIN t : ~IsPrefix(p, q) => Kept(t, V!MemRemove(t, p, r).tree, q)
<1> DEFINE u == P!MemRemove(t, p, r).tree
<1>1. /\ P!Shape(t) /\ P!HasNodes(t) /\ p \in P!Paths
      /\ V!MemRemove(t, p, r).tree = u
  BY TreeFacts, Same, SameOps
<1>2. P!Shape(u)
  BY <1>1, Assumed, P!RemoveShape
<1>3. P!HasNodes(u)
  BY <1>1, Assumed, P!RemoveNodeNodes DEF P!MemRemove, P!Outcome
<1>4. \A q \in DOMAIN t : ~P!IsPrefix(p, q) => P!KeptAt(t, u, q)
  BY Assumed, P!RemoveLeaves
<1> HIDE DEF u
<1> QED
  BY <1>1, <1>2, <1>3, <1>4, Same, SameShape DEF Kept, P!KeptAt

\* A rename of what is not there does nothing; one of what is there needs room for it.
LEMMA RenameFacts ==
    ASSUME NEW t, V!IsTree(t), NEW from \in V!Paths, NEW to,
           \A r \in DOMAIN V!Subtree(t, from) : to \o r \in V!Paths,
           to \in Seq(Names)
    PROVE  /\ V!IsTree(V!MemRename(t, from, to).tree)
           /\ \A q \in DOMAIN t : ~IsPrefix(from, q) /\ ~IsPrefix(to, q)
                 => Kept(t, V!MemRename(t, from, to).tree, q)
           /\ V!MemRename(t, from, to).tree = t \/ to \in V!Paths
<1> DEFINE u == P!MemRename(t, from, to).tree
<1>1. /\ P!Shape(t) /\ P!HasNodes(t) /\ from \in P!Paths
      /\ V!MemRename(t, from, to).tree = u
      /\ \A r \in DOMAIN P!Subtree(t, from) : to \o r \in P!Paths
  BY TreeFacts, Same, SameOps, SameSubtree
<1>2. CASE from \notin DOMAIN t
  <2>1. P!MemRemoveNode(t, from).res # "ok"
    BY <1>2, Assumed, P!RemoveNodeOk
  <2>2. u = t
    BY <2>1 DEF P!MemRename, P!MemRemoveNode, P!Outcome
  <2> HIDE DEF u
  <2> QED
    BY <1>1, <2>2 DEF Kept
<1>3. CASE from \in DOMAIN t
  <2>1. to \in P!Paths
    <3>1. <<>> \in DOMAIN P!Subtree(t, from)
      BY <1>1, <1>3, Assumed, P!SubtreeFacts
    <3>2. to \o <<>> = to
      BY ConcatEmptySeq
    <3> QED
      BY <1>1, <3>1, <3>2
  <2>2. P!Shape(u) /\ P!HasNodes(u)
    BY <1>1, <2>1, Assumed, P!RenameShape, P!RenameNodes
  <2>3. \A q \in DOMAIN t : ~P!IsPrefix(from, q) /\ ~P!IsPrefix(to, q) => P!KeptAt(t, u, q)
    BY <1>1, <2>1, Assumed, P!RenameLeaves
  <2> HIDE DEF u
  <2> QED
    BY <1>1, <2>1, <2>2, <2>3, Same, SameShape DEF Kept, P!KeptAt
<1> QED
  BY <1>2, <1>3

\* What a copy writes is what a file held.
LEMMA CopyFacts ==
    ASSUME V!IsTree(tree), NEW from, NEW to \in V!Paths
    PROVE  /\ Grows(tree, CopyOf(from, to).tree)
           /\ \A q \in DOMAIN tree : q # to \/ tree[q].kind # "file"
                                      => Kept(tree, CopyOf(from, to).tree, q)
           /\ V!MemRead(tree, from).res = "ok" => from \in DOMAIN tree
           /\ V!MemRead(tree, from).res # "ok" => CopyOf(from, to).tree = tree
<1> DEFINE read == V!MemRead(tree, from)
<1>1. read.res = "ok" => from \in DOMAIN tree
  <2>1. V!Missing(tree, from) # "ok"
    BY DEF V!Missing
  <2> QED
    BY <2>1 DEF V!MemRead
<1>2. read.res = "ok" => read.data \in Contents
  <2> SUFFICES ASSUME read.res = "ok"
               PROVE  read.data \in Contents
    OBVIOUS
  <2>1. tree[from] \in V!Nodes
    BY <1>1 DEF V!IsTree
  <2>2. tree[from].data \in Contents /\ tree[from].kind \in {"dir", "file", "null", "device"}
    <3>1. \A k, d : P!Node(k, d).kind = k /\ P!Node(k, d).data = d
      BY DEF P!Node
    <3>2. tree[from] \in P!Nodes
      BY <2>1, Same
    <3>3. tree[from].kind \in P!Kinds /\ tree[from].data \in Contents
      BY <3>2, Assumed, P!NodeFacts
    <3> QED
      BY <3>3 DEF P!Kinds
  <2>3. tree[from].kind = "file" \/ tree[from].kind = "null"
    BY <1>1, <2>2 DEF V!MemRead
  <2>4. read.data = tree[from].data \/ read.data = NoBytes
    BY <1>1, <2>3 DEF V!MemRead
  <2> QED
    BY <2>2, <2>4, TreeAssumption
<1>3. CASE read.res # "ok"
  <2>1. CopyOf(from, to).tree = tree
    BY <1>3 DEF CopyOf, V!Outcome
  <2> QED
    BY <1>3, <2>1 DEF Grows, Kept
<1>4. CASE read.res = "ok"
  <2>1. CopyOf(from, to) = V!MemWrite(tree, to, read.data)
    BY <1>4 DEF CopyOf
  <2> QED
    BY <1>1, <1>2, <1>4, <2>1, WriteFacts
<1> QED
  BY <1>3, <1>4
-----------------------------------------------------------------------------
(***************************************************************************)
(* The operands that are left, and the directories that are being copied.  *)
(***************************************************************************)

\* s is the end of t: by positions, what IsSuffix says of their reverses.
Ends(s, t) == Len(s) <= Len(t) /\ \A i \in 1..Len(s) : s[i] = t[i + (Len(t) - Len(s))]

LEMMA EndsFacts ==
    ASSUME NEW s \in Seq(Operands), NEW t \in Seq(Operands), Ends(s, t)
    PROVE  /\ IsSuffix(s, t)
           /\ s # <<>> => Ends(Tail(s), t) /\ \E k \in DOMAIN t : Head(s) = t[k]
<1>1. /\ Len(s) \in Nat /\ Len(t) \in Nat /\ Len(s) <= Len(t)
      /\ DOMAIN s = 1..Len(s) /\ DOMAIN t = 1..Len(t)
      /\ \A i \in 1..Len(s) : s[i] \in Operands
      /\ \A i \in 1..Len(t) : t[i] \in Operands
  BY LenProperties, ElementOfSeq DEF Ends
<1>2. ASSUME NEW x \in Seq(Operands)
      PROVE  /\ Reverse(x) \in Seq(Operands) /\ Len(Reverse(x)) = Len(x)
             /\ \A i \in 1..Len(x) : Reverse(x)[i] = x[(Len(x) - i) + 1]
  <2>1. Len(x) \in Nat /\ \A i \in 1..Len(x) : x[i] \in Operands
    BY LenProperties, ElementOfSeq
  <2>2. \A i \in 1..Len(x) : (Len(x) - i) + 1 \in 1..Len(x)
    BY <2>1
  <2>3. Reverse(x) = [i \in 1..Len(x) |-> x[(Len(x) - i) + 1]]
    BY DEF Reverse
  <2>4. Reverse(x) \in [1..Len(x) -> Operands]
    BY <2>1, <2>2, <2>3
  <2>5. Reverse(x) \in Seq(Operands) /\ DOMAIN Reverse(x) = 1..Len(x)
    BY <2>1, <2>4, IsASeq
  <2>6. Len(Reverse(x)) = Len(x)
    BY <2>1, <2>5, LenProperties
  <2> QED
    BY <2>3, <2>5, <2>6
<1>3. IsSuffix(s, t)
  <2> DEFINE n == Len(s)
             rs == Reverse(s)
             rt == Reverse(t)
  <2>1. /\ rs \in Seq(Operands) /\ Len(rs) = n /\ \A i \in 1..n : rs[i] = s[(n - i) + 1]
        /\ rt \in Seq(Operands) /\ Len(rt) = Len(t)
        /\ \A i \in 1..Len(t) : rt[i] = t[(Len(t) - i) + 1]
    BY <1>2
  <2> HIDE DEF rs, rt
  <2>2. SubSeq(rs, 1, n) = rs
    BY <2>1, SubSeqFull
  <2>3. /\ SubSeq(rt, 1, n) \in Seq(Operands) /\ Len(SubSeq(rt, 1, n)) = n
        /\ \A i \in 1..n : SubSeq(rt, 1, n)[i] = rt[i]
    <3>1. \A i \in 1..n : rt[i] \in Operands
      BY <1>1, <2>1, ElementOfSeq
    <3>2. n \in Int /\ 1 \in Int /\ n - 1 + 1 = n /\ \A i \in 1..n : 1 + i - 1 = i
      BY <1>1
    <3>3. CASE 1 <= n
      BY <1>1, <3>1, <3>2, <3>3, SubSeqProperties
    <3>4. CASE n = 0
      BY <1>1, <3>4, SubSeqEmpty, EmptySeq
    <3> QED
      BY <1>1, <3>3, <3>4
  <2>4. ASSUME NEW i \in 1..n
        PROVE  rs[i] = rt[i]
    <3>1. /\ (n - i) + 1 \in 1..n /\ i \in 1..Len(t)
          /\ ((n - i) + 1) + (Len(t) - n) = (Len(t) - i) + 1
      BY <1>1
    <3>2. s[(n - i) + 1] = t[((n - i) + 1) + (Len(t) - n)]
      BY <3>1 DEF Ends
    <3> QED
      BY <2>1, <3>1, <3>2
  <2>5. rs = SubSeq(rt, 1, n)
    BY <2>1, <2>3, <2>4, SeqEqual
  <2>6. IsPrefix(rs, rt)
    BY <1>1, <2>1, <2>2, <2>5 DEF IsPrefix
  <2> QED
    BY <2>6 DEF IsSuffix, rs, rt
<1>4. ASSUME s # <<>>
      PROVE  Ends(Tail(s), t) /\ \E k \in DOMAIN t : Head(s) = t[k]
  <2>1. /\ Len(s) \in Nat \ {0} /\ Len(Tail(s)) = Len(s) - 1
        /\ \A i \in 1..(Len(s) - 1) : Tail(s)[i] = s[i + 1]
        /\ Head(s) = s[1]
    BY <1>4, EmptySeq, HeadTailProperties
  <2>2. \A i \in 1..(Len(s) - 1) :
           /\ i + 1 \in 1..Len(s)
           /\ (i + 1) + (Len(t) - Len(s)) = i + (Len(t) - (Len(s) - 1))
    BY <1>1, <2>1
  <2>3. \A i \in 1..(Len(s) - 1) : Tail(s)[i] = t[i + (Len(t) - (Len(s) - 1))]
    BY <2>1, <2>2 DEF Ends
  <2>4. Ends(Tail(s), t)
    BY <1>1, <2>1, <2>3 DEF Ends
  <2>5. 1 \in 1..Len(s) /\ 1 + (Len(t) - Len(s)) \in DOMAIN t
    BY <1>1, <2>1
  <2>6. Head(s) = t[1 + (Len(t) - Len(s))]
    BY <2>1, <2>5 DEF Ends
  <2> QED
    BY <2>4, <2>5, <2>6
<1> QED
  BY <1>3, <1>4

LEMMA EndsWhole ==
    ASSUME NEW t \in Seq(Operands)
    PROVE  Ends(t, t)
<1>1. Len(t) \in Nat /\ \A i \in 1..Len(t) : i + (Len(t) - Len(t)) = i
  BY LenProperties
<1> QED
  BY <1>1 DEF Ends

\* A name put after a path.
LEMMA NameFacts ==
    ASSUME NEW p \in Seq(Names), NEW n \in Names
    PROVE  /\ Append(p, n) \in Seq(Names) /\ Append(p, n) # <<>>
           /\ P!Parent(Append(p, n)) = p /\ Front(Append(p, n)) = p
           /\ Last(Append(p, n)) = n
<1> DEFINE c == Append(p, n)
<1>1. /\ Len(p) \in Nat /\ c \in Seq(Names) /\ Len(c) = Len(p) + 1
      /\ \A i \in 1..Len(p) : c[i] = p[i]
      /\ c[Len(p) + 1] = n
  BY LenProperties, AppendProperties
<1> HIDE DEF c
<1>2. c # <<>>
  BY <1>1, EmptySeq
<1>3. /\ P!Parent(c) \in Seq(Names) /\ Len(P!Parent(c)) = Len(c) - 1
      /\ \A i \in 1..(Len(c) - 1) : P!Parent(c)[i] = c[i]
  BY <1>1, <1>2, Assumed, P!ParentFacts
<1>4. P!Parent(c) = p
  <2>1. Len(c) - 1 = Len(p)
    BY <1>1
  <2> QED
    BY <1>1, <1>3, <2>1, SeqEqual
<1>5. Front(c) = P!Parent(c)
  BY DEF Front, P!Parent
<1>6. Last(c) = n
  BY <1>1 DEF Last
<1> QED
  BY <1>1, <1>2, <1>4, <1>5, <1>6 DEF c

\* A path is its last name put after its parent.
LEMMA LastFacts ==
    ASSUME NEW p \in Seq(Names), p # <<>>
    PROVE  Last(p) \in Names /\ Append(P!Parent(p), Last(p)) = p
<1>1. /\ Len(p) \in Nat \ {0} /\ P!Parent(p) \in Seq(Names)
      /\ Len(P!Parent(p)) = Len(p) - 1
      /\ \A i \in 1..(Len(p) - 1) : P!Parent(p)[i] = p[i]
  BY Assumed, P!ParentFacts
<1>2. Last(p) \in Names
  <2>1. Len(p) \in 1..Len(p)
    BY <1>1
  <2> QED
    BY <2>1, ElementOfSeq DEF Last
<1> DEFINE d == P!Parent(p)
           c == Append(d, Last(p))
<1>3. /\ c \in Seq(Names) /\ Len(c) = Len(d) + 1
      /\ \A i \in 1..Len(d) : c[i] = d[i]
      /\ c[Len(d) + 1] = Last(p)
  BY <1>1, <1>2, AppendProperties
<1> HIDE DEF c
<1>4. Len(c) = Len(p) /\ \A i \in 1..Len(c) : c[i] = p[i]
  <2>1. Len(d) + 1 = Len(p) /\ Len(d) = Len(p) - 1
    BY <1>1
  <2>2. \A i \in 1..Len(p) : i \in 1..(Len(p) - 1) \/ i = Len(p)
    BY <1>1
  <2> QED
    BY <1>1, <1>3, <2>1, <2>2 DEF Last
<1> QED
  BY <1>2, <1>3, <1>4, SeqEqual DEF c

\* Going down from a place that is below q stays below q.
LEMMA BelowFacts ==
    ASSUME NEW q \in Seq(Names), NEW p \in Seq(Names), NEW n \in Names, IsPrefix(q, p)
    PROVE  IsPrefix(q, Append(p, n))
<1> DEFINE c == Append(p, n)
<1>1. c \in Seq(Names) /\ c # <<>> /\ P!Parent(c) = p
  BY NameFacts
<1> HIDE DEF c
<1>2. P!IsPrefix(q, P!Parent(c))
  BY <1>1, Same
<1>3. P!IsPrefix(q, c)
  BY <1>1, <1>2, Assumed, P!PrefixOfParent
<1>4. IsPrefix(q, c)
  BY <1>3, Same
<1> QED
  BY <1>4 DEF c
-----------------------------------------------------------------------------
Levels == [from : V!Paths, to : V!Paths, left : SUBSET Names]

\* A directory that is being copied, in the tree t: what is listed is there.
LevelOK(t, w) ==
    /\ V!IsDir(t, w.from)
    /\ \A n \in w.left : Append(w.from, n) \in DOMAIN t

\* The directories that are being copied, each to a place among `goals`.
Stack(t, goals, s) ==
    /\ s \in Seq(Levels)
    /\ \A k \in 1..Len(s) : LevelOK(t, s[k]) /\ s[k].to \in goals
    /\ \A k \in 1..Len(s) : k > 1 => Front(s[k - 1].from) = s[k].from

LEMMA StackGrows ==
    ASSUME NEW t, NEW u, Grows(t, u), NEW goals, NEW s, Stack(t, goals, s)
    PROVE  Stack(u, goals, s)
<1>1. \A w : LevelOK(t, w) => LevelOK(u, w)
  BY DEF LevelOK, Grows, V!IsDir
<1> QED
  BY <1>1 DEF Stack

LEMMA StackTail ==
    ASSUME NEW t, NEW goals, NEW s, Stack(t, goals, s), s # <<>>
    PROVE  /\ Stack(t, goals, Tail(s))
           /\ Head(s) = s[1] /\ Head(s) \in Levels
           /\ LevelOK(t, Head(s)) /\ Head(s).to \in goals
           /\ Tail(s) # <<>> => Front(Head(s).from) = Head(Tail(s)).from
<1>1. /\ s \in Seq(Levels) /\ Len(s) \in Nat \ {0}
      /\ Tail(s) \in Seq(Levels) /\ Len(Tail(s)) = Len(s) - 1
      /\ \A i \in 1..(Len(s) - 1) : Tail(s)[i] = s[i + 1]
      /\ Head(s) = s[1] /\ Head(s) \in Levels
  BY EmptySeq, HeadTailProperties DEF Stack
<1> DEFINE r == Tail(s)
<1> HIDE DEF r
<1>2. r \in Seq(Levels) /\ Len(r) = Len(s) - 1 /\ \A i \in 1..(Len(s) - 1) : r[i] = s[i + 1]
  BY <1>1 DEF r
<1>3. \A k \in 1..Len(r) : LevelOK(t, r[k]) /\ r[k].to \in goals
  <2> TAKE k \in 1..Len(r)
  <2>1. k + 1 \in 1..Len(s) /\ k \in 1..(Len(s) - 1)
    BY <1>1, <1>2
  <2> QED
    BY <1>2, <2>1 DEF Stack
<1>4. \A k \in 1..Len(r) : k > 1 => Front(r[k - 1].from) = r[k].from
  <2> SUFFICES ASSUME NEW k \in 1..Len(r), k > 1
               PROVE  Front(r[k - 1].from) = r[k].from
    OBVIOUS
  <2>1. /\ k + 1 \in 1..Len(s) /\ k \in 1..(Len(s) - 1) /\ k - 1 \in 1..(Len(s) - 1)
        /\ (k - 1) + 1 = k /\ (k + 1) - 1 = k /\ k + 1 > 1
    BY <1>1, <1>2
  <2>2. Front(s[(k + 1) - 1].from) = s[k + 1].from
    BY <2>1 DEF Stack
  <2>3. r[k - 1] = s[k] /\ r[k] = s[k + 1]
    BY <1>2, <2>1
  <2> QED
    BY <2>1, <2>2, <2>3
<1>5. ASSUME r # <<>> PROVE Front(Head(s).from) = Head(r).from
  <2>1. Len(r) \in Nat \ {0} /\ Head(r) = r[1]
    BY <1>2, <1>5, EmptySeq, HeadTailProperties
  <2>2. 2 \in 1..Len(s) /\ 1 \in 1..(Len(s) - 1) /\ 2 > 1 /\ 2 - 1 = 1 /\ 1 + 1 = 2
    BY <1>1, <1>2, <2>1
  <2>3. Front(s[2 - 1].from) = s[2].from
    BY <2>2 DEF Stack
  <2>4. r[1] = s[2]
    BY <1>2, <2>2
  <2> QED
    BY <1>1, <2>1, <2>2, <2>3, <2>4
<1>6. 1 \in 1..Len(s)
  BY <1>1
<1>7. LevelOK(t, Head(s)) /\ Head(s).to \in goals
  BY <1>1, <1>6 DEF Stack
<1> QED
  BY <1>1, <1>2, <1>3, <1>4, <1>5, <1>7 DEF Stack, r

LEMMA StackPush ==
    ASSUME NEW t, NEW goals, NEW s, Stack(t, goals, s),
           NEW w \in Levels, LevelOK(t, w), w.to \in goals,
           s # <<>> => Front(w.from) = Head(s).from
    PROVE  Stack(t, goals, <<w>> \o s) /\ <<w>> \o s # <<>>
<1> DEFINE c == <<w>> \o s
<1>1. s \in Seq(Levels) /\ Len(s) \in Nat
  BY LenProperties DEF Stack
<1>2. <<w>> \in Seq(Levels) /\ Len(<<w>>) = 1 /\ <<w>>[1] = w
  OBVIOUS
<1>3. /\ c \in Seq(Levels) /\ Len(c) = 1 + Len(s)
      /\ \A i \in 1..(1 + Len(s)) : c[i] = IF i <= 1 THEN <<w>>[i] ELSE s[i - 1]
  BY <1>1, <1>2, ConcatProperties
<1> HIDE DEF c
<1>4. c[1] = w /\ c # <<>>
  <2>1. 1 \in 1..(1 + Len(s)) /\ 1 <= 1 /\ 1 + Len(s) # 0
    BY <1>1
  <2> QED
    BY <1>2, <1>3, <2>1, EmptySeq
<1>5. \A k \in 1..Len(c) : k > 1 => k - 1 \in 1..Len(s) /\ c[k] = s[k - 1]
  BY <1>1, <1>3
<1>6. \A k \in 1..Len(c) : k = 1 \/ k > 1
  BY <1>1, <1>3
<1>7. \A k \in 1..Len(c) : LevelOK(t, c[k]) /\ c[k].to \in goals
  BY <1>4, <1>5, <1>6 DEF Stack
<1>8. \A k \in 1..Len(c) : k > 1 => Front(c[k - 1].from) = c[k].from
  <2> SUFFICES ASSUME NEW k \in 1..Len(c), k > 1
               PROVE  Front(c[k - 1].from) = c[k].from
    OBVIOUS
  <2>1. k - 1 \in 1..Len(s) /\ c[k] = s[k - 1] /\ k \in Nat
    BY <1>5, <1>1, <1>3
  <2>2. CASE k = 2
    <3>1. s # <<>>
      BY <1>1, <2>1, EmptySeq
    <3>2. Head(s) = s[1]
      BY <1>1, <3>1, HeadTailProperties
    <3>3. k - 1 = 1
      BY <2>2
    <3> QED
      BY <1>4, <2>1, <3>1, <3>2, <3>3
  <2>3. CASE k # 2
    <3>1. k - 1 \in 1..Len(c) /\ k - 1 > 1
      BY <1>1, <1>3, <2>1, <2>3
    <3>2. c[k - 1] = s[(k - 1) - 1]
      BY <1>5, <3>1
    <3>3. Front(s[(k - 1) - 1].from) = s[k - 1].from
      BY <2>1, <3>1 DEF Stack
    <3> QED
      BY <2>1, <3>2, <3>3
  <2> QED
    BY <2>2, <2>3
<1> QED
  BY <1>3, <1>4, <1>7, <1>8 DEF Stack, c

\* A name of the innermost directory is dealt with.
LEMMA StackRest ==
    ASSUME NEW t, NEW goals, NEW s, Stack(t, goals, s), s # <<>>, NEW n
    PROVE  LET r == <<[Head(s) EXCEPT !.left = @ \ {n}]>> \o Tail(s)
           IN Stack(t, goals, r) /\ r # <<>> /\ Head(r).from = Head(s).from
<1> DEFINE h == Head(s)
           w == [h EXCEPT !.left = @ \ {n}]
<1>1. /\ Stack(t, goals, Tail(s)) /\ h \in Levels /\ LevelOK(t, h) /\ h.to \in goals
      /\ Tail(s) # <<>> => Front(h.from) = Head(Tail(s)).from
  BY StackTail
<1> HIDE DEF h
<1>2. w \in Levels /\ w.from = h.from /\ w.to = h.to /\ w.left = h.left \ {n}
  BY <1>1 DEF Levels
<1> HIDE DEF w
<1>3. LevelOK(t, w)
  BY <1>1, <1>2 DEF LevelOK
<1>4. Stack(t, goals, <<w>> \o Tail(s)) /\ <<w>> \o Tail(s) # <<>>
  BY <1>1, <1>2, <1>3, StackPush
<1>5. Head(<<w>> \o Tail(s)) = w
  <2>1. Tail(s) \in Seq(Levels) /\ Len(Tail(s)) \in Nat
    BY <1>1, LenProperties DEF Stack
  <2>2. <<w>> \in Seq(Levels) /\ Len(<<w>>) = 1 /\ <<w>>[1] = w
    BY <1>2
  <2>3. /\ <<w>> \o Tail(s) \in Seq(Levels)
        /\ \A i \in 1..(1 + Len(Tail(s))) :
              (<<w>> \o Tail(s))[i] = IF i <= 1 THEN <<w>>[i] ELSE Tail(s)[i - 1]
    BY <2>1, <2>2, ConcatProperties
  <2>4. (<<w>> \o Tail(s))[1] = w
    BY <2>1, <2>2, <2>3
  <2> QED
    BY <1>4, <2>3, <2>4, HeadTailProperties
<1> QED
  BY <1>2, <1>4, <1>5 DEF h, w
-----------------------------------------------------------------------------
(***************************************************************************)
(* The inductive invariant.  TypeOK says of an operand of cp -r only what  *)
(* it lists; that its steps leave alone what is not the command's business *)
(* needs to know where each of its directories is being copied to: below   *)
(* the place one of the command's sources goes to.                         *)
(***************************************************************************)
Goals ==
    {q \in V!Paths : \E j \in DOMAIN Sources(cmd) : IsPrefix(Target(Sources(cmd)[j]), q)}

\* What OthersUntouched says, of an mv with a slash too.
Untouched == Running => \A q \in DOMAIN start : Kept(start, tree, q) \/ Concerned(q)

IInv ==
    /\ V!IsTree(tree) /\ code \in {0, 1}
    /\ Running => cmd \in Commands /\ todo \in Seq(Operands) /\ Ends(todo, Sources(cmd))
    /\ ~Running => todo = <<>> /\ work = <<>>
    /\ work # <<>> => Running /\ cmd.tool = "cp"
    /\ Stack(tree, Goals, work)
    /\ Untouched

\* The command that runs is one of the commands, and its paths are paths.
LEMMA RunningFacts ==
    ASSUME IInv, Running
    PROVE  /\ cmd \in Commands /\ Sources(cmd) \in Seq(Operands)
           /\ \A j \in DOMAIN Sources(cmd) : Sources(cmd)[j] \in Operands
           /\ cmd.tool \in {"mv", "cp"} =>
                 \A j \in DOMAIN Sources(cmd) : Target(Sources(cmd)[j]) \in Seq(Names)
<1>1. cmd \in Commands /\ cmd.operands \in Seq(Operands)
  BY CommandAssumption DEF IInv
<1> DEFINE ops == cmd.operands
<1>2. CASE cmd.tool \in {"mv", "cp"}
  <2>1. /\ Len(ops) \in Nat /\ Len(ops) >= 2 /\ DOMAIN ops = 1..Len(ops)
        /\ \A k \in DOMAIN ops : ops[k] \in Operands
        /\ \A k \in DOMAIN ops : ops[k].named => ops[k].path # <<>>
    BY <1>1, <1>2, CommandAssumption, LenProperties, ElementOfSeq
  <2>2. Sources(cmd) = SubSeq(ops, 1, Len(ops) - 1)
    BY <1>2 DEF Sources, Front
  <2>3. /\ SubSeq(ops, 1, Len(ops) - 1) \in Seq(Operands)
        /\ Len(SubSeq(ops, 1, Len(ops) - 1)) = Len(ops) - 1
        /\ \A i \in 1..(Len(ops) - 1) : SubSeq(ops, 1, Len(ops) - 1)[i] = ops[i]
    <3>1. /\ 1 \in Int /\ Len(ops) - 1 \in Int /\ 1 <= Len(ops) - 1
          /\ Len(ops) - 1 - 1 + 1 = Len(ops) - 1
          /\ \A i \in 1..(Len(ops) - 1) : 1 + i - 1 = i /\ i \in 1..Len(ops)
      BY <2>1
    <3>2. \A i \in 1..(Len(ops) - 1) : ops[i] \in Operands
      BY <2>1, <3>1
    <3> QED
      BY <2>1, <3>1, <3>2, SubSeqProperties
  <2>4. /\ Sources(cmd) \in Seq(Operands) /\ DOMAIN Sources(cmd) = 1..(Len(ops) - 1)
        /\ \A i \in 1..(Len(ops) - 1) : Sources(cmd)[i] = ops[i] /\ i \in DOMAIN ops
    BY <2>1, <2>2, <2>3, LenProperties
  <2>5. Dst \in Seq(Names)
    <3>1. ops[Len(ops)] \in Operands
      BY <2>1
    <3>2. ops[Len(ops)].path \in V!Paths
      BY <3>1 DEF Operands
    <3> QED
      BY <3>2, Same, Assumed, P!PathFacts DEF Dst, Last
  <2>6. ASSUME NEW j \in DOMAIN Sources(cmd)
        PROVE  /\ Sources(cmd)[j] \in Operands
               /\ Target(Sources(cmd)[j]) \in Seq(Names)
    <3> DEFINE src == Sources(cmd)[j]
    <3>1. src = ops[j] /\ j \in DOMAIN ops
      BY <2>4
    <3>2. src \in Operands /\ (src.named => src.path # <<>>)
      BY <2>1, <3>1
    <3>3. src.path \in Seq(Names)
      BY <3>2, Same, Assumed, P!PathFacts DEF Operands
    <3> HIDE DEF src
    <3>4. CASE into /\ src.named
      <4>1. Last(src.path) \in Names
        BY <3>2, <3>3, <3>4, LastFacts
      <4>2. Append(Dst, Last(src.path)) \in Seq(Names)
        BY <2>5, <4>1, NameFacts
      <4> QED
        BY <3>4, <4>2, <3>2 DEF Target, src
    <3>5. CASE ~(into /\ src.named)
      BY <2>5, <3>5, <3>2 DEF Target, src
    <3> QED
      BY <3>4, <3>5
  <2> QED
    BY <1>1, <2>4, <2>6
<1>3. CASE cmd.tool \notin {"mv", "cp"}
  <2>1. Sources(cmd) = ops
    BY <1>3 DEF Sources
  <2> QED
    BY <1>1, <1>3, <2>1, ElementOfSeq, LenProperties
<1> QED
  BY <1>2, <1>3

\* The operand that is next.
LEMMA SrcFacts ==
    ASSUME IInv, Running, todo # <<>>
    PROVE  /\ Tail(todo) \in Seq(Operands) /\ Ends(Tail(todo), Sources(cmd))
           /\ Src \in Operands /\ Src.path \in V!Paths
           /\ \E k \in DOMAIN Sources(cmd) : Src = Sources(cmd)[k]
           /\ cmd.tool \in {"mv", "cp"} => Target(Src) \in Seq(Names)
<1>1. /\ todo \in Seq(Operands) /\ Ends(todo, Sources(cmd))
      /\ Sources(cmd) \in Seq(Operands)
      /\ \A j \in DOMAIN Sources(cmd) : Sources(cmd)[j] \in Operands
  BY RunningFacts DEF IInv
<1>2. /\ Ends(Tail(todo), Sources(cmd))
      /\ \E k \in DOMAIN Sources(cmd) : Head(todo) = Sources(cmd)[k]
  BY <1>1, EndsFacts
<1>3. PICK k \in DOMAIN Sources(cmd) : Src = Sources(cmd)[k]
  BY <1>2 DEF Src
<1>4. Tail(todo) \in Seq(Operands)
  BY <1>1, HeadTailProperties
<1>5. Src \in Operands
  BY <1>1, <1>3
<1>6. Src.path \in V!Paths
  BY <1>5 DEF Operands
<1>7. cmd.tool \in {"mv", "cp"} => Target(Src) \in Seq(Names)
  BY <1>3, RunningFacts
<1> QED
  BY <1>2, <1>3, <1>4, <1>5, <1>6, <1>7

\* What u holds at q is what t held, or the command may do away with it.
Spared(t, u, q) == Kept(t, u, q) \/ (q \in DOMAIN start /\ t[q] = start[q] => Concerned(q))

\* A step in the middle of a command that leaves alone what is not its business.
LEMMA Frame ==
    ASSUME IInv, Running, UNCHANGED <<cmd, into, start>>,
           V!IsTree(tree'), code' \in {0, 1},
           \A q \in DOMAIN tree : Spared(tree, tree', q),
           todo' = todo \/ (todo # <<>> /\ todo' = Tail(todo)),
           work' # <<>> => cmd.tool = "cp",
           Stack(tree', Goals, work')
    PROVE  IInv'
<1>1. Goals' = Goals
  BY DEF Goals, Target, Dst
<1>2. \A q : Concerned(q)' <=> Concerned(q)
  BY DEF Concerned, Target, Dst
<1>3. Running' /\ cmd' \in Commands
  BY RunningFacts DEF Running
<1>4. Untouched'
  <2> SUFFICES ASSUME NEW q \in DOMAIN start, ~Concerned(q)
               PROVE  Kept(start, tree', q)
    BY <1>2 DEF Untouched, Kept
  <2>1. q \in DOMAIN tree /\ tree[q] = start[q]
    BY DEF IInv, Untouched, Kept
  <2> QED
    BY <2>1 DEF Kept, Spared
<1>5. todo' \in Seq(Operands) /\ Ends(todo', Sources(cmd'))
  BY SrcFacts DEF IInv
<1>6. Stack(tree', Goals', work')
  BY <1>1
<1>7. work' # <<>> => Running' /\ cmd'.tool = "cp"
  BY <1>3
<1> QED
  BY <1>3, <1>4, <1>5, <1>6, <1>7 DEF IInv

\* Nothing is being copied.
LEMMA NoStack ==
    ASSUME NEW t, NEW goals
    PROVE  Stack(t, goals, <<>>)
BY EmptySeq DEF Stack

\* What a command names is its business.
LEMMA Business ==
    ASSUME IInv, Running, todo # <<>>
    PROVE  /\ cmd.tool \in {"rm", "mv"} => \A q : IsPrefix(Src.path, q) => Concerned(q)
           /\ cmd.tool = "mv" => \A q : IsPrefix(Target(Src), q) => Concerned(q)
BY SrcFacts DEF Concerned, Below

\* A file where a copy goes is the business of its command.
LEMMA GoalsBusiness ==
    ASSUME IInv, Running, cmd.tool = "cp"
    PROVE  /\ \A q \in Goals : q \in V!Paths /\ (start[q].kind = "file" => Concerned(q))
           /\ \A q \in Goals, n \in Names : Append(q, n) \in V!Paths => Append(q, n) \in Goals
           /\ todo # <<>> /\ Target(Src) \in V!Paths => Target(Src) \in Goals
<1>1. \A q \in Goals : q \in V!Paths /\ (start[q].kind = "file" => Concerned(q))
  BY DEF Goals, Concerned, Below
<1>2. ASSUME NEW q \in Goals, NEW n \in Names, Append(q, n) \in V!Paths
      PROVE  Append(q, n) \in Goals
  <2>1. PICK j \in DOMAIN Sources(cmd) : IsPrefix(Target(Sources(cmd)[j]), q)
    BY DEF Goals
  <2>2. q \in Seq(Names) /\ Target(Sources(cmd)[j]) \in Seq(Names)
    BY <1>1, RunningFacts, Same, Assumed, P!PathFacts
  <2>3. IsPrefix(Target(Sources(cmd)[j]), Append(q, n))
    BY <2>1, <2>2, BelowFacts
  <2> QED
    BY <1>2, <2>3 DEF Goals
<1>3. ASSUME todo # <<>>, Target(Src) \in V!Paths
      PROVE  Target(Src) \in Goals
  <2>1. PICK j \in DOMAIN Sources(cmd) : Src = Sources(cmd)[j]
    BY <1>3, SrcFacts
  <2>2. IsPrefix(Target(Src), Target(Src))
    <3>1. P!IsPrefix(Target(Src), Target(Src))
      BY <1>3, SrcFacts, Assumed, P!PrefixEnds
    <3> QED
      BY <3>1, Same
  <2> QED
    BY <1>3, <2>1, <2>2 DEF Goals
<1> QED
  BY <1>1, <1>2, <1>3

\* cp_recursive begins: the target is made, the source is listed.
LEMMA EnterFacts ==
    ASSUME IInv, NEW from \in V!Paths, V!IsDir(tree, from), NEW to \in Goals, to \in V!Paths,
           NEW below, Stack(tree, Goals, below),
           below # <<>> => Front(from) = Head(below).from,
           Enter(from, to, below)
    PROVE  /\ V!IsTree(tree') /\ Stack(tree', Goals, work')
           /\ \A q \in DOMAIN tree : Kept(tree, tree', q)
<1>1. /\ tree' = V!MemMkdirParents(tree, to).tree
      /\ Grows(tree, tree')
      /\ \A q \in DOMAIN tree : Kept(tree, tree', q)
  BY MkdirParentsFacts DEF Enter, IInv
<1> DEFINE left == {Last(p) : p \in V!Children(tree', from)}
           w == [from |-> from, to |-> to, left |-> left]
<1>2. \A p \in V!Children(tree', from) :
         Last(p) \in Names /\ Append(from, Last(p)) = p /\ p \in DOMAIN tree'
  <2> TAKE p \in V!Children(tree', from)
  <2>1. p \in DOMAIN tree' /\ p # <<>> /\ V!Parent(p) = from
    BY DEF V!Children
  <2>2. p \in Seq(Names)
    BY <1>1, <2>1, TreeFacts DEF Grows
  <2>3. Last(p) \in Names /\ Append(P!Parent(p), Last(p)) = p
    BY <2>1, <2>2, LastFacts
  <2> QED
    BY <2>1, <2>3, Same
<1>3. left \subseteq Names /\ \A n \in left : Append(from, n) \in DOMAIN tree'
  BY <1>2
<1> HIDE DEF left
<1>4. w \in Levels /\ w.from = from /\ w.to = to /\ w.left = left
  BY <1>3 DEF Levels
<1>5. work' = <<w>> \o below
  BY DEF Enter, left
<1> HIDE DEF w
<1>6. V!IsDir(tree', from)
  BY <1>1 DEF V!IsDir, Kept
<1>7. LevelOK(tree', w)
  BY <1>3, <1>4, <1>6 DEF LevelOK
<1>8. Stack(tree', Goals, below)
  BY <1>1, StackGrows
<1>9. Stack(tree', Goals, work')
  BY <1>4, <1>5, <1>7, <1>8, StackPush
<1> QED
  BY <1>1, <1>9 DEF Grows
-----------------------------------------------------------------------------
(***************************************************************************)
(* The steps, one by one.                                                  *)
(***************************************************************************)

\* The step of a tool that holds no directories.
LEMMA Plain ==
    ASSUME IInv, NEW tool, Takes(tool), work' = work,
           V!IsTree(tree'), code' \in {0, 1},
           \A q \in DOMAIN tree : Spared(tree, tree', q)
    PROVE  IInv'
<1>1. /\ Running /\ todo # <<>> /\ work = <<>> /\ todo' = Tail(todo)
      /\ UNCHANGED <<cmd, into, start>>
  BY DEF Takes
<1>2. Stack(tree', Goals, work')
  BY <1>1, NoStack
<1> QED
  BY <1>1, <1>2, Frame

LEMMA MkdirStep ==
    ASSUME IInv, Mkdir
    PROVE  IInv'
<1>1. Running /\ todo # <<>> /\ Src.path \in V!Paths /\ cmd.recursive \in BOOLEAN
  BY SrcFacts, RunningFacts, CommandAssumption DEF Mkdir, Takes
<1>2. code' \in {0, 1} /\ work' = work
  BY DEF Mkdir, Do, IInv
<1>3. CASE cmd.recursive
  <2>1. tree' = V!MemMkdirParents(tree, Src.path).tree
    BY <1>3 DEF Mkdir, Do
  <2>2. V!IsTree(tree') /\ \A q \in DOMAIN tree : Kept(tree, tree', q)
    BY <1>1, <2>1, MkdirParentsFacts DEF IInv, Grows
  <2> QED
    BY <1>1, <1>2, <2>1, <2>2, Plain DEF Mkdir, Spared
<1>4. CASE ~cmd.recursive
  <2>1. tree' = V!MemMkdir(tree, Src.path).tree
    BY <1>4 DEF Mkdir, Do
  <2>2. V!IsTree(tree') /\ \A q \in DOMAIN tree : Kept(tree, tree', q)
    BY <1>1, <2>1, MkdirFacts DEF IInv, Grows
  <2> QED
    BY <1>1, <1>2, <2>1, <2>2, Plain DEF Mkdir, Spared
<1> QED
  BY <1>3, <1>4

LEMMA RmStep ==
    ASSUME IInv, Rm
    PROVE  IInv'
<1>1. /\ Running /\ todo # <<>> /\ Src.path \in V!Paths /\ cmd.recursive \in BOOLEAN
      /\ cmd.tool = "rm"
  BY SrcFacts, RunningFacts, CommandAssumption DEF Rm, Takes
<1> DEFINE o == V!MemRemove(tree, Src.path, cmd.recursive)
<1>2. code' \in {0, 1} /\ work' = work
  BY DEF Rm, Do, IInv
<1>3. tree' = o.tree
  <2>1. o = [res |-> o.res, tree |-> o.tree]
    BY DEF V!MemRemove, V!MemRemoveNode, V!Outcome
  <2> HIDE DEF o
  <2>2. [o EXCEPT !.res = "ok"].tree = o.tree
    BY <2>1
  <2> QED
    BY <2>2 DEF Rm, Do, o
<1>4. V!IsTree(tree') /\ \A q \in DOMAIN tree : ~IsPrefix(Src.path, q) => Kept(tree, tree', q)
  BY <1>1, <1>3, RemoveTreeFacts DEF IInv
<1>5. \A q \in DOMAIN tree : Spared(tree, tree', q)
  BY <1>1, <1>4, Business DEF Spared
<1> QED
  BY <1>2, <1>4, <1>5, Plain DEF Rm

LEMMA TouchStep ==
    ASSUME IInv, Touch
    PROVE  IInv'
<1>1. /\ Running /\ todo # <<>> /\ Src.path \in V!Paths /\ Src.path \in Seq(Names)
      /\ cmd.tool = "touch" /\ NoBytes \in Contents
  BY SrcFacts, TreeAssumption, TreeFacts DEF Touch, Takes, IInv
<1>2. code' \in {0, 1} /\ work' = work
  BY DEF Touch, Do, IInv
<1>3. CASE Src.path \in DOMAIN tree
  <2>1. tree' = tree
    BY <1>3 DEF Touch, Do, V!Outcome
  <2>2. \A q \in DOMAIN tree : Kept(tree, tree', q)
    BY <2>1 DEF Kept
  <2>3. V!IsTree(tree')
    BY <2>1 DEF IInv
  <2> QED
    BY <1>2, <2>1, <2>2, <2>3, Plain DEF Touch, Spared
<1>4. CASE Src.path \notin DOMAIN tree
  <2>1. tree' = V!MemWrite(tree, Src.path, NoBytes).tree
    BY <1>4 DEF Touch, Do
  <2>2. V!IsTree(tree') /\ \A q \in DOMAIN tree : q # Src.path => Kept(tree, tree', q)
    BY <1>1, <2>1, WriteFacts DEF IInv, Grows
  <2>3. \A q \in DOMAIN tree : Spared(tree, tree', q)
    BY <1>4, <2>2 DEF Spared
  <2> QED
    BY <1>2, <2>2, <2>3, Plain DEF Touch
<1> QED
  BY <1>3, <1>4

LEMMA MvStep ==
    ASSUME IInv, Mv
    PROVE  IInv'
<1>1. /\ Running /\ todo # <<>> /\ Src.path \in V!Paths /\ cmd.tool = "mv"
      /\ Target(Src) \in Seq(Names)
      /\ \A r \in DOMAIN V!Subtree(tree, Src.path) : Target(Src) \o r \in V!Paths
  BY SrcFacts DEF Mv, Takes, Fits
<1>2. code' \in {0, 1} /\ work' = work /\ tree' = V!MemRename(tree, Src.path, Target(Src)).tree
  BY DEF Mv, Do, IInv
<1>3. /\ V!IsTree(tree')
      /\ \A q \in DOMAIN tree : ~IsPrefix(Src.path, q) /\ ~IsPrefix(Target(Src), q)
            => Kept(tree, tree', q)
  BY <1>1, <1>2, RenameFacts DEF IInv
<1>4. \A q \in DOMAIN tree : Spared(tree, tree', q)
  BY <1>1, <1>3, Business DEF Spared
<1> QED
  BY <1>2, <1>3, <1>4, Plain DEF Mv

LEMMA CopyFileStep ==
    ASSUME IInv, CopyFile
    PROVE  IInv'
<1>1. /\ Running /\ todo # <<>> /\ cmd.tool = "cp" /\ Target(Src) \in V!Paths
      /\ work' = work /\ code' \in {0, 1} /\ tree' = CopyOf(Src.path, Target(Src)).tree
  BY DEF CopyFile, Takes, Do, IInv
<1>2. /\ V!IsTree(tree) /\ Target(Src) \in Goals
      /\ start[Target(Src)].kind = "file" => Concerned(Target(Src))
  BY <1>1, GoalsBusiness DEF IInv
<1>3. /\ V!IsTree(tree')
      /\ \A q \in DOMAIN tree : q # Target(Src) \/ tree[q].kind # "file" => Kept(tree, tree', q)
  BY <1>1, <1>2, CopyFacts DEF Grows
<1>4. \A q \in DOMAIN tree : Spared(tree, tree', q)
  BY <1>2, <1>3 DEF Spared
<1> QED
  BY <1>1, <1>3, <1>4, Plain DEF CopyFile

LEMMA SkipDirStep ==
    ASSUME IInv, SkipDir
    PROVE  IInv'
<1>1. tree' = tree /\ work' = work /\ code' \in {0, 1}
  BY DEF SkipDir
<1>2. V!IsTree(tree') /\ \A q \in DOMAIN tree : Kept(tree, tree', q)
  BY <1>1 DEF IInv, Kept
<1> QED
  BY <1>1, <1>2, Plain DEF SkipDir, Spared

LEMMA CopyDirStep ==
    ASSUME IInv, CopyDir
    PROVE  IInv'
<1>1. /\ Running /\ todo # <<>> /\ cmd.tool = "cp" /\ todo' = Tail(todo)
      /\ UNCHANGED <<cmd, into, start>> /\ code' \in {0, 1}
      /\ V!IsDir(tree, Src.path) /\ Enter(Src.path, Target(Src), <<>>)
      /\ Target(Src) \in V!Paths /\ tree' = V!MemMkdirParents(tree, Target(Src)).tree
  BY DEF CopyDir, Takes, Enter, IInv
<1>2. Src.path \in V!Paths /\ Target(Src) \in Goals /\ Stack(tree, Goals, <<>>)
  BY <1>1, SrcFacts, GoalsBusiness, NoStack
<1>3. /\ V!IsTree(tree') /\ Stack(tree', Goals, work')
      /\ \A q \in DOMAIN tree : Kept(tree, tree', q)
  BY <1>1, <1>2, EnterFacts
<1> QED
  BY <1>1, <1>3, Frame DEF Spared

LEMMA CopyEntryStep ==
    ASSUME IInv, NEW n \in Names, CopyEntry(n)
    PROVE  IInv'
<1> DEFINE h == Head(work)
           from == Append(h.from, n)
           to == Append(h.to, n)
<1>1. /\ Running /\ work # <<>> /\ n \in h.left /\ cmd.tool = "cp"
      /\ Stack(tree, Goals, work) /\ V!IsTree(tree)
      /\ UNCHANGED <<cmd, todo, into, start>>
  BY DEF CopyEntry, IInv
<1>2. /\ h \in Levels /\ LevelOK(tree, h) /\ h.to \in Goals
      /\ Stack(tree, Goals, Rest(n)) /\ Rest(n) # <<>> /\ Head(Rest(n)).from = h.from
  BY <1>1, StackTail, StackRest DEF Rest
<1>3. from \in DOMAIN tree /\ from \in V!Paths
  BY <1>1, <1>2, TreeFacts DEF LevelOK
<1>4. h.from \in Seq(Names) /\ Front(from) = h.from
  <2>1. h.from \in V!Paths
    BY <1>2 DEF Levels
  <2>2. h.from \in Seq(Names)
    BY <1>1, <2>1, TreeFacts
  <2> QED
    BY <2>2, NameFacts
<1>5. to \in V!Paths => to \in Goals /\ (start[to].kind = "file" => Concerned(to))
  BY <1>1, <1>2, GoalsBusiness
<1>6. CASE V!IsDir(tree, from)
  <2>1. Enter(from, to, Rest(n)) /\ code' = code
    BY <1>6 DEF CopyEntry
  <2>2. to \in V!Paths /\ tree' = V!MemMkdirParents(tree, to).tree
    BY <2>1 DEF Enter
  <2>3. /\ V!IsTree(tree') /\ Stack(tree', Goals, work')
        /\ \A q \in DOMAIN tree : Kept(tree, tree', q)
    <3> HIDE DEF from, to, h
    <3> QED
      BY <1>2, <1>3, <1>4, <1>5, <1>6, <2>1, <2>2, EnterFacts
  <2>4. code' \in {0, 1}
    BY <2>1 DEF IInv
  <2> QED
    BY <1>1, <2>3, <2>4, Frame DEF Spared
<1>7. CASE ~V!IsDir(tree, from)
  <2>1. /\ to \in V!Paths /\ tree' = CopyOf(from, to).tree /\ code' \in {0, 1}
        /\ work' = Rest(n) \/ work' = <<>>
    BY <1>7 DEF CopyEntry, Do, IInv
  <2> HIDE DEF from, to, h
  <2>2. /\ Grows(tree, tree')
        /\ \A q \in DOMAIN tree : q # to \/ tree[q].kind # "file" => Kept(tree, tree', q)
    BY <1>1, <2>1, CopyFacts
  <2>3. Stack(tree', Goals, work')
    BY <1>2, <2>1, <2>2, StackGrows, NoStack
  <2>4. \A q \in DOMAIN tree : Spared(tree, tree', q)
    BY <1>5, <2>1, <2>2 DEF Spared
  <2>5. V!IsTree(tree')
    BY <2>2 DEF Grows
  <2> QED
    BY <1>1, <2>1, <2>3, <2>4, <2>5, Frame
<1> QED
  BY <1>6, <1>7

LEMMA LeaveDirStep ==
    ASSUME IInv, LeaveDir
    PROVE  IInv'
<1>1. /\ Running /\ work # <<>> /\ cmd.tool = "cp" /\ work' = Tail(work)
      /\ UNCHANGED <<tree, cmd, todo, into, start, code>>
      /\ Stack(tree, Goals, work) /\ V!IsTree(tree) /\ code \in {0, 1}
  BY DEF LeaveDir, IInv
<1>2. Stack(tree', Goals, work')
  BY <1>1, StackTail
<1>3. \A q \in DOMAIN tree : Kept(tree, tree', q)
  BY <1>1 DEF Kept
<1> QED
  BY <1>1, <1>2, <1>3, Frame DEF Spared

LEMMA FinishStep ==
    ASSUME IInv, Finish
    PROVE  IInv'
<1>1. ~Running' /\ todo' = <<>> /\ work' = <<>> /\ code' = 0 /\ tree' = tree
  BY DEF Finish, Running
<1>2. Stack(tree', Goals', work')
  BY <1>1, NoStack
<1> QED
  BY <1>1, <1>2 DEF IInv, Untouched

LEMMA BeginStep ==
    ASSUME IInv, NEW c \in Commands, Begin(c)
    PROVE  IInv'
<1>1. /\ cmd' = c /\ todo' = Sources(c) /\ tree' = tree /\ start' = tree /\ code' = 0
      /\ work' = <<>>
  BY DEF Begin, IInv
<1>2. c # NoCommand
  <2>1. DOMAIN c = {"tool", "recursive", "force", "operands"}
    BY CommandAssumption
  <2>2. DOMAIN NoCommand = {"tool"}
    BY DEF NoCommand
  <2> QED
    BY <2>1, <2>2
<1>3. Sources(c) \in Seq(Operands)
  <2>1. /\ c.operands \in Seq(Operands)
        /\ c.tool \in {"mv", "cp"} => Len(c.operands) >= 2
    BY CommandAssumption
  <2> DEFINE ops == c.operands
  <2>2. Len(ops) \in Nat /\ \A k \in 1..Len(ops) : ops[k] \in Operands
    BY <2>1, LenProperties, ElementOfSeq
  <2>3. ASSUME Len(ops) >= 2
        PROVE  SubSeq(ops, 1, Len(ops) - 1) \in Seq(Operands)
    <3>1. 1 \in Int /\ Len(ops) - 1 \in Int /\ \A i \in 1..(Len(ops) - 1) : i \in 1..Len(ops)
      BY <2>2
    <3>2. \A i \in 1..(Len(ops) - 1) : ops[i] \in Operands
      BY <2>2, <3>1
    <3> QED
      BY <2>3, <2>2, <3>1, <3>2, SubSeqProperties
  <2> QED
    BY <2>1, <2>3 DEF Sources, Front
<1>4. Ends(todo', Sources(cmd'))
  BY <1>1, <1>3, EndsWhole
<1>5. Running'
  BY <1>1, <1>2 DEF Running
<1>6. Stack(tree', Goals', work')
  BY <1>1, NoStack
<1>7. Untouched'
  BY <1>1 DEF Untouched, Kept
<1> QED
  BY <1>1, <1>3, <1>4, <1>5, <1>6, <1>7 DEF IInv

LEMMA InitIInv ==
    ASSUME Init
    PROVE  IInv
<1>1. /\ tree = InitTree /\ ~Running /\ todo = <<>> /\ work = <<>> /\ code = 0
  BY DEF Init, Running
<1>2. V!IsTree(tree)
  BY <1>1, TreeAssumption
<1>3. Stack(tree, Goals, work)
  BY <1>1, NoStack
<1> QED
  BY <1>1, <1>2, <1>3 DEF IInv, Untouched

LEMMA InvKept ==
    ASSUME IInv, [Next]_vars
    PROVE  IInv'
<1>1. ASSUME NEW c \in Commands, Begin(c) PROVE IInv'
  BY <1>1, BeginStep
<1>2. ASSUME Step PROVE IInv'
  BY <1>2, MkdirStep, RmStep, TouchStep, MvStep, CopyFileStep, SkipDirStep, CopyDirStep,
     CopyEntryStep, LeaveDirStep, FinishStep DEF Step
<1>3. ASSUME UNCHANGED vars PROVE IInv'
  <2>1. Goals' = Goals /\ \A q : Concerned(q)' <=> Concerned(q)
    BY <1>3 DEF vars, Goals, Concerned, Target, Dst
  <2> QED
    BY <1>3, <2>1 DEF vars, IInv, Untouched, Kept, Running
<1> QED
  BY <1>1, <1>2, <1>3 DEF Next

\* What a built-in keeps from one step to the next, and across the listing of a
\* directory by cp -r, is still true of the tree when it uses it (builtins.rs:583-603).
THEOREM TypeKept == Spec => []TypeOK
<1>1. IInv => TypeOK
  <2> SUFFICES ASSUME IInv PROVE TypeOK
    OBVIOUS
  <2>1. Running => IsSuffix(todo, Sources(cmd))
    BY RunningFacts, EndsFacts DEF IInv
  <2>2. \A k \in DOMAIN work :
          /\ V!IsDir(tree, work[k].from)
          /\ k > 1 => Front(work[k - 1].from) = work[k].from
          /\ \A n \in work[k].left : Append(work[k].from, n) \in DOMAIN tree
    <3>1. DOMAIN work = 1..Len(work)
      BY LenProperties DEF IInv, Stack
    <3> QED
      BY <3>1 DEF IInv, Stack, LevelOK
  <2> QED
    BY <2>1, <2>2 DEF IInv, TypeOK
<1> QED
  BY <1>1, InitIInv, InvKept, PTL DEF Spec

\* At every moment of a command, its failures included, what was there and is not
\* its business is as it was (builtins.rs:418-628).
THEOREM OthersKept == Spec => []OthersUntouched
<1>1. IInv => OthersUntouched
  BY DEF IInv, Untouched, OthersUntouched, Kept
<1> QED
  BY <1>1, InitIInv, InvKept, PTL DEF Spec

-----------------------------------------------------------------------------
(***************************************************************************)
(* A command that exits with 0 has done what it was asked.  What has been  *)
(* done for the operands looked at so far, and what is still to be found   *)
(* where it was for those to come, depends on the tool.                    *)
(***************************************************************************)
At == Len(Sources(cmd)) - Len(todo)

MkdirDone == \A k \in 1..At : V!IsDir(tree, Sources(cmd)[k].path)

TouchDone ==
    /\ \A q \in DOMAIN start : Kept(start, tree, q)
    /\ \A k \in 1..At : Sources(cmd)[k].path \in DOMAIN tree

RmDone == \A k \in 1..At : cmd.force \/ Sources(cmd)[k].path \notin DOMAIN tree

MvDone ==
    \A k \in DOMAIN Sources(cmd) :
       LET s == Sources(cmd)[k]
       IN /\ k <= At => /\ s.path \notin DOMAIN tree
                        /\ V!Subtree(tree, Target(s)) = V!Subtree(start, s.path)
          /\ k > At => V!Subtree(tree, s.path) = V!Subtree(start, s.path)

\* Two trees are the same at q.
Alike(t, u, q) == (q \in DOMAIN t <=> q \in DOMAIN u) /\ (q \in DOMAIN t => u[q] = t[q])

Swallows(t, q) == q \in DOMAIN t /\ t[q].kind \in {"null", "device"}

\* What was at r below the source is at r below the target, or has been swallowed.
Landed(s, r) ==
    LET to == Target(s) \o r
    IN Swallows(start, to) \/ (to \in DOMAIN tree /\ tree[to] = start[s.path \o r])

\* What is at f is below an entry that cp -r has listed and not copied.
Waits(w, f) == \E n \in w.left : IsPrefix(Append(w.from, n), f)
Pending(f) == \E w \in Range(work) : Waits(w, f)

\* A directory of cp -r is as far below the source as its copy below the target.
Twins(s, w) == \E r \in Seq(Names) : w.from = s.path \o r /\ w.to = Target(s) \o r

SourcesAlike ==
    \A k \in DOMAIN Sources(cmd), q \in V!Paths :
       IsPrefix(Sources(cmd)[k].path, q) => Alike(start, tree, q)
DevicesAlike == \A q \in V!Paths : Swallows(tree, q) => Swallows(start, q)
StackTwins ==
    work # <<>> => At >= 1 /\ \A w \in Range(work) : Twins(Sources(cmd)[At], w)
FilesDone ==
    \A k \in 1..At, r \in Seq(Names) :
       LET f == Sources(cmd)[k].path \o r
       IN f \in DOMAIN start /\ start[f].kind = "file" =>
             Landed(Sources(cmd)[k], r) \/ (k = At /\ Pending(f))
CpDone == SourcesAlike /\ DevicesAlike /\ StackTwins /\ FilesDone

Progress ==
    /\ cmd.tool = "mkdir" => MkdirDone
    /\ cmd.tool = "touch" => TouchDone
    /\ cmd.tool = "rm" => RmDone
    /\ cmd.tool = "mv" /\ Separate => MvDone
    /\ cmd.tool = "cp" /\ Separate => CpDone

ProgressInv == V!IsTree(start) /\ (Running /\ code = 0 => Progress)

\* The operand that is next is the first of those not counted by At.
LEMMA AtFacts ==
    ASSUME IInv, Running
    PROVE  /\ At \in Nat /\ Len(Sources(cmd)) \in Nat /\ At <= Len(Sources(cmd))
           /\ DOMAIN Sources(cmd) = 1..Len(Sources(cmd))
           /\ \A k \in DOMAIN Sources(cmd) : Sources(cmd)[k] \in Operands
           /\ \A k \in DOMAIN Sources(cmd) :
                 Sources(cmd)[k].path \in V!Paths /\ Sources(cmd)[k].path \in Seq(Names)
           /\ todo = <<>> => At = Len(Sources(cmd))
           /\ todo # <<>> => At + 1 \in DOMAIN Sources(cmd) /\ Src = Sources(cmd)[At + 1]
<1> DEFINE S == Sources(cmd)
<1>1. S \in Seq(Operands) /\ todo \in Seq(Operands) /\ Ends(todo, S)
  BY RunningFacts DEF IInv
<1> HIDE DEF S
<1>2. /\ Len(S) \in Nat /\ Len(todo) \in Nat /\ Len(todo) <= Len(S) /\ DOMAIN S = 1..Len(S)
      /\ \A i \in 1..Len(todo) : todo[i] = S[i + (Len(S) - Len(todo))]
      /\ \A k \in 1..Len(S) : S[k] \in Operands
  BY <1>1, LenProperties, ElementOfSeq DEF Ends
<1>3. \A k \in 1..Len(S) : S[k].path \in V!Paths /\ S[k].path \in Seq(Names)
  <2> TAKE k \in 1..Len(S)
  <2>1. S[k].path \in V!Paths
    BY <1>2 DEF Operands
  <2> QED
    BY <2>1, Same, Assumed, P!PathFacts
<1>4. todo = <<>> => Len(todo) = 0
  BY EmptySeq
<1>5. ASSUME todo # <<>>
      PROVE  At + 1 \in 1..Len(S) /\ Src = S[At + 1]
  <2>1. Len(todo) \in Nat \ {0} /\ Head(todo) = todo[1]
    BY <1>1, <1>5, EmptySeq, LenProperties, HeadTailProperties
  <2>2. 1 \in 1..Len(todo) /\ 1 + (Len(S) - Len(todo)) = At + 1
    BY <1>2, <2>1 DEF At, S
  <2>3. At + 1 \in 1..Len(S)
    BY <1>2, <2>1 DEF At, S
  <2>4. todo[1] = S[1 + (Len(S) - Len(todo))]
    BY <1>2, <2>2
  <2> QED
    BY <2>1, <2>2, <2>3, <2>4 DEF Src
<1>6. At = Len(S) - Len(todo)
  BY DEF At, S
<1>7. At \in Nat /\ At <= Len(S) /\ (todo = <<>> => At = Len(S))
  <2>1. Len(S) \in Nat /\ Len(todo) \in Nat /\ Len(todo) <= Len(S)
    BY <1>2
  <2>2. At \in Nat /\ At <= Len(S)
    BY <1>6, <2>1
  <2>3. ASSUME todo = <<>> PROVE At = Len(S)
    BY <1>4, <1>6, <2>1, <2>3
  <2> QED
    BY <2>2, <2>3
<1> QED
  BY <1>2, <1>3, <1>5, <1>7 DEF S

\* A step that takes the next operand.
LEMMA AtMoves ==
    ASSUME IInv, Running, todo # <<>>, todo' = Tail(todo), cmd' = cmd
    PROVE  At' = At + 1 /\ \A k \in 1..At' : k \in 1..At \/ k = At + 1
<1>1. todo \in Seq(Operands)
  BY DEF IInv
<1>2. Len(todo) \in Nat /\ Len(todo') = Len(todo) - 1
  BY <1>1, LenProperties, EmptySeq, HeadTailProperties
<1>3. At \in Nat /\ Len(Sources(cmd)) \in Nat
  BY AtFacts
<1>4. At' = Len(Sources(cmd)) - Len(todo')
  BY DEF At
<1>5. At' = At + 1
  BY <1>2, <1>3, <1>4 DEF At
<1> QED
  BY <1>3, <1>5

LEMMA MkdirMoves ==
    ASSUME IInv, ProgressInv, Mkdir, code' = 0
    PROVE  MkdirDone'
<1>1. /\ Running /\ cmd.tool = "mkdir" /\ todo # <<>> /\ todo' = Tail(todo) /\ cmd' = cmd
      /\ code \in {0, 1} /\ V!IsTree(tree)
  BY DEF Mkdir, Takes, IInv
<1> DEFINE o == IF cmd.recursive THEN V!MemMkdirParents(tree, Src.path)
                ELSE V!MemMkdir(tree, Src.path)
<1>2. tree' = o.tree /\ o.res = "ok" /\ code = 0
  BY <1>1 DEF Mkdir, Do
<1>3. Src.path \in V!Paths /\ Src = Sources(cmd)[At + 1]
  BY <1>1, SrcFacts, AtFacts
<1>4. /\ P!Shape(tree) /\ P!HasNodes(tree) /\ Src.path \in P!Paths
      /\ V!MemMkdirParents(tree, Src.path) = P!MemMkdirParents(tree, Src.path)
      /\ V!MemMkdir(tree, Src.path) = P!MemMkdir(tree, Src.path)
  BY <1>1, <1>3, TreeFacts, Same, SameOps
<1>5. V!IsDir(tree', Src.path) /\ \A q \in DOMAIN tree : Kept(tree, tree', q)
  <2>1. CASE cmd.recursive
    <3>1. o = P!MemMkdirParents(tree, Src.path)
      BY <1>4, <2>1
    <3>2. P!MemMkdirParents(tree, Src.path).res = "ok"
          /\ tree' = P!MemMkdirParents(tree, Src.path).tree
      BY <1>2, <3>1
    <3>3. Src.path \in DOMAIN tree' /\ tree'[Src.path].kind = "dir"
      BY <1>4, <3>2, Assumed, P!TreeMkdirParents
    <3>4. \A q \in DOMAIN tree : Kept(tree, tree', q)
      BY <1>1, <1>3, <1>4, <3>2, MkdirParentsFacts
    <3> QED
      BY <3>3, <3>4 DEF V!IsDir
  <2>2. CASE ~cmd.recursive
    <3>1. o = P!MemMkdir(tree, Src.path)
      BY <1>4, <2>2
    <3>2. P!MemMkdir(tree, Src.path).res = "ok" /\ tree' = P!MemMkdir(tree, Src.path).tree
      BY <1>2, <3>1
    <3>3. \A q \in DOMAIN tree : Kept(tree, tree', q)
      BY <1>1, <1>3, <1>4, <3>2, MkdirFacts
    <3>4. CASE Src.path = <<>>
      <4>1. tree' = tree
        BY <3>2, <3>4 DEF P!MemMkdir, P!Outcome
      <4> QED
        BY <1>4, <3>3, <3>4, <4>1 DEF V!IsDir, P!Shape
    <3>5. CASE Src.path # <<>>
      <4> DEFINE sub == P!Leaf(P!Dir)
      <4>1. P!ParentError(tree, Src.path) = "ok" /\ Src.path \notin DOMAIN tree
        BY <3>2, <3>5 DEF P!MemMkdir, P!Outcome
      <4>2. tree' = P!Grafted(tree, Src.path, sub)
        BY <3>2, <3>5, <4>1 DEF P!MemMkdir, P!Outcome
      <4>3. <<>> \in DOMAIN sub /\ sub[<<>>] = P!Dir /\ DOMAIN sub \subseteq Seq(Names)
        BY EmptySeq DEF P!Leaf
      <4>4. DOMAIN tree \subseteq P!Paths
        BY <1>4 DEF P!Shape
      <4> HIDE DEF sub
      <4>5. Src.path \o <<>> \in DOMAIN tree' /\ tree'[Src.path \o <<>>] = P!Dir
        <5>1. \A r \in DOMAIN sub :
                 /\ Src.path \o r \in DOMAIN P!Grafted(tree, Src.path, sub)
                 /\ P!Grafted(tree, Src.path, sub)[Src.path \o r] = sub[r]
          BY <1>4, <4>3, <4>4, Assumed, P!GraftedValues
        <5> QED
          BY <4>2, <4>3, <5>1
      <4>6. Src.path \o <<>> = Src.path
        BY <1>4, Assumed, P!PathFacts, ConcatEmptySeq
      <4>7. P!Dir.kind = "dir"
        BY Assumed, P!NodeFacts
      <4> QED
        BY <3>3, <4>5, <4>6, <4>7 DEF V!IsDir
    <3> QED
      BY <3>4, <3>5
  <2> QED
    BY <2>1, <2>2
<1>6. MkdirDone
  BY <1>1, <1>2 DEF ProgressInv, Progress
<1>7. ASSUME NEW k \in 1..At' PROVE V!IsDir(tree', Sources(cmd)[k].path)
  <2>1. CASE k \in 1..At
    BY <1>5, <1>6, <2>1 DEF MkdirDone, V!IsDir, Kept
  <2>2. CASE k = At + 1
    BY <1>3, <1>5, <2>2
  <2> QED
    BY <1>1, <2>1, <2>2, AtMoves
<1> QED
  BY <1>1, <1>7 DEF MkdirDone

LEMMA TouchMoves ==
    ASSUME IInv, ProgressInv, Touch, code' = 0
    PROVE  TouchDone'
<1>1. /\ Running /\ cmd.tool = "touch" /\ todo # <<>> /\ todo' = Tail(todo)
      /\ cmd' = cmd /\ start' = start
      /\ code \in {0, 1} /\ V!IsTree(tree) /\ NoBytes \in Contents
  BY TreeAssumption DEF Touch, Takes, IInv
<1>2. Src.path \in V!Paths /\ Src = Sources(cmd)[At + 1]
  BY <1>1, SrcFacts, AtFacts
<1>3. code = 0
  BY <1>1 DEF Touch, Do
<1>4. Src.path \in DOMAIN tree' /\ \A q \in DOMAIN tree : Kept(tree, tree', q)
  <2>1. CASE Src.path \in DOMAIN tree
    <3>1. tree' = tree
      BY <2>1 DEF Touch, Do, V!Outcome
    <3> QED
      BY <2>1, <3>1 DEF Kept
  <2>2. CASE Src.path \notin DOMAIN tree
    <3> DEFINE o == P!MemWrite(tree, Src.path, NoBytes)
               set == P!MemSetNode(tree, Src.path, P!Leaf(P!File(NoBytes)))
    <3>1. V!MemWrite(tree, Src.path, NoBytes) = o
      BY SameOps
    <3>2. tree' = o.tree /\ o.res = "ok"
      BY <1>1, <2>2, <3>1 DEF Touch, Do
    <3>3. o = set
      BY <2>2, <3>2 DEF P!MemWrite, P!Outcome
    <3>4. set.tree = P!Grafted(tree, Src.path, P!Leaf(P!File(NoBytes)))
      BY <3>2, <3>3 DEF P!MemSetNode, P!Outcome
    <3> DEFINE sub == P!Leaf(P!File(NoBytes))
    <3>5. <<>> \in DOMAIN sub /\ DOMAIN sub \subseteq Seq(Names)
      BY EmptySeq DEF P!Leaf
    <3> HIDE DEF o, set
    <3>6. DOMAIN tree \subseteq P!Paths /\ Src.path \in P!Paths
      BY <1>1, <1>2, TreeFacts, Same DEF P!Shape
    <3>7. tree' = P!Grafted(tree, Src.path, sub)
      BY <3>2, <3>3, <3>4
    <3> HIDE DEF sub
    <3>8. Src.path \o <<>> \in DOMAIN tree'
      BY <3>5, <3>6, <3>7, Assumed, P!GraftedValues
    <3>9. Src.path \o <<>> = Src.path
      BY <3>6, Assumed, P!PathFacts, ConcatEmptySeq
    <3>10. \A q \in DOMAIN tree : Kept(tree, tree', q)
      <4>1. tree' = V!MemWrite(tree, Src.path, NoBytes).tree
        BY <3>1, <3>2
      <4> QED
        BY <1>1, <1>2, <2>2, <4>1, WriteFacts
    <3> QED
      BY <3>8, <3>9, <3>10
  <2> QED
    BY <2>1, <2>2
<1>5. TouchDone
  BY <1>1, <1>3 DEF ProgressInv, Progress
<1>6. ASSUME NEW k \in 1..At' PROVE Sources(cmd)[k].path \in DOMAIN tree'
  <2>1. CASE k \in 1..At
    BY <1>4, <1>5, <2>1 DEF TouchDone, Kept
  <2>2. CASE k = At + 1
    BY <1>2, <1>4, <2>2
  <2> QED
    BY <1>1, <2>1, <2>2, AtMoves
<1>7. \A q \in DOMAIN start : Kept(start, tree', q)
  BY <1>4, <1>5 DEF TouchDone, Kept
<1> QED
  BY <1>1, <1>6, <1>7 DEF TouchDone

LEMMA RmMoves ==
    ASSUME IInv, ProgressInv, Rm, code' = 0
    PROVE  RmDone'
<1>1. /\ Running /\ cmd.tool = "rm" /\ todo # <<>> /\ todo' = Tail(todo)
      /\ cmd' = cmd /\ code \in {0, 1} /\ V!IsTree(tree)
  BY DEF Rm, Takes, IInv
<1> DEFINE o == P!MemRemove(tree, Src.path, cmd.recursive)
<1>2. Src.path \in V!Paths /\ Src = Sources(cmd)[At + 1]
  BY <1>1, SrcFacts, AtFacts
<1>3. V!MemRemove(tree, Src.path, cmd.recursive) = o
  BY SameOps
<1>4. code = 0
  BY <1>1 DEF Rm, Do
<1>5. CASE cmd.force
  BY <1>1, <1>5 DEF RmDone
<1>6. CASE ~cmd.force
  <2>1. tree' = o.tree /\ o.res = "ok"
    BY <1>1, <1>3, <1>6 DEF Rm, Do
  <2>2. P!MemRemoveNode(tree, Src.path).res = "ok"
        /\ tree' = P!MemRemoveNode(tree, Src.path).tree
    BY <2>1 DEF P!MemRemove, P!Outcome
  <2>3. tree' = P!Pruned(tree, Src.path)
    BY <2>2, Assumed, P!RemoveNodeOk
  <2>4. DOMAIN tree' = {q \in DOMAIN tree : ~P!IsPrefix(Src.path, q)}
    BY <2>3 DEF P!Pruned
  <2>5. P!IsPrefix(Src.path, Src.path)
    BY <1>1, <1>2, TreeFacts, Assumed, P!PrefixEnds
  <2>6. RmDone
    BY <1>1, <1>4 DEF ProgressInv, Progress
  <2>7. ASSUME NEW k \in 1..At' PROVE Sources(cmd)[k].path \notin DOMAIN tree'
    <3>1. CASE k \in 1..At
      BY <1>6, <2>4, <2>6, <3>1 DEF RmDone
    <3>2. CASE k = At + 1
      BY <1>2, <2>4, <2>5, <3>2
    <3> QED
      BY <1>1, <3>1, <3>2, AtMoves
  <2> QED
    BY <1>1, <2>7 DEF RmDone
<1> QED
  BY <1>5, <1>6

\* Of two prefixes of a path one is a prefix of the other.
LEMMA PrefixChain ==
    ASSUME NEW p \in Seq(Names), NEW q \in Seq(Names), NEW r \in Seq(Names), IsPrefix(q, r)
    PROVE  /\ IsPrefix(p, q) => IsPrefix(p, r)
           /\ IsPrefix(p, r) => IsPrefix(p, q) \/ IsPrefix(q, p)
<1>1. Len(p) \in Nat /\ Len(q) \in Nat /\ Len(r) \in Nat
  BY LenProperties
<1>2. \A a, b \in Seq(Names) :
         IsPrefix(a, b) <=> Len(a) <= Len(b) /\ \A i \in 1..Len(a) : a[i] = b[i]
  BY Same, Assumed, P!PrefixFacts
<1>3. Len(q) <= Len(r) /\ \A i \in 1..Len(q) : q[i] = r[i]
  BY <1>2
<1>4. ASSUME IsPrefix(p, q) PROVE IsPrefix(p, r)
  <2>1. Len(p) <= Len(q) /\ \A i \in 1..Len(p) : p[i] = q[i]
    BY <1>2, <1>4
  <2>2. \A i \in 1..Len(p) : i \in 1..Len(q)
    BY <1>1, <2>1
  <2>3. Len(p) <= Len(r) /\ \A i \in 1..Len(p) : p[i] = r[i]
    BY <1>1, <1>3, <2>1, <2>2
  <2> QED
    BY <1>2, <2>3
<1>5. ASSUME IsPrefix(p, r) PROVE IsPrefix(p, q) \/ IsPrefix(q, p)
  <2>1. Len(p) <= Len(r) /\ \A i \in 1..Len(p) : p[i] = r[i]
    BY <1>2, <1>5
  <2>2. CASE Len(p) <= Len(q)
    <3>1. \A i \in 1..Len(p) : i \in 1..Len(q)
      BY <1>1, <2>2
    <3>2. \A i \in 1..Len(p) : p[i] = q[i]
      BY <1>3, <2>1, <3>1
    <3> QED
      BY <1>2, <2>2, <3>2
  <2>3. CASE Len(q) <= Len(p)
    <3>1. \A i \in 1..Len(q) : i \in 1..Len(p)
      BY <1>1, <2>3
    <3>2. \A i \in 1..Len(q) : q[i] = p[i]
      BY <1>3, <2>1, <3>1
    <3> QED
      BY <1>2, <2>3, <3>2
  <2> QED
    BY <1>1, <2>2, <2>3
<1> QED
  BY <1>4, <1>5

\* What lies below p in two trees that are the same there.
LEMMA AlikeBelow ==
    ASSUME NEW t, V!IsTree(t), NEW u, V!IsTree(u), NEW p \in Seq(Names),
           \A q \in V!Paths : IsPrefix(p, q) => Alike(t, u, q)
    PROVE  V!Subtree(u, p) = V!Subtree(t, p)
<1> DEFINE under(x) == {q \in DOMAIN x : IsPrefix(p, q)}
           rest(x) == {SubSeq(q, Len(p) + 1, Len(q)) : q \in under(x)}
<1>1. \A q : q \in DOMAIN t \/ q \in DOMAIN u => q \in V!Paths /\ q \in Seq(Names)
  BY TreeFacts
<1>2. under(u) = under(t)
  BY <1>1 DEF Alike
<1>3. rest(u) = rest(t)
  BY <1>2
<1>4. ASSUME NEW r \in rest(t) PROVE u[p \o r] = t[p \o r]
  <2>1. PICK q \in under(t) : r = SubSeq(q, Len(p) + 1, Len(q))
    OBVIOUS
  <2>2. q \in DOMAIN t /\ IsPrefix(p, q) /\ q \in V!Paths /\ q \in Seq(Names)
    BY <1>1
  <2>3. p \o r = q
    <3>1. P!IsPrefix(p, q)
      BY <2>2, Same
    <3>2. p \o SubSeq(q, Len(p) + 1, Len(q)) = q
      BY <2>2, <3>1, Assumed, P!SuffixFacts
    <3> QED
      BY <2>1, <3>2
  <2> QED
    BY <2>2, <2>3 DEF Alike
<1>5. /\ V!Subtree(t, p) = [r \in rest(t) |-> t[p \o r]]
      /\ V!Subtree(u, p) = [r \in rest(u) |-> u[p \o r]]
  BY Same DEF V!Subtree
<1> HIDE DEF rest
<1> QED
  BY <1>3, <1>4, <1>5

\* What Separate says, by prefixes.
LEMMA ApartFacts ==
    ASSUME Separate, NEW j \in DOMAIN Sources(cmd), NEW k \in DOMAIN Sources(cmd)
    PROVE  LET s == Sources(cmd)[j]
               z == Sources(cmd)[k]
           IN /\ ~IsPrefix(s.path, Target(z)) /\ ~IsPrefix(Target(z), s.path)
              /\ j # k => /\ ~IsPrefix(s.path, z.path) /\ ~IsPrefix(z.path, s.path)
                          /\ ~IsPrefix(Target(s), Target(z)) /\ ~IsPrefix(Target(z), Target(s))
BY DEF Separate, Apart, Below

LEMMA MvMoves ==
    ASSUME IInv, ProgressInv, Mv, code' = 0, Separate
    PROVE  MvDone'
<1> DEFINE S == Sources(cmd)
           from == Src.path
           to == Target(Src)
           o == P!MemRename(tree, from, to)
<1>1. /\ Running /\ cmd.tool = "mv" /\ todo # <<>> /\ todo' = Tail(todo)
      /\ cmd' = cmd /\ into' = into /\ start' = start /\ code \in {0, 1} /\ V!IsTree(tree)
      /\ \A r \in DOMAIN V!Subtree(tree, from) : to \o r \in V!Paths
  BY DEF Mv, Takes, IInv, Fits
<1>2. /\ from \in V!Paths /\ to \in Seq(Names)
      /\ At \in Nat /\ At + 1 \in DOMAIN S /\ Src = S[At + 1]
      /\ DOMAIN S = 1..Len(S) /\ Len(S) \in Nat
  BY <1>1, SrcFacts, AtFacts
<1>3. V!MemRename(tree, from, to) = o
  BY SameOps
<1>4. tree' = o.tree /\ o.res = "ok" /\ code = 0
  BY <1>1, <1>3 DEF Mv, Do
<1>5. MvDone
  BY <1>1, <1>4 DEF ProgressInv, Progress
<1>6. P!Shape(tree) /\ P!HasNodes(tree) /\ from \in P!Paths /\ from \in Seq(Names)
  BY <1>1, <1>2, TreeFacts, Same
<1>7. P!MemRemoveNode(tree, from).res = "ok"
  BY <1>4 DEF P!MemRename
<1>8. /\ from \in DOMAIN tree /\ from # <<>>
      /\ P!MemRemoveNode(tree, from).tree = P!Pruned(tree, from)
  BY <1>7, Assumed, P!RemoveNodeOk
<1>9. to \in P!Paths /\ to \in V!Paths
  <2>1. <<>> \in DOMAIN P!Subtree(tree, from)
    BY <1>6, <1>8, Assumed, P!SubtreeFacts
  <2>2. to \o <<>> = to
    BY <1>2, ConcatEmptySeq
  <2> HIDE DEF from, to
  <2> QED
    BY <1>1, <2>1, <2>2, Same, SameSubtree
<1>10. /\ P!Subtree(tree', to) = P!Subtree(tree, from)
       /\ \A q \in P!Paths : ~P!IsPrefix(from, q) /\ ~P!IsPrefix(to, q) =>
             /\ q \in DOMAIN tree' <=> q \in DOMAIN tree
             /\ q \in DOMAIN tree => tree'[q] = tree[q]
  <2> HIDE DEF from, to
  <2> QED
    BY <1>4, <1>6, <1>9, Assumed, P!RenameResult
<1>11. \A q \in V!Paths : ~IsPrefix(from, q) /\ ~IsPrefix(to, q) => Alike(tree, tree', q)
  BY <1>10, Same DEF Alike
<1>12. V!IsTree(tree')
  <2> HIDE DEF from, to
  <2> QED
    BY <1>1, <1>2, <1>3, <1>4, RenameFacts
<1>13. from \notin DOMAIN tree'
  <2> DEFINE rest == P!Pruned(tree, from)
             sub == P!Subtree(tree, from)
  <2>1. tree' = P!MemSetNode(rest, to, sub).tree /\ P!MemSetNode(rest, to, sub).res = "ok"
    BY <1>4, <1>7, <1>8 DEF P!MemRename
  <2>2. tree' = P!Grafted(rest, to, sub)
    BY <2>1 DEF P!MemSetNode, P!Outcome
  <2>3. DOMAIN rest = {q \in DOMAIN tree : ~P!IsPrefix(from, q)}
    BY DEF P!Pruned
  <2>4. DOMAIN rest \subseteq P!Paths
    BY <1>6, <2>3 DEF P!Shape
  <2>5. DOMAIN sub \subseteq Seq(Names)
    BY <1>6, <1>8, Assumed, P!SubtreeFacts
  <2>6. P!IsPrefix(from, from)
    BY <1>6, Assumed, P!PrefixEnds
  <2> HIDE DEF rest, sub, from, to
  <2>7. \A q \in DOMAIN P!Grafted(rest, to, sub) :
           \/ q \in DOMAIN rest /\ ~P!IsPrefix(to, q)
           \/ \E r \in DOMAIN sub : q = to \o r
    BY <1>9, <2>4, <2>5, Assumed, P!GraftedValues
  <2>8. \A r \in DOMAIN sub : P!IsPrefix(to, to \o r)
    BY <1>2, <2>5, Assumed, P!ConcatFacts
  <2>9. ~IsPrefix(to, from)
    BY <1>2, ApartFacts DEF from, to
  <2> QED
    BY <2>2, <2>3, <2>6, <2>7, <2>8, <2>9, Same
<1>14. \A p \in Seq(Names) :
          ~IsPrefix(from, p) /\ ~IsPrefix(p, from) /\ ~IsPrefix(to, p) /\ ~IsPrefix(p, to)
             => V!Subtree(tree', p) = V!Subtree(tree, p)
  <2> SUFFICES ASSUME NEW p \in Seq(Names),
                      ~IsPrefix(from, p), ~IsPrefix(p, from),
                      ~IsPrefix(to, p), ~IsPrefix(p, to)
               PROVE  V!Subtree(tree', p) = V!Subtree(tree, p)
    OBVIOUS
  <2> HIDE DEF from, to
  <2>1. \A q \in V!Paths : IsPrefix(p, q) => ~IsPrefix(from, q) /\ ~IsPrefix(to, q)
    <3> SUFFICES ASSUME NEW q \in V!Paths, IsPrefix(p, q)
                 PROVE  ~IsPrefix(from, q) /\ ~IsPrefix(to, q)
      OBVIOUS
    <3>1. q \in Seq(Names)
      BY Same, Assumed, P!PathFacts
    <3> QED
      BY <1>2, <1>6, <3>1, PrefixChain
  <2> QED
    BY <1>1, <1>11, <1>12, <2>1, AlikeBelow
<1>15. \A s : Target(s)' = Target(s)
  BY <1>1 DEF Target, Dst
<1>16. ASSUME NEW k \in DOMAIN S
       PROVE  /\ k <= At + 1 => /\ S[k].path \notin DOMAIN tree'
                                /\ V!Subtree(tree', Target(S[k])) = V!Subtree(start, S[k].path)
              /\ k > At + 1 => V!Subtree(tree', S[k].path) = V!Subtree(start, S[k].path)
  <2>1. /\ S[k].path \in V!Paths /\ S[k].path \in Seq(Names) /\ Target(S[k]) \in Seq(Names)
        /\ k \in Nat
    <3>1. S[k].path \in V!Paths /\ S[k].path \in Seq(Names)
      BY <1>1, AtFacts
    <3>2. Target(S[k]) \in Seq(Names)
      BY <1>1, RunningFacts
    <3>3. k \in Nat
      BY <1>2
    <3> QED
      BY <3>1, <3>2, <3>3
  <2>2. /\ k <= At => /\ S[k].path \notin DOMAIN tree
                      /\ V!Subtree(tree, Target(S[k])) = V!Subtree(start, S[k].path)
        /\ k > At => V!Subtree(tree, S[k].path) = V!Subtree(start, S[k].path)
    BY <1>5 DEF MvDone
  <2>3. CASE k = At + 1
    <3>1. S[k] = Src /\ k > At /\ k <= At + 1 /\ ~(k > At + 1)
      BY <1>2, <2>1, <2>3
    <3>2. V!Subtree(tree', to) = V!Subtree(tree, from)
      BY <1>10, SameSubtree
    <3> HIDE DEF S
    <3> QED
      BY <1>13, <2>2, <3>1, <3>2
  <2>4. CASE k # At + 1
    <3>1. /\ ~IsPrefix(from, Target(S[k])) /\ ~IsPrefix(Target(S[k]), from)
          /\ ~IsPrefix(from, S[k].path) /\ ~IsPrefix(S[k].path, from)
          /\ ~IsPrefix(to, Target(S[k])) /\ ~IsPrefix(Target(S[k]), to)
          /\ ~IsPrefix(to, S[k].path) /\ ~IsPrefix(S[k].path, to)
      BY <1>2, <2>4, ApartFacts
    <3> HIDE DEF S, from, to
    <3>2. /\ V!Subtree(tree', Target(S[k])) = V!Subtree(tree, Target(S[k]))
          /\ V!Subtree(tree', S[k].path) = V!Subtree(tree, S[k].path)
      BY <1>14, <2>1, <3>1
    <3>3. S[k].path \in DOMAIN tree' <=> S[k].path \in DOMAIN tree
      BY <1>11, <2>1, <3>1 DEF Alike
    <3>4. (k <= At + 1 => k <= At) /\ (k > At + 1 => k > At)
      BY <1>2, <2>1, <2>4
    <3> QED
      BY <2>2, <3>2, <3>3, <3>4
  <2> QED
    BY <2>3, <2>4
<1>17. At' = At + 1
  BY <1>1, AtMoves
<1> QED
  BY <1>1, <1>15, <1>16, <1>17 DEF MvDone

\* A copy that succeeds: the file is there, or a device has swallowed it.
LEMMA CopyLands ==
    ASSUME V!IsTree(tree), NEW from, NEW to \in V!Paths, CopyOf(from, to).res = "ok"
    PROVE  LET u == CopyOf(from, to).tree
           IN /\ from \in DOMAIN tree /\ tree[from].kind # "dir"
              /\ \A q \in V!Paths : q # to => Alike(tree, u, q)
              /\ \A q \in V!Paths : Swallows(u, q) => Swallows(tree, q)
              /\ tree[from].kind = "file" =>
                    Swallows(tree, to) \/ (to \in DOMAIN u /\ u[to] = tree[from])
<1> DEFINE read == V!MemRead(tree, from)
           o == P!MemWrite(tree, to, read.data)
           set == P!MemSetNode(tree, to, P!Leaf(P!File(read.data)))
           new == P!With(tree, to, P!File(read.data))
<1>1. read.res = "ok"
  BY DEF CopyOf, V!Outcome
<1>2. from \in DOMAIN tree
  BY <1>1, CopyFacts
<1>3. V!MemWrite(tree, to, read.data) = o
  BY SameOps
<1>4. CopyOf(from, to) = o /\ o.res = "ok"
  BY <1>1, <1>3 DEF CopyOf
<1>5. P!Shape(tree) /\ P!HasNodes(tree) /\ to \in P!Paths
  BY TreeFacts, Same
<1>6. \A q \in DOMAIN tree :
         /\ tree[q].kind \in {"dir", "file", "null", "device"}
         /\ tree[q].kind = "file" => tree[q] = P!File(tree[q].data)
  <2> TAKE q \in DOMAIN tree
  <2>1. tree[q] \in P!Nodes
    BY <1>5 DEF P!HasNodes
  <2>2. \A k, d : P!Node(k, d).kind = k /\ P!Node(k, d).data = d
    BY DEF P!Node
  <2>3. tree[q].kind \in P!Kinds
    BY <2>1, Assumed, P!NodeFacts
  <2>4. \/ \E k \in P!Kinds : tree[q] = P!Node(k, NoBytes)
        \/ \E d \in Contents : tree[q] = P!Node("file", d)
    BY <2>1 DEF P!Nodes, P!File
  <2>5. ASSUME tree[q].kind = "file" PROVE tree[q] = P!Node("file", tree[q].data)
    BY <2>2, <2>4, <2>5
  <2> QED
    BY <2>3, <2>5 DEF P!Kinds, P!File
<1>7. tree[from].kind = "file" \/ tree[from].kind = "null"
  BY <1>1, <1>2, <1>6 DEF V!MemRead
<1>8. tree[from].kind = "file" => tree[from] = P!File(read.data)
  <2>1. ASSUME tree[from].kind = "file" PROVE read.data = tree[from].data
    BY <1>2, <2>1 DEF V!MemRead
  <2> QED
    BY <1>2, <1>6, <2>1
<1>9. \/ to \notin DOMAIN tree /\ o = set
      \/ to \in DOMAIN tree /\ tree[to].kind = "file" /\ o = set
      \/ Swallows(tree, to) /\ o.tree = tree
  <2>1. CASE to \notin DOMAIN tree
    <3>1. o = set
      BY <1>4, <2>1 DEF P!MemWrite, P!Outcome
    <3> QED
      BY <2>1, <3>1
  <2>2. CASE to \in DOMAIN tree /\ tree[to].kind = "dir"
    BY <1>4, <2>2 DEF P!MemWrite, P!Outcome
  <2>3. CASE to \in DOMAIN tree /\ tree[to].kind = "file"
    <3>1. o = set
      BY <2>3 DEF P!MemWrite
    <3> QED
      BY <2>3, <3>1
  <2>4. CASE to \in DOMAIN tree /\ tree[to].kind \in {"null", "device"}
    <3>1. o.tree = tree
      BY <2>4 DEF P!MemWrite, P!Outcome
    <3> QED
      BY <2>4, <3>1 DEF Swallows
  <2> QED
    BY <1>6, <2>1, <2>2, <2>3, <2>4
<1>10. CASE Swallows(tree, to) /\ o.tree = tree
  <2> HIDE DEF o, read
  <2> QED
    BY <1>2, <1>4, <1>7, <1>10 DEF Alike
<1>11. CASE (to \notin DOMAIN tree \/ tree[to].kind # "dir") /\ o = set
  <2>1. o.tree = P!Grafted(tree, to, P!Leaf(P!File(read.data)))
    BY <1>4, <1>11 DEF P!MemSetNode, P!Outcome
  <2> DEFINE n == P!File(read.data)
  <2>2. n.kind = "file"
    BY DEF P!File, P!Node
  <2> HIDE DEF n
  <2>3. o.tree = P!With(tree, to, n)
    <3>1. P!Grafted(tree, to, P!Leaf(n)) = P!With(tree, to, n)
      BY <1>5, <1>11, Assumed, P!LeafGrafted
    <3> QED
      BY <2>1, <3>1 DEF n
  <2>4. /\ DOMAIN o.tree = DOMAIN tree \cup {to} /\ o.tree[to] = n
        /\ \A q \in DOMAIN tree : q # to => o.tree[q] = tree[q]
    BY <2>3 DEF P!With
  <2>5. tree[from].kind = "file" => tree[from] = n
    BY <1>8 DEF n
  <2> HIDE DEF o, read, set
  <2> QED
    BY <1>2, <1>4, <1>7, <2>2, <2>4, <2>5 DEF Alike, Swallows
<1> QED
  BY <1>9, <1>10, <1>11

\* Making a directory for a copy makes nothing but directories on the way to it.
LEMMA EnterLands ==
    ASSUME V!IsTree(tree), NEW to \in V!Paths
    PROVE  LET u == V!MemMkdirParents(tree, to).tree
           IN /\ \A q \in V!Paths : ~IsPrefix(q, to) => Alike(tree, u, q)
              /\ \A q \in V!Paths : Swallows(u, q) => Swallows(tree, q)
<1> DEFINE o == P!MemMkdirParents(tree, to)
           all == P!Ancestors(to) \cup {to}
<1>1. V!MemMkdirParents(tree, to) = o
  BY SameOps
<1>2. \/ o.tree = tree
      \/ /\ DOMAIN o.tree = DOMAIN tree \cup all
         /\ \A q \in DOMAIN tree : o.tree[q] = tree[q]
         /\ \A q \in all : q \notin DOMAIN tree => o.tree[q] = P!Dir
  BY DEF P!MemMkdirParents, P!Outcome
<1>3. \A q \in all : IsPrefix(q, to)
  <2>1. to \in Seq(Names)
    BY Same, Assumed, P!PathFacts
  <2> QED
    BY <2>1, Same, Assumed, P!AncestorFacts, P!PrefixEnds
<1>4. P!Dir.kind = "dir"
  BY Assumed, P!NodeFacts
<1> HIDE DEF o, all
<1> QED
  BY <1>1, <1>2, <1>3, <1>4 DEF Alike, Swallows

LEMMA SeparateStays ==
    ASSUME UNCHANGED <<cmd, into>>
    PROVE  (Separate' <=> Separate) /\ \A s : Target(s)' = Target(s)
<1>1. \A s : Target(s)' = Target(s)
  BY DEF Target, Dst
<1> QED
  BY <1>1 DEF Separate

\* A step that changes the tree only on the way to a place below one source's target
\* touches no source, and nothing below the target of another.
LEMMA CpFrame ==
    ASSUME IInv, Running, cmd.tool = "cp", Separate, V!IsTree(tree'),
           UNCHANGED <<cmd, into, start>>, SourcesAlike, DevicesAlike,
           NEW j \in DOMAIN Sources(cmd), NEW to \in V!Paths,
           IsPrefix(Target(Sources(cmd)[j]), to),
           \A q \in V!Paths : ~IsPrefix(q, to) => Alike(tree, tree', q),
           \A q \in V!Paths : Swallows(tree', q) => Swallows(tree, q)
    PROVE  /\ SourcesAlike' /\ DevicesAlike'
           /\ \A k \in DOMAIN Sources(cmd), r \in Seq(Names) :
                 k # j /\ Landed(Sources(cmd)[k], r) => Landed(Sources(cmd)[k], r)'
<1> DEFINE S == Sources(cmd)
<1>1. \A k \in DOMAIN S : S[k].path \in Seq(Names) /\ Target(S[k]) \in Seq(Names)
  <2> TAKE k \in DOMAIN S
  <2>1. S[k].path \in Seq(Names)
    BY AtFacts
  <2>2. Target(S[k]) \in Seq(Names)
    BY RunningFacts
  <2> QED
    BY <2>1, <2>2
<1>2. to \in Seq(Names) /\ \A q \in V!Paths : q \in Seq(Names)
  BY Same, Assumed, P!PathFacts
\* Nothing on the way to `to` is below a place apart from the target.
<1>3. ASSUME NEW p \in Seq(Names), ~IsPrefix(p, Target(S[j])), ~IsPrefix(Target(S[j]), p),
             NEW q \in Seq(Names), IsPrefix(p, q)
      PROVE  ~IsPrefix(q, to)
  <2> SUFFICES ASSUME IsPrefix(q, to) PROVE FALSE
    OBVIOUS
  <2>1. IsPrefix(p, to)
    BY <1>2, <1>3, PrefixChain
  <2>2. Target(S[j]) \in Seq(Names)
    BY <1>1
  <2>3. IsPrefix(p, Target(S[j])) \/ IsPrefix(Target(S[j]), p)
    BY <1>2, <2>1, <2>2, PrefixChain
  <2> QED
    BY <1>3, <2>3
<1>4. ASSUME NEW k \in DOMAIN S, NEW q \in V!Paths, IsPrefix(S[k].path, q)
      PROVE  Alike(start, tree', q)
  <2>1. ~IsPrefix(S[k].path, Target(S[j])) /\ ~IsPrefix(Target(S[j]), S[k].path)
    BY ApartFacts
  <2>2. ~IsPrefix(q, to)
    BY <1>1, <1>2, <1>3, <1>4, <2>1
  <2>3. Alike(tree, tree', q) /\ Alike(start, tree, q)
    BY <1>4, <2>2 DEF SourcesAlike
  <2> QED
    BY <2>3 DEF Alike
<1>5. SourcesAlike'
  BY <1>4 DEF SourcesAlike
<1>6. DevicesAlike'
  BY DEF DevicesAlike
<1>7. ASSUME NEW k \in DOMAIN S, NEW r \in Seq(Names), k # j, Landed(S[k], r)
      PROVE  Landed(S[k], r)'
  <2> DEFINE at == Target(S[k]) \o r
  <2>1. Target(S[k])' = Target(S[k]) /\ S[k]' = S[k]
    BY SeparateStays
  <2>2. CASE Swallows(start, at)
    BY <2>1, <2>2 DEF Landed
  <2>3. CASE at \in DOMAIN tree /\ tree[at] = start[S[k].path \o r]
    <3>1. at \in V!Paths /\ at \in Seq(Names)
      BY <1>2, <2>3, TreeFacts DEF IInv
    <3>2. IsPrefix(Target(S[k]), at)
      <4>1. P!IsPrefix(Target(S[k]), at)
        BY <1>1, Assumed, P!ConcatFacts
      <4> QED
        BY <4>1, Same
    <3>3. ~IsPrefix(Target(S[k]), Target(S[j])) /\ ~IsPrefix(Target(S[j]), Target(S[k]))
      BY <1>7, ApartFacts
    <3> HIDE DEF at
    <3>4. ~IsPrefix(at, to)
      BY <1>1, <1>3, <3>1, <3>2, <3>3
    <3>5. at \in DOMAIN tree' /\ tree'[at] = start[S[k].path \o r]
      BY <2>3, <3>1, <3>4 DEF Alike
    <3> QED
      BY <2>1, <3>5 DEF Landed, at
  <2> QED
    BY <1>7, <2>2, <2>3 DEF Landed
<1> QED
  BY <1>5, <1>6, <1>7

\* What a file below a directory lies below: one of its entries.
LEMMA EntryOnTheWay ==
    ASSUME NEW t, V!IsTree(t), NEW from \in Seq(Names), V!IsDir(t, from),
           NEW f \in DOMAIN t, t[f].kind = "file", IsPrefix(from, f)
    PROVE  \E n \in {Last(p) : p \in V!Children(t, from)} : IsPrefix(Append(from, n), f)
<1> DEFINE m == Len(from) + 1
           c == SubSeq(f, 1, m)
<1>1. f \in Seq(Names) /\ f # from
  BY TreeFacts DEF V!IsDir
<1>2. Len(from) \in Nat /\ Len(f) \in Nat
  BY <1>1, LenProperties
<1>3. Len(from) <= Len(f) /\ \A i \in 1..Len(from) : from[i] = f[i]
  <2>1. P!IsPrefix(from, f)
    BY Same
  <2> QED
    BY <1>1, <2>1, Assumed, P!PrefixFacts
<1>4. Len(from) # Len(f)
  BY <1>1, <1>3, SeqEqual
<1>5. m \in Nat /\ m <= Len(f) /\ 1 <= m + 1 /\ m # 0 /\ m - 1 + 1 = m /\ m - 1 = Len(from)
  BY <1>2, <1>3, <1>4
<1>6. /\ c \in Seq(Names) /\ Len(c) = m
      /\ \A i \in 1..m : c[i] = f[i]
  BY <1>1, <1>5, Assumed, P!PartFacts
<1> HIDE DEF c
<1>7. P!IsPrefix(c, f)
  BY <1>1, <1>5, <1>6, Assumed, P!PrefixFacts
<1>8. c # <<>>
  BY <1>5, <1>6, EmptySeq
<1>9. P!Parent(c) = from
  <2>1. /\ P!Parent(c) \in Seq(Names) /\ Len(P!Parent(c)) = Len(c) - 1
        /\ \A i \in 1..(Len(c) - 1) : P!Parent(c)[i] = c[i]
    BY <1>6, <1>8, Assumed, P!ParentFacts
  <2>2. Len(P!Parent(c)) = Len(from)
    BY <1>5, <1>6, <2>1
  <2>3. \A i \in 1..Len(from) : i \in 1..m /\ i \in 1..(Len(c) - 1)
    BY <1>2, <1>5, <1>6
  <2>4. \A i \in 1..Len(from) : P!Parent(c)[i] = from[i]
    BY <1>3, <1>6, <2>1, <2>3
  <2> QED
    BY <2>1, <2>2, <2>4, SeqEqual
<1>10. c \in DOMAIN t
  <2>1. c = f \/ c \in P!Ancestors(f)
    BY <1>1, <1>6, <1>7, Assumed, P!AncestorFacts
  <2>2. P!Shape(t)
    BY TreeFacts
  <2>3. \A p \in DOMAIN t : \A q \in P!Ancestors(p) : q \in DOMAIN t
    BY <2>2, Assumed, P!AncestorsExist
  <2> QED
    BY <2>1, <2>3
<1>11. c \in V!Children(t, from)
  BY <1>8, <1>9, <1>10, Same DEF V!Children
<1>12. Append(from, Last(c)) = c
  BY <1>6, <1>8, <1>9, LastFacts
<1> QED
  BY <1>7, <1>11, <1>12, Same

\* The directories on the stack, whatever their order.
LEMMA OnStack ==
    ASSUME NEW s \in Seq(Levels)
    PROVE  /\ \A w \in Levels : Range(<<w>> \o s) = {w} \cup Range(s)
           /\ s # <<>> => Range(s) = {Head(s)} \cup Range(Tail(s))
<1>1. Len(s) \in Nat /\ DOMAIN s = 1..Len(s)
  BY LenProperties
<1>2. ASSUME NEW w \in Levels PROVE Range(<<w>> \o s) = {w} \cup Range(s)
  <2> DEFINE c == <<w>> \o s
  <2>1. <<w>> \in Seq(Levels) /\ Len(<<w>>) = 1 /\ <<w>>[1] = w
    OBVIOUS
  <2>2. /\ c \in Seq(Levels) /\ Len(c) = 1 + Len(s)
        /\ \A i \in 1..(1 + Len(s)) : c[i] = IF i <= 1 THEN <<w>>[i] ELSE s[i - 1]
    BY <2>1, ConcatProperties
  <2> HIDE DEF c
  <2>3. DOMAIN c = 1..(1 + Len(s))
    BY <2>2, LenProperties
  <2>4. 1 \in DOMAIN c /\ c[1] = w
    BY <1>1, <2>1, <2>2, <2>3
  <2>5. \A i \in DOMAIN c : i = 1 \/ (i - 1 \in DOMAIN s /\ c[i] = s[i - 1])
    BY <1>1, <2>2, <2>3
  <2>6. \A i \in DOMAIN s : i + 1 \in DOMAIN c /\ c[i + 1] = s[i]
    <3> TAKE i \in DOMAIN s
    <3>1. i + 1 \in 1..(1 + Len(s)) /\ ~(i + 1 <= 1) /\ (i + 1) - 1 = i
      BY <1>1
    <3> QED
      BY <2>2, <2>3, <3>1
  <2>7. \A x : (x \in Range(c) <=> \E i \in DOMAIN c : x = c[i])
             /\ (x \in Range(s) <=> \E i \in DOMAIN s : x = s[i])
    BY DEF Range
  <2>8. ASSUME NEW x PROVE x \in Range(c) <=> x = w \/ x \in Range(s)
    <3>1. ASSUME x \in Range(c) PROVE x = w \/ x \in Range(s)
      BY <2>4, <2>5, <2>7, <3>1
    <3>2. ASSUME x \in Range(s) PROVE x \in Range(c)
      BY <2>6, <2>7, <3>2
    <3> QED
      BY <2>4, <2>7, <3>1, <3>2
  <2> QED
    BY <2>8 DEF c
<1>3. ASSUME s # <<>> PROVE Range(s) = {Head(s)} \cup Range(Tail(s))
  <2>1. /\ Len(s) \in Nat \ {0} /\ Tail(s) \in Seq(Levels) /\ Len(Tail(s)) = Len(s) - 1
        /\ \A i \in 1..(Len(s) - 1) : Tail(s)[i] = s[i + 1]
        /\ Head(s) = s[1]
    BY <1>1, <1>3, EmptySeq, HeadTailProperties
  <2>2. DOMAIN Tail(s) = 1..(Len(s) - 1)
    BY <2>1, LenProperties
  <2>3. 1 \in DOMAIN s
    BY <1>1, <2>1
  <2>4. \A i \in DOMAIN s : i = 1 \/ (i - 1 \in DOMAIN Tail(s) /\ Tail(s)[i - 1] = s[i])
    <3> SUFFICES ASSUME NEW i \in DOMAIN s, i # 1
                 PROVE  i - 1 \in DOMAIN Tail(s) /\ Tail(s)[i - 1] = s[i]
      OBVIOUS
    <3>1. i - 1 \in 1..(Len(s) - 1) /\ (i - 1) + 1 = i
      BY <1>1, <2>1
    <3> QED
      BY <2>1, <2>2, <3>1
  <2>5. \A i \in DOMAIN Tail(s) : i + 1 \in DOMAIN s /\ Tail(s)[i] = s[i + 1]
    BY <1>1, <2>1, <2>2
  <2> DEFINE c == Tail(s)
  <2>6. \A x : (x \in Range(c) <=> \E i \in DOMAIN c : x = c[i])
             /\ (x \in Range(s) <=> \E i \in DOMAIN s : x = s[i])
    BY DEF Range
  <2>7. Head(s) = s[1]
    BY <2>1
  <2>8. ASSUME NEW x PROVE x \in Range(s) <=> x = Head(s) \/ x \in Range(c)
    <3>1. ASSUME x \in Range(s) PROVE x = Head(s) \/ x \in Range(c)
      BY <2>4, <2>6, <2>7, <3>1
    <3>2. ASSUME x \in Range(c) PROVE x \in Range(s)
      BY <2>5, <2>6, <3>2
    <3> QED
      BY <2>3, <2>6, <2>7, <3>1, <3>2
  <2> HIDE DEF c
  <2>9. Range(s) = {Head(s)} \cup Range(c)
    BY <2>8
  <2> QED
    BY <2>9 DEF c
<1> QED
  BY <1>2, <1>3

\* A name put at the end of the second of two paths is at the end of the whole.
LEMMA AppendAfter ==
    ASSUME NEW p \in Seq(Names), NEW r \in Seq(Names), NEW n \in Names
    PROVE  Append(r, n) \in Seq(Names) /\ Append(p \o r, n) = p \o Append(r, n)
<1>1. <<n>> \in Seq(Names)
  OBVIOUS
<1>2. Append(r, n) \in Seq(Names) /\ p \o r \in Seq(Names)
  BY AppendProperties, ConcatProperties
<1>3. Append(r, n) = r \o <<n>> /\ Append(p \o r, n) = (p \o r) \o <<n>>
  BY <1>2, AppendIsConcat
<1>4. (p \o r) \o <<n>> = p \o (r \o <<n>>)
  BY <1>1, ConcatAssociative
<1> QED
  BY <1>2, <1>3, <1>4

\* A name put after the second of two paths, and the second found again.
LEMMA ConcatNames ==
    ASSUME NEW p \in Seq(Names), NEW r \in Seq(Names)
    PROVE  /\ \A n \in Names : Append(r, n) \in Seq(Names) /\ Append(p \o r, n) = p \o Append(r, n)
           /\ \A x \in Seq(Names) : p \o x = p \o r => x = r
           /\ p \o <<>> = p /\ IsPrefix(p, p \o r)
<1>1. \A n \in Names : Append(r, n) \in Seq(Names) /\ Append(p \o r, n) = p \o Append(r, n)
  BY AppendAfter
<1>2. \A x \in Seq(Names) : SubSeq(p \o x, Len(p) + 1, Len(p \o x)) = x /\ P!IsPrefix(p, p \o x)
  BY Assumed, P!ConcatFacts
<1>3. \A x \in Seq(Names) : p \o x = p \o r => x = r
  BY <1>2
<1>4. p \o <<>> = p
  BY ConcatEmptySeq
<1> QED
  BY <1>1, <1>2, <1>3, <1>4, Same

\* What is known of the sources and of the stack when a step of cp begins.
LEMMA CpFacts ==
    ASSUME IInv, ProgressInv, Running, code = 0, cmd.tool = "cp", Separate
    PROVE  /\ CpDone /\ V!IsTree(tree) /\ work \in Seq(Levels)
           /\ \A k \in DOMAIN Sources(cmd) :
                 /\ Sources(cmd)[k].path \in V!Paths /\ Sources(cmd)[k].path \in Seq(Names)
                 /\ Target(Sources(cmd)[k]) \in Seq(Names)
           /\ \A k \in DOMAIN Sources(cmd), r \in Seq(Names) :
                 LET f == Sources(cmd)[k].path \o r
                 IN f \in DOMAIN start =>
                       f \in DOMAIN tree /\ tree[f] = start[f] /\ f \in Seq(Names)
                       /\ IsPrefix(Sources(cmd)[k].path, f)
           /\ work # <<>> => At \in DOMAIN Sources(cmd)
<1>1. CpDone
  BY DEF ProgressInv, Progress
<1>2. V!IsTree(tree) /\ work \in Seq(Levels)
  BY DEF IInv, Stack
<1>3. \A k \in DOMAIN Sources(cmd) :
         /\ Sources(cmd)[k].path \in V!Paths /\ Sources(cmd)[k].path \in Seq(Names)
  BY AtFacts
<1>4. \A k \in DOMAIN Sources(cmd) : Target(Sources(cmd)[k]) \in Seq(Names)
  BY RunningFacts
<1>5. work # <<>> => At \in DOMAIN Sources(cmd)
  BY <1>1, AtFacts DEF CpDone, StackTwins
<1> QED
  <2> SUFFICES ASSUME NEW k \in DOMAIN Sources(cmd), NEW r \in Seq(Names),
                      Sources(cmd)[k].path \o r \in DOMAIN start
               PROVE  LET f == Sources(cmd)[k].path \o r
                      IN /\ f \in DOMAIN tree /\ tree[f] = start[f] /\ f \in Seq(Names)
                         /\ IsPrefix(Sources(cmd)[k].path, f)
    BY <1>1, <1>2, <1>3, <1>4, <1>5
  <2> DEFINE p == Sources(cmd)[k].path
             f == p \o r
  <2>1. IsPrefix(p, f) /\ f \in Seq(Names)
    BY <1>3, ConcatNames, ConcatProperties
  <2>2. f \in V!Paths
    BY TreeFacts DEF ProgressInv
  <2> QED
    BY <1>1, <2>1, <2>2 DEF CpDone, SourcesAlike, Alike

\* Everything below a source that is not a directory is the source.
LEMMA OneFile ==
    ASSUME V!IsTree(tree), NEW from \in V!Paths, ~V!IsDir(tree, from)
    PROVE  \A f \in DOMAIN tree : IsPrefix(from, f) => f = from
<1>1. P!Shape(tree) /\ from \in P!Paths
  BY TreeFacts, Same
<1>2. from \notin DOMAIN tree \/ tree[from].kind # "dir"
  BY DEF V!IsDir
<1>3. \A f \in DOMAIN tree : P!IsPrefix(from, f) => f = from
  BY <1>1, <1>2, Assumed, P!NothingBelow
<1> QED
  BY <1>3, Same

LEMMA CopyFileMoves ==
    ASSUME IInv, ProgressInv, CopyFile, code' = 0, Separate, V!IsTree(tree')
    PROVE  CpDone'
<1> DEFINE S == Sources(cmd)
           from == Src.path
           to == Target(Src)
<1> PICK j : j = At + 1
  OBVIOUS
<1>1. /\ Running /\ cmd.tool = "cp" /\ todo # <<>> /\ todo' = Tail(todo)
      /\ UNCHANGED <<cmd, into, start>> /\ work = <<>> /\ work' = <<>>
      /\ ~V!IsDir(tree, from) /\ to \in V!Paths
      /\ tree' = CopyOf(from, to).tree /\ CopyOf(from, to).res = "ok" /\ code = 0
  BY DEF CopyFile, Takes, Do, IInv
<1>2. /\ j \in DOMAIN S /\ Src = S[j] /\ from \in V!Paths /\ from \in Seq(Names)
      /\ At \in Nat /\ DOMAIN S = 1..Len(S) /\ Len(S) \in Nat
      /\ At' = j /\ \A k \in 1..At' : k \in 1..At \/ k = j
  BY <1>1, AtFacts, AtMoves
<1>3. /\ CpDone /\ V!IsTree(tree)
      /\ \A k \in DOMAIN S, r \in Seq(Names) :
            LET f == S[k].path \o r
            IN f \in DOMAIN start =>
                  /\ f \in DOMAIN tree /\ tree[f] = start[f] /\ f \in Seq(Names)
                  /\ IsPrefix(S[k].path, f)
  BY <1>1, CpFacts
<1>4. /\ \A q \in V!Paths : q # to => Alike(tree, tree', q)
      /\ \A q \in V!Paths : Swallows(tree', q) => Swallows(tree, q)
      /\ tree[from].kind = "file" =>
            Swallows(tree, to) \/ (to \in DOMAIN tree' /\ tree'[to] = tree[from])
  <2> HIDE DEF from, to
  <2> QED
    BY <1>1, <1>3, CopyLands
<1>5. to \in Seq(Names) /\ IsPrefix(to, to) /\ to \o <<>> = to
  <2>1. to \in Seq(Names)
    BY <1>1, Same, Assumed, P!PathFacts
  <2> HIDE DEF to
  <2> QED
    BY <2>1, Same, Assumed, P!PrefixEnds, ConcatNames
<1>6. \A q \in V!Paths : ~IsPrefix(q, to) => Alike(tree, tree', q)
  BY <1>4, <1>5
<1>7. /\ SourcesAlike' /\ DevicesAlike'
      /\ \A k \in DOMAIN S, r \in Seq(Names) :
            k # j /\ Landed(S[k], r) => Landed(S[k], r)'
  <2>1. IsPrefix(Target(S[j]), to)
    BY <1>2, <1>5
  <2>2. SourcesAlike /\ DevicesAlike
    BY <1>3 DEF CpDone
  <2> HIDE DEF to, from
  <2> QED
    BY <1>1, <1>2, <1>4, <1>6, <2>1, <2>2, CpFrame
<1>8. Target(S[j])' = to
  BY <1>1, <1>2, SeparateStays
<1>9. ASSUME NEW k \in 1..At', NEW r \in Seq(Names),
             S[k].path \o r \in DOMAIN start, start[S[k].path \o r].kind = "file"
      PROVE  Landed(S[k], r)'
  <2> DEFINE f == S[k].path \o r
  <2>1. CASE k \in 1..At
    <3>1. k \in DOMAIN S /\ k # j
      BY <1>2, <2>1
    <3>2. ~Pending(f)
      BY <1>1 DEF Pending, Range
    <3>3. Landed(S[k], r)
      BY <1>3, <1>9, <2>1, <3>2 DEF CpDone, FilesDone
    <3> QED
      BY <1>7, <3>1, <3>3
  <2>2. CASE k = j
    <3>1. f \in DOMAIN tree /\ tree[f] = start[f] /\ IsPrefix(from, f)
      BY <1>2, <1>3, <1>9, <2>2
    <3>2. f = from
      <4> HIDE DEF f, from
      <4> QED
        BY <1>1, <1>2, <1>3, <3>1, OneFile
    <3>3. r = <<>>
      <4>1. from \o r = from \o <<>> /\ <<>> \in Seq(Names)
        BY <1>2, <2>2, <3>2, ConcatNames, EmptySeq
      <4> HIDE DEF from
      <4> QED
        BY <1>2, <4>1, ConcatNames
    <3>4. tree[from].kind = "file" /\ tree[from] = start[f]
      BY <1>9, <3>1, <3>2
    <3>5. Swallows(start, to) \/ (to \in DOMAIN tree' /\ tree'[to] = start[f])
      BY <1>1, <1>3, <1>4, <3>4 DEF CpDone, DevicesAlike
    <3>6. Target(S[j])' \o r = to
      BY <1>5, <1>8, <3>3
    <3> HIDE DEF to, from
    <3> QED
      BY <1>1, <2>2, <3>5, <3>6 DEF Landed, f
  <2> QED
    BY <1>2, <2>1, <2>2
<1>10. FilesDone'
  BY <1>1, <1>9 DEF FilesDone
<1>11. StackTwins'
  BY <1>1 DEF StackTwins
<1> QED
  BY <1>7, <1>10, <1>11 DEF CpDone

\* cp_recursive begins: every file below the source waits for its turn.
LEMMA EnterWaits ==
    ASSUME IInv, V!IsTree(tree'), NEW from \in Seq(Names), V!IsDir(tree', from),
           NEW to, NEW below \in Seq(Levels), Enter(from, to, below), from \in V!Paths
    PROVE  \E w \in Levels :
              /\ w.from = from /\ w.to = to /\ Range(work') = {w} \cup Range(below)
              /\ \A f \in DOMAIN tree' :
                    tree'[f].kind = "file" /\ IsPrefix(from, f) => Waits(w, f)
<1> DEFINE left == {Last(p) : p \in V!Children(tree', from)}
           w == [from |-> from, to |-> to, left |-> left]
<1>1. left \subseteq Names
  <2> SUFFICES ASSUME NEW p \in V!Children(tree', from)
               PROVE  Last(p) \in Names
    OBVIOUS
  <2>1. p \in DOMAIN tree' /\ p # <<>>
    BY DEF V!Children
  <2>2. p \in Seq(Names)
    BY <2>1, TreeFacts
  <2> QED
    BY <2>1, <2>2, LastFacts
<1>2. \A f \in DOMAIN tree' :
         tree'[f].kind = "file" /\ IsPrefix(from, f)
            => \E n \in left : IsPrefix(Append(from, n), f)
  BY EntryOnTheWay
<1>3. work' = <<w>> \o below /\ to \in V!Paths
  BY DEF Enter
<1> HIDE DEF left
<1>4. w \in Levels /\ w.from = from /\ w.to = to /\ w.left = left
  BY <1>1, <1>3 DEF Levels
<1> HIDE DEF w
<1>5. Range(work') = {w} \cup Range(below)
  BY <1>3, <1>4, OnStack
<1>6. \A f \in DOMAIN tree' : tree'[f].kind = "file" /\ IsPrefix(from, f) => Waits(w, f)
  BY <1>2, <1>4 DEF Waits
<1> QED
  BY <1>4, <1>5, <1>6

LEMMA CopyDirMoves ==
    ASSUME IInv, ProgressInv, CopyDir, code' = 0, Separate, V!IsTree(tree')
    PROVE  CpDone'
<1> DEFINE S == Sources(cmd)
           from == Src.path
           to == Target(Src)
<1> PICK j : j = At + 1
  OBVIOUS
<1>1. /\ Running /\ cmd.tool = "cp" /\ todo # <<>> /\ todo' = Tail(todo)
      /\ UNCHANGED <<cmd, into, start>> /\ work = <<>>
      /\ V!IsDir(tree, from) /\ to \in V!Paths /\ Enter(from, to, <<>>)
      /\ tree' = V!MemMkdirParents(tree, to).tree /\ code = 0
  BY DEF CopyDir, Takes, Enter
<1>2. /\ j \in DOMAIN S /\ Src = S[j] /\ from \in V!Paths /\ from \in Seq(Names)
      /\ At \in Nat /\ DOMAIN S = 1..Len(S) /\ Len(S) \in Nat
      /\ At' = j /\ At' >= 1 /\ \A k \in 1..At' : k \in 1..At \/ k = j
  BY <1>1, AtFacts, AtMoves
<1>3. /\ CpDone /\ V!IsTree(tree)
      /\ \A k \in DOMAIN S, r \in Seq(Names) :
            LET f == S[k].path \o r
            IN f \in DOMAIN start =>
                  /\ f \in DOMAIN tree /\ tree[f] = start[f] /\ f \in Seq(Names)
                  /\ IsPrefix(S[k].path, f)
  BY <1>1, CpFacts
<1>4. /\ \A q \in V!Paths : ~IsPrefix(q, to) => Alike(tree, tree', q)
      /\ \A q \in V!Paths : Swallows(tree', q) => Swallows(tree, q)
      /\ \A q \in DOMAIN tree : Kept(tree, tree', q)
  <2> HIDE DEF from, to
  <2> QED
    BY <1>1, <1>3, EnterLands, MkdirParentsFacts
<1>5. to \in Seq(Names) /\ IsPrefix(to, to) /\ to \o <<>> = to
  <2>1. to \in Seq(Names)
    BY <1>1, Same, Assumed, P!PathFacts
  <2> HIDE DEF to
  <2> QED
    BY <2>1, Same, Assumed, P!PrefixEnds, ConcatNames
<1>6. /\ SourcesAlike' /\ DevicesAlike'
      /\ \A k \in DOMAIN S, r \in Seq(Names) :
            k # j /\ Landed(S[k], r) => Landed(S[k], r)'
  <2>1. IsPrefix(Target(S[j]), to)
    BY <1>2, <1>5
  <2>2. SourcesAlike /\ DevicesAlike
    BY <1>3 DEF CpDone
  <2> HIDE DEF to, from
  <2> QED
    BY <1>1, <1>2, <1>4, <2>1, <2>2, CpFrame
<1>7. PICK w \in Levels :
         /\ w.from = from /\ w.to = to /\ Range(work') = {w} \cup Range(<<>>)
         /\ \A f \in DOMAIN tree' : tree'[f].kind = "file" /\ IsPrefix(from, f) => Waits(w, f)
  <2>1. V!IsDir(tree', from)
    BY <1>1, <1>4 DEF V!IsDir, Kept
  <2>2. <<>> \in Seq(Levels)
    BY EmptySeq
  <2>3. /\ Enter(from, to, <<>>) /\ V!IsTree(tree')
        /\ from \in V!Paths /\ from \in Seq(Names)
    BY <1>1, <1>2
  <2> DEFINE below == <<>>
  <2>4. below \in Seq(Levels) /\ Enter(from, to, below)
    BY <2>2, <2>3
  <2> HIDE DEF from, to, below
  <2>5. \E w \in Levels :
           /\ w.from = from /\ w.to = to /\ Range(work') = {w} \cup Range(below)
           /\ \A f \in DOMAIN tree' :
                 tree'[f].kind = "file" /\ IsPrefix(from, f) => Waits(w, f)
    BY <2>1, <2>3, <2>4, EnterWaits
  <2> QED
    BY <2>5 DEF below
<1>8. Range(work') = {w}
  <2>1. Range(<<>>) = {}
    BY DEF Range
  <2> QED
    BY <1>7, <2>1
<1>9. ASSUME NEW k \in 1..At', NEW r \in Seq(Names),
             S[k].path \o r \in DOMAIN start, start[S[k].path \o r].kind = "file"
      PROVE  Landed(S[k], r)' \/ (k = At' /\ Pending(S[k].path \o r)')
  <2> DEFINE f == S[k].path \o r
  <2>1. CASE k \in 1..At
    <3>1. k \in DOMAIN S /\ k # j
      BY <1>2, <2>1
    <3>2. ~Pending(f)
      BY <1>1 DEF Pending, Range
    <3>3. Landed(S[k], r)
      BY <1>3, <1>9, <2>1, <3>2 DEF CpDone, FilesDone
    <3> QED
      BY <1>6, <3>1, <3>3
  <2>2. CASE k = j
    <3>1. f \in DOMAIN tree /\ tree[f] = start[f] /\ IsPrefix(from, f)
      BY <1>2, <1>3, <1>9, <2>2
    <3>2. f \in DOMAIN tree' /\ tree'[f].kind = "file"
      BY <1>4, <1>9, <3>1 DEF Kept
    <3>3. Waits(w, f)
      BY <1>7, <3>1, <3>2
    <3>4. Pending(f)'
      BY <1>1, <1>8, <3>3 DEF Pending
    <3> QED
      BY <1>1, <1>2, <2>2, <3>4
  <2> QED
    BY <1>2, <2>1, <2>2
<1>10. FilesDone'
  BY <1>1, <1>9 DEF FilesDone
<1>11. StackTwins'
  <2>1. Twins(S[j], w)'
    <3>1. S[j].path \o <<>> = from /\ Target(S[j])' = to /\ <<>> \in Seq(Names)
      BY <1>1, <1>2, SeparateStays, ConcatNames, EmptySeq
    <3> QED
      BY <1>1, <1>5, <1>7, <3>1 DEF Twins
  <2> QED
    BY <1>1, <1>2, <1>8, <2>1 DEF StackTwins
<1> QED
  BY <1>6, <1>10, <1>11 DEF CpDone

\* An entry is taken off the innermost list: every other entry still waits.
LEMMA RestWaits ==
    ASSUME work \in Seq(Levels), work # <<>>, NEW n \in Names
    PROVE  LET h == Head(work)
               w == [h EXCEPT !.left = @ \ {n}]
           IN /\ h \in Levels /\ h \in Range(work)
              /\ w \in Levels /\ w.from = h.from /\ w.to = h.to
              /\ Rest(n) \in Seq(Levels) /\ Range(Rest(n)) = {w} \cup Range(Tail(work))
              /\ Range(work) = {h} \cup Range(Tail(work))
              /\ \A f : Waits(h, f) => Waits(w, f) \/ IsPrefix(Append(h.from, n), f)
<1> DEFINE h == Head(work)
           w == [h EXCEPT !.left = @ \ {n}]
<1>1. h \in Levels /\ Tail(work) \in Seq(Levels)
  BY EmptySeq, HeadTailProperties
<1>2. Range(work) = {h} \cup Range(Tail(work))
  BY OnStack
<1>3. Rest(n) = <<w>> \o Tail(work)
  BY DEF Rest
<1> HIDE DEF h
<1>4. w \in Levels /\ w.from = h.from /\ w.to = h.to /\ w.left = h.left \ {n}
  BY <1>1 DEF Levels
<1> HIDE DEF w
<1>5. <<w>> \o Tail(work) \in Seq(Levels)
  <2>1. <<w>> \in Seq(Levels)
    BY <1>4
  <2> QED
    BY <1>1, <2>1, ConcatProperties
<1>6. Range(<<w>> \o Tail(work)) = {w} \cup Range(Tail(work))
  BY <1>1, <1>4, OnStack
<1>7. \A f : Waits(h, f) => Waits(w, f) \/ IsPrefix(Append(h.from, n), f)
  BY <1>4 DEF Waits
<1>8. h \in Range(work)
  BY <1>2
<1> QED
  BY <1>1, <1>2, <1>3, <1>4, <1>5, <1>6, <1>7, <1>8 DEF h, w

\* An entry is as far below the source as the place it goes to below the target.
LEMMA EntryTwins ==
    ASSUME IInv, work # <<>>, StackTwins, NEW s, s = Sources(cmd)[At],
           s.path \in Seq(Names), Target(s) \in Seq(Names), NEW n \in Head(work).left
    PROVE  LET from == Append(Head(work).from, n)
               to == Append(Head(work).to, n)
           IN /\ from \in DOMAIN tree /\ from \in V!Paths /\ from \in Seq(Names)
              /\ IsPrefix(Target(s), to)
              /\ \E z \in Seq(Names) : from = s.path \o z /\ to = Target(s) \o z
              /\ \A w \in Range(Rest(n)) : Twins(s, w)
<1> DEFINE h == Head(work)
           h2 == [h EXCEPT !.left = @ \ {n}]
           from == Append(h.from, n)
           to == Append(h.to, n)
           p == s.path
           q == Target(s)
<1>1. /\ work \in Seq(Levels) /\ Stack(tree, Goals, work) /\ V!IsTree(tree)
      /\ p \in Seq(Names) /\ q \in Seq(Names) /\ \A w \in Range(work) : Twins(s, w)
  BY DEF IInv, Stack, StackTwins
<1>2. LevelOK(tree, h) /\ h \in Levels
  BY <1>1, StackTail
<1>3. n \in Names
  BY <1>2 DEF Levels
<1>4. /\ h \in Range(work) /\ h2.from = h.from /\ h2.to = h.to
      /\ Range(Rest(n)) = {h2} \cup Range(Tail(work)) /\ Range(work) = {h} \cup Range(Tail(work))
  BY <1>1, <1>3, RestWaits
<1>5. PICK x \in Seq(Names) : h.from = p \o x /\ h.to = q \o x
  BY <1>1, <1>4 DEF Twins
<1>6. \A w \in Range(Rest(n)) : Twins(s, w)
  BY <1>1, <1>4 DEF Twins
<1>7. from \in DOMAIN tree
  BY <1>2 DEF LevelOK
<1>8. from \in V!Paths /\ from \in Seq(Names)
  <2> HIDE DEF from
  <2> QED
    BY <1>1, <1>7, TreeFacts
<1>9. Append(x, n) \in Seq(Names) /\ from = p \o Append(x, n) /\ to = q \o Append(x, n)
  <2> HIDE DEF p, q, h
  <2>1. Append(x, n) \in Seq(Names)
    BY <1>3, AppendProperties
  <2>2. \A y \in Seq(Names) : Append(y \o x, n) = y \o Append(x, n)
    BY <1>3, AppendAfter
  <2> QED
    BY <1>1, <1>5, <2>1, <2>2
<1>10. IsPrefix(q, to)
  <2> HIDE DEF q, to
  <2> QED
    BY <1>1, <1>9, ConcatNames
<1> QED
  BY <1>6, <1>7, <1>8, <1>9, <1>10

LEMMA CopyEntryMoves ==
    ASSUME IInv, ProgressInv, NEW n \in Names, CopyEntry(n), code' = 0, Separate,
           V!IsTree(tree')
    PROVE  CpDone'
<1> DEFINE S == Sources(cmd)
           h == Head(work)
           h2 == [h EXCEPT !.left = @ \ {n}]
           from == Append(h.from, n)
           to == Append(h.to, n)
<1>1. /\ Running /\ work # <<>> /\ n \in h.left /\ cmd.tool = "cp" /\ code \in {0, 1}
      /\ UNCHANGED <<cmd, todo, into, start>> /\ Stack(tree, Goals, work) /\ V!IsTree(tree)
  BY DEF CopyEntry, IInv
<1>2. code = 0
  <2>1. CASE V!IsDir(tree, from)
    BY <2>1 DEF CopyEntry
  <2>2. CASE ~V!IsDir(tree, from)
    BY <1>1, <2>2 DEF CopyEntry, Do
  <2> QED
    BY <2>1, <2>2
<1> PICK j : j = At
  OBVIOUS
<1>3. /\ CpDone /\ work \in Seq(Levels) /\ j \in DOMAIN S
      /\ S[j].path \in Seq(Names) /\ Target(S[j]) \in Seq(Names)
      /\ \A k \in DOMAIN S, r \in Seq(Names) :
            LET f == S[k].path \o r
            IN f \in DOMAIN start =>
                  /\ f \in DOMAIN tree /\ tree[f] = start[f] /\ f \in Seq(Names)
                  /\ IsPrefix(S[k].path, f)
  <2>1. /\ CpDone /\ work \in Seq(Levels) /\ j \in DOMAIN S
        /\ \A k \in DOMAIN S : S[k].path \in Seq(Names) /\ Target(S[k]) \in Seq(Names)
    BY <1>1, <1>2, CpFacts
  <2>2. \A k \in DOMAIN S, r \in Seq(Names) :
            LET f == S[k].path \o r
            IN f \in DOMAIN start =>
                  /\ f \in DOMAIN tree /\ tree[f] = start[f] /\ f \in Seq(Names)
                  /\ IsPrefix(S[k].path, f)
    BY <1>1, <1>2, CpFacts
  <2> HIDE DEF S
  <2> QED
    BY <2>1, <2>2
<1>4. /\ At \in Nat /\ DOMAIN S = 1..Len(S) /\ Len(S) \in Nat /\ At' = j /\ At >= 1
      /\ \A k \in 1..At' : k \in DOMAIN S
  <2>1. At \in Nat /\ DOMAIN S = 1..Len(S) /\ Len(S) \in Nat /\ At <= Len(S)
    BY <1>1, AtFacts
  <2>2. At' = At
    BY <1>1 DEF At
  <2> HIDE DEF S
  <2> QED
    BY <1>3, <2>1, <2>2
<1>5. /\ h \in Levels /\ h \in Range(work)
      /\ h2 \in Levels /\ h2.from = h.from /\ h2.to = h.to
      /\ Rest(n) \in Seq(Levels) /\ Range(Rest(n)) = {h2} \cup Range(Tail(work))
      /\ Range(work) = {h} \cup Range(Tail(work))
      /\ \A f : Waits(h, f) => Waits(h2, f) \/ IsPrefix(from, f)
  BY <1>1, <1>3, RestWaits
<1>6. /\ from \in DOMAIN tree /\ from \in V!Paths /\ from \in Seq(Names)
      /\ to \in V!Paths /\ IsPrefix(Target(S[j]), to)
      /\ \E y \in Seq(Names) : from = S[j].path \o y /\ to = Target(S[j]) \o y
      /\ \A w \in Range(Rest(n)) : Twins(S[j], w)
  <2>1. to \in V!Paths
    BY DEF CopyEntry, Enter
  <2> DEFINE s == S[j]
  <2>2. s = Sources(cmd)[At] /\ s.path \in Seq(Names) /\ Target(s) \in Seq(Names)
    BY <1>3
  <2>3. StackTwins
    BY <1>3 DEF CpDone
  <2> HIDE DEF s
  <2>4. /\ from \in DOMAIN tree /\ from \in V!Paths /\ from \in Seq(Names)
        /\ IsPrefix(Target(s), to)
        /\ \E y \in Seq(Names) : from = s.path \o y /\ to = Target(s) \o y
        /\ \A w \in Range(Rest(n)) : Twins(s, w)
    BY <1>1, <2>2, <2>3, EntryTwins
  <2> QED
    BY <2>1, <2>4 DEF s
<1>7. PICK z \in Seq(Names) : from = S[j].path \o z /\ to = Target(S[j]) \o z
  BY <1>6
<1> HIDE DEF h, h2, from, to
\* The stack has its twins, with or without the directory entered.
<1>8. \A w \in Range(Rest(n)) : Twins(S[j], w)'
  <2>1. \A w \in Range(Rest(n)) : Twins(S[j], w)
    BY <1>6
  <2>2. Target(S[j])' = Target(S[j])
    BY <1>1, SeparateStays
  <2> QED
    BY <1>1, <2>1, <2>2 DEF Twins
\* What waited still waits, unless it is below the entry.
<1>9. ASSUME NEW f, Pending(f)
       PROVE  (\E w \in Range(Rest(n)) : Waits(w, f)) \/ IsPrefix(from, f)
  BY <1>5, <1>9 DEF Pending
\* What has landed, from the entry itself on, is a matter of the two kinds of entry.
<1>10. ASSUME \A q \in V!Paths : ~IsPrefix(q, to) => Alike(tree, tree', q),
              \A q \in V!Paths : Swallows(tree', q) => Swallows(tree, q),
              \A w \in Range(work') : Twins(S[j], w)',
              \A r \in Seq(Names) :
                 LET f == S[j].path \o r
                 IN f \in DOMAIN start /\ start[f].kind = "file"
                    /\ (Landed(S[j], r) \/ Pending(f)) => Landed(S[j], r)' \/ Pending(f)'
       PROVE  CpDone'
  <2>1. /\ SourcesAlike' /\ DevicesAlike'
        /\ \A k \in DOMAIN S, r \in Seq(Names) :
              k # j /\ Landed(S[k], r) => Landed(S[k], r)'
    <3>1. SourcesAlike /\ DevicesAlike
      BY <1>3 DEF CpDone
    <3> QED
      BY <1>1, <1>3, <1>6, <1>10, <3>1, CpFrame
  <2>2. ASSUME NEW k \in 1..At', NEW r \in Seq(Names),
               S[k].path \o r \in DOMAIN start, start[S[k].path \o r].kind = "file"
        PROVE  Landed(S[k], r)' \/ (k = At' /\ Pending(S[k].path \o r)')
    <3>1. Landed(S[k], r) \/ (k = At /\ Pending(S[k].path \o r))
      BY <1>3, <1>4, <2>2 DEF CpDone, FilesDone
    <3>2. CASE k = j
      BY <1>4, <1>10, <2>2, <3>1, <3>2
    <3>3. CASE k # j
      BY <1>4, <2>1, <3>1, <3>3
    <3> QED
      BY <3>2, <3>3
  <2>3. FilesDone'
    BY <1>1, <2>2 DEF FilesDone
  <2>4. StackTwins'
    BY <1>1, <1>4, <1>10 DEF StackTwins
  <2> QED
    BY <2>1, <2>3, <2>4 DEF CpDone
<1>11. CASE V!IsDir(tree, from)
  <2>1. Enter(from, to, Rest(n))
    BY <1>11 DEF CopyEntry, from, to, h
  <2>2. tree' = V!MemMkdirParents(tree, to).tree
    BY <2>1 DEF Enter
  <2>3. /\ \A q \in V!Paths : ~IsPrefix(q, to) => Alike(tree, tree', q)
        /\ \A q \in V!Paths : Swallows(tree', q) => Swallows(tree, q)
        /\ \A q \in DOMAIN tree : Kept(tree, tree', q)
    BY <1>1, <1>6, <2>2, EnterLands, MkdirParentsFacts
  <2>4. PICK w \in Levels :
           /\ w.from = from /\ w.to = to /\ Range(work') = {w} \cup Range(Rest(n))
           /\ \A f \in DOMAIN tree' : tree'[f].kind = "file" /\ IsPrefix(from, f) => Waits(w, f)
    <3>1. V!IsDir(tree', from)
      BY <1>11, <2>3 DEF V!IsDir, Kept
    <3> DEFINE below == Rest(n)
    <3>2. below \in Seq(Levels) /\ Enter(from, to, below)
      BY <1>5, <2>1
    <3> HIDE DEF below
    <3>3. from \in V!Paths /\ from \in Seq(Names) /\ V!IsTree(tree')
      BY <1>6
    <3>4. \E w \in Levels :
             /\ w.from = from /\ w.to = to /\ Range(work') = {w} \cup Range(below)
             /\ \A f \in DOMAIN tree' :
                   tree'[f].kind = "file" /\ IsPrefix(from, f) => Waits(w, f)
      BY <3>1, <3>2, <3>3, EnterWaits
    <3> QED
      BY <3>4 DEF below
  <2>5. Twins(S[j], w)'
    <3>1. Target(S[j])' = Target(S[j])
      BY <1>1, SeparateStays
    <3> QED
      BY <1>1, <1>7, <2>4, <3>1 DEF Twins
  <2>6. \A v \in Range(work') : Twins(S[j], v)'
    BY <1>8, <2>4, <2>5
  <2>7. ASSUME NEW r \in Seq(Names), S[j].path \o r \in DOMAIN start,
               start[S[j].path \o r].kind = "file",
               Landed(S[j], r) \/ Pending(S[j].path \o r)
        PROVE  Landed(S[j], r)' \/ Pending(S[j].path \o r)'
    <3> DEFINE f == S[j].path \o r
    <3>1. CASE Landed(S[j], r)
      <4>1. Target(S[j])' = Target(S[j])
        BY <1>1, SeparateStays
      <4> QED
        BY <1>1, <2>3, <3>1, <4>1 DEF Landed, Kept
    <3>2. CASE Pending(f)
      <4>1. f \in DOMAIN tree' /\ tree'[f].kind = "file"
        BY <1>3, <2>3, <2>7 DEF Kept
      <4>2. (\E v \in Range(Rest(n)) : Waits(v, f)) \/ IsPrefix(from, f)
        BY <1>9, <3>2
      <4>3. \E v \in Range(work') : Waits(v, f)
        BY <2>4, <4>1, <4>2
      <4> QED
        BY <1>1, <4>3 DEF Pending
    <3> QED
      BY <2>7, <3>1, <3>2
  <2> QED
    BY <1>10, <2>3, <2>6, <2>7
<1>12. CASE ~V!IsDir(tree, from)
  <2>1. /\ tree' = CopyOf(from, to).tree /\ CopyOf(from, to).res = "ok" /\ work' = Rest(n)
    <3>1. /\ Do(CopyOf(from, to))
          /\ work' = IF CopyOf(from, to).res = "ok" THEN Rest(n) ELSE <<>>
      BY <1>12 DEF CopyEntry, from, to, h
    <3>2. CopyOf(from, to).res = "ok" /\ tree' = CopyOf(from, to).tree
      BY <3>1 DEF Do
    <3> QED
      BY <3>1, <3>2
  <2>2. /\ \A q \in V!Paths : q # to => Alike(tree, tree', q)
        /\ \A q \in V!Paths : Swallows(tree', q) => Swallows(tree, q)
        /\ tree[from].kind = "file" =>
              Swallows(tree, to) \/ (to \in DOMAIN tree' /\ tree'[to] = tree[from])
    BY <1>1, <1>6, <2>1, CopyLands
  <2>3. \A q \in V!Paths : ~IsPrefix(q, to) => Alike(tree, tree', q)
    <3>1. IsPrefix(to, to)
      BY <1>6, Same, Assumed, P!PathFacts, P!PrefixEnds
    <3> QED
      BY <2>2, <3>1
  <2>4. ASSUME NEW r \in Seq(Names), S[j].path \o r \in DOMAIN start,
               start[S[j].path \o r].kind = "file",
               Landed(S[j], r) \/ Pending(S[j].path \o r)
        PROVE  Landed(S[j], r)' \/ Pending(S[j].path \o r)'
    <3> DEFINE f == S[j].path \o r
               at == Target(S[j]) \o r
    <3>1. Target(S[j])' = Target(S[j])
      BY <1>1, SeparateStays
    <3>2. f \in DOMAIN tree /\ tree[f] = start[f]
      BY <1>3, <2>4
    <3>3. CASE r = z
      <4>1. f = from /\ at = to
        BY <1>7, <3>3
      <4>2. Swallows(start, at) \/ (at \in DOMAIN tree' /\ tree'[at] = start[f])
        <5>1. tree[from].kind = "file" /\ tree[from] = start[f]
          BY <2>4, <3>2, <4>1
        <5> HIDE DEF f, at
        <5> QED
          BY <1>3, <1>6, <2>2, <4>1, <5>1 DEF CpDone, DevicesAlike
      <4> QED
        BY <1>1, <3>1, <4>2 DEF Landed
    <3>4. CASE r # z
      <4>1. f # from /\ at # to
        BY <1>3, <1>7, <3>4, ConcatNames
      <4>2. CASE Landed(S[j], r)
        <5>1. CASE Swallows(start, at)
          BY <1>1, <3>1, <5>1 DEF Landed
        <5>2. CASE at \in DOMAIN tree /\ tree[at] = start[f]
          <6>1. at \in V!Paths
            BY <1>1, <5>2, TreeFacts
          <6>2. at \in DOMAIN tree' /\ tree'[at] = start[f]
            <7> HIDE DEF at, f
            <7> QED
              BY <2>2, <4>1, <5>2, <6>1 DEF Alike
          <6> QED
            BY <1>1, <3>1, <6>2 DEF Landed
        <5> QED
          BY <4>2, <5>1, <5>2 DEF Landed
      <4>3. CASE Pending(f)
        <5>1. ~IsPrefix(from, f)
          <6> HIDE DEF f
          <6> QED
            BY <1>1, <1>6, <1>12, <3>2, <4>1, OneFile
        <5>2. \E v \in Range(Rest(n)) : Waits(v, f)
          BY <1>9, <4>3, <5>1
        <5> QED
          BY <1>1, <2>1, <5>2 DEF Pending
      <4> QED
        BY <2>4, <4>2, <4>3
    <3> QED
      BY <3>3, <3>4
  <2> QED
    BY <1>8, <1>10, <2>1, <2>2, <2>3, <2>4
<1> QED
  BY <1>11, <1>12

LEMMA LeaveDirMoves ==
    ASSUME IInv, ProgressInv, LeaveDir, code' = 0, Separate
    PROVE  CpDone'
<1> DEFINE S == Sources(cmd)
<1>1. /\ Running /\ work # <<>> /\ Head(work).left = {} /\ work' = Tail(work)
      /\ UNCHANGED <<tree, cmd, todo, into, start>> /\ code = 0 /\ cmd.tool = "cp"
  BY DEF LeaveDir, IInv
<1>2. CpDone /\ work \in Seq(Levels)
  BY <1>1, CpFacts
<1>3. Range(work) = {Head(work)} \cup Range(work')
  BY <1>1, <1>2, OnStack
<1>4. \A f : Pending(f) => Pending(f)'
  BY <1>1, <1>3 DEF Pending, Waits
<1>5. At' = At /\ \A s : Target(s)' = Target(s)
  BY <1>1, SeparateStays DEF At
<1>6. \A s, r : Landed(s, r) => Landed(s, r)'
  BY <1>1, <1>5 DEF Landed
<1>7. FilesDone'
  BY <1>1, <1>2, <1>4, <1>5, <1>6 DEF CpDone, FilesDone
<1>8. StackTwins'
  BY <1>1, <1>2, <1>3, <1>5 DEF CpDone, StackTwins, Twins
<1>9. SourcesAlike' /\ DevicesAlike'
  BY <1>1, <1>2 DEF CpDone, SourcesAlike, DevicesAlike
<1> QED
  BY <1>7, <1>8, <1>9 DEF CpDone

LEMMA BeginMoves ==
    ASSUME IInv, NEW c \in Commands, Begin(c), IInv'
    PROVE  ProgressInv'
<1>1. /\ cmd' = c /\ todo' = Sources(c) /\ tree' = tree /\ start' = tree
      /\ work' = <<>> /\ V!IsTree(tree)
  BY DEF Begin, IInv
<1>2. Running' => At' = 0 /\ DOMAIN Sources(cmd)' = 1..Len(Sources(cmd)')
  <2>1. ASSUME Running' PROVE Sources(cmd') \in Seq(Operands)
    BY <1>1, <2>1 DEF IInv
  <2>2. ASSUME NEW s \in Seq(Operands) PROVE Len(s) - Len(s) = 0 /\ DOMAIN s = 1..Len(s)
    BY LenProperties
  <2> QED
    BY <1>1, <2>1, <2>2 DEF At
<1>3. Running' => 1..At' = {} /\ \A k \in DOMAIN Sources(cmd)' : k > At' /\ ~(k <= At')
  BY <1>2
<1>4. Running' => MkdirDone' /\ RmDone'
  BY <1>3 DEF MkdirDone, RmDone
<1>5. Running' => TouchDone'
  BY <1>1, <1>3 DEF TouchDone, Kept
<1>6. Running' => MvDone'
  BY <1>1, <1>3 DEF MvDone
<1>7. Running' => CpDone'
  BY <1>1, <1>3 DEF CpDone, SourcesAlike, DevicesAlike, StackTwins, FilesDone, Alike, Swallows
<1> QED
  BY <1>1, <1>4, <1>5, <1>6, <1>7 DEF ProgressInv, Progress

\* Every step of the tool that runs gets on with what it was asked.
LEMMA StepMoves ==
    ASSUME IInv, ProgressInv, Step, IInv'
    PROVE  ProgressInv'
<1>1. V!IsTree(tree') /\ V!IsTree(start)
  BY DEF IInv, ProgressInv
<1>2. CASE Finish
  <2>1. ~Running' /\ start' = InitTree
    BY <1>2 DEF Finish, Running
  <2> QED
    BY <2>1, TreeAssumption DEF ProgressInv
<1>3. ASSUME ~Finish, code' = 0, Separate' => Separate,
             Mkdir => MkdirDone', Touch => TouchDone', Rm => RmDone',
             Separate /\ Mv => MvDone',
             Separate /\ (CopyFile \/ SkipDir \/ CopyDir \/ (\E n \in Names : CopyEntry(n)) \/ LeaveDir)
                => CpDone'
      PROVE  Progress'
  <2>1. CASE Mkdir
    <3>1. cmd'.tool = "mkdir"
      BY <2>1 DEF Mkdir, Takes
    <3> QED
      BY <1>3, <2>1, <3>1 DEF Progress
  <2>2. CASE Touch
    <3>1. cmd'.tool = "touch"
      BY <2>2 DEF Touch, Takes
    <3> QED
      BY <1>3, <2>2, <3>1 DEF Progress
  <2>3. CASE Rm
    <3>1. cmd'.tool = "rm"
      BY <2>3 DEF Rm, Takes
    <3> QED
      BY <1>3, <2>3, <3>1 DEF Progress
  <2>4. CASE Mv
    <3>1. cmd'.tool = "mv"
      BY <2>4 DEF Mv, Takes
    <3> QED
      BY <1>3, <2>4, <3>1 DEF Progress
  <2>5. CASE CopyFile \/ SkipDir \/ CopyDir \/ (\E n \in Names : CopyEntry(n)) \/ LeaveDir
    <3>1. cmd'.tool = "cp"
      BY <2>5 DEF CopyFile, SkipDir, CopyDir, Takes, CopyEntry, LeaveDir, IInv
    <3> QED
      BY <1>3, <2>5, <3>1 DEF Progress
  <2> QED
    BY <1>3, <2>1, <2>2, <2>3, <2>4, <2>5 DEF Step
<1>4. CASE ~Finish
  <2>1. UNCHANGED <<cmd, into, start>> /\ (Separate' <=> Separate)
    <3>1. UNCHANGED <<cmd, into, start>>
      BY <1>4 DEF Step, Mkdir, Rm, Touch, Mv, CopyFile, SkipDir, CopyDir, Takes, CopyEntry, LeaveDir
    <3> QED
      BY <3>1, SeparateStays
  <2>2. ASSUME code' = 0 PROVE Progress'
    <3>1. Separate /\ (CopyFile \/ SkipDir \/ CopyDir \/ (\E n \in Names : CopyEntry(n)) \/ LeaveDir)
            => CpDone'
      <4>1. ~SkipDir
        BY <2>2 DEF SkipDir
      <4> QED
        BY <1>1, <2>2, <4>1, CopyFileMoves, CopyDirMoves, CopyEntryMoves, LeaveDirMoves
    <3>2. (Mkdir => MkdirDone') /\ (Touch => TouchDone') /\ (Rm => RmDone')
      BY <2>2, MkdirMoves, TouchMoves, RmMoves
    <3>3. Separate /\ Mv => MvDone'
      BY <2>2, MvMoves
    <3>4. Separate' => Separate
      BY <2>1
    <3> QED
      BY <1>3, <1>4, <2>2, <3>1, <3>2, <3>3, <3>4
  <2>3. V!IsTree(start')
    BY <1>1, <2>1
  <2> QED
    BY <2>2, <2>3 DEF ProgressInv
<1> QED
  BY <1>2, <1>4

\* What a copy has landed reads as it did.
LEMMA LandedReads ==
    ASSUME ProgressInv, NEW s, s.path \in Seq(Names), NEW r \in DOMAIN V!Subtree(start, s.path),
           start[s.path \o r].kind = "file"
    PROVE  /\ r \in Seq(Names) /\ s.path \o r \in DOMAIN start
           /\ Landed(s, r) =>
                 LET to == Target(s) \o r
                 IN \/ to \in DOMAIN start /\ start[to].kind \in {"null", "device"}
                    \/ V!MemRead(tree, to) = V!MemRead(start, s.path \o r)
<1> DEFINE p == s.path
           f == p \o r
           to == Target(s) \o r
<1>1. PICK q \in DOMAIN start : IsPrefix(p, q) /\ r = SubSeq(q, Len(p) + 1, Len(q))
  BY Same DEF V!Subtree
<1>2. r \in Seq(Names) /\ f = q
  <2>1. q \in Seq(Names)
    BY TreeFacts DEF ProgressInv
  <2>2. P!IsPrefix(p, q)
    BY <1>1, Same
  <2> HIDE DEF p
  <2>3. SubSeq(q, Len(p) + 1, Len(q)) \in Seq(Names) /\ p \o SubSeq(q, Len(p) + 1, Len(q)) = q
    <3>1. p \in Seq(Names)
      BY DEF p
    <3> QED
      BY <2>1, <2>2, <3>1, Assumed, P!SuffixFacts
  <2> QED
    BY <1>1, <2>3
<1>3. f \in DOMAIN start /\ start[f].kind = "file"
  BY <1>2
<1> HIDE DEF f, to
<1>4. V!MemRead(start, f) = [res |-> "ok", data |-> start[f].data]
  BY <1>3 DEF V!MemRead
<1>5. ASSUME to \in DOMAIN tree, tree[to] = start[f]
      PROVE  V!MemRead(tree, to) = [res |-> "ok", data |-> start[f].data]
  BY <1>3, <1>5 DEF V!MemRead
<1>6. Landed(s, r) => Swallows(start, to) \/ (to \in DOMAIN tree /\ tree[to] = start[f])
  BY DEF Landed, to, f
<1>7. Landed(s, r) => \/ to \in DOMAIN start /\ start[to].kind \in {"null", "device"}
                      \/ V!MemRead(tree, to) = V!MemRead(start, f)
  BY <1>4, <1>5, <1>6 DEF Swallows
<1> QED
  BY <1>2, <1>3, <1>7 DEF f, to

\* What has been done for every operand is what the command was asked.
LEMMA ProgressIsSuccess ==
    ASSUME IInv, ProgressInv, Running, todo = <<>>, work = <<>>, code = 0,
           NEW k \in DOMAIN Sources(cmd)
    PROVE  LET s == Sources(cmd)[k]
           IN /\ cmd.tool \in {"mkdir", "rm", "touch", "mv", "cp"}
              /\ cmd.tool = "mkdir" => V!IsDir(tree, s.path)
              /\ cmd.tool = "touch" =>
                    /\ s.path \in DOMAIN tree
                    /\ s.path \in DOMAIN start => tree[s.path] = start[s.path]
              /\ cmd.tool = "rm" => cmd.force \/ s.path \notin DOMAIN tree
              /\ cmd.tool = "mv" /\ Separate =>
                    /\ s.path \notin DOMAIN tree
                    /\ V!Subtree(tree, Target(s)) = V!Subtree(start, s.path)
              /\ cmd.tool = "cp" /\ Separate => Copied(s)
<1>1. /\ k \in 1..At /\ k <= At /\ Progress /\ Sources(cmd)[k].path \in Seq(Names)
  <2>1. /\ At = Len(Sources(cmd)) /\ DOMAIN Sources(cmd) = 1..Len(Sources(cmd))
        /\ Len(Sources(cmd)) \in Nat
    BY AtFacts
  <2>2. k \in 1..At /\ k <= At
    BY <2>1
  <2>3. Sources(cmd)[k].path \in Seq(Names)
    BY AtFacts
  <2> QED
    BY <2>2, <2>3 DEF ProgressInv
<1>2. cmd.tool \in {"mkdir", "rm", "touch", "mv", "cp"}
  BY RunningFacts, CommandAssumption
<1>3. cmd.tool = "mkdir" => V!IsDir(tree, Sources(cmd)[k].path)
  BY <1>1 DEF Progress, MkdirDone
<1>4. cmd.tool = "touch" =>
         /\ Sources(cmd)[k].path \in DOMAIN tree
         /\ Sources(cmd)[k].path \in DOMAIN start
               => tree[Sources(cmd)[k].path] = start[Sources(cmd)[k].path]
  BY <1>1 DEF Progress, TouchDone, Kept
<1>5. cmd.tool = "rm" => cmd.force \/ Sources(cmd)[k].path \notin DOMAIN tree
  BY <1>1 DEF Progress, RmDone
<1>6. cmd.tool = "mv" /\ Separate =>
         /\ Sources(cmd)[k].path \notin DOMAIN tree
         /\ V!Subtree(tree, Target(Sources(cmd)[k])) = V!Subtree(start, Sources(cmd)[k].path)
  BY <1>1 DEF Progress, MvDone
<1>7. ASSUME cmd.tool = "cp", Separate
      PROVE  Copied(Sources(cmd)[k])
  <2> DEFINE s == Sources(cmd)[k]
  <2> SUFFICES ASSUME NEW r \in DOMAIN V!Subtree(start, s.path),
                      start[s.path \o r].kind = "file"
               PROVE  LET to == Target(s) \o r
                      IN \/ to \in DOMAIN start /\ start[to].kind \in {"null", "device"}
                         \/ V!MemRead(tree, to) = V!MemRead(start, s.path \o r)
    BY DEF Copied
  <2>1. ~Pending(s.path \o r)
    BY DEF Pending, Range
  <2>2. r \in Seq(Names) /\ s.path \o r \in DOMAIN start
    BY <1>1, LandedReads
  <2>3. Landed(s, r)
    BY <1>1, <1>7, <2>1, <2>2 DEF Progress, CpDone, FilesDone
  <2> HIDE DEF s
  <2> QED
    <3>1. s.path \in Seq(Names)
      BY <1>1 DEF s
    <3> QED
      BY <2>3, <3>1, LandedReads
<1> QED
  BY <1>2, <1>3, <1>4, <1>5, <1>6, <1>7

\* A command that exits with 0 has done what it was asked for every operand, in
\* however many steps: an error in the middle of one is never lost, and what one
\* operand did is not undone by the next (builtins.rs:418-628).
THEOREM SuccessKept == Spec => []SuccessIsTrue
<1>1. Init => IInv /\ ProgressInv
  <2> SUFFICES ASSUME Init PROVE IInv /\ ProgressInv
    OBVIOUS
  <2>1. ~Running /\ start = InitTree
    BY DEF Init, Running
  <2> QED
    BY <2>1, InitIInv, TreeAssumption DEF ProgressInv
<1>2. IInv /\ ProgressInv /\ [Next]_vars => IInv' /\ ProgressInv'
  <2> SUFFICES ASSUME IInv, ProgressInv, [Next]_vars PROVE IInv' /\ ProgressInv'
    OBVIOUS
  <2>1. IInv'
    BY InvKept
  <2>2. CASE UNCHANGED vars
    <3>1. /\ UNCHANGED <<cmd, into, start, code, tree, todo, work>>
          /\ At' = At /\ Running' = Running
      BY <2>2 DEF vars, At, Running
    <3>2. (Separate' <=> Separate) /\ \A s : Target(s)' = Target(s)
      BY <3>1, SeparateStays
    <3>3. \A f : Pending(f)' <=> Pending(f)
      BY <3>1 DEF Pending
    <3>4. \A s, r : Landed(s, r)' <=> Landed(s, r)
      BY <3>1, <3>2 DEF Landed
    <3>5. /\ MkdirDone => MkdirDone'
          /\ TouchDone => TouchDone'
          /\ RmDone => RmDone'
      BY <3>1 DEF MkdirDone, TouchDone, RmDone
    <3>6. MvDone => MvDone'
      BY <3>1, <3>2 DEF MvDone
    <3>7. CpDone => CpDone'
      <4>1. SourcesAlike /\ DevicesAlike => SourcesAlike' /\ DevicesAlike'
        BY <3>1 DEF SourcesAlike, DevicesAlike
      <4>2. StackTwins => StackTwins'
        BY <3>1, <3>2 DEF StackTwins, Twins
      <4>3. FilesDone => FilesDone'
        BY <3>1, <3>3, <3>4 DEF FilesDone
      <4> QED
        BY <4>1, <4>2, <4>3 DEF CpDone
    <3> QED
      BY <2>1, <3>1, <3>2, <3>5, <3>6, <3>7 DEF ProgressInv, Progress
  <2>3. CASE \E c \in Commands : Begin(c)
    BY <2>1, <2>3, BeginMoves
  <2>4. CASE Step
    BY <2>1, <2>4, StepMoves
  <2> QED
    BY <2>1, <2>2, <2>3, <2>4 DEF Next
<1>3. IInv /\ ProgressInv => SuccessIsTrue
  <2> SUFFICES ASSUME IInv, ProgressInv, Running, todo = <<>>, work = <<>>, code = 0,
                      NEW k \in DOMAIN Sources(cmd)
               PROVE  LET s == Sources(cmd)[k]
                      IN CASE cmd.tool = "mkdir" -> V!IsDir(tree, s.path)
                           [] cmd.tool = "touch" ->
                                 /\ s.path \in DOMAIN tree
                                 /\ s.path \in DOMAIN start => tree[s.path] = start[s.path]
                           [] cmd.tool = "rm" -> cmd.force \/ s.path \notin DOMAIN tree
                           [] cmd.tool = "mv" -> Separate /\ ~MovesOnto =>
                                 /\ s.path \notin DOMAIN tree
                                 /\ V!Subtree(tree, Target(s)) = V!Subtree(start, s.path)
                           [] cmd.tool = "cp" -> Separate => Copied(s)
    BY DEF SuccessIsTrue
  <2> QED
    BY ProgressIsSuccess
<1> QED
  BY <1>1, <1>2, <1>3, PTL DEF Spec
-----------------------------------------------------------------------------
(***************************************************************************)
(* What cp puts into the tree is in its place, whether it succeeds or not. *)
(***************************************************************************)
PlaceInv ==
    /\ V!IsTree(start)
    /\ Running /\ cmd.tool = "cp" /\ Separate =>
          SourcesAlike /\ DevicesAlike /\ StackTwins /\ \A p \in DOMAIN tree : InPlace(p)

\* A copy leaves the tree, or what it wrote reads as what it read.
LEMMA CopyReads ==
    ASSUME V!IsTree(tree), NEW from, NEW to \in V!Paths
    PROVE  LET u == CopyOf(from, to).tree
           IN \/ u = tree
              \/ /\ from \in DOMAIN tree /\ to \in DOMAIN u /\ u[to].kind = "file"
                 /\ V!MemRead(u, to) = V!MemRead(tree, from)
                 /\ \A q \in DOMAIN u : q # to => q \in DOMAIN tree /\ u[q] = tree[q]
                 /\ \A q \in DOMAIN tree : q # to => q \in DOMAIN u
<1> DEFINE read == V!MemRead(tree, from)
           o == P!MemWrite(tree, to, read.data)
           n == P!File(read.data)
<1>1. CASE read.res # "ok"
  BY <1>1, CopyFacts
<1>2. CASE read.res = "ok"
  <2>1. V!MemWrite(tree, to, read.data) = o
    BY SameOps
  <2>2. CopyOf(from, to).tree = o.tree
    BY <1>2, <2>1 DEF CopyOf
  <2>3. from \in DOMAIN tree
    BY <1>2, CopyFacts
  <2>4. read = [res |-> "ok", data |-> read.data]
    <3>1. tree[from].kind \in {"file", "null", "dir", "device"}
      <4>1. tree[from] \in P!Nodes
        BY <2>3, TreeFacts DEF P!HasNodes
      <4> QED
        BY <4>1, Assumed, P!NodeFacts DEF P!Kinds
    <3> QED
      BY <1>2, <2>3, <3>1 DEF V!MemRead
  <2>5. P!Shape(tree) /\ to \in P!Paths
    BY TreeFacts, Same
  <2>6. o.tree = tree \/ (/\ to \notin DOMAIN tree \/ tree[to].kind # "dir"
                         /\ o.tree = P!Grafted(tree, to, P!Leaf(n)))
    BY DEF P!MemWrite, P!MemSetNode, P!Outcome
  <2>7. CASE o.tree = tree
    BY <2>2, <2>7
  <2>8. CASE /\ to \notin DOMAIN tree \/ tree[to].kind # "dir"
             /\ o.tree = P!Grafted(tree, to, P!Leaf(n))
    <3>1. n.kind = "file" /\ n.data = read.data
      BY DEF P!File, P!Node
    <3> HIDE DEF n
    <3>2. o.tree = P!With(tree, to, n)
      BY <2>5, <2>8, Assumed, P!LeafGrafted
    <3>3. /\ DOMAIN o.tree = DOMAIN tree \cup {to} /\ o.tree[to] = n
          /\ \A q \in DOMAIN tree : q # to => o.tree[q] = tree[q]
      BY <3>2 DEF P!With
    <3>4. V!MemRead(o.tree, to) = [res |-> "ok", data |-> read.data]
      BY <3>1, <3>3 DEF V!MemRead
    <3> QED
      BY <2>2, <2>3, <2>4, <3>1, <3>3, <3>4
  <2> QED
    BY <2>6, <2>7, <2>8
<1> QED
  BY <1>1, <1>2

\* What stays as it is stays in place.
LEMMA StaysInPlace ==
    ASSUME UNCHANGED <<cmd, into, start>>, V!IsTree(tree), NEW p \in DOMAIN tree, InPlace(p),
           p \in DOMAIN tree', tree'[p] = tree[p]
    PROVE  InPlace(p)'
<1>1. \A s : Target(s)' = Target(s)
  BY SeparateStays
<1>2. V!MemRead(tree', p) = V!MemRead(tree, p)
  <2>1. tree[p] \in P!Nodes
    BY TreeFacts DEF P!HasNodes
  <2>2. tree[p].kind \in {"dir", "file", "null", "device"}
    BY <2>1, Assumed, P!NodeFacts DEF P!Kinds
  <2> QED
    BY <2>2 DEF V!MemRead
<1> QED
  BY <1>1, <1>2 DEF InPlace, Below

\* A place as far below a target as a place of the tree is below its source.
LEMMA PlaceBelow ==
    ASSUME V!IsTree(start), NEW s, s.path \in Seq(Names), NEW z \in Seq(Names),
           s.path \o z \in DOMAIN start,
           NEW y \in Seq(Names), IsPrefix(y, z)
    PROVE  /\ y \in DOMAIN V!Subtree(start, s.path)
           /\ s.path \o y \in DOMAIN start
           /\ y # z \/ V!IsDir(start, s.path \o z) => V!IsDir(start, s.path \o y)
<1> DEFINE p == s.path
<1>1. P!Shape(start) /\ p \o z \in Seq(Names) /\ p \o y \in Seq(Names)
  BY TreeFacts, Assumed, P!ConcatFacts
<1>2. /\ Len(p) \in Nat /\ Len(y) \in Nat /\ Len(z) \in Nat /\ Len(y) <= Len(z)
      /\ Len(p \o y) = Len(p) + Len(y) /\ Len(p \o z) = Len(p) + Len(z)
      /\ \A i \in 1..Len(y) : y[i] = z[i]
  <2>1. P!IsPrefix(y, z)
    BY Same
  <2> QED
    BY <2>1, LenProperties, Assumed, P!PrefixFacts, P!ConcatFacts
<1>3. P!IsPrefix(p \o y, p \o z)
  <2>1. \A i \in 1..Len(p \o y) : (p \o y)[i] = (p \o z)[i]
    <3> TAKE i \in 1..Len(p \o y)
    <3>1. /\ (p \o y)[i] = IF i <= Len(p) THEN p[i] ELSE y[i - Len(p)]
          /\ (p \o z)[i] = IF i <= Len(p) THEN p[i] ELSE z[i - Len(p)]
      BY <1>2, ConcatProperties
    <3>2. i > Len(p) => i - Len(p) \in 1..Len(y)
      BY <1>2
    <3> HIDE DEF p
    <3> QED
      BY <1>2, <3>1, <3>2
  <2>2. Len(p \o y) <= Len(p \o z)
    BY <1>2
  <2> DEFINE c == p \o y
             d == p \o z
  <2>3. /\ c \in Seq(Names) /\ d \in Seq(Names) /\ Len(c) <= Len(d)
        /\ \A i \in 1..Len(c) : c[i] = d[i]
    BY <1>1, <2>1, <2>2
  <2> HIDE DEF c, d
  <2>4. P!IsPrefix(c, d)
    BY <2>3, Assumed, P!PrefixFacts
  <2> QED
    BY <2>4 DEF c, d
<1>4. /\ \A q \in P!Ancestors(p \o z) : q \in DOMAIN start /\ start[q].kind = "dir"
      /\ p \o y # p \o z => p \o y \in P!Ancestors(p \o z)
  <2>1. \A f \in DOMAIN start : \A q \in P!Ancestors(f) :
           q \in DOMAIN start /\ start[q].kind = "dir"
    BY <1>1, Assumed, P!AncestorsExist
  <2>2. p \o y # p \o z => p \o y \in P!Ancestors(p \o z)
    BY <1>1, <1>3, Assumed, P!AncestorFacts
  <2> QED
    BY <2>1, <2>2
<1>5. p \o y \in DOMAIN start
  BY <1>4
<1>6. y # z => p \o y # p \o z
  BY ConcatNames
<1>7. p \in DOMAIN start
  <2>1. P!IsPrefix(p, p \o z)
    BY Assumed, P!ConcatFacts
  <2>2. p # p \o z => p \in P!Ancestors(p \o z)
    BY <1>1, <2>1, Assumed, P!AncestorFacts
  <2> QED
    BY <1>4, <2>2
<1>8. y \in DOMAIN V!Subtree(start, p)
  BY <1>1, <1>5, <1>7, SameSubtree, Assumed, P!SubtreeFacts
<1> QED
  BY <1>4, <1>5, <1>6, <1>8 DEF V!IsDir

\* What lies on the way from a to a place z below it is a part of z below it.
LEMMA Between ==
    ASSUME NEW a \in Seq(Names), NEW z \in Seq(Names), NEW p \in Seq(Names),
           IsPrefix(a, p), IsPrefix(p, a \o z)
    PROVE  \E y \in Seq(Names) : p = a \o y /\ IsPrefix(y, z)
<1> DEFINE n == Len(p) - Len(a)
           y == SubSeq(z, 1, n)
           w == a \o z
<1>1. /\ Len(a) \in Nat /\ Len(z) \in Nat /\ Len(p) \in Nat
      /\ w \in Seq(Names) /\ Len(w) = Len(a) + Len(z)
  BY LenProperties, Assumed, P!ConcatFacts
<1>2. /\ Len(a) <= Len(p) /\ \A i \in 1..Len(a) : a[i] = p[i]
      /\ Len(p) <= Len(w) /\ \A i \in 1..Len(p) : p[i] = w[i]
  <2>1. P!IsPrefix(a, p) /\ P!IsPrefix(p, w)
    BY Same
  <2> HIDE DEF w
  <2> QED
    BY <1>1, <2>1, Assumed, P!PrefixFacts
<1>3. n \in Nat /\ n <= Len(z) /\ 1 <= n + 1
  BY <1>1, <1>2
<1>4. /\ y \in Seq(Names) /\ Len(y) = n
      /\ \A i \in 1..n : y[i] = z[i]
  BY <1>3, Assumed, P!PartFacts
<1> HIDE DEF y
<1>5. /\ a \o y \in Seq(Names) /\ Len(a \o y) = Len(p)
      /\ \A i \in 1..(Len(a) + n) : (a \o y)[i] = IF i <= Len(a) THEN a[i] ELSE y[i - Len(a)]
  BY <1>1, <1>3, <1>4, ConcatProperties
<1>6. \A i \in 1..(Len(a) + Len(z)) : w[i] = IF i <= Len(a) THEN a[i] ELSE z[i - Len(a)]
  BY <1>1, ConcatProperties
<1>7. \A i \in 1..Len(p) : (a \o y)[i] = p[i]
  <2> TAKE i \in 1..Len(p)
  <2>1. i \in 1..(Len(a) + n) /\ i \in 1..(Len(a) + Len(z)) /\ i \in Nat
    BY <1>1, <1>2
  <2>2. CASE i <= Len(a)
    BY <1>2, <1>5, <1>6, <2>1, <2>2
  <2>3. CASE ~(i <= Len(a))
    <3>1. i - Len(a) \in 1..n
      BY <1>1, <2>1, <2>3
    <3> QED
      BY <1>2, <1>4, <1>5, <1>6, <2>1, <2>3, <3>1
  <2> QED
    BY <2>2, <2>3
<1>8. p = a \o y
  BY <1>5, <1>7, SeqEqual
<1>9. IsPrefix(y, z)
  <2>1. P!IsPrefix(y, z)
    BY <1>3, <1>4, Assumed, P!PrefixFacts
  <2> QED
    BY <2>1, Same
<1> QED
  BY <1>4, <1>8, <1>9

\* What the lemmas below know of a cp that runs.
LEMMA PlaceFacts ==
    ASSUME IInv, PlaceInv, Running, cmd.tool = "cp", Separate
    PROVE  /\ V!IsTree(tree) /\ V!IsTree(start) /\ work \in Seq(Levels)
           /\ SourcesAlike /\ DevicesAlike /\ StackTwins /\ \A p \in DOMAIN tree : InPlace(p)
           /\ \A k \in DOMAIN Sources(cmd) :
                 /\ Sources(cmd)[k].path \in V!Paths /\ Sources(cmd)[k].path \in Seq(Names)
                 /\ Target(Sources(cmd)[k]) \in Seq(Names)
           /\ work # <<>> => At \in DOMAIN Sources(cmd)
<1>1. /\ V!IsTree(tree) /\ V!IsTree(start) /\ work \in Seq(Levels)
      /\ SourcesAlike /\ DevicesAlike /\ StackTwins /\ \A p \in DOMAIN tree : InPlace(p)
  BY DEF IInv, Stack, PlaceInv
<1>2. \A k \in DOMAIN Sources(cmd) :
         /\ Sources(cmd)[k].path \in V!Paths /\ Sources(cmd)[k].path \in Seq(Names)
  BY AtFacts
<1>3. \A k \in DOMAIN Sources(cmd) : Target(Sources(cmd)[k]) \in Seq(Names)
  BY RunningFacts
<1>4. work # <<>> => At \in DOMAIN Sources(cmd)
  BY <1>1, AtFacts DEF StackTwins
<1> QED
  BY <1>1, <1>2, <1>3, <1>4

\* A copy of what is z below a source to what is z below its target.
LEMMA CopyPlaces ==
    ASSUME IInv, PlaceInv, Running, cmd.tool = "cp", Separate, V!IsTree(tree'),
           UNCHANGED <<cmd, into, start>>,
           NEW j \in DOMAIN Sources(cmd), NEW z \in Seq(Names), NEW from, NEW to \in V!Paths,
           from = Sources(cmd)[j].path \o z, to = Target(Sources(cmd)[j]) \o z,
           tree' = CopyOf(from, to).tree
    PROVE  SourcesAlike' /\ DevicesAlike' /\ \A p \in DOMAIN tree' : InPlace(p)'
<1> DEFINE s == Sources(cmd)[j]
<1>1. /\ V!IsTree(tree) /\ V!IsTree(start) /\ SourcesAlike /\ DevicesAlike
      /\ \A p \in DOMAIN tree : InPlace(p)
      /\ s.path \in Seq(Names) /\ Target(s) \in Seq(Names)
  BY PlaceFacts
<1>2. Target(s)' = Target(s) /\ s' = s /\ DOMAIN Sources(cmd)' = DOMAIN Sources(cmd)
  BY SeparateStays
<1>3. CASE tree' = tree
  BY <1>1, <1>3, StaysInPlace DEF SourcesAlike, DevicesAlike
<1>4. CASE /\ from \in DOMAIN tree /\ to \in DOMAIN tree' /\ tree'[to].kind = "file"
           /\ V!MemRead(tree', to) = V!MemRead(tree, from)
           /\ \A q \in DOMAIN tree' : q # to => q \in DOMAIN tree /\ tree'[q] = tree[q]
           /\ \A q \in DOMAIN tree : q # to => q \in DOMAIN tree'
  <2>1. /\ IsPrefix(Target(s), to) /\ IsPrefix(to, to)
        /\ IsPrefix(s.path, from) /\ from \in V!Paths
    <3>1. IsPrefix(Target(s), to) /\ to \in Seq(Names)
      BY <1>1, ConcatNames, Same, Assumed, P!PathFacts
    <3>2. IsPrefix(to, to)
      BY <3>1, Same, Assumed, P!PrefixEnds
    <3>3. IsPrefix(s.path, from)
      BY <1>1, ConcatNames
    <3> QED
      BY <1>1, <1>4, <3>1, <3>2, <3>3, TreeFacts
  <2>2. SourcesAlike' /\ DevicesAlike'
    <3>1. \A q \in V!Paths : ~IsPrefix(q, to) => Alike(tree, tree', q)
      BY <1>4, <2>1 DEF Alike
    <3>2. \A q \in V!Paths : Swallows(tree', q) => Swallows(tree, q)
      BY <1>4 DEF Swallows
    <3> HIDE DEF s
    <3> QED
      BY <1>1, <2>1, <3>1, <3>2, CpFrame DEF s
  <2>3. from \in DOMAIN start /\ start[from] = tree[from]
    BY <1>1, <1>4, <2>1 DEF SourcesAlike, Alike
  <2>4. V!MemRead(start, from) = V!MemRead(tree, from)
    <3>1. start[from] \in P!Nodes
      BY <1>1, <2>3, TreeFacts DEF P!HasNodes
    <3>2. start[from].kind \in {"dir", "file", "null", "device"}
      BY <3>1, Assumed, P!NodeFacts DEF P!Kinds
    <3> QED
      BY <1>4, <2>3, <3>2 DEF V!MemRead
  <2>5. z \in DOMAIN V!Subtree(start, s.path)
    <3>1. IsPrefix(z, z)
      BY Same, Assumed, P!PrefixEnds
    <3> QED
      BY <1>1, <2>3, <3>1, PlaceBelow
  <2>6. InPlace(to)'
    BY <1>2, <1>4, <2>4, <2>5 DEF InPlace
  <2>7. \A p \in DOMAIN tree' : p # to => InPlace(p)'
    BY <1>1, <1>4, StaysInPlace
  <2> QED
    BY <2>2, <2>6, <2>7
<1> QED
  BY <1>1, <1>3, <1>4, CopyReads

\* A directory z below a source is met again z below its target.
LEMMA EnterPlaces ==
    ASSUME IInv, PlaceInv, Running, cmd.tool = "cp", Separate, V!IsTree(tree'),
           UNCHANGED <<cmd, into, start>>,
           NEW j \in DOMAIN Sources(cmd), NEW z \in Seq(Names), NEW from, NEW to \in V!Paths,
           from = Sources(cmd)[j].path \o z, to = Target(Sources(cmd)[j]) \o z,
           V!IsDir(tree, from), tree' = V!MemMkdirParents(tree, to).tree
    PROVE  SourcesAlike' /\ DevicesAlike' /\ \A p \in DOMAIN tree' : InPlace(p)'
<1> DEFINE s == Sources(cmd)[j]
<1>1. /\ V!IsTree(tree) /\ V!IsTree(start) /\ SourcesAlike /\ DevicesAlike
      /\ \A p \in DOMAIN tree : InPlace(p)
      /\ s.path \in Seq(Names) /\ Target(s) \in Seq(Names)
  BY PlaceFacts
<1>2. Target(s)' = Target(s) /\ s' = s /\ DOMAIN Sources(cmd)' = DOMAIN Sources(cmd)
  BY SeparateStays
<1>3. IsPrefix(Target(s), to) /\ IsPrefix(s.path, from) /\ from \in V!Paths /\ to \in Seq(Names)
  <2>1. IsPrefix(Target(s), to) /\ IsPrefix(s.path, from)
    BY <1>1, ConcatNames
  <2> QED
    BY <1>1, <2>1, TreeFacts DEF V!IsDir
<1>4. SourcesAlike' /\ DevicesAlike'
  <2>1. /\ \A q \in V!Paths : ~IsPrefix(q, to) => Alike(tree, tree', q)
        /\ \A q \in V!Paths : Swallows(tree', q) => Swallows(tree, q)
    BY <1>1, EnterLands
  <2> HIDE DEF s
  <2> QED
    BY <1>1, <1>3, <2>1, CpFrame DEF s
<1>5. /\ \A q \in DOMAIN tree : q \in DOMAIN tree' /\ tree'[q] = tree[q]
      /\ \A q \in DOMAIN tree' \ DOMAIN tree : tree'[q] = V!Dir /\ IsPrefix(q, to)
  <2> DEFINE all == P!Ancestors(to) \cup {to}
  <2>1. tree' = P!MemMkdirParents(tree, to).tree
    BY SameOps
  <2>2. \/ tree' = tree
        \/ /\ DOMAIN tree' = DOMAIN tree \cup all
           /\ \A q \in DOMAIN tree : tree'[q] = tree[q]
           /\ \A q \in all : q \notin DOMAIN tree => tree'[q] = P!Dir
    BY <2>1 DEF P!MemMkdirParents, P!Outcome
  <2>3. \A q \in all : IsPrefix(q, to)
    <3>1. P!IsPrefix(to, to) /\ \A q \in P!Ancestors(to) : P!IsPrefix(q, to)
      BY <1>3, Assumed, P!AncestorFacts, P!PrefixEnds
    <3> QED
      BY <3>1, Same
  <2> HIDE DEF all
  <2> QED
    BY <2>2, <2>3, Same
<1>6. V!IsDir(start, from)
  BY <1>1, <1>3 DEF SourcesAlike, Alike, V!IsDir
<1>7. ASSUME NEW p \in DOMAIN tree', p \notin DOMAIN tree
      PROVE  InPlace(p)'
  <2>1. tree'[p] = V!Dir /\ IsPrefix(p, to) /\ p \in Seq(Names)
    BY <1>5, <1>7, TreeFacts
  <2>2. CASE IsPrefix(p, Target(s))
    BY <1>2, <2>1, <2>2 DEF InPlace, Below
  <2>3. CASE IsPrefix(Target(s), p)
    <3>1. PICK y \in Seq(Names) : p = Target(s) \o y /\ IsPrefix(y, z)
      BY <1>1, <2>1, <2>3, Between
    <3>2. y \in DOMAIN V!Subtree(start, s.path) /\ V!IsDir(start, s.path \o y)
      BY <1>1, <1>6, <3>1, PlaceBelow DEF V!IsDir
    <3>3. V!Dir.kind = "dir"
      BY Same, Assumed, P!NodeFacts
    <3>4. V!MemRead(tree', p) = V!MemRead(start, s.path \o y)
      BY <1>7, <2>1, <3>2, <3>3 DEF V!MemRead, V!IsDir
    <3> QED
      BY <1>2, <3>1, <3>2, <3>4 DEF InPlace
  <2> QED
    BY <1>1, <1>3, <2>1, <2>2, <2>3, PrefixChain
<1>8. \A p \in DOMAIN tree : InPlace(p)'
  BY <1>1, <1>5, StaysInPlace
<1> QED
  BY <1>4, <1>7, <1>8

\* The next operand of a cp is copied: a file, or the directory it begins with.
LEMMA OperandPlaces ==
    ASSUME IInv, PlaceInv, IInv', CopyFile \/ CopyDir, Separate
    PROVE  PlaceInv'
<1> DEFINE S == Sources(cmd)
           from == Src.path
           to == Target(Src)
<1> PICK j : j = At + 1
  OBVIOUS
<1>1. /\ Running /\ cmd.tool = "cp" /\ todo # <<>> /\ todo' = Tail(todo)
      /\ UNCHANGED <<cmd, into, start>> /\ work = <<>> /\ to \in V!Paths /\ V!IsTree(tree')
  BY DEF CopyFile, CopyDir, Enter, Takes, IInv
<1>2. j \in DOMAIN S /\ Src = S[j] /\ At' = j /\ j >= 1 /\ from \in V!Paths
  BY <1>1, AtFacts, AtMoves
<1>3. S[j].path \in Seq(Names) /\ Target(S[j]) \in Seq(Names) /\ V!IsTree(start)
  BY <1>1, <1>2, PlaceFacts
<1>4. /\ <<>> \in Seq(Names) /\ from = S[j].path \o <<>> /\ to = Target(S[j]) \o <<>>
  BY <1>2, <1>3, ConcatNames, EmptySeq
<1>5. (\A s : Target(s)' = Target(s)) /\ S' = S
  BY <1>1, SeparateStays
<1>6. CASE CopyFile
  <2>1. tree' = CopyOf(from, to).tree /\ work' = <<>>
    BY <1>1, <1>6 DEF CopyFile, Do
  <2>2. SourcesAlike' /\ DevicesAlike' /\ \A p \in DOMAIN tree' : InPlace(p)'
    <3> HIDE DEF from, to
    <3> QED
      BY <1>1, <1>2, <1>4, <2>1, CopyPlaces
  <2> QED
    BY <1>1, <1>3, <2>1, <2>2 DEF PlaceInv, StackTwins
<1>7. CASE CopyDir
  <2>1. /\ V!IsDir(tree, from) /\ Enter(from, to, <<>>)
        /\ tree' = V!MemMkdirParents(tree, to).tree
    BY <1>7 DEF CopyDir, Enter
  <2>2. SourcesAlike' /\ DevicesAlike' /\ \A p \in DOMAIN tree' : InPlace(p)'
    <3> HIDE DEF from, to
    <3> QED
      BY <1>1, <1>2, <1>4, <2>1, EnterPlaces
  <2>3. PICK w : /\ w.from = from /\ w.to = to
                 /\ work' = <<w>> \o <<>>
    BY <2>1 DEF Enter
  <2>4. Range(work') = {w}
    BY <2>3 DEF Range
  <2>5. Twins(S[j], w)'
    BY <1>4, <1>5, <2>3 DEF Twins
  <2>6. StackTwins'
    BY <1>2, <1>5, <2>4, <2>5 DEF StackTwins
  <2> QED
    BY <1>1, <1>3, <2>2, <2>6 DEF PlaceInv
<1> QED
  BY <1>6, <1>7

\* So is the next entry of the innermost directory.
LEMMA EntryPlaces ==
    ASSUME IInv, PlaceInv, IInv', NEW n \in Names, CopyEntry(n), cmd.tool = "cp", Separate
    PROVE  PlaceInv'
<1> DEFINE S == Sources(cmd)
           from == Append(Head(work).from, n)
           to == Append(Head(work).to, n)
<1> PICK j : j = At
  OBVIOUS
<1>1. /\ Running /\ work # <<>> /\ n \in Head(work).left /\ to \in V!Paths
      /\ UNCHANGED <<cmd, todo, into, start>> /\ V!IsTree(tree')
  BY DEF CopyEntry, Enter, IInv
<1>2. /\ j \in DOMAIN S /\ S[j].path \in Seq(Names) /\ Target(S[j]) \in Seq(Names)
      /\ StackTwins /\ V!IsTree(start) /\ j >= 1 /\ At' = j /\ work \in Seq(Levels)
  <2>1. StackTwins /\ V!IsTree(start) /\ At \in DOMAIN S /\ work \in Seq(Levels)
    BY <1>1, PlaceFacts
  <2>2. S[j].path \in Seq(Names) /\ Target(S[j]) \in Seq(Names)
    BY <1>1, <2>1, PlaceFacts
  <2> QED
    BY <1>1, <2>1, <2>2 DEF StackTwins, At
<1>3. /\ from \in DOMAIN tree /\ from \in V!Paths /\ from \in Seq(Names)
      /\ \E z \in Seq(Names) : from = S[j].path \o z /\ to = Target(S[j]) \o z
      /\ \A w \in Range(Rest(n)) : Twins(S[j], w)
  <2> DEFINE s == S[j]
  <2>1. s = Sources(cmd)[At] /\ s.path \in Seq(Names) /\ Target(s) \in Seq(Names)
    BY <1>2
  <2> HIDE DEF s
  <2>2. /\ from \in DOMAIN tree /\ from \in V!Paths /\ from \in Seq(Names)
        /\ \E z \in Seq(Names) : from = s.path \o z /\ to = Target(s) \o z
        /\ \A w \in Range(Rest(n)) : Twins(s, w)
    BY <1>1, <1>2, <2>1, EntryTwins
  <2> QED
    BY <2>2 DEF s
<1>4. PICK z \in Seq(Names) : from = S[j].path \o z /\ to = Target(S[j]) \o z
  BY <1>3
<1>5. (\A s : Target(s)' = Target(s)) /\ S' = S
  BY <1>1, SeparateStays
<1>6. \A w \in Range(Rest(n)) : Twins(S[j], w)'
  BY <1>1, <1>3, <1>5 DEF Twins
<1>7. CASE V!IsDir(tree, from)
  <2>1. Enter(from, to, Rest(n)) /\ tree' = V!MemMkdirParents(tree, to).tree
    BY <1>7 DEF CopyEntry, Enter
  <2>2. SourcesAlike' /\ DevicesAlike' /\ \A p \in DOMAIN tree' : InPlace(p)'
    <3> HIDE DEF from, to
    <3> QED
      BY <1>1, <1>2, <1>4, <1>7, <2>1, EnterPlaces
  <2> HIDE DEF from, to
  <2>3. PICK w \in Levels : w.from = from /\ w.to = to /\ Range(work') = {w} \cup Range(Rest(n))
    <3> DEFINE below == Rest(n)
    <3>1. below \in Seq(Levels) /\ Enter(from, to, below)
      BY <1>1, <1>2, <2>1, RestWaits
    <3>2. V!IsDir(tree', from)
      BY <1>1, <1>7, <2>1, EnterFacts, MkdirParentsFacts DEF IInv, V!IsDir, Kept
    <3> HIDE DEF below
    <3>3. from \in V!Paths /\ from \in Seq(Names) /\ V!IsTree(tree')
      BY <1>1, <1>3
    <3>4. \E w \in Levels :
             /\ w.from = from /\ w.to = to /\ Range(work') = {w} \cup Range(below)
             /\ \A f \in DOMAIN tree' :
                   tree'[f].kind = "file" /\ IsPrefix(from, f) => Waits(w, f)
      BY <3>1, <3>2, <3>3, EnterWaits
    <3> QED
      BY <3>4 DEF below
  <2>4. Twins(S[j], w)'
    BY <1>4, <1>5, <2>3 DEF Twins
  <2>5. StackTwins'
    BY <1>2, <1>5, <1>6, <2>3, <2>4 DEF StackTwins
  <2> QED
    BY <1>1, <1>2, <2>2, <2>5 DEF PlaceInv
<1>8. CASE ~V!IsDir(tree, from)
  <2>1. /\ tree' = CopyOf(from, to).tree
        /\ work' = Rest(n) \/ work' = <<>>
    BY <1>8 DEF CopyEntry, Do
  <2>2. SourcesAlike' /\ DevicesAlike' /\ \A p \in DOMAIN tree' : InPlace(p)'
    <3> HIDE DEF from, to
    <3> QED
      BY <1>1, <1>2, <1>4, <2>1, CopyPlaces
  <2>3. StackTwins'
    BY <1>2, <1>5, <1>6, <2>1 DEF StackTwins
  <2> QED
    BY <1>1, <1>2, <2>2, <2>3 DEF PlaceInv
<1> QED
  BY <1>7, <1>8

LEMMA PlaceInvKept ==
    ASSUME IInv, PlaceInv, IInv', [Next]_vars
    PROVE  PlaceInv'
<1>1. ASSUME NEW c \in Commands, Begin(c)
      PROVE  PlaceInv'
  <2>1. /\ tree' = tree /\ start' = tree /\ work' = <<>> /\ V!IsTree(tree)
    BY <1>1 DEF Begin, IInv
  <2> QED
    BY <2>1 DEF PlaceInv, SourcesAlike, DevicesAlike, StackTwins, InPlace, Alike, Swallows
<1>2. CASE Finish
  <2>1. ~Running' /\ start' = InitTree
    BY <1>2 DEF Finish, Running
  <2> QED
    BY <2>1, TreeAssumption DEF PlaceInv
<1>3. CASE Mkdir \/ Rm \/ Touch \/ Mv
  <2>1. cmd' = cmd /\ start' = start /\ cmd.tool # "cp"
    BY <1>3 DEF Mkdir, Rm, Touch, Mv, Takes
  <2> QED
    BY <2>1 DEF PlaceInv
<1>4. ASSUME cmd.tool = "cp", Running, UNCHANGED <<cmd, into, start>>, ~Separate
      PROVE  PlaceInv'
  BY <1>4, SeparateStays DEF PlaceInv
<1>5. CASE CopyFile \/ CopyDir
  <2>1. cmd.tool = "cp" /\ Running /\ UNCHANGED <<cmd, into, start>>
    BY <1>5 DEF CopyFile, CopyDir, Takes
  <2> QED
    BY <1>4, <1>5, <2>1, OperandPlaces
<1>6. ASSUME NEW n \in Names, CopyEntry(n)
      PROVE  PlaceInv'
  <2>1. cmd.tool = "cp" /\ Running /\ UNCHANGED <<cmd, into, start>>
    BY <1>6 DEF CopyEntry, IInv
  <2> QED
    BY <1>4, <1>6, <2>1, EntryPlaces
<1>7. ASSUME UNCHANGED <<cmd, into, start, tree>>,
             Running /\ cmd.tool = "cp" =>
                work' = <<>> \/ (At' = At /\ work # <<>> /\ Range(work') \subseteq Range(work))
      PROVE  PlaceInv'
  <2> SUFFICES ASSUME Running, cmd.tool = "cp", Separate
               PROVE  /\ V!IsTree(start)
                      /\ SourcesAlike' /\ DevicesAlike' /\ StackTwins'
                      /\ \A p \in DOMAIN tree : InPlace(p)'
    BY <1>7, SeparateStays DEF PlaceInv, Running
  <2>1. /\ V!IsTree(start) /\ V!IsTree(tree) /\ SourcesAlike /\ DevicesAlike /\ StackTwins
        /\ \A p \in DOMAIN tree : InPlace(p)
    BY PlaceFacts
  <2>2. \A p \in DOMAIN tree : InPlace(p)'
    BY <1>7, <2>1, StaysInPlace
  <2>3. SourcesAlike' /\ DevicesAlike'
    BY <1>7, <2>1 DEF SourcesAlike, DevicesAlike
  <2>4. StackTwins'
    BY <1>7, <2>1, SeparateStays DEF StackTwins, Twins
  <2> QED
    BY <2>1, <2>2, <2>3, <2>4
<1>8. CASE SkipDir
  <2>1. UNCHANGED <<cmd, into, start, tree>> /\ work' = <<>>
    BY <1>8 DEF SkipDir, Takes
  <2> QED
    BY <1>7, <2>1
<1>9. CASE LeaveDir
  <2>1. /\ UNCHANGED <<cmd, into, start, tree>> /\ At' = At /\ work # <<>>
        /\ work' = Tail(work) /\ work \in Seq(Levels)
    BY <1>9 DEF LeaveDir, At, IInv, Stack
  <2>2. Range(work') \subseteq Range(work)
    BY <2>1, OnStack
  <2> QED
    BY <1>7, <2>1, <2>2
<1>10. CASE UNCHANGED vars
  <2>1. UNCHANGED <<cmd, into, start, tree, work>> /\ At' = At
    BY <1>10 DEF vars, At
  <2> QED
    BY <1>7, <2>1
<1> QED
  BY <1>1, <1>2, <1>3, <1>5, <1>6, <1>8, <1>9, <1>10 DEF Next, Step

\* At every moment of a cp, those that end in a failure included, all that is in the
\* tree is what was there, a directory on the way to a target, or the like of what is
\* as far below a source (builtins.rs:583-603).
THEOREM CopiesKept == Spec => []CopiesAreInPlace
<1>1. Init => IInv /\ PlaceInv
  <2> SUFFICES ASSUME Init PROVE IInv /\ PlaceInv
    OBVIOUS
  <2>1. ~Running /\ start = InitTree
    BY DEF Init, Running
  <2> QED
    BY <2>1, InitIInv, TreeAssumption DEF PlaceInv
<1>2. IInv /\ PlaceInv /\ [Next]_vars => IInv' /\ PlaceInv'
  BY InvKept, PlaceInvKept
<1>3. PlaceInv => CopiesAreInPlace
  BY DEF PlaceInv, CopiesAreInPlace
<1> QED
  BY <1>1, <1>2, <1>3, PTL DEF Spec
=============================================================================
