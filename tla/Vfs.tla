--------------------------------- MODULE Vfs ---------------------------------
(***************************************************************************)
(* The virtual filesystem: crates/wasm_shell/src/vfs.rs.                   *)
(*                                                                         *)
(* An in-memory tree of directories, files and devices, and host mounts    *)
(* laid over it.  A path is a sequence of names, as normalize_path leaves  *)
(* it; <<>> is "/".  The tree is a function from the paths that exist to   *)
(* their nodes.  Every method runs under the VFS mutex, so it is one step. *)
(***************************************************************************)
EXTENDS Naturals, Sequences, FiniteSets, SequencesExt

CONSTANTS
    Names,        \* the names a path is made of
    Contents,     \* what a file may hold
    NoBytes,      \* the empty content
    MaxDepth,     \* bound: names in a path
    MountPoints,  \* where the host may mount
    HostFiles,    \* bound: relative paths a newly mounted host may hold
    InitTree      \* the tree Vfs::init() builds

Paths == UNION {[1..n -> Names] : n \in 0..MaxDepth}

Kinds == {"dir", "file", "null", "device"}
Node(kind, data) == [kind |-> kind, data |-> data]
Dir == Node("dir", NoBytes)
File(data) == Node("file", data)
Nodes == {Node(k, NoBytes) : k \in Kinds} \cup {File(d) : d \in Contents}

Parent(p) == SubSeq(p, 1, Len(p) - 1)
Ancestors(p) == {SubSeq(p, 1, k) : k \in 0..(Len(p) - 1)}

\* A tree has a root directory, and everything else lies in a directory.
Shape(t) ==
    /\ DOMAIN t \subseteq Paths
    /\ <<>> \in DOMAIN t /\ t[<<>>].kind = "dir"
    /\ \A p \in DOMAIN t : p # <<>> =>
          Parent(p) \in DOMAIN t /\ t[Parent(p)].kind = "dir"

IsTree(t) == Shape(t) /\ t \in [DOMAIN t -> Nodes]

ASSUME BoundAssumption == MaxDepth \in Nat
ASSUME ContentAssumption == NoBytes \in Contents
ASSUME MountAssumption == MountPoints \subseteq Paths /\ HostFiles \subseteq Paths
ASSUME InitAssumption == IsTree(InitTree)

VARIABLES
    tree,    \* the in-memory tree
    mounts,  \* the mount points, in the order find_mount tries them
    hosts    \* what each mounted host holds, by path relative to the mount

vars == <<tree, mounts, hosts>>
-----------------------------------------------------------------------------
(* The in-memory tree.  An operation is an outcome: "ok" or an error, and  *)
(* the tree it leaves.                                                     *)

Outcome(res, t) == [res |-> res, tree |-> t]

IsDir(t, p) == p \in DOMAIN t /\ t[p].kind = "dir"

\* Why the walk of node_at finds nothing at p.
Missing(t, p) ==
    IF \E q \in Ancestors(p) \cap DOMAIN t : t[q].kind # "dir"
      THEN "NotADir" ELSE "NotFound"

\* The nodes below p (p included), and the rest.
Pruned(t, p) == [q \in {q \in DOMAIN t : ~IsPrefix(p, q)} |-> t[q]]
Subtree(t, p) ==
    [r \in {SubSeq(q, Len(p) + 1, Len(q)) : q \in {q \in DOMAIN t : IsPrefix(p, q)}}
       |-> t[p \o r]]

\* The map insert of mem_set_node: a node, with what hangs below it, takes p.
Grafted(t, p, sub) ==
    [q \in DOMAIN Pruned(t, p) \cup {p \o r : r \in DOMAIN sub} |->
       IF IsPrefix(p, q) THEN sub[SubSeq(q, Len(p) + 1, Len(q))] ELSE t[q]]

Leaf(node) == [r \in {<<>>} |-> node]

\* Where an entry is to be made: the error the lookup of the parent gives, if any.
ParentError(t, p) ==
    IF Parent(p) \notin DOMAIN t THEN Missing(t, Parent(p))
    ELSE IF IsDir(t, Parent(p)) THEN "ok" ELSE "NotADir"

MemSetNode_Orphan(t, p, sub) ==   \* mutant: the parent is not looked at
    IF p = <<>> THEN Outcome("InvalidPath", t)
    ELSE Outcome("ok", Grafted(t, p, sub))

MemSetNode(t, p, sub) ==
    IF p = <<>> THEN Outcome("InvalidPath", t)
    ELSE IF ParentError(t, p) # "ok" THEN Outcome(ParentError(t, p), t)
    ELSE Outcome("ok", Grafted(t, p, sub))

MemMkdir(t, p) ==
    IF p = <<>> THEN Outcome("ok", t)
    ELSE IF ParentError(t, p) # "ok" THEN Outcome(ParentError(t, p), t)
    ELSE IF p \in DOMAIN t THEN Outcome("AlreadyExists", t)
    ELSE Outcome("ok", Grafted(t, p, Leaf(Dir)))

\* A turn of the loop of mkdir -p, which looks for the directory `next`.
MkdirNext(o, next) ==
    IF o.res # "ok" \/ IsDir(o.tree, next) THEN o
    ELSE IF next \in DOMAIN o.tree THEN Outcome("NotADir", o.tree)
    ELSE IF Missing(o.tree, next) = "NotFound" THEN MemMkdir(o.tree, next)
    ELSE Outcome(Missing(o.tree, next), o.tree)

MkdirParentsLoop_Short(t, p) ==   \* mutant: the last component is skipped
    FoldLeft(MkdirNext, Outcome("ok", t), [k \in 1..(Len(p) - 1) |-> SubSeq(p, 1, k)])

(***************************************************************************)
(* mkdir -p: the loop walks down from the root, makes what is missing and  *)
(* stops at the first node that is not a directory.                        *)
(***************************************************************************)
MkdirParentsLoop(t, p) ==
    FoldLeft(MkdirNext, Outcome("ok", t), [k \in 1..Len(p) |-> SubSeq(p, 1, k)])

\* What the loop comes to (MkdirParentsIsLoop): all of it, or none.
MemMkdirParents(t, p) ==
    LET all == Ancestors(p) \cup {p}
    IN IF \E q \in all \cap DOMAIN t : t[q].kind # "dir"
         THEN Outcome("NotADir", t)
         ELSE Outcome("ok", [q \in DOMAIN t \cup all |->
                                IF q \in DOMAIN t THEN t[q] ELSE Dir])

MemRemoveNode(t, p) ==
    IF p = <<>> THEN Outcome("InvalidPath", t)
    ELSE IF ParentError(t, p) # "ok" THEN Outcome(ParentError(t, p), t)
    ELSE IF p \notin DOMAIN t THEN Outcome("NotFound", t)
    ELSE Outcome("ok", Pruned(t, p))

Children(t, p) == {q \in DOMAIN t : q # <<>> /\ Parent(q) = p}

MemRemove_CheckLate(t, p, recursive) ==   \* mutant: removes, then complains
    IF ~recursive /\ IsDir(t, p) /\ Children(t, p) # {}
      THEN Outcome("NotEmpty", MemRemoveNode(t, p).tree) ELSE MemRemoveNode(t, p)

MemRemove(t, p, recursive) ==
    IF ~recursive /\ IsDir(t, p) /\ Children(t, p) # {}
      THEN Outcome("NotEmpty", t) ELSE MemRemoveNode(t, p)

\* Devices swallow what is written to them.
MemWrite(t, p, data) ==
    IF p \notin DOMAIN t
      THEN IF Missing(t, p) = "NotADir" THEN Outcome("NotADir", t)
           ELSE MemSetNode(t, p, Leaf(File(data)))
    ELSE CASE t[p].kind = "dir" -> Outcome("IsADir", t)
           [] t[p].kind = "file" -> MemSetNode(t, p, Leaf(File(data)))
           [] OTHER -> Outcome("ok", t)

MemRename_SetFirst(t, from, to) ==   \* mutant: sets, then takes the old one out
    LET set == IF from \in DOMAIN t THEN MemSetNode(t, to, Subtree(t, from))
               ELSE Outcome("NotFound", t)
    IN IF set.res # "ok" THEN set ELSE MemRemoveNode(set.tree, from)

\* rename takes the node out before it knows whether it can put it back.
MemRename(t, from, to) ==
    LET out == MemRemoveNode(t, from)
    IN IF out.res # "ok" THEN out ELSE MemSetNode(out.tree, to, Subtree(t, from))

MemRead(t, p) ==
    IF p \notin DOMAIN t THEN [res |-> Missing(t, p), data |-> NoBytes]
    ELSE CASE t[p].kind = "file" -> [res |-> "ok", data |-> t[p].data]
           [] t[p].kind = "null" -> [res |-> "ok", data |-> NoBytes]
           [] t[p].kind = "dir" -> [res |-> "IsADir", data |-> NoBytes]
           [] t[p].kind = "device" -> [res |-> "PermissionDenied", data |-> NoBytes]
-----------------------------------------------------------------------------
(* Mounts.                                                                 *)

\* find_mount's test: the mount point itself, or a path that goes on with "/"
\* after it, which for "/" none does.
Covers(m, p) == p = m \/ (m # <<>> /\ IsPrefix(m, p))

NoMount == Len(mounts) + 1

\* The first entry that covers p.
FindMount(p) ==
    LET hits == {i \in DOMAIN mounts : Covers(mounts[i], p)}
    IN IF hits = {} THEN NoMount ELSE CHOOSE i \in hits : \A j \in hits : i <= j

Mounted(p) == FindMount(p) # NoMount
Host(p) == mounts[FindMount(p)]
Rel(p) == SubSeq(p, Len(Host(p)) + 1, Len(p))

(***************************************************************************)
(* A mounted host, seen from here: a map from relative paths to contents   *)
(* (MapMount of the tests), which may also refuse any request.             *)
(***************************************************************************)
HostRead(p) ==
    IF Rel(p) \in DOMAIN hosts[Host(p)]
      THEN [res |-> "ok", data |-> hosts[Host(p)][Rel(p)]]
      ELSE [res |-> "NotFound", data |-> NoBytes]
HostWrite(p, data) ==
    [hosts EXCEPT ![Host(p)] =
       [r \in DOMAIN @ \cup {Rel(p)} |-> IF r = Rel(p) THEN data ELSE @[r]]]
HostRemove(p) ==
    [hosts EXCEPT ![Host(p)] = [r \in DOMAIN @ \ {Rel(p)} |-> @[r]]]

HostStat(p) == IF Rel(p) \in DOMAIN hosts[Host(p)] THEN "file" ELSE "NotFound"

ReadFile(p) == IF Mounted(p) THEN HostRead(p) ELSE MemRead(tree, p)
Stat(p) ==
    IF Mounted(p) THEN HostStat(p)
    ELSE IF p \in DOMAIN tree THEN tree[p].kind ELSE Missing(tree, p)

Init ==
    /\ tree = InitTree
    /\ mounts = <<>>
    /\ hosts = [m \in {} |-> <<>>]

\* The members of `keep` among the entries of s, in their order.
Joined(s, r) == s \o r
Retained(s, keep) ==
    FoldLeft(Joined, <<>>, [i \in DOMAIN s |-> IF s[i] \in keep THEN <<s[i]>> ELSE <<>>])

Longer(m) == {x \in Range(mounts) : Len(x) >= Len(m)}
Shorter(m) == {x \in Range(mounts) : Len(x) < Len(m)}

AddMount_Unsorted(m, rels) ==   \* mutant: the newest mount is tried last
    /\ mounts' = Append(Retained(mounts, Range(mounts) \ {m}), m)
    /\ \E c \in [rels -> Contents] :
          hosts' = [x \in DOMAIN hosts \cup {m} |-> IF x = m THEN c ELSE hosts[x]]
    /\ UNCHANGED tree

AddMount_Twice(m, rels) ==   \* mutant: the mount it replaces stays listed
    /\ mounts' = Retained(mounts, Longer(m)) \o <<m>> \o Retained(mounts, Shorter(m))
    /\ \E c \in [rels -> Contents] :
          hosts' = [x \in DOMAIN hosts \cup {m} |-> IF x = m THEN c ELSE hosts[x]]
    /\ UNCHANGED tree

\* The entry that m had is dropped; shorter mount points go behind longer ones, and
\* equal lengths keep their order.  The code compares lengths of text, here it is
\* names: the same for mount points that cover one path, and no other order is
\* ever looked at.
AddMount(m, rels) ==
    /\ mounts' = Retained(mounts, Longer(m) \ {m}) \o <<m>> \o Retained(mounts, Shorter(m))
    /\ \E c \in [rels -> Contents] :
          hosts' = [x \in DOMAIN hosts \cup {m} |-> IF x = m THEN c ELSE hosts[x]]
    /\ UNCHANGED tree

WriteFile_TreeOnly(p, data) ==   \* mutant: the mounts are not looked at
    /\ tree' = MemWrite(tree, p, data).tree
    /\ UNCHANGED <<mounts, hosts>>

WriteFile(p, data) ==
    \/ /\ Mounted(p)
       /\ hosts' = HostWrite(p, data)
       /\ UNCHANGED <<tree, mounts>>
    \/ /\ ~Mounted(p)
       /\ tree' = MemWrite(tree, p, data).tree
       /\ UNCHANGED <<mounts, hosts>>

\* mkdir never looks at the mounts.
Mkdir(p, parents) ==
    /\ tree' = (IF parents THEN MemMkdirParents(tree, p) ELSE MemMkdir(tree, p)).tree
    /\ UNCHANGED <<mounts, hosts>>

RemovePath(p, recursive) ==
    \/ /\ Mounted(p)
       /\ hosts' = HostRemove(p)
       /\ UNCHANGED <<tree, mounts>>
    \/ /\ ~Mounted(p)
       /\ tree' = MemRemove(tree, p, recursive).tree
       /\ UNCHANGED <<mounts, hosts>>

\* Bound: nothing is moved below MaxDepth.
Rename(from, to) ==
    /\ ~Mounted(from) /\ ~Mounted(to)
    /\ \A r \in DOMAIN Subtree(tree, from) : to \o r \in Paths
    /\ tree' = MemRename(tree, from, to).tree
    /\ UNCHANGED <<mounts, hosts>>

Copy(from, to) ==
    /\ ReadFile(from).res = "ok"
    /\ WriteFile(to, ReadFile(from).data)

Next ==
    \/ \E m \in MountPoints, rels \in SUBSET HostFiles : AddMount(m, rels)
    \/ \E p \in Paths :
          \/ \E data \in Contents : WriteFile(p, data)
          \/ \E parents \in BOOLEAN : Mkdir(p, parents)
          \/ \E recursive \in BOOLEAN : RemovePath(p, recursive)
          \/ \E to \in Paths : Rename(p, to) \/ Copy(p, to)

Spec == Init /\ [][Next]_vars
-----------------------------------------------------------------------------
(* What the filesystem promises. *)

\* The tree keeps its shape: every entry lies in a directory that exists.
TreeShape == Shape(tree)

\* The nodes are nodes; a mount point is listed once and has a host.
TypeOK ==
    /\ tree \in [DOMAIN tree -> Nodes]
    /\ mounts \in Seq(MountPoints)
    /\ IsInjective(mounts)
    /\ DOMAIN hosts = Range(mounts)
    /\ \A m \in DOMAIN hosts : hosts[m] \in [DOMAIN hosts[m] -> Contents]

\* A write, mkdir, mkdir -p or remove that reports an error has changed nothing,
\* mkdir -p with its several steps included (vfs.rs:218-274).
ErrorsChangeNothing ==
    \A p \in Paths :
       /\ \A d \in Contents : LET o == MemWrite(tree, p, d)
                              IN o.res = "ok" \/ o.tree = tree
       /\ LET o == MemMkdir(tree, p) IN o.res = "ok" \/ o.tree = tree
       /\ LET o == MkdirParentsLoop(tree, p) IN o.res = "ok" \/ o.tree = tree
       /\ \A r \in BOOLEAN : LET o == MemRemove(tree, p, r)
                             IN o.res = "ok" \/ o.tree = tree

\* The loop of mkdir -p makes the whole chain of directories or nothing, and
\* fails only for a chain that runs into something else (vfs.rs:343-364).
MkdirParentsIsLoop ==
    \A p \in Paths : MkdirParentsLoop(tree, p) = MemMkdirParents(tree, p)

\* What can be read at q is the same before and after a step.
SameFile(q) ==
    (ReadFile(q).res = "ok" \/ ReadFile(q)'.res = "ok") => ReadFile(q)' = ReadFile(q)

\* A write that succeeds is read back, unless a device swallowed it; a mkdir -p that
\* succeeds makes a directory that is seen, unless a mount hides it (vfs.rs:258);
\* and with them a remove without -r (tests.rs:141-149) leaves every other file as
\* it was, whichever of the tree and the nested mounts serve the paths.
WriteSticks ==
    [][\A p \in Paths :
          /\ \A d \in Contents : WriteFile(p, d) =>
                /\ Stat(p) \in {"file", "NotFound"} /\ Stat(p)' = "file"
                      => ReadFile(p)' = [res |-> "ok", data |-> d]
                /\ \A q \in Paths \ {p} : SameFile(q)
          /\ RemovePath(p, FALSE) => \A q \in Paths \ {p} : SameFile(q)
          /\ (Mkdir(p, TRUE) /\ MemMkdirParents(tree, p).res = "ok") =>
                /\ Mounted(p) \/ Stat(p)' = "dir"
                /\ \A q \in Paths : SameFile(q)]_vars

\* The mount that serves a path is the most specific one (vfs.rs:188), in
\* whatever order the mounts were made and replaced.
MostSpecificMount ==
    \A p \in Paths, m \in Range(mounts) :
       Covers(m, p) => Mounted(p) /\ Len(m) <= Len(Host(p))

\* A rename that succeeds moves what was at `from`, with all that hangs below
\* it, to `to`, and leaves everything outside the two where it was.
RenameMoves ==
    \A from, to \in Paths :
       LET o == MemRename(tree, from, to)
       IN o.res = "ok" =>
            /\ Subtree(o.tree, to) = Subtree(tree, from)
            /\ \A q \in Paths : ~IsPrefix(from, q) /\ ~IsPrefix(to, q) =>
                  /\ q \in DOMAIN o.tree <=> q \in DOMAIN tree
                  /\ q \in DOMAIN tree => o.tree[q] = tree[q]
=============================================================================
