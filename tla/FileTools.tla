------------------------------ MODULE FileTools ------------------------------
(***************************************************************************)
(* The built-ins that change files: mkdir, rm, mv, cp and touch of         *)
(* crates/wasm_shell/src/builtins.rs, over the tree of Vfs.                *)
(*                                                                         *)
(* A program calls the VFS once per step and may fail at each.  It works   *)
(* through its operands one by one; `cp -r` keeps a stack of directories   *)
(* it is in, each with the entries it listed and has not copied yet.       *)
(***************************************************************************)
EXTENDS Naturals, Sequences, FiniteSets, SequencesExt

CONSTANTS
    Names, Contents, NoBytes, MaxDepth, InitTree,  \* as in Vfs
    Commands,      \* the command lines run
    MaxCommands    \* bound: commands run one after the other

VARIABLES
    tree,     \* the in-memory tree
    cmd,      \* the command that runs, or NoCommand
    todo,     \* its operands not yet looked at
    into,     \* mv, cp: was the last operand a directory when it began?
    work,     \* cp -r: the directories being copied, innermost first
    code,     \* its exit code so far
    commands, \* commands begun
    start     \* history: the tree when the command began

vars == <<tree, cmd, todo, into, work, code, commands, start>>

\* The filesystem, with nothing mounted.
V == INSTANCE Vfs WITH MountPoints <- {}, HostFiles <- {}, mounts <- <<>>, hosts <- <<>>

ASSUME TreeAssumption ==
    MaxDepth \in Nat /\ NoBytes \in Contents /\ V!IsTree(InitTree)

\* An operand is a path, and whether its text names it: "/" and "." name nothing.
Operands == [path : V!Paths, named : BOOLEAN]

\* mv and cp turn a line down that has no source or no destination.
ASSUME CommandAssumption ==
    /\ MaxCommands \in Nat
    /\ \A c \in Commands :
          /\ DOMAIN c = {"tool", "recursive", "force", "operands"}
          /\ c.recursive \in BOOLEAN /\ c.force \in BOOLEAN
          /\ c.operands \in Seq(Operands)
          /\ c.tool \in {"mkdir", "rm", "touch", "mv", "cp"}
          /\ c.tool \in {"mv", "cp"} =>
                /\ Len(c.operands) >= 2
                /\ \A k \in DOMAIN c.operands :
                      c.operands[k].named => c.operands[k].path # <<>>

NoCommand == [tool |-> "none"]
Running == cmd # NoCommand

\* mv and cp take their last operand for the destination.
Sources(c) == IF c.tool \in {"mv", "cp"} THEN Front(c.operands) ELSE c.operands
Dst == Last(cmd.operands).path

\* Where a source goes.  Its name is what follows the last "/" of its text: a
\* text that ends in "/" or "." names nothing, and stands for the directory itself.
Target(src) == IF into /\ src.named THEN Append(Dst, Last(src.path)) ELSE Dst

Init ==
    /\ tree = InitTree
    /\ cmd = NoCommand
    /\ todo = <<>>
    /\ into = FALSE
    /\ work = <<>>
    /\ code = 0
    /\ commands = 0
    /\ start = InitTree

Begin(c) ==
    /\ ~Running /\ commands < MaxCommands
    /\ cmd' = c
    /\ todo' = Sources(c)
    /\ into' = (c.tool \in {"mv", "cp"} /\ V!IsDir(tree, Last(c.operands).path))
    /\ code' = 0
    /\ commands' = commands + 1
    /\ start' = tree
    /\ UNCHANGED <<tree, work>>

\* The next operand is the tool's to deal with.
Takes(tool) ==
    /\ Running /\ cmd.tool = tool
    /\ todo # <<>> /\ work = <<>>
    /\ todo' = Tail(todo)
    /\ UNCHANGED <<cmd, into, commands, start>>

Src == Head(todo)

\* An operation of the VFS, and what an error of it does to the exit code.
Do(o) ==
    /\ tree' = o.tree
    /\ code' = IF o.res = "ok" THEN code ELSE 1

Mkdir ==
    /\ Takes("mkdir")
    /\ Do(IF cmd.recursive THEN V!MemMkdirParents(tree, Src.path)
          ELSE V!MemMkdir(tree, Src.path))
    /\ UNCHANGED work

\* -f hides the failures.
Rm ==
    /\ Takes("rm")
    /\ LET o == V!MemRemove(tree, Src.path, cmd.recursive)
       IN Do(IF cmd.force THEN [o EXCEPT !.res = "ok"] ELSE o)
    /\ UNCHANGED work

\* What is there stays as it is.
Touch ==
    /\ Takes("touch")
    /\ Do(IF Src.path \in DOMAIN tree THEN V!Outcome("ok", tree)
          ELSE V!MemWrite(tree, Src.path, NoBytes))
    /\ UNCHANGED work

\* Bound: nothing is moved or copied below MaxDepth.
Fits(from, to) == \A r \in DOMAIN V!Subtree(tree, from) : to \o r \in V!Paths

Mv_Onto ==   \* mutant: onto the destination, directory or not
    /\ Takes("mv")
    /\ Fits(Src.path, Dst)
    /\ Do(V!MemRename(tree, Src.path, Dst))
    /\ UNCHANGED work

Mv ==
    /\ Takes("mv")
    /\ Fits(Src.path, Target(Src))
    /\ Do(V!MemRename(tree, Src.path, Target(Src)))
    /\ UNCHANGED work
-----------------------------------------------------------------------------
(* cp *)

\* Vfs::copy: reads, then writes.
CopyOf(from, to) ==
    LET read == V!MemRead(tree, from)
    IN IF read.res # "ok" THEN V!Outcome(read.res, tree)
       ELSE V!MemWrite(tree, to, read.data)

CopyFile ==
    /\ Takes("cp")
    /\ ~V!IsDir(tree, Src.path)
    /\ Target(Src) \in V!Paths
    /\ Do(CopyOf(Src.path, Target(Src)))
    /\ UNCHANGED work

SkipDir ==
    /\ Takes("cp")
    /\ V!IsDir(tree, Src.path) /\ ~cmd.recursive
    /\ code' = 1
    /\ UNCHANGED <<tree, work>>

Enter_ListsTarget(from, to, below) ==   \* mutant: the wrong one of the two is listed
    /\ to \in V!Paths
    /\ tree' = V!MemMkdirParents(tree, to).tree
    /\ work' = <<[from |-> from, to |-> to,
                  left |-> {Last(p) : p \in V!Children(tree', to)}]>> \o below

(***************************************************************************)
(* cp_recursive begins: it makes the target, whether it can or not, and    *)
(* lists the source.  Any order of the entries may be met.                 *)
(***************************************************************************)
Enter(from, to, below) ==
    /\ to \in V!Paths
    /\ tree' = V!MemMkdirParents(tree, to).tree
    /\ work' = <<[from |-> from, to |-> to,
                  left |-> {Last(p) : p \in V!Children(tree', from)}]>> \o below

CopyDir ==
    /\ Takes("cp")
    /\ V!IsDir(tree, Src.path) /\ cmd.recursive
    /\ Enter(Src.path, Target(Src), <<>>)
    /\ UNCHANGED code

Rest(n) == <<[Head(work) EXCEPT !.left = @ \ {n}]>> \o Tail(work)

CopyEntry_Goes_On(n) ==   \* mutant: an entry that cannot be copied is passed over
    /\ Running /\ work # <<>> /\ n \in Head(work).left
    /\ LET from == Append(Head(work).from, n)
           to == Append(Head(work).to, n)
       IN IF V!IsDir(tree, from) THEN Enter(from, to, Rest(n)) /\ UNCHANGED code
          ELSE /\ to \in V!Paths
               /\ tree' = CopyOf(from, to).tree
               /\ work' = Rest(n)
               /\ UNCHANGED code
    /\ UNCHANGED <<cmd, todo, into, commands, start>>

CopyEntry_Twice(n) ==   \* mutant: a directory copied is not taken off the list
    /\ Running /\ work # <<>> /\ n \in Head(work).left
    /\ LET from == Append(Head(work).from, n)
           to == Append(Head(work).to, n)
       IN IF V!IsDir(tree, from) THEN Enter(from, to, work) /\ UNCHANGED code
          ELSE /\ to \in V!Paths
               /\ Do(CopyOf(from, to))
               /\ work' = IF code' = code THEN Rest(n) ELSE <<>>
    /\ UNCHANGED <<cmd, todo, into, commands, start>>

CopyEntry_ToTheTop(n) ==   \* mutant: what lies deeper goes where the operand goes
    /\ Running /\ work # <<>> /\ n \in Head(work).left
    /\ LET from == Append(Head(work).from, n)
           to == Append(Last(work).to, n)
       IN IF V!IsDir(tree, from) THEN Enter(from, to, Rest(n)) /\ UNCHANGED code
          ELSE LET o == CopyOf(from, to)
               IN /\ to \in V!Paths
                  /\ Do(o)
                  /\ work' = IF o.res = "ok" THEN Rest(n) ELSE <<>>
    /\ UNCHANGED <<cmd, todo, into, commands, start>>

\* An entry: a directory is entered in turn; an error ends the whole operand.
CopyEntry(n) ==
    /\ Running /\ work # <<>> /\ n \in Head(work).left
    /\ LET from == Append(Head(work).from, n)
           to == Append(Head(work).to, n)
       IN IF V!IsDir(tree, from) THEN Enter(from, to, Rest(n)) /\ UNCHANGED code
          ELSE LET o == CopyOf(from, to)
               IN /\ to \in V!Paths
                  /\ Do(o)
                  /\ work' = IF o.res = "ok" THEN Rest(n) ELSE <<>>
    /\ UNCHANGED <<cmd, todo, into, commands, start>>

LeaveDir ==
    /\ Running /\ work # <<>> /\ Head(work).left = {}
    /\ work' = Tail(work)
    /\ UNCHANGED <<tree, cmd, todo, into, code, commands, start>>
-----------------------------------------------------------------------------
Finish ==
    /\ Running /\ todo = <<>> /\ work = <<>>
    /\ cmd' = NoCommand
    /\ into' = FALSE
    /\ code' = 0
    /\ start' = InitTree
    /\ UNCHANGED <<tree, todo, work, commands>>

Step ==
    \/ Mkdir \/ Rm \/ Touch \/ Mv
    \/ CopyFile \/ SkipDir \/ CopyDir \/ (\E n \in Names : CopyEntry(n)) \/ LeaveDir
    \/ Finish

Next == (\E c \in Commands : Begin(c)) \/ Step

Spec == Init /\ [][Next]_vars

\* A program that runs goes on; nobody is obliged to run one.
FairSpec == Spec /\ WF_vars(Step)
-----------------------------------------------------------------------------
(* What the tools promise. *)

\* What is left of the operands is a tail of them; a tool that does not run holds
\* nothing; cp descends into directories, each an entry of the one before, and what
\* it listed and has not copied is still there (builtins.rs:583-603 holds paths, not
\* nodes, across its awaits).
TypeOK ==
    /\ V!IsTree(tree) /\ code \in {0, 1}
    /\ Running => IsSuffix(todo, Sources(cmd))
    /\ ~Running => todo = <<>> /\ work = <<>>
    /\ \A k \in DOMAIN work :
          /\ V!IsDir(tree, work[k].from)
          /\ k > 1 => Front(work[k - 1].from) = work[k].from
          /\ \A n \in work[k].left : Append(work[k].from, n) \in DOMAIN tree

\* What a command may do away with: what it removes or moves, what a file or
\* directory is moved onto, and the files that are copied over.  mkdir and touch do
\* away with nothing, cp with no directory and no device.
Below(p, q) == IsPrefix(q, p)
Concerned(p) ==
    \E k \in DOMAIN Sources(cmd) :
       LET s == Sources(cmd)[k]
       IN \/ cmd.tool \in {"rm", "mv"} /\ Below(p, s.path)
          \/ cmd.tool = "mv" /\ Below(p, Target(s))
          \/ cmd.tool = "cp" /\ start[p].kind = "file" /\ Below(p, Target(s))

\* Does mv put an operand not into the directory named last but in its place?  Of
\* `mv d/ e` the name after the last slash is empty (builtins.rs:506).
MovesOnto == cmd.tool = "mv" /\ into /\ \E k \in DOMAIN Sources(cmd) : ~Sources(cmd)[k].named

\* At every moment of a command what was there and is not its to do away with is
\* still as it was, the failures on the way included: mv and cp into a directory
\* leave its other entries, cp -r every directory it comes to, rm what lies beside,
\* mkdir and touch everything (builtins.rs:418-628).  It is not said of an mv that is
\* handed a name that ends in a slash and a directory to move into, for which the
\* comment "If dst is a directory, move each src into it." (builtins.rs:501) is wrong:
\* the directory is replaced.
OthersUntouched ==
    Running /\ ~MovesOnto =>
       \A p \in DOMAIN start : (p \in DOMAIN tree /\ tree[p] = start[p]) \/ Concerned(p)

\* No two of the paths the command moves things between touch each other.
Apart(p, q) == ~Below(p, q) /\ ~Below(q, p)
Separate ==
    LET S == Sources(cmd)
    IN /\ \A j, k \in DOMAIN S :
             /\ Apart(S[j].path, Target(S[k]))
             /\ j # k => Apart(S[j].path, S[k].path) /\ Apart(Target(S[j]), Target(S[k]))

\* A readable file under a source reads the same under its target, unless a
\* device was there to swallow it.
Copied(s) ==
    \A r \in DOMAIN V!Subtree(start, s.path) :
       LET read == V!MemRead(start, s.path \o r)
           to == Target(s) \o r
       IN start[s.path \o r].kind = "file" =>
            \/ to \in DOMAIN start /\ start[to].kind \in {"null", "device"}
            \/ V!MemRead(tree, to) = read

\* A command that exits with 0 has done what it was asked, for every operand,
\* however many steps that took: an error in the middle of one is never lost.  Nothing
\* is said of an mv of a name that ends in a slash into a directory, nor of mv and cp
\* of paths that touch each other.
SuccessIsTrue ==
    Running /\ todo = <<>> /\ work = <<>> /\ code = 0 =>
       \A k \in DOMAIN Sources(cmd) :
          LET s == Sources(cmd)[k]
          IN CASE cmd.tool = "mkdir" -> V!IsDir(tree, s.path)
               [] cmd.tool = "touch" ->
                     /\ s.path \in DOMAIN tree
                     /\ s.path \in DOMAIN start => tree[s.path] = start[s.path]
               [] cmd.tool = "rm" -> cmd.force \/ s.path \notin DOMAIN tree
               [] cmd.tool = "mv" -> Separate /\ ~MovesOnto =>
                     /\ s.path \notin DOMAIN tree
                     /\ V!Subtree(tree, Target(s)) = V!Subtree(start, s.path)
               [] cmd.tool = "cp" -> Separate => Copied(s)

\* What is at p is what was there, or a directory on the way to a target, or reads as
\* its like in a source, as far below the source as it is below its target.
InPlace(p) ==
    \/ p \in DOMAIN start /\ tree[p] = start[p]
    \/ \E k \in DOMAIN Sources(cmd) :
          LET s == Sources(cmd)[k]
          IN \/ Below(Target(s), p) /\ tree[p] = V!Dir
             \/ \E r \in DOMAIN V!Subtree(start, s.path) :
                   /\ p = Target(s) \o r
                   /\ V!MemRead(tree, p) = V!MemRead(start, s.path \o r)

\* At every moment of a cp, the failed ones included, nothing is in the wrong place:
\* cp -r holds the paths of two directories and a list of names across its awaits,
\* level within level, and puts them together anew for each entry
\* (builtins.rs:583-603).
CopiesAreInPlace ==
    Running /\ cmd.tool = "cp" /\ Separate => \A p \in DOMAIN tree : InPlace(p)

\* Does cp -r copy a directory into itself?  Each level it makes is then listed as
\* one more entry to copy, and it goes on for ever (builtins.rs:583-603).
CopiesIntoItself ==
    cmd.tool = "cp" /\ \E k \in DOMAIN Sources(cmd) :
       LET s == Sources(cmd)[k] IN Target(s) # s.path /\ Below(Target(s), s.path)

\* Every other command comes to its end.
ToolsEnd == Running /\ ~CopiesIntoItself ~> ~Running
=============================================================================
