-------------------------------- MODULE Session --------------------------------
(* The shell from one command to the next: how a name finds its program         *)
(* (registry.rs, exec.rs), and the programs that change the shell, cd, export,  *)
(* unset, alias, unalias, read and those of the host (builtins.rs, wasm.rs),    *)
(* through a ProgramContext (shell.rs).                                         *)
(*                                                                              *)
(* A text is what lies between its slashes: "/a" is <<"", "a">>, "a/" is        *)
(* <<"a", "">>, "" is <<"">>.  The value of a variable is what lies between its *)
(* colons, a sequence of texts; that of an alias is its words.  The empty value *)
(* is <<<<"">>>>.                                                               *)
EXTENDS Naturals, Sequences, SequencesExt, FiniteSets, FiniteSetsExt

CONSTANTS
    Segments,     \* what is between two slashes: names, dots, nothing
    Lines,        \* command lines: sequences of words
    Texts,        \* the texts a path is written as
    Values,       \* what variables are set to
    HostVars,     \* the variables the host sets
    HostNames,    \* the names the host registers programs under
    Dirs          \* directories that may come and go

VARIABLES
    programs,  \* the registry: from paths to programs
    env,       \* the shell's variables
    cwd,       \* its working directory
    aliases,   \* its aliases
    ctx,       \* the context of the program that runs, or NoProgram
    last,      \* the command that has just returned, or NoCommand
    dirs       \* the directories of the filesystem

shell == <<env, cwd, aliases>>
vars == <<programs, env, cwd, aliases, ctx, last, dirs>>

\* A word of a command line.  One that holds a `=` also has what is on each side of it.
\* The words of an alias hold none.
Word(text) == [text |-> text, set |-> FALSE, name |-> text, value |-> <<>>]
Assign(text, name, value) == [text |-> text, set |-> TRUE, name |-> name, value |-> value]

\* What a text, a value and a word are; only a word with a `=` has a value.
Text == Seq(Segments) \ {<<>>}
Value == Seq(Text) \ {<<>>}
EmptyValue == <<<<"">>>>
Words == {w \in [text : Text, set : BOOLEAN, name : Text, value : Seq(Text)] :
             IF w.set THEN w.value # <<>> ELSE w.name = w.text}

Builtins == {"cd", "export", "unset", "alias", "unalias", "read", "echo"}

ASSUME SessionAssumption ==
    /\ Builtins \cup {"", "usr", "bin", "local", "home", "PATH", "HOME", "REPLY"} \subseteq Segments
    /\ \A line \in Lines : line \in Seq(Words) /\ line # <<>> /\ ~line[1].set
    /\ Texts \cup HostNames \cup HostVars \cup Dirs \subseteq Text
    /\ Values \subseteq Value

(* --------------------------------- paths ---------------------------------- *)

Root == <<"", "">>
Slashed(text) == Len(text) > 1
Absolute(text) == Slashed(text) /\ Head(text) = ""

NormalizePath_KeepsDot(text) ==   \* mutant: "." is taken for a name
    LET Take(parts, seg) ==
            CASE seg = "" -> parts
              [] seg = ".." -> IF parts = <<>> THEN <<>> ELSE Front(parts)
              [] OTHER -> Append(parts, seg)
        parts_ == FoldLeft(Take, <<>>, text)
    IN IF parts_ = <<>> THEN Root ELSE <<"">> \o parts_

\* A segment is nothing, a step up, or a name.
Push(parts, seg) ==
    CASE seg \in {"", "."} -> parts
      [] seg = ".." -> IF parts = <<>> THEN <<>> ELSE Front(parts)
      [] OTHER -> Append(parts, seg)
Parts(text) == FoldLeft(Push, <<>>, text)
NormalizePath(text) == IF Parts(text) = <<>> THEN Root ELSE <<"">> \o Parts(text)

ResolvePath(from, text) ==
    IF Absolute(text) THEN NormalizePath(text) ELSE NormalizePath(from \o text)

(* ------------------------------ the registry ------------------------------- *)

UsrBin(name) == <<"", "usr", "bin", name>>
CanonicalProgramPath(name) ==
    IF Slashed(name) THEN NormalizePath(name) ELSE UsrBin(name[1])

DefaultPath == <<<<"", "usr", "bin">>, <<"", "bin">>, <<"", "usr", "local", "bin">>>>
PATH == <<"PATH">>
HOME == <<"HOME">>
PathVar == IF PATH \in DOMAIN env THEN env[PATH] ELSE DefaultPath

\* The name in a directory whose text is stripped of the slashes at its end.
Inside(dir, name) ==
    SubSeq(dir, 1, Max({1} \cup {i \in DOMAIN dir : dir[i] # ""})) \o name

NotThere == <<>>
First(paths) ==
    LET hits == {i \in DOMAIN paths : paths[i] \in DOMAIN programs}
    IN IF hits = {} THEN NotThere ELSE paths[Min(hits)]

FindPath_Untrimmed(name) ==   \* mutant: a slash at the end of an entry stays
    IF Slashed(name) THEN First(<<NormalizePath(name)>>)
    ELSE First([i \in DOMAIN PathVar |-> PathVar[i] \o name])

FindPath(name) ==
    IF Slashed(name) THEN First(<<NormalizePath(name)>>)
    ELSE First([i \in DOMAIN PathVar |-> Inside(PathVar[i], name)])

\* The program itself; the code looks it up on its own.
Resolve(name) ==
    LET paths == IF Slashed(name) THEN <<NormalizePath(name)>>
                 ELSE [i \in DOMAIN PathVar |-> Inside(PathVar[i], name)]
        at == First(paths)
    IN IF at = NotThere THEN "missing" ELSE programs[at]

(* -------------------------------- commands -------------------------------- *)

Intrinsics == {"exit", "source", ".", "xargs", "which", "type"}
IsIntrinsic(name) == ~Slashed(name) /\ name[1] \in Intrinsics

\* What runs under a name: an intrinsic, or what the registry has.
Dispatched(name) == IF IsIntrinsic(name) THEN name[1] ELSE Resolve(name)

NoCommand == [ran |-> "none", ops |-> <<>>, code |-> 0]
NoProgram == [runs |-> "none"]
Idle == ctx = NoProgram
\* The line that is run: an alias, unless it is empty, gives way to its words.
Expanded(line) ==
    LET name == line[1].text
    IN IF name \in DOMAIN aliases /\ aliases[name] # EmptyValue
       THEN [i \in DOMAIN aliases[name] |-> Word(aliases[name][i])] \o Tail(line)
       ELSE line
Called(line) == Expanded(line)[1].text
Operands(line) == Tail(Expanded(line))

Answer(ran, ops, code) == last' = [ran |-> ran, ops |-> ops, code |-> code]

Exit(line) ==
    /\ Idle /\ Dispatched(Called(line)) = "exit"
    /\ Answer("exit", Operands(line), 0)
    /\ UNCHANGED <<programs, shell, ctx, dirs>>

\* `which` looks names up one by one; one that is not found fails it.
Which(line) ==
    LET ops == Operands(line)
        found == \A i \in DOMAIN ops : FindPath(ops[i].text) # NotThere
    IN /\ Idle /\ Dispatched(Called(line)) = "which"
       /\ Answer("which", ops, IF ops # <<>> /\ found THEN 0 ELSE 1)
       /\ UNCHANGED <<programs, shell, ctx, dirs>>

TypeOf(name) ==
    IF name \in DOMAIN aliases THEN [is |-> "alias", at |-> aliases[name]]
    ELSE IF IsIntrinsic(name) THEN [is |-> "builtin", at |-> <<name>>]
    ELSE IF FindPath(name) # NotThere THEN [is |-> "file", at |-> <<FindPath(name)>>]
    ELSE [is |-> "missing", at |-> <<>>]

\* `type` never fails, but for want of a name.
Type(line) ==
    /\ Idle /\ Dispatched(Called(line)) = "type"
    /\ Answer("type", Operands(line), IF Operands(line) = <<>> THEN 1 ELSE 0)
    /\ UNCHANGED <<programs, shell, ctx, dirs>>

\* Nothing there is a 126 for a name with a slash, a 127 for one without.
Missing(line) ==
    /\ Idle /\ Dispatched(Called(line)) = "missing"
    /\ Answer("missing", Operands(line), IF Slashed(Called(line)) THEN 126 ELSE 127)
    /\ UNCHANGED <<programs, shell, ctx, dirs>>

\* What a program takes of its operands: cd and read the first, or what stands for it.
Taken(program, ops) ==
    CASE program = "cd" /\ ops = <<>> ->
             <<Word(IF HOME \in DOMAIN env THEN env[HOME][1] ELSE Root)>>
      [] program = "read" /\ ops = <<>> -> <<Word(<<"REPLY">>)>>
      [] program \in {"cd", "read"} /\ ops # <<>> -> <<ops[1]>>
      [] program \in {"echo", "host"} -> <<>>
      [] OTHER -> ops

\* A program starts, on copies of the shell's variables, directory and aliases.
StartProgram(line) ==
    LET program == Dispatched(Called(line))
        ops == Operands(line)
    IN /\ Idle /\ program \in Builtins \cup {"host"}
       /\ ctx' = [runs |-> program, ops |-> ops, todo |-> Taken(program, ops),
                  env |-> env, cwd |-> cwd, aliases |-> aliases, code |-> 0]
       /\ last' = NoCommand
       /\ UNCHANGED <<programs, shell, dirs>>

(* ------------------------- programs, on their copies ----------------------- *)

With(f, k, x) == [y \in DOMAIN f \cup {k} |-> IF y = k THEN x ELSE f[y]]
Without(f, k) == [y \in DOMAIN f \ {k} |-> f[y]]

\* The next operand is the program's to deal with.
Takes(program, changed) ==
    /\ ctx.runs = program
    /\ ctx' = [changed EXCEPT !.todo = Tail(@)]
    /\ UNCHANGED <<programs, shell, last, dirs>>
Operand == Head(ctx.todo)
More(program) == ctx.runs = program /\ ctx.todo # <<>>

Cd ==
    /\ More("cd")
    /\ LET target == ResolvePath(ctx.cwd, Operand.text)
       IN Takes("cd", IF target \in dirs THEN [ctx EXCEPT !.cwd = target]
                      ELSE [ctx EXCEPT !.code = 1])

\* A name without a value is passed over.
Export ==
    /\ More("export")
    /\ Takes("export", IF Operand.set
                       THEN [ctx EXCEPT !.env = With(@, Operand.name, Operand.value)]
                       ELSE ctx)

\* The operand is the name, to its end, a `=` in it or not.
Unset ==
    /\ More("unset")
    /\ Takes("unset", [ctx EXCEPT !.env = Without(@, Operand.text)])

\* The first line of what stdin holds.
Read ==
    /\ More("read")
    /\ \E x \in Values : Takes("read", [ctx EXCEPT !.env = With(@, Operand.text, x)])

Alias_LastCounts ==   \* mutant: the exit code is that of the last operand
    /\ More("alias")
    /\ Takes("alias", IF Operand.set
                      THEN [ctx EXCEPT !.aliases = With(@, Operand.name, Operand.value), !.code = 0]
                      ELSE [ctx EXCEPT !.code =
                              IF Operand.text \in DOMAIN ctx.aliases THEN 0 ELSE 1])

Alias ==
    /\ More("alias")
    /\ Takes("alias", IF Operand.set
                      THEN [ctx EXCEPT !.aliases = With(@, Operand.name, Operand.value)]
                      ELSE [ctx EXCEPT !.code =
                              IF Operand.text \in DOMAIN ctx.aliases THEN @ ELSE 1])

Unalias ==
    /\ More("unalias")
    /\ Takes("unalias", IF Operand.text = <<"-a">> THEN [ctx EXCEPT !.aliases = <<>>]
                        ELSE [ctx EXCEPT !.aliases = Without(@, Operand.text),
                                         !.code = IF Operand.text \in DOMAIN ctx.aliases
                                                  THEN @ ELSE 1])

\* A program of the host is given a few calls only.
HostProgramSets(v, x) ==
    /\ ctx.runs = "host"
    /\ ctx' = [ctx EXCEPT !.env = With(@, v, x)]
    /\ UNCHANGED <<programs, shell, last, dirs>>

HostProgramUnsets(v) ==
    /\ ctx.runs = "host"
    /\ ctx' = [ctx EXCEPT !.env = Without(@, v)]
    /\ UNCHANGED <<programs, shell, last, dirs>>

\* The copies become the shell's.
Return(code) ==
    /\ ~Idle /\ ctx.todo = <<>>
    /\ ctx.runs # "host" => code = ctx.code
    /\ env' = ctx.env /\ cwd' = ctx.cwd /\ aliases' = ctx.aliases
    /\ Answer(ctx.runs, ctx.ops, code)
    /\ ctx' = NoProgram
    /\ UNCHANGED <<programs, dirs>>

\* The host's callback throws: the copies are dropped and exec is rejected.
HostProgramFails ==
    /\ ctx.runs = "host"
    /\ Answer("failed", ctx.ops, 1)
    /\ ctx' = NoProgram
    /\ UNCHANGED <<programs, shell, dirs>>

(* -------------------------- the host, between commands --------------------- *)

AddProgram(name) ==
    /\ Idle
    /\ programs' = With(programs, CanonicalProgramPath(name), "host")
    /\ UNCHANGED <<shell, ctx, last, dirs>>

SetEnv(v, x) ==
    /\ Idle
    /\ env' = With(env, v, x)
    /\ UNCHANGED <<programs, cwd, aliases, ctx, last, dirs>>

SetCwd_AsIs(text) ==   \* mutant: the text is kept as it is given
    /\ Idle
    /\ cwd' = text
    /\ UNCHANGED <<programs, env, aliases, ctx, last, dirs>>

SetCwd(text) ==
    /\ Idle
    /\ cwd' = NormalizePath(text)
    /\ UNCHANGED <<programs, env, aliases, ctx, last, dirs>>

\* Other commands, and the hosts of mounts, make and remove directories.
DirsChange ==
    /\ \E d \in Dirs : dirs' = IF d \in dirs THEN dirs \ {d} ELSE dirs \cup {d}
    /\ UNCHANGED <<programs, shell, ctx, last>>

InitEnv == With(With(<<>>, PATH, DefaultPath), HOME, <<<<"", "home">>>>)

Init ==
    /\ programs = [p \in {UsrBin(b) : b \in Builtins} |-> Last(p)]
    /\ env = InitEnv
    /\ cwd = Root
    /\ aliases = <<>>
    /\ ctx = NoProgram
    /\ last = NoCommand
    /\ dirs = {Root}

Next ==
    \/ \E line \in Lines :
          Exit(line) \/ Which(line) \/ Type(line) \/ Missing(line) \/ StartProgram(line)
    \/ Cd \/ Export \/ Unset \/ Read \/ Alias \/ Unalias
    \/ \E v \in HostVars : HostProgramUnsets(v) \/ \E x \in Values : HostProgramSets(v, x)
    \/ \E code \in {0, 1} : Return(code)
    \/ HostProgramFails
    \/ \E name \in HostNames : AddProgram(name)
    \/ \E v \in HostVars, x \in Values : SetEnv(v, x)
    \/ \E text \in Texts : SetCwd(text)
    \/ DirsChange

Spec == Init /\ [][Next]_vars

(* ------------------------------- properties ------------------------------- *)

\* What a path means, without a stack: a name stands unless what follows it takes more
\* steps up than down at some point.
IsName(seg) == seg \notin {"", ".", ".."}
Ups(text, i, j) == Cardinality({k \in i .. j : text[k] = ".."})
Downs(text, i, j) == Cardinality({k \in i .. j : IsName(text[k])})
Stands(text) ==
    {i \in DOMAIN text :
        /\ IsName(text[i])
        /\ \A j \in i + 1 .. Len(text) : Ups(text, i + 1, j) <= Downs(text, i + 1, j)}

\* The k-th smallest of a set of numbers.
Nth(set, k) == CHOOSE i \in set : Cardinality({j \in set : j <= i}) = k

Standing(text) ==
    IF Stands(text) = {} THEN Root
    ELSE <<"">> \o [k \in 1 .. Cardinality(Stands(text)) |-> text[Nth(Stands(text), k)]]

(* Variables, aliases and running programs have their shape; the working        *)
(* directory and the keys of the registry are normalised paths, however they    *)
(* were given (vfs.rs:58, wasm.rs:613, registry.rs:90), but for a key without a *)
(* slash, which goes to /usr/bin as it is.                                      *)
TypeOK ==
    /\ Range(programs) \subseteq Builtins \cup {"host"}
    /\ \A t \in DOMAIN programs : t = Standing(t) \/ t = UsrBin(Last(t))
    /\ cwd = Standing(cwd)
    /\ \A k \in DOMAIN env : env[k] \in Value
    /\ \A k \in DOMAIN aliases : aliases[k] \in Value
    /\ Idle \/ (ctx.runs \in Builtins \cup {"host"} /\ ctx.code \in {0, 1} /\ ctx.cwd = Standing(ctx.cwd))

\* What runs under a name, as FindPath has it.
Meaning(name) ==
    IF IsIntrinsic(name) THEN name[1]
    ELSE IF FindPath(name) = NotThere THEN "missing" ELSE programs[FindPath(name)]

(* What `type` says of a name, whatever earlier commands have made of aliases,  *)
(* PATH and the registry, is what runs when it is called: three places look     *)
(* names up (exec.rs:377, 407, 435; registry.rs:47, 69).  An alias runs what    *)
(* its first word names, which is not taken for an alias again; an empty one is *)
(* passed over.                                                                 *)
TypeIsRight ==
    \A line \in Lines :
        LET name == line[1].text
            t == TypeOf(name)
            runs == Dispatched(Called(line))
        IN CASE t.is = "alias" -> runs = Meaning(IF t.at = EmptyValue THEN name ELSE t.at[1])
             [] t.is = "builtin" -> runs = name[1]
             [] t.is = "file" -> runs = programs[t.at[1]]
             [] t.is = "missing" -> runs = "missing"

(* Names mean after `cd d` what they meant behind `d` before it: going there    *)
(* one component, one `..`, one slash too many at a time loses nothing          *)
(* (builtins.rs:1483, vfs.rs:58, 75).                                           *)
CdThenName ==
    [][ctx.runs = "cd" /\ ctx.ops # <<>> /\ ctx'.runs = "none" /\ last'.code = 0 =>
         LET d == ctx.ops[1].text
             from == IF Absolute(d) THEN d ELSE cwd \o d
         IN \A t \in Texts : ~Absolute(t) => ResolvePath(cwd', t) = Standing(from \o t)]_vars

\* What the words of an alias bring: all but the first.
Brought(v) == [i \in 1 .. Len(v) - 1 |-> Word(v[i + 1])]

\* The values in the words of the lines, and the empty one.
LineValues == {w.value : w \in UNION {Range(line) : line \in Lines}} \cup {EmptyValue}

\* The operands a program may be given, those an alias brings among them.
OperandLists == {Brought(v) \o Tail(line) : v \in LineValues, line \in Lines}

(* A command is one step for the shell: what comes of the copies a program      *)
(* works on, operand by operand, is all of what its operands say or, when it    *)
(* fails, nothing; the exit code tells of every operand, not only of the last;  *)
(* and no program changes what it has no business with (exec.rs:435-458,        *)
(* builtins.rs:1483-1559, 1807-1966).  What becomes of a name that `export` is  *)
(* given without a value it leaves open: the comment at builtins.rs:1547 and    *)
(* the code disagree.                                                           *)
Effects == INSTANCE CommandEffects WITH Place <- ResolvePath
CommandsAreAtomic == Effects!Spec
=============================================================================
