--------------------------------- MODULE Exec ---------------------------------
(***************************************************************************)
(* The execution engine: crates/wasm_shell/src/exec.rs, with the word      *)
(* expansion (expand.rs) and the program context (shell.rs) it calls.      *)
(*                                                                         *)
(* A script is a tree of commands.  The engine's nested async functions    *)
(* are a stack of frames, innermost first, and `ctl` says what the         *)
(* innermost one is doing: starting a command, taking the next step of a   *)
(* simple command, using an expanded word, or handing a result outwards.   *)
(* A text is a sequence of chunks no property looks into; writers are      *)
(* shared buffers, named by their place in `bufs`.                         *)
(***************************************************************************)
EXTENDS Naturals, Sequences, SequencesExt

CONSTANTS
    Cmds,       \* the commands of the scripts
    Ast,        \* the node each of them is
    Scripts,    \* the scripts exec() is given: sequences of commands
    Inputs,     \* the stdin it is given
    Parse,      \* what file texts that are scripts parse to
    Vars,       \* variables
    Unset,      \* the value of a variable that is not set
    Programs,   \* registered programs: the outcomes a run of each may have
    Slashed,    \* command names that contain a slash
    Show,       \* exit codes as text
    Message,    \* the chunk of an error message
    ReadOnly,   \* file names the VFS refuses to write
    Unreadable, \* file names a mount takes writes of and fails to read
    Home,       \* the first working directory
    MaxExecs    \* bound: calls of exec()

ASSUME ExecsAssumption == MaxExecs \in Nat
\* The codes the engine itself returns, and those of programs, can be shown.
ASSUME StatusAssumption == {0, 1, 126, 127} \subseteq DOMAIN Show
ASSUME ProgramsAssumption ==
    \A name \in DOMAIN Programs : \A o \in Programs[name] :
       o.res.kind = "err" \/ o.res.code \in DOMAIN Show

VARIABLES
    env,        \* the shell's variables
    cwd,        \* its working directory
    aliases,    \* its aliases: the words each stands for
    last_exit,  \* $?
    files,      \* the files of the VFS, by directory and name
    bufs,       \* what each writer of this exec has been given
    stack,      \* the frames of the running functions
    ctl,        \* what the innermost one does
    execs,      \* calls of exec() so far
    done,       \* history: status of the command that finished last
    sealed      \* history: the buffers already read out

vars == <<env, cwd, aliases, last_exit, files, bufs, stack, ctl, execs, done, sealed>>
shell == <<env, cwd, aliases, last_exit>>
history == <<execs, done, sealed>>

Result(kind, code) == [kind |-> kind, code |-> code]
Ok(code) == Result("ok", code)
Exit(code) == Result("exit", code)
Err == Result("err", 1)

Io(in, out, err) == [in |-> in, out |-> out, err |-> err]

Idle == [at |-> "idle"]
Start(c, io) == [at |-> "start", cmd |-> c, io |-> io]
Step == [at |-> "step"]
Word(text) == [at |-> "word", text |-> text]
Return(res) == [at |-> "return", res |-> res]

Top == Head(stack)
In(kind) == stack # <<>> /\ Top.at = kind
Returning == ctl.at = "return"
Succeeded == Returning /\ ctl.res.kind = "ok"

Init ==
    /\ env = [v \in Vars |-> Unset]
    /\ cwd = Home
    /\ aliases = <<>>
    /\ last_exit = 0
    /\ files = <<>>
    /\ bufs = <<>>
    /\ stack = <<>>
    /\ ctl = Idle
    /\ execs = 0
    /\ done = 0
    /\ sealed = {}
-----------------------------------------------------------------------------
(* Scripts and lists. *)

\* execute_script, called from the frames below; an empty script just succeeds.
RunScript(script, io, below) ==
    IF script = <<>>
      THEN stack' = below /\ ctl' = Return(Ok(0))
      ELSE /\ stack' = <<[at |-> "script", rest |-> Tail(script), io |-> io]>> \o below
           /\ ctl' = Start(Head(script), io)

\* exec(), with what setStdin() left: buffers 1 and 2 collect stdout and stderr.
StartExec(script, in) ==
    /\ ctl = Idle
    /\ execs < MaxExecs
    /\ execs' = execs + 1
    /\ bufs' = <<<<>>, <<>>>>
    /\ RunScript(script, Io(in, 1, 2), stack)
    /\ UNCHANGED <<shell, files, done, sealed>>

\* exec() returns.  `exit` ends it with its code; another error is rejected.
FinishExec ==
    /\ Returning /\ stack = <<>>
    /\ ctl' = Idle
    /\ IF ctl.res.kind = "err"
         THEN UNCHANGED <<last_exit, done>>
         ELSE last_exit' = ctl.res.code /\ done' = ctl.res.code
    /\ bufs' = <<>>
    /\ sealed' = {}
    /\ UNCHANGED <<env, cwd, aliases, files, stack, execs>>

\* `?`: an error, `exit` included, leaves every function but a dispatched simple
\* command at once: what the frame was to put back is not put back.
Unwind ==
    /\ Returning /\ ~Succeeded
    /\ stack # <<>>
    /\ ~(In("simple") /\ Top.dispatched)
    /\ stack' = Tail(stack)
    /\ UNCHANGED <<shell, files, bufs, ctl, history>>

NextCommand_Again ==   \* mutant: the command just run stays in the list
    /\ Succeeded /\ In("script")
    /\ last_exit' = ctl.res.code
    /\ IF Top.rest = <<>>
         THEN stack' = Tail(stack) /\ UNCHANGED ctl
         ELSE UNCHANGED stack /\ ctl' = Start(Head(Top.rest), Top.io)
    /\ UNCHANGED <<env, cwd, aliases, files, bufs, history>>

\* A command of a script finished: $? is set and the next one starts.
NextCommand ==
    /\ Succeeded /\ In("script")
    /\ last_exit' = ctl.res.code
    /\ IF Top.rest = <<>>
         THEN stack' = Tail(stack) /\ UNCHANGED ctl
         ELSE /\ stack' = <<[Top EXCEPT !.rest = Tail(@)]>> \o Tail(stack)
              /\ ctl' = Start(Head(Top.rest), Top.io)
    /\ UNCHANGED <<env, cwd, aliases, files, bufs, history>>

StartAndOr ==
    /\ ctl.at = "start" /\ Ast[ctl.cmd].kind \in {"and", "or"}
    /\ stack' = <<[at |-> Ast[ctl.cmd].kind, right |-> Ast[ctl.cmd].right, io |-> ctl.io]>>
                   \o stack
    /\ ctl' = Start(Ast[ctl.cmd].left, ctl.io)
    /\ UNCHANGED <<shell, files, bufs, history>>

TakeRight_NoStatus ==   \* mutant: the left side's status is not recorded
    /\ Succeeded /\ (In("and") \/ In("or"))
    /\ stack' = Tail(stack)
    /\ IF Top.at = "and" <=> ctl.res.code = 0
         THEN ctl' = Start(Top.right, Top.io)
         ELSE UNCHANGED ctl
    /\ UNCHANGED <<shell, files, bufs, history>>

\* The left side is done: the right side takes its place, or its status stands.
TakeRight ==
    /\ Succeeded /\ (In("and") \/ In("or"))
    /\ last_exit' = ctl.res.code
    /\ stack' = Tail(stack)
    /\ IF Top.at = "and" <=> ctl.res.code = 0
         THEN ctl' = Start(Top.right, Top.io)
         ELSE UNCHANGED ctl
    /\ UNCHANGED <<env, cwd, aliases, files, bufs, history>>

\* `&` runs its command in the foreground.
StartBackground ==
    /\ ctl.at = "start" /\ Ast[ctl.cmd].kind = "background"
    /\ ctl' = Start(Ast[ctl.cmd].job, ctl.io)
    /\ UNCHANGED <<shell, files, bufs, stack, history>>

StartGroup ==
    /\ ctl.at = "start" /\ Ast[ctl.cmd].kind = "group"
    /\ RunScript(Ast[ctl.cmd].body, ctl.io, <<[at |-> "group"]>> \o stack)
    /\ UNCHANGED <<shell, files, bufs, history>>

\* A subshell keeps a copy of the variables and the working directory.
StartSubshell ==
    /\ ctl.at = "start" /\ Ast[ctl.cmd].kind = "subshell"
    /\ RunScript(Ast[ctl.cmd].body, ctl.io,
                 <<[at |-> "subshell", env |-> env, cwd |-> cwd]>> \o stack)
    /\ UNCHANGED <<shell, files, bufs, history>>

EndGroup ==
    /\ Succeeded /\ In("group")
    /\ stack' = Tail(stack)
    /\ done' = ctl.res.code
    /\ UNCHANGED <<shell, files, bufs, ctl, execs, sealed>>

EndSubshell ==
    /\ Succeeded /\ In("subshell")
    /\ env' = Top.env
    /\ cwd' = Top.cwd
    /\ stack' = Tail(stack)
    /\ done' = ctl.res.code
    /\ UNCHANGED <<aliases, last_exit, files, bufs, ctl, execs, sealed>>
-----------------------------------------------------------------------------
(* Pipelines. *)

StartPipeline_NoBuffer ==   \* mutant: the first stage has no buffer of its own
    /\ ctl.at = "start" /\ Ast[ctl.cmd].kind = "pipeline"
    /\ LET p == Ast[ctl.cmd]
           last == Len(p.stages) = 1
           out == IF last THEN ctl.io.out ELSE Len(bufs) + 1
       IN /\ stack' = <<[at |-> "pipeline", rest |-> Tail(p.stages), io |-> ctl.io,
                         out |-> out, negated |-> p.negated]>> \o stack
          /\ ctl' = Start(Head(p.stages), [ctl.io EXCEPT !.out = out])
    /\ UNCHANGED <<shell, files, bufs, history>>

\* A stage's stdout: the pipeline's own for the last, else a new buffer.
StartPipeline ==
    /\ ctl.at = "start" /\ Ast[ctl.cmd].kind = "pipeline"
    /\ LET p == Ast[ctl.cmd]
           last == Len(p.stages) = 1
           out == IF last THEN ctl.io.out ELSE Len(bufs) + 1
       IN /\ bufs' = IF last THEN bufs ELSE Append(bufs, <<>>)
          /\ stack' = <<[at |-> "pipeline", rest |-> Tail(p.stages), io |-> ctl.io,
                         out |-> out, negated |-> p.negated]>> \o stack
          /\ ctl' = Start(Head(p.stages), [ctl.io EXCEPT !.out = out])
    /\ UNCHANGED <<shell, files, history>>

NextStage_OneBuffer ==   \* mutant: all stages but the last share a buffer
    /\ Succeeded /\ In("pipeline") /\ Top.rest # <<>>
    /\ last_exit' = ctl.res.code
    /\ LET out == IF Len(Top.rest) = 1 THEN Top.io.out ELSE Top.out
       IN /\ stack' = <<[Top EXCEPT !.rest = Tail(@), !.out = out]>> \o Tail(stack)
          /\ ctl' = Start(Head(Top.rest), Io(bufs[Top.out], out, Top.io.err))
    /\ sealed' = sealed \cup {Top.out}
    /\ UNCHANGED <<env, cwd, aliases, files, bufs, execs, done>>

\* What the stage wrote is the stdin of the next.
NextStage ==
    /\ Succeeded /\ In("pipeline") /\ Top.rest # <<>>
    /\ last_exit' = ctl.res.code
    /\ LET last == Len(Top.rest) = 1
           out == IF last THEN Top.io.out ELSE Len(bufs) + 1
       IN /\ bufs' = IF last THEN bufs ELSE Append(bufs, <<>>)
          /\ stack' = <<[Top EXCEPT !.rest = Tail(@), !.out = out]>> \o Tail(stack)
          /\ ctl' = Start(Head(Top.rest), Io(bufs[Top.out], out, Top.io.err))
    /\ sealed' = sealed \cup {Top.out}
    /\ UNCHANGED <<env, cwd, aliases, files, execs, done>>

EndPipeline ==
    /\ Succeeded /\ In("pipeline") /\ Top.rest = <<>>
    /\ last_exit' = ctl.res.code
    /\ LET code == IF ~Top.negated THEN ctl.res.code
                   ELSE IF ctl.res.code = 0 THEN 1 ELSE 0
       IN ctl' = Return(Ok(code)) /\ done' = code
    /\ stack' = Tail(stack)
    /\ UNCHANGED <<env, cwd, aliases, files, bufs, execs, sealed>>
-----------------------------------------------------------------------------
(* Simple commands: their words, in the order they are expanded. *)

StartSimple ==
    /\ ctl.at = "start" /\ Ast[ctl.cmd].kind = "simple"
    /\ stack' = <<[at |-> "simple", cmd |-> ctl.cmd, pc |-> 1, io |-> ctl.io,
                   saved |-> <<>>, words |-> <<>>, deferred |-> <<>>,
                   dispatched |-> FALSE]>> \o stack
    /\ ctl' = Step
    /\ UNCHANGED <<shell, files, bufs, history>>

Named(c) == Ast[c].name # <<>>

\* Without a name only the assignments count, redirections are not looked at.
Steps(c) ==
    IF Named(c) THEN Ast[c].assigns \o Ast[c].name \o Ast[c].args \o Ast[c].redirects
    ELSE Ast[c].assigns

\* Scripts, and the parts of commands, are made of commands; a pipeline has a stage.
ASSUME AstAssumption ==
    /\ Scripts \subseteq Seq(Cmds)
    /\ \A text \in DOMAIN Parse : Parse[text] \in Seq(Cmds)
    /\ \A c \in Cmds :
          /\ Ast[c].kind \in {"and", "or"} => {Ast[c].left, Ast[c].right} \subseteq Cmds
          /\ Ast[c].kind = "background" => Ast[c].job \in Cmds
          /\ Ast[c].kind \in {"group", "subshell"} => Ast[c].body \in Seq(Cmds)
          /\ Ast[c].kind = "pipeline" => Ast[c].stages \in Seq(Cmds) \ {<<>>}
          /\ Ast[c].kind = "simple" =>
                LET steps == Steps(c)
                IN /\ steps \in Seq({steps[k] : k \in DOMAIN steps})
                   /\ \A k \in DOMAIN steps :
                         /\ steps[k].do = "assign" => steps[k].var \in Vars
                         /\ steps[k].word.kind = "subst" => steps[k].word.body \in Seq(Cmds)

AtStep == ctl = Step /\ Top.pc <= Len(Steps(Top.cmd))
ThisStep == Steps(Top.cmd)[Top.pc]
TakesWord(kinds) == ctl.at = "word" /\ ThisStep.do \in kinds

Replace(f) == stack' = <<f>> \o Tail(stack)
Advance(f) == Replace([f EXCEPT !.pc = @ + 1]) /\ ctl' = Step

With(f, x, y) == [z \in DOMAIN f \cup {x} |-> IF z = x THEN y ELSE f[z]]
Value(v) == IF env[v] = Unset THEN <<>> ELSE env[v]
Path(name) == <<cwd, name>>
\* The paths that can be read.
Readable(fs) == {p \in DOMAIN fs : p[2] \notin Unreadable}

\* expand_word, but for substitutions.  `${v:=text}` assigns, `${v:?}` may fail.
ExpandWord ==
    /\ AtStep
    /\ LET w == ThisStep.word
       IN \/ w.kind = "text" /\ ctl' = Word(w.text) /\ UNCHANGED env
          \/ w.kind = "status" /\ ctl' = Word(Show[last_exit]) /\ UNCHANGED env
          \/ /\ w.kind \in {"variable", "default", "require"}
             /\ w.kind = "variable" \/ Value(w.var) # <<>>
             /\ ctl' = Word(Value(w.var))
             /\ UNCHANGED env
          \/ /\ w.kind = "default" /\ Value(w.var) = <<>>
             /\ ctl' = Word(w.text)
             /\ env' = [env EXCEPT ![w.var] = w.text]
          \/ /\ w.kind = "require" /\ Value(w.var) = <<>>
             /\ ctl' = Return(Err)
             /\ UNCHANGED env
    /\ UNCHANGED <<cwd, aliases, last_exit, files, bufs, stack, history>>

\* `$(...)` runs in this shell, with no stdin and its output caught.
Substitute ==
    /\ AtStep /\ ThisStep.word.kind = "subst"
    /\ LET out == Len(bufs) + 1
       IN /\ bufs' = bufs \o <<<<>>, <<>>>>
          /\ RunScript(ThisStep.word.body, Io(<<>>, out, out + 1),
                       <<[at |-> "capture", out |-> out]>> \o stack)
    /\ UNCHANGED <<shell, files, history>>

TakeOutput ==
    /\ Succeeded /\ In("capture")
    /\ ctl' = Word(bufs[Top.out])
    /\ sealed' = sealed \cup {Top.out}
    /\ stack' = Tail(stack)
    /\ UNCHANGED <<shell, files, bufs, execs, done>>

\* An assignment before a command remembers what it is to put back.
Assign ==
    /\ TakesWord({"assign"})
    /\ LET v == ThisStep.var
       IN /\ env' = [env EXCEPT ![v] = ctl.text]
          /\ Advance(IF Named(Top.cmd)
                       THEN [Top EXCEPT !.saved = Append(@, [var |-> v, old |-> env[v]])]
                       ELSE Top)
    /\ UNCHANGED <<cwd, aliases, last_exit, files, bufs, history>>

\* An alias stands for its words, unless it has none; it is not looked up again.
TakeName ==
    /\ TakesWord({"name"})
    /\ LET aliased == ctl.text \in DOMAIN aliases /\ aliases[ctl.text] # <<>>
       IN Advance([Top EXCEPT !.words =
                     IF aliased THEN aliases[ctl.text] ELSE <<ctl.text>>])
    /\ UNCHANGED <<shell, files, bufs, history>>

TakeArg ==
    /\ TakesWord({"arg"})
    /\ Advance([Top EXCEPT !.words = Append(@, ctl.text)])
    /\ UNCHANGED <<shell, files, bufs, history>>

\* `<` reads the file at once, whatever its fd; a here-document is its text.
RedirectIn ==
    /\ \/ TakesWord({"heredoc"}) /\ Advance([Top EXCEPT !.io.in = ctl.text])
       \/ /\ TakesWord({"read"})
          /\ IF Path(ctl.text) \in Readable(files)
               THEN Advance([Top EXCEPT !.io.in = files[Path(ctl.text)]])
               ELSE ctl' = Return(Err) /\ UNCHANGED stack
    /\ UNCHANGED <<shell, files, bufs, history>>

\* `>`, `>>` and `&>` write to a new buffer, flushed after the command.
RedirectOut ==
    /\ TakesWord({"write", "append", "both"})
    /\ LET buf == Len(bufs) + 1
           io == [Top.io EXCEPT
                    !.out = IF ThisStep.do = "both" \/ ThisStep.fd = 1 THEN buf ELSE @,
                    !.err = IF ThisStep.do = "both" \/ ThisStep.fd = 2 THEN buf ELSE @]
           write == [path |-> Path(ctl.text), buf |-> buf, append |-> ThisStep.do = "append"]
       IN Advance([Top EXCEPT !.io = io, !.deferred = Append(@, write)])
    /\ bufs' = Append(bufs, <<>>)
    /\ UNCHANGED <<shell, files, history>>

\* `2>&1` and `1>&2`: the other stream's writer, as it is at this point.
RedirectDup ==
    /\ TakesWord({"dup"})
    /\ Advance([Top EXCEPT !.io = IF ThisStep.fd = 2 THEN [@ EXCEPT !.err = Top.io.out]
                                  ELSE [@ EXCEPT !.out = Top.io.err]])
    /\ UNCHANGED <<shell, files, bufs, history>>

\* Assignments without a command stay, and succeed.
EndAssignments ==
    /\ ctl = Step /\ ~AtStep /\ ~Named(Top.cmd)
    /\ ctl' = Return(Ok(0))
    /\ done' = 0
    /\ stack' = Tail(stack)
    /\ UNCHANGED <<shell, files, bufs, execs, sealed>>
-----------------------------------------------------------------------------
(* Dispatch: the intrinsics, then the registry. *)

Intrinsics == {<<"exit">>, <<"source">>, <<"xargs">>}

Dispatching == ctl = Step /\ ~AtStep /\ Named(Top.cmd)
Name == Head(Top.words)
HasArg == Len(Top.words) > 1
Dispatched == [Top EXCEPT !.dispatched = TRUE]

\* Both writes land in one buffer when the streams share it.
Written(out, err) == [bufs EXCEPT ![Top.io.out] = @ \o out, ![Top.io.err] = @ \o err]

\* An argument that is no number counts as 0.
RunExit ==
    /\ Dispatching /\ Name = <<"exit">>
    /\ \E code \in DOMAIN Show :
          /\ IF HasArg /\ \E c \in DOMAIN Show : Show[c] = Top.words[2]
               THEN Show[code] = Top.words[2] ELSE code = 0
          /\ ctl' = Return(Exit(code))
    /\ Replace(Dispatched)
    /\ UNCHANGED <<shell, files, bufs, history>>

\* A file that is there and parses is run in this shell.
RunSource ==
    /\ Dispatching /\ Name = <<"source">>
    /\ IF HasArg /\ Path(Top.words[2]) \in Readable(files)
                 /\ files[Path(Top.words[2])] \in DOMAIN Parse
         THEN /\ RunScript(Parse[files[Path(Top.words[2])]], Top.io,
                           <<Dispatched>> \o Tail(stack))
              /\ UNCHANGED bufs
         ELSE /\ bufs' = Written(<<>>, <<Message>>)
              /\ ctl' = Return(Ok(1))
              /\ Replace(Dispatched)
    /\ UNCHANGED <<shell, files, history>>

\* The words of stdin are appended to the arguments; nothing is left to read.
RunXargs ==
    /\ Dispatching /\ Name = <<"xargs">>
    /\ IF Top.io.in = <<>>
         THEN Replace(Dispatched) /\ ctl' = Return(Ok(0))
         ELSE /\ Replace([Top EXCEPT
                   !.words = (IF HasArg THEN Tail(@) ELSE <<<<"echo">>>>)
                                \o [k \in DOMAIN Top.io.in |-> <<Top.io.in[k]>>],
                   !.io.in = <<>>])
              /\ UNCHANGED ctl
    /\ UNCHANGED <<shell, files, bufs, history>>

\* A registered program works on copies of the variables, the directory and the
\* aliases; they become the shell's when it returns, and are dropped when it fails.
RunProgram ==
    /\ Dispatching /\ Name \notin Intrinsics /\ Name \in DOMAIN Programs
    /\ \E o \in Programs[Name] :
          /\ bufs' = Written(o.out \o (IF o.copies THEN Top.io.in ELSE <<>>), o.err)
          /\ ctl' = Return(o.res)
          /\ IF o.res.kind = "err"
               THEN UNCHANGED <<env, cwd, aliases>>
               ELSE /\ env' = [v \in Vars |-> IF v \in DOMAIN o.env THEN o.env[v] ELSE env[v]]
                    /\ cwd' \in (IF o.cwd = {} THEN {cwd} ELSE o.cwd)
                    /\ aliases' = [n \in DOMAIN aliases \cup DOMAIN o.aliases |->
                                     IF n \in DOMAIN o.aliases THEN o.aliases[n]
                                     ELSE aliases[n]]
    /\ Replace(Dispatched)
    /\ UNCHANGED <<last_exit, files, history>>

NotFound ==
    /\ Dispatching /\ Name \notin Intrinsics \cup DOMAIN Programs
    /\ bufs' = Written(<<>>, <<Message>>)
    /\ ctl' = Return(Ok(IF Name \in Slashed THEN 126 ELSE 127))
    /\ Replace(Dispatched)
    /\ UNCHANGED <<shell, files, history>>
-----------------------------------------------------------------------------
(* The end of a simple command. *)

\* One deferred write, of what its buffer holds; what cannot be read before an append
\* is taken for empty.
Store(o, d) ==
    LET old == IF d.path \in Readable(o.files) THEN o.files[d.path] ELSE <<>>
        data == IF d.append THEN old \o bufs[d.buf] ELSE bufs[d.buf]
    IN IF d.path[2] \in ReadOnly THEN [o EXCEPT !.ok = FALSE]
       ELSE [o EXCEPT !.files = With(@, d.path, data)]

Flush_GoesOn(deferred) ==   \* mutant: later redirections are written all the same
    FoldLeft(Store, [ok |-> TRUE, files |-> files], deferred)

\* The deferred writes, in order, up to the first that fails.
FlushNext(o, d) == IF o.ok THEN Store(o, d) ELSE o
Flush(deferred) == FoldLeft(FlushNext, [ok |-> TRUE, files |-> files], deferred)

\* Assignments are put back in the order they were made: the last one stands.
Restored(saved) ==
    [v \in Vars |->
       IF \E k \in DOMAIN saved : saved[k].var = v
         THEN saved[CHOOSE k \in DOMAIN saved :
                      /\ saved[k].var = v
                      /\ \A j \in DOMAIN saved : saved[j].var = v => j <= k].old
         ELSE env[v]]

FinishSimple_ErrorFirst ==   \* mutant: an error is returned before the clean-up
    /\ Returning /\ In("simple") /\ Top.dispatched
    /\ LET o == Flush(Top.deferred)
       IN IF Succeeded /\ o.ok
            THEN /\ env' = Restored(Top.saved)
                 /\ files' = o.files
                 /\ done' = ctl.res.code
                 /\ UNCHANGED ctl
            ELSE /\ ctl' = IF Succeeded THEN Return(Err) ELSE ctl
                 /\ UNCHANGED <<env, files, done>>
    /\ sealed' = sealed \cup {Top.deferred[k].buf : k \in DOMAIN Top.deferred}
    /\ stack' = Tail(stack)
    /\ UNCHANGED <<cwd, aliases, last_exit, bufs, execs>>

\* The command's result, an error or `exit` too, waits for the flush and for the
\* assignments to be put back; a flush that fails replaces it.
FinishSimple ==
    /\ Returning /\ In("simple") /\ Top.dispatched
    /\ LET o == Flush(Top.deferred)
       IN /\ files' = o.files
          /\ IF o.ok
               THEN /\ env' = Restored(Top.saved)
                    /\ done' = IF Succeeded THEN ctl.res.code ELSE done
                    /\ UNCHANGED ctl
               ELSE ctl' = Return(Err) /\ UNCHANGED <<env, done>>
    /\ sealed' = sealed \cup {Top.deferred[k].buf : k \in DOMAIN Top.deferred}
    /\ stack' = Tail(stack)
    /\ UNCHANGED <<cwd, aliases, last_exit, bufs, execs>>
-----------------------------------------------------------------------------
Engine ==
    \/ FinishExec \/ Unwind
    \/ NextCommand \/ StartAndOr \/ TakeRight \/ StartBackground
    \/ StartGroup \/ EndGroup \/ StartSubshell \/ EndSubshell
    \/ StartPipeline \/ NextStage \/ EndPipeline
    \/ StartSimple \/ ExpandWord \/ Substitute \/ TakeOutput
    \/ Assign \/ TakeName \/ TakeArg \/ RedirectIn \/ RedirectOut \/ RedirectDup
    \/ EndAssignments
    \/ RunExit \/ RunSource \/ RunXargs \/ RunProgram \/ NotFound
    \/ FinishSimple

Next == (\E script \in Scripts, in \in Inputs : StartExec(script, in)) \/ Engine

Spec == Init /\ [][Next]_vars

\* A running exec goes on; nothing obliges the host to make another.
FairSpec == Spec /\ WF_vars(Engine)
-----------------------------------------------------------------------------
(* What the engine promises. *)

Writers(io) == {io.out, io.err}

\* The writers in use exist; an idle engine has no frames; codes can be shown.
TypeOK ==
    /\ last_exit \in DOMAIN Show
    /\ \A k \in DOMAIN stack :
          /\ stack[k].at \in {"script", "and", "or", "pipeline", "simple"} =>
                Writers(stack[k].io) \subseteq DOMAIN bufs
          /\ stack[k].at \in {"pipeline", "capture"} => stack[k].out \in DOMAIN bufs
    /\ ctl.at = "start" => Writers(ctl.io) \subseteq DOMAIN bufs
    /\ ctl = Idle => stack = <<>> /\ bufs = <<>> /\ sealed = {}
    /\ ctl.at \in {"step", "word"} => In("simple") /\ ~Top.dispatched

\* `$?` is the status of the command that finished last, whatever lists,
\* pipelines, subshells and substitutions lie between, whenever a command starts
\* or a word is expanded (exec.rs:25, 65, 74, 132).
StatusIsLast == ctl.at \in {"start", "step", "word"} => last_exit = done

\* A buffer that has been read out, into a pipe, a file or a word, is written no
\* more: no output is lost behind its reader (exec.rs:41, 135, 199-210).
SealedIsFinal == [][\A b \in sealed : b \in sealed' => bufs'[b] = bufs[b]]_vars

\* The step that takes a dispatched simple command off the stack.
Finishes == Returning /\ In("simple") /\ Top.dispatched /\ stack' = Tail(stack)
FlushFails == ~Flush(Top.deferred).ok

\* A command's last redirection to a file decides what the file holds, one that
\* appends keeps what was there, if it can be read (exec.rs:202), and files it does
\* not name stay as they are, whatever the command itself wrote.  A redirection
\* that cannot be written is an error of the command, whatever its
\* result was: those before it hold, those after it write nothing (exec.rs:199-210).
FilesHold ==
    [][Finishes =>
         LET d == Top.deferred
             written == {k \in DOMAIN d : \A j \in 1..k : d[j].path[2] \notin ReadOnly}
             Only(k, among) == \A j \in among \ {k} : d[j].path # d[k].path
             Held(p) == IF p \in DOMAIN files THEN files[p] ELSE <<>>
         IN /\ \A k \in written :
                  /\ ~d[k].append /\ Only(k, {j \in written : j > k}) =>
                        d[k].path \in DOMAIN files' /\ files'[d[k].path] = bufs[d[k].buf]
                  /\ d[k].append /\ Only(k, written) /\ d[k].path[2] \notin Unreadable =>
                        files'[d[k].path] = Held(d[k].path) \o bufs[d[k].buf]
            /\ \A p \in DOMAIN files \cup DOMAIN files' :
                  (\A k \in written : d[k].path # p) =>
                     p \in DOMAIN files \cap DOMAIN files' /\ files'[p] = files[p]
            /\ written # DOMAIN d => ctl' = Return(Err)]_vars

\* A variable assigned once before a command has its old value after it, whatever
\* the command does to it and however it ends, `exit` included (exec.rs:154-155).
ScopedRestored ==
    [][Finishes /\ ~FlushFails =>
         \A k \in DOMAIN Top.saved :
            (\A j \in DOMAIN Top.saved : Top.saved[j].var = Top.saved[k].var => j = k)
               => env'[Top.saved[k].var] = Top.saved[k].old]_vars

\* Every script ends, when no file sources itself and programs return.
EveryScriptEnds == ctl # Idle ~> ctl = Idle

\* "run in-place with a cloned env so mutations don't leak" (exec.rs:95): when a
\* subshell is left, variables and directory are what they were.
SubshellIsolated ==
    [][In("subshell") /\ stack' = Tail(stack) => env' = Top.env /\ cwd' = Top.cwd]_vars
=============================================================================
