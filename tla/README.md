# wasm-shell in TLA+

Specifications of `wasm_shell`, a bash-like shell written in Rust that runs inside a
JavaScript host as WebAssembly, with the TLC configurations that check them and TLAPS
proofs about them. Paths below are relative to `crates/wasm_shell/src/` unless they name
another crate; line numbers are those of the commit in `src/`.

- `PROJECT.json` lists components, runs, mutants, theorems, hazards, and the source lines
  each definition stands for.
- `X.tla` models a component, `MCX.tla` gives it the values TLC runs it with, `XProofs.tla`
  proves theorems about it. `WordProofs` carries on `LexerProofs`; `FoldProofs` is about folds
  and repeated turns, the loops of the other modules.

## 1. The system

| Component | State it keeps | Operations | What makes it correct |
|---|---|---|---|
| **JavaScript binding**, `wasm.rs` | `inner: RefCell<Option<Shell>>`, a second handle on the VFS, `stdin_bytes`, output callbacks | `exec`, `readFile`, `writeFile`, `addProgram`, `mount`, `setStdin`, `setEnv`, `getEnv`, `setCwd`, `getCwd`, `isAvailable`, `onStdout/err` | The Shell is never lost or doubled; a call made at any moment is answered; the VFS lock excludes and is not waited for for ever |
| **Shell**, `shell.rs` | environment, cwd, aliases, `last_exit`, registry, VFS behind a `tokio` mutex | `exec_with_stdin`; the `ProgramContext` a program works with | A program's changes reach the shell exactly when it returns |
| **Execution engine**, `exec.rs` | the call stack of async functions; shared output buffers | scripts, and/or lists, pipelines, subshells, groups, redirections, assignments, intrinsics, dispatch | `$?`; no output lost or misrouted; scoped state put back; every script ends |
| **Expansion**, `expand.rs` | none of its own: reads and sets variables, runs substitutions | words, `${...}`, `$(...)`, `$((...))` | order of side effects; arithmetic that means what is written, at its limits too |
| **Virtual filesystem**, `vfs.rs` | an in-memory tree, an ordered list of mounts | read, write, list, stat, mkdir, remove, rename, copy, add_mount | the tree stays a tree; failures change nothing; the right mount answers |
| **Registry**, `registry.rs` | programs by path | add, resolve, find_path | PATH order, absolute names; three places that look a name up agree |
| **Environment and buffers**, `env.rs`, `io.rs` | a map; shared byte buffers; forked readers | get/set/unset; write/snapshot/fork | every handle of a buffer sees one store |
| **Built-ins**, `builtins.rs` | none: work through `ProgramContext` | ls, mkdir, rm, mv, cp, touch, find, cd, export, alias, test, read, and text filters | multi-step file operations that may fail half way |
| **Lexer**, `bash_parser/src/lexer.rs` | a position, and the parser's flag "between double quotes" | next token, here-document lines | no character lost or read twice; always moves on |
| **Parser**, `bash_parser/src/parser.rs`, `ast.rs` | the token ahead, pending here-documents, a thread-local queue of their bodies | scripts, lists, pipelines, commands, words; fill here-documents | the tree is the text's; bodies reach the redirection they belong to; lexer and parser agree on words |
| **npm package**, `npm/wasm_shell` | none | types, a smoke test, a demo prompt | - |

How they interact. The host calls the binding; wasm-bindgen turns each async method into a
task that holds a borrow of the `WasmShell` object until it settles. `exec` moves the Shell
out of its cell and runs the parser, then the engine. The engine expands words (which run
scripts of their own), redirects into buffers, and dispatches to intrinsics or to registered
programs. A program gets copies of environment, cwd and aliases and a handle on the VFS, and
may be a JavaScript callback. The VFS, behind one FIFO mutex that `readFile` and `writeFile`
share, asks a mount's JavaScript callbacks and awaits them with the mutex held.

What is hard here:

- **Interleaving.** One thread, but every await lets the host run: other tasks, callbacks,
  calls made from inside callbacks.
- **Lazy tasks.** An async method's body starts at a later microtask than its call.
- **Locks across awaits.** The VFS mutex is held while the host is asked.
- **Errors as control flow.** `exit` is an error that `?` carries through every function,
  past the code that would put state back.
- **Panics.** A wasm trap neither unwinds nor drops.
- **Multi-step operations.** rename, mkdir -p, append, deferred flushes, restored assignments.
- **State shared by recursion.** A substitution's text is parsed by a parser of its own, and all
  of them share one queue of here-document bodies, over calls too.
- **The same decision made twice.** Where an expansion ends (lexer, then parser); what a name
  means (`type`, dispatch, `find_path`, `resolve`); what a path is (`cd`, then names below it).

## 2. The modules

### WasmShell: the binding

`WasmShell.tla` has the three async calls as tasks of the wasm-bindgen executor: `ready` is
its queue, `cpu` the task polled, `pc` where each call stands. A step runs a task from one
await to the next; in between `Call`, `SetStdin` and `CallbackSettles` are the host's.

| Code | Model |
|---|---|
| `inner` (371-381) | `inner`, with `Holders` the execs that took the Shell |
| wasm-bindgen's borrow | `Borrowers`: calls made and not settled. `&mut self` methods need it empty |
| `exec` (494-536) | `Call`, `StartExec`, `RunProgram`/`ProgramReturns`, `RunVfsOp`, `FinishExec`, `Deliver`; a panic is `Trap` |
| `read_file`, `write_file` (563-588) | `Call`, `StartFile`, `Locked`, `AwaitMount`, `FinishVfsOp` |
| `tokio::sync::Mutex` | `fs`: holder first, then waiters in order; `LockFs`, `UnlockFs` (external) |
| a callback that calls back | `Call(c, p)` with `p` the call whose callback it is made from |
| append redirection (`exec.rs` 199-210) | operations `append_read` and `append_write`, a lock each |

A script here is only a sequence of awaits: which programs and file operations it runs is
left open. `addProgram`, `mount`, `setEnv`, `setCwd` and the output setters change nothing
the module keeps; that they cannot run into their `expect` is `ExpectNeverFires`.

### Vfs: the filesystem

`Vfs.tla` represents the tree as a function from paths (sequences of names, already
normalised) to nodes. `Mem...` operators are the tree-only functions, each giving a result
and a new tree; the actions add mount dispatch. Mounts are an ordered list; a mount's host
(`hosts`) is external: it keeps what is written to it.

`MemRename` takes the node out before it knows whether it can be put back, `Mkdir` never looks
at the mounts, and `Covers` has find_mount's boundary test: all three are the code's.
`MkdirParentsLoop` is mkdir -p's loop, `MemMkdirParents` what it comes to; the run compares
the two on every reachable tree. Mount points are ordered by number of names and not by length
of text: two mount points that cover one path are prefixes of each other, so the orders agree
wherever one of them is looked at.

### Exec: the execution engine

`Exec.tla` turns the nested async functions into a stack of frames (`script`, `and`, `or`,
`pipeline`, `group`, `subshell`, `capture`, `simple`) and a control word `ctl`: start a
command, take the next step of a simple command, use an expanded word, return a result.

| Code | Model |
|---|---|
| `execute_script` 16-28 | `RunScript`, `NextCommand` |
| `execute_command_inner` 55-105 | `Start...`, `TakeRight`, `EndGroup`, `EndSubshell`; `?` is `Unwind` |
| `execute_pipeline` 109-143 | `StartPipeline`, `NextStage`, `EndPipeline` |
| `execute_simple` 147-222 | `StartSimple`, one action per word taken, `EndAssignments`, `FinishSimple` with `Flush` and `Restored` |
| `apply_redirections` 232-301 | `RedirectIn`, `RedirectOut`, `RedirectDup` |
| `dispatch_builtin`, `dispatch` 307-477 | `RunExit`, `RunSource`, `RunXargs`, `RunProgram`, `NotFound` |
| `expand.rs` 18-164 | `ExpandWord`, `Substitute`, `TakeOutput` |
| `VecWriter` (shared buffer) | an index into `bufs`; `2>&1` makes two streams hold one index |
| `BytesReader::fork` | `io.in`, the text: every command starts reading where its list did |
| a registered program | `Programs[name]`: the set of outcomes a run may have (output, result, changes) |
| a VFS that fails | `ReadOnly` names take no write; `Unreadable` ones, of a mount, take writes and fail to be read |

The steps of a simple command follow the order in which the code expands: assignments, name,
arguments, redirections. Texts are sequences of chunks no property looks into; `done` and
`sealed` are history variables. A path is a directory and a name.

### FileTools: the built-ins that change files

`FileTools.tla` runs mkdir, rm, mv, cp and touch over the tree of `Vfs` (an instance with no
mounts), one VFS call a step. `todo` is the rest of the operands, `into` the one look at the
destination that mv and cp take before they begin, `work` the stack of `cp_recursive` calls,
each with the entries it listed and has not copied, `code` the exit code.

| Code (`builtins.rs`) | Model |
|---|---|
| `builtin_mkdir` 418, `builtin_rm` 449, `builtin_mv` 492, `builtin_touch` 607 | `Begin`, then `Mkdir`, `Rm`, `Mv`, `Touch`, once an operand |
| `builtin_cp` 522 | `Begin`, then `CopyFile`, `SkipDir` or `CopyDir`, once an operand |
| `cp_recursive` 583 | `Enter`, `CopyEntry` for each entry (any order; the code's is alphabetical), `LeaveDir` |

A command line is a tool, its options and its operands; an operand is a path and whether its
text ends in a name (`a/` does not, and goes into a directory under an empty name, that is,
takes its place). Option errors and missing operands change nothing and are left out, and so
is an operand whose text ends in `..`.

Every change of `tree` is an operator of `Vfs`, by the way the actions are written; so what is
proved of those operators (that they keep the shape of the tree) is used of the tools as it stands.

What a command may do away with is `Concerned`: what lies at and below the operands of rm and the
sources and targets of mv, and the files at and below a target of cp, but no directory and no
device there; for mkdir and touch nothing. All else stays as it was (`OthersUntouched`), unless mv is
to move a name that ends in a slash into a directory: then the target is the directory itself, and
what it held is lost. `OthersUntouched` and `SuccessIsTrue` leave these commands out
(`MovesOnto`), against what the comment in the code says (section 3).
What cp adds, `CopiesAreInPlace` says: every path there is now was there and is as it was, or it has
its like in a source, as far below the source as it is below its target.

### Session and CommandEffects: names, and programs that change the shell

`Session.tla` is the shell from one command to the next: a name becomes an intrinsic, an alias or
a program, and a program works on copies until it returns. A text is the sequence of segments
between its slashes (`Segments` is what these may be: names, dots, nothing), and the value of a variable
is the sequence of texts between its colons; so `NormalizePath` and `ResolvePath` are the code's
loops over segments, with `Push` what a segment does to the stack.

| Code | Model |
|---|---|
| `normalize_path`, `resolve_path` (`vfs.rs` 58-83) | `NormalizePath`, `ResolvePath` |
| `resolve`, `find_path`, `canonical_program_path` (`registry.rs`) | `Resolve`, `FindPath`, `CanonicalProgramPath`, over `PathVar` |
| `dispatch_builtin`, `dispatch` (`exec.rs` 307-477) | `Exit`, `Which`, `Type`, `Missing`, `StartProgram`; aliases are `Expanded` |
| `ProgramContext` (`shell.rs`) | `ctx`: copies of `env`, `cwd`, `aliases`, the operands left |
| cd, export, unset, read, alias, unalias (`builtins.rs` 1483-1966) | one action each, once an operand |
| `WasmProgramContext`, a callback (`wasm.rs`) | `HostProgramSets`, `HostProgramUnsets`, `HostProgramFails` |
| commit of the copies (`exec.rs` 450-458) | `Return` |
| `addProgram`, `setEnv`, `setCwd` | `AddProgram`, `SetEnv`, `SetCwd`, between commands |

`CommandEffects.tla` is what is promised: a command is one step, with operators that look at all
its operands at once and at no copy. A word is its text and, where it holds a `=`, what
is on each side: export and alias go by the name before it, unset and unalias by the whole word.
`CommandsAreAtomic` is the refinement: the shell's own
variables are the abstract ones, and the steps of a program on its copies stutter. A program that
writes the shell's state early, loses an operand, or commits after a failure breaks it. Looking
up is `TypeIsRight`, which compares `type` with what runs; paths are `CdThenName`, against
`Standing`, which has no stack: a name stands if up to no place behind it the `..` (`Ups`)
outnumber the names (`Downs`).

`exit`'s own operand, `xargs` and `source` are in `Exec`; "echo" stands for every program that
leaves the shell's variables alone. `TMPDIR`, which a new shell sets too, plays no part in any lookup and is
left out of `InitEnv`. Word expansion comes before all this: a command line
is words already expanded.

### Parser: the grammar and its here-documents

`Parser.tla` is the recursive descent of `parser.rs` over tokens, one operator a function. A
parser's state is a record (`pos`, `pending`, `queue`, `borrowed`, how it goes, what it has just
read); `Then` is the code's `?`. A word token carries the texts of its command substitutions,
each parsed by `Parse` in turn with the queue handed in and out, for it is a thread-local. Two
actions: `Type` writes a script piece by piece, `Run` parses it, and the queue it leaves is what
the next one finds. `borrowed` is the queue's `RefCell`; `Aborts` tells a build whose panics
unwind (and drop the borrow) from wasm, whose panics do not.

`TreeReadsBack` flattens the tree and compares it with the text up to the first bracket that
closes nothing (`UpToStray`, told from the text alone, not from where the parser stopped), less a
`!` before a bracket, which the parser forgets. `TreeFollowsGrammar`
checks its shape against the grammar in the file's head, `BodiesReachTheirHeredocs` finds the
bodies in the text line by line without parsing it.

### Lexer: characters to tokens, words to parts

`Lexer.tla` has both halves of the front end that look at characters: `NextToken` with everything
it calls in `lexer.rs`, and `PartsOf` with everything it calls in `parser.rs` 504-798. Texts are
sequences of characters; `Letters`, `Digits` and `Wide` (more than one byte) are what the code
tells apart, beside the characters it names (`Mark`). `Read` is one request of the parser; whether
an assignment may stand there is left open. Reading stops at the newline after a `<<`, where the
lines of a body are taken whole (`CollectBody` in `Parser`).

A loop of the code over characters is an operator `...Turn`, one pass through its body, and
`Turns`, which takes as many turns as the text has characters: every turn but an idle one at the
end takes a character at least, so there are enough. Loops that take one character a turn,
whatever it is, are folds.

| Code | Model |
|---|---|
| `lex_word`, `consume_balanced_depth`, `lex_dq_fragment` (`lexer.rs` 433-591) | `WordTurn` with `DollarEnd` and `BacktickTurn`, `BalancedTurn`, `DqTurn` |
| `unescape_dq` (662) | `UnescapeTurn`, a fold |
| `extract_balanced` (`parser.rs` 674) | `ExtractTurn`, which slices the text only while the depth is one, and panics there |
| `parse_word_parts`, `parse_dq_word_parts` (513-589) | `PartTurn`; in the operand of a `${...}` it is `OperandTurn`, in a word `WordPartTurn` |
| `parse_dollar`, `parse_brace_var`, `parse_backtick` (616-768) | operators of those names; each hands back the position behind what it read |

`WordsParse` says where the two halves agree. They do not where a word holds a single quote,
backslash, backtick or wide character, or between the braces of a `${...}` nothing, a `$` or a
brace: those are excluded by `Plain`, and listed below. Parentheses may nest as they like.

### Arith: `$((...))`

`Arith.tla` pastes variables, cuts tokens and evaluates while it parses, as `expand.rs` 183-390
does, on integers of `Bits` bits, in a `build` that wraps or panics. `Value` is the reference: it
splits the tokens at the operator that binds loosest and computes over the integers.
`ArithIsRight` compares them.

## 3. The runs

Every property has a mutant in `PROJECT.json`: a definition changed the way a plausible bug
would change it (definitions marked `mutant`), under which the run must fail.

| Run | Question | Bounds |
|---|---|---|
| `binding_safety` | Shell conserved, `expect`s silent, mutex exclusive and without lost wakeups, `isAvailable()` to be relied on, stdin to the right exec, append atomic | 2 execs, 1 file call, 2 awaits a script, failing mounts, panics, nested calls |
| `binding_liveness` | every call settles, with callbacks of an exec calling back | 2 execs, 1 file call, 1 await, no panic |
| `vfs_tree` | shape, no effect of failures, mkdir -p against its loop, rename, from every reachable tree | 2 names, depth 2, a device, 2 contents, no mounts |
| `vfs_mounts` | the most specific mount answers; writes, directories and removals show and touch nothing else | a chain of 3 levels, 2 nested mounts made and replaced at any time, 2 contents |
| `exec_engine` | `$?`, buffers, files of failing flushes too, scoped variables, termination | 12 scripts of 37 commands, 4 programs, a file that cannot be written and one that cannot be read, 2 execs |
| `file_tools` | nothing else is touched, exit code 0 means done, every command but a copy into itself ends; `cp -r` meets only what is there and puts every copy in its place | 129 commands over 2 names, two commands one after the other |
| `session` | what `type` says runs; names mean the same after cd; a command is one step | 21 command lines, 7 texts, 2 values of PATH besides those the lines set, 2 host programs, 2 directories that come and go |
| `parser` | the tree is the text's, up to a stray bracket, and the grammar's; bodies reach their here-documents; what panics; what is left behind | 5 alphabets, scripts of up to 5 pieces; one of them also after earlier parses, with up to 1 body left over before the last |
| `lexer` | no character lost; the parts spell the word; lexer and parser agree | 10 alphabets, texts of 4 to 7 pieces |
| `arith` | precedence, association, signs, rounding, overflow, division | 5 bits, exponents of 3, both builds, texts of up to 5 pieces of 13, 2 environments |

Why these bounds are enough. In the binding the interesting conflicts are between a holder, a
waiter and a newcomer: three calls. Two awaits let a script return to the mutex after
losing it. In the VFS an operation looks at a path, its parent and one relative (what lies
below, or the other path): depth two with two names has files beside directories, full and
empty directories, and a move into oneself; three levels nest a mount in a mount. In the
engine two execs show what one leaves to the next; the scripts hold every pair of nested
constructs the code treats differently, and each is run with every outcome of its programs.
The file tools start from a tree with a file, an empty directory, an empty file and a device, and
run every one-operand and every two-operand line over its paths; a second command meets
whatever tree the first has left. Depth 6 is deeper than two moves and copies can nest, so
only a copy into itself reaches the bound.

The session is not bounded in length: its state is finite, since values, texts and directories
are. Its texts have every segment normalising treats differently, its values of PATH a
slash at the end, a relative entry, an empty one; its lines make an alias of an alias, an empty
alias, an alias of a built-in, and take PATH and HOME away. In the parser five pieces are enough
for an operator on each side of a bracketed or negated command, or for two here-documents with
their bodies; alphabets keep apart what the code keeps apart (lists, brackets, words and
redirections, here-documents, what a failed parse leaves). In the lexer each alphabet is one scanner's
characters and a few that end it. Seven characters nest a quote in a substitution in a
substitution. With five bits `3*3-(-3*3)` already overflows, the least integer is
written in an environment, and exponents are cut by their own width as 64 and 32 bits do.

`CHECK_DEADLOCK FALSE`: in `MCExec.cfg`, after its bound of execs the host stops calling, and
an idle engine has no step; so in `MCExecSubshell.cfg`. In `MCFileTools.cfg` two commands are run, and a copy into itself stops at the bound. In
`MCLexer.cfg` a text has been read to its end, in the configurations of `MCParser` more bodies are left over than `MaxQueue` lets go
on. In `MCArith.cfg` nothing stops, but for the bound of pieces.

Fairness. `binding_liveness`: the executor polls while a task is ready (weak), a polled task
goes on to its next await (weak), and the host settles each promise it owes (strong, because
the executor takes the thread in between and disables it again and again). Nothing obliges
the host to call. The property assumes what the code cannot give: scripts end and callbacks
settle. `exec_engine`: the engine goes on (weak fairness of all its actions together), as an
async function polled to completion does; nothing obliges the host to call exec. `file_tools`:
likewise, a tool that runs goes on, and nobody is obliged to run one. The other modules promise
no progress: the lexer's is a safety property (each token moves it on, `TokensCoverTheText`).

### Where code and documentation disagree

Two runs expect a violation; each property states the sentence quoted.

| Run | What happens | What is said |
|---|---|---|
| `exec_subshell` | `exit` in a subshell, or any error, leaves its variables and cwd behind | `exec.rs:95` "so mutations don't leak" |
| `parser_panic` | an unquoted here-document whose body has a `$(...)` panics: the body is parsed inside the borrow of the queue that the nested parse borrows again | `ast.rs:144` "Variable + command substitution (unquoted delimiter)." |

### Disagreements without a run

Seen in the models, or while they were written; the properties state what does hold.

Binding and engine.
- `isAvailable()` answers true and the second of two execs of one turn is still told "busy",
  where `wasm.rs:493` says "Use `isAvailable()` to check before calling." The Shell is taken at
  the first poll. (`AvailableIsReliable` asks that no other exec waits to begin.)
- A mount callback reached through `readFile` or `writeFile` that calls back and awaits waits for the
  mutex its caller holds; `wasm.rs:374-376` promises a graceful error for re-entrant calls.
  (`EveryCallSettles` has `Nesting = {"exec"}`.)
- After a panic inside exec the line that puts the Shell back (`wasm.rs:505`) is never reached,
  and every later exec is "busy"; `wasm.rs:507` says "Always return the Shell before propagating
  any error." (`Trap`; a panic is not an error the code propagates.)
- A failing argument, redirection or flush, or assigning one name twice before a command, leaves
  the scoped value behind; `exec.rs:154-155` says "restored afterward". (`ScopedRestored` speaks of
  commands that were dispatched, and of names assigned once.)
- An append through a mount whose read fails writes only the new bytes (`exec.rs:202`): what the file
  held is lost and the exit code is 0. (`FilesHold` speaks of files that can be read.)
- A PATH without `/usr/bin` loses the built-ins, which are registered there and looked up along PATH; the `README.md:108` of the repository says "All standard POSIX utilities are available
  without PATH resolution".
- `./x` is looked up from the root (`registry.rs:48`) while the message for a name that is not
  found looks from the working directory (`exec.rs:463`).

Filesystem and tools.
- A rename whose target has no directory drops the node: it is taken out before it is put back
  (`vfs.rs:283`; `mv` reports the error and goes on).
- mkdir under a mount makes a directory in the tree that stat does not see (`vfs.rs:258`).
- A mount at `/` serves nothing below `/` (`vfs.rs:198`).
- `cp -r` of a directory into itself lists what it makes and does not end (`builtins.rs:583`);
  `ToolsEnd` leaves these commands out.
- `mv d/ e`, with e a directory, puts d in the place of e (`builtins.rs:506`): what e held is lost, and
  the exit code is 0, where `builtins.rs:501` says "If dst is a directory, move each src into it."
  (`OthersUntouched` and `SuccessIsTrue` say nothing of these commands.)
- `export NAME` leaves a NAME that is not set unset (`builtins.rs:1544`), where `builtins.rs:1547` says
  "no-op if already set, else set to """. (`Export` of `CommandEffects` takes no side: it may set
  the names without a value that are not set, or leave them.)
- `cp -r` of an empty directory onto a file reports success and makes nothing (`builtins.rs:589`).
- `test a != b` does not parse: `!` is a token of its own (`builtins.rs:1735` expects the operator).

Grammar.
- A `)` or `}` that closes nothing ends the script there, with success (`parser.rs:100`); the grammar,
  `parser.rs:6`, has "script := list? EOF". (`TreeReadsBack` compares with the text before it.)
- `!` before `(` or `{` is read and forgotten (`parser.rs:162-168`), where `parser.rs:9` has
  "pipeline_cmd := '!'? pipeline"; `TreeReadsBack` leaves these out of the text. A negated simple
  command is a pipeline of one stage (`ast.rs:27` asks for two).
- `{ a; } > f` is two commands, the second a redirection alone.
- A failed parse leaves its bodies in the queue for the next script's here-documents, and a
  substitution's parse takes those of the script around it (`BodiesReachTheirHeredocs` excludes
  both; `OnlyFailuresLeaveBodies` says that nothing else leaves any).
- With panics that abort, the queue stays borrowed and no later script with a here-document
  parses, nor any script that gets as far as filling in (`parser.rs:809`).
- `cat <<EOF` with no newline behind it has an empty body and no error.
- Tabs are not stripped from the lines of a `<<-` body, only from its delimiter (`ast.rs:131`).
- An unquoted delimiter runs to the next blank and takes `;`, `|` and `)` with it.

Words and arithmetic.
- `FOO="bar"` is an assignment of nothing and a word, `a'b'` two words (`parser.rs:368-376`).
- The lexer takes `$(echo ')')`, `${a:-${b}}`, an escaped parenthesis in `$(` and a backtick
  string of several lines each by a rule that is not the parser's, which cuts them elsewhere or not at
  all; `lexer.rs:435-436` says such expansions are "consumed in full so they arrive as a single Word token
  for the parser to expand".
- A character of several bytes inside `$(...)` panics (`parser.rs:685`).
- `"$x\"y"` keeps its backslash: the word of `$x` goes on behind it, and in words between double
  quotes a backslash is text.
- `${V-x}` is read as `${V:-x}`, and likewise for `=`, `+`, `?`.
- `0**4294967296` is 1, for the exponent is cut to 32 bits; the least integer divided by -1
  panics, before a missing parenthesis behind it is seen.

## 4. The proofs

TLC checks the instances above; the theorems hold for every value of the constants. Every safety
property the runs of `WasmShell`, `Vfs`, `Exec`, `FileTools`, `Session` and `Lexer` check is a
theorem. Each is proved from an inductive invariant of its component, whose conjuncts are kept by
one lemma an action; TLC was first given the invariant, but for that of `Lexer`, which speaks of
infinite sets of texts.

### WasmShellProofs

For any number of calls, any bounds, with or without panics, failing mounts and nesting. `IInv` is
`TypeOK`, `ShellConserved`, `FsExclusive`, `NoLostWakeup` and

- `SchedulerInv`: no task is queued twice, the task polled is not queued, and what is queued
  waits for something. Without it a step could run a task twice, or one already past its lock.
- `WaitersInv`: who waits for the lock is in its queue, and is woken only as its head.
- `AppendInv`: an exec in the mutex's queue is its last member, since the cell is empty and no
  file call can queue behind it. This is why the two locks of an append cannot be divided.

`NextExecInv` adds what depends on the order of the executor's queue: an exec that has been called
and not begun is queued or polled (`QueuedInv`); the exec that was promised the Shell, and the one stdin
is meant for, is the first of those (`AvailInv`, `StdinInv`); and while stdin waits to be taken the Shell
is in its cell. `Before` says who is polled first, and its lemmas that the queue's two moves keep it so.

| Theorem | Property |
|---|---|
| `TypeCorrect`, `ShellIsConserved`, `MutexExcludes`, `NoWakeupIsLost`, `ExpectsNeverFire` | `TypeOK`, `ShellConserved`, `FsExclusive`, `NoLostWakeup`, `ExpectNeverFires` |
| `AppendIsAtomic` | the action property `AppendAtomic` |
| `AvailabilityHolds`, `StdinReachesNextExec` | `AvailableIsReliable`, `StdinGoesToNextExec` |

Assumed: `CallsAssumption`, `InputAssumption`, `BoundAssumption`: execs and file calls are
different, no text is the absence of one, and the switches are switches.

### FoldProofs

Loops over a sequence are folds in the modules, which makes what they compute a matter of
induction over data. The library's induction theorems take an operator and cannot be used; a
statement about a set can: every non-empty set of naturals has a least member (from the library's
well-foundedness of `<`), so a set with 0 in it and, with each number, the next, is all of them
(`SetInduction`). The step of the fold is the module's constant `Op`, and the modules below
instantiate it with their own. `FoldSteps`: a fold is the last value of a run of steps, so a
property of the run can be proved by `SetInduction`. `FoldConcat`: a fold over two sequences in a
row goes on from where the first has come to. `TurnSteps` is the same for `Turns`: its recursive
function is defined on every number of turns (`AfterExists`), and a turn leads from each value to the
next.

### VfsProofs

For any names, contents, mounts, depth. `IInv` is `TreeShape`, that every entry is a node, and
`MountsInv`: the list of mounts has each point once, longer ones first, and a host for each. `AddMount`
puts the new point between what it keeps of the longer ones and of the shorter ones, and
`RetainedFacts` says of that filter that it keeps the order.

| Theorem | Property | Argument |
|---|---|---|
| `TreeKeepsShape` | `TreeShape` | a lemma for each operator: grafting into an existing directory, pruning a subtree and growing a chain keep the shape |
| `RenameMovesAll` | `RenameMoves` | the target lies outside the pruned subtree, or the graft would have failed |
| `VfsProofs!TypeKept`, `MostSpecificKept` | `TypeOK`, `MostSpecificMount` | `MountsInv`: in an ordered list the first mount that covers a path is the longest that does |
| `MkdirParentsKept` | `MkdirParentsIsLoop` | `FoldSteps`: after k rounds the loop stands at an error or has made the first k ancestors |
| `ErrorsKept` | `ErrorsChangeNothing` | write, mkdir, mkdir -p and remove give the old tree with an error; rename, which does not, is not in the property |
| `WriteKept` | `WriteSticks` | a write shows at its path, in the tree or at the mount that answers, and reads elsewhere are what they were |

Assumed: `MaxDepth` is a natural, mount points and the files of hosts have paths, the first tree is one.

### ExecProofs

For any scripts, programs, files. `StatusKept`: `$?` is the status of the command that finished
last. `StatusIsLast` is not inductive: while a result travels outwards `last_exit` lags behind.
`StatusInv` says where the two agree and where the result itself is what will be recorded;
`StackInv` says that below a command's frame there is a frame that runs commands, and below a
substitution a simple command, so the result is recorded before anything can look.

The other properties need to know how buffers run through the stack. `FrameInv` adds to that
invariant `WiringInv`: every frame has its parts and writes to buffers that exist and are not
sealed; what a frame will read out (`Makes`: a pipeline's pipe, a substitution's capture, a
redirection's buffer) is no writer of any frame below it (`Apart`); and below a substitution the
simple command still waits for that word (`Waiting`). `Apart` is what makes sealing final: when a
frame ends and its buffer is handed over, nobody below holds it.

| Theorem | Property | Argument |
|---|---|---|
| `StatusKept` | `StatusIsLast` | above |
| `ExecProofs!TypeKept` | `TypeOK` | `WiringInv` |
| `SealedKept` | `SealedIsFinal` | writers are never sealed buffers |
| `ScopedKept` | `ScopedRestored` | the frame still has the value it saved, and for a name assigned once that is the one put back |
| `FilesKept` | `FilesHold` | `FoldSteps`: after i flushes the files are what the first i redirections say, up to the first that cannot be written |

Assumed: `StatusAssumption` and `ProgramsAssumption`, exit codes can be written as text, those of
the engine and those of programs (they are `i32`s, and `Show` is their `to_string`); `AstAssumption`, a
script is a sequence of commands whose parts are commands, which the types of `ast.rs` give, and
a pipeline has a stage, which `parse_pipeline` gives; `ExecsAssumption`.

### FileToolsProofs

For any tree, any command lines, any number of operands. `IInv` says that the operands left are
the last of the command's (`Ends`), that the directories `cp -r` is in are nested, exist with the
entries it has listed, and go below a target (`Stack`, `Goals`), and what `OthersUntouched`
says, of every command (`Untouched`), which is inductive with them.

`SuccessIsTrue` says something only when a command is over. `ProgressInv` says it in the middle,
for the operands behind: a directory made, an entry there, an entry gone; for mv, what was below the
source is below the target, and the sources to come are as they were. For `cp -r` every file of a
source looked at has landed below the target or is below an entry on the stack (`Landed`,
`Pending`), directories on the stack and their copies lie equally far below source and target
(`Twins`), the sources are as they were, and no device has come up that would swallow a copy.

| Theorem | Property | Argument |
|---|---|---|
| `FileToolsProofs!TypeKept` | `TypeOK` | `Stack`: what the tools do to the tree takes nothing away while `cp -r` runs |
| `OthersKept` | `OthersUntouched` | each VFS call changes what is at or below its operand or target |
| `SuccessKept` | `SuccessIsTrue` | `ProgressInv`, with one lemma an action and tool |
| `CopiesKept` | `CopiesAreInPlace` | `PlaceInv`: sources and devices are as they were, and a directory being copied lies as far below its operand as its copy below the target |

Assumed: `TreeAssumption`, as for `Vfs`; `CommandAssumption`, a command line is a tool, its options
and operands, mv and cp have two operands at least (the code turns less down before it does
anything), and an operand that names something is not the root.

### SessionProofs

For any command lines, texts, values, host programs. `Invariance` is the inductive invariant:
the shell's variables are texts and values, its directory is a normal path (`ShellInv`); programs are
registered at normal paths or under `/usr/bin` (`RegistryInv`); and what a program has made of
its copies is what the operands it has finished make at once (`CtxInv`, `SoFar`). The last is the
heart of the refinement: a program's copies are compared with the shell as it was, which no
step can change while the program runs.

| Theorem | Property | Argument |
|---|---|---|
| `CommandsKept` | `CommandsAreAtomic` | with no operand left `SoFar` is the abstract command; before that, a step stutters |
| `TypeIsRightKept` | `TypeIsRight` | `type` and dispatch look along the same PATH and stop at the same entry |
| `SessionProofs!TypeKept` | `TypeOK` | `Invariance`, and that a normal path is its own normal form |
| `CdThenNameKept` | `CdThenName` | `NormalStands` |

`NormalStands`: the normal form of a text is the names that no `..` behind them takes back, in
order. Proved by `FoldSteps` over the segments: the stack of `normalize_path` holds, at every
segment, the names that still stand (`StandsTo`), and each is as far from its top as names have
outnumbered `..` since (`Rise`). With `FoldConcat` a path below a directory is what the two make
together.

Assumed: `SessionAssumption`. The shell's own names are among the segments (in TLA+ a string is
not known to be different from, or a member of, anything but by being told so), a line begins with a
word that is no assignment (the parser takes those away), and texts and values are sequences of
segments and of texts.

### LexerProofs and WordProofs

For texts of any length over any alphabet, and words nested as deep as one likes.

`ReaderInv` is the inductive invariant: the position is in the text, and what was read last is
what `NextToken` gives at some position of the text, with the parts of its word (`IsGot`). All
else is about operators, for every argument: what a scan, a search for a closing delimiter, a
word, a quoted stretch hands back is a place in the text behind where it began, or `NoEnd`, with
what is known of the characters between. Each loop has one lemma for its turn and one that
carries it along with `TurnSteps` and `SetInduction`.

| Theorem | Property | Argument |
|---|---|---|
| `NextTokenCovers` | | a lemma for each kind of token: it begins behind blanks and a comment, takes a character at least, and says what is written there |
| `LexerLosesNothing` | `TokensCoverTheText` | `NextTokenCovers` at the position `ReaderInv` keeps |
| `CuttingLosesNothing` | `PartsSpellTheWord` | `IsReading`: at each turn what the parts and the literal were read from is the word up to where the turn stands |
| `LexerAndParserAgree` | `WordsParse` | below |

Two measures of depth meet in `LexerAndParserAgree`. `Height` is the number of parentheses open
after so many characters. `ExtractFacts`: the parser's search for the end of a `$(` succeeds if
the height falls below that of its start somewhere (`Closes`), unless it meets a wide character
at depth one. `SearchLevel`: while the lexer's search runs and meets no quote, its depth is the height
above its start, so where it ends the height is lower than at every place inside. So a
`$(` inside one the lexer has closed is closed as well (`ShutDollar`), the whole word is `Shut`,
and heights in the word are those in the text but for a constant (`PieceHeight`). Between the
braces of a `${...}` there is no `$` and no brace in a plain word, so both halves stop at the first `}`
(`BraceSearch`, `Filled`). What is left, that nothing else in a plain word fails to be cut, is
`PartsOfFacts` of a `Wholesome` word.

Proving these found what the run's texts were too short to show. That a word with no more than
quotes and the like left out can be cut is false when a brace or a `$` stands between the braces of a
`${...}` (the lexer counts braces, the parser takes the first `}`), and that the parts spell the word is
false when a backslash stands before the `}` that ends a `${...}` or at the end of a word
(it is dropped). `Plain` and `PartsSpellTheWord` say so now, and the run has an alphabet for each.

Assumed: `LexerAssumption`. Letters, digits and wide characters are characters, different from each
other and from those the code names, and pieces of texts are texts.

### Only model-checked

- Liveness (`EveryCallSettles`, `EveryScriptEnds`, `ToolsEnd`), which the prover does not reach.
- `Parser`: its operators call each other as the functions of the descent do, over trees and
  texts in texts. They are RECURSIVE, for which the prover has no arithmetic or set reasoning; turned
  into turns with a stack of frames they would no longer look like the code.
- `Arith`: for the same reason, and because its property compares two ways of evaluating that
  recur differently over the tokens, with powers and division on the way.

## 5. What is not modelled

- Built-ins that turn bytes into bytes (cat, grep, sed, sort, printf...): they keep no state and
  change none. `test`, `find` and `ls` only look.
- The parser's spans and messages; the character level of here-document bodies (a line is tokens).
- What `which` and `type` write. `getEnv` and `getCwd` while an exec runs answer nothing, and
  change nothing.
- In `Exec`, concatenation, tilde, `${v:-w}`, `${v:+w}`, `${#v}`: they make text. File descriptors
  other than 1 and 2 only create a file; input redirection ignores its descriptor.
- The errors' types: they carry text. The npm package's types and demo, and the interactive example.

## 6. What was done, and what is open

The most shared state came first: `WasmShell`, `Vfs`, `Exec`, a theorem for each, and
`FileTools`; then `Session` with `CommandEffects`, which it implements, `Parser`, `Lexer`, `Arith`.

Then the proofs: the order of the executor's queue and of the mounts, folds, the frames of the engine,
the refinement, the exit codes of the file tools, and last the lexer and the cutting of words. The
safety of these six components is proved; that of `Parser` and `Arith` is checked on short texts only.

Three hazards have no property, and the list says why: a mount at `/` (`vfs.rs:199`), the target of
mv for a name that ends in a slash (`builtins.rs:506`) and a file that sources itself (`exec.rs:353`).
