------------------------------ MODULE WasmShell ------------------------------
(***************************************************************************)
(* The JavaScript binding of the shell: crates/wasm_shell/src/wasm.rs.     *)
(*                                                                         *)
(* JavaScript starts calls of the three async methods: `exec`, and the     *)
(* file calls `readFile` / `writeFile`.  Each becomes a task of            *)
(* wasm-bindgen-futures, whose executor polls ready tasks one at a time    *)
(* in FIFO order.  A task runs from one await to the next: only then do    *)
(* other tasks, or JavaScript, get the thread.  Everything the tasks share *)
(* is here:                                                                *)
(*   - `inner`, the cell `exec` moves the Shell out of (wasm.rs:377);      *)
(*   - wasm-bindgen's borrow of the WasmShell object, held by a call from  *)
(*     the moment it is made until it settles;                             *)
(*   - the tokio mutex around the VFS, a FIFO lock held across the await   *)
(*     of a mount callback;                                                *)
(*   - `stdin_bytes`, and one file both kinds of call may write.           *)
(***************************************************************************)
EXTENDS Naturals, Sequences, FiniteSets, Functions

CONSTANTS
    Execs,      \* calls of exec()
    Files,      \* calls of readFile() and writeFile()
    Inputs,     \* non-empty byte strings JavaScript passes to setStdin()
    Empty,      \* the empty byte string
    NoCall,     \* "no call": the executor is between polls
    MaxSteps,   \* bound: programs and file operations one script runs
    Traps,      \* may a script panic (a wasm trap)?
    MountFails, \* may a mount callback reject?
    Nesting     \* whose callbacks call back into the shell: "exec", "file"

Calls == Execs \cup Files

ASSUME CallsAssumption == Execs \cap Files = {} /\ NoCall \notin Calls
ASSUME InputAssumption == Empty \notin Inputs
ASSUME BoundAssumption ==
    /\ MaxSteps \in Nat
    /\ Traps \in BOOLEAN
    /\ MountFails \in BOOLEAN
    /\ Nesting \subseteq {"exec", "file"}

VARIABLES
    inner,        \* "Some": the cell holds the Shell; "None": an exec took it
    stdin_bytes,  \* what setStdin() stored for the next exec
    fs,           \* the VFS mutex: its holder, then the waiters in order
    ready,        \* the executor's queue of tasks to poll
    cpu,          \* the task being polled, or NoCall
    pc,           \* where each call stands
    op,           \* the VFS operation a call is at
    answer,       \* did the callback a call awaits resolve (or reject)?
    failed,       \* has an error begun to propagate through the script?
    steps,        \* awaits left to a script
    parent,       \* the call from whose callback this call was made
    file,         \* the calls whose bytes the shared file holds
    buf,          \* the file as an append redirection read it
    stdin,        \* the stdin an exec was given
    target,       \* history: the first exec called while those bytes wait
    avail         \* history: when a waiting or busy exec was called, did isAvailable()
                  \* answer true, and was no other exec waiting to start?

vars == <<inner, stdin_bytes, fs, ready, cpu, pc, op, answer, failed, steps,
          parent, file, buf, stdin, target, avail>>

Settled == {"resolved", "rejected", "busy"}
Awaiting == {"program", "mount"}
PCs == {"idle", "queued", "run", "lock", "locked", "deliver", "trapped"}
           \cup Awaiting \cup Settled
VfsOps == {"read", "write", "append_read", "append_write"}

(***************************************************************************)
(* A call holds the object's shared borrow from the call to its settling;  *)
(* a trap unwinds nothing, so a trapped call never gives it back.          *)
(***************************************************************************)
Borrowers == {c \in Calls : pc[c] \notin {"idle"} \cup Settled}

\* The calls that have moved the Shell out of `inner` and not put it back.
Holders == {e \in Execs : pc[e] \in {"run", "lock", "locked", "trapped"} \cup Awaiting}

\* JavaScript runs between polls, and inside the onStdout / onStderr callbacks.
JsRuns == cpu \in {NoCall} \cup {e \in Execs : pc[e] = "deliver"}

Goto(c, where) == pc' = [pc EXCEPT ![c] = where]

\* A call settles: its task is dropped, and its locals with it.
Drop(c) ==
    /\ failed' = [failed EXCEPT ![c] = FALSE]
    /\ steps' = [steps EXCEPT ![c] = 0]
    /\ stdin' = [stdin EXCEPT ![c] = Empty]

Init ==
    /\ inner = "Some"
    /\ stdin_bytes = Empty
    /\ fs = <<>>
    /\ ready = <<>>
    /\ cpu = NoCall
    /\ pc = [c \in Calls |-> "idle"]
    /\ op = [c \in Calls |-> "read"]
    /\ answer = [c \in Calls |-> TRUE]
    /\ failed = [c \in Calls |-> FALSE]
    /\ steps = [c \in Calls |-> 0]
    /\ parent = [c \in Calls |-> NoCall]
    /\ file = {}
    /\ buf = [c \in Calls |-> {}]
    /\ stdin = [c \in Calls |-> Empty]
    /\ target = NoCall
    /\ avail = [c \in Calls |-> FALSE]
-----------------------------------------------------------------------------
(* JavaScript's side. *)

(***************************************************************************)
(* Where a call comes from: the page (NoCall), or the pending callback of  *)
(* another call.  Bound: a callback awaits at most one nested call.        *)
(***************************************************************************)
Nester(p) ==
    \/ p = NoCall
    \/ /\ p \in Calls
       /\ pc[p] \in Awaiting
       /\ p \notin Range(ready)
       /\ \A d \in Calls : parent[d] # p
       /\ (IF p \in Execs THEN "exec" ELSE "file") \in Nesting

(***************************************************************************)
(* JavaScript calls an async method: wasm-bindgen borrows the object and   *)
(* spawns the task; its body starts at a later microtask.  The call may    *)
(* come from inside a program or mount callback that then awaits it.       *)
(***************************************************************************)
Call(c, p) ==
    /\ JsRuns
    /\ pc[c] \in {"idle"} \cup Settled
    /\ parent[c] = NoCall
    /\ Nester(p)
    /\ Goto(c, "queued")
    /\ ready' = Append(ready, c)
    /\ parent' = [parent EXCEPT ![c] = p]
    /\ IF c \in Files
         THEN /\ \E o \in {"read", "write"} : op' = [op EXCEPT ![c] = o]
              /\ UNCHANGED <<steps, target, avail>>
         ELSE /\ steps' = [steps EXCEPT ![c] = MaxSteps]
              /\ target' = IF target = NoCall /\ stdin_bytes # Empty THEN c ELSE target
              /\ avail' = [avail EXCEPT ![c] =
                             inner = "Some" /\ \A e \in Execs : pc[e] # "queued"]
              /\ UNCHANGED op
    /\ UNCHANGED <<inner, stdin_bytes, fs, cpu, answer, failed, file, buf, stdin>>

(***************************************************************************)
(* setStdin(), as every `&mut self` method: wasm-bindgen throws when the   *)
(* object is borrowed, so the body runs only when no call is in flight.    *)
(***************************************************************************)
SetStdin_Shared(bytes) ==   \* mutant: takes `&self`
    /\ JsRuns
    /\ stdin_bytes' = bytes
    /\ target' = NoCall
    /\ UNCHANGED <<inner, fs, ready, cpu, pc, op, answer, failed, steps,
                   parent, file, buf, stdin, avail>>

SetStdin(bytes) ==
    /\ JsRuns
    /\ Borrowers = {}
    /\ stdin_bytes' = bytes
    /\ target' = NoCall
    /\ UNCHANGED <<inner, fs, ready, cpu, pc, op, answer, failed, steps,
                   parent, file, buf, stdin, avail>>

(***************************************************************************)
(* The promise of a program or mount callback settles: the task is woken.  *)
(* A callback that made a nested call awaits it first.                     *)
(***************************************************************************)
CallbackSettles(c, ok) ==
    /\ JsRuns
    /\ pc[c] \in Awaiting
    /\ c \notin Range(ready)
    /\ \A d \in Calls : parent[d] = c => pc[d] \in Settled
    /\ ok \/ pc[c] = "program" \/ MountFails
    /\ answer' = [answer EXCEPT ![c] = ok]
    /\ ready' = Append(ready, c)
    /\ parent' = [d \in Calls |-> IF parent[d] = c THEN NoCall ELSE parent[d]]
    /\ UNCHANGED <<inner, stdin_bytes, fs, cpu, pc, op, failed, steps, file,
                   buf, stdin, target, avail>>
-----------------------------------------------------------------------------
(* The executor and the VFS mutex. *)

Poll ==
    /\ cpu = NoCall
    /\ ready # <<>>
    /\ cpu' = Head(ready)
    /\ ready' = Tail(ready)
    /\ UNCHANGED <<inner, stdin_bytes, fs, pc, op, answer, failed, steps,
                   parent, file, buf, stdin, target, avail>>

LockFs_Barging(c) ==   \* mutant: goes on without the lock
    /\ fs' = Append(fs, c)
    /\ Goto(c, "locked")
    /\ UNCHANGED cpu

\* `fs.lock().await`: taken at once when free, else the task joins the waiters.
LockFs(c) ==
    /\ fs' = Append(fs, c)
    /\ IF fs = <<>>
         THEN Goto(c, "locked") /\ UNCHANGED cpu
         ELSE Goto(c, "lock") /\ cpu' = NoCall

UnlockFs_NoWake ==   \* mutant: nobody wakes the next waiter
    /\ fs' = Tail(fs)
    /\ UNCHANGED ready

\* Dropping the guard hands the mutex to the first waiter and wakes it.
UnlockFs ==
    /\ fs' = Tail(fs)
    /\ ready' = IF Tail(fs) = <<>> THEN ready ELSE Append(ready, Head(Tail(fs)))
-----------------------------------------------------------------------------
(* Bodies of the async methods: steps of the task that has the thread. *)

StartExec_NoTake(e) ==   \* mutant: borrows the Shell and leaves it in the cell
    /\ cpu = e
    /\ pc[e] = "queued"
    /\ Goto(e, "run")
    /\ stdin' = [stdin EXCEPT ![e] = stdin_bytes]
    /\ stdin_bytes' = Empty
    /\ UNCHANGED <<inner, fs, ready, cpu, op, answer, failed, steps, parent,
                   file, buf, target, avail>>

\* The first poll of exec(): take the Shell, or fail because it is out.
StartExec(e) ==
    /\ cpu = e
    /\ pc[e] = "queued"
    /\ IF inner = "None"
         THEN /\ Goto(e, "busy")
              /\ cpu' = NoCall
              /\ Drop(e)
              /\ UNCHANGED <<inner, stdin_bytes, target, avail>>
         ELSE /\ Goto(e, "run")
              /\ inner' = "None"
              /\ stdin' = [stdin EXCEPT ![e] = stdin_bytes]
              /\ stdin_bytes' = Empty
              /\ target' = NoCall
              /\ avail' = [avail EXCEPT ![e] = FALSE]
              /\ UNCHANGED <<cpu, failed, steps>>
    /\ UNCHANGED <<fs, ready, op, answer, parent, file, buf>>

StartFile_NoBusyCheck(f) ==   \* mutant: holds its own handle on the VFS
    /\ cpu = f
    /\ pc[f] = "queued"
    /\ LockFs(f)
    /\ UNCHANGED <<inner, stdin_bytes, ready, op, answer, failed, steps,
                   parent, file, buf, stdin, target, avail>>

StartFile_TakesShell(f) ==   \* mutant: moves the Shell out while it locks
    /\ cpu = f
    /\ pc[f] = "queued"
    /\ IF inner = "None"
         THEN Goto(f, "busy") /\ cpu' = NoCall /\ UNCHANGED <<fs, inner>>
         ELSE LockFs(f) /\ inner' = "None"
    /\ UNCHANGED <<stdin_bytes, ready, op, answer, failed, steps,
                   parent, file, buf, stdin, target, avail>>

\* The first poll of readFile() / writeFile(): clone `fs` and lock it.
StartFile(f) ==
    /\ cpu = f
    /\ pc[f] = "queued"
    /\ IF inner = "None"
         THEN Goto(f, "busy") /\ cpu' = NoCall /\ UNCHANGED fs
         ELSE LockFs(f)
    /\ UNCHANGED <<inner, stdin_bytes, ready, op, answer, failed, steps,
                   parent, file, buf, stdin, target, avail>>

RunProgram_Endless(e) ==   \* mutant: the script's bound is not counted
    /\ cpu = e
    /\ pc[e] = "run"
    /\ ~failed[e]
    /\ op[e] # "append_write"
    /\ steps' = [steps EXCEPT ![e] = @ - 1]
    /\ Goto(e, "program")
    /\ cpu' = NoCall
    /\ UNCHANGED <<inner, stdin_bytes, fs, ready, op, answer, failed, parent,
                   file, buf, stdin, target, avail>>

\* The script runs a registered JavaScript program and awaits its promise.
RunProgram(e) ==
    /\ cpu = e
    /\ pc[e] = "run"
    /\ ~failed[e]
    /\ op[e] # "append_write"
    /\ steps[e] > 0
    /\ steps' = [steps EXCEPT ![e] = @ - 1]
    /\ Goto(e, "program")
    /\ cpu' = NoCall
    /\ UNCHANGED <<inner, stdin_bytes, fs, ready, op, answer, failed, parent,
                   file, buf, stdin, target, avail>>

(***************************************************************************)
(* The script reads, writes or appends to the file.  An append redirection *)
(* locks the VFS twice: once to read the old bytes, once to write (exec.rs *)
(* lines 202 and 209); nothing else of the script comes between.  While an *)
(* error propagates, the deferred writes it passes are still flushed.      *)
(***************************************************************************)
RunVfsOp(e, o) ==
    /\ cpu = e
    /\ pc[e] = "run"
    /\ (o = "append_write") <=> (op[e] = "append_write")
    /\ failed[e] => o # "read"
    /\ o # "append_write" => steps[e] > 0
    /\ steps' = IF o = "append_write" THEN steps ELSE [steps EXCEPT ![e] = @ - 1]
    /\ op' = [op EXCEPT ![e] = o]
    /\ LockFs(e)
    /\ UNCHANGED <<inner, stdin_bytes, ready, answer, failed, parent, file,
                   buf, stdin, target, avail>>

\* Woken with the VFS mutex handed over.
Locked(c) ==
    /\ cpu = c
    /\ pc[c] = "lock"
    /\ Goto(c, "locked")
    /\ UNCHANGED <<inner, stdin_bytes, fs, ready, cpu, op, answer, failed,
                   steps, parent, file, buf, stdin, target, avail>>

\* The program's promise settled: a rejection is an error of the script.
ProgramReturns(e) ==
    /\ cpu = e
    /\ pc[e] = "program"
    /\ Goto(e, "run")
    /\ failed' = [failed EXCEPT ![e] = ~answer[e]]
    /\ answer' = [answer EXCEPT ![e] = TRUE]
    /\ UNCHANGED <<inner, stdin_bytes, fs, ready, cpu, op, steps, parent, file,
                   buf, stdin, target, avail>>

\* The path is under a mount: call its callback and await it, lock held.
AwaitMount(c) ==
    /\ cpu = c
    /\ pc[c] = "locked"
    /\ Goto(c, "mount")
    /\ cpu' = NoCall
    /\ UNCHANGED <<inner, stdin_bytes, fs, ready, op, answer, failed, steps,
                   parent, file, buf, stdin, target, avail>>

(***************************************************************************)
(* What the operation does to the file and to a script's append buffer.  A *)
(* failed read of an append counts as an empty file (exec.rs:202); a       *)
(* failed write of one is an error (209); other failures the script may    *)
(* report and go on from (`cat`) or propagate (`<`).                       *)
(***************************************************************************)
Effect(c, ok) ==
    /\ file' = CASE op[c] = "write" /\ ok -> {c}
                 [] op[c] = "append_write" /\ ok -> buf[c] \cup {c}
                 [] OTHER -> file
    /\ buf' = CASE op[c] = "append_read" -> [buf EXCEPT ![c] = IF ok THEN file ELSE {}]
                [] op[c] = "append_write" -> [buf EXCEPT ![c] = {}]
                [] OTHER -> buf
    /\ \E err \in BOOLEAN :
          /\ ok \/ op[c] = "append_read" => ~err
          /\ ~ok /\ op[c] = "append_write" => err
          /\ failed' = [failed EXCEPT ![c] = @ \/ (c \in Execs /\ err)]

(***************************************************************************)
(* The operation ends, in memory or with the mount's answer; the guard is  *)
(* dropped.  A file call settles; a script goes on, from the read of an    *)
(* append to its write.                                                    *)
(***************************************************************************)
FinishVfsOp(c) ==
    /\ cpu = c
    /\ pc[c] \in {"locked", "mount"}
    /\ LET ok == pc[c] = "locked" \/ answer[c]
       IN /\ Effect(c, ok)
          /\ IF c \in Files
               THEN /\ Goto(c, IF ok THEN "resolved" ELSE "rejected")
                    /\ cpu' = NoCall
                    /\ UNCHANGED op
               ELSE /\ Goto(c, "run")
                    /\ op' = [op EXCEPT ![c] =
                                IF @ = "append_read" THEN "append_write" ELSE "read"]
                    /\ UNCHANGED cpu
    /\ answer' = [answer EXCEPT ![c] = TRUE]
    /\ UnlockFs
    /\ UNCHANGED <<inner, stdin_bytes, steps, parent, stdin, target, avail>>

(***************************************************************************)
(* The script ends.  The Shell goes back first; an error then rejects the  *)
(* call, a result is handed to the output callbacks.                       *)
(***************************************************************************)
FinishExec_ErrorFirst(e) ==   \* mutant: `?` before the Shell is put back
    /\ cpu = e
    /\ pc[e] = "run"
    /\ op[e] # "append_write"
    /\ \/ Goto(e, "rejected") /\ cpu' = NoCall /\ UNCHANGED inner
       \/ Goto(e, "deliver") /\ ~failed[e] /\ UNCHANGED cpu /\ inner' = "Some"
    /\ Drop(e)
    /\ UNCHANGED <<stdin_bytes, fs, ready, op, answer, parent, file, buf,
                   target, avail>>

FinishExec(e) ==
    /\ cpu = e
    /\ pc[e] = "run"
    /\ op[e] # "append_write"
    /\ inner' = "Some"
    /\ \/ Goto(e, "rejected") /\ cpu' = NoCall
       \/ Goto(e, "deliver") /\ ~failed[e] /\ UNCHANGED cpu
    /\ Drop(e)
    /\ UNCHANGED <<stdin_bytes, fs, ready, op, answer, parent, file, buf,
                   target, avail>>

\* The callbacks return and the promise resolves.
Deliver(e) ==
    /\ cpu = e
    /\ pc[e] = "deliver"
    /\ Goto(e, "resolved")
    /\ cpu' = NoCall
    /\ UNCHANGED <<inner, stdin_bytes, fs, ready, op, answer, failed, steps,
                   parent, file, buf, stdin, target, avail>>

\* The script panics: the wasm trap leaves the call, and the cell, as they are.
\* (Not between the read and the write of an append: nothing there can panic.)
Trap(e) ==
    /\ Traps
    /\ cpu = e
    /\ pc[e] = "run"
    /\ op[e] # "append_write"
    /\ Goto(e, "trapped")
    /\ cpu' = NoCall
    /\ UNCHANGED <<inner, stdin_bytes, fs, ready, op, answer, failed, steps,
                   parent, file, buf, stdin, target, avail>>
-----------------------------------------------------------------------------
TaskStep(c) ==
    \/ c \in Execs /\ \/ StartExec(c)
                      \/ RunProgram(c)
                      \/ \E o \in VfsOps : RunVfsOp(c, o)
                      \/ ProgramReturns(c)
                      \/ FinishExec(c)
                      \/ Deliver(c)
                      \/ Trap(c)
    \/ c \in Files /\ StartFile(c)
    \/ Locked(c)
    \/ AwaitMount(c)
    \/ FinishVfsOp(c)

Settle(c) == \E ok \in BOOLEAN : CallbackSettles(c, ok)

Next ==
    \/ \E c \in Calls, p \in Calls \cup {NoCall} : Call(c, p)
    \/ \E bytes \in Inputs : SetStdin(bytes)
    \/ Poll
    \/ \E c \in Calls : Settle(c) \/ TaskStep(c)

Spec == Init /\ [][Next]_vars

(***************************************************************************)
(* The executor runs whenever a task is ready, a polled task runs to its   *)
(* next await, and the host settles the promises it owes (strong: the      *)
(* executor takes the thread in between).  Nothing obliges JavaScript to   *)
(* make calls.                                                             *)
(***************************************************************************)
FairSpec ==
    /\ Spec
    /\ WF_vars(Poll)
    /\ \A c \in Calls : WF_vars(TaskStep(c)) /\ SF_vars(Settle(c))
-----------------------------------------------------------------------------
(* What the binding promises. *)

\* Every variable stays in its domain (the fields of WasmShell, the executor's
\* queue, the waiters of the VFS mutex).
TypeOK ==
    /\ inner \in {"Some", "None"}
    /\ stdin_bytes \in Inputs \cup {Empty}
    /\ fs \in Seq(Calls)
    /\ ready \in Seq(Calls)
    /\ cpu \in Calls \cup {NoCall}
    /\ pc \in [Calls -> PCs]
    /\ op \in [Calls -> VfsOps]
    /\ answer \in [Calls -> BOOLEAN]
    /\ failed \in [Calls -> BOOLEAN]
    /\ steps \in [Calls -> 0..MaxSteps]
    /\ parent \in [Calls -> Calls \cup {NoCall}]
    /\ file \in SUBSET Calls
    /\ buf \in [Calls -> SUBSET Calls]
    /\ stdin \in [Calls -> Inputs \cup {Empty}]
    /\ target \in Calls \cup {NoCall}
    /\ avail \in [Calls -> BOOLEAN]

\* The Shell is never lost nor duplicated: it is in the cell, or exactly one
\* exec holds it (wasm.rs:498-508 take it and put it back on every path).
ShellConserved ==
    /\ inner = "None" <=> Holders # {}
    /\ \A d, e \in Holders : d = e

\* The three `expect("... while exec is running")` of the `&mut self` methods and
\* the one of mount's `try_lock` (wasm.rs:425, 480, 596; shell.rs:246) never
\* fire: when the object can be borrowed mutably the cell is full and nobody
\* holds or awaits the VFS mutex.
ExpectNeverFires == Borrowers = {} => inner = "Some" /\ fs = <<>>

\* The VFS mutex excludes: only the head of its queue is past `lock().await`,
\* and nobody is in the queue who has already settled.
FsExclusive ==
    /\ \A c \in Calls : pc[c] \in {"locked", "mount"} => fs # <<>> /\ Head(fs) = c
    /\ \A c \in Range(fs) : pc[c] \in {"lock", "locked", "mount"}
    /\ IsInjective(fs)

\* No wakeup of the mutex is lost: a waiter that has come to the head of the
\* queue is about to be polled.
NoLostWakeup ==
    \A c \in Calls : pc[c] = "lock" /\ Head(fs) = c => c \in Range(ready) \/ cpu = c

\* An append redirection releases the VFS mutex between reading the old bytes
\* and writing the new (exec.rs:202-209); all the same no other call changes
\* the file in between.
AppendAtomic ==
    [][\A e \in Execs : op[e] = "append_write" =>
          file' = file \/ (cpu = e /\ op'[e] # "append_write")]_vars

\* setStdin()'s bytes go to the first exec called after it, and to no other
\* ("consumed on the next exec", wasm.rs:554), in whatever order calls are made.
StdinGoesToNextExec ==
    [][\A e \in Execs : stdin'[e] # stdin[e] /\ stdin'[e] # Empty =>
          e = target /\ stdin'[e] = stdin_bytes]_vars

\* Every exec and every file call settles, whatever callbacks it waits for and
\* whatever calls they make, when scripts end and callbacks settle.
EveryCallSettles == \A c \in Calls : pc[c] = "queued" ~> pc[c] \in Settled

\* isAvailable() can be relied on, though the Shell is taken only some turns after
\* exec() was called (wasm.rs:409, 498): an exec called when it answered true, and
\* no other exec had been called and not begun, is not turned away as busy, even
\* if others are called before it begins.
AvailableIsReliable == \A e \in Execs : pc[e] = "busy" => ~avail[e]
=============================================================================
