--------------------------- MODULE WasmShellProofs ---------------------------
(***************************************************************************)
(* Theorems about WasmShell, for every number of calls, every bound and    *)
(* every choice of the switches.                                           *)
(***************************************************************************)
EXTENDS WasmShell, SequenceTheorems, TLAPS

(***************************************************************************)
(* The inductive invariant.  The Shell's cell needs nothing beyond         *)
(* ShellConserved itself.  The mutex needs the executor: a task is woken   *)
(* for the lock only when it is at the head of the queue, no task is       *)
(* queued twice, and what is queued awaits something.                      *)
(***************************************************************************)
SchedulerInv ==
    /\ IsInjective(ready)
    /\ cpu \notin Range(ready)
    /\ \A c \in Range(ready) : pc[c] \in {"queued", "lock"} \cup Awaiting
    /\ \A c \in Calls : pc[c] = "run" => cpu = c

WaitersInv ==
    /\ \A c \in Calls : pc[c] = "lock" => c \in Range(fs)
    /\ \A c \in Calls : pc[c] = "lock" /\ (c \in Range(ready) \/ cpu = c) => Head(fs) = c

(***************************************************************************)
(* Why an append is atomic: while an exec is in the mutex's queue the cell *)
(* is empty, so no file call can queue behind it; when its read releases   *)
(* the mutex nobody is left to take it.                                    *)
(***************************************************************************)
AppendInv ==
    /\ \A e \in Execs : e \in Range(fs) => fs[Len(fs)] = e
    /\ \A e \in Execs : op[e] = "append_write" =>
          /\ pc[e] \in {"run", "locked", "mount"}
          /\ pc[e] = "run" => fs = <<>>

IInv ==
    /\ TypeOK
    /\ ShellConserved
    /\ FsExclusive
    /\ NoLostWakeup
    /\ SchedulerInv
    /\ WaitersInv
    /\ AppendInv
-----------------------------------------------------------------------------
(* Facts about queues without duplicates. *)

\* Queueing an element that is not yet in the queue.
LEMMA AppendFacts ==
    ASSUME NEW S, NEW s \in Seq(S), NEW x \in S
    PROVE  /\ Append(s, x) \in Seq(S)
           /\ Append(s, x) # <<>>
           /\ Range(Append(s, x)) = Range(s) \cup {x}
           /\ IsInjective(s) /\ x \notin Range(s) => IsInjective(Append(s, x))
           /\ Head(Append(s, x)) = IF s = <<>> THEN x ELSE Head(s)
           /\ Append(s, x)[Len(Append(s, x))] = x
<1> DEFINE t == Append(s, x)
<1>1. /\ t \in Seq(S)
      /\ t # <<>>
      /\ Len(t) = Len(s) + 1
      /\ \A i \in 1..Len(s) : t[i] = s[i]
      /\ t[Len(s) + 1] = x
  BY AppendProperties
<1>2. Head(t) = IF s = <<>> THEN x ELSE Head(s)
  BY HeadTailAppend
<1>3. Len(s) \in Nat /\ DOMAIN s = 1..Len(s) /\ DOMAIN t = 1..(Len(s) + 1)
  BY <1>1, LenProperties
<1>4. Range(t) = Range(s) \cup {x}
  BY <1>1, <1>3 DEF Range
<1>5. ASSUME IsInjective(s), x \notin Range(s)
      PROVE  IsInjective(t)
  BY <1>1, <1>3, <1>5 DEF IsInjective, Range
<1> QED
  BY <1>1, <1>2, <1>4, <1>5

\* Taking the head off a queue.
LEMMA TailFacts ==
    ASSUME NEW S, NEW s \in Seq(S), s # <<>>
    PROVE  /\ Head(s) \in Range(s)
           /\ Tail(s) \in Seq(S)
           /\ Range(s) = Range(Tail(s)) \cup {Head(s)}
           /\ IsInjective(s) => IsInjective(Tail(s)) /\ Head(s) \notin Range(Tail(s))
           /\ Tail(s) # <<>> => s[Len(s)] = Tail(s)[Len(Tail(s))]
           /\ s[Len(s)] = Head(s) /\ IsInjective(s) => Tail(s) = <<>>
<1> DEFINE t == Tail(s)
<1>1. /\ t \in Seq(S)
      /\ Len(t) = Len(s) - 1
      /\ \A i \in 1..Len(t) : t[i] = s[i + 1]
      /\ Head(s) = s[1]
  BY HeadTailProperties
<1>2. /\ Len(s) \in Nat /\ Len(s) > 0
      /\ DOMAIN s = 1..Len(s)
      /\ DOMAIN t = 1..(Len(s) - 1)
  BY <1>1, LenProperties, EmptySeq
<1>3. Head(s) \in Range(s)
  BY <1>1, <1>2 DEF Range
<1>4. \A i \in 1..Len(s) : i = 1 \/ (i - 1 \in 1..Len(t) /\ s[i] = t[i - 1])
  BY <1>1, <1>2
<1>5. Range(s) = Range(t) \cup {Head(s)}
  <2>1. Range(s) = {s[i] : i \in 1..Len(s)}
    BY <1>2 DEF Range
  <2>2. Range(t) = {t[i] : i \in 1..Len(t)}
    BY <1>1, <1>2 DEF Range
  <2>3. \A i \in 1..Len(t) : i + 1 \in 1..Len(s)
    BY <1>1, <1>2
  <2>4. 1 \in 1..Len(s)
    BY <1>2
  <2>5. \A x \in Range(s) : x \in Range(t) \cup {Head(s)}
    BY <1>1, <1>4, <2>1, <2>2
  <2>6. \A x \in Range(t) \cup {Head(s)} : x \in Range(s)
    BY <1>1, <2>1, <2>2, <2>3, <2>4
  <2> QED
    BY <2>5, <2>6
<1>6. ASSUME IsInjective(s)
      PROVE  IsInjective(t) /\ Head(s) \notin Range(t)
  BY <1>1, <1>2, <1>6 DEF IsInjective, Range
<1>7. t # <<>> => s[Len(s)] = t[Len(t)]
  BY <1>1, <1>2, LenProperties, EmptySeq
<1>8. ASSUME s[Len(s)] = Head(s), IsInjective(s)
      PROVE  t = <<>>
  BY <1>1, <1>2, <1>8, LenProperties, EmptySeq DEF IsInjective
<1> QED
  BY <1>1, <1>3, <1>5, <1>6, <1>7, <1>8

\* The empty queue.
LEMMA EmptyFacts == Range(<<>>) = {} /\ IsInjective(<<>>) /\ \A S : <<>> \in Seq(S)
  BY DEF Range, IsInjective
-----------------------------------------------------------------------------
(* The invariant holds initially and is preserved by every action. *)

LEMMA CallFacts ==
    /\ Execs \subseteq Calls /\ Files \subseteq Calls
    /\ \A c \in Calls : (c \in Files) <=> (c \notin Execs)
    /\ NoCall \notin Calls
  BY CallsAssumption DEF Calls

\* The bookkeeping of a settled call keeps its types.
LEMMA DropTypes ==
    ASSUME TypeOK, NEW c \in Calls, Drop(c)
    PROVE  /\ failed' \in [Calls -> BOOLEAN]
           /\ steps' \in [Calls -> 0..MaxSteps]
           /\ stdin' \in [Calls -> Inputs \cup {Empty}]
  BY BoundAssumption DEF TypeOK, Drop

LEMMA GotoTypes ==
    ASSUME TypeOK, NEW c \in Calls, NEW where \in PCs, Goto(c, where)
    PROVE  pc' \in [Calls -> PCs]
  BY DEF TypeOK, Goto

LEMMA InitInv == Init => IInv
<1> SUFFICES ASSUME Init PROVE IInv
  OBVIOUS
<1>1. TypeOK
  BY CallFacts, EmptyFacts, BoundAssumption DEF Init, TypeOK, PCs, VfsOps
<1>2. ShellConserved /\ FsExclusive /\ NoLostWakeup
  BY EmptyFacts, CallFacts DEF Init, ShellConserved, FsExclusive, NoLostWakeup, Holders, Awaiting
<1>3. SchedulerInv /\ WaitersInv /\ AppendInv
  BY EmptyFacts, CallFacts DEF Init, SchedulerInv, WaitersInv, AppendInv, Awaiting
<1> QED
  BY <1>1, <1>2, <1>3 DEF IInv

LEMMA CallInv ==
    ASSUME IInv, NEW c \in Calls, NEW p \in Calls \cup {NoCall}, Call(c, p)
    PROVE  IInv'
<1>0. /\ TypeOK /\ ShellConserved /\ FsExclusive /\ NoLostWakeup
      /\ SchedulerInv /\ WaitersInv /\ AppendInv
      /\ Range(ready) \subseteq Calls /\ Range(fs) \subseteq Calls
      /\ ready \in Seq(Calls) /\ fs \in Seq(Calls)
      /\ cpu \in Calls \cup {NoCall} /\ inner \in {"Some", "None"}
  BY RangeOfSeq DEF IInv, TypeOK
<1>1. /\ pc[c] \in {"idle"} \cup Settled
      /\ pc'[c] = "queued"
      /\ \A d \in Calls \ {c} : pc'[d] = pc[d]
      /\ inner' = inner /\ fs' = fs /\ cpu' = cpu
      /\ \A e \in Execs : op'[e] = op[e]
      /\ cpu # c
  BY <1>0, CallFacts DEF TypeOK, Call, Goto, JsRuns, Settled
<1>2. IsInjective(ready) /\ c \notin Range(ready) /\ ready' = Append(ready, c)
  BY <1>0, <1>1 DEF SchedulerInv, Settled, Awaiting, Call
<1>3. /\ Range(ready') = Range(ready) \cup {c}
      /\ ready' \in Seq(Calls)
      /\ IsInjective(ready')
  BY <1>0, <1>2, AppendFacts
<1>4. TypeOK'
  <2>1. pc' \in [Calls -> PCs]
    BY <1>0, GotoTypes DEF Call, PCs
  <2>2. op' \in [Calls -> VfsOps]
    BY <1>0 DEF TypeOK, Call, VfsOps
  <2>5. steps' \in [Calls -> 0..MaxSteps]
    <3>1. MaxSteps \in 0..MaxSteps
      BY BoundAssumption
    <3>2. steps' = steps \/ steps' = [steps EXCEPT ![c] = MaxSteps]
      BY DEF Call
    <3> QED
      BY <1>0, <3>1, <3>2 DEF TypeOK
  <2>6. target' \in Calls \cup {NoCall}
    BY <1>0 DEF TypeOK, Call
  <2>4. avail' \in [Calls -> BOOLEAN]
    <3> DEFINE free == inner = "Some" /\ \A e \in Execs : pc[e] # "queued"
    <3>1. free = TRUE \/ free = FALSE
      OBVIOUS
    <3>2. PICK b \in BOOLEAN : avail' = avail \/ avail' = [avail EXCEPT ![c] = b]
      BY <3>1 DEF Call
    <3> QED
      BY <1>0, <3>2 DEF TypeOK
  <2>3. parent' \in [Calls -> Calls \cup {NoCall}]
    BY <1>0 DEF TypeOK, Call
  <2> QED
    BY <1>0, <1>3, <2>1, <2>2, <2>3, <2>4, <2>5, <2>6 DEF TypeOK, Call
<1>5. ShellConserved'
  BY <1>0, <1>1, CallFacts, <1>2, <1>3 DEF ShellConserved, Holders, Awaiting, Settled
<1>6. FsExclusive'
  BY <1>0, <1>1, CallFacts, <1>2, <1>3 DEF FsExclusive, Settled
<1>7. NoLostWakeup'
  BY <1>0, <1>1, CallFacts, <1>2, <1>3 DEF NoLostWakeup, FsExclusive, Settled
<1>8. SchedulerInv'
  BY <1>0, <1>1, CallFacts, <1>2, <1>3 DEF SchedulerInv, Awaiting, Settled
<1>9. WaitersInv'
  BY <1>0, <1>1, CallFacts, <1>2, <1>3 DEF WaitersInv, SchedulerInv, FsExclusive, Awaiting, Settled
<1>10. AppendInv'
  BY <1>0, <1>1, CallFacts, <1>2, <1>3 DEF AppendInv, ShellConserved, Holders, SchedulerInv, FsExclusive, Awaiting, Settled
<1> QED
  BY <1>4, <1>5, <1>6, <1>7, <1>8, <1>9, <1>10 DEF IInv

LEMMA StartExecInv ==
    ASSUME IInv, NEW c \in Execs, StartExec(c)
    PROVE  IInv'
<1>0. /\ TypeOK /\ ShellConserved /\ FsExclusive /\ NoLostWakeup
      /\ SchedulerInv /\ WaitersInv /\ AppendInv
      /\ Range(ready) \subseteq Calls /\ Range(fs) \subseteq Calls
      /\ ready \in Seq(Calls) /\ fs \in Seq(Calls)
      /\ cpu \in Calls \cup {NoCall} /\ inner \in {"Some", "None"}
  BY RangeOfSeq DEF IInv, TypeOK
<1>1. CASE inner = "None"
  <2>1. /\ pc[c] = "queued" /\ cpu = c
        /\ pc'[c] = "busy"
        /\ \A d \in Calls \ {c} : pc'[d] = pc[d]
        /\ inner' = inner /\ fs' = fs /\ ready' = ready /\ op' = op
        /\ cpu' = NoCall
    BY <1>0, <1>1, CallFacts DEF TypeOK, StartExec, Goto, Drop
  <2>2. TypeOK'
    <3>1. pc' \in [Calls -> PCs]
      BY <1>0, <1>1, CallFacts, GotoTypes DEF StartExec, PCs, Settled
    <3>2. Drop(c)
      BY <1>1 DEF StartExec
    <3> QED
      BY <1>0, <1>1, <3>1, <3>2, CallFacts, DropTypes DEF TypeOK, StartExec
  <2>3. ShellConserved'
    BY <1>0, <2>1, <1>1, CallFacts DEF ShellConserved, Holders, Awaiting
  <2>4. FsExclusive'
    BY <1>0, <2>1, <1>1, CallFacts DEF FsExclusive
  <2>5. NoLostWakeup'
    BY <1>0, <2>1, <1>1, CallFacts DEF NoLostWakeup, FsExclusive
  <2>6. SchedulerInv'
    BY <1>0, <2>1, <1>1, CallFacts DEF SchedulerInv, Awaiting
  <2>7. WaitersInv'
    BY <1>0, <2>1, <1>1, CallFacts DEF WaitersInv, SchedulerInv, FsExclusive, Awaiting
  <2>8. AppendInv'
    BY <1>0, <2>1, <1>1, CallFacts DEF AppendInv, ShellConserved, Holders, SchedulerInv, FsExclusive, Awaiting
  <2> QED
    BY <2>2, <2>3, <2>4, <2>5, <2>6, <2>7, <2>8 DEF IInv
<1>2. CASE inner # "None"
  <2>1. /\ pc[c] = "queued" /\ cpu = c
        /\ pc'[c] = "run"
        /\ \A d \in Calls \ {c} : pc'[d] = pc[d]
        /\ fs' = fs /\ ready' = ready /\ cpu' = cpu /\ op' = op
        /\ inner' = "None"
    BY <1>0, <1>2, CallFacts DEF TypeOK, StartExec, Goto, Drop
  <2>2. TypeOK'
    <3>1. pc' \in [Calls -> PCs]
      BY <1>0, <1>2, CallFacts, GotoTypes DEF StartExec, PCs
    <3>2. /\ stdin' \in [Calls -> Inputs \cup {Empty}]
          /\ stdin_bytes' \in Inputs \cup {Empty}
          /\ target' \in Calls \cup {NoCall}
      BY <1>0, <1>2 DEF TypeOK, StartExec
    <3>3. avail' \in [Calls -> BOOLEAN]
      BY <1>0, <1>2 DEF TypeOK, StartExec
    <3> QED
      BY <1>0, <1>2, <2>1, <3>1, <3>2, <3>3 DEF TypeOK, StartExec
  <2>3. ShellConserved'
    BY <1>0, <2>1, <1>2, CallFacts DEF ShellConserved, Holders, Awaiting
  <2>4. FsExclusive'
    BY <1>0, <2>1, <1>2, CallFacts DEF FsExclusive
  <2>5. NoLostWakeup'
    BY <1>0, <2>1, <1>2, CallFacts DEF NoLostWakeup, FsExclusive
  <2>6. SchedulerInv'
    BY <1>0, <2>1, <1>2, CallFacts DEF SchedulerInv, Awaiting
  <2>7. WaitersInv'
    BY <1>0, <2>1, <1>2, CallFacts DEF WaitersInv, SchedulerInv, FsExclusive, Awaiting
  <2>8. AppendInv'
    BY <1>0, <2>1, <1>2, CallFacts DEF AppendInv, ShellConserved, Holders, SchedulerInv, FsExclusive, Awaiting
  <2> QED
    BY <2>2, <2>3, <2>4, <2>5, <2>6, <2>7, <2>8 DEF IInv
<1> QED
  BY <1>0, <1>1, <1>2, CallFacts DEF StartExec, Goto, Drop, TypeOK

LEMMA StartFileInv ==
    ASSUME IInv, NEW c \in Files, StartFile(c)
    PROVE  IInv'
<1>0. /\ TypeOK /\ ShellConserved /\ FsExclusive /\ NoLostWakeup
      /\ SchedulerInv /\ WaitersInv /\ AppendInv
      /\ Range(ready) \subseteq Calls /\ Range(fs) \subseteq Calls
      /\ ready \in Seq(Calls) /\ fs \in Seq(Calls)
      /\ cpu \in Calls \cup {NoCall} /\ inner \in {"Some", "None"}
  BY RangeOfSeq DEF IInv, TypeOK
<1>1. CASE inner = "None"
  <2>1. /\ pc[c] = "queued" /\ cpu = c
        /\ pc'[c] = "busy"
        /\ \A d \in Calls \ {c} : pc'[d] = pc[d]
        /\ inner' = inner /\ fs' = fs /\ ready' = ready /\ op' = op
        /\ cpu' = NoCall
    BY <1>0, <1>1, CallFacts DEF TypeOK, StartFile, Goto, LockFs
  <2>2. TypeOK'
    BY <1>0, <1>1, CallFacts, BoundAssumption DEF TypeOK, PCs, VfsOps, Settled, StartFile, Goto, LockFs, Awaiting
  <2>3. ShellConserved'
    BY <1>0, <2>1, <1>1, CallFacts DEF ShellConserved, Holders, Awaiting
  <2>4. FsExclusive'
    BY <1>0, <2>1, <1>1, CallFacts DEF FsExclusive
  <2>5. NoLostWakeup'
    BY <1>0, <2>1, <1>1, CallFacts DEF NoLostWakeup, FsExclusive
  <2>6. SchedulerInv'
    BY <1>0, <2>1, <1>1, CallFacts DEF SchedulerInv, Awaiting
  <2>7. WaitersInv'
    BY <1>0, <2>1, <1>1, CallFacts DEF WaitersInv, SchedulerInv, FsExclusive, Awaiting
  <2>8. AppendInv'
    BY <1>0, <2>1, <1>1, CallFacts DEF AppendInv, ShellConserved, Holders, SchedulerInv, FsExclusive, Awaiting
  <2> QED
    BY <2>2, <2>3, <2>4, <2>5, <2>6, <2>7, <2>8 DEF IInv
<1>2. CASE inner # "None"
  <2>1. /\ pc[c] = "queued" /\ cpu = c
        /\ pc'[c] = (IF fs = <<>> THEN "locked" ELSE "lock")
        /\ \A d \in Calls \ {c} : pc'[d] = pc[d]
        /\ inner' = inner /\ ready' = ready /\ op' = op
        /\ cpu' = (IF fs = <<>> THEN c ELSE NoCall)
    BY <1>0, <1>2, CallFacts DEF TypeOK, StartFile, Goto, LockFs
  <2>2. IsInjective(fs) /\ c \notin Range(fs) /\ fs' = Append(fs, c)
    BY <1>0, <2>1, <1>2 DEF FsExclusive, StartFile, Goto, LockFs
  <2>3. /\ Range(fs') = Range(fs) \cup {c}
        /\ fs' \in Seq(Calls) /\ fs' # <<>>
        /\ IsInjective(fs')
        /\ Head(fs') = IF fs = <<>> THEN c ELSE Head(fs)
        /\ fs'[Len(fs')] = c
        /\ fs # <<>> => Head(fs) \in Range(fs)
    BY <1>0, <2>2, CallFacts, AppendFacts, TailFacts
  <2>4. TypeOK'
    BY <1>0, <1>2, <2>2, <2>3, CallFacts, BoundAssumption DEF TypeOK, PCs, VfsOps, Settled, StartFile, Goto, LockFs, Awaiting
  <2>5. ShellConserved'
    BY <1>0, <2>1, <1>2, CallFacts, <2>2, <2>3, EmptyFacts DEF ShellConserved, Holders, Awaiting
  <2>6. FsExclusive'
    BY <1>0, <2>1, <1>2, CallFacts, <2>2, <2>3, EmptyFacts DEF FsExclusive
  <2>7. NoLostWakeup'
    BY <1>0, <2>1, <1>2, CallFacts, <2>2, <2>3, EmptyFacts DEF NoLostWakeup, FsExclusive
  <2>8. SchedulerInv'
    BY <1>0, <2>1, <1>2, CallFacts, <2>2, <2>3, EmptyFacts DEF SchedulerInv, Awaiting
  <2>9. WaitersInv'
    BY <1>0, <2>1, <1>2, CallFacts, <2>2, <2>3, EmptyFacts DEF WaitersInv, SchedulerInv, FsExclusive, Awaiting
  <2>10. AppendInv'
    BY <1>0, <2>1, <1>2, CallFacts, <2>2, <2>3, EmptyFacts DEF AppendInv, ShellConserved, Holders, SchedulerInv, FsExclusive, Awaiting
  <2> QED
    BY <2>4, <2>5, <2>6, <2>7, <2>8, <2>9, <2>10 DEF IInv
<1> QED
  BY <1>0, <1>1, <1>2, CallFacts DEF StartFile, Goto, LockFs, TypeOK

LEMMA RunProgramInv ==
    ASSUME IInv, NEW c \in Execs, RunProgram(c)
    PROVE  IInv'
<1>0. /\ TypeOK /\ ShellConserved /\ FsExclusive /\ NoLostWakeup
      /\ SchedulerInv /\ WaitersInv /\ AppendInv
      /\ Range(ready) \subseteq Calls /\ Range(fs) \subseteq Calls
      /\ ready \in Seq(Calls) /\ fs \in Seq(Calls)
      /\ cpu \in Calls \cup {NoCall} /\ inner \in {"Some", "None"}
  BY RangeOfSeq DEF IInv, TypeOK
<1>1. /\ pc[c] = "run" /\ cpu = c /\ op[c] # "append_write"
      /\ pc'[c] = "program"
      /\ \A d \in Calls \ {c} : pc'[d] = pc[d]
      /\ inner' = inner /\ fs' = fs /\ ready' = ready /\ op' = op
      /\ cpu' = NoCall
  BY <1>0, CallFacts DEF TypeOK, RunProgram, Goto
<1>2. TypeOK'
  BY <1>0, CallFacts, BoundAssumption DEF TypeOK, PCs, VfsOps, Settled, RunProgram, Goto, Awaiting
<1>3. ShellConserved'
  BY <1>0, <1>1, CallFacts DEF ShellConserved, Holders, Awaiting
<1>4. FsExclusive'
  BY <1>0, <1>1, CallFacts DEF FsExclusive
<1>5. NoLostWakeup'
  BY <1>0, <1>1, CallFacts DEF NoLostWakeup, FsExclusive
<1>6. SchedulerInv'
  BY <1>0, <1>1, CallFacts DEF SchedulerInv, Awaiting
<1>7. WaitersInv'
  BY <1>0, <1>1, CallFacts DEF WaitersInv, SchedulerInv, FsExclusive, Awaiting
<1>8. AppendInv'
  BY <1>0, <1>1, CallFacts DEF AppendInv, ShellConserved, Holders, SchedulerInv, FsExclusive, Awaiting
<1> QED
  BY <1>2, <1>3, <1>4, <1>5, <1>6, <1>7, <1>8 DEF IInv

LEMMA RunVfsOpInv ==
    ASSUME IInv, NEW c \in Execs, NEW o \in VfsOps, RunVfsOp(c, o)
    PROVE  IInv'
<1>0. /\ TypeOK /\ ShellConserved /\ FsExclusive /\ NoLostWakeup
      /\ SchedulerInv /\ WaitersInv /\ AppendInv
      /\ Range(ready) \subseteq Calls /\ Range(fs) \subseteq Calls
      /\ ready \in Seq(Calls) /\ fs \in Seq(Calls)
      /\ cpu \in Calls \cup {NoCall} /\ inner \in {"Some", "None"}
  BY RangeOfSeq DEF IInv, TypeOK
<1>1. /\ pc[c] = "run" /\ cpu = c
      /\ pc'[c] = (IF fs = <<>> THEN "locked" ELSE "lock")
      /\ \A d \in Calls \ {c} : pc'[d] = pc[d]
      /\ inner' = inner /\ ready' = ready
      /\ cpu' = (IF fs = <<>> THEN c ELSE NoCall)
      /\ \A d \in Calls : op'[d] = IF d = c THEN o ELSE op[d]
      /\ (o = "append_write") <=> (op[c] = "append_write")
  BY <1>0, CallFacts DEF TypeOK, RunVfsOp, Goto, LockFs
<1>2. IsInjective(fs) /\ c \notin Range(fs) /\ fs' = Append(fs, c)
  BY <1>0, <1>1 DEF FsExclusive, RunVfsOp, Goto, LockFs
<1>3. /\ Range(fs') = Range(fs) \cup {c}
      /\ fs' \in Seq(Calls) /\ fs' # <<>>
      /\ IsInjective(fs')
      /\ Head(fs') = IF fs = <<>> THEN c ELSE Head(fs)
      /\ fs'[Len(fs')] = c
      /\ fs # <<>> => Head(fs) \in Range(fs)
  BY <1>0, <1>2, CallFacts, AppendFacts, TailFacts
<1>4. TypeOK'
  <2>1. pc' \in [Calls -> PCs] /\ cpu' \in Calls \cup {NoCall}
    BY <1>0, CallFacts, GotoTypes DEF RunVfsOp, LockFs, PCs
  <2>2. op' \in [Calls -> VfsOps]
    BY <1>0 DEF RunVfsOp, TypeOK
  <2>3. steps' \in [Calls -> 0..MaxSteps]
    BY <1>0, CallFacts, BoundAssumption DEF RunVfsOp, TypeOK
  <2> QED
    BY <1>0, <1>3, <2>1, <2>2, <2>3 DEF TypeOK, RunVfsOp
<1>5. ShellConserved'
  BY <1>0, <1>1, CallFacts, <1>2, <1>3, EmptyFacts DEF ShellConserved, Holders, Awaiting
<1>6. FsExclusive'
  BY <1>0, <1>1, CallFacts, <1>2, <1>3, EmptyFacts DEF FsExclusive
<1>7. NoLostWakeup'
  BY <1>0, <1>1, CallFacts, <1>2, <1>3, EmptyFacts DEF NoLostWakeup, FsExclusive
<1>8. SchedulerInv'
  BY <1>0, <1>1, CallFacts, <1>2, <1>3, EmptyFacts DEF SchedulerInv, Awaiting
<1>9. WaitersInv'
  BY <1>0, <1>1, CallFacts, <1>2, <1>3, EmptyFacts DEF WaitersInv, SchedulerInv, FsExclusive, Awaiting
<1>10. AppendInv'
  BY <1>0, <1>1, CallFacts, <1>2, <1>3, EmptyFacts DEF AppendInv, ShellConserved, Holders, SchedulerInv, FsExclusive, Awaiting
<1> QED
  BY <1>4, <1>5, <1>6, <1>7, <1>8, <1>9, <1>10 DEF IInv

LEMMA LockedInv ==
    ASSUME IInv, NEW c \in Calls, Locked(c)
    PROVE  IInv'
<1>0. /\ TypeOK /\ ShellConserved /\ FsExclusive /\ NoLostWakeup
      /\ SchedulerInv /\ WaitersInv /\ AppendInv
      /\ Range(ready) \subseteq Calls /\ Range(fs) \subseteq Calls
      /\ ready \in Seq(Calls) /\ fs \in Seq(Calls)
      /\ cpu \in Calls \cup {NoCall} /\ inner \in {"Some", "None"}
  BY RangeOfSeq DEF IInv, TypeOK
<1>1. /\ pc[c] = "lock" /\ cpu = c
      /\ pc'[c] = "locked"
      /\ \A d \in Calls \ {c} : pc'[d] = pc[d]
      /\ inner' = inner /\ fs' = fs /\ ready' = ready /\ cpu' = cpu /\ op' = op
  BY <1>0, CallFacts DEF TypeOK, Locked, Goto
<1>2. TypeOK'
  BY <1>0, CallFacts, BoundAssumption DEF TypeOK, PCs, VfsOps, Settled, Locked, Goto, Awaiting
<1>3. ShellConserved'
  BY <1>0, <1>1, CallFacts, EmptyFacts DEF ShellConserved, Holders, Awaiting
<1>4. FsExclusive'
  BY <1>0, <1>1, CallFacts, EmptyFacts DEF FsExclusive, WaitersInv
<1>5. NoLostWakeup'
  BY <1>0, <1>1, CallFacts, EmptyFacts DEF NoLostWakeup, FsExclusive
<1>6. SchedulerInv'
  BY <1>0, <1>1, CallFacts, EmptyFacts DEF SchedulerInv, Awaiting
<1>7. WaitersInv'
  BY <1>0, <1>1, CallFacts, EmptyFacts DEF WaitersInv, SchedulerInv, FsExclusive, Awaiting
<1>8. AppendInv'
  BY <1>0, <1>1, CallFacts, EmptyFacts DEF AppendInv, ShellConserved, Holders, SchedulerInv, FsExclusive, Awaiting
<1> QED
  BY <1>2, <1>3, <1>4, <1>5, <1>6, <1>7, <1>8 DEF IInv

LEMMA ProgramReturnsInv ==
    ASSUME IInv, NEW c \in Execs, ProgramReturns(c)
    PROVE  IInv'
<1>0. /\ TypeOK /\ ShellConserved /\ FsExclusive /\ NoLostWakeup
      /\ SchedulerInv /\ WaitersInv /\ AppendInv
      /\ Range(ready) \subseteq Calls /\ Range(fs) \subseteq Calls
      /\ ready \in Seq(Calls) /\ fs \in Seq(Calls)
      /\ cpu \in Calls \cup {NoCall} /\ inner \in {"Some", "None"}
  BY RangeOfSeq DEF IInv, TypeOK
<1>1. /\ pc[c] = "program" /\ cpu = c
      /\ pc'[c] = "run"
      /\ \A d \in Calls \ {c} : pc'[d] = pc[d]
      /\ inner' = inner /\ fs' = fs /\ ready' = ready /\ cpu' = cpu /\ op' = op
  BY <1>0, CallFacts DEF TypeOK, ProgramReturns, Goto
<1>2. TypeOK'
  BY <1>0, CallFacts, BoundAssumption DEF TypeOK, PCs, VfsOps, Settled, ProgramReturns, Goto, Awaiting
<1>3. ShellConserved'
  BY <1>0, <1>1, CallFacts DEF ShellConserved, Holders, Awaiting
<1>4. FsExclusive'
  BY <1>0, <1>1, CallFacts DEF FsExclusive
<1>5. NoLostWakeup'
  BY <1>0, <1>1, CallFacts DEF NoLostWakeup, FsExclusive
<1>6. SchedulerInv'
  BY <1>0, <1>1, CallFacts DEF SchedulerInv, Awaiting
<1>7. WaitersInv'
  BY <1>0, <1>1, CallFacts DEF WaitersInv, SchedulerInv, FsExclusive, Awaiting
<1>8. AppendInv'
  BY <1>0, <1>1, CallFacts DEF AppendInv, ShellConserved, Holders, SchedulerInv, FsExclusive, Awaiting
<1> QED
  BY <1>2, <1>3, <1>4, <1>5, <1>6, <1>7, <1>8 DEF IInv

LEMMA AwaitMountInv ==
    ASSUME IInv, NEW c \in Calls, AwaitMount(c)
    PROVE  IInv'
<1>0. /\ TypeOK /\ ShellConserved /\ FsExclusive /\ NoLostWakeup
      /\ SchedulerInv /\ WaitersInv /\ AppendInv
      /\ Range(ready) \subseteq Calls /\ Range(fs) \subseteq Calls
      /\ ready \in Seq(Calls) /\ fs \in Seq(Calls)
      /\ cpu \in Calls \cup {NoCall} /\ inner \in {"Some", "None"}
  BY RangeOfSeq DEF IInv, TypeOK
<1>1. /\ pc[c] = "locked" /\ cpu = c
      /\ pc'[c] = "mount"
      /\ \A d \in Calls \ {c} : pc'[d] = pc[d]
      /\ inner' = inner /\ fs' = fs /\ ready' = ready /\ op' = op
      /\ cpu' = NoCall
  BY <1>0, CallFacts DEF TypeOK, AwaitMount, Goto
<1>2. TypeOK'
  BY <1>0, CallFacts, BoundAssumption DEF TypeOK, PCs, VfsOps, Settled, AwaitMount, Goto, Awaiting
<1>3. ShellConserved'
  BY <1>0, <1>1, CallFacts DEF ShellConserved, Holders, Awaiting
<1>4. FsExclusive'
  BY <1>0, <1>1, CallFacts DEF FsExclusive
<1>5. NoLostWakeup'
  BY <1>0, <1>1, CallFacts DEF NoLostWakeup, FsExclusive
<1>6. SchedulerInv'
  BY <1>0, <1>1, CallFacts DEF SchedulerInv, Awaiting
<1>7. WaitersInv'
  BY <1>0, <1>1, CallFacts DEF WaitersInv, SchedulerInv, FsExclusive, Awaiting
<1>8. AppendInv'
  BY <1>0, <1>1, CallFacts DEF AppendInv, ShellConserved, Holders, SchedulerInv, FsExclusive, Awaiting
<1> QED
  BY <1>2, <1>3, <1>4, <1>5, <1>6, <1>7, <1>8 DEF IInv

LEMMA FinishVfsOpInv ==
    ASSUME IInv, NEW c \in Calls, FinishVfsOp(c)
    PROVE  IInv'
<1>0. /\ TypeOK /\ ShellConserved /\ FsExclusive /\ NoLostWakeup
      /\ SchedulerInv /\ WaitersInv /\ AppendInv
      /\ Range(ready) \subseteq Calls /\ Range(fs) \subseteq Calls
      /\ ready \in Seq(Calls) /\ fs \in Seq(Calls)
      /\ cpu \in Calls \cup {NoCall} /\ inner \in {"Some", "None"}
  BY RangeOfSeq DEF IInv, TypeOK
<1>1. CASE c \in Files
  <2>1. /\ pc[c] \in {"locked", "mount"} /\ cpu = c
        /\ pc'[c] \in {"resolved", "rejected"}
        /\ \A d \in Calls \ {c} : pc'[d] = pc[d]
        /\ inner' = inner /\ op' = op
        /\ cpu' = NoCall
    BY <1>0, <1>1, CallFacts DEF TypeOK, FinishVfsOp, Goto, UnlockFs
  <2>2. /\ fs # <<>> /\ Head(fs) = c
        /\ Range(fs) = Range(fs') \cup {c}
        /\ fs' \in Seq(Calls)
        /\ IsInjective(fs') /\ c \notin Range(fs')
        /\ fs' # <<>> => fs'[Len(fs')] = fs[Len(fs)]
        /\ fs[Len(fs)] = c => fs' = <<>>
    BY <1>0, <2>1, TailFacts DEF TypeOK, FsExclusive, FinishVfsOp, UnlockFs
  <2>3. /\ fs' # <<>> => Head(fs') \in Range(fs') /\ ready' = Append(ready, Head(fs'))
        /\ fs' = <<>> => ready' = ready
    BY <2>2, TailFacts DEF FinishVfsOp, UnlockFs
  <2>4. fs' # <<>> => /\ pc[Head(fs')] = "lock" /\ Head(fs') \in Calls
                       /\ Head(fs') \notin Range(ready)
    BY <1>0, <2>2, <2>3 DEF FsExclusive, WaitersInv
  <2>5. /\ ready' \in Seq(Calls) /\ IsInjective(ready')
        /\ Range(ready') = IF fs' = <<>> THEN Range(ready) ELSE Range(ready) \cup {Head(fs')}
    <3>1. CASE fs' = <<>>
      BY <1>0, <2>3, <3>1 DEF SchedulerInv
    <3>2. CASE fs' # <<>>
      <4>1. /\ ready' = Append(ready, Head(fs'))
            /\ Head(fs') \in Calls /\ Head(fs') \notin Range(ready)
            /\ IsInjective(ready)
        BY <1>0, <2>3, <2>4, <3>2 DEF SchedulerInv
      <4> QED
        BY <1>0, <3>2, <4>1, AppendFacts
    <3> QED
      BY <3>1, <3>2
  <2>6. TypeOK'
    <3>1. pc' \in [Calls -> PCs]
      BY <1>0, GotoTypes DEF FinishVfsOp, PCs, Settled
    <3>2. /\ file' \in SUBSET Calls
          /\ buf' \in [Calls -> SUBSET Calls]
          /\ failed' \in [Calls -> BOOLEAN]
      BY <1>0 DEF TypeOK, FinishVfsOp, Effect
    <3>3. op' \in [Calls -> VfsOps] /\ answer' \in [Calls -> BOOLEAN]
      BY <1>0 DEF TypeOK, FinishVfsOp, VfsOps
    <3> QED
      BY <1>0, <2>1, <2>2, <2>5, <3>1, <3>2, <3>3, CallFacts DEF TypeOK, FinishVfsOp
  <2>7. ShellConserved'
    BY <1>0, <2>1, <1>1, CallFacts, <2>2, <2>3, <2>4, <2>5, EmptyFacts DEF ShellConserved, Holders, Awaiting
  <2>8. FsExclusive'
    BY <1>0, <2>1, <1>1, CallFacts, <2>2, <2>3, <2>4, <2>5, EmptyFacts DEF FsExclusive
  <2>9. NoLostWakeup'
    BY <1>0, <2>1, <1>1, CallFacts, <2>2, <2>3, <2>4, <2>5, EmptyFacts DEF NoLostWakeup, FsExclusive, WaitersInv
  <2>10. SchedulerInv'
    BY <1>0, <2>1, <1>1, CallFacts, <2>2, <2>3, <2>4, <2>5, EmptyFacts DEF SchedulerInv, Awaiting
  <2>11. WaitersInv'
    BY <1>0, <2>1, <1>1, CallFacts, <2>2, <2>3, <2>4, <2>5, EmptyFacts DEF WaitersInv, SchedulerInv, FsExclusive, Awaiting
  <2>12. AppendInv'
    BY <1>0, <2>1, <1>1, CallFacts, <2>2, <2>3, <2>4, <2>5, EmptyFacts DEF AppendInv, ShellConserved, Holders, SchedulerInv, FsExclusive, Awaiting
  <2> QED
    BY <2>6, <2>7, <2>8, <2>9, <2>10, <2>11, <2>12 DEF IInv
<1>2. CASE c \in Execs
  <2>1. /\ pc[c] \in {"locked", "mount"} /\ cpu = c
        /\ pc'[c] = "run"
        /\ \A d \in Calls \ {c} : pc'[d] = pc[d]
        /\ inner' = inner /\ cpu' = cpu
        /\ \A d \in Calls \ {c} : op'[d] = op[d]
    BY <1>0, <1>2, CallFacts DEF TypeOK, FinishVfsOp, Goto, UnlockFs
  <2>2. /\ fs # <<>> /\ Head(fs) = c
        /\ Range(fs) = Range(fs') \cup {c}
        /\ fs' \in Seq(Calls)
        /\ IsInjective(fs') /\ c \notin Range(fs')
        /\ fs' # <<>> => fs'[Len(fs')] = fs[Len(fs)]
        /\ fs[Len(fs)] = c => fs' = <<>>
    BY <1>0, <2>1, TailFacts DEF TypeOK, FsExclusive, FinishVfsOp, UnlockFs
  <2>3. /\ fs' # <<>> => Head(fs') \in Range(fs') /\ ready' = Append(ready, Head(fs'))
        /\ fs' = <<>> => ready' = ready
    BY <2>2, TailFacts DEF FinishVfsOp, UnlockFs
  <2>4. fs' # <<>> => /\ pc[Head(fs')] = "lock" /\ Head(fs') \in Calls
                       /\ Head(fs') \notin Range(ready)
    BY <1>0, <2>2, <2>3 DEF FsExclusive, WaitersInv
  <2>5. /\ ready' \in Seq(Calls) /\ IsInjective(ready')
        /\ Range(ready') = IF fs' = <<>> THEN Range(ready) ELSE Range(ready) \cup {Head(fs')}
    <3>1. CASE fs' = <<>>
      BY <1>0, <2>3, <3>1 DEF SchedulerInv
    <3>2. CASE fs' # <<>>
      <4>1. /\ ready' = Append(ready, Head(fs'))
            /\ Head(fs') \in Calls /\ Head(fs') \notin Range(ready)
            /\ IsInjective(ready)
        BY <1>0, <2>3, <2>4, <3>2 DEF SchedulerInv
      <4> QED
        BY <1>0, <3>2, <4>1, AppendFacts
    <3> QED
      BY <3>1, <3>2
  <2>6. TypeOK'
    <3>1. pc' \in [Calls -> PCs]
      BY <1>0, GotoTypes DEF FinishVfsOp, PCs, Settled
    <3>2. /\ file' \in SUBSET Calls
          /\ buf' \in [Calls -> SUBSET Calls]
          /\ failed' \in [Calls -> BOOLEAN]
      BY <1>0 DEF TypeOK, FinishVfsOp, Effect
    <3>3. op' \in [Calls -> VfsOps] /\ answer' \in [Calls -> BOOLEAN]
      BY <1>0 DEF TypeOK, FinishVfsOp, VfsOps
    <3> QED
      BY <1>0, <2>1, <2>2, <2>5, <3>1, <3>2, <3>3, CallFacts DEF TypeOK, FinishVfsOp
  <2>7. ShellConserved'
    BY <1>0, <2>1, <1>2, CallFacts, <2>2, <2>3, <2>4, <2>5, EmptyFacts DEF ShellConserved, Holders, Awaiting
  <2>8. FsExclusive'
    BY <1>0, <2>1, <1>2, CallFacts, <2>2, <2>3, <2>4, <2>5, EmptyFacts DEF FsExclusive
  <2>9. NoLostWakeup'
    BY <1>0, <2>1, <1>2, CallFacts, <2>2, <2>3, <2>4, <2>5, EmptyFacts DEF NoLostWakeup, FsExclusive, WaitersInv
  <2>10. SchedulerInv'
    BY <1>0, <2>1, <1>2, CallFacts, <2>2, <2>3, <2>4, <2>5, EmptyFacts DEF SchedulerInv, Awaiting
  <2>11. WaitersInv'
    <3>1. ASSUME NEW d \in Calls, pc'[d] = "lock"
          PROVE  d \in Range(fs')
      BY <1>0, <2>1, <2>2, <3>1 DEF WaitersInv
    <3>2. ASSUME NEW d \in Calls, pc'[d] = "lock", d \in Range(ready') \/ cpu' = d
          PROVE  Head(fs') = d
      BY <1>0, <2>1, <2>2, <2>5, <3>2 DEF WaitersInv
    <3> QED
      BY <3>1, <3>2 DEF WaitersInv
  <2>12. AppendInv'
    BY <1>0, <2>1, <1>2, CallFacts, <2>2, <2>3, <2>4, <2>5, EmptyFacts DEF AppendInv, ShellConserved, Holders, SchedulerInv, FsExclusive, Awaiting
  <2> QED
    BY <2>6, <2>7, <2>8, <2>9, <2>10, <2>11, <2>12 DEF IInv
<1> QED
  BY <1>0, <1>1, <1>2, CallFacts DEF FinishVfsOp, Goto, UnlockFs, TypeOK

LEMMA FinishExecInv ==
    ASSUME IInv, NEW c \in Execs, FinishExec(c)
    PROVE  IInv'
<1>0. /\ TypeOK /\ ShellConserved /\ FsExclusive /\ NoLostWakeup
      /\ SchedulerInv /\ WaitersInv /\ AppendInv
      /\ Range(ready) \subseteq Calls /\ Range(fs) \subseteq Calls
      /\ ready \in Seq(Calls) /\ fs \in Seq(Calls)
      /\ cpu \in Calls \cup {NoCall} /\ inner \in {"Some", "None"}
  BY RangeOfSeq DEF IInv, TypeOK
<1>1. CASE pc'[c] = "rejected"
  <2>1. /\ pc[c] = "run" /\ cpu = c /\ op[c] # "append_write"
        /\ pc'[c] = "rejected"
        /\ \A d \in Calls \ {c} : pc'[d] = pc[d]
        /\ fs' = fs /\ ready' = ready /\ op' = op
        /\ cpu' = NoCall /\ inner' = "Some"
    BY <1>0, <1>1, CallFacts DEF TypeOK, FinishExec, Goto, Drop
  <2>2. TypeOK'
    <3>1. pc' \in [Calls -> PCs]
      BY <1>0, CallFacts, GotoTypes DEF FinishExec, PCs, Settled
    <3>2. Drop(c)
      BY DEF FinishExec
    <3> QED
      BY <1>0, <2>1, <3>1, <3>2, CallFacts, DropTypes DEF TypeOK, FinishExec
  <2>3. ShellConserved'
    BY <1>0, <2>1, <1>1, CallFacts DEF ShellConserved, Holders, Awaiting
  <2>4. FsExclusive'
    BY <1>0, <2>1, <1>1, CallFacts DEF FsExclusive
  <2>5. NoLostWakeup'
    BY <1>0, <2>1, <1>1, CallFacts DEF NoLostWakeup, FsExclusive
  <2>6. SchedulerInv'
    BY <1>0, <2>1, <1>1, CallFacts DEF SchedulerInv, Awaiting
  <2>7. WaitersInv'
    BY <1>0, <2>1, <1>1, CallFacts DEF WaitersInv, SchedulerInv, FsExclusive, Awaiting
  <2>8. AppendInv'
    BY <1>0, <2>1, <1>1, CallFacts DEF AppendInv, ShellConserved, Holders, SchedulerInv, FsExclusive, Awaiting
  <2> QED
    BY <2>2, <2>3, <2>4, <2>5, <2>6, <2>7, <2>8 DEF IInv
<1>2. CASE pc'[c] = "deliver"
  <2>1. /\ pc[c] = "run" /\ cpu = c /\ op[c] # "append_write"
        /\ pc'[c] = "deliver"
        /\ \A d \in Calls \ {c} : pc'[d] = pc[d]
        /\ fs' = fs /\ ready' = ready /\ cpu' = cpu /\ op' = op
        /\ inner' = "Some"
    BY <1>0, <1>2, CallFacts DEF TypeOK, FinishExec, Goto, Drop
  <2>2. TypeOK'
    <3>1. pc' \in [Calls -> PCs]
      BY <1>0, CallFacts, GotoTypes DEF FinishExec, PCs, Settled
    <3>2. Drop(c)
      BY DEF FinishExec
    <3> QED
      BY <1>0, <2>1, <3>1, <3>2, CallFacts, DropTypes DEF TypeOK, FinishExec
  <2>3. ShellConserved'
    BY <1>0, <2>1, <1>2, CallFacts DEF ShellConserved, Holders, Awaiting
  <2>4. FsExclusive'
    BY <1>0, <2>1, <1>2, CallFacts DEF FsExclusive
  <2>5. NoLostWakeup'
    BY <1>0, <2>1, <1>2, CallFacts DEF NoLostWakeup, FsExclusive
  <2>6. SchedulerInv'
    BY <1>0, <2>1, <1>2, CallFacts DEF SchedulerInv, Awaiting
  <2>7. WaitersInv'
    BY <1>0, <2>1, <1>2, CallFacts DEF WaitersInv, SchedulerInv, FsExclusive, Awaiting
  <2>8. AppendInv'
    BY <1>0, <2>1, <1>2, CallFacts DEF AppendInv, ShellConserved, Holders, SchedulerInv, FsExclusive, Awaiting
  <2> QED
    BY <2>2, <2>3, <2>4, <2>5, <2>6, <2>7, <2>8 DEF IInv
<1> QED
  BY <1>0, <1>1, <1>2, CallFacts DEF FinishExec, Goto, Drop, TypeOK

LEMMA DeliverInv ==
    ASSUME IInv, NEW c \in Execs, Deliver(c)
    PROVE  IInv'
<1>0. /\ TypeOK /\ ShellConserved /\ FsExclusive /\ NoLostWakeup
      /\ SchedulerInv /\ WaitersInv /\ AppendInv
      /\ Range(ready) \subseteq Calls /\ Range(fs) \subseteq Calls
      /\ ready \in Seq(Calls) /\ fs \in Seq(Calls)
      /\ cpu \in Calls \cup {NoCall} /\ inner \in {"Some", "None"}
  BY RangeOfSeq DEF IInv, TypeOK
<1>1. /\ pc[c] = "deliver" /\ cpu = c
      /\ pc'[c] = "resolved"
      /\ \A d \in Calls \ {c} : pc'[d] = pc[d]
      /\ inner' = inner /\ fs' = fs /\ ready' = ready /\ op' = op
      /\ cpu' = NoCall
  BY <1>0, CallFacts DEF TypeOK, Deliver, Goto
<1>2. TypeOK'
  BY <1>0, CallFacts, BoundAssumption DEF TypeOK, PCs, VfsOps, Settled, Deliver, Goto, Awaiting
<1>3. ShellConserved'
  BY <1>0, <1>1, CallFacts DEF ShellConserved, Holders, Awaiting
<1>4. FsExclusive'
  BY <1>0, <1>1, CallFacts DEF FsExclusive
<1>5. NoLostWakeup'
  BY <1>0, <1>1, CallFacts DEF NoLostWakeup, FsExclusive
<1>6. SchedulerInv'
  BY <1>0, <1>1, CallFacts DEF SchedulerInv, Awaiting
<1>7. WaitersInv'
  BY <1>0, <1>1, CallFacts DEF WaitersInv, SchedulerInv, FsExclusive, Awaiting
<1>8. AppendInv'
  BY <1>0, <1>1, CallFacts DEF AppendInv, ShellConserved, Holders, SchedulerInv, FsExclusive, Awaiting
<1> QED
  BY <1>2, <1>3, <1>4, <1>5, <1>6, <1>7, <1>8 DEF IInv

LEMMA TrapInv ==
    ASSUME IInv, NEW c \in Execs, Trap(c)
    PROVE  IInv'
<1>0. /\ TypeOK /\ ShellConserved /\ FsExclusive /\ NoLostWakeup
      /\ SchedulerInv /\ WaitersInv /\ AppendInv
      /\ Range(ready) \subseteq Calls /\ Range(fs) \subseteq Calls
      /\ ready \in Seq(Calls) /\ fs \in Seq(Calls)
      /\ cpu \in Calls \cup {NoCall} /\ inner \in {"Some", "None"}
  BY RangeOfSeq DEF IInv, TypeOK
<1>1. /\ pc[c] = "run" /\ cpu = c /\ op[c] # "append_write"
      /\ pc'[c] = "trapped"
      /\ \A d \in Calls \ {c} : pc'[d] = pc[d]
      /\ inner' = inner /\ fs' = fs /\ ready' = ready /\ op' = op
      /\ cpu' = NoCall
  BY <1>0, CallFacts DEF TypeOK, Trap, Goto
<1>2. TypeOK'
  BY <1>0, CallFacts, BoundAssumption DEF TypeOK, PCs, VfsOps, Settled, Trap, Goto, Awaiting
<1>3. ShellConserved'
  BY <1>0, <1>1, CallFacts DEF ShellConserved, Holders, Awaiting
<1>4. FsExclusive'
  BY <1>0, <1>1, CallFacts DEF FsExclusive
<1>5. NoLostWakeup'
  BY <1>0, <1>1, CallFacts DEF NoLostWakeup, FsExclusive
<1>6. SchedulerInv'
  BY <1>0, <1>1, CallFacts DEF SchedulerInv, Awaiting
<1>7. WaitersInv'
  BY <1>0, <1>1, CallFacts DEF WaitersInv, SchedulerInv, FsExclusive, Awaiting
<1>8. AppendInv'
  BY <1>0, <1>1, CallFacts DEF AppendInv, ShellConserved, Holders, SchedulerInv, FsExclusive, Awaiting
<1> QED
  BY <1>2, <1>3, <1>4, <1>5, <1>6, <1>7, <1>8 DEF IInv

LEMMA SetStdinInv ==
    ASSUME IInv, NEW bytes \in Inputs, SetStdin(bytes)
    PROVE  IInv'
<1>0. /\ TypeOK /\ ShellConserved /\ FsExclusive /\ NoLostWakeup
      /\ SchedulerInv /\ WaitersInv /\ AppendInv
      /\ Range(ready) \subseteq Calls /\ Range(fs) \subseteq Calls
      /\ ready \in Seq(Calls) /\ fs \in Seq(Calls)
      /\ cpu \in Calls \cup {NoCall} /\ inner \in {"Some", "None"}
  BY RangeOfSeq DEF IInv, TypeOK
<1>1. TypeOK'
  BY <1>0 DEF TypeOK, SetStdin
<1>2. ShellConserved'
  BY <1>0 DEF ShellConserved, Holders, Awaiting, SetStdin
<1>3. FsExclusive'
  BY <1>0 DEF FsExclusive, SetStdin
<1>4. NoLostWakeup'
  BY <1>0 DEF NoLostWakeup, FsExclusive, SetStdin
<1>5. SchedulerInv'
  BY <1>0 DEF SchedulerInv, Awaiting, SetStdin
<1>6. WaitersInv'
  BY <1>0 DEF WaitersInv, SchedulerInv, FsExclusive, Awaiting, SetStdin
<1>7. AppendInv'
  BY <1>0 DEF AppendInv, ShellConserved, Holders, SchedulerInv, FsExclusive, Awaiting, SetStdin
<1> QED
  BY <1>1, <1>2, <1>3, <1>4, <1>5, <1>6, <1>7 DEF IInv

LEMMA CallbackSettlesInv ==
    ASSUME IInv, NEW c \in Calls, NEW ok \in BOOLEAN, CallbackSettles(c, ok)
    PROVE  IInv'
<1>0. /\ TypeOK /\ ShellConserved /\ FsExclusive /\ NoLostWakeup
      /\ SchedulerInv /\ WaitersInv /\ AppendInv
      /\ Range(ready) \subseteq Calls /\ Range(fs) \subseteq Calls
      /\ ready \in Seq(Calls) /\ fs \in Seq(Calls)
      /\ cpu \in Calls \cup {NoCall} /\ inner \in {"Some", "None"}
  BY RangeOfSeq DEF IInv, TypeOK
<1>1. /\ IsInjective(ready) /\ c \notin Range(ready) /\ ready' = Append(ready, c)
      /\ cpu # c /\ pc[c] \in Awaiting
  BY <1>0, CallFacts DEF SchedulerInv, CallbackSettles, JsRuns, Awaiting
<1>2. /\ Range(ready') = Range(ready) \cup {c}
      /\ ready' \in Seq(Calls)
      /\ IsInjective(ready')
  BY <1>0, <1>1, AppendFacts
<1>3. TypeOK'
  BY <1>0, <1>2 DEF TypeOK, CallbackSettles
<1>4. ShellConserved'
  BY <1>0, <1>1, <1>2 DEF ShellConserved, Holders, Awaiting, CallbackSettles
<1>5. FsExclusive'
  BY <1>0, <1>1, <1>2 DEF FsExclusive, CallbackSettles
<1>6. NoLostWakeup'
  BY <1>0, <1>1, <1>2 DEF NoLostWakeup, FsExclusive, CallbackSettles
<1>7. SchedulerInv'
  BY <1>0, <1>1, <1>2 DEF SchedulerInv, Awaiting, CallbackSettles
<1>8. WaitersInv'
  BY <1>0, <1>1, <1>2 DEF WaitersInv, SchedulerInv, FsExclusive, Awaiting, CallbackSettles
<1>9. AppendInv'
  BY <1>0, <1>1, <1>2 DEF AppendInv, ShellConserved, Holders, SchedulerInv, FsExclusive, Awaiting, CallbackSettles
<1> QED
  BY <1>3, <1>4, <1>5, <1>6, <1>7, <1>8, <1>9 DEF IInv

LEMMA PollInv ==
    ASSUME IInv, Poll
    PROVE  IInv'
<1>0. /\ TypeOK /\ ShellConserved /\ FsExclusive /\ NoLostWakeup
      /\ SchedulerInv /\ WaitersInv /\ AppendInv
      /\ Range(ready) \subseteq Calls /\ Range(fs) \subseteq Calls
      /\ ready \in Seq(Calls) /\ fs \in Seq(Calls)
      /\ cpu \in Calls \cup {NoCall} /\ inner \in {"Some", "None"}
  BY RangeOfSeq DEF IInv, TypeOK
<1>1. /\ cpu' \in Calls /\ ready' \in Seq(Calls)
      /\ Range(ready) = Range(ready') \cup {cpu'}
      /\ IsInjective(ready') /\ cpu' \notin Range(ready')
      /\ cpu = NoCall
  BY <1>0, TailFacts, HeadTailProperties DEF TypeOK, SchedulerInv, Poll
<1>2. TypeOK'
  BY <1>0, <1>1 DEF TypeOK, Poll
<1>3. ShellConserved'
  BY <1>0, <1>1, CallFacts DEF ShellConserved, Holders, Awaiting, Poll
<1>4. FsExclusive'
  BY <1>0, <1>1, CallFacts DEF FsExclusive, Poll
<1>5. NoLostWakeup'
  BY <1>0, <1>1, CallFacts DEF NoLostWakeup, FsExclusive, Poll
<1>6. SchedulerInv'
  BY <1>0, <1>1, CallFacts DEF SchedulerInv, Awaiting, Poll
<1>7. WaitersInv'
  BY <1>0, <1>1, CallFacts DEF WaitersInv, SchedulerInv, FsExclusive, Awaiting, Poll
<1>8. AppendInv'
  BY <1>0, <1>1, CallFacts DEF AppendInv, ShellConserved, Holders, SchedulerInv, FsExclusive, Awaiting, Poll
<1> QED
  BY <1>2, <1>3, <1>4, <1>5, <1>6, <1>7, <1>8 DEF IInv

LEMMA StutterInv == IInv /\ UNCHANGED vars => IInv'
<1> SUFFICES ASSUME IInv, UNCHANGED vars PROVE IInv'
  OBVIOUS
<1>1. TypeOK' /\ ShellConserved' /\ FsExclusive' /\ NoLostWakeup'
  BY DEF IInv, vars, TypeOK, ShellConserved, Holders, FsExclusive, NoLostWakeup
<1>2. SchedulerInv' /\ WaitersInv' /\ AppendInv'
  BY DEF IInv, vars, SchedulerInv, WaitersInv, AppendInv
<1> QED
  BY <1>1, <1>2 DEF IInv

LEMMA NextInv == IInv /\ [Next]_vars => IInv'
<1> SUFFICES ASSUME IInv, [Next]_vars PROVE IInv'
  OBVIOUS
<1>1. ASSUME NEW c \in Calls, TaskStep(c)
      PROVE  IInv'
  BY <1>1, CallFacts, StartExecInv, StartFileInv, RunProgramInv, RunVfsOpInv,
     LockedInv, ProgramReturnsInv, AwaitMountInv, FinishVfsOpInv,
     FinishExecInv, DeliverInv, TrapInv DEF TaskStep
<1>2. ASSUME NEW c \in Calls, Settle(c)
      PROVE  IInv'
  BY <1>2, CallbackSettlesInv DEF Settle
<1> QED
  BY <1>1, <1>2, CallInv, SetStdinInv, PollInv, StutterInv DEF Next

LEMMA SpecInv == Spec => []IInv
  BY InitInv, NextInv, PTL DEF Spec
-----------------------------------------------------------------------------
(* What follows from it. *)

\* The variables of the binding keep their types.
THEOREM TypeCorrect == Spec => []TypeOK
  BY SpecInv, PTL DEF IInv

\* However calls interleave, and whatever panics, the Shell is in the cell or in
\* the hands of exactly one exec (wasm.rs:498-508).
THEOREM ShellIsConserved == Spec => []ShellConserved
  BY SpecInv, PTL DEF IInv

\* At most one call is past `lock().await` on the VFS.
THEOREM MutexExcludes == Spec => []FsExclusive
  BY SpecInv, PTL DEF IInv

\* A waiter that has come to the head of the mutex's queue has been woken.
THEOREM NoWakeupIsLost == Spec => []NoLostWakeup
  BY SpecInv, PTL DEF IInv

\* The `expect`s of the `&mut self` methods never fire (wasm.rs:425, 480, 596;
\* shell.rs:246): the borrow rules let them run only when no call is in flight,
\* and then the cell is full and the VFS mutex free.
THEOREM ExpectsNeverFire == Spec => []ExpectNeverFires
<1>1. IInv => ExpectNeverFires
  <2> SUFFICES ASSUME IInv, Borrowers = {}
               PROVE  inner = "Some" /\ fs = <<>>
    BY DEF ExpectNeverFires
  <2>1. \A c \in Calls : pc[c] \in {"idle"} \cup Settled
    BY DEF Borrowers
  <2>2. Holders = {}
    BY <2>1, CallFacts DEF Holders, Awaiting, Settled
  <2>3. inner = "Some"
    BY <2>2 DEF IInv, TypeOK, ShellConserved
  <2>4. fs \in Seq(Calls) /\ Range(fs) \subseteq Calls
    BY RangeOfSeq DEF IInv, TypeOK
  <2>5. Range(fs) = {}
    BY <2>1, <2>4 DEF IInv, FsExclusive, Settled
  <2>6. fs = <<>>
    BY <2>4, <2>5, TailFacts
  <2> QED
    BY <2>3, <2>6
<1> QED
  BY <1>1, SpecInv, PTL

(***************************************************************************)
(* An append redirection is atomic although it locks the VFS twice: the    *)
(* file changes between its read and its write only by its own write.      *)
(***************************************************************************)
THEOREM AppendIsAtomic == Spec => AppendAtomic
<1>1. ASSUME IInv, [Next]_vars, NEW e \in Execs, op[e] = "append_write", file' # file
      PROVE  cpu = e /\ op'[e] # "append_write"
  <2>1. PICK c \in Calls : FinishVfsOp(c)
    BY <1>1 DEF Next, vars, TaskStep, Settle, Call, SetStdin, CallbackSettles, Poll,
       StartExec, StartFile, RunProgram, RunVfsOp, Locked, ProgramReturns,
       AwaitMount, FinishExec, Deliver, Trap
  <2>2. cpu = c /\ pc[c] \in {"locked", "mount"} /\ fs # <<>> /\ Head(fs) = c
    BY <1>1, <2>1 DEF FinishVfsOp, IInv, FsExclusive
  <2>3. c = e
    <3>1. pc[e] \in {"locked", "mount"} \/ fs = <<>>
      BY <1>1 DEF IInv, AppendInv
    <3> QED
      BY <1>1, <2>2, <3>1, CallFacts DEF IInv, FsExclusive
  <2>4. op'[e] = "read"
    BY <1>1, <2>1, <2>3, CallFacts DEF FinishVfsOp, IInv, TypeOK
  <2> QED
    BY <2>2, <2>3, <2>4
<1>2. IInv /\ [Next]_vars =>
        [\A e \in Execs : op[e] = "append_write" =>
            file' = file \/ (cpu = e /\ op'[e] # "append_write")]_vars
  BY <1>1
<1> QED
  BY <1>2, SpecInv, PTL DEF Spec, AppendAtomic
-----------------------------------------------------------------------------
(***************************************************************************)
(* The first exec of those that wait to begin.  Two promises rest on it:   *)
(* isAvailable() and setStdin() both speak of the next exec, and the Shell *)
(* is taken, and stdin with it, only when a task is first polled.  Tasks   *)
(* are polled in the order of the calls, so an exec that was called when   *)
(* no other waited stays ahead of those called later, and the cell stays   *)
(* full until it begins.                                                   *)
(***************************************************************************)
Before(s, e, d) == \E i, j \in DOMAIN s : i < j /\ s[i] = e /\ s[j] = d

FirstExec(e) ==
    /\ pc[e] = "queued" /\ inner = "Some"
    /\ \A d \in Execs \ {e} : pc[d] = "queued" => cpu = e \/ Before(ready, e, d)

QueuedInv == \A e \in Execs : pc[e] = "queued" => e \in Range(ready) \/ cpu = e

AvailInv == \A e \in Execs : avail[e] => FirstExec(e)

StdinInv ==
    /\ target \in Execs \cup {NoCall}
    /\ \A e \in Execs : target = e => FirstExec(e)
    /\ stdin_bytes # Empty =>
          inner = "Some" /\ (target = NoCall => \A e \in Execs : pc[e] # "queued")

NextExecInv == IInv /\ QueuedInv /\ AvailInv /\ StdinInv

\* How the order of a queue fares when a task joins it, or leaves it.
LEMMA BeforeFacts ==
    ASSUME NEW S, NEW s \in Seq(S), NEW e, NEW d
    PROVE  /\ Before(s, e, d) => d \in Range(s)
           /\ \A x \in S : Before(s, e, d) => Before(Append(s, x), e, d)
           /\ d \in S /\ e \in Range(s) => Before(Append(s, d), e, d)
           /\ s # <<>> /\ IsInjective(s) /\ Before(s, e, d) =>
                 Head(s) # d /\ (Head(s) = e \/ Before(Tail(s), e, d))
<1>1. Len(s) \in Nat /\ DOMAIN s = 1..Len(s)
  BY LenProperties
<1>2. Before(s, e, d) => d \in Range(s)
  BY DEF Before, Range
<1>3. ASSUME NEW x \in S
      PROVE  /\ Len(Append(s, x)) = Len(s) + 1 /\ DOMAIN Append(s, x) = 1..(Len(s) + 1)
             /\ \A i \in 1..Len(s) : i \in 1..(Len(s) + 1) /\ Append(s, x)[i] = s[i]
             /\ Append(s, x)[Len(s) + 1] = x
  <2>1. Append(s, x) \in Seq(S) /\ Len(Append(s, x)) = Len(s) + 1
    BY AppendProperties
  <2> QED
    BY <1>1, <2>1, AppendProperties, LenProperties
<1>4. ASSUME NEW x \in S, Before(s, e, d)
      PROVE  Before(Append(s, x), e, d)
  BY <1>1, <1>3, <1>4 DEF Before
<1>5. ASSUME d \in S, e \in Range(s)
      PROVE  Before(Append(s, d), e, d)
  <2>1. PICK i \in 1..Len(s) : s[i] = e
    BY <1>1, <1>5 DEF Range
  <2>2. i \in 1..(Len(s) + 1) /\ Len(s) + 1 \in 1..(Len(s) + 1) /\ i < Len(s) + 1
    BY <1>1
  <2>3. Append(s, d)[i] = e /\ Append(s, d)[Len(s) + 1] = d
    BY <1>3, <1>5, <2>1
  <2>4. DOMAIN Append(s, d) = 1..(Len(s) + 1)
    BY <1>3, <1>5
  <2> QED
    BY <2>2, <2>3, <2>4 DEF Before
<1>6. ASSUME s # <<>>, IsInjective(s), Before(s, e, d)
      PROVE  Head(s) # d /\ (Head(s) = e \/ Before(Tail(s), e, d))
  <2>1. PICK i, j \in 1..Len(s) : i < j /\ s[i] = e /\ s[j] = d
    BY <1>1, <1>6 DEF Before
  <2>2. /\ Head(s) = s[1] /\ Len(Tail(s)) = Len(s) - 1 /\ Tail(s) \in Seq(S)
        /\ \A k \in 1..(Len(s) - 1) : Tail(s)[k] = s[k + 1]
    BY <1>6, HeadTailProperties
  <2>3. 1 \in 1..Len(s) /\ j # 1
    BY <1>1, <2>1
  <2>4. Head(s) # d
    BY <1>1, <1>6, <2>1, <2>2, <2>3 DEF IsInjective
  <2>5. ASSUME i # 1
        PROVE  Before(Tail(s), e, d)
    <3>1. /\ i - 1 \in 1..(Len(s) - 1) /\ j - 1 \in 1..(Len(s) - 1) /\ i - 1 < j - 1
          /\ (i - 1) + 1 = i /\ (j - 1) + 1 = j
      BY <1>1, <2>1, <2>3, <2>5
    <3>2. DOMAIN Tail(s) = 1..(Len(s) - 1)
      BY <1>1, <2>2, LenProperties
    <3> QED
      BY <2>1, <2>2, <3>1, <3>2 DEF Before
  <2> QED
    BY <2>1, <2>2, <2>4, <2>5
<1> QED
  BY <1>2, <1>4, <1>5, <1>6

\* The steps that begin no exec and call none: the queued ones stay queued.
Passes ==
    /\ \A e \in Execs : pc'[e] = "queued" <=> pc[e] = "queued"
    /\ inner' \in {inner, "Some"}
    /\ ready' = ready \/ \E x \in Calls : ready' = Append(ready, x)
    /\ cpu' = cpu \/ \A e \in Execs : pc[e] = "queued" => cpu # e
    /\ avail' = avail

LEMMA TaskPasses ==
    ASSUME IInv, NEW c \in Calls, TaskStep(c), ~(c \in Execs /\ StartExec(c))
    PROVE  /\ Passes /\ target' = target /\ stdin_bytes' = stdin_bytes
           /\ \A e \in Execs : stdin'[e] \in {stdin[e], Empty}
<1>0. TypeOK
  BY DEF IInv
<1>2. CASE c \in Execs /\ (RunProgram(c) \/ ProgramReturns(c) \/ Deliver(c) \/ Trap(c))
  BY <1>0, <1>2, CallFacts DEF RunProgram, ProgramReturns, Deliver, Trap, Goto, TypeOK, Passes
<1>3. CASE c \in Execs /\ FinishExec(c)
  BY <1>0, <1>3, CallFacts DEF FinishExec, Drop, Goto, TypeOK, Passes
<1>4. ASSUME c \in Execs, NEW o \in VfsOps, RunVfsOp(c, o)
      PROVE  /\ Passes /\ target' = target /\ stdin_bytes' = stdin_bytes
             /\ stdin' = stdin
  BY <1>0, <1>4, CallFacts DEF RunVfsOp, LockFs, Goto, TypeOK, Passes
<1>5. CASE c \in Files /\ StartFile(c)
  BY <1>0, <1>5, CallFacts DEF StartFile, LockFs, Goto, TypeOK, Passes
<1>6. CASE Locked(c) \/ AwaitMount(c)
  BY <1>0, <1>6, CallFacts DEF Locked, AwaitMount, Goto, TypeOK, Passes
<1>7. CASE FinishVfsOp(c)
  <2>1. ready' = ready \/ \E x \in Calls : ready' = Append(ready, x)
    <3>1. fs \in Seq(Calls) /\ fs # <<>>
      BY <1>0, <1>7 DEF FinishVfsOp, IInv, FsExclusive, TypeOK
    <3>2. Tail(fs) \in Seq(Calls)
      BY <3>1, TailFacts
    <3>3. Tail(fs) # <<>> => Head(Tail(fs)) \in Calls
      BY <3>2, HeadTailProperties
    <3> QED
      BY <1>7, <3>3 DEF FinishVfsOp, UnlockFs
  <2>2. /\ pc[c] \in {"locked", "mount"} /\ cpu = c
        /\ pc'[c] \in {"run", "resolved", "rejected"}
        /\ \A d \in Calls \ {c} : pc'[d] = pc[d]
        /\ inner' = inner /\ avail' = avail /\ target' = target
        /\ stdin_bytes' = stdin_bytes /\ stdin' = stdin
    BY <1>0, <1>7 DEF FinishVfsOp, Goto, TypeOK
  <2> QED
    BY <2>1, <2>2, CallFacts DEF Passes
<1> QED
  BY <1>2, <1>3, <1>4, <1>5, <1>6, <1>7 DEF TaskStep

\* Such a step leaves the order of the execs that wait to begin.
LEMMA PassesKeep ==
    ASSUME IInv, QueuedInv, Passes
    PROVE  QueuedInv' /\ \A e \in Execs : FirstExec(e) => FirstExec(e)'
<1>1. ready \in Seq(Calls) /\ inner \in {"Some", "None"}
  BY DEF IInv, TypeOK
<1>2. /\ Range(ready) \subseteq Range(ready')
      /\ \A e, d : Before(ready, e, d) => Before(ready', e, d)
  <2>1. CASE ready' = ready
    BY <2>1
  <2>2. ASSUME NEW x \in Calls, ready' = Append(ready, x)
        PROVE  /\ Range(ready) \subseteq Range(ready')
               /\ \A e, d : Before(ready, e, d) => Before(ready', e, d)
    BY <1>1, <2>2, AppendFacts, BeforeFacts
  <2> QED
    BY <2>1, <2>2 DEF Passes
<1>3. QueuedInv'
  BY <1>2 DEF QueuedInv, Passes
<1>4. ASSUME NEW e \in Execs, FirstExec(e)
      PROVE  FirstExec(e)'
  <2>1. pc'[e] = "queued" /\ inner' = "Some"
    BY <1>1, <1>4 DEF FirstExec, Passes
  <2>2. ASSUME NEW d \in Execs \ {e}, pc'[d] = "queued"
        PROVE  cpu' = e \/ Before(ready', e, d)
    <3>1. cpu = e \/ Before(ready, e, d)
      BY <1>4, <2>2 DEF FirstExec, Passes
    <3> QED
      BY <1>2, <1>4, <3>1 DEF Passes, FirstExec
  <2> QED
    BY <2>1, <2>2 DEF FirstExec
<1> QED
  BY <1>3, <1>4

\* Only the first of them can begin, while there is one.
LEMMA FirstBegins ==
    ASSUME IInv, NEW e \in Execs, FirstExec(e), NEW d \in Execs, StartExec(d)
    PROVE  d = e
<1> SUFFICES ASSUME d # e PROVE FALSE
  OBVIOUS
<1>1. cpu = d /\ pc[d] = "queued"
  BY DEF StartExec
<1>2. Before(ready, e, d)
  BY <1>1 DEF FirstExec
<1>3. d \in Range(ready)
  BY <1>2, BeforeFacts DEF IInv, TypeOK
<1> QED
  BY <1>1, <1>3 DEF IInv, SchedulerInv

LEMMA NextExecKept ==
    ASSUME NextExecInv, [Next]_vars
    PROVE  /\ NextExecInv'
           /\ \A e \in Execs : stdin'[e] # stdin[e] /\ stdin'[e] # Empty =>
                 e = target /\ stdin'[e] = stdin_bytes
<1>0. IInv /\ QueuedInv /\ AvailInv /\ StdinInv /\ IInv' /\ TypeOK
  BY NextInv DEF NextExecInv, IInv
<1>1. ASSUME Passes, target' = target, stdin_bytes' = stdin_bytes,
             \A e \in Execs : stdin'[e] \in {stdin[e], Empty}
      PROVE  /\ NextExecInv'
             /\ \A e \in Execs : stdin'[e] # stdin[e] /\ stdin'[e] # Empty =>
                   e = target /\ stdin'[e] = stdin_bytes
  <2>1. QueuedInv' /\ \A e \in Execs : FirstExec(e) => FirstExec(e)'
    BY <1>0, <1>1, PassesKeep
  <2>2. AvailInv'
    BY <1>0, <1>1, <2>1 DEF AvailInv, Passes
  <2>3. target' \in Execs \cup {NoCall} /\ \A e \in Execs : target' = e => FirstExec(e)'
    BY <1>0, <1>1, <2>1 DEF StdinInv
  <2>4. stdin_bytes' # Empty =>
           inner' = "Some" /\ (target' = NoCall => \A e \in Execs : pc'[e] # "queued")
    BY <1>0, <1>1 DEF StdinInv, Passes
  <2>5. StdinInv'
    BY <2>3, <2>4 DEF StdinInv
  <2> QED
    BY <1>0, <1>1, <2>1, <2>2, <2>5 DEF NextExecInv
<1>2. ASSUME NEW c \in Calls, NEW p \in Calls \cup {NoCall}, Call(c, p)
      PROVE  NextExecInv' /\ stdin' = stdin
  <2>1. /\ ready' = Append(ready, c) /\ ready \in Seq(Calls)
        /\ inner' = inner /\ cpu' = cpu /\ stdin_bytes' = stdin_bytes /\ stdin' = stdin
        /\ pc[c] # "queued" /\ pc'[c] = "queued" /\ \A d \in Calls \ {c} : pc'[d] = pc[d]
    BY <1>0, <1>2 DEF Call, Goto, TypeOK, Settled
  <2>2. /\ Range(ready') = Range(ready) \cup {c}
        /\ \A e, d : Before(ready, e, d) => Before(ready', e, d)
        /\ \A e \in Range(ready) : Before(ready', e, c)
    BY <2>1, AppendFacts, BeforeFacts
  <2>3. QueuedInv'
    BY <1>0, <2>1, <2>2, CallFacts DEF QueuedInv
  <2>4. ASSUME NEW e \in Execs, FirstExec(e)
        PROVE  FirstExec(e)'
    <3>1. pc[e] = "queued" /\ e # c /\ pc'[e] = "queued" /\ inner' = "Some"
      BY <2>1, <2>4, CallFacts DEF FirstExec
    <3>2. ASSUME NEW d \in Execs \ {e}, pc'[d] = "queued"
          PROVE  cpu' = e \/ Before(ready', e, d)
      <4>1. CASE d = c
        BY <1>0, <2>1, <2>2, <3>1, <4>1 DEF QueuedInv
      <4>2. CASE d # c
        BY <2>1, <2>2, <2>4, <3>2, <4>2, CallFacts DEF FirstExec
      <4> QED
        BY <4>1, <4>2
    <3> QED
      BY <3>1, <3>2 DEF FirstExec
  <2>5. ASSUME c \in Execs, inner = "Some", \A e \in Execs : pc[e] # "queued"
        PROVE  FirstExec(c)'
    BY <2>1, <2>5, CallFacts DEF FirstExec
  <2>6. AvailInv'
    <3> SUFFICES ASSUME NEW e \in Execs, avail'[e] PROVE FirstExec(e)'
      BY DEF AvailInv
    <3>1. CASE avail[e]
      BY <1>0, <2>4, <3>1 DEF AvailInv
    <3>2. CASE ~avail[e]
      <4>1. avail' # avail
        BY <3>2
      <4>2. c \notin Files /\ avail' = [avail EXCEPT ![c] =
                                inner = "Some" /\ \A x \in Execs : pc[x] # "queued"]
        BY <1>2, <4>1 DEF Call
      <4>3. e = c
        BY <1>0, <3>2, <4>2, CallFacts DEF TypeOK
      <4>4. inner = "Some" /\ \A x \in Execs : pc[x] # "queued"
        BY <1>0, <4>2, <4>3, CallFacts DEF TypeOK
      <4> QED
        BY <2>5, <4>3, <4>4
    <3> QED
      BY <3>1, <3>2
  <2>7. StdinInv'
    <3>1. CASE target' = target
      <4>1. target' \in Execs \cup {NoCall} /\ \A e \in Execs : target' = e => FirstExec(e)'
        BY <1>0, <2>4, <3>1 DEF StdinInv
      <4>2. stdin_bytes' # Empty => inner' = "Some"
        BY <1>0, <2>1 DEF StdinInv
      <4>3. stdin_bytes' # Empty /\ target' = NoCall => \A e \in Execs : pc'[e] # "queued"
        BY <1>0, <1>2, <2>1, <3>1, CallFacts DEF StdinInv, Call
      <4> QED
        BY <4>1, <4>2, <4>3 DEF StdinInv
    <3>2. CASE target' # target
      <4>1. c \in Execs /\ target = NoCall /\ stdin_bytes # Empty /\ target' = c
        BY <1>2, <3>2, CallFacts DEF Call
      <4>2. inner = "Some" /\ \A e \in Execs : pc[e] # "queued"
        BY <1>0, <4>1 DEF StdinInv
      <4>3. FirstExec(c)'
        BY <2>5, <4>1, <4>2
      <4>4. \A e \in Execs : target' = e => FirstExec(e)'
        BY <4>1, <4>3
      <4> QED
        BY <2>1, <4>1, <4>2, <4>4, CallFacts DEF StdinInv
    <3> QED
      BY <3>1, <3>2
  <2> QED
    BY <1>0, <2>1, <2>3, <2>6, <2>7 DEF NextExecInv
<1>3. ASSUME NEW bytes \in Inputs, SetStdin(bytes)
      PROVE  NextExecInv' /\ stdin' = stdin
  <2>1. /\ UNCHANGED <<inner, ready, cpu, pc, avail, stdin>> /\ target' = NoCall
        /\ Borrowers = {}
    BY <1>3 DEF SetStdin
  <2>2. \A e \in Execs : pc[e] # "queued"
    BY <2>1, CallFacts DEF Borrowers, Settled
  <2>3. inner = "Some"
    <3>1. Holders = {}
      BY <2>1, CallFacts DEF Borrowers, Holders, Settled, Awaiting
    <3> QED
      BY <1>0, <3>1 DEF IInv, TypeOK, ShellConserved
  <2>4. QueuedInv' /\ AvailInv' /\ StdinInv'
    BY <1>0, <2>1, <2>2, <2>3 DEF QueuedInv, AvailInv, StdinInv, FirstExec
  <2> QED
    BY <1>0, <2>1, <2>4 DEF NextExecInv
<1>4. ASSUME Poll
      PROVE  NextExecInv' /\ stdin' = stdin
  <2>1. /\ UNCHANGED <<inner, pc, avail, stdin, target, stdin_bytes>> /\ cpu = NoCall
        /\ ready \in Seq(Calls) /\ ready # <<>> /\ IsInjective(ready)
        /\ cpu' = Head(ready) /\ ready' = Tail(ready)
    BY <1>0, <1>4 DEF Poll, TypeOK, IInv, SchedulerInv
  <2>2. Range(ready) = Range(ready') \cup {cpu'}
    BY <2>1, TailFacts
  <2>3. QueuedInv'
    BY <1>0, <2>1, <2>2, CallFacts DEF QueuedInv
  <2>4. ASSUME NEW e \in Execs, FirstExec(e)
        PROVE  FirstExec(e)'
    <3>1. pc'[e] = "queued" /\ inner' = "Some"
      BY <2>1, <2>4 DEF FirstExec
    <3>2. ASSUME NEW d \in Execs \ {e}, pc'[d] = "queued"
          PROVE  cpu' = e \/ Before(ready', e, d)
      <4>1. Before(ready, e, d)
        BY <2>1, <2>4, <3>2, CallFacts DEF FirstExec
      <4> QED
        BY <2>1, <4>1, BeforeFacts
    <3> QED
      BY <3>1, <3>2 DEF FirstExec
  <2>5. AvailInv'
    BY <1>0, <2>1, <2>4 DEF AvailInv
  <2>6. target' \in Execs \cup {NoCall} /\ \A e \in Execs : target' = e => FirstExec(e)'
    BY <1>0, <2>1, <2>4 DEF StdinInv
  <2>7. StdinInv'
    BY <1>0, <2>1, <2>6 DEF StdinInv
  <2> QED
    BY <1>0, <2>1, <2>3, <2>5, <2>7 DEF NextExecInv
<1>5. ASSUME NEW c \in Execs, StartExec(c)
      PROVE  /\ NextExecInv'
             /\ \A e \in Execs : stdin'[e] # stdin[e] /\ stdin'[e] # Empty =>
                   e = target /\ stdin'[e] = stdin_bytes
  <2>1. /\ cpu = c /\ pc[c] = "queued" /\ ready' = ready
        /\ \A d \in Calls \ {c} : pc'[d] = pc[d]
    BY <1>0, <1>5 DEF StartExec, Goto, TypeOK
  <2>2. cpu \notin Range(ready)
    BY <1>0 DEF IInv, SchedulerInv
  <2>3. CASE inner = "None"
    <3>1. /\ pc'[c] = "busy" /\ inner' = "None" /\ cpu' = NoCall
          /\ UNCHANGED <<stdin_bytes, target, avail>>
          /\ \A e \in Execs : stdin'[e] \in {stdin[e], Empty}
      BY <1>0, <1>5, <2>3, CallFacts DEF StartExec, Drop, Goto, TypeOK
    <3>2. \A e \in Execs : ~FirstExec(e)
      BY <2>3 DEF FirstExec
    <3>3. QueuedInv'
      BY <1>0, <2>1, <3>1, CallFacts DEF QueuedInv
    <3>4. AvailInv' /\ StdinInv'
      BY <1>0, <2>3, <3>1, <3>2 DEF AvailInv, StdinInv
    <3> QED
      BY <1>0, <3>1, <3>3, <3>4 DEF NextExecInv
  <2>4. CASE inner # "None"
    <3>1. /\ pc'[c] = "run" /\ inner' = "None" /\ cpu' = cpu
          /\ stdin' = [stdin EXCEPT ![c] = stdin_bytes]
          /\ stdin_bytes' = Empty /\ target' = NoCall
          /\ avail' = [avail EXCEPT ![c] = FALSE]
      BY <1>0, <1>5, <2>4, CallFacts DEF StartExec, Goto, TypeOK
    <3>2. \A e \in Execs : FirstExec(e) => e = c
      BY <1>0, <1>5, FirstBegins
    <3>3. QueuedInv'
      BY <1>0, <2>1, <3>1, CallFacts DEF QueuedInv
    <3>4. \A e \in Execs : ~avail'[e]
      BY <1>0, <3>1, <3>2, CallFacts DEF AvailInv, TypeOK
    <3>5. AvailInv' /\ StdinInv'
      BY <3>1, <3>4, CallFacts DEF AvailInv, StdinInv
    <3>6. ASSUME NEW e \in Execs, stdin'[e] # stdin[e], stdin'[e] # Empty
          PROVE  e = target /\ stdin'[e] = stdin_bytes
      <4>1. e = c /\ stdin'[e] = stdin_bytes
        BY <1>0, <3>1, <3>6, CallFacts DEF TypeOK
      <4>2. target # NoCall
        BY <1>0, <2>1, <3>6, <4>1 DEF StdinInv
      <4>3. target = c
        BY <1>0, <3>2, <4>2 DEF StdinInv
      <4> QED
        BY <4>1, <4>3
    <3> QED
      BY <1>0, <3>3, <3>5, <3>6 DEF NextExecInv
  <2> QED
    BY <2>3, <2>4
<1>6. ASSUME NEW c \in Calls, NEW ok \in BOOLEAN, CallbackSettles(c, ok)
      PROVE  /\ Passes /\ target' = target /\ stdin_bytes' = stdin_bytes /\ stdin' = stdin
  BY <1>6 DEF CallbackSettles, Passes
<1>7. ASSUME UNCHANGED vars
      PROVE  /\ Passes /\ target' = target /\ stdin_bytes' = stdin_bytes /\ stdin' = stdin
  BY <1>7 DEF vars, Passes
<1>8. ASSUME NEW c \in Calls, TaskStep(c)
      PROVE  /\ NextExecInv'
             /\ \A e \in Execs : stdin'[e] # stdin[e] /\ stdin'[e] # Empty =>
                   e = target /\ stdin'[e] = stdin_bytes
  BY <1>0, <1>1, <1>5, <1>8, TaskPasses
<1> QED
  BY <1>1, <1>2, <1>3, <1>4, <1>6, <1>7, <1>8 DEF Next, Settle

LEMMA NextExecInit == Init => NextExecInv
<1> SUFFICES ASSUME Init PROVE NextExecInv
  OBVIOUS
<1>1. QueuedInv /\ AvailInv /\ StdinInv
  BY CallFacts DEF Init, QueuedInv, AvailInv, StdinInv
<1> QED
  BY <1>1, InitInv DEF NextExecInv

\* isAvailable() can be relied on: an exec called when it answered true, and no other
\* waited, is not turned away as busy (wasm.rs:409, 498).
THEOREM AvailabilityHolds == Spec => []AvailableIsReliable
<1>1. NextExecInv => AvailableIsReliable
  BY DEF NextExecInv, AvailInv, FirstExec, AvailableIsReliable
<1> QED
  BY <1>1, NextExecInit, NextExecKept, PTL DEF Spec

\* The bytes of setStdin() go to the first exec called after it, and to no other
\* (wasm.rs:498-505, 554).
THEOREM StdinReachesNextExec == Spec => StdinGoesToNextExec
<1>1. NextExecInv /\ [Next]_vars =>
        [\A e \in Execs : stdin'[e] # stdin[e] /\ stdin'[e] # Empty =>
            e = target /\ stdin'[e] = stdin_bytes]_vars
  BY NextExecKept
<1> QED
  BY <1>1, NextExecInit, NextExecKept, PTL DEF Spec, StdinGoesToNextExec
=============================================================================
