------------------------------ MODULE ExecProofs ------------------------------
(***************************************************************************)
(* Theorems about Exec, for every set of scripts, programs and files.      *)
(* First what pushing and popping do to a stack of frames, then the        *)
(* invariant that ties $? to the command that finished last.               *)
(***************************************************************************)
EXTENDS Exec, SequenceTheorems, TLAPS

\* A stack is a sequence of whatever frames it holds.
IsStack(s) == s \in Seq({s[k] : k \in DOMAIN s}) /\ \A k \in DOMAIN s : "at" \in DOMAIN s[k]

\* The frames of commands, and those that run commands.
Command(f) == f.at \in {"and", "or", "pipeline", "group", "subshell", "simple"}
Runner(f) == f.at \in {"script", "and", "or", "pipeline"}

\* A command is run by the frame right below it, a substitution is expanded for
\* the simple command right below it.
Hangs(f) == Command(f) \/ f.at = "capture"
Fits(f, g) == IF Command(f) THEN Runner(g) ELSE g.at = "simple"
Nested(s) == \A k \in DOMAIN s : Hangs(s[k]) => k + 1 \in DOMAIN s /\ Fits(s[k], s[k + 1])

GoodStack(s) == IsStack(s) /\ Nested(s)

LEMMA StackFacts ==
    ASSUME NEW s, IsStack(s)
    PROVE  /\ Len(s) \in Nat /\ DOMAIN s = 1..Len(s)
           /\ s # <<>> => 1 \in DOMAIN s /\ Head(s) = s[1]
<1>1. s \in Seq({s[k] : k \in DOMAIN s})
  BY DEF IsStack
<1> QED
  BY <1>1, LenProperties, EmptySeq, HeadTailProperties

LEMMA PushGood ==
    ASSUME NEW s, GoodStack(s), NEW f, "at" \in DOMAIN f,
           Hangs(f) => s # <<>> /\ Fits(f, Head(s))
    PROVE  /\ GoodStack(<<f>> \o s) /\ <<f>> \o s # <<>>
           /\ Head(<<f>> \o s) = f /\ Tail(<<f>> \o s) = s
<1> DEFINE S == {s[k] : k \in DOMAIN s} \cup {f}
           t == <<f>> \o s
<1>1. s \in Seq(S) /\ f \in S
  <2>1. s \in Seq({s[k] : k \in DOMAIN s})
    BY DEF GoodStack, IsStack
  <2>2. {s[k] : k \in DOMAIN s} \subseteq S
    OBVIOUS
  <2> QED
    BY <2>1, <2>2, SeqMonotonic
<1>2. Len(s) \in Nat /\ DOMAIN s = 1..Len(s) /\ (s # <<>> => Head(s) = s[1])
  BY StackFacts DEF GoodStack
<1> HIDE DEF S
<1>3. /\ <<f>> \in Seq(S) /\ Len(<<f>>) = 1 /\ <<f>>[1] = f
  BY <1>1
<1>4. /\ t \in Seq(S) /\ Len(t) = Len(s) + 1 /\ t[1] = f
      /\ \A k \in 1..Len(s) : t[k + 1] = s[k]
  <2>1. /\ t \in Seq(S) /\ Len(t) = 1 + Len(s)
        /\ \A k \in 1..(1 + Len(s)) : t[k] = IF k <= 1 THEN <<f>>[k] ELSE s[k - 1]
    BY <1>1, <1>3, ConcatProperties
  <2> QED
    BY <1>2, <1>3, <2>1
<1>5. DOMAIN t = 1..(Len(s) + 1)
  BY <1>2, <1>4, LenProperties
<1> HIDE DEF t
<1>6. IsStack(t)
  <2>1. t \in Seq({t[k] : k \in DOMAIN t})
    <3>1. t \in [1..Len(t) -> S]
      BY <1>4, LenProperties
    <3>2. t \in [1..Len(t) -> {t[k] : k \in DOMAIN t}]
      BY <3>1
    <3> QED
      BY <1>2, <1>4, <3>2, IsASeq
  <2>2. ASSUME NEW k \in DOMAIN t
        PROVE  "at" \in DOMAIN t[k]
    <3>1. CASE k = 1
      BY <1>4, <3>1
    <3>2. CASE k # 1
      <4>1. k - 1 \in DOMAIN s /\ t[(k - 1) + 1] = s[k - 1] /\ (k - 1) + 1 = k
        BY <1>2, <1>4, <1>5, <3>2
      <4> QED
        BY <4>1 DEF GoodStack, IsStack
    <3> QED
      BY <3>1, <3>2
  <2> QED
    BY <2>1, <2>2 DEF IsStack
<1>7. Nested(t)
  <2> SUFFICES ASSUME NEW k \in DOMAIN t, Hangs(t[k])
               PROVE  k + 1 \in DOMAIN t /\ Fits(t[k], t[k + 1])
    BY DEF Nested
  <2>1. CASE k = 1
    <3>1. s # <<>> /\ Fits(f, s[1]) /\ 1 \in DOMAIN s
      BY <1>2, <1>4, <2>1, StackFacts DEF GoodStack
    <3> QED
      BY <1>2, <1>4, <1>5, <2>1, <3>1
  <2>2. CASE k # 1
    <3>1. k - 1 \in DOMAIN s /\ t[(k - 1) + 1] = s[k - 1] /\ (k - 1) + 1 = k
      BY <1>2, <1>4, <1>5, <2>2
    <3>2. k \in DOMAIN s /\ Fits(t[k], s[k])
      BY <3>1 DEF GoodStack, Nested
    <3> QED
      BY <1>2, <1>4, <1>5, <3>2
  <2> QED
    BY <2>1, <2>2
<1>8. t # <<>> /\ Head(t) = f /\ Tail(t) = s
  <2>1. t # <<>>
    BY <1>2, <1>4, EmptySeq
  <2>2. Head(t) = t[1]
    BY <1>4, <2>1, HeadTailProperties
  <2>3. /\ Tail(t) \in Seq(S) /\ Len(Tail(t)) = Len(s)
        /\ \A k \in 1..Len(s) : Tail(t)[k] = t[k + 1]
    BY <1>2, <1>4, <2>1, HeadTailProperties
  <2>4. \A k \in 1..Len(s) : Tail(t)[k] = s[k]
    BY <1>4, <2>3
  <2>5. Tail(t) = s
    BY <1>1, <2>3, <2>4, SeqEqual
  <2> QED
    BY <1>4, <2>1, <2>2, <2>5
<1> QED
  BY <1>6, <1>7, <1>8 DEF GoodStack, t

LEMMA PopGood ==
    ASSUME NEW s, GoodStack(s), s # <<>>
    PROVE  /\ GoodStack(Tail(s))
           /\ "at" \in DOMAIN Head(s)
           /\ Hangs(Head(s)) => Tail(s) # <<>> /\ Fits(Head(s), Head(Tail(s)))
<1> DEFINE S == {s[k] : k \in DOMAIN s}
           t == Tail(s)
<1>1. s \in Seq(S)
  BY DEF GoodStack, IsStack
<1>2. Len(s) \in Nat \ {0} /\ DOMAIN s = 1..Len(s) /\ Head(s) = s[1] /\ 1 \in DOMAIN s
  BY <1>1, EmptySeq, StackFacts DEF GoodStack
<1> HIDE DEF S
<1>3. /\ t \in Seq(S) /\ Len(t) = Len(s) - 1
      /\ \A k \in 1..(Len(s) - 1) : t[k] = s[k + 1]
  BY <1>1, <1>2, HeadTailProperties
<1>4. DOMAIN t = 1..(Len(s) - 1)
  BY <1>3, LenProperties
<1> HIDE DEF t
<1>5. \A k \in DOMAIN t : k + 1 \in DOMAIN s /\ t[k] = s[k + 1]
  BY <1>2, <1>3, <1>4
<1>6. IsStack(t)
  <2>1. t \in [1..Len(t) -> S]
    BY <1>3, LenProperties
  <2>2. t \in [1..Len(t) -> {t[k] : k \in DOMAIN t}]
    BY <2>1
  <2>3. t \in Seq({t[k] : k \in DOMAIN t})
    BY <1>2, <1>3, <2>2, IsASeq
  <2> QED
    BY <1>5, <2>3 DEF IsStack, GoodStack
<1>7. Nested(t)
  <2> SUFFICES ASSUME NEW k \in DOMAIN t, Hangs(t[k])
               PROVE  k + 1 \in DOMAIN t /\ Fits(t[k], t[k + 1])
    BY DEF Nested
  <2>1. (k + 1) + 1 \in DOMAIN s /\ Fits(s[k + 1], s[(k + 1) + 1])
    BY <1>5 DEF GoodStack, Nested
  <2>2. k + 1 \in DOMAIN t
    BY <1>2, <1>4, <2>1
  <2> QED
    BY <1>5, <2>1, <2>2
<1>8. ASSUME Hangs(Head(s))
      PROVE  t # <<>> /\ Fits(Head(s), Head(t))
  <2>1. 1 + 1 \in DOMAIN s /\ Fits(s[1], s[1 + 1])
    BY <1>2, <1>8 DEF GoodStack, Nested
  <2>2. 1 \in DOMAIN t /\ Fits(Head(s), t[1])
    BY <1>2, <1>4, <1>5, <2>1
  <2>3. t # <<>>
    BY <1>3, <1>4, <2>2, EmptySeq
  <2> QED
    BY <1>3, <2>2, <2>3, HeadTailProperties
<1>9. "at" \in DOMAIN Head(s)
  BY <1>2 DEF GoodStack, IsStack
<1> QED
  BY <1>6, <1>7, <1>8, <1>9 DEF GoodStack, t

\* Replacing the top frame by one of the same kind.
LEMMA ReplaceGood ==
    ASSUME NEW s, GoodStack(s), s # <<>>, NEW f, "at" \in DOMAIN f, f.at = Head(s).at
    PROVE  /\ GoodStack(<<f>> \o Tail(s)) /\ <<f>> \o Tail(s) # <<>>
           /\ Head(<<f>> \o Tail(s)) = f
<1>1. GoodStack(Tail(s)) /\ (Hangs(Head(s)) => Tail(s) # <<>> /\ Fits(Head(s), Head(Tail(s))))
  BY PopGood
<1>2. Hangs(f) => Tail(s) # <<>> /\ Fits(f, Head(Tail(s)))
  BY <1>1 DEF Hangs, Fits, Command
<1> QED
  BY <1>1, <1>2, PushGood
-----------------------------------------------------------------------------
(***************************************************************************)
(* The invariant behind $?.  StatusIsLast alone is not inductive: while a  *)
(* result travels outwards, last_exit lags behind `done` until a frame     *)
(* that runs commands takes the result, so the invariant says where the    *)
(* two agree, where the result itself is what will be recorded, and that   *)
(* a result of a command always has such a frame below it.                 *)
(***************************************************************************)
StackInv ==
    /\ GoodStack(stack)
    /\ ctl.at = "idle" => stack = <<>>
    /\ ctl.at = "start" => stack # <<>> /\ Runner(Top)
    /\ ctl.at \in {"step", "word"} => stack # <<>> /\ Top.at = "simple"

\* Where $? is already the status of the command that finished last.
Settled ==
    \/ ctl.at \in {"idle", "start", "step", "word"}
    \/ Returning /\ ~Succeeded
    \/ Returning /\ stack # <<>> /\ Top.at \in {"simple", "capture"}

StatusInv ==
    /\ Settled => last_exit = done
    /\ Succeeded /\ stack # <<>> /\ Runner(Top) => ctl.res.code = done

IInv == StackInv /\ StatusInv

\* Calling a script from good frames.
LEMMA RunScriptGood ==
    ASSUME NEW script, NEW io, NEW below, GoodStack(below), RunScript(script, io, below)
    PROVE  /\ GoodStack(stack')
           /\ \/ ctl' = Return(Ok(0)) /\ stack' = below
              \/ ctl'.at = "start" /\ stack' # <<>> /\ Head(stack').at = "script"
<1>1. CASE script = <<>>
  BY <1>1 DEF RunScript
<1>2. CASE script # <<>>
  <2> DEFINE f == [at |-> "script", rest |-> Tail(script), io |-> io]
  <2>1. stack' = <<f>> \o below /\ ctl'.at = "start"
    BY <1>2 DEF RunScript, Start
  <2>2. "at" \in DOMAIN f /\ f.at = "script" /\ ~Hangs(f)
    BY DEF Hangs, Command
  <2> HIDE DEF f
  <2> QED
    BY <2>1, <2>2, PushGood
<1> QED
  BY <1>1, <1>2

\* A simple command takes a step or returns: its frame stays on top.
LEMMA SimpleGoesOn ==
    ASSUME IInv, ctl.at \in {"step", "word"},
           stack' # <<>>, GoodStack(stack'), Head(stack').at = "simple",
           ctl'.at \in {"step", "word", "return"},
           last_exit' = last_exit, done' = done
    PROVE  IInv'
<1>1. last_exit = done
  BY DEF IInv, StatusInv, Settled
<1>2. StackInv'
  BY DEF StackInv, Top
<1>3. StatusInv'
  BY <1>1 DEF StatusInv, Runner, Top
<1> QED
  BY <1>2, <1>3 DEF IInv

\* The same, when the step replaces that frame.
LEMMA SimpleAdvances ==
    ASSUME IInv, ctl.at \in {"step", "word"},
           NEW f, "at" \in DOMAIN f, f.at = Top.at, Replace(f),
           ctl'.at \in {"step", "word", "return"},
           last_exit' = last_exit, done' = done
    PROVE  IInv'
<1>1. GoodStack(stack) /\ stack # <<>> /\ Head(stack).at = "simple"
  BY DEF IInv, StackInv, Top
<1>2. stack' = <<f>> \o Tail(stack) /\ f.at = Head(stack).at
  BY DEF Replace, Top
<1>3. GoodStack(stack') /\ stack' # <<>> /\ Head(stack') = f
  BY <1>1, <1>2, ReplaceGood
<1> QED
  BY <1>1, <1>2, <1>3, SimpleGoesOn

\* A command's frame is left with a status that is the one just recorded.
LEMMA CommandEnds ==
    ASSUME IInv, stack # <<>>, Command(Top), stack' = Tail(stack),
           Returning', Succeeded' => ctl'.res.code = done',
           Succeeded' \/ last_exit' = done'
    PROVE  IInv'
<1>1. GoodStack(stack) /\ "at" \in DOMAIN Head(stack) /\ Hangs(Head(stack))
  BY PopGood DEF IInv, StackInv, Top, Hangs
<1>2. GoodStack(stack') /\ stack' # <<>> /\ Runner(Head(stack'))
  BY <1>1, PopGood DEF Fits, Top
<1>3. StackInv'
  BY <1>2 DEF StackInv, Returning
<1>4. StatusInv'
  BY <1>2 DEF StatusInv, Settled, Runner, Top, Returning
<1> QED
  BY <1>3, <1>4 DEF IInv

\* A command starts another one, with the status recorded.
LEMMA CommandStarts ==
    ASSUME GoodStack(stack'), stack' # <<>>, Runner(Head(stack')),
           ctl'.at = "start", last_exit' = done'
    PROVE  IInv'
<1>1. StackInv'
  BY DEF StackInv, Top
<1>2. StatusInv'
  BY DEF StatusInv, Settled, Returning, Succeeded
<1> QED
  BY <1>1, <1>2 DEF IInv
-----------------------------------------------------------------------------
LEMMA StartIsConsistent == Init => IInv
<1> SUFFICES ASSUME Init
             PROVE  IInv
  OBVIOUS
<1>1. GoodStack(stack)
  <2>1. stack = <<>> /\ DOMAIN stack = {}
    BY EmptySeq DEF Init
  <2>2. stack \in Seq({stack[k] : k \in DOMAIN stack})
    BY <2>1
  <2> QED
    BY <2>1, <2>2 DEF GoodStack, IsStack, Nested
<1> QED
  BY <1>1 DEF Init, IInv, StackInv, StatusInv, Settled, Idle, Returning, Succeeded

\* exec() and what ends it, and the commands that run others.
LEMMA ListsKeep ==
    ASSUME IInv,
           \/ \E script \in Scripts, in \in Inputs : StartExec(script, in)
           \/ FinishExec \/ Unwind
           \/ NextCommand \/ StartAndOr \/ TakeRight \/ StartBackground
           \/ StartGroup \/ EndGroup \/ StartSubshell \/ EndSubshell
    PROVE  IInv'
<1>0. /\ GoodStack(stack)
      /\ stack # <<>> => /\ GoodStack(Tail(stack)) /\ "at" \in DOMAIN Top
                         /\ Hangs(Top) => Tail(stack) # <<>> /\ Fits(Top, Head(Tail(stack)))
  BY PopGood DEF IInv, StackInv, Top
<1>1. ASSUME NEW script \in Scripts, NEW in \in Inputs, StartExec(script, in)
      PROVE  IInv'
  <2>1. /\ RunScript(script, Io(in, 1, 2), stack)
        /\ stack = <<>> /\ last_exit = done /\ last_exit' = done'
    BY <1>1 DEF StartExec, IInv, StackInv, StatusInv, Settled, Idle, shell
  <2>2. /\ GoodStack(stack')
        /\ \/ ctl' = Return(Ok(0)) /\ stack' = <<>>
           \/ ctl'.at = "start" /\ stack' # <<>> /\ Head(stack').at = "script"
    BY <1>0, <2>1, RunScriptGood
  <2>3. CASE ctl' = Return(Ok(0)) /\ stack' = <<>>
    BY <2>1, <2>2, <2>3
       DEF IInv, StackInv, StatusInv, Settled, Return, Returning, Succeeded
  <2>4. CASE ctl'.at = "start" /\ stack' # <<>> /\ Head(stack').at = "script"
    BY <2>1, <2>2, <2>4, CommandStarts DEF Runner
  <2> QED
    BY <2>2, <2>3, <2>4
<1>2. CASE FinishExec
  <2>1. /\ stack' = <<>> /\ stack = <<>> /\ ctl'.at = "idle" /\ Returning
        /\ IF ctl.res.kind = "err" THEN last_exit' = last_exit /\ done' = done
           ELSE last_exit' = done'
    BY <1>2 DEF FinishExec, Idle
  <2>2. last_exit' = done'
    BY <2>1 DEF IInv, StatusInv, Settled, Succeeded
  <2> QED
    BY <1>0, <2>1, <2>2 DEF IInv, StackInv, StatusInv, Returning, Succeeded
<1>3. CASE Unwind
  <2>1. /\ stack # <<>> /\ stack' = Tail(stack) /\ ctl' = ctl /\ Returning /\ ~Succeeded
        /\ last_exit' = last_exit /\ done' = done
    BY <1>3 DEF Unwind, shell, history
  <2>2. last_exit = done
    BY <2>1 DEF IInv, StatusInv, Settled
  <2>3. StackInv'
    BY <1>0, <2>1 DEF StackInv, Returning
  <2>4. StatusInv'
    BY <2>1, <2>2 DEF StatusInv, Returning, Succeeded
  <2> QED
    BY <2>3, <2>4 DEF IInv
<1>4. CASE NextCommand
  <2>1. /\ stack # <<>> /\ Top.at = "script" /\ Succeeded /\ Runner(Top)
        /\ last_exit' = ctl.res.code /\ done' = done
    BY <1>4 DEF NextCommand, In, Runner, history
  <2>2. last_exit' = done'
    BY <2>1 DEF IInv, StatusInv
  <2>3. CASE Top.rest = <<>>
    <3>1. stack' = Tail(stack) /\ ctl' = ctl
      BY <1>4, <2>3 DEF NextCommand
    <3>2. StackInv'
      BY <1>0, <2>1, <3>1 DEF StackInv, Succeeded, Returning
    <3>3. StatusInv'
      BY <2>1, <2>2, <3>1 DEF StatusInv, Succeeded, Returning
    <3> QED
      BY <3>2, <3>3 DEF IInv
  <2>4. CASE Top.rest # <<>>
    <3> DEFINE f == [Top EXCEPT !.rest = Tail(@)]
    <3>1. stack' = <<f>> \o Tail(stack) /\ ctl'.at = "start"
      BY <1>4, <2>4 DEF NextCommand, Start
    <3>2. "at" \in DOMAIN f /\ f.at = "script" /\ f.at = Head(stack).at
      BY <1>0, <2>1 DEF Top
    <3> HIDE DEF f
    <3>3. GoodStack(stack') /\ stack' # <<>> /\ Head(stack') = f
      BY <1>0, <2>1, <3>1, <3>2, ReplaceGood
    <3> QED
      BY <2>2, <3>1, <3>2, <3>3, CommandStarts DEF Runner
  <2> QED
    BY <2>3, <2>4
<1>5. ASSUME ctl.at = "start"
      PROVE  /\ stack # <<>> /\ Runner(Top) /\ last_exit = done
             /\ \A f : /\ "at" \in DOMAIN f /\ Command(f)
                       => /\ GoodStack(<<f>> \o stack) /\ <<f>> \o stack # <<>>
                          /\ Head(<<f>> \o stack) = f
  <2>1. stack # <<>> /\ Runner(Top) /\ last_exit = done
    BY <1>5 DEF IInv, StackInv, StatusInv, Settled
  <2>2. ASSUME NEW f, "at" \in DOMAIN f, Command(f)
        PROVE  /\ GoodStack(<<f>> \o stack) /\ <<f>> \o stack # <<>>
               /\ Head(<<f>> \o stack) = f
    <3>1. Hangs(f) => stack # <<>> /\ Fits(f, Head(stack))
      BY <2>1, <2>2 DEF Fits, Top
    <3> QED
      BY <1>0, <2>2, <3>1, PushGood
  <2> QED
    BY <2>1, <2>2
<1>6. CASE StartAndOr
  <2> DEFINE f == [at |-> Ast[ctl.cmd].kind, right |-> Ast[ctl.cmd].right, io |-> ctl.io]
  <2>1. /\ stack' = <<f>> \o stack /\ ctl.at = "start" /\ ctl'.at = "start"
        /\ last_exit' = last_exit /\ done' = done
    BY <1>6 DEF StartAndOr, Start, shell, history
  <2>2. "at" \in DOMAIN f /\ Command(f) /\ Runner(f)
    BY <1>6 DEF StartAndOr, Command, Runner
  <2> HIDE DEF f
  <2> QED
    BY <1>5, <2>1, <2>2, CommandStarts
<1>7. CASE TakeRight
  <2>1. /\ stack # <<>> /\ Top.at \in {"and", "or"} /\ Succeeded /\ Runner(Top) /\ Command(Top)
        /\ last_exit' = ctl.res.code /\ done' = done /\ stack' = Tail(stack)
        /\ ctl'.at = "start" \/ ctl' = ctl
    BY <1>7 DEF TakeRight, In, Runner, Command, Start, history
  <2>2. last_exit' = done' /\ ctl.res.code = done'
    BY <2>1 DEF IInv, StatusInv
  <2>3. CASE ctl' = ctl
    BY <2>1, <2>2, <2>3, CommandEnds DEF Succeeded, Returning
  <2>4. CASE ctl'.at = "start"
    <3>1. GoodStack(stack') /\ stack' # <<>> /\ Runner(Head(stack'))
      BY <1>0, <2>1 DEF Hangs, Fits
    <3> QED
      BY <2>2, <2>4, <3>1, CommandStarts
  <2> QED
    BY <2>1, <2>3, <2>4
<1>8. CASE StartBackground
  <2>1. /\ stack' = stack /\ ctl.at = "start" /\ ctl'.at = "start"
        /\ last_exit' = last_exit /\ done' = done
    BY <1>8 DEF StartBackground, Start, shell, history
  <2> QED
    BY <1>0, <1>5, <2>1, CommandStarts DEF Top
<1>9. ASSUME NEW f, "at" \in DOMAIN f, f.at \in {"group", "subshell"}, ctl.at = "start",
             NEW script, RunScript(script, ctl.io, <<f>> \o stack),
             last_exit' = last_exit, done' = done
      PROVE  IInv'
  <2>1. GoodStack(<<f>> \o stack) /\ <<f>> \o stack # <<>> /\ Head(<<f>> \o stack) = f
    BY <1>5, <1>9 DEF Command
  <2>2. /\ GoodStack(stack')
        /\ \/ ctl' = Return(Ok(0)) /\ stack' = <<f>> \o stack
           \/ ctl'.at = "start" /\ stack' # <<>> /\ Head(stack').at = "script"
    BY <1>9, <2>1, RunScriptGood
  <2>3. last_exit' = done'
    BY <1>5, <1>9
  <2>4. CASE ctl' = Return(Ok(0)) /\ stack' = <<f>> \o stack
    <3>1. stack' # <<>> /\ Head(stack').at \in {"group", "subshell"} /\ ctl'.at = "return"
      BY <1>9, <2>1, <2>4 DEF Return
    <3>2. StackInv'
      BY <2>2, <3>1 DEF StackInv
    <3>3. StatusInv'
      BY <2>3, <3>1 DEF StatusInv, Runner, Top
    <3> QED
      BY <3>2, <3>3 DEF IInv
  <2>5. CASE ctl'.at = "start" /\ stack' # <<>> /\ Head(stack').at = "script"
    BY <2>2, <2>3, <2>5, CommandStarts DEF Runner
  <2> QED
    BY <2>2, <2>4, <2>5
<1>10. CASE StartGroup
  <2> DEFINE f == [at |-> "group"]
  <2>1. /\ RunScript(Ast[ctl.cmd].body, ctl.io, <<f>> \o stack) /\ ctl.at = "start"
        /\ last_exit' = last_exit /\ done' = done
    BY <1>10 DEF StartGroup, shell, history
  <2>2. "at" \in DOMAIN f /\ f.at \in {"group", "subshell"}
    OBVIOUS
  <2> HIDE DEF f
  <2> QED
    BY <1>9, <2>1, <2>2
<1>11. CASE StartSubshell
  <2> DEFINE f == [at |-> "subshell", env |-> env, cwd |-> cwd]
  <2>1. /\ RunScript(Ast[ctl.cmd].body, ctl.io, <<f>> \o stack) /\ ctl.at = "start"
        /\ last_exit' = last_exit /\ done' = done
    BY <1>11 DEF StartSubshell, shell, history
  <2>2. "at" \in DOMAIN f /\ f.at \in {"group", "subshell"}
    OBVIOUS
  <2> HIDE DEF f
  <2> QED
    BY <1>9, <2>1, <2>2
<1>12. CASE EndGroup \/ EndSubshell
  <2>1. /\ stack # <<>> /\ Top.at \in {"group", "subshell"} /\ stack' = Tail(stack)
        /\ Succeeded /\ ctl' = ctl /\ done' = ctl.res.code
    BY <1>12 DEF EndGroup, EndSubshell, In
  <2> QED
    BY <2>1, CommandEnds DEF Command, Succeeded, Returning
<1> QED
  BY <1>1, <1>2, <1>3, <1>4, <1>6, <1>7, <1>8, <1>10, <1>11, <1>12

LEMMA PipelinesKeep ==
    ASSUME IInv, StartPipeline \/ NextStage \/ EndPipeline
    PROVE  IInv'
<1>0. GoodStack(stack) /\ (stack # <<>> => "at" \in DOMAIN Top)
  BY PopGood DEF IInv, StackInv, Top
<1>1. CASE StartPipeline
  <2>1. /\ ctl.at = "start" /\ last_exit' = last_exit /\ done' = done
        /\ ctl'.at = "start"
    BY <1>1 DEF StartPipeline, Start, shell, history
  <2>2. stack # <<>> /\ Runner(Head(stack)) /\ last_exit' = done'
    BY <2>1 DEF IInv, StackInv, StatusInv, Settled, Top
  <2> DEFINE p == Ast[ctl.cmd]
             f == [at |-> "pipeline", rest |-> Tail(p.stages), io |-> ctl.io,
                   out |-> IF Len(p.stages) = 1 THEN ctl.io.out ELSE Len(bufs) + 1,
                   negated |-> p.negated]
  <2>3. "at" \in DOMAIN f /\ f.at = "pipeline" /\ stack' = <<f>> \o stack
    BY <1>1 DEF StartPipeline
  <2> HIDE DEF f
  <2>4. Command(f) /\ Runner(f)
    BY <2>3 DEF Command, Runner
  <2>5. Hangs(f) => stack # <<>> /\ Fits(f, Head(stack))
    BY <2>2, <2>4 DEF Fits
  <2>6. GoodStack(stack') /\ stack' # <<>> /\ Head(stack') = f
    BY <1>0, <2>3, <2>5, PushGood
  <2> QED
    BY <2>1, <2>2, <2>4, <2>6, CommandStarts
<1>2. CASE NextStage
  <2>1. /\ stack # <<>> /\ Top.at = "pipeline" /\ Succeeded /\ Runner(Top)
        /\ last_exit' = ctl.res.code /\ done' = done /\ ctl'.at = "start"
    BY <1>2 DEF NextStage, In, Runner, Start
  <2>2. last_exit' = done'
    BY <2>1 DEF IInv, StatusInv
  <2>3. PICK out : stack' = <<[Top EXCEPT !.rest = Tail(@), !.out = out]>> \o Tail(stack)
    BY <1>2 DEF NextStage
  <2> DEFINE f == [Top EXCEPT !.rest = Tail(@), !.out = out]
  <2>4. "at" \in DOMAIN f /\ f.at = "pipeline" /\ f.at = Head(stack).at
    BY <1>0, <2>1 DEF Top
  <2>5. stack' = <<f>> \o Tail(stack)
    BY <2>3
  <2> HIDE DEF f
  <2>6. GoodStack(stack') /\ stack' # <<>> /\ Head(stack') = f
    BY <1>0, <2>1, <2>4, <2>5, ReplaceGood
  <2> QED
    BY <2>1, <2>2, <2>4, <2>6, CommandStarts DEF Runner
<1>3. CASE EndPipeline
  <2>1. /\ stack # <<>> /\ Command(Top) /\ stack' = Tail(stack)
        /\ \E code : ctl' = Return(Ok(code)) /\ done' = code
    BY <1>3 DEF EndPipeline, In, Command
  <2>2. Returning' /\ Succeeded' /\ ctl'.res.code = done'
    BY <2>1 DEF Returning, Succeeded, Return, Ok, Result
  <2> QED
    BY <2>1, <2>2, CommandEnds
<1> QED
  BY <1>1, <1>2, <1>3

\* The words of a simple command, up to its dispatch.
LEMMA WordsKeep ==
    ASSUME IInv,
           \/ StartSimple \/ ExpandWord \/ Substitute \/ TakeOutput
           \/ Assign \/ TakeName \/ TakeArg \/ RedirectIn \/ RedirectOut \/ RedirectDup
           \/ EndAssignments
    PROVE  IInv'
<1>0. /\ GoodStack(stack)
      /\ stack # <<>> => /\ GoodStack(Tail(stack)) /\ "at" \in DOMAIN Top
                         /\ Hangs(Top) => Tail(stack) # <<>> /\ Fits(Top, Head(Tail(stack)))
  BY PopGood DEF IInv, StackInv, Top
<1>1. ctl.at \in {"step", "word"} =>
        stack # <<>> /\ Head(stack).at = "simple" /\ Top.at = "simple" /\ last_exit = done
  BY DEF IInv, StackInv, StatusInv, Settled, Top
<1>2. ASSUME NEW f, Advance(f), "at" \in DOMAIN f, f.at = Top.at,
             ctl.at = "word", last_exit' = last_exit, done' = done
      PROVE  IInv'
  <2> DEFINE g == [f EXCEPT !.pc = @ + 1]
  <2>1. "at" \in DOMAIN g /\ g.at = Top.at /\ Replace(g)
    BY <1>2 DEF Advance
  <2>2. ctl'.at = "step"
    BY <1>2 DEF Advance, Step
  <2> HIDE DEF g
  <2> QED
    BY <1>2, <2>1, <2>2, SimpleAdvances
<1>3. CASE StartSimple
  <2> DEFINE f == [at |-> "simple", cmd |-> ctl.cmd, pc |-> 1, io |-> ctl.io,
                   saved |-> <<>>, words |-> <<>>, deferred |-> <<>>,
                   dispatched |-> FALSE]
  <2>1. /\ ctl.at = "start" /\ last_exit' = last_exit /\ done' = done
        /\ ctl'.at = "step" /\ stack' = <<f>> \o stack
    BY <1>3 DEF StartSimple, Step, shell, history
  <2>2. "at" \in DOMAIN f /\ f.at = "simple"
    OBVIOUS
  <2> HIDE DEF f
  <2>3. stack # <<>> /\ Runner(Head(stack)) /\ last_exit' = done'
    BY <2>1 DEF IInv, StackInv, StatusInv, Settled, Top
  <2>4. Hangs(f) => stack # <<>> /\ Fits(f, Head(stack))
    BY <2>2, <2>3 DEF Fits, Command
  <2>5. GoodStack(stack') /\ stack' # <<>> /\ Head(stack') = f
    BY <1>0, <2>1, <2>2, <2>4, PushGood
  <2>6. StackInv'
    BY <2>1, <2>2, <2>5 DEF StackInv, Top
  <2>7. StatusInv'
    BY <2>1, <2>3 DEF StatusInv, Returning, Succeeded
  <2> QED
    BY <2>6, <2>7 DEF IInv
<1>4. CASE ExpandWord
  <2>1. /\ ctl.at = "step" /\ stack' = stack /\ last_exit' = last_exit /\ done' = done
    BY <1>4 DEF ExpandWord, AtStep, Step, history
  <2>2. ctl'.at \in {"word", "return"}
    BY <1>4 DEF ExpandWord, Word, Return
  <2> QED
    BY <1>0, <1>1, <2>1, <2>2, SimpleGoesOn
<1>5. CASE Substitute
  <2>1. PICK out, io : /\ RunScript(ThisStep.word.body, io, <<[at |-> "capture", out |-> out]>> \o stack)
                       /\ ctl.at = "step" /\ last_exit' = last_exit /\ done' = done
    BY <1>5 DEF Substitute, AtStep, Step, shell, history
  <2> DEFINE f == [at |-> "capture", out |-> out]
  <2>2. RunScript(ThisStep.word.body, io, <<f>> \o stack)
    BY <2>1
  <2>3. "at" \in DOMAIN f /\ f.at = "capture"
    OBVIOUS
  <2> HIDE DEF f
  <2>4. Hangs(f) => stack # <<>> /\ Fits(f, Head(stack))
    BY <1>1, <2>1, <2>3 DEF Fits, Command
  <2>5. GoodStack(<<f>> \o stack) /\ <<f>> \o stack # <<>> /\ Head(<<f>> \o stack) = f
    BY <1>0, <2>3, <2>4, PushGood
  <2>6. /\ GoodStack(stack')
        /\ \/ ctl' = Return(Ok(0)) /\ stack' = <<f>> \o stack
           \/ ctl'.at = "start" /\ stack' # <<>> /\ Head(stack').at = "script"
    BY <2>2, <2>5, RunScriptGood
  <2>7. last_exit' = done'
    BY <1>1, <2>1
  <2>8. CASE ctl' = Return(Ok(0)) /\ stack' = <<f>> \o stack
    <3>1. stack' # <<>> /\ Head(stack').at = "capture" /\ ctl'.at = "return"
      BY <2>3, <2>5, <2>8 DEF Return
    <3>2. StackInv'
      BY <2>6, <3>1 DEF StackInv
    <3>3. StatusInv'
      BY <2>7, <3>1 DEF StatusInv, Runner, Top
    <3> QED
      BY <3>2, <3>3 DEF IInv
  <2>9. CASE ctl'.at = "start" /\ stack' # <<>> /\ Head(stack').at = "script"
    BY <2>6, <2>7, <2>9, CommandStarts DEF Runner
  <2> QED
    BY <2>6, <2>8, <2>9
<1>6. CASE TakeOutput
  <2>1. /\ stack # <<>> /\ Top.at = "capture" /\ Succeeded /\ stack' = Tail(stack)
        /\ ctl'.at = "word" /\ last_exit' = last_exit /\ done' = done
    BY <1>6 DEF TakeOutput, In, Word, shell
  <2>2. last_exit' = done'
    BY <2>1 DEF IInv, StatusInv, Settled, Succeeded
  <2>3. GoodStack(stack') /\ stack' # <<>> /\ Head(stack').at = "simple"
    BY <1>0, <2>1 DEF Hangs, Fits, Command
  <2>4. StackInv'
    BY <2>1, <2>3 DEF StackInv, Top
  <2>5. StatusInv'
    BY <2>1, <2>2 DEF StatusInv, Returning, Succeeded
  <2> QED
    BY <2>4, <2>5 DEF IInv
<1>7. CASE Assign
  <2>1. /\ ctl.at = "word" /\ last_exit' = last_exit /\ done' = done
        /\ Advance(IF Named(Top.cmd)
                     THEN [Top EXCEPT !.saved =
                             Append(@, [var |-> ThisStep.var, old |-> env[ThisStep.var]])]
                     ELSE Top)
    BY <1>7 DEF Assign, TakesWord, history
  <2> DEFINE g == [Top EXCEPT !.saved =
                     Append(@, [var |-> ThisStep.var, old |-> env[ThisStep.var]])]
  <2>2. "at" \in DOMAIN g /\ g.at = Top.at
    BY <1>0, <1>1, <2>1
  <2>3. "at" \in DOMAIN Top
    BY <1>0, <1>1, <2>1
  <2>4. Advance(g) \/ Advance(Top)
    BY <2>1
  <2> HIDE DEF g
  <2> QED
    BY <1>2, <2>1, <2>2, <2>3, <2>4
<1>8. CASE TakeName
  <2>1. PICK ws : /\ ctl.at = "word" /\ last_exit' = last_exit /\ done' = done
                  /\ Advance([Top EXCEPT !.words = ws])
    BY <1>8 DEF TakeName, TakesWord, shell, history
  <2> DEFINE g == [Top EXCEPT !.words = ws]
  <2>2. "at" \in DOMAIN g /\ g.at = Top.at
    BY <1>0, <1>1, <2>1
  <2>3. Advance(g)
    BY <2>1
  <2> HIDE DEF g
  <2> QED
    BY <1>2, <2>1, <2>2, <2>3
<1>9. CASE TakeArg
  <2> DEFINE g == [Top EXCEPT !.words = Append(@, ctl.text)]
  <2>1. ctl.at = "word" /\ last_exit' = last_exit /\ done' = done /\ Advance(g)
    BY <1>9 DEF TakeArg, TakesWord, shell, history
  <2>2. "at" \in DOMAIN g /\ g.at = Top.at
    BY <1>0, <1>1, <2>1
  <2> HIDE DEF g
  <2> QED
    BY <1>2, <2>1, <2>2
<1>10. CASE RedirectIn
  <2>1. ctl.at = "word" /\ last_exit' = last_exit /\ done' = done
    BY <1>10 DEF RedirectIn, TakesWord, shell, history
  <2>2. CASE ctl' = Return(Err) /\ stack' = stack
    BY <1>0, <1>1, <2>1, <2>2, SimpleGoesOn DEF Return
  <2>3. CASE \E text : Advance([Top EXCEPT !.io.in = text])
    <3>1. PICK text : Advance([Top EXCEPT !.io.in = text])
      BY <2>3
    <3> DEFINE g == [Top EXCEPT !.io.in = text]
    <3>2. "at" \in DOMAIN g /\ g.at = Top.at
      BY <1>0, <1>1, <2>1
    <3>3. Advance(g)
      BY <3>1
    <3> HIDE DEF g
    <3> QED
      BY <1>2, <2>1, <3>2, <3>3
  <2> QED
    BY <1>10, <2>2, <2>3 DEF RedirectIn
<1>11. CASE RedirectOut \/ RedirectDup
  <2>1. ctl.at = "word" /\ last_exit' = last_exit /\ done' = done
    BY <1>11 DEF RedirectOut, RedirectDup, TakesWord, shell, history
  <2>2. \E io, d : Advance([Top EXCEPT !.io = io, !.deferred = d])
                   \/ Advance([Top EXCEPT !.io = io])
    BY <1>11 DEF RedirectOut, RedirectDup
  <2>3. PICK io, d : Advance([Top EXCEPT !.io = io, !.deferred = d])
                     \/ Advance([Top EXCEPT !.io = io])
    BY <2>2
  <2> DEFINE g == [Top EXCEPT !.io = io, !.deferred = d]
             h == [Top EXCEPT !.io = io]
  <2>4. "at" \in DOMAIN g /\ g.at = Top.at /\ "at" \in DOMAIN h /\ h.at = Top.at
    BY <1>0, <1>1, <2>1
  <2>5. Advance(g) \/ Advance(h)
    BY <2>3
  <2> HIDE DEF g, h
  <2> QED
    BY <1>2, <2>1, <2>4, <2>5
<1>12. CASE EndAssignments
  <2>1. /\ ctl.at = "step" /\ stack' = Tail(stack) /\ ctl' = Return(Ok(0))
        /\ done' = 0 /\ last_exit' = last_exit
    BY <1>12 DEF EndAssignments, Step, shell
  <2>2. Returning' /\ Succeeded' /\ ctl'.res.code = done'
    BY <2>1 DEF Returning, Succeeded, Return, Ok, Result
  <2>3. stack # <<>> /\ Command(Top)
    BY <1>1, <2>1 DEF Command
  <2> QED
    BY <2>1, <2>2, <2>3, CommandEnds
<1> QED
  BY <1>3, <1>4, <1>5, <1>6, <1>7, <1>8, <1>9, <1>10, <1>11, <1>12

\* Dispatch, and the end of a simple command.
LEMMA DispatchKeeps ==
    ASSUME IInv,
           \/ RunExit \/ RunSource \/ RunXargs \/ RunProgram \/ NotFound
           \/ FinishSimple
    PROVE  IInv'
<1>0. GoodStack(stack) /\ (stack # <<>> => "at" \in DOMAIN Top)
  BY PopGood DEF IInv, StackInv, Top
<1>1. ctl.at = "step" =>
        stack # <<>> /\ Head(stack).at = "simple" /\ Top.at = "simple" /\ last_exit = done
  BY DEF IInv, StackInv, StatusInv, Settled, Top
<1>2. ctl.at = "step" => "at" \in DOMAIN Dispatched /\ Dispatched.at = Top.at
  BY <1>0, <1>1 DEF Dispatched
<1>3. CASE RunExit
  <2>1. /\ ctl.at = "step" /\ Replace(Dispatched) /\ ctl'.at = "return"
        /\ last_exit' = last_exit /\ done' = done
    BY <1>3 DEF RunExit, Dispatching, Step, Return, shell, history
  <2> QED
    BY <1>2, <2>1, SimpleAdvances
<1>4. CASE RunSource
  <2>1. ctl.at = "step" /\ last_exit' = last_exit /\ done' = done
    BY <1>4 DEF RunSource, Dispatching, Step, shell, history
  <2>2. CASE Replace(Dispatched) /\ ctl' = Return(Ok(1))
    BY <1>2, <2>1, <2>2, SimpleAdvances DEF Return
  <2>3. CASE \E script, io : RunScript(script, io, <<Dispatched>> \o Tail(stack))
    <3>1. PICK script, io : RunScript(script, io, <<Dispatched>> \o Tail(stack))
      BY <2>3
    <3> DEFINE below == <<Dispatched>> \o Tail(stack)
    <3>2. Dispatched.at = Head(stack).at /\ Dispatched.at = "simple"
      BY <1>1, <1>2, <2>1
    <3>3. GoodStack(below) /\ below # <<>> /\ Head(below) = Dispatched
      BY <1>0, <1>1, <1>2, <2>1, <3>2, ReplaceGood
    <3>4. RunScript(script, io, below)
      BY <3>1
    <3> HIDE DEF below
    <3>5. /\ GoodStack(stack')
          /\ \/ ctl' = Return(Ok(0)) /\ stack' = below
             \/ ctl'.at = "start" /\ stack' # <<>> /\ Head(stack').at = "script"
      BY <3>3, <3>4, RunScriptGood
    <3>6. CASE ctl' = Return(Ok(0)) /\ stack' = below
      <4>1. stack' # <<>> /\ Head(stack').at = "simple" /\ ctl'.at = "return"
        BY <3>2, <3>3, <3>6 DEF Return
      <4> QED
        BY <2>1, <3>5, <4>1, SimpleGoesOn
    <3>7. CASE ctl'.at = "start" /\ stack' # <<>> /\ Head(stack').at = "script"
      <4>1. last_exit' = done'
        BY <1>1, <2>1
      <4> QED
        BY <3>5, <3>7, <4>1, CommandStarts DEF Runner
    <3> QED
      BY <3>5, <3>6, <3>7
  <2> QED
    BY <1>4, <2>2, <2>3 DEF RunSource
<1>5. CASE RunXargs
  <2>1. /\ ctl.at = "step" /\ last_exit' = last_exit /\ done' = done
        /\ ctl'.at \in {"step", "return"}
    BY <1>5 DEF RunXargs, Dispatching, Step, Return, shell, history
  <2>2. CASE Replace(Dispatched)
    BY <1>2, <2>1, <2>2, SimpleAdvances
  <2>3. CASE \E ws, in : Replace([Top EXCEPT !.words = ws, !.io.in = in])
    <3>1. PICK ws, in : Replace([Top EXCEPT !.words = ws, !.io.in = in])
      BY <2>3
    <3> DEFINE g == [Top EXCEPT !.words = ws, !.io.in = in]
    <3>2. "at" \in DOMAIN g /\ g.at = Top.at
      BY <1>0, <1>1, <2>1
    <3>3. Replace(g)
      BY <3>1
    <3> HIDE DEF g
    <3> QED
      BY <2>1, <3>2, <3>3, SimpleAdvances
  <2> QED
    BY <1>5, <2>2, <2>3 DEF RunXargs
<1>6. CASE RunProgram
  <2>1. /\ ctl.at = "step" /\ Replace(Dispatched) /\ ctl'.at = "return"
        /\ last_exit' = last_exit /\ done' = done
    BY <1>6 DEF RunProgram, Dispatching, Step, Return, history
  <2> QED
    BY <1>2, <2>1, SimpleAdvances
<1>7. CASE NotFound
  <2>1. /\ ctl.at = "step" /\ Replace(Dispatched) /\ ctl'.at = "return"
        /\ last_exit' = last_exit /\ done' = done
    BY <1>7 DEF NotFound, Dispatching, Step, Return, shell, history
  <2> QED
    BY <1>2, <2>1, SimpleAdvances
<1>8. CASE FinishSimple
  <2>1. /\ stack # <<>> /\ Top.at = "simple" /\ stack' = Tail(stack) /\ Returning
        /\ last_exit' = last_exit
        /\ \/ ctl' = ctl /\ done' = IF Succeeded THEN ctl.res.code ELSE done
           \/ ctl' = Return(Err) /\ done' = done
    BY <1>8 DEF FinishSimple, In
  <2>2. Command(Top) /\ last_exit = done
    BY <2>1 DEF Command, IInv, StatusInv, Settled
  <2>3. CASE ctl' = ctl /\ done' = IF Succeeded THEN ctl.res.code ELSE done
    <3>1. /\ Returning' /\ (Succeeded' => ctl'.res.code = done')
          /\ Succeeded' \/ last_exit' = done'
      BY <2>1, <2>2, <2>3 DEF Returning, Succeeded
    <3> QED
      BY <2>1, <2>2, <3>1, CommandEnds
  <2>4. CASE ctl' = Return(Err) /\ done' = done
    <3>1. Returning' /\ ~Succeeded'
      BY <2>4 DEF Returning, Succeeded, Return, Err, Result
    <3> QED
      BY <2>1, <2>2, <2>4, <3>1, CommandEnds
  <2> QED
    BY <2>1, <2>3, <2>4
<1> QED
  BY <1>3, <1>4, <1>5, <1>6, <1>7, <1>8

LEMMA StepsKeep == IInv /\ [Next]_vars => IInv'
<1> SUFFICES ASSUME IInv, [Next]_vars
             PROVE  IInv'
  OBVIOUS
<1>1. CASE UNCHANGED vars
  BY <1>1 DEF vars, shell, history, IInv, StackInv, StatusInv, Settled, Returning,
              Succeeded, Top
<1>2. CASE Next
  BY <1>2, ListsKeep, PipelinesKeep, WordsKeep, DispatchKeeps DEF Next, Engine
<1> QED
  BY <1>1, <1>2

\* $? is the status of the command that finished last whenever a command starts
\* or a word is expanded, for every script, every program and every depth of
\* lists, pipelines, subshells, substitutions and sourced files (exec.rs:16-143).
THEOREM StatusKept == Spec => []StatusIsLast
<1>1. IInv => StatusIsLast
  BY DEF IInv, StatusInv, Settled, StatusIsLast
<1> QED
  BY StartIsConsistent, StepsKeep, <1>1, PTL DEF Spec

(***************************************************************************)
(* What the frames of the stack hold: commands, writers that exist, and    *)
(* buffers nobody else writes once they are read out.                      *)
(***************************************************************************)
IsSeq(s) == s \in Seq({s[k] : k \in DOMAIN s})
Frames(s) == {s[k] : k \in DOMAIN s}

\* Of the buffers d, those of x are sealed; a command writes to none of these.
IsIo(io, d, x) == DOMAIN io = {"in", "out", "err"} /\ Writers(io) \subseteq d \ x

SimpleOK(f, d, x) ==
    /\ DOMAIN f = {"at", "cmd", "pc", "io", "saved", "words", "deferred", "dispatched"}
    /\ f.cmd \in Cmds /\ Ast[f.cmd].kind = "simple"
    /\ f.pc \in Nat \ {0}
    /\ IsIo(f.io, d, x)
    /\ IsSeq(f.saved) /\ \A k \in DOMAIN f.saved : f.saved[k].var \in Vars
    /\ IsSeq(f.deferred) /\ \A k \in DOMAIN f.deferred : f.deferred[k].buf \in d

PipelineOK(f, d, x) ==
    /\ DOMAIN f = {"at", "rest", "io", "out", "negated"}
    /\ f.rest \in Seq(Cmds)
    /\ IsIo(f.io, d, x)
    /\ f.out \in d
    /\ f.rest # <<>> => f.out \notin Writers(f.io)

FrameOK(f, d, x) ==
    /\ f.at = "script" =>
         DOMAIN f = {"at", "rest", "io"} /\ f.rest \in Seq(Cmds) /\ IsIo(f.io, d, x)
    /\ f.at \in {"and", "or"} => f.right \in Cmds /\ IsIo(f.io, d, x)
    /\ f.at = "pipeline" => PipelineOK(f, d, x)
    /\ f.at = "capture" => f.out \in d
    /\ f.at = "simple" => SimpleOK(f, d, x)

\* The writers a frame will still use, and the buffers it will read out.
Held(f) == IF f.at \in {"script", "and", "or", "pipeline", "simple"} THEN Writers(f.io) ELSE {}
Makes(f) ==
    CASE f.at = "pipeline" -> IF f.rest = <<>> THEN {} ELSE {f.out}
      [] f.at = "capture" -> {f.out}
      [] f.at = "simple" -> {f.deferred[k].buf : k \in DOMAIN f.deferred}
      [] OTHER -> {}

\* A simple command that waits for one of its words.
Expanding(f) == ~f.dispatched /\ f.pc \in 1..Len(Steps(f.cmd))

\* What a frame reads out is no writer of the frames below it.
Apart(s) == \A j, k \in DOMAIN s : k < j => Makes(s[k]) \cap Held(s[j]) = {}
Waiting(s) == \A k \in DOMAIN s : s[k].at = "capture" => k + 1 \in DOMAIN s /\ Expanding(s[k + 1])

Wired(s, d, x) == (\A f \in Frames(s) : FrameOK(f, d, x)) /\ Apart(s) /\ Waiting(s)
-----------------------------------------------------------------------------
(* Sequences and stacks. *)

LEMMA SeqFacts ==
    ASSUME NEW s, IsSeq(s)
    PROVE  Len(s) \in Nat /\ DOMAIN s = 1..Len(s)
BY LenProperties DEF IsSeq

\* A sequence with other elements in the same places is one.
LEMMA SameDomainIsSeq ==
    ASSUME NEW s, IsSeq(s), NEW t, t = [k \in DOMAIN s |-> t[k]]
    PROVE  IsSeq(t) /\ DOMAIN t = DOMAIN s
<1> DEFINE T == {t[k] : k \in DOMAIN t}
<1>1. Len(s) \in Nat /\ DOMAIN s = 1..Len(s)
  BY SeqFacts
<1>2. t \in [1..Len(s) -> T]
  BY <1>1
<1> HIDE DEF T
<1>3. t \in Seq(T)
  BY <1>1, <1>2, SeqDef
<1> QED
  BY <1>3 DEF IsSeq, T

LEMMA AppendIsSeq ==
    ASSUME NEW s, IsSeq(s), NEW e
    PROVE  /\ IsSeq(Append(s, e)) /\ DOMAIN Append(s, e) = DOMAIN s \cup {Len(s) + 1}
           /\ Len(s) + 1 \notin DOMAIN s
           /\ \A k \in DOMAIN s : Append(s, e)[k] = s[k]
           /\ Append(s, e)[Len(s) + 1] = e
<1> DEFINE S == {s[k] : k \in DOMAIN s} \cup {e}
           t == Append(s, e)
           T == {t[k] : k \in DOMAIN t}
<1>1. s \in Seq(S) /\ e \in S
  <2>1. s \in Seq({s[k] : k \in DOMAIN s}) /\ {s[k] : k \in DOMAIN s} \subseteq S
    BY DEF IsSeq
  <2> QED
    BY <2>1, SeqMonotonic
<1>2. Len(s) \in Nat /\ DOMAIN s = 1..Len(s)
  BY SeqFacts
<1> HIDE DEF S
<1>3. /\ t \in Seq(S) /\ Len(t) = Len(s) + 1
      /\ \A k \in 1..Len(s) : t[k] = s[k]
      /\ t[Len(s) + 1] = e
  BY <1>1, AppendProperties
<1>4. t \in [1..(Len(s) + 1) -> S] /\ DOMAIN t = 1..(Len(s) + 1)
  BY <1>3, LenProperties
<1> HIDE DEF t
<1>5. t \in [1..(Len(s) + 1) -> T]
  BY <1>4
<1> HIDE DEF T
<1>6. t \in Seq(T)
  BY <1>2, <1>5, SeqDef
<1>7. IsSeq(t)
  BY <1>6 DEF IsSeq, T
<1> QED
  BY <1>2, <1>3, <1>4, <1>7 DEF t

\* The first of some commands, and the others: there are some if there were two.
LEMMA RestOfCommands ==
    ASSUME NEW s \in Seq(Cmds), s # <<>>
    PROVE  /\ Head(s) \in Cmds /\ Tail(s) \in Seq(Cmds)
           /\ Tail(s) # <<>> => Len(s) # 1
<1>1. Head(s) \in Cmds /\ Tail(s) \in Seq(Cmds) /\ Len(Tail(s)) = Len(s) - 1
  BY HeadTailProperties
<1>2. Tail(s) # <<>> => Len(Tail(s)) # 0
  BY <1>1, EmptySeq
<1> QED
  BY <1>1, <1>2

LEMMA GoodIsSeq ==
    ASSUME NEW s, GoodStack(s)
    PROVE  IsSeq(s)
BY DEF GoodStack, IsStack, IsSeq

\* Two buffers more.
LEMMA AppendTwo ==
    ASSUME NEW s, IsSeq(s), NEW e, NEW f
    PROVE  /\ s \o <<e, f>> = Append(Append(s, e), f)
           /\ IsSeq(s \o <<e, f>>)
           /\ DOMAIN (s \o <<e, f>>) = DOMAIN s \cup {Len(s) + 1, Len(s) + 2}
           /\ {Len(s) + 1, Len(s) + 2} \cap DOMAIN s = {}
           /\ \A k \in DOMAIN s : (s \o <<e, f>>)[k] = s[k]
<1> DEFINE S == {s[k] : k \in DOMAIN s} \cup {e, f}
           t == Append(s, e)
<1>1. s \in Seq(S) /\ e \in S /\ f \in S
  <2>1. s \in Seq({s[k] : k \in DOMAIN s}) /\ {s[k] : k \in DOMAIN s} \subseteq S
    BY DEF IsSeq
  <2> QED
    BY <2>1, SeqMonotonic
<1>2. Len(s) \in Nat /\ DOMAIN s = 1..Len(s)
  BY SeqFacts
<1> HIDE DEF S
<1>3. /\ IsSeq(t) /\ DOMAIN t = DOMAIN s \cup {Len(s) + 1} /\ Len(s) + 1 \notin DOMAIN s
      /\ \A k \in DOMAIN s : t[k] = s[k]
  BY AppendIsSeq
<1>4. t \in Seq(S) /\ Len(t) = Len(s) + 1 /\ t = s \o <<e>>
  BY <1>1, AppendProperties, AppendIsConcat
<1>5. <<e, f>> = <<e>> \o <<f>> /\ <<e>> \in Seq(S) /\ <<f>> \in Seq(S)
  <2>1. <<e>> \in Seq(S) /\ <<f>> \in Seq(S)
    BY <1>1
  <2>2. <<e, f>> \in Seq(S) /\ Len(<<e, f>>) = 2 /\ <<e, f>>[1] = e /\ <<e, f>>[2] = f
    BY <1>1
  <2>3. /\ <<e>> \o <<f>> \in Seq(S) /\ Len(<<e>> \o <<f>>) = 2
        /\ \A i \in 1..2 : (<<e>> \o <<f>>)[i] = IF i <= 1 THEN <<e>>[i] ELSE <<f>>[i - 1]
    <3>1. Len(<<e>>) = 1 /\ Len(<<f>>) = 1
      OBVIOUS
    <3> QED
      BY <2>1, <3>1, ConcatProperties
  <2>4. \A i \in 1..2 : (<<e>> \o <<f>>)[i] = <<e, f>>[i]
    BY <2>2, <2>3
  <2> QED
    BY <2>1, <2>2, <2>3, <2>4, SeqEqual
<1>6. s \o <<e, f>> = Append(t, f)
  <2>1. (s \o <<e>>) \o <<f>> = s \o (<<e>> \o <<f>>)
    BY <1>1, <1>5, ConcatAssociative
  <2>2. Append(t, f) = t \o <<f>>
    BY <1>1, <1>4, AppendIsConcat
  <2> QED
    BY <1>4, <1>5, <2>1, <2>2
<1> HIDE DEF t
<1>7. /\ IsSeq(Append(t, f)) /\ DOMAIN Append(t, f) = DOMAIN t \cup {Len(t) + 1}
      /\ \A k \in DOMAIN t : Append(t, f)[k] = t[k]
  BY <1>3, AppendIsSeq
<1>8. Len(t) + 1 = Len(s) + 2 /\ Len(s) + 2 \notin DOMAIN s
  BY <1>2, <1>4
<1> QED
  BY <1>3, <1>6, <1>7, <1>8 DEF t

\* Where the frames are after a push.
LEMMA PushPlaces ==
    ASSUME NEW s, IsSeq(s), NEW f
    PROVE  /\ Len(s) \in Nat /\ DOMAIN s = 1..Len(s)
           /\ DOMAIN (<<f>> \o s) = 1..(Len(s) + 1)
           /\ (<<f>> \o s)[1] = f
           /\ \A k \in DOMAIN s : (<<f>> \o s)[k + 1] = s[k]
           /\ \A k \in DOMAIN (<<f>> \o s) \ {1} :
                 k - 1 \in DOMAIN s /\ (<<f>> \o s)[k] = s[k - 1]
           /\ Frames(<<f>> \o s) = Frames(s) \cup {f}
<1> DEFINE S == {s[k] : k \in DOMAIN s} \cup {f}
           t == <<f>> \o s
<1>1. s \in Seq(S) /\ <<f>> \in Seq(S)
  <2>1. s \in Seq({s[k] : k \in DOMAIN s}) /\ {s[k] : k \in DOMAIN s} \subseteq S
    BY DEF IsSeq
  <2>2. f \in S
    OBVIOUS
  <2> HIDE DEF S
  <2> QED
    BY <2>1, <2>2, SeqMonotonic
<1>2. Len(s) \in Nat /\ DOMAIN s = 1..Len(s)
  BY SeqFacts
<1> HIDE DEF S
<1>3. /\ t \in Seq(S) /\ Len(t) = 1 + Len(s)
      /\ \A k \in 1..(1 + Len(s)) : t[k] = IF k <= 1 THEN <<f>>[k] ELSE s[k - 1]
  BY <1>1, ConcatProperties
<1>4. DOMAIN t = 1..(Len(s) + 1)
  BY <1>2, <1>3, LenProperties
<1>5. <<f>>[1] = f
  OBVIOUS
<1> HIDE DEF t
<1>6. t[1] = f
  BY <1>2, <1>3, <1>5
<1>7. \A k \in DOMAIN s : t[k + 1] = s[k]
  <2> TAKE k \in DOMAIN s
  <2>1. k + 1 \in 1..(1 + Len(s)) /\ ~(k + 1 <= 1) /\ (k + 1) - 1 = k
    BY <1>2
  <2> QED
    BY <1>3, <2>1
<1>8. \A k \in DOMAIN t \ {1} : k - 1 \in DOMAIN s /\ t[k] = s[k - 1]
  BY <1>2, <1>3, <1>4
<1>9. Frames(t) = Frames(s) \cup {f}
  <2>1. Frames(t) \subseteq Frames(s) \cup {f}
    BY <1>6, <1>8 DEF Frames
  <2>2. f \in Frames(t)
    BY <1>2, <1>4, <1>6 DEF Frames
  <2>3. ASSUME NEW g \in Frames(s)
        PROVE  g \in Frames(t)
    <3>1. PICK k \in DOMAIN s : g = s[k]
      BY DEF Frames
    <3>2. k + 1 \in DOMAIN t
      BY <1>2, <1>4
    <3> QED
      BY <1>7, <3>1, <3>2 DEF Frames
  <2> QED
    BY <2>1, <2>2, <2>3
<1> QED
  BY <1>2, <1>4, <1>6, <1>7, <1>8, <1>9 DEF t

\* And after a pop.
LEMMA PopPlaces ==
    ASSUME NEW s, IsSeq(s), s # <<>>
    PROVE  /\ IsSeq(Tail(s)) /\ Tail(s) # s
           /\ Len(s) \in Nat \ {0} /\ DOMAIN s = 1..Len(s)
           /\ DOMAIN Tail(s) = 1..(Len(s) - 1)
           /\ Head(s) = s[1] /\ Head(s) \in Frames(s)
           /\ \A k \in DOMAIN Tail(s) : k + 1 \in DOMAIN s /\ Tail(s)[k] = s[k + 1]
           /\ Frames(Tail(s)) \subseteq Frames(s)
<1> DEFINE S == {s[k] : k \in DOMAIN s}
           t == Tail(s)
           T == {t[k] : k \in DOMAIN t}
<1>1. s \in Seq(S)
  BY DEF IsSeq
<1>2. DOMAIN s = 1..Len(s) /\ Len(s) \in Nat \ {0}
  BY <1>1, SeqFacts, EmptySeq
<1> HIDE DEF S
<1>3. /\ Head(s) = s[1] /\ t \in Seq(S) /\ Len(t) = Len(s) - 1
      /\ \A k \in 1..(Len(s) - 1) : t[k] = s[k + 1]
  BY <1>1, <1>2, HeadTailProperties
<1>4. DOMAIN t = 1..(Len(s) - 1) /\ t \in [1..(Len(s) - 1) -> S]
  BY <1>3, LenProperties
<1> HIDE DEF t
<1>5. \A k \in DOMAIN t : k + 1 \in DOMAIN s /\ t[k] = s[k + 1]
  BY <1>2, <1>3, <1>4
<1>6. IsSeq(t)
  <2>1. t \in [1..(Len(s) - 1) -> T]
    BY <1>4
  <2> HIDE DEF T
  <2>2. t \in Seq(T)
    BY <1>2, <2>1, SeqDef
  <2> QED
    BY <2>2 DEF IsSeq, T
<1>7. t # s
  BY <1>2, <1>3
<1>8. Head(s) \in Frames(s)
  BY <1>2, <1>3 DEF Frames
<1>9. Frames(t) \subseteq Frames(s)
  BY <1>5 DEF Frames
<1> QED
  BY <1>2, <1>3, <1>4, <1>5, <1>6, <1>7, <1>8, <1>9 DEF t
-----------------------------------------------------------------------------
(* Wired stacks. *)

LEMMA HeldIsLive ==
    ASSUME NEW f, NEW d, NEW x, FrameOK(f, d, x)
    PROVE  Held(f) \subseteq d \ x
BY DEF FrameOK, Held, SimpleOK, PipelineOK, IsIo

\* More buffers, and more of them sealed, if no frame writes to those.
LEMMA WiredLater ==
    ASSUME NEW s, NEW d, NEW x, Wired(s, d, x),
           NEW e, NEW y, d \subseteq e,
           \A f \in Frames(s) : Held(f) \cap (y \ x) = {}
    PROVE  Wired(s, e, y)
<1>1. ASSUME NEW io, IsIo(io, d, x), Writers(io) \cap (y \ x) = {}
      PROVE  IsIo(io, e, y)
  BY <1>1 DEF IsIo
<1>2. ASSUME NEW f \in Frames(s)
      PROVE  FrameOK(f, e, y)
  <2>1. FrameOK(f, d, x) /\ Held(f) \cap (y \ x) = {}
    BY <1>2 DEF Wired
  <2>2. CASE f.at = "simple"
    <3>1. SimpleOK(f, d, x) /\ IsIo(f.io, e, y)
      BY <1>1, <2>1, <2>2 DEF FrameOK, SimpleOK, Held
    <3>2. SimpleOK(f, e, y)
      BY <3>1 DEF SimpleOK
    <3> QED
      BY <2>2, <3>2 DEF FrameOK
  <2>3. CASE f.at = "pipeline"
    <3>1. PipelineOK(f, d, x) /\ IsIo(f.io, e, y)
      BY <1>1, <2>1, <2>3 DEF FrameOK, PipelineOK, Held
    <3>2. PipelineOK(f, e, y)
      BY <3>1 DEF PipelineOK
    <3> QED
      BY <2>3, <3>2 DEF FrameOK
  <2>4. CASE f.at \in {"script", "and", "or"}
    BY <1>1, <2>1, <2>4 DEF FrameOK, Held
  <2>5. CASE f.at \notin {"script", "and", "or", "simple", "pipeline"}
    BY <2>1, <2>5 DEF FrameOK
  <2> QED
    BY <2>2, <2>3, <2>4, <2>5
<1> QED
  BY <1>2 DEF Wired

LEMMA WiredPush ==
    ASSUME NEW s, IsSeq(s), NEW d, NEW x, Wired(s, d, x),
           NEW f, FrameOK(f, d, x),
           \A g \in Frames(s) : Makes(f) \cap Held(g) = {},
           f.at = "capture" => s # <<>> /\ Expanding(Head(s))
    PROVE  Wired(<<f>> \o s, d, x)
<1> DEFINE t == <<f>> \o s
<1>1. /\ Len(s) \in Nat /\ DOMAIN s = 1..Len(s)
      /\ DOMAIN t = 1..(Len(s) + 1)
      /\ t[1] = f
      /\ \A k \in DOMAIN s : t[k + 1] = s[k]
      /\ \A k \in DOMAIN t \ {1} : k - 1 \in DOMAIN s /\ t[k] = s[k - 1]
      /\ Frames(t) = Frames(s) \cup {f}
  BY PushPlaces
<1> HIDE DEF t
<1>2. \A g \in Frames(t) : FrameOK(g, d, x)
  BY <1>1 DEF Wired
<1>3. Apart(t)
  <2> SUFFICES ASSUME NEW j \in DOMAIN t, NEW k \in DOMAIN t, k < j
               PROVE  Makes(t[k]) \cap Held(t[j]) = {}
    BY DEF Apart
  <2>1. j - 1 \in DOMAIN s /\ t[j] = s[j - 1]
    BY <1>1
  <2>2. CASE k = 1
    BY <1>1, <2>1, <2>2 DEF Frames
  <2>3. CASE k # 1
    <3>1. k - 1 \in DOMAIN s /\ t[k] = s[k - 1] /\ k - 1 < j - 1
      BY <1>1, <2>3
    <3> QED
      BY <2>1, <3>1 DEF Wired, Apart
  <2> QED
    BY <2>2, <2>3
<1>4. Waiting(t)
  <2> SUFFICES ASSUME NEW k \in DOMAIN t, t[k].at = "capture"
               PROVE  k + 1 \in DOMAIN t /\ Expanding(t[k + 1])
    BY DEF Waiting
  <2>1. CASE k = 1
    <3>1. s # <<>> /\ Expanding(s[1]) /\ 1 \in DOMAIN s
      BY <1>1, <2>1, PopPlaces
    <3> QED
      BY <1>1, <2>1, <3>1
  <2>2. CASE k # 1
    <3>1. k - 1 \in DOMAIN s /\ t[k] = s[k - 1]
      BY <1>1, <2>2
    <3>2. (k - 1) + 1 \in DOMAIN s /\ Expanding(s[(k - 1) + 1]) /\ (k - 1) + 1 = k
      BY <1>1, <3>1 DEF Wired, Waiting
    <3> QED
      BY <1>1, <3>2
  <2> QED
    BY <2>1, <2>2
<1> QED
  BY <1>2, <1>3, <1>4 DEF Wired, t

LEMMA WiredPop ==
    ASSUME NEW s, IsSeq(s), s # <<>>, NEW d, NEW x, Wired(s, d, x)
    PROVE  /\ IsSeq(Tail(s)) /\ Tail(s) # s /\ Wired(Tail(s), d, x)
           /\ FrameOK(Head(s), d, x)
           /\ \A g \in Frames(Tail(s)) : Makes(Head(s)) \cap Held(g) = {}
           /\ Head(s).at = "capture" => Tail(s) # <<>> /\ Expanding(Head(Tail(s)))
<1> DEFINE t == Tail(s)
<1>1. /\ IsSeq(t) /\ t # s
      /\ Len(s) \in Nat \ {0} /\ DOMAIN s = 1..Len(s)
      /\ DOMAIN t = 1..(Len(s) - 1)
      /\ Head(s) = s[1] /\ Head(s) \in Frames(s)
      /\ \A k \in DOMAIN t : k + 1 \in DOMAIN s /\ t[k] = s[k + 1]
      /\ Frames(t) \subseteq Frames(s)
  BY PopPlaces
<1> HIDE DEF t
<1>2. FrameOK(Head(s), d, x) /\ \A g \in Frames(t) : FrameOK(g, d, x)
  BY <1>1 DEF Wired
<1>3. Apart(t)
  <2> SUFFICES ASSUME NEW j \in DOMAIN t, NEW k \in DOMAIN t, k < j
               PROVE  Makes(t[k]) \cap Held(t[j]) = {}
    BY DEF Apart
  <2>1. j + 1 \in DOMAIN s /\ k + 1 \in DOMAIN s /\ k + 1 < j + 1
    BY <1>1
  <2> QED
    BY <1>1, <2>1 DEF Wired, Apart
<1>4. Waiting(t)
  <2> SUFFICES ASSUME NEW k \in DOMAIN t, t[k].at = "capture"
               PROVE  k + 1 \in DOMAIN t /\ Expanding(t[k + 1])
    BY DEF Waiting
  <2>1. (k + 1) + 1 \in DOMAIN s /\ Expanding(s[(k + 1) + 1])
    BY <1>1 DEF Wired, Waiting
  <2>2. k + 1 \in DOMAIN t
    BY <1>1, <2>1
  <2> QED
    BY <1>1, <2>1, <2>2
<1>5. ASSUME NEW g \in Frames(t)
      PROVE  Makes(Head(s)) \cap Held(g) = {}
  <2>1. PICK k \in DOMAIN t : g = t[k]
    BY DEF Frames
  <2>2. k + 1 \in DOMAIN s /\ 1 \in DOMAIN s /\ 1 < k + 1 /\ g = s[k + 1]
    BY <1>1, <2>1
  <2> QED
    BY <1>1, <2>2 DEF Wired, Apart
<1>6. ASSUME Head(s).at = "capture"
      PROVE  t # <<>> /\ Expanding(Head(t))
  <2>1. 1 + 1 \in DOMAIN s /\ Expanding(s[1 + 1])
    BY <1>1, <1>6 DEF Wired, Waiting
  <2>2. 1 \in DOMAIN t /\ t[1] = s[1 + 1]
    BY <1>1, <2>1
  <2>3. t # <<>>
    BY <2>2, EmptySeq
  <2> QED
    BY <1>1, <2>1, <2>2, <2>3, PopPlaces
<1> QED
  BY <1>1, <1>2, <1>3, <1>4, <1>5, <1>6 DEF Wired, t

\* Calling a script from wired frames.
LEMMA RunScriptWired ==
    ASSUME NEW script \in Seq(Cmds), NEW io, NEW below, IsSeq(below),
           NEW d, NEW x, Wired(below, d, x), IsIo(io, d, x),
           RunScript(script, io, below)
    PROVE  /\ Wired(stack', d, x)
           /\ \/ ctl' = Return(Ok(0)) /\ stack' = below
              \/ ctl'.at = "start" /\ ctl'.cmd \in Cmds /\ ctl'.io = io
<1>1. CASE script = <<>>
  BY <1>1 DEF RunScript
<1>2. CASE script # <<>>
  <2> DEFINE f == [at |-> "script", rest |-> Tail(script), io |-> io]
  <2>1. Head(script) \in Cmds /\ Tail(script) \in Seq(Cmds)
    BY <1>2, HeadTailProperties
  <2>2. /\ stack' = <<f>> \o below
        /\ ctl'.at = "start" /\ ctl'.cmd \in Cmds /\ ctl'.io = io
    <3>1. stack' = <<f>> \o below /\ ctl' = Start(Head(script), io)
      BY <1>2 DEF RunScript
    <3> HIDE DEF f
    <3> QED
      BY <2>1, <3>1 DEF Start
  <2>3. FrameOK(f, d, x) /\ Makes(f) = {} /\ f.at # "capture"
    BY <2>1 DEF FrameOK, Makes
  <2> HIDE DEF f
  <2> QED
    BY <2>2, <2>3, WiredPush
<1> QED
  BY <1>1, <1>2
-----------------------------------------------------------------------------
(***************************************************************************)
(* The invariant: the frames are wired, and what the innermost one does    *)
(* fits them.  TypeOK alone is not inductive: that the writers of a frame  *)
(* exist does not say they are not sealed, nor that the buffer a frame     *)
(* reads out next is not one its callers write to.                         *)
(***************************************************************************)
CtlOK ==
    /\ ctl.at = "idle" => bufs = <<>> /\ sealed = {}
    /\ ctl.at = "start" => ctl.cmd \in Cmds /\ IsIo(ctl.io, DOMAIN bufs, sealed)
    /\ ctl.at = "step" => ~Top.dispatched
    /\ ctl.at = "word" => Expanding(Top)
    /\ ctl.at = "return" => ctl.res.kind = "err" \/ ctl.res.code \in DOMAIN Show

WiringInv ==
    /\ IsSeq(bufs) /\ sealed \subseteq DOMAIN bufs
    /\ last_exit \in DOMAIN Show
    /\ Wired(stack, DOMAIN bufs, sealed)
    /\ CtlOK

FrameInv == IInv /\ WiringInv

LEMMA FrameFacts ==
    ASSUME FrameInv
    PROVE  /\ GoodStack(stack) /\ IsSeq(stack) /\ IsSeq(bufs) /\ sealed \subseteq DOMAIN bufs
           /\ Wired(stack, DOMAIN bufs, sealed) /\ last_exit \in DOMAIN Show
           /\ stack # <<>> =>
                 /\ IsSeq(Tail(stack)) /\ Tail(stack) # stack
                 /\ Wired(Tail(stack), DOMAIN bufs, sealed)
                 /\ FrameOK(Top, DOMAIN bufs, sealed)
                 /\ \A g \in Frames(Tail(stack)) : Makes(Top) \cap Held(g) = {}
                 /\ Top.at = "capture" => Tail(stack) # <<>> /\ Expanding(Head(Tail(stack)))
           /\ ctl.at = "idle" => stack = <<>> /\ bufs = <<>> /\ sealed = {}
           /\ ctl.at = "start" =>
                 stack # <<>> /\ ctl.cmd \in Cmds /\ IsIo(ctl.io, DOMAIN bufs, sealed)
           /\ ctl.at \in {"step", "word"} =>
                 /\ stack # <<>> /\ Top.at = "simple" /\ ~Top.dispatched
                 /\ SimpleOK(Top, DOMAIN bufs, sealed)
           /\ ctl.at = "word" => Expanding(Top)
           /\ Returning => ctl.res.kind = "err" \/ ctl.res.code \in DOMAIN Show
           /\ Succeeded => ctl.res.code \in DOMAIN Show
<1>1. GoodStack(stack) /\ IsSeq(stack)
  BY DEF FrameInv, IInv, StackInv, GoodStack, IsStack, IsSeq
<1>2. WiringInv /\ CtlOK /\ StackInv
  BY DEF FrameInv, WiringInv, IInv
<1>3. /\ IsSeq(bufs) /\ sealed \subseteq DOMAIN bufs
      /\ Wired(stack, DOMAIN bufs, sealed) /\ last_exit \in DOMAIN Show
  BY <1>2 DEF WiringInv
<1>4. stack # <<>> =>
         /\ IsSeq(Tail(stack)) /\ Tail(stack) # stack
         /\ Wired(Tail(stack), DOMAIN bufs, sealed)
         /\ FrameOK(Top, DOMAIN bufs, sealed)
         /\ \A g \in Frames(Tail(stack)) : Makes(Top) \cap Held(g) = {}
         /\ Top.at = "capture" => Tail(stack) # <<>> /\ Expanding(Head(Tail(stack)))
  BY <1>1, <1>3, WiredPop DEF Top
<1>5. ctl.at \in {"step", "word"} => stack # <<>> /\ Top.at = "simple" /\ ~Top.dispatched
  BY <1>2 DEF StackInv, CtlOK, Expanding
<1>6. ctl.at \in {"step", "word"} => SimpleOK(Top, DOMAIN bufs, sealed)
  BY <1>4, <1>5 DEF FrameOK
<1>7. Returning => ctl.res.kind = "err" \/ ctl.res.code \in DOMAIN Show
  BY <1>2 DEF CtlOK, Returning
<1>8. Succeeded => ctl.res.code \in DOMAIN Show
  BY <1>7 DEF Succeeded
<1>9. /\ ctl.at = "idle" => stack = <<>> /\ bufs = <<>> /\ sealed = {}
      /\ ctl.at = "start" =>
            stack # <<>> /\ ctl.cmd \in Cmds /\ IsIo(ctl.io, DOMAIN bufs, sealed)
      /\ ctl.at = "word" => Expanding(Top)
  BY <1>2 DEF StackInv, CtlOK
<1> QED
  BY <1>1, <1>3, <1>4, <1>5, <1>6, <1>7, <1>8, <1>9

\* What the steps below establish of the next state.
LEMMA WiringKept ==
    ASSUME IsSeq(bufs'), sealed' \subseteq DOMAIN bufs', last_exit' \in DOMAIN Show,
           Wired(stack', DOMAIN bufs', sealed'),
           \/ ctl'.at = "start" /\ ctl'.cmd \in Cmds /\ IsIo(ctl'.io, DOMAIN bufs', sealed')
           \/ ctl'.at = "step" /\ ~Head(stack').dispatched
           \/ ctl'.at = "word" /\ Expanding(Head(stack'))
           \/ /\ ctl'.at = "return"
              /\ ctl'.res.kind = "err" \/ ctl'.res.code \in DOMAIN Show
    PROVE  WiringInv'
<1>1. CtlOK'
  BY DEF CtlOK, Top
<1> QED
  BY <1>1 DEF WiringInv

\* A simple command replaces its frame, having made no buffer but new ones.
LEMMA SimpleRewired ==
    ASSUME FrameInv, ctl.at \in {"step", "word"}, NEW f, Replace(f),
           f.at = "simple", SimpleOK(f, DOMAIN bufs', sealed),
           Makes(f) \subseteq Makes(Top) \cup (DOMAIN bufs' \ DOMAIN bufs),
           IsSeq(bufs'), DOMAIN bufs \subseteq DOMAIN bufs',
           sealed' = sealed, last_exit' = last_exit,
           \/ ctl'.at = "step" /\ ~f.dispatched
           \/ /\ ctl'.at = "return"
              /\ ctl'.res.kind = "err" \/ ctl'.res.code \in DOMAIN Show
    PROVE  WiringInv'
<1>1. /\ stack # <<>> /\ IsSeq(Tail(stack)) /\ Wired(Tail(stack), DOMAIN bufs, sealed)
      /\ \A g \in Frames(Tail(stack)) : Makes(Top) \cap Held(g) = {}
      /\ sealed \subseteq DOMAIN bufs /\ last_exit \in DOMAIN Show
  BY FrameFacts
<1>2. \A g \in Frames(Tail(stack)) : Held(g) \subseteq DOMAIN bufs
  BY <1>1, HeldIsLive DEF Wired
<1>3. \A g \in Frames(Tail(stack)) : Makes(f) \cap Held(g) = {}
  BY <1>1, <1>2
<1>4. Wired(Tail(stack), DOMAIN bufs', sealed)
  BY <1>1, WiredLater
<1>5. FrameOK(f, DOMAIN bufs', sealed)
  BY DEF FrameOK
<1>6. stack' = <<f>> \o Tail(stack)
  BY DEF Replace
<1>7. Wired(stack', DOMAIN bufs', sealed')
  BY <1>1, <1>3, <1>4, <1>5, <1>6, WiredPush
<1>8. Head(stack') = f
  <2>1. GoodStack(stack) /\ "at" \in DOMAIN f /\ f.at = Head(stack).at
    BY FrameFacts DEF SimpleOK, Top
  <2> QED
    BY <1>1, <1>6, <2>1, ReplaceGood
<1> QED
  BY <1>1, <1>7, <1>8, WiringKept

\* A simple command goes on without touching its frame.
LEMMA FrameStays ==
    ASSUME FrameInv, ctl.at \in {"step", "word"}, stack' = stack,
           bufs' = bufs, sealed' = sealed, last_exit' = last_exit,
           \/ ctl'.at = "step"
           \/ ctl'.at = "word" /\ Expanding(Top)
           \/ /\ ctl'.at = "return"
              /\ ctl'.res.kind = "err" \/ ctl'.res.code \in DOMAIN Show
    PROVE  WiringInv'
<1>1. /\ IsSeq(bufs) /\ sealed \subseteq DOMAIN bufs /\ last_exit \in DOMAIN Show
      /\ Wired(stack, DOMAIN bufs, sealed) /\ ~Top.dispatched
  BY FrameFacts
<1> QED
  BY <1>1, WiringKept DEF Top

\* The top frame is left; a buffer sealed by that is one it made.
LEMMA FrameLeft ==
    ASSUME FrameInv, stack # <<>>, stack' = Tail(stack),
           bufs' = bufs, sealed \subseteq sealed', sealed' \subseteq DOMAIN bufs,
           \A g \in Frames(Tail(stack)) : Held(g) \cap (sealed' \ sealed) = {},
           last_exit' \in DOMAIN Show,
           \/ ctl'.at = "start" /\ ctl'.cmd \in Cmds /\ IsIo(ctl'.io, DOMAIN bufs, sealed')
           \/ ctl'.at = "word" /\ Expanding(Head(stack'))
           \/ /\ ctl'.at = "return"
              /\ ctl'.res.kind = "err" \/ ctl'.res.code \in DOMAIN Show
    PROVE  WiringInv'
<1>1. IsSeq(bufs) /\ Wired(Tail(stack), DOMAIN bufs, sealed)
  BY FrameFacts
<1>2. Wired(stack', DOMAIN bufs', sealed')
  BY <1>1, WiredLater
<1> QED
  BY <1>1, <1>2, WiringKept

\* The top frame is replaced; what it makes is what it made, or new.
LEMMA FrameReplaced ==
    ASSUME FrameInv, stack # <<>>, NEW f, f.at # "capture",
           FrameOK(f, DOMAIN bufs', sealed'),
           Makes(f) \subseteq Makes(Top) \cup (DOMAIN bufs' \ DOMAIN bufs),
           DOMAIN bufs \subseteq DOMAIN bufs', sealed' \subseteq sealed \cup Makes(Top)
    PROVE  Wired(<<f>> \o Tail(stack), DOMAIN bufs', sealed')
<1>1. /\ IsSeq(Tail(stack)) /\ Wired(Tail(stack), DOMAIN bufs, sealed)
      /\ \A g \in Frames(Tail(stack)) : Makes(Top) \cap Held(g) = {}
  BY FrameFacts
<1>2. \A g \in Frames(Tail(stack)) : Held(g) \subseteq DOMAIN bufs
  BY <1>1, HeldIsLive DEF Wired
<1>3. \A g \in Frames(Tail(stack)) : Makes(f) \cap Held(g) = {}
  BY <1>1, <1>2
<1>4. Wired(Tail(stack), DOMAIN bufs', sealed')
  BY <1>1, WiredLater
<1> QED
  BY <1>1, <1>3, <1>4, WiredPush

\* A frame is pushed; what it makes is new.
LEMMA FramePushed ==
    ASSUME FrameInv, NEW f, FrameOK(f, DOMAIN bufs', sealed),
           Makes(f) \cap DOMAIN bufs = {}, DOMAIN bufs \subseteq DOMAIN bufs',
           f.at = "capture" => stack # <<>> /\ Expanding(Top)
    PROVE  Wired(<<f>> \o stack, DOMAIN bufs', sealed)
<1>1. IsSeq(stack) /\ Wired(stack, DOMAIN bufs, sealed)
  BY FrameFacts
<1>2. \A g \in Frames(stack) : Held(g) \subseteq DOMAIN bufs
  BY <1>1, HeldIsLive DEF Wired
<1>3. \A g \in Frames(stack) : Makes(f) \cap Held(g) = {}
  BY <1>2
<1>4. Wired(stack, DOMAIN bufs', sealed)
  BY <1>1, WiredLater
<1> QED
  BY <1>1, <1>3, <1>4, WiredPush DEF Top
-----------------------------------------------------------------------------
LEMMA StartIsWired == Init => FrameInv
<1> SUFFICES ASSUME Init
             PROVE  WiringInv
  BY StartIsConsistent DEF FrameInv
<1>1. /\ stack = <<>> /\ bufs = <<>> /\ sealed = {} /\ last_exit = 0 /\ ctl.at = "idle"
      /\ DOMAIN stack = {} /\ DOMAIN bufs = {}
  BY EmptySeq DEF Init, Idle
<1>2. IsSeq(bufs)
  BY <1>1 DEF IsSeq
<1>3. Wired(stack, DOMAIN bufs, sealed)
  BY <1>1 DEF Wired, Frames, Apart, Waiting
<1>4. CtlOK
  BY <1>1 DEF CtlOK
<1> QED
  BY <1>1, <1>2, <1>3, <1>4, StatusAssumption DEF WiringInv

\* The beginning and the end of exec().
LEMMA ExecsWired ==
    ASSUME FrameInv,
           \/ \E script \in Scripts, in \in Inputs : StartExec(script, in)
           \/ FinishExec
    PROVE  WiringInv'
<1>1. ASSUME NEW script \in Scripts, NEW in \in Inputs, StartExec(script, in)
      PROVE  WiringInv'
  <2>1. /\ bufs' = <<<<>>, <<>>>> /\ RunScript(script, Io(in, 1, 2), stack)
        /\ last_exit' = last_exit /\ sealed' = sealed /\ ctl.at = "idle"
    BY <1>1 DEF StartExec, shell, Idle
  <2>2. /\ IsSeq(stack) /\ last_exit \in DOMAIN Show /\ Wired(stack, DOMAIN bufs, sealed)
        /\ stack = <<>> /\ bufs = <<>> /\ sealed = {}
    BY <2>1, FrameFacts
  <2>3. IsSeq(bufs') /\ DOMAIN bufs' = {1, 2}
    <3>1. bufs' \in Seq({<<>>}) /\ Len(bufs') = 2
      BY <2>1
    <3>2. DOMAIN bufs' = 1..2 /\ bufs' \in [1..2 -> {<<>>}]
      BY <3>1, LenProperties
    <3>3. {bufs'[k] : k \in DOMAIN bufs'} = {<<>>}
      BY <3>2
    <3> QED
      BY <3>1, <3>2, <3>3 DEF IsSeq
  <2>4. DOMAIN bufs = {}
    BY <2>2, EmptySeq
  <2>5. Wired(stack, DOMAIN bufs', sealed')
    BY <2>1, <2>2, <2>4, WiredLater
  <2>6. IsIo(Io(in, 1, 2), DOMAIN bufs', sealed') /\ sealed' \subseteq DOMAIN bufs'
    BY <2>1, <2>2, <2>3 DEF IsIo, Io, Writers
  <2>7. script \in Seq(Cmds)
    BY AstAssumption
  <2>8. /\ Wired(stack', DOMAIN bufs', sealed')
        /\ \/ ctl' = Return(Ok(0)) /\ stack' = stack
           \/ ctl'.at = "start" /\ ctl'.cmd \in Cmds /\ ctl'.io = Io(in, 1, 2)
    BY <2>1, <2>2, <2>5, <2>6, <2>7, RunScriptWired
  <2>9. \/ ctl'.at = "start" /\ ctl'.cmd \in Cmds /\ IsIo(ctl'.io, DOMAIN bufs', sealed')
        \/ ctl'.at = "return" /\ ctl'.res.code \in DOMAIN Show
    BY <2>6, <2>8, StatusAssumption DEF Return, Ok, Result
  <2> QED
    BY <2>1, <2>2, <2>3, <2>6, <2>8, <2>9, WiringKept
<1>2. CASE FinishExec
  <2>1. /\ Returning /\ stack = <<>> /\ stack' = <<>> /\ bufs' = <<>> /\ sealed' = {}
        /\ ctl'.at = "idle"
        /\ \/ last_exit' = last_exit
           \/ ctl.res.kind # "err" /\ last_exit' = ctl.res.code
    BY <1>2 DEF FinishExec, Idle
  <2>2. last_exit' \in DOMAIN Show
    BY <2>1, FrameFacts
  <2>3. DOMAIN bufs' = {} /\ DOMAIN stack' = {} /\ IsSeq(bufs')
    BY <2>1, EmptySeq DEF IsSeq
  <2>4. Wired(stack', DOMAIN bufs', sealed')
    BY <2>1, <2>3 DEF Wired, Frames, Apart, Waiting
  <2>5. CtlOK'
    BY <2>1 DEF CtlOK
  <2> QED
    BY <2>1, <2>2, <2>3, <2>4, <2>5 DEF WiringInv
<1> QED
  BY <1>1, <1>2

\* Lists, groups and subshells.
LEMMA ListsWired ==
    ASSUME FrameInv,
           \/ Unwind \/ NextCommand \/ StartAndOr \/ TakeRight \/ StartBackground
           \/ StartGroup \/ EndGroup \/ StartSubshell \/ EndSubshell
    PROVE  WiringInv'
<1>1. /\ IsSeq(stack) /\ IsSeq(bufs) /\ sealed \subseteq DOMAIN bufs
      /\ last_exit \in DOMAIN Show /\ Wired(stack, DOMAIN bufs, sealed)
      /\ stack # <<>> => FrameOK(Top, DOMAIN bufs, sealed)
      /\ ctl.at = "start" =>
            stack # <<>> /\ ctl.cmd \in Cmds /\ IsIo(ctl.io, DOMAIN bufs, sealed)
      /\ Returning => ctl.res.kind = "err" \/ ctl.res.code \in DOMAIN Show
      /\ Succeeded => ctl.res.code \in DOMAIN Show
  BY FrameFacts
<1>2. ASSUME stack # <<>>, stack' = Tail(stack), bufs' = bufs, sealed' = sealed,
             last_exit' \in DOMAIN Show,
             \/ ctl'.at = "start" /\ ctl'.cmd \in Cmds /\ IsIo(ctl'.io, DOMAIN bufs, sealed)
             \/ Returning /\ ctl' = ctl
      PROVE  WiringInv'
  BY <1>1, <1>2, FrameLeft DEF Returning
<1>3. CASE Unwind
  BY <1>1, <1>2, <1>3 DEF Unwind, shell, history
<1>4. CASE NextCommand
  <2>1. /\ Succeeded /\ stack # <<>> /\ Top.at = "script" /\ last_exit' = ctl.res.code
        /\ bufs' = bufs /\ sealed' = sealed
    BY <1>4 DEF NextCommand, In, history
  <2>2. last_exit' \in DOMAIN Show /\ Returning
    BY <1>1, <2>1 DEF Succeeded
  <2>3. CASE Top.rest = <<>>
    BY <1>2, <1>4, <2>1, <2>2, <2>3 DEF NextCommand
  <2>4. CASE Top.rest # <<>>
    <3> DEFINE f == [Top EXCEPT !.rest = Tail(@)]
    <3>1. stack' = <<f>> \o Tail(stack) /\ ctl' = Start(Head(Top.rest), Top.io)
      BY <1>4, <2>4 DEF NextCommand
    <3>2. /\ DOMAIN Top = {"at", "rest", "io"} /\ Top.rest \in Seq(Cmds)
          /\ IsIo(Top.io, DOMAIN bufs, sealed)
      BY <1>1, <2>1 DEF FrameOK
    <3>3. Head(Top.rest) \in Cmds /\ Tail(Top.rest) \in Seq(Cmds)
      BY <2>4, <3>2, HeadTailProperties
    <3>4. /\ DOMAIN f = {"at", "rest", "io"} /\ f.at = "script" /\ f.io = Top.io
          /\ f.rest = Tail(Top.rest)
      BY <2>1, <3>2
    <3> HIDE DEF f
    <3>5. FrameOK(f, DOMAIN bufs, sealed) /\ Makes(f) = {}
      BY <3>2, <3>3, <3>4 DEF FrameOK, Makes
    <3>6. Wired(stack', DOMAIN bufs', sealed')
      BY <2>1, <3>1, <3>4, <3>5, FrameReplaced
    <3>7. ctl'.at = "start" /\ ctl'.cmd \in Cmds /\ IsIo(ctl'.io, DOMAIN bufs', sealed')
      BY <2>1, <3>1, <3>2, <3>3 DEF Start
    <3> QED
      BY <1>1, <2>1, <2>2, <3>6, <3>7, WiringKept
  <2> QED
    BY <2>3, <2>4
<1>5. CASE StartAndOr
  <2> DEFINE f == [at |-> Ast[ctl.cmd].kind, right |-> Ast[ctl.cmd].right, io |-> ctl.io]
  <2>1. /\ ctl.at = "start" /\ Ast[ctl.cmd].kind \in {"and", "or"}
        /\ stack' = <<f>> \o stack /\ ctl' = Start(Ast[ctl.cmd].left, ctl.io)
        /\ bufs' = bufs /\ sealed' = sealed /\ last_exit' = last_exit
    BY <1>5 DEF StartAndOr, shell, history
  <2>2. Ast[ctl.cmd].left \in Cmds /\ Ast[ctl.cmd].right \in Cmds
    BY <1>1, <2>1, AstAssumption
  <2>3. FrameOK(f, DOMAIN bufs, sealed) /\ Makes(f) = {} /\ f.at # "capture"
    BY <1>1, <2>1, <2>2 DEF FrameOK, Makes
  <2> HIDE DEF f
  <2>4. Wired(stack', DOMAIN bufs', sealed')
    BY <2>1, <2>3, FramePushed
  <2>5. ctl'.at = "start" /\ ctl'.cmd \in Cmds /\ IsIo(ctl'.io, DOMAIN bufs', sealed')
    BY <1>1, <2>1, <2>2 DEF Start
  <2> QED
    BY <1>1, <2>1, <2>4, <2>5, WiringKept
<1>6. CASE TakeRight
  <2>1. /\ Succeeded /\ stack # <<>> /\ Top.at \in {"and", "or"} /\ last_exit' = ctl.res.code
        /\ stack' = Tail(stack) /\ bufs' = bufs /\ sealed' = sealed
        /\ ctl' = ctl \/ ctl' = Start(Top.right, Top.io)
    BY <1>6 DEF TakeRight, In, history
  <2>2. last_exit' \in DOMAIN Show /\ Returning
    BY <1>1, <2>1 DEF Succeeded
  <2>3. Top.right \in Cmds /\ IsIo(Top.io, DOMAIN bufs, sealed)
    BY <1>1, <2>1 DEF FrameOK
  <2>4. \/ ctl'.at = "start" /\ ctl'.cmd \in Cmds /\ IsIo(ctl'.io, DOMAIN bufs, sealed)
        \/ Returning /\ ctl' = ctl
    BY <2>1, <2>2, <2>3 DEF Start
  <2> QED
    BY <1>2, <2>1, <2>2, <2>4
<1>7. CASE StartBackground
  <2>1. /\ ctl.at = "start" /\ Ast[ctl.cmd].kind = "background"
        /\ ctl' = Start(Ast[ctl.cmd].job, ctl.io) /\ stack' = stack
        /\ bufs' = bufs /\ sealed' = sealed /\ last_exit' = last_exit
    BY <1>7 DEF StartBackground, shell, history
  <2>2. Ast[ctl.cmd].job \in Cmds
    BY <1>1, <2>1, AstAssumption
  <2>3. ctl'.at = "start" /\ ctl'.cmd \in Cmds /\ IsIo(ctl'.io, DOMAIN bufs', sealed')
    BY <1>1, <2>1, <2>2 DEF Start
  <2> QED
    BY <1>1, <2>1, <2>3, WiringKept
<1>8. ASSUME NEW f, "at" \in DOMAIN f, f.at \in {"group", "subshell"}, ctl.at = "start",
             Ast[ctl.cmd].kind \in {"group", "subshell"},
             RunScript(Ast[ctl.cmd].body, ctl.io, <<f>> \o stack),
             bufs' = bufs, sealed' = sealed, last_exit' = last_exit
      PROVE  WiringInv'
  <2>1. Ast[ctl.cmd].body \in Seq(Cmds)
    BY <1>1, <1>8, AstAssumption
  <2>2. FrameOK(f, DOMAIN bufs, sealed) /\ Makes(f) = {} /\ f.at # "capture"
    BY <1>8 DEF FrameOK, Makes
  <2>3. Wired(<<f>> \o stack, DOMAIN bufs', sealed')
    BY <1>8, <2>2, FramePushed
  <2>4. IsSeq(<<f>> \o stack)
    <3>1. GoodStack(stack) /\ Hangs(f) /\ Fits(f, Head(stack)) /\ stack # <<>>
      BY <1>8 DEF FrameInv, IInv, StackInv, Hangs, Fits, Command, Top
    <3> QED
      BY <1>8, <3>1, PushGood, GoodIsSeq
  <2>5. /\ Wired(stack', DOMAIN bufs', sealed')
        /\ \/ ctl' = Return(Ok(0)) /\ stack' = <<f>> \o stack
           \/ ctl'.at = "start" /\ ctl'.cmd \in Cmds /\ ctl'.io = ctl.io
    BY <1>1, <1>8, <2>1, <2>3, <2>4, RunScriptWired
  <2>6. \/ ctl'.at = "start" /\ ctl'.cmd \in Cmds /\ IsIo(ctl'.io, DOMAIN bufs', sealed')
        \/ ctl'.at = "return" /\ ctl'.res.code \in DOMAIN Show
    BY <1>1, <1>8, <2>5, StatusAssumption DEF Return, Ok, Result
  <2> QED
    BY <1>1, <1>8, <2>5, <2>6, WiringKept
<1>9. CASE StartGroup
  <2> DEFINE f == [at |-> "group"]
  <2>1. /\ ctl.at = "start" /\ Ast[ctl.cmd].kind = "group"
        /\ RunScript(Ast[ctl.cmd].body, ctl.io, <<f>> \o stack)
        /\ bufs' = bufs /\ sealed' = sealed /\ last_exit' = last_exit
    BY <1>9 DEF StartGroup, shell, history
  <2>2. "at" \in DOMAIN f /\ f.at = "group"
    OBVIOUS
  <2> HIDE DEF f
  <2> QED
    BY <1>8, <2>1, <2>2
<1>10. CASE StartSubshell
  <2> DEFINE f == [at |-> "subshell", env |-> env, cwd |-> cwd]
  <2>1. /\ ctl.at = "start" /\ Ast[ctl.cmd].kind = "subshell"
        /\ RunScript(Ast[ctl.cmd].body, ctl.io, <<f>> \o stack)
        /\ bufs' = bufs /\ sealed' = sealed /\ last_exit' = last_exit
    BY <1>10 DEF StartSubshell, shell, history
  <2>2. "at" \in DOMAIN f /\ f.at = "subshell"
    OBVIOUS
  <2> HIDE DEF f
  <2> QED
    BY <1>8, <2>1, <2>2
<1>11. CASE EndGroup \/ EndSubshell
  <2>1. /\ Succeeded /\ stack # <<>> /\ stack' = Tail(stack) /\ ctl' = ctl
        /\ bufs' = bufs /\ sealed' = sealed /\ last_exit' = last_exit
    BY <1>11 DEF EndGroup, EndSubshell, In, shell
  <2> QED
    BY <1>1, <1>2, <2>1 DEF Succeeded
<1> QED
  BY <1>3, <1>4, <1>5, <1>6, <1>7, <1>9, <1>10, <1>11

\* Pipelines: the buffer of a stage is new, and sealed when the next one starts.
LEMMA PipelinesWired ==
    ASSUME FrameInv, StartPipeline \/ NextStage \/ EndPipeline
    PROVE  WiringInv'
<1>1. /\ IsSeq(stack) /\ IsSeq(bufs) /\ sealed \subseteq DOMAIN bufs
      /\ last_exit \in DOMAIN Show /\ Wired(stack, DOMAIN bufs, sealed)
      /\ stack # <<>> => FrameOK(Top, DOMAIN bufs, sealed)
      /\ ctl.at = "start" =>
            stack # <<>> /\ ctl.cmd \in Cmds /\ IsIo(ctl.io, DOMAIN bufs, sealed)
      /\ Succeeded => ctl.res.code \in DOMAIN Show
  BY FrameFacts
\* A stage's output: the pipeline's own, or a new buffer.
<1>2. ASSUME NEW io, IsIo(io, DOMAIN bufs, sealed), NEW last \in BOOLEAN,
             bufs' = IF last THEN bufs ELSE Append(bufs, <<>>),
             NEW out, out = IF last THEN io.out ELSE Len(bufs) + 1
      PROVE  /\ IsSeq(bufs') /\ DOMAIN bufs \subseteq DOMAIN bufs'
             /\ out \in DOMAIN bufs' \ sealed /\ IsIo(io, DOMAIN bufs', sealed)
             /\ ~last => out \notin DOMAIN bufs
  <2>1. CASE last
    BY <1>1, <1>2, <2>1 DEF IsIo, Writers
  <2>2. CASE ~last
    <3>1. bufs' = Append(bufs, <<>>) /\ out = Len(bufs) + 1
      BY <1>2, <2>2
    <3>2. /\ IsSeq(bufs') /\ DOMAIN bufs' = DOMAIN bufs \cup {Len(bufs) + 1}
          /\ Len(bufs) + 1 \notin DOMAIN bufs
      BY <1>1, <3>1, AppendIsSeq
    <3> QED
      BY <1>1, <1>2, <3>1, <3>2 DEF IsIo
  <2> QED
    BY <2>1, <2>2
<1>3. CASE StartPipeline
  <2> DEFINE p == Ast[ctl.cmd]
             last == Len(p.stages) = 1
             out == IF last THEN ctl.io.out ELSE Len(bufs) + 1
             f == [at |-> "pipeline", rest |-> Tail(p.stages), io |-> ctl.io,
                   out |-> out, negated |-> p.negated]
  <2>1. /\ ctl.at = "start" /\ p.kind = "pipeline"
        /\ bufs' = IF last THEN bufs ELSE Append(bufs, <<>>)
        /\ stack' = <<f>> \o stack
        /\ ctl' = Start(Head(p.stages), [ctl.io EXCEPT !.out = out])
        /\ sealed' = sealed /\ last_exit' = last_exit
    BY <1>3 DEF StartPipeline, shell, history
  <2>2. p.stages \in Seq(Cmds) /\ p.stages # <<>>
    BY <1>1, <2>1, AstAssumption
  <2>3. /\ Head(p.stages) \in Cmds /\ Tail(p.stages) \in Seq(Cmds)
        /\ Tail(p.stages) # <<>> => ~last
    BY <2>2, RestOfCommands
  <2>4. /\ IsSeq(bufs') /\ DOMAIN bufs \subseteq DOMAIN bufs'
        /\ out \in DOMAIN bufs' \ sealed /\ IsIo(ctl.io, DOMAIN bufs', sealed)
        /\ ~last => out \notin DOMAIN bufs
    <3>1. last \in BOOLEAN
      OBVIOUS
    <3> QED
      BY <1>1, <1>2, <2>1, <3>1
  <2> HIDE DEF p, last, out
  <2>5. /\ DOMAIN f = {"at", "rest", "io", "out", "negated"} /\ f.at = "pipeline"
        /\ f.rest = Tail(p.stages) /\ f.io = ctl.io /\ f.out = out
    OBVIOUS
  <2> HIDE DEF f
  <2>6. Writers(ctl.io) \subseteq DOMAIN bufs
    BY <1>1, <2>1 DEF IsIo
  <2>7. PipelineOK(f, DOMAIN bufs', sealed)
    BY <2>3, <2>4, <2>5, <2>6 DEF PipelineOK
  <2>8. FrameOK(f, DOMAIN bufs', sealed) /\ Makes(f) \cap DOMAIN bufs = {}
    BY <2>3, <2>4, <2>5, <2>7 DEF FrameOK, Makes
  <2>9. Wired(stack', DOMAIN bufs', sealed')
    BY <2>1, <2>4, <2>5, <2>8, FramePushed
  <2>10. ctl'.at = "start" /\ ctl'.cmd \in Cmds /\ IsIo(ctl'.io, DOMAIN bufs', sealed')
    <3>1. ctl'.at = "start" /\ ctl'.cmd \in Cmds /\ ctl'.io = [ctl.io EXCEPT !.out = out]
      BY <2>1, <2>3 DEF Start
    <3>2. IsIo([ctl.io EXCEPT !.out = out], DOMAIN bufs', sealed')
      BY <2>1, <2>4 DEF IsIo, Writers
    <3> QED
      BY <3>1, <3>2
  <2> QED
    BY <1>1, <2>1, <2>4, <2>9, <2>10, WiringKept
<1>4. CASE NextStage
  <2> DEFINE last == Len(Top.rest) = 1
             out == IF last THEN Top.io.out ELSE Len(bufs) + 1
             f == [Top EXCEPT !.rest = Tail(@), !.out = out]
  <2>1. /\ Succeeded /\ stack # <<>> /\ Top.at = "pipeline" /\ Top.rest # <<>>
        /\ last_exit' = ctl.res.code /\ sealed' = sealed \cup {Top.out}
        /\ bufs' = IF last THEN bufs ELSE Append(bufs, <<>>)
        /\ stack' = <<f>> \o Tail(stack)
        /\ ctl' = Start(Head(Top.rest), Io(bufs[Top.out], out, Top.io.err))
    BY <1>4 DEF NextStage, In
  <2>2. PipelineOK(Top, DOMAIN bufs, sealed) /\ last_exit' \in DOMAIN Show
    BY <1>1, <2>1 DEF FrameOK
  <2>3. /\ Top.rest \in Seq(Cmds) /\ IsIo(Top.io, DOMAIN bufs, sealed)
        /\ Top.out \in DOMAIN bufs /\ Top.out \notin Writers(Top.io)
        /\ DOMAIN Top = {"at", "rest", "io", "out", "negated"}
    BY <2>1, <2>2 DEF PipelineOK
  <2>4. /\ Head(Top.rest) \in Cmds /\ Tail(Top.rest) \in Seq(Cmds)
        /\ Tail(Top.rest) # <<>> => ~last
    BY <2>1, <2>3, RestOfCommands
  <2>5. /\ IsSeq(bufs') /\ DOMAIN bufs \subseteq DOMAIN bufs'
        /\ out \in DOMAIN bufs' \ sealed /\ IsIo(Top.io, DOMAIN bufs', sealed)
        /\ ~last => out \notin DOMAIN bufs
    <3>1. last \in BOOLEAN
      OBVIOUS
    <3> QED
      BY <1>2, <2>1, <2>3, <3>1
  <2>6. out # Top.out
    BY <2>3, <2>5 DEF Writers
  <2> HIDE DEF out, last
  <2>7. IsIo(Top.io, DOMAIN bufs', sealed')
    BY <2>1, <2>3, <2>5 DEF IsIo
  <2>8. /\ DOMAIN f = {"at", "rest", "io", "out", "negated"} /\ f.at = "pipeline"
        /\ f.rest = Tail(Top.rest) /\ f.io = Top.io /\ f.out = out
    BY <2>1, <2>3
  <2> HIDE DEF f
  <2>9. Writers(Top.io) \subseteq DOMAIN bufs
    BY <2>3 DEF IsIo
  <2>10. PipelineOK(f, DOMAIN bufs', sealed')
    BY <2>4, <2>5, <2>7, <2>8, <2>9 DEF PipelineOK
  <2>11. /\ FrameOK(f, DOMAIN bufs', sealed')
         /\ Makes(f) \subseteq DOMAIN bufs' \ DOMAIN bufs /\ Makes(Top) = {Top.out}
    BY <2>1, <2>4, <2>5, <2>8, <2>10 DEF FrameOK, Makes
  <2>12. Wired(stack', DOMAIN bufs', sealed')
    BY <2>1, <2>5, <2>8, <2>11, FrameReplaced
  <2>13. ctl'.at = "start" /\ ctl'.cmd \in Cmds /\ IsIo(ctl'.io, DOMAIN bufs', sealed')
    <3>1. /\ ctl'.at = "start" /\ ctl'.cmd \in Cmds
          /\ ctl'.io = Io(bufs[Top.out], out, Top.io.err)
      BY <2>1, <2>4 DEF Start
    <3>2. IsIo(Io(bufs[Top.out], out, Top.io.err), DOMAIN bufs', sealed')
      BY <2>1, <2>5, <2>6, <2>7 DEF IsIo, Writers, Io
    <3> QED
      BY <3>1, <3>2
  <2>14. sealed' \subseteq DOMAIN bufs'
    BY <1>1, <2>1, <2>3, <2>5
  <2> QED
    BY <2>2, <2>5, <2>12, <2>13, <2>14, WiringKept
<1>5. CASE EndPipeline
  <2>1. /\ Succeeded /\ stack # <<>> /\ stack' = Tail(stack) /\ last_exit' = ctl.res.code
        /\ bufs' = bufs /\ sealed' = sealed
        /\ \E code \in {0, 1, ctl.res.code} : ctl' = Return(Ok(code))
    BY <1>5 DEF EndPipeline, In
  <2>2. ctl'.at = "return" /\ ctl'.res.code \in DOMAIN Show
    BY <1>1, <2>1, StatusAssumption DEF Return, Ok, Result
  <2> QED
    BY <1>1, <2>1, <2>2, FrameLeft
<1> QED
  BY <1>3, <1>4, <1>5

\* The steps of a simple command.
LEMMA StepFacts ==
    ASSUME NEW c \in Cmds, Ast[c].kind = "simple"
    PROVE  /\ IsSeq(Steps(c)) /\ Len(Steps(c)) \in Nat
           /\ \A k \in 1..Len(Steps(c)) :
                 /\ Steps(c)[k].do = "assign" => Steps(c)[k].var \in Vars
                 /\ Steps(c)[k].word.kind = "subst" => Steps(c)[k].word.body \in Seq(Cmds)
<1> DEFINE steps == Steps(c)
<1>1. /\ IsSeq(steps)
      /\ \A k \in DOMAIN steps :
            /\ steps[k].do = "assign" => steps[k].var \in Vars
            /\ steps[k].word.kind = "subst" => steps[k].word.body \in Seq(Cmds)
  BY AstAssumption DEF IsSeq
<1> HIDE DEF steps
<1>2. Len(steps) \in Nat /\ DOMAIN steps = 1..Len(steps)
  BY <1>1, SeqFacts
<1> QED
  BY <1>1, <1>2 DEF steps

\* The words of a simple command.  A redirection writes to a new buffer, a word
\* that is taken from a buffer seals it.
LEMMA WordsWired ==
    ASSUME FrameInv,
           \/ StartSimple \/ ExpandWord \/ Substitute \/ TakeOutput
           \/ Assign \/ TakeName \/ TakeArg \/ RedirectIn \/ RedirectOut \/ RedirectDup
           \/ EndAssignments
    PROVE  WiringInv'
<1>1. /\ IsSeq(stack) /\ IsSeq(bufs) /\ sealed \subseteq DOMAIN bufs
      /\ last_exit \in DOMAIN Show /\ Wired(stack, DOMAIN bufs, sealed)
      /\ stack # <<>> =>
            /\ FrameOK(Top, DOMAIN bufs, sealed)
            /\ \A g \in Frames(Tail(stack)) : Makes(Top) \cap Held(g) = {}
            /\ Top.at = "capture" => Expanding(Head(Tail(stack)))
      /\ ctl.at = "start" =>
            stack # <<>> /\ ctl.cmd \in Cmds /\ IsIo(ctl.io, DOMAIN bufs, sealed)
      /\ ctl.at \in {"step", "word"} =>
            /\ stack # <<>> /\ Top.at = "simple" /\ ~Top.dispatched
            /\ SimpleOK(Top, DOMAIN bufs, sealed)
      /\ ctl.at = "word" => Expanding(Top)
  BY FrameFacts
<1>2. AtStep => /\ ctl.at = "step" /\ Expanding(Top)
                /\ ThisStep.word.kind = "subst" => ThisStep.word.body \in Seq(Cmds)
  <2> SUFFICES ASSUME AtStep
               PROVE  /\ ctl.at = "step" /\ Expanding(Top)
                      /\ ThisStep.word.kind = "subst" => ThisStep.word.body \in Seq(Cmds)
    OBVIOUS
  <2>1. ctl.at = "step" /\ Top.pc <= Len(Steps(Top.cmd))
    BY DEF AtStep, Step
  <2>2. /\ ~Top.dispatched /\ Top.cmd \in Cmds /\ Ast[Top.cmd].kind = "simple"
        /\ Top.pc \in Nat \ {0}
    BY <1>1, <2>1 DEF SimpleOK
  <2>3. Top.pc \in 1..Len(Steps(Top.cmd))
    BY <2>1, <2>2, StepFacts
  <2> QED
    BY <2>1, <2>2, <2>3, StepFacts DEF Expanding, ThisStep
<1>3. ctl.at = "word" /\ ThisStep.do = "assign" => ThisStep.var \in Vars
  <2>1. ctl.at = "word" => /\ Top.cmd \in Cmds /\ Ast[Top.cmd].kind = "simple"
                           /\ Top.pc \in 1..Len(Steps(Top.cmd))
    BY <1>1 DEF SimpleOK, Expanding
  <2> QED
    BY <2>1, StepFacts DEF ThisStep
\* A word is taken.
<1>4. ASSUME NEW f, Advance(f), f.at = "simple", SimpleOK(f, DOMAIN bufs', sealed),
             ~f.dispatched, ctl.at = "word",
             Makes(f) \subseteq Makes(Top) \cup (DOMAIN bufs' \ DOMAIN bufs),
             IsSeq(bufs'), DOMAIN bufs \subseteq DOMAIN bufs',
             sealed' = sealed, last_exit' = last_exit
      PROVE  WiringInv'
  <2> DEFINE g == [f EXCEPT !.pc = @ + 1]
  <2>1. Replace(g) /\ ctl'.at = "step"
    BY <1>4 DEF Advance, Step
  <2>2. /\ DOMAIN f = {"at", "cmd", "pc", "io", "saved", "words", "deferred", "dispatched"}
        /\ f.pc \in Nat \ {0}
    BY <1>4 DEF SimpleOK
  <2>3. /\ DOMAIN g = DOMAIN f /\ g.pc \in Nat \ {0} /\ g.at = "simple"
        /\ g.cmd = f.cmd /\ g.io = f.io /\ g.saved = f.saved /\ g.deferred = f.deferred
        /\ g.dispatched = f.dispatched
    BY <1>4, <2>2
  <2> HIDE DEF g
  <2>4. SimpleOK(g, DOMAIN bufs', sealed) /\ Makes(g) = Makes(f)
    BY <1>4, <2>3 DEF SimpleOK, Makes
  <2> QED
    BY <1>4, <2>1, <2>3, <2>4, SimpleRewired
<1>5. CASE StartSimple
  <2> DEFINE f == [at |-> "simple", cmd |-> ctl.cmd, pc |-> 1, io |-> ctl.io,
                   saved |-> <<>>, words |-> <<>>, deferred |-> <<>>,
                   dispatched |-> FALSE]
  <2>1. /\ ctl.at = "start" /\ Ast[ctl.cmd].kind = "simple" /\ stack' = <<f>> \o stack
        /\ ctl'.at = "step" /\ bufs' = bufs /\ sealed' = sealed /\ last_exit' = last_exit
    BY <1>5 DEF StartSimple, Step, shell, history
  <2>2. /\ DOMAIN f = {"at", "cmd", "pc", "io", "saved", "words", "deferred", "dispatched"}
        /\ f.at = "simple" /\ f.cmd = ctl.cmd /\ f.pc = 1 /\ f.io = ctl.io
        /\ f.saved = <<>> /\ f.deferred = <<>> /\ ~f.dispatched
    OBVIOUS
  <2> HIDE DEF f
  <2>3. IsSeq(<<>>) /\ DOMAIN <<>> = {}
    BY EmptySeq DEF IsSeq
  <2>4. SimpleOK(f, DOMAIN bufs, sealed)
    BY <1>1, <2>1, <2>2, <2>3 DEF SimpleOK
  <2>5. FrameOK(f, DOMAIN bufs, sealed) /\ Makes(f) = {}
    BY <2>2, <2>3, <2>4 DEF FrameOK, Makes
  <2>6. Wired(stack', DOMAIN bufs', sealed')
    BY <2>1, <2>2, <2>5, FramePushed
  <2>7. Head(stack') = f
    <3>1. GoodStack(stack) /\ "at" \in DOMAIN f /\ stack # <<>> /\ Fits(f, Head(stack))
      BY <2>1, <2>2 DEF FrameInv, IInv, StackInv, Fits, Command, Top
    <3> QED
      BY <2>1, <3>1, PushGood
  <2> QED
    BY <1>1, <2>1, <2>2, <2>6, <2>7, WiringKept
<1>6. CASE ExpandWord
  <2>1. /\ AtStep /\ stack' = stack /\ bufs' = bufs /\ sealed' = sealed
        /\ last_exit' = last_exit
    BY <1>6 DEF ExpandWord, history
  <2>2. ctl'.at = "word" \/ ctl' = Return(Err)
    BY <1>6 DEF ExpandWord, Word
  <2>3. ctl'.at = "word" \/ (ctl'.at = "return" /\ ctl'.res.kind = "err")
    BY <2>2 DEF Return, Err, Result
  <2> QED
    BY <1>2, <2>1, <2>3, FrameStays
<1>7. CASE Substitute
  <2> DEFINE out == Len(bufs) + 1
             f == [at |-> "capture", out |-> out]
             io == Io(<<>>, out, out + 1)
  <2>1. /\ AtStep /\ ThisStep.word.kind = "subst" /\ bufs' = bufs \o <<<<>>, <<>>>>
        /\ RunScript(ThisStep.word.body, io, <<f>> \o stack)
        /\ sealed' = sealed /\ last_exit' = last_exit
    BY <1>7 DEF Substitute, shell, history
  <2>2. /\ IsSeq(bufs') /\ DOMAIN bufs' = DOMAIN bufs \cup {out, out + 1}
        /\ {out, out + 1} \cap DOMAIN bufs = {}
    <3>1. Len(bufs) \in Nat /\ out + 1 = Len(bufs) + 2
      BY <1>1, SeqFacts
    <3> QED
      BY <1>1, <2>1, <3>1, AppendTwo
  <2> HIDE DEF out
  <2>3. /\ FrameOK(f, DOMAIN bufs', sealed) /\ Makes(f) \cap DOMAIN bufs = {}
        /\ "at" \in DOMAIN f /\ f.at = "capture"
    BY <2>2 DEF FrameOK, Makes
  <2>4. IsIo(io, DOMAIN bufs', sealed')
    BY <1>1, <2>1, <2>2 DEF IsIo, Io, Writers
  <2> HIDE DEF f, io
  <2>5. Wired(<<f>> \o stack, DOMAIN bufs', sealed')
    BY <1>1, <1>2, <2>1, <2>2, <2>3, FramePushed
  <2>6. IsSeq(<<f>> \o stack)
    <3>1. GoodStack(stack) /\ stack # <<>> /\ Head(stack).at = "simple"
      BY <1>1, <1>2, <2>1, FrameFacts DEF Top
    <3>2. Fits(f, Head(stack))
      BY <2>3, <3>1 DEF Fits, Command
    <3> QED
      BY <2>3, <3>1, <3>2, PushGood, GoodIsSeq
  <2>7. /\ Wired(stack', DOMAIN bufs', sealed')
        /\ \/ ctl' = Return(Ok(0)) /\ stack' = <<f>> \o stack
           \/ ctl'.at = "start" /\ ctl'.cmd \in Cmds /\ ctl'.io = io
    BY <1>2, <2>1, <2>4, <2>5, <2>6, RunScriptWired
  <2>8. \/ ctl'.at = "start" /\ ctl'.cmd \in Cmds /\ IsIo(ctl'.io, DOMAIN bufs', sealed')
        \/ ctl'.at = "return" /\ ctl'.res.code \in DOMAIN Show
    BY <2>4, <2>7, StatusAssumption DEF Return, Ok, Result
  <2>9. sealed' \subseteq DOMAIN bufs'
    BY <1>1, <2>1, <2>2
  <2> QED
    BY <1>1, <2>1, <2>2, <2>7, <2>8, <2>9, WiringKept
<1>8. CASE TakeOutput
  <2>1. /\ stack # <<>> /\ Top.at = "capture" /\ stack' = Tail(stack) /\ bufs' = bufs
        /\ sealed' = sealed \cup {Top.out} /\ last_exit' = last_exit /\ ctl'.at = "word"
    BY <1>8 DEF TakeOutput, In, Word, shell
  <2>2. Top.out \in DOMAIN bufs /\ Makes(Top) = {Top.out} /\ Expanding(Head(stack'))
    BY <1>1, <2>1 DEF FrameOK, Makes
  <2>3. \A g \in Frames(Tail(stack)) : Held(g) \cap (sealed' \ sealed) = {}
    BY <1>1, <2>1, <2>2
  <2> QED
    BY <1>1, <2>1, <2>2, <2>3, FrameLeft
<1>9. CASE Assign
  <2> DEFINE entry == [var |-> ThisStep.var, old |-> env[ThisStep.var]]
             f == [Top EXCEPT !.saved = Append(@, entry)]
  <2>1. /\ ctl.at = "word" /\ ThisStep.do = "assign" /\ bufs' = bufs /\ sealed' = sealed
        /\ last_exit' = last_exit
        /\ Advance(f) \/ Advance(Top)
    BY <1>9 DEF Assign, TakesWord, history
  <2>2. SimpleOK(Top, DOMAIN bufs, sealed) /\ Top.at = "simple" /\ ~Top.dispatched
    BY <1>1, <2>1
  <2>3. entry.var \in Vars
    BY <1>3, <2>1
  <2> HIDE DEF entry
  <2>4. /\ DOMAIN f = DOMAIN Top /\ f.saved = Append(Top.saved, entry) /\ f.at = "simple"
        /\ f.cmd = Top.cmd /\ f.pc = Top.pc /\ f.io = Top.io
        /\ f.deferred = Top.deferred /\ f.dispatched = Top.dispatched
    BY <2>2 DEF SimpleOK
  <2> HIDE DEF f
  <2>5. IsSeq(f.saved) /\ \A k \in DOMAIN f.saved : f.saved[k].var \in Vars
    BY <2>2, <2>3, <2>4, AppendIsSeq DEF SimpleOK
  <2>6. SimpleOK(f, DOMAIN bufs, sealed) /\ Makes(f) = Makes(Top)
    BY <2>2, <2>4, <2>5 DEF SimpleOK, Makes
  <2> QED
    BY <1>1, <1>4, <2>1, <2>2, <2>4, <2>6
<1>10. CASE TakeName \/ TakeArg
  <2>1. /\ ctl.at = "word" /\ bufs' = bufs /\ sealed' = sealed /\ last_exit' = last_exit
        /\ \E ws : Advance([Top EXCEPT !.words = ws])
    BY <1>10 DEF TakeName, TakeArg, TakesWord, shell, history
  <2>2. PICK ws : Advance([Top EXCEPT !.words = ws])
    BY <2>1
  <2> DEFINE f == [Top EXCEPT !.words = ws]
  <2>3. SimpleOK(Top, DOMAIN bufs, sealed) /\ Top.at = "simple" /\ ~Top.dispatched
    BY <1>1, <2>1
  <2>4. /\ DOMAIN f = DOMAIN Top /\ f.saved = Top.saved /\ f.at = "simple"
        /\ f.cmd = Top.cmd /\ f.pc = Top.pc /\ f.io = Top.io
        /\ f.deferred = Top.deferred /\ f.dispatched = Top.dispatched /\ Advance(f)
    BY <2>2, <2>3 DEF SimpleOK
  <2> HIDE DEF f
  <2>5. SimpleOK(f, DOMAIN bufs, sealed) /\ Makes(f) = Makes(Top)
    BY <2>3, <2>4 DEF SimpleOK, Makes
  <2> QED
    BY <1>1, <1>4, <2>1, <2>3, <2>4, <2>5
<1>11. ASSUME NEW io, ctl.at = "word", Advance([Top EXCEPT !.io = io]),
              IsIo(io, DOMAIN bufs, sealed),
              bufs' = bufs, sealed' = sealed, last_exit' = last_exit
       PROVE  WiringInv'
  <2> DEFINE f == [Top EXCEPT !.io = io]
  <2>1. SimpleOK(Top, DOMAIN bufs, sealed) /\ Top.at = "simple" /\ ~Top.dispatched
    BY <1>1, <1>11
  <2>2. /\ DOMAIN f = DOMAIN Top /\ f.saved = Top.saved /\ f.at = "simple"
        /\ f.cmd = Top.cmd /\ f.pc = Top.pc /\ f.io = io
        /\ f.deferred = Top.deferred /\ f.dispatched = Top.dispatched /\ Advance(f)
    BY <1>11, <2>1 DEF SimpleOK
  <2> HIDE DEF f
  <2>3. SimpleOK(f, DOMAIN bufs, sealed) /\ Makes(f) = Makes(Top)
    BY <1>11, <2>1, <2>2 DEF SimpleOK, Makes
  <2> QED
    BY <1>1, <1>4, <1>11, <2>1, <2>2, <2>3
<1>12. ctl.at = "word" => /\ DOMAIN Top.io = {"in", "out", "err"}
                          /\ Writers(Top.io) \subseteq DOMAIN bufs \ sealed
  BY <1>1 DEF SimpleOK, IsIo
<1>13. CASE RedirectIn
  <2>1. /\ ctl.at = "word" /\ bufs' = bufs /\ sealed' = sealed /\ last_exit' = last_exit
        /\ \/ \E text : Advance([Top EXCEPT !.io.in = text])
           \/ ctl' = Return(Err) /\ stack' = stack
    BY <1>13 DEF RedirectIn, TakesWord, shell, history
  <2>2. CASE ctl' = Return(Err) /\ stack' = stack
    <3>1. ctl'.at = "return" /\ ctl'.res.kind = "err"
      BY <2>2 DEF Return, Err, Result
    <3> QED
      BY <2>1, <2>2, <3>1, FrameStays
  <2>3. CASE \E text : Advance([Top EXCEPT !.io.in = text])
    <3>1. PICK text : Advance([Top EXCEPT !.io.in = text])
      BY <2>3
    <3> DEFINE io == [Top.io EXCEPT !.in = text]
    <3>2. Advance([Top EXCEPT !.io = io])
      <4>1. [Top EXCEPT !.io.in = text] = [Top EXCEPT !.io = io]
        OBVIOUS
      <4> QED
        BY <3>1, <4>1
    <3>3. IsIo(io, DOMAIN bufs, sealed)
      BY <1>12, <2>1 DEF IsIo, Writers
    <3> HIDE DEF io
    <3> QED
      BY <1>11, <2>1, <3>2, <3>3
  <2> QED
    BY <2>1, <2>2, <2>3
<1>14. CASE RedirectDup
  <2> DEFINE io == IF ThisStep.fd = 2 THEN [Top.io EXCEPT !.err = Top.io.out]
                   ELSE [Top.io EXCEPT !.out = Top.io.err]
  <2>1. /\ ctl.at = "word" /\ bufs' = bufs /\ sealed' = sealed /\ last_exit' = last_exit
        /\ Advance([Top EXCEPT !.io = IF ThisStep.fd = 2 THEN [@ EXCEPT !.err = Top.io.out]
                                      ELSE [@ EXCEPT !.out = Top.io.err]])
    BY <1>14 DEF RedirectDup, TakesWord, shell, history
  <2>2. Advance([Top EXCEPT !.io = io])
    BY <2>1
  <2>3. IsIo(io, DOMAIN bufs, sealed)
    BY <1>12, <2>1 DEF IsIo, Writers
  <2> HIDE DEF io
  <2> QED
    BY <1>11, <2>1, <2>2, <2>3
<1>15. CASE RedirectOut
  <2> DEFINE buf == Len(bufs) + 1
             io == [Top.io EXCEPT
                      !.out = IF ThisStep.do = "both" \/ ThisStep.fd = 1 THEN buf ELSE @,
                      !.err = IF ThisStep.do = "both" \/ ThisStep.fd = 2 THEN buf ELSE @]
             write == [path |-> Path(ctl.text), buf |-> buf, append |-> ThisStep.do = "append"]
             f == [Top EXCEPT !.io = io, !.deferred = Append(@, write)]
  <2>1. /\ ctl.at = "word" /\ bufs' = Append(bufs, <<>>) /\ sealed' = sealed
        /\ last_exit' = last_exit /\ Advance(f)
    BY <1>15 DEF RedirectOut, TakesWord, shell, history
  <2>2. SimpleOK(Top, DOMAIN bufs, sealed) /\ Top.at = "simple" /\ ~Top.dispatched
    BY <1>1, <2>1
  <2>3. /\ IsSeq(bufs') /\ DOMAIN bufs' = DOMAIN bufs \cup {buf} /\ buf \notin DOMAIN bufs
    BY <1>1, <2>1, AppendIsSeq
  <2>4. write.buf = buf
    OBVIOUS
  <2> HIDE DEF buf, write
  <2>5. IsIo(io, DOMAIN bufs', sealed)
    <3>1. DOMAIN io = {"in", "out", "err"}
      BY <1>12, <2>1
    <3>2. io.out \in {Top.io.out, buf} /\ io.err \in {Top.io.err, buf}
      BY <1>12, <2>1
    <3> QED
      BY <1>1, <1>12, <2>1, <2>3, <3>1, <3>2 DEF IsIo, Writers
  <2> HIDE DEF io
  <2>6. /\ DOMAIN f = DOMAIN Top /\ f.saved = Top.saved /\ f.at = "simple"
        /\ f.cmd = Top.cmd /\ f.pc = Top.pc /\ f.io = io
        /\ f.deferred = Append(Top.deferred, write) /\ f.dispatched = Top.dispatched
    BY <2>2 DEF SimpleOK
  <2> HIDE DEF f
  <2>7. /\ IsSeq(f.deferred)
        /\ \A k \in DOMAIN f.deferred :
              \/ f.deferred[k].buf = buf
              \/ k \in DOMAIN Top.deferred /\ f.deferred[k].buf = Top.deferred[k].buf
    BY <2>2, <2>4, <2>6, AppendIsSeq DEF SimpleOK
  <2>8. SimpleOK(f, DOMAIN bufs', sealed)
    BY <2>2, <2>3, <2>5, <2>6, <2>7 DEF SimpleOK
  <2>9. Makes(f) \subseteq Makes(Top) \cup {buf}
    BY <2>2, <2>6, <2>7 DEF Makes
  <2> QED
    BY <1>4, <2>1, <2>2, <2>3, <2>6, <2>8, <2>9
<1>16. CASE EndAssignments
  <2>1. /\ ctl.at = "step" /\ stack' = Tail(stack) /\ ctl' = Return(Ok(0))
        /\ bufs' = bufs /\ sealed' = sealed /\ last_exit' = last_exit
    BY <1>16 DEF EndAssignments, Step, shell
  <2>2. ctl'.at = "return" /\ ctl'.res.code \in DOMAIN Show
    BY <2>1, StatusAssumption DEF Return, Ok, Result
  <2> QED
    BY <1>1, <2>1, <2>2, FrameLeft
<1> QED
  BY <1>5, <1>6, <1>7, <1>8, <1>9, <1>10, <1>13, <1>14, <1>15, <1>16

\* What a command writes goes to buffers that are there and not sealed.
LEMMA WrittenFacts ==
    ASSUME FrameInv, ctl.at = "step", NEW out, NEW err
    PROVE  /\ IsSeq(Written(out, err)) /\ DOMAIN Written(out, err) = DOMAIN bufs
           /\ \A b \in sealed : Written(out, err)[b] = bufs[b]
<1>1. IsSeq(bufs) /\ sealed \subseteq DOMAIN bufs /\ SimpleOK(Top, DOMAIN bufs, sealed)
  BY FrameFacts
<1>2. {Top.io.out, Top.io.err} \subseteq DOMAIN bufs \ sealed
  BY <1>1 DEF SimpleOK, IsIo, Writers
<1> DEFINE t == Written(out, err)
<1>3. t = [k \in DOMAIN bufs |-> t[k]] /\ \A b \in sealed : t[b] = bufs[b]
  BY <1>1, <1>2 DEF Written
<1> HIDE DEF t
<1>4. IsSeq(t) /\ DOMAIN t = DOMAIN bufs
  BY <1>1, <1>3, SameDomainIsSeq
<1> QED
  BY <1>3, <1>4 DEF t

\* Dispatch, and the end of a simple command.
LEMMA DispatchWired ==
    ASSUME FrameInv,
           \/ RunExit \/ RunSource \/ RunXargs \/ RunProgram \/ NotFound
           \/ FinishSimple
    PROVE  WiringInv'
<1>1. /\ IsSeq(bufs) /\ sealed \subseteq DOMAIN bufs /\ last_exit \in DOMAIN Show
      /\ stack # <<>> =>
            /\ FrameOK(Top, DOMAIN bufs, sealed)
            /\ \A g \in Frames(Tail(stack)) : Makes(Top) \cap Held(g) = {}
      /\ ctl.at = "step" =>
            /\ stack # <<>> /\ Top.at = "simple" /\ ~Top.dispatched
            /\ SimpleOK(Top, DOMAIN bufs, sealed)
      /\ Returning => ctl.res.kind = "err" \/ ctl.res.code \in DOMAIN Show
  BY FrameFacts
<1>2. ctl.at = "step" =>
         /\ Dispatched.at = "simple" /\ SimpleOK(Dispatched, DOMAIN bufs, sealed)
         /\ Makes(Dispatched) = Makes(Top) /\ "at" \in DOMAIN Dispatched
  <2> SUFFICES ASSUME ctl.at = "step"
               PROVE  /\ Dispatched.at = "simple" /\ SimpleOK(Dispatched, DOMAIN bufs, sealed)
                      /\ Makes(Dispatched) = Makes(Top) /\ "at" \in DOMAIN Dispatched
    OBVIOUS
  <2> DEFINE f == Dispatched
  <2>1. Top.at = "simple" /\ SimpleOK(Top, DOMAIN bufs, sealed)
    BY <1>1
  <2>2. /\ DOMAIN f = DOMAIN Top /\ f.saved = Top.saved /\ f.at = "simple"
        /\ f.cmd = Top.cmd /\ f.pc = Top.pc /\ f.io = Top.io /\ f.deferred = Top.deferred
    BY <2>1 DEF SimpleOK, Dispatched
  <2> HIDE DEF f
  <2>3. SimpleOK(f, DOMAIN bufs, sealed) /\ Makes(f) = Makes(Top) /\ "at" \in DOMAIN f
    BY <2>1, <2>2 DEF SimpleOK, Makes
  <2> QED
    BY <2>2, <2>3 DEF f
\* The command has run.
<1>3. ASSUME ctl.at = "step", Replace(Dispatched), IsSeq(bufs'), DOMAIN bufs' = DOMAIN bufs,
             sealed' = sealed, last_exit' = last_exit, ctl'.at = "return",
             ctl'.res.kind = "err" \/ ctl'.res.code \in DOMAIN Show
      PROVE  WiringInv'
  BY <1>2, <1>3, SimpleRewired
<1>4. CASE RunExit
  <2>1. /\ ctl.at = "step" /\ Replace(Dispatched) /\ bufs' = bufs /\ sealed' = sealed
        /\ last_exit' = last_exit /\ \E code \in DOMAIN Show : ctl' = Return(Exit(code))
    BY <1>4 DEF RunExit, Dispatching, Step, shell, history
  <2>2. ctl'.at = "return" /\ ctl'.res.code \in DOMAIN Show
    BY <2>1 DEF Return, Exit, Result
  <2> QED
    BY <1>1, <1>3, <2>1, <2>2
<1>5. CASE RunSource
  <2>1. ctl.at = "step" /\ sealed' = sealed /\ last_exit' = last_exit
    BY <1>5 DEF RunSource, Dispatching, Step, shell, history
  <2>2. CASE bufs' = Written(<<>>, <<Message>>) /\ ctl' = Return(Ok(1)) /\ Replace(Dispatched)
    <3>1. ctl'.at = "return" /\ ctl'.res.code \in DOMAIN Show
      BY <2>2, StatusAssumption DEF Return, Ok, Result
    <3> QED
      BY <1>3, <2>1, <2>2, <3>1, WrittenFacts
  <2>3. CASE /\ \E text \in DOMAIN Parse :
                   RunScript(Parse[text], Top.io, <<Dispatched>> \o Tail(stack))
             /\ bufs' = bufs
    <3>1. PICK text \in DOMAIN Parse :
                   RunScript(Parse[text], Top.io, <<Dispatched>> \o Tail(stack))
      BY <2>3
    <3> DEFINE below == <<Dispatched>> \o Tail(stack)
    <3>2. Parse[text] \in Seq(Cmds) /\ IsIo(Top.io, DOMAIN bufs', sealed')
      BY <1>1, <2>1, <2>3, AstAssumption DEF SimpleOK
    <3>3. Wired(below, DOMAIN bufs', sealed')
      BY <1>1, <1>2, <2>1, <2>3, FrameReplaced DEF FrameOK
    <3>4. IsSeq(below)
      <4>1. GoodStack(stack) /\ stack # <<>> /\ Dispatched.at = Head(stack).at
        BY <1>1, <1>2, <2>1, FrameFacts DEF Top
      <4> QED
        BY <1>2, <2>1, <4>1, ReplaceGood, GoodIsSeq
    <3>5. /\ Wired(stack', DOMAIN bufs', sealed')
          /\ \/ ctl' = Return(Ok(0)) /\ stack' = below
             \/ ctl'.at = "start" /\ ctl'.cmd \in Cmds /\ ctl'.io = Top.io
      <4>1. RunScript(Parse[text], Top.io, below)
        BY <3>1
      <4> HIDE DEF below
      <4> QED
        BY <3>2, <3>3, <3>4, <4>1, RunScriptWired
    <3>6. \/ ctl'.at = "start" /\ ctl'.cmd \in Cmds /\ IsIo(ctl'.io, DOMAIN bufs', sealed')
          \/ ctl'.at = "return" /\ ctl'.res.code \in DOMAIN Show
      BY <3>2, <3>5, StatusAssumption DEF Return, Ok, Result
    <3> QED
      BY <1>1, <2>1, <2>3, <3>5, <3>6, WiringKept
  <2> QED
    BY <1>5, <2>2, <2>3 DEF RunSource
<1>6. CASE RunXargs
  <2>1. /\ ctl.at = "step" /\ bufs' = bufs /\ sealed' = sealed /\ last_exit' = last_exit
    BY <1>6 DEF RunXargs, Dispatching, Step, shell, history
  <2>2. CASE Replace(Dispatched) /\ ctl' = Return(Ok(0))
    <3>1. ctl'.at = "return" /\ ctl'.res.code \in DOMAIN Show
      BY <2>2, StatusAssumption DEF Return, Ok, Result
    <3> QED
      BY <1>1, <1>3, <2>1, <2>2, <3>1
  <2>3. CASE ctl' = ctl /\ \E ws : Replace([Top EXCEPT !.words = ws, !.io.in = <<>>])
    <3>1. PICK ws : Replace([Top EXCEPT !.words = ws, !.io.in = <<>>])
      BY <2>3
    <3> DEFINE f == [Top EXCEPT !.words = ws, !.io.in = <<>>]
    <3>2. Top.at = "simple" /\ ~Top.dispatched /\ SimpleOK(Top, DOMAIN bufs, sealed)
      BY <1>1, <2>1
    <3>3. /\ DOMAIN f = DOMAIN Top /\ f.saved = Top.saved /\ f.at = "simple"
          /\ f.cmd = Top.cmd /\ f.pc = Top.pc /\ f.deferred = Top.deferred
          /\ f.dispatched = Top.dispatched /\ f.io = [Top.io EXCEPT !.in = <<>>]
      BY <3>2 DEF SimpleOK
    <3>4. IsIo([Top.io EXCEPT !.in = <<>>], DOMAIN bufs, sealed)
      BY <3>2 DEF SimpleOK, IsIo, Writers
    <3>5. Replace(f)
      BY <3>1
    <3> HIDE DEF f
    <3>6. SimpleOK(f, DOMAIN bufs, sealed) /\ Makes(f) = Makes(Top)
      BY <3>2, <3>3, <3>4 DEF SimpleOK, Makes
    <3> QED
      BY <1>1, <2>1, <2>3, <3>2, <3>3, <3>5, <3>6, SimpleRewired
  <2> QED
    BY <1>6, <2>2, <2>3 DEF RunXargs
<1>7. CASE RunProgram
  <2>1. /\ ctl.at = "step" /\ Replace(Dispatched) /\ sealed' = sealed
        /\ last_exit' = last_exit /\ Name \in DOMAIN Programs
        /\ \E o \in Programs[Name] :
              /\ bufs' = Written(o.out \o (IF o.copies THEN Top.io.in ELSE <<>>), o.err)
              /\ ctl' = Return(o.res)
    BY <1>7 DEF RunProgram, Dispatching, Step, history
  <2>2. PICK o \in Programs[Name] :
              /\ bufs' = Written(o.out \o (IF o.copies THEN Top.io.in ELSE <<>>), o.err)
              /\ ctl' = Return(o.res)
    BY <2>1
  <2>3. /\ ctl'.at = "return"
        /\ ctl'.res.kind = "err" \/ ctl'.res.code \in DOMAIN Show
    BY <2>1, <2>2, ProgramsAssumption DEF Return
  <2>4. IsSeq(bufs') /\ DOMAIN bufs' = DOMAIN bufs
    BY <2>1, <2>2, WrittenFacts
  <2> QED
    BY <1>3, <2>1, <2>3, <2>4
<1>8. CASE NotFound
  <2>1. /\ ctl.at = "step" /\ Replace(Dispatched) /\ sealed' = sealed
        /\ last_exit' = last_exit /\ bufs' = Written(<<>>, <<Message>>)
        /\ \E code \in {126, 127} : ctl' = Return(Ok(code))
    BY <1>8 DEF NotFound, Dispatching, Step, shell, history
  <2>2. ctl'.at = "return" /\ ctl'.res.code \in DOMAIN Show
    BY <2>1, StatusAssumption DEF Return, Ok, Result
  <2> QED
    BY <1>3, <2>1, <2>2, WrittenFacts
<1>9. CASE FinishSimple
  <2>1. /\ Returning /\ stack # <<>> /\ Top.at = "simple" /\ stack' = Tail(stack)
        /\ sealed' = sealed \cup {Top.deferred[k].buf : k \in DOMAIN Top.deferred}
        /\ bufs' = bufs /\ last_exit' = last_exit
        /\ ctl' = ctl \/ ctl' = Return(Err)
    BY <1>9 DEF FinishSimple, In
  <2>2. /\ {Top.deferred[k].buf : k \in DOMAIN Top.deferred} = Makes(Top)
        /\ Makes(Top) \subseteq DOMAIN bufs
    BY <1>1, <2>1 DEF FrameOK, SimpleOK, Makes
  <2>3. sealed' \subseteq DOMAIN bufs
        /\ \A g \in Frames(Tail(stack)) : Held(g) \cap (sealed' \ sealed) = {}
    BY <1>1, <2>1, <2>2
  <2>4. /\ ctl'.at = "return"
        /\ ctl'.res.kind = "err" \/ ctl'.res.code \in DOMAIN Show
    BY <1>1, <2>1 DEF Returning, Return, Err, Result
  <2> QED
    BY <1>1, <2>1, <2>3, <2>4, FrameLeft
<1> QED
  BY <1>4, <1>5, <1>6, <1>7, <1>8, <1>9

LEMMA StepsKeepFrames == FrameInv /\ [Next]_vars => FrameInv'
<1> SUFFICES ASSUME FrameInv, [Next]_vars
             PROVE  WiringInv'
  BY StepsKeep DEF FrameInv
<1>1. CASE UNCHANGED vars
  BY <1>1 DEF FrameInv, WiringInv, CtlOK, vars, shell, history, Top
<1>2. CASE Next
  BY <1>2, ExecsWired, ListsWired, PipelinesWired, WordsWired, DispatchWired
     DEF Next, Engine
<1> QED
  BY <1>1, <1>2
-----------------------------------------------------------------------------
\* The writers every running function holds exist, an idle engine has neither frames
\* nor buffers, the status can be shown, and a step of a simple command is taken for
\* one that has not been dispatched (exec.rs:92-213).
THEOREM TypeKept == Spec => []TypeOK
<1>1. FrameInv => TypeOK
  <2> SUFFICES ASSUME FrameInv
               PROVE  TypeOK
    OBVIOUS
  <2>1. /\ last_exit \in DOMAIN Show /\ Wired(stack, DOMAIN bufs, sealed)
        /\ ctl.at = "idle" => stack = <<>> /\ bufs = <<>> /\ sealed = {}
        /\ ctl.at = "start" => IsIo(ctl.io, DOMAIN bufs, sealed)
        /\ ctl.at \in {"step", "word"} => stack # <<>> /\ Top.at = "simple" /\ ~Top.dispatched
    BY FrameFacts
  <2>2. ASSUME NEW k \in DOMAIN stack
        PROVE  /\ stack[k].at \in {"script", "and", "or", "pipeline", "simple"} =>
                      Writers(stack[k].io) \subseteq DOMAIN bufs
               /\ stack[k].at \in {"pipeline", "capture"} => stack[k].out \in DOMAIN bufs
    <3>1. FrameOK(stack[k], DOMAIN bufs, sealed)
      BY <2>1 DEF Wired, Frames
    <3> QED
      BY <3>1 DEF FrameOK, SimpleOK, PipelineOK, IsIo
  <2> QED
    BY <2>1, <2>2 DEF TypeOK, In, Idle, IsIo
<1> QED
  BY StartIsWired, StepsKeepFrames, <1>1, PTL DEF Spec

\* Buffers grow at the end, or take what the running command writes.
LEMMA SealedStay ==
    ASSUME FrameInv, [Next]_vars, NEW b \in sealed, b \in sealed'
    PROVE  bufs'[b] = bufs[b]
<1>1. IsSeq(bufs) /\ b \in DOMAIN bufs
  BY FrameFacts
<1>2. ASSUME NEW e, bufs' = Append(bufs, e)
      PROVE  bufs'[b] = bufs[b]
  BY <1>1, <1>2, AppendIsSeq
<1>3. ASSUME NEW e, NEW f, bufs' = bufs \o <<e, f>>
      PROVE  bufs'[b] = bufs[b]
  BY <1>1, <1>3, AppendTwo
<1>4. ASSUME NEW out, NEW err, ctl.at = "step", bufs' = Written(out, err)
      PROVE  bufs'[b] = bufs[b]
  BY <1>4, WrittenFacts
<1>5. CASE UNCHANGED vars
  BY <1>5 DEF vars
<1>6. ASSUME NEW script \in Scripts, NEW in \in Inputs, StartExec(script, in)
      PROVE  bufs'[b] = bufs[b]
  <2>1. sealed = {}
    BY <1>6, FrameFacts DEF StartExec, Idle
  <2> QED
    BY <2>1
<1>7. CASE FinishExec
  BY <1>7 DEF FinishExec
<1>8. CASE StartPipeline \/ NextStage
  <2>1. bufs' = bufs \/ bufs' = Append(bufs, <<>>)
    BY <1>8 DEF StartPipeline, NextStage
  <2> QED
    BY <1>2, <2>1
<1>9. CASE RedirectOut
  BY <1>2, <1>9 DEF RedirectOut
<1>10. CASE Substitute
  BY <1>3, <1>10 DEF Substitute
<1>11. CASE RunSource \/ RunProgram \/ NotFound
  <2>1. ctl.at = "step"
    BY <1>11 DEF RunSource, RunProgram, NotFound, Dispatching, Step
  <2>2. CASE RunSource
    <3>1. bufs' = bufs \/ bufs' = Written(<<>>, <<Message>>)
      BY <2>2 DEF RunSource
    <3> QED
      BY <1>4, <2>1, <3>1
  <2>3. CASE RunProgram
    <3>1. \E o \in Programs[Name] :
             bufs' = Written(o.out \o (IF o.copies THEN Top.io.in ELSE <<>>), o.err)
      BY <2>3 DEF RunProgram
    <3> QED
      BY <1>4, <2>1, <3>1
  <2>4. CASE NotFound
    <3>1. bufs' = Written(<<>>, <<Message>>)
      BY <2>4 DEF NotFound
    <3> QED
      BY <1>4, <2>1, <3>1
  <2> QED
    BY <1>11, <2>2, <2>3, <2>4
<1>12. CASE \/ Unwind \/ NextCommand \/ StartAndOr \/ TakeRight \/ StartBackground
            \/ StartGroup \/ EndGroup \/ StartSubshell \/ EndSubshell \/ EndPipeline
  BY <1>12 DEF Unwind, NextCommand, StartAndOr, TakeRight, StartBackground, StartGroup,
               EndGroup, StartSubshell, EndSubshell, EndPipeline
<1>13. CASE \/ StartSimple \/ ExpandWord \/ TakeOutput \/ Assign \/ TakeName \/ TakeArg
            \/ RedirectIn \/ RedirectDup \/ EndAssignments
            \/ RunExit \/ RunXargs \/ FinishSimple
  BY <1>13 DEF StartSimple, ExpandWord, TakeOutput, Assign, TakeName, TakeArg, RedirectIn,
               RedirectDup, EndAssignments, RunExit, RunXargs, FinishSimple
<1> QED
  BY <1>5, <1>6, <1>7, <1>8, <1>9, <1>10, <1>11, <1>12, <1>13 DEF Next, Engine

\* No output is lost behind its reader: a buffer that a pipe, a file or a word has
\* been read from is written no more, however deep the frames that once held its
\* writers lie (exec.rs:41, 135, 199-210).
THEOREM SealedKept == Spec => SealedIsFinal
<1>1. FrameInv /\ [Next]_vars =>
        [\A b \in sealed : b \in sealed' => bufs'[b] = bufs[b]]_vars
  BY SealedStay
<1> QED
  BY StartIsWired, StepsKeepFrames, <1>1, PTL DEF Spec, SealedIsFinal

\* Only the end of a dispatched simple command takes its frame off the stack.
LEMMA OnlyFinishFinishes ==
    ASSUME FrameInv, [Next]_vars, Finishes
    PROVE  FinishSimple
<1>1. /\ Returning /\ stack # <<>> /\ Top.at = "simple" /\ Top.dispatched
      /\ stack' = Tail(stack) /\ stack' # stack
  BY FrameFacts DEF Finishes, In
<1>2. ~UNCHANGED vars
  BY <1>1 DEF vars
<1>3. ctl.at = "return" /\ ctl # Step
  BY <1>1 DEF Returning, Step
<1>4. ~\E script \in Scripts, in \in Inputs : StartExec(script, in)
  BY <1>3 DEF StartExec, Idle
<1>5. ~(FinishExec \/ Unwind)
  BY <1>1 DEF FinishExec, Unwind, In
<1>6. ~(\/ NextCommand \/ StartAndOr \/ TakeRight \/ StartBackground
        \/ StartGroup \/ EndGroup \/ StartSubshell \/ EndSubshell
        \/ StartPipeline \/ NextStage \/ EndPipeline \/ StartSimple \/ TakeOutput)
  BY <1>1, <1>3 DEF NextCommand, StartAndOr, TakeRight, StartBackground, StartGroup,
        EndGroup, StartSubshell, EndSubshell, StartPipeline, NextStage, EndPipeline,
        StartSimple, TakeOutput, In
<1>7. ~(\/ ExpandWord \/ Substitute \/ Assign \/ TakeName \/ TakeArg \/ RedirectIn
        \/ RedirectOut \/ RedirectDup \/ EndAssignments
        \/ RunExit \/ RunSource \/ RunXargs \/ RunProgram \/ NotFound)
  BY <1>3 DEF ExpandWord, Substitute, AtStep, Assign, TakeName, TakeArg, RedirectIn,
        RedirectOut, RedirectDup, TakesWord, EndAssignments, RunExit, RunSource, RunXargs,
        RunProgram, NotFound, Dispatching
<1> QED
  BY <1>2, <1>4, <1>5, <1>6, <1>7 DEF Next, Engine

\* What is put back: the old value of a variable that was assigned once.
LEMMA RestoredFacts ==
    ASSUME NEW saved, IsSeq(saved), \A k \in DOMAIN saved : saved[k].var \in Vars,
           NEW k \in DOMAIN saved,
           \A j \in DOMAIN saved : saved[j].var = saved[k].var => j = k
    PROVE  Restored(saved)[saved[k].var] = saved[k].old
<1> DEFINE v == saved[k].var
           Hindmost(i) == saved[i].var = v /\ \A j \in DOMAIN saved : saved[j].var = v => j <= i
           last == CHOOSE i \in DOMAIN saved : Hindmost(i)
<1>1. k \in Nat /\ v \in Vars
  BY SeqFacts
<1>2. Hindmost(k)
  BY <1>1
<1>3. last \in DOMAIN saved /\ Hindmost(last)
  BY <1>2
<1>4. last = k
  BY <1>3
<1>5. Restored(saved)[v] = saved[last].old
  BY <1>1 DEF Restored
<1> QED
  BY <1>4, <1>5

\* A variable assigned once before a command has its old value after it, whatever the
\* command does and however it ends, unless a redirection of the command cannot be
\* written (exec.rs:154-155, 199-213).
THEOREM ScopedKept == Spec => ScopedRestored
<1> DEFINE A == Finishes /\ ~FlushFails =>
                  \A k \in DOMAIN Top.saved :
                     (\A j \in DOMAIN Top.saved : Top.saved[j].var = Top.saved[k].var => j = k)
                        => env'[Top.saved[k].var] = Top.saved[k].old
<1>1. FrameInv /\ [Next]_vars => [A]_vars
  <2> SUFFICES ASSUME FrameInv, [Next]_vars, Finishes, ~FlushFails,
                      NEW k \in DOMAIN Top.saved,
                      \A j \in DOMAIN Top.saved :
                         Top.saved[j].var = Top.saved[k].var => j = k
               PROVE  env'[Top.saved[k].var] = Top.saved[k].old
    OBVIOUS
  <2>1. FinishSimple
    BY OnlyFinishFinishes
  <2>2. env' = Restored(Top.saved)
    BY <2>1 DEF FinishSimple, FlushFails
  <2>3. IsSeq(Top.saved) /\ \A j \in DOMAIN Top.saved : Top.saved[j].var \in Vars
    BY <2>1, FrameFacts DEF FinishSimple, In, FrameOK, SimpleOK
  <2>4. Restored(Top.saved)[Top.saved[k].var] = Top.saved[k].old
    BY <2>3, RestoredFacts
  <2> QED
    BY <2>2, <2>4
<1> QED
  BY StartIsWired, StepsKeepFrames, <1>1, PTL DEF Spec, ScopedRestored
-----------------------------------------------------------------------------
(***************************************************************************)
(* What the deferred writes leave in the files: by induction over them.    *)
(***************************************************************************)
Flushing == INSTANCE FoldProofs WITH Op <- FlushNext

LEMMA FlushSteps ==
    ASSUME NEW d, IsSeq(d)
    PROVE  \E o : /\ o[0] = [ok |-> TRUE, files |-> files]
                  /\ \A k \in 1..Len(d) : o[k] = FlushNext(o[k - 1], d[k])
                  /\ Flush(d) = o[Len(d)]
<1> DEFINE base == [ok |-> TRUE, files |-> files]
<1>1. Len(d) \in Nat /\ DOMAIN d = 1..Len(d)
  BY SeqFacts
<1>2. Flush(d) = Flushing!Fold(base, d)
  BY DEF Flush, FoldLeft, MapThenFoldSet, Max, Flushing!Fold, Flushing!FoldLeft,
         Flushing!MapThenFoldSet, Flushing!Max
<1> HIDE DEF base
<1>3. \E o : /\ o[0] = base
             /\ \A k \in 1..Len(d) : o[k] = FlushNext(o[k - 1], d[k])
             /\ Flushing!Fold(base, d) = o[Len(d)]
  BY <1>1, Flushing!FoldSteps
<1> QED
  BY <1>2, <1>3 DEF base

\* What the first i writes leave: those up to the first that fails are done.
Done(d, i) == {k \in 1..i : \A j \in 1..k : d[j].path[2] \notin ReadOnly}
Before(p) == IF p \in DOMAIN files THEN files[p] ELSE <<>>
Stored(d, i, o) ==
    /\ DOMAIN o = {"ok", "files"}
    /\ o.ok <=> Done(d, i) = 1..i
    /\ \A k \in Done(d, i) :
          /\ d[k].path \in DOMAIN o.files
          /\ ~d[k].append /\ (\A j \in Done(d, i) : j > k => d[j].path # d[k].path) =>
                o.files[d[k].path] = bufs[d[k].buf]
          /\ /\ d[k].append /\ d[k].path[2] \notin Unreadable
             /\ \A j \in Done(d, i) \ {k} : d[j].path # d[k].path
             => o.files[d[k].path] = Before(d[k].path) \o bufs[d[k].buf]
    /\ \A p : (\A k \in Done(d, i) : d[k].path # p) =>
                 /\ p \in DOMAIN o.files <=> p \in DOMAIN files
                 /\ p \in DOMAIN files => o.files[p] = files[p]

LEMMA StoredNext ==
    ASSUME NEW d, NEW i \in Nat, NEW o, Stored(d, i, o)
    PROVE  Stored(d, i + 1, FlushNext(o, d[i + 1]))
<1> DEFINE n == i + 1
           q == FlushNext(o, d[n])
<1>1. /\ Done(d, i) \subseteq 1..i /\ Done(d, n) \subseteq 1..n
      /\ 1..n = 1..i \cup {n} /\ n \notin 1..i
  BY DEF Done
<1>2. Done(d, n) = IF n \in Done(d, n) THEN Done(d, i) \cup {n} ELSE Done(d, i)
  BY <1>1 DEF Done
<1>3. n \in Done(d, n) <=> Done(d, i) = 1..i /\ d[n].path[2] \notin ReadOnly
  BY <1>1 DEF Done
<1>4. CASE n \notin Done(d, n)
  <2>1. Done(d, n) = Done(d, i) /\ Done(d, n) # 1..n
    BY <1>1, <1>2, <1>4
  <2>2. DOMAIN q = {"ok", "files"} /\ q.files = o.files /\ ~q.ok
    <3>1. CASE o.ok
      <4>1. d[n].path[2] \in ReadOnly
        BY <1>3, <1>4, <3>1 DEF Stored
      <4> QED
        BY <3>1, <4>1 DEF FlushNext, Store, Stored
    <3>2. CASE ~o.ok
      BY <3>2 DEF FlushNext, Stored
    <3> QED
      BY <3>1, <3>2
  <2> HIDE DEF q, n
  <2> QED
    BY <2>1, <2>2 DEF Stored, n, q
<1>5. CASE n \in Done(d, n)
  <2> DEFINE p == d[n].path
             old == IF p \in Readable(o.files) THEN o.files[p] ELSE <<>>
             data == IF d[n].append THEN old \o bufs[d[n].buf] ELSE bufs[d[n].buf]
  <2>1. o.ok /\ p[2] \notin ReadOnly /\ Done(d, n) = Done(d, i) \cup {n} /\ Done(d, n) = 1..n
    BY <1>1, <1>2, <1>3, <1>5 DEF Stored
  <2>2. /\ DOMAIN q = {"ok", "files"} /\ q.ok /\ DOMAIN q.files = DOMAIN o.files \cup {p}
        /\ q.files[p] = data
        /\ \A r \in DOMAIN o.files : r # p => q.files[r] = o.files[r]
    <3>1. q = [o EXCEPT !.files = With(@, p, data)]
      BY <2>1 DEF FlushNext, Store
    <3> HIDE DEF q, data
    <3> QED
      BY <2>1, <3>1 DEF With, Stored
  <2> HIDE DEF q
  <2>3. ASSUME NEW k \in Done(d, n), ~d[k].append,
               \A j \in Done(d, n) : j > k => d[j].path # d[k].path
        PROVE  q.files[d[k].path] = bufs[d[k].buf]
    <3>1. CASE k = n
      BY <2>2, <2>3, <3>1
    <3>2. CASE k # n
      <4>1. k \in Done(d, i) /\ n > k /\ d[k].path # p
        BY <1>1, <2>1, <2>3, <3>2
      <4>2. d[k].path \in DOMAIN o.files /\ o.files[d[k].path] = bufs[d[k].buf]
        BY <2>1, <2>3, <4>1 DEF Stored
      <4> QED
        BY <2>2, <4>1, <4>2
    <3> QED
      BY <3>1, <3>2
  <2>4. ASSUME NEW k \in Done(d, n), d[k].append, d[k].path[2] \notin Unreadable,
               \A j \in Done(d, n) \ {k} : d[j].path # d[k].path
        PROVE  q.files[d[k].path] = Before(d[k].path) \o bufs[d[k].buf]
    <3>1. CASE k = n
      <4>1. \A j \in Done(d, i) : d[j].path # p
        BY <1>1, <2>1, <2>4, <3>1
      <4>2. old = Before(p)
        BY <2>4, <3>1, <4>1 DEF Stored, Readable, Before
      <4> QED
        BY <2>2, <2>4, <3>1, <4>2
    <3>2. CASE k # n
      <4>1. k \in Done(d, i) /\ d[k].path # p
        BY <1>1, <2>1, <2>4, <3>2
      <4>2. o.files[d[k].path] = Before(d[k].path) \o bufs[d[k].buf]
        BY <2>1, <2>4, <4>1 DEF Stored
      <4>3. d[k].path \in DOMAIN o.files
        BY <4>1 DEF Stored
      <4> QED
        BY <2>2, <4>1, <4>2, <4>3
    <3> QED
      BY <3>1, <3>2
  <2>5. ASSUME NEW r, \A k \in Done(d, n) : d[k].path # r
        PROVE  /\ r \in DOMAIN q.files <=> r \in DOMAIN files
               /\ r \in DOMAIN files => q.files[r] = files[r]
    <3>1. r # p /\ \A k \in Done(d, i) : d[k].path # r
      BY <1>5, <2>1, <2>5
    <3> QED
      BY <2>2, <3>1 DEF Stored
  <2>6. ASSUME NEW k \in Done(d, n)
        PROVE  d[k].path \in DOMAIN q.files
    BY <1>1, <2>1, <2>2 DEF Stored
  <2> QED
    BY <2>1, <2>2, <2>3, <2>4, <2>5, <2>6 DEF Stored, q
<1> QED
  BY <1>4, <1>5

LEMMA FlushStored ==
    ASSUME NEW d, IsSeq(d)
    PROVE  Stored(d, Len(d), Flush(d)) /\ DOMAIN d = 1..Len(d)
<1>1. Len(d) \in Nat /\ DOMAIN d = 1..Len(d)
  BY SeqFacts
<1>2. PICK o : /\ o[0] = [ok |-> TRUE, files |-> files]
               /\ \A k \in 1..Len(d) : o[k] = FlushNext(o[k - 1], d[k])
               /\ Flush(d) = o[Len(d)]
  BY FlushSteps
<1> DEFINE T == {i \in Nat : i <= Len(d) => Stored(d, i, o[i])}
<1>3. 0 \in T
  <2>1. Done(d, 0) = {} /\ 1..0 = {}
    BY DEF Done
  <2>2. DOMAIN o[0] = {"ok", "files"} /\ o[0].ok /\ o[0].files = files
    BY <1>2
  <2>3. Stored(d, 0, o[0])
    BY <2>1, <2>2 DEF Stored
  <2> QED
    BY <2>3
<1>4. ASSUME NEW i \in Nat, i \in T
      PROVE  i + 1 \in T
  <2> SUFFICES ASSUME i + 1 <= Len(d)
               PROVE  Stored(d, i + 1, o[i + 1])
    OBVIOUS
  <2>1. Stored(d, i, o[i])
    BY <1>1, <1>4
  <2>2. o[i + 1] = FlushNext(o[i], d[i + 1])
    <3>1. i + 1 \in 1..Len(d) /\ (i + 1) - 1 = i
      BY <1>1
    <3> QED
      BY <1>2, <3>1
  <2> QED
    BY <2>1, <2>2, StoredNext
<1> HIDE DEF T
<1>5. Len(d) \in T
  BY <1>1, <1>3, <1>4, Flushing!SetInduction
<1> QED
  BY <1>1, <1>2, <1>5 DEF T

\* A command's redirections: the last one to a file decides what it holds, one that
\* appends keeps what was there, other files stay, and a redirection that cannot be
\* written is an error after which nothing is written, for any number of
\* redirections of any files (exec.rs:199-210).
THEOREM FilesKept == Spec => FilesHold
<1> DEFINE d == Top.deferred
           written == {k \in DOMAIN d : \A j \in 1..k : d[j].path[2] \notin ReadOnly}
           Only(k, among) == \A j \in among \ {k} : d[j].path # d[k].path
           Held_(p) == IF p \in DOMAIN files THEN files[p] ELSE <<>>
           A == Finishes =>
                  /\ \A k \in written :
                        /\ ~d[k].append /\ Only(k, {j \in written : j > k}) =>
                              d[k].path \in DOMAIN files' /\ files'[d[k].path] = bufs[d[k].buf]
                        /\ d[k].append /\ Only(k, written) /\ d[k].path[2] \notin Unreadable =>
                              files'[d[k].path] = Held_(d[k].path) \o bufs[d[k].buf]
                  /\ \A p \in DOMAIN files \cup DOMAIN files' :
                        (\A k \in written : d[k].path # p) =>
                           p \in DOMAIN files \cap DOMAIN files' /\ files'[p] = files[p]
                  /\ written # DOMAIN d => ctl' = Return(Err)
<1>1. FrameInv /\ [Next]_vars => [A]_vars
  <2> SUFFICES ASSUME FrameInv, [Next]_vars, Finishes
               PROVE  A
    OBVIOUS
  <2>1. FinishSimple
    BY OnlyFinishFinishes
  <2>2. files' = Flush(d).files /\ (~Flush(d).ok => ctl' = Return(Err))
    BY <2>1 DEF FinishSimple
  <2>3. IsSeq(d)
    BY <2>1, FrameFacts DEF FinishSimple, In, FrameOK, SimpleOK
  <2>4. Stored(d, Len(d), Flush(d)) /\ DOMAIN d = 1..Len(d) /\ Len(d) \in Nat
    BY <2>3, FlushStored, SeqFacts
  <2> DEFINE o == Flush(d)
  <2>5. written = Done(d, Len(d))
    BY <2>4 DEF Done
  <2> HIDE DEF d, o
  <2>6. ASSUME NEW k \in written, ~d[k].append, Only(k, {j \in written : j > k})
        PROVE  d[k].path \in DOMAIN files' /\ files'[d[k].path] = bufs[d[k].buf]
    <3>1. \A j \in Done(d, Len(d)) : j > k => d[j].path # d[k].path
      BY <2>4, <2>5, <2>6
    <3> QED
      BY <2>2, <2>4, <2>5, <2>6, <3>1 DEF Stored
  <2>7. ASSUME NEW k \in written, d[k].append, Only(k, written), d[k].path[2] \notin Unreadable
        PROVE  files'[d[k].path] = Held_(d[k].path) \o bufs[d[k].buf]
    BY <2>2, <2>4, <2>5, <2>7 DEF Stored, Before
  <2>8. ASSUME NEW p \in DOMAIN files \cup DOMAIN files', \A k \in written : d[k].path # p
        PROVE  p \in DOMAIN files \cap DOMAIN files' /\ files'[p] = files[p]
    BY <2>2, <2>4, <2>5, <2>8 DEF Stored
  <2>9. written # DOMAIN d => ctl' = Return(Err)
    BY <2>2, <2>4, <2>5 DEF Stored
  <2> HIDE DEF written, Only, Held_
  <2> QED
    BY <2>6, <2>7, <2>8, <2>9
<1> QED
  BY StartIsWired, StepsKeepFrames, <1>1, PTL DEF Spec, FilesHold
=============================================================================
