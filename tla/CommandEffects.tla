---------------------------- MODULE CommandEffects ----------------------------
(* What a command does to the shell's state, as one step: the abstract          *)
(* specification that Session, where a program works through its operands on a  *)
(* copy of the state and commits it when it returns, implements.                *)
EXTENDS Naturals, Sequences, FiniteSets, Functions

CONSTANTS
    InitEnv,       \* the variables of a new shell
    Texts,         \* paths, as they are written
    Values,        \* what variables are set to
    HostVars,      \* the variables that host and host programs change
    OperandLists,  \* operands of commands
    Place(_, _)    \* the path a text names, seen from a directory

VARIABLES
    env, cwd, aliases,  \* the shell's state
    last                \* the command that has just returned: program, operands, exit code

vars == <<env, cwd, aliases, last>>

Root == <<"", "">>
\* The names that operands assign to or ask for, and the operands as they are written.
Names(ops) == {ops[i].name : i \in DOMAIN ops}
Written(ops) == {ops[i].text : i \in DOMAIN ops}
Without(f, keys) == Restrict(f, DOMAIN f \ keys)

\* A function after the assignments among some operands: the last one to a name counts.
Assigned(f, ops) ==
    LET To(k) == {i \in DOMAIN ops : ops[i].set /\ ops[i].name = k}
        keys == {k \in Names(ops) : To(k) # {}}
    IN [k \in DOMAIN f \cup keys |->
           IF k \in keys THEN ops[CHOOSE i \in To(k) : \A j \in To(k) : j <= i].value
           ELSE f[k]]

NoCommand == [ran |-> "none", ops |-> <<>>, code |-> 0]

\* A command begins; nothing comes of it before it returns.
Begins == last' = NoCommand /\ UNCHANGED <<env, cwd, aliases>>

\* The command that returns.
Returns(program, ops, code) == last' = [ran |-> program, ops |-> ops, code |-> code]

\* Without an operand the target is the home directory; a target that is none stays unvisited.
Cd(ops) ==
    LET target == IF ops # <<>> THEN ops[1].text
                  ELSE IF <<"HOME">> \in DOMAIN env THEN env[<<"HOME">>][1] ELSE Root
    IN /\ \/ Returns("cd", ops, 0) /\ cwd' = Place(cwd, target)
          \/ Returns("cd", ops, 1) /\ UNCHANGED cwd
       /\ UNCHANGED <<env, aliases>>

\* A variable that is not set may become empty where an operand has no value for it:
\* builtins.rs:1547 says that it does, the code leaves it.
Export(ops) ==
    LET after == Assigned(env, ops)
    IN /\ Returns("export", ops, 0)
       /\ \E named \in {{}, Names(ops)} :
             env' = [k \in DOMAIN after \cup named |->
                        IF k \in DOMAIN after THEN after[k] ELSE <<<<"">>>>]
       /\ UNCHANGED <<cwd, aliases>>

Unset(ops) ==
    /\ Returns("unset", ops, 0)
    /\ env' = Without(env, Written(ops))
    /\ UNCHANGED <<cwd, aliases>>

\* The first line of stdin, or nothing, goes to a variable.
Read(ops) ==
    LET v == IF ops = <<>> THEN <<"REPLY">> ELSE ops[1].text
    IN /\ Returns("read", ops, 0)
       /\ \E x \in Values : env' = [k \in DOMAIN env \cup {v} |-> IF k = v THEN x ELSE env[k]]
       /\ UNCHANGED <<cwd, aliases>>

\* An operand without a value asks for an alias: one that was there, or set further left.
Alias(ops) ==
    LET Known(i) == \/ ops[i].name \in DOMAIN aliases
                    \/ \E j \in 1 .. i - 1 : ops[j].set /\ ops[j].name = ops[i].name
    IN /\ aliases' = Assigned(aliases, ops)
       /\ Returns("alias", ops, IF \A i \in DOMAIN ops : ops[i].set \/ Known(i) THEN 0 ELSE 1)
       /\ UNCHANGED <<env, cwd>>

\* `-a` stands for all.  The others must be aliases still when their turn comes.
Unalias(ops) ==
    LET All(i) == ops[i].text = <<"-a">>
        Known(i) == /\ ops[i].text \in DOMAIN aliases
                    /\ \A j \in 1 .. i - 1 : ~All(j) /\ ops[j].text # ops[i].text
    IN /\ aliases' = IF \E i \in DOMAIN ops : All(i) THEN <<>> ELSE Without(aliases, Written(ops))
       /\ Returns("unalias", ops, IF \A i \in DOMAIN ops : All(i) \/ Known(i) THEN 0 ELSE 1)
       /\ UNCHANGED <<env, cwd>>

OnlyHostVars ==
    \A k \in (DOMAIN env \cup DOMAIN env') \ HostVars :
        k \in DOMAIN env \cap DOMAIN env' /\ env'[k] = env[k]

\* A program of the host: it has its variables, and no way to the rest.
HostProgram(ops) ==
    /\ \E code \in {0, 1} : Returns("host", ops, code)
    /\ OnlyHostVars
    /\ UNCHANGED <<cwd, aliases>>

\* A program that leaves the shell alone, or a name that has none; a host program that fails.
Other(ops) ==
    /\ \/ \E ran \in {"echo", "exit"} : Returns(ran, ops, 0)
       \/ \E ran \in {"which", "type"}, code \in {0, 1} : Returns(ran, ops, code)
       \/ \E code \in {126, 127} : Returns("missing", ops, code)
       \/ Returns("failed", ops, 1)
    /\ UNCHANGED <<env, cwd, aliases>>

\* Between commands the host sets a variable, or the directory, from the root.
HostSets ==
    /\ \/ OnlyHostVars /\ UNCHANGED cwd
       \/ \E t \in Texts : cwd' = Place(Root, t) /\ UNCHANGED env
    /\ UNCHANGED <<aliases, last>>

Init ==
    /\ env = InitEnv
    /\ cwd = Root
    /\ aliases = <<>>
    /\ last = NoCommand

Next ==
    \/ Begins \/ HostSets
    \/ \E ops \in OperandLists :
          \/ Cd(ops) \/ Export(ops) \/ Unset(ops) \/ Read(ops)
          \/ Alias(ops) \/ Unalias(ops) \/ HostProgram(ops) \/ Other(ops)

Spec == Init /\ [][Next]_vars
=============================================================================
