-------------------------------- MODULE MCExec --------------------------------
(* A few scripts and programs for checking Exec with TLC. *)
EXTENDS Exec, TLC

X == "X"
Y == "Y"
MCVars == {X, Y}

Text(t) == [kind |-> "text", text |-> <<t>>]
Var(v) == [kind |-> "variable", var |-> v]
Status == [kind |-> "status"]
Default(v, t) == [kind |-> "default", var |-> v, text |-> <<t>>]
Require(v) == [kind |-> "require", var |-> v]
Subst(body) == [kind |-> "subst", body |-> body]

Set(v, w) == [do |-> "assign", var |-> v, word |-> w]
Arg(w) == [do |-> "arg", word |-> w]
In_(w) == [do |-> "read", word |-> w]
Here(w) == [do |-> "heredoc", word |-> w]
Out(fd, w) == [do |-> "write", fd |-> fd, word |-> w]
App(fd, w) == [do |-> "append", fd |-> fd, word |-> w]
Both(w) == [do |-> "both", fd |-> 1, word |-> w]
Dup(fd) == [do |-> "dup", fd |-> fd, word |-> Text("")]

Simple(assigns, name, args, redirects) ==
    [kind |-> "simple", assigns |-> assigns,
     name |-> IF name = "" THEN <<>> ELSE <<[do |-> "name", word |-> Text(name)]>>,
     args |-> args, redirects |-> redirects]
Run(name) == Simple(<<>>, name, <<>>, <<>>)
And(l, r) == [kind |-> "and", left |-> l, right |-> r]
Or(l, r) == [kind |-> "or", left |-> l, right |-> r]
Pipe(negated, stages) == [kind |-> "pipeline", stages |-> stages, negated |-> negated]
Group(body) == [kind |-> "group", body |-> body]
Subshell(body) == [kind |-> "subshell", body |-> body]

\* The commands, each under a name of its own.
MCAst == [
    say      |-> Run("say"),
    any      |-> Run("any"),
    cat      |-> Run("cat"),
    nope     |-> Run("nope"),
    dir_nope |-> Run("./nope"),
    xargs    |-> Run("xargs"),
    exit2    |-> Simple(<<>>, "exit", <<Arg(Text("2"))>>, <<>>),
    exit_out |-> Simple(<<Set(X, Text("y"))>>, "exit", <<>>, <<Out(1, Text("f"))>>),
    status   |-> Simple(<<Set(Y, Status)>>, "", <<>>, <<>>),
    setX     |-> Simple(<<Set(X, Text("x"))>>, "", <<>>, <<Out(1, Text("f"))>>),
    setXsub  |-> Simple(<<Set(X, Subst(<<"say_err", "any">>))>>, "", <<>>, <<>>),
    none     |-> Simple(<<Set(X, Subst(<<>>))>>, "any", <<Arg(Status)>>, <<>>),
    scoped   |-> Simple(<<Set(X, Text("y")), Set(Y, Var(X))>>, "any",
                        <<Arg(Default(Y, "y"))>>, <<App(1, Text("f"))>>),
    badflush |-> Simple(<<Set(X, Text("y"))>>, "say", <<>>,
                        <<Out(2, Text("f")), Out(1, Text("ro")), Out(1, Text("g"))>>),
    unread   |-> Simple(<<>>, "say", <<>>, <<App(1, Text("u")), App(2, Text("f"))>>),
    cat_u    |-> Simple(<<>>, "cat", <<>>, <<In_(Text("u"))>>),
    require  |-> Simple(<<Set(X, Text("y"))>>, "any", <<Arg(Require(Y))>>, <<>>),
    say_err  |-> Simple(<<>>, "say", <<>>, <<Dup(2), Out(1, Text("f")), Out(1, Text("g"))>>),
    err_say  |-> Simple(<<>>, "say", <<>>, <<Out(1, Text("f")), Dup(2)>>),
    twice    |-> Simple(<<>>, "say", <<>>, <<Out(1, Text("f")), Out(2, Text("f"))>>),
    both     |-> Simple(<<>>, "say", <<>>, <<Both(Text("f")), Dup(1)>>),
    cat_f    |-> Simple(<<>>, "cat", <<>>, <<In_(Text("f")), App(1, Text("g"))>>),
    cat_here |-> Simple(<<>>, "cat", <<>>, <<Here(Var(X))>>),
    src_f    |-> Simple(<<Set(X, Text("y"))>>, "source", <<Arg(Text("f"))>>, <<Out(1, Text("f"))>>),
    pipe3    |-> Pipe(FALSE, <<"say", "cat", "xargs">>),
    pipe2    |-> Pipe(FALSE, <<"err_say", "cat">>),
    not      |-> Pipe(TRUE, <<"any">>),
    and      |-> And("not", "status"),
    or       |-> Or("any", "status"),
    and_or   |-> And("or", "any"),
    sub      |-> Subshell(<<"setX", "any">>),
    sub_exit |-> Subshell(<<"setX", "exit2">>),
    assigned |-> Simple(<<>>, "any", <<Arg(Default(Y, "y")), Arg(Require(Y))>>, <<>>),
    src_g    |-> Simple(<<>>, "source", <<Arg(Text("g"))>>, <<>>),
    empty    |-> Subshell(<<>>),
    later    |-> [kind |-> "background", job |-> "group"],
    group    |-> Group(<<"any", "status">>)
]

MCCmds == DOMAIN MCAst

MCScripts == {
    <<>>,
    <<"and", "or", "and_or">>,
    <<"cat", "say_err", "cat_f", "twice", "err_say", "cat_here">>,
    <<"setXsub", "none", "status">>,
    <<"pipe3", "pipe2", "both", "nope", "dir_nope">>,
    <<"scoped", "sub", "later">>,
    <<"err_say", "src_f", "exit_out">>,
    <<"xargs", "assigned", "src_g", "empty", "sub_exit">>,
    <<"cat_f">>, <<"badflush">>, <<"require">>, <<"unread", "cat_u">>
}

\* What `say` and its error message make of a file is a script; so is an empty file.
MCParse == (<<"s", "e">> :> <<"scoped", "any">>) @@ (<<>> :> <<>>)

Quiet == [out |-> <<>>, err |-> <<>>, copies |-> FALSE, env |-> <<>>, cwd |-> {},
          aliases |-> <<>>, res |-> Ok(0)]

MCPrograms ==
    (<<"say">> :> {[Quiet EXCEPT !.out = <<"s">>, !.err = <<"e">>]}) @@
    (<<"cat">> :> {[Quiet EXCEPT !.copies = TRUE]}) @@
    (<<"echo">> :> {[Quiet EXCEPT !.out = <<"s">>]}) @@
    (<<"any">> :> {Quiet,
                   [Quiet EXCEPT !.out = <<"s">>, !.res = Err],
                   [Quiet EXCEPT !.res = Ok(1), !.env = X :> Unset, !.cwd = {"tmp"}],
                   [Quiet EXCEPT !.env = X :> <<"s">>,
                                 !.aliases = <<"cat">> :> <<<<"say">>>>]})

MCInputs == {<<>>, <<"s", "s">>}

MCShow == (0 :> <<"0">>) @@ (1 :> <<"1">>) @@ (2 :> <<"2">>) @@
          (126 :> <<"126">>) @@ (127 :> <<"127">>)
MCSlashed == {<<"./nope">>}
MCReadOnly == {<<"ro">>}
MCUnreadable == {<<"u">>}
=============================================================================
