------------------------------- MODULE MCSession -------------------------------
(* A few command lines, paths and programs for checking Session with TLC.       *)
EXTENDS Session, TLC

MCSegments ==
    Builtins \cup {"", ".", "..", "a", "b", "t", "e", "x", "-a", "opt", "usr", "bin", "local",
                  "home", "which", "type", "exit", "PATH", "HOME", "REPLY",
                  "HOME=", "PATH=", "PATH=opt:", "e=", "e=t", "t=cd .."}

W(seg) == Word(<<seg>>)
ToNothing == Assign(<<"PATH=">>, <<"PATH">>, EmptyValue)
ToCdUp == Assign(<<"t=cd ..">>, <<"t">>, <<<<"cd">>, <<"..">>>>)
UsrBinSlash == <<"", "usr", "bin", "">>

\* The root, absolute and relative paths, with all that normalising takes out.
MCTexts == {<<"", "">>, <<"", "a">>, <<"a", "", "b">>, <<".", "b", "..", "a">>, <<"..">>,
            <<"..", "..", "b", "">>, <<"">>}
MCDirs == {<<"", "a">>, <<"", "a", "b">>}

\* PATH: with a slash at its end; with a relative entry first, which none is found in.
MCValues == {<<UsrBinSlash>>, <<<<"opt">>, <<"", "opt">>, <<"", "usr", "bin">>>>}
MCHostVars == {<<"PATH">>}
\* A built-in's name, and one that is not normalised.
MCHostNames == {<<"cd">>, <<"opt", "", "t">>}

MCLines == {
    <<W("cd")>>, <<W("cd"), W("..")>>, <<W("cd"), W("")>>,
    <<W("cd"), Word(<<"a", "">>)>>, <<W("cd"), Word(<<".", "b", "..", "", "b">>)>>,
    <<W("export"), Assign(<<"HOME=", "a", "b">>, <<"HOME">>, <<<<"", "a", "b">>>>),
      W("PATH"), Assign(<<"PATH=", "usr", "bin", "">>, <<"PATH">>, <<UsrBinSlash>>)>>,
    <<W("export"), ToNothing, Assign(<<"PATH=opt:">>, <<"PATH">>, <<<<"opt">>, <<"">>>>), W("x")>>,
    <<W("unset"), W("PATH"), W("HOME")>>, <<W("unset"), ToNothing>>,
    <<W("read"), W("PATH")>>,
    <<W("alias"), ToCdUp, W("e"), Assign(<<"e=">>, <<"e">>, EmptyValue)>>,
    <<W("alias"), W("t"), Assign(<<"e=t">>, <<"e">>, <<<<"t">>>>)>>,
    <<W("unalias"), W("e"), ToCdUp, W("e")>>, <<W("unalias"), W("t"), W("-a"), W("e")>>,
    <<W("which"), W("t"), W("cd")>>, <<W("type"), W("e")>>,
    <<W("exit")>>, <<W("e")>>, <<W("t")>>, <<Word(<<".", "t">>)>>, <<Word(<<"opt", "t">>), W("x")>>}
=============================================================================
