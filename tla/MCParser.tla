-------------------------------- MODULE MCParser --------------------------------
(* Scripts for checking Parser with TLC, typed from small alphabets.            *)
EXTENDS Parser

One(kinds) == {<<Token(k)>> : k \in kinds}
C == Word("c")
\* A word with one command substitution.
Sub(body) == Substitution("$", <<body>>)
Bad == Token("SemiSemi")

Lists == One({"AndAnd", "OrOr", "Amp", "Semi", "Bang", "Pipe", "Newline"}) \cup {<<C>>}
Brackets == One({"LParen", "RParen", "LBrace", "RBrace", "Bang", "Semi", "Newline"}) \cup {<<C>>}
Commands == {<<C>>, <<Assignment("x", <<>>)>>, <<Assignment("y", <<<<C>>>>)>>, <<Word("if")>>,
             <<DoubleQuoted(<<<<C>>, <<>>>>)>>, <<Token("SingleQuote")>>, <<Token("Pipe")>>,
             <<RedirectOp("Greater", {})>>, <<RedirectOp("GreaterAmp", {2})>>,
             <<RedirectOp("LessAmp", {})>>, <<Word("-")>>, <<Word("1")>>}
A == Word("A")
NL == Token("Newline")
Heredocs == {<<HereDoc("A", FALSE, FALSE)>>, <<HereDoc("B", TRUE, TRUE)>>, <<C>>, <<NL>>,
             <<A, NL>>, <<Word("B"), NL>>, <<Token("Pipe")>>, <<Token("AndAnd")>>}
Leftovers == {<<HereDoc("A", FALSE, FALSE)>>, <<HereDoc("A", TRUE, FALSE)>>, <<NL>>, <<A, NL>>,
              <<Sub(<<C>>), NL>>,
              <<Sub(<<HereDoc("A", TRUE, TRUE), NL, [A EXCEPT !.tabs = TRUE]>>)>>, <<Bad>>}

Alphabet(pieces, max, again) == [pieces |-> pieces, max |-> max, again |-> again]
MCAlphabets == {Alphabet(Lists, 5, FALSE), Alphabet(Brackets, 5, FALSE),
                Alphabet(Commands, 4, FALSE), Alphabet(Heredocs, 5, FALSE),
                Alphabet(Leftovers, 5, TRUE)}
=============================================================================
