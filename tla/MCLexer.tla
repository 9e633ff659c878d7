-------------------------------- MODULE MCLexer --------------------------------
(* Short texts for checking Lexer with TLC.                                     *)
EXTENDS Lexer

Ch(chars) == {<<c>> : c \in chars}
Over(pieces, max) == [pieces |-> pieces, max |-> max]

MCLetters == {"a"}
MCDigits == {"2"}
MCWide == {"wide"}
MCAlphabets ==
    {\* substitutions
     Over(Ch({"a", "$", "(", ")", "'"}), 7),
     \* wide characters
     Over(Ch({"a", "$", "(", ")", "wide"}), 5),
     \* arithmetic
     Over({<<"$", "(", "(">>} \cup Ch({"a", "(", ")", "$", "+"}), 5),
     \* variables
     Over({<<"$", OpenBrace>>} \cup Ch({CloseBrace, "a", ":", "-", "#", "$"}), 5),
     \* variables and substitutions
     Over({<<"$", OpenBrace>>, <<"$", "(">>} \cup Ch({CloseBrace, OpenBrace, ")", "a"}), 5),
     \* operands
     Over({<<"$", OpenBrace, "a", ":", "-">>} \cup Ch({"\\", CloseBrace, "a", DQuote}), 4),
     \* quotes
     Over(Ch({DQuote, "\\", "$", "a", Tick, "\n"}), 5),
     \* operators
     Over(Ch({"<", ">", "&", "|", Semicolon, "2", "!"}), 4),
     \* here-documents
     Over({<<"<", "<">>} \cup Ch({"-", "'", DQuote, "a", Space, "\n"}), 4),
     \* comments and assignments
     Over(Ch({"#", "\n", "a", Space, "=", OpenBrace}), 4)}
=============================================================================
