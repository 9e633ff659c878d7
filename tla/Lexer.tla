--------------------------------- MODULE Lexer ---------------------------------
(* How bash_parser turns characters into tokens (lexer.rs) and words into the   *)
(* parts that are expanded (parser.rs:504-798).  The lexer cuts a word out of   *)
(* the text, taking each expansion whole; the parser cuts the word again, by    *)
(* rules of its own, into literals, variables and substitutions.                *)
(*                                                                              *)
(* A text is a sequence of characters; a position is an index into it.  The     *)
(* text of a command substitution is parsed in turn by a parser of its own: see *)
(* the module Parser.  A loop of the code is a step taken as often as the text  *)
(* has characters: every step but the last takes one at least.                  *)
EXTENDS Naturals, Sequences, SequencesExt, FiniteSets, FiniteSetsExt

CONSTANTS
    Alphabets,  \* what texts are written from: [pieces: short texts; max: the most in a text]
    Letters,    \* ASCII letters
    Digits,     \* ASCII digits
    Wide        \* characters of more than one byte

\* Characters by name.
Tick == "tick"   \* the backtick
Space == "space"
Semicolon == "semicolon"
OpenBrace == "lbrace"
CloseBrace == "rbrace"
DQuote == "dquote"
Underscore == "underscore"
End == "end"     \* no character: past the end
Char == STRING \ {End}
NotInWord == {Space, "\t", "\n", "|", "&", Semicolon, "(", ")", OpenBrace, CloseBrace, "<", ">",
              DQuote, "'"}
SpecialChar == {"@", "*", "#", "?", "$", "!"}
\* The characters the code knows by themselves.
Mark == NotInWord \cup SpecialChar \cup {"\\", Tick, Underscore, "-", "=", "+", ":"}

ASSUME LexerAssumption ==
    /\ Letters \subseteq Char /\ Digits \subseteq Char /\ Wide \subseteq Char
    /\ Letters \cap Digits = {} /\ Wide \cap (Letters \cup Digits) = {}
    /\ Mark \cap (Letters \cup Digits \cup Wide) = {}
    /\ \A a \in Alphabets : a.max \in Nat /\ a.pieces \subseteq Seq(Char)

VARIABLES
    src,   \* the text; while it is written, the pieces of it
    pos,   \* the lexer's position in it
    inDq,  \* Parser.in_dq: between double quotes
    docs,  \* a here-document is pending on this line
    got,   \* the last token, where its search began, and the parts of its word
    st     \* "write", "run", or how the reading ended

vars == <<src, pos, inDq, docs, got, st>>

(* ------------------------------- scanning --------------------------------- *)

NameStart == Letters \cup {Underscore}
NameChar == NameStart \cup Digits

At(s, i) == IF i \in DOMAIN s THEN s[i] ELSE End
SkipTo(s, i, stops) == Min({j \in i .. Len(s) + 1 : j > Len(s) \/ s[j] \in stops})
SkipOver(s, i, chars) == Min({j \in i .. Len(s) + 1 : j > Len(s) \/ s[j] \notin chars})
\* A backslash and the character after it.
SkipEscape(s, i) == Min({i + 2, Len(s) + 1})

\* What comes of `start` after a turn for every character of the text.
Turns(Turn(_, _), start, text) ==
    LET after[n \in Nat] == IF n = 0 THEN start ELSE Turn(after[n - 1], text)
    IN after[Len(text)]

NoEnd == 0   \* the text ends before what was opened is closed

\* The end of what `depth` opening delimiters began; single quotes hide delimiters.
BalancedEnd_FirstClose(s, i, open, close, depth) ==   \* mutant: the first closing delimiter ends it
    LET e == SkipTo(s, i, {close}) IN IF e > Len(s) THEN NoEnd ELSE e + 1

BalancedTurn(x, s) ==
    LET c == At(s, x.at)
    IN CASE x.depth = 0 \/ c = End -> x
         [] x.depth > 0 /\ c = "'" -> [x EXCEPT !.at = Min({SkipTo(s, @ + 1, {"'"}), Len(s)}) + 1]
         [] x.depth > 0 /\ c = x.open -> [x EXCEPT !.at = @ + 1, !.depth = @ + 1]
         [] x.depth > 0 /\ c = x.close -> [x EXCEPT !.at = @ + 1, !.depth = @ - 1]
         [] OTHER -> [x EXCEPT !.at = @ + 1]

BalancedEnd(s, i, open, close, depth) ==
    LET x == Turns(BalancedTurn, [at |-> i, depth |-> depth, open |-> open, close |-> close], s)
    IN IF x.depth = 0 THEN x.at ELSE NoEnd

BacktickTurn(i, s) ==
    CASE At(s, i) \in {End, "\n", Tick} -> i
      [] At(s, i) = "\\" -> SkipEscape(s, i)
      [] OTHER -> i + 1
BacktickEnd(s, i) ==
    LET e == Turns(BacktickTurn, i, s) IN IF At(s, e) = Tick THEN e + 1 ELSE e

\* The end of the expansion whose `$` is just before i.
DollarEnd(s, i) ==
    LET c == At(s, i)
    IN CASE c = OpenBrace -> BalancedEnd(s, i + 1, OpenBrace, CloseBrace, 1)
         [] c = "(" -> IF At(s, i + 1) = "(" THEN BalancedEnd(s, i + 2, "(", ")", 2)
                       ELSE BalancedEnd(s, i + 1, "(", ")", 1)
         [] c \in NameStart -> SkipOver(s, i, NameChar)
         [] c \in Digits \cup SpecialChar -> i + 1
         [] OTHER -> i

\* At NoEnd no character is left to look at.
WordTurn(i, s) ==
    LET c == At(s, i)
    IN CASE c \in NotInWord \cup {End} -> i
         [] c = "\\" -> SkipEscape(s, i)
         [] c = "$" -> DollarEnd(s, i + 1)
         [] c = Tick -> BacktickEnd(s, i + 1)
         [] OTHER -> i + 1
WordEnd(s, i) == Turns(WordTurn, i, s)

(* -------------------------------- tokens ---------------------------------- *)

\* `from` is where the token starts, `to` where the next one is looked for.
Tok(kind, i, to) == [kind |-> kind, from |-> i, to |-> to]
TextTok(kind, i, to, text) == [kind |-> kind, from |-> i, to |-> to, text |-> text]
Bad(i) == Tok("Error", i, i)

LexWord(s, i) ==
    LET e == WordEnd(s, i)
    IN IF e = NoEnd THEN Bad(i) ELSE TextTok("Word", i, e, SubSeq(s, i, e - 1))

LexSingleQuote(s, i) ==
    LET e == SkipTo(s, i + 1, {"'"})
    IN IF e > Len(s) THEN Bad(i) ELSE TextTok("SingleQuote", i, e + 1, SubSeq(s, i + 1, e - 1))

\* The delimiter at i of a here-document; the digits from `from` to op are its descriptor.
LexHeredocDelimiter(s, from, op, i, strip) ==
    LET quote == At(s, i)
        quoted == quote \in {"'", DQuote}
        start == IF quoted THEN i + 1 ELSE i
        e == SkipTo(s, start, IF quoted THEN {"\n", quote} ELSE {"\n", Space, "\t"})
    IN IF (quoted /\ At(s, e) # quote) \/ (~quoted /\ e = start) THEN Bad(from)
       ELSE [kind |-> "HereDoc", from |-> from, to |-> IF quoted THEN e + 1 ELSE e,
             fd |-> SubSeq(s, from, op - 1),
             delim |-> SubSeq(s, start, e - 1), quoted |-> quoted, strip |-> strip]

Longer_NoClobber ==   \* mutant: `>|` is not known
    [LessGreater |-> <<"<", ">">>, LessAmp |-> <<"<", "&">>, GreaterGreater |-> <<">", ">">>,
     GreaterAmp |-> <<">", "&">>, SemiSemi |-> <<Semicolon, Semicolon>>,
     AndAnd |-> <<"&", "&">>, OrOr |-> <<"|", "|">>]

\* The operators of two characters and of one.
Longer == [LessGreater |-> <<"<", ">">>, LessAmp |-> <<"<", "&">>, GreaterGreater |-> <<">", ">">>,
           GreaterPipe |-> <<">", "|">>, GreaterAmp |-> <<">", "&">>,
           SemiSemi |-> <<Semicolon, Semicolon>>, AndAnd |-> <<"&", "&">>, OrOr |-> <<"|", "|">>]
Single == [Less |-> "<", Greater |-> ">", Semi |-> Semicolon, Amp |-> "&", Pipe |-> "|",
           LParen |-> "(", RParen |-> ")", LBrace |-> OpenBrace, RBrace |-> CloseBrace,
           Bang |-> "!", Newline |-> "\n", DoubleQuoteOpen |-> DQuote]

\* The operator at i; the digits from `from` to it are its descriptor.
LexOperator(s, from, i) ==
    LET two == {k \in DOMAIN Longer : Longer[k] = <<At(s, i), At(s, i + 1)>>}
        one == {k \in DOMAIN Single : Single[k] = At(s, i)}
        Op(kind, len) == [kind |-> kind, from |-> from, to |-> i + len,
                          fd |-> SubSeq(s, from, i - 1)]
    IN IF two # {} THEN Op(CHOOSE k \in two : TRUE, 2) ELSE Op(CHOOSE k \in one : TRUE, 1)

LexRedirect(s, i) ==
    LET op == SkipOver(s, i, Digits)
        strip == At(s, op + 2) = "-"
        delim == SkipOver(s, IF strip THEN op + 3 ELSE op + 2, {Space, "\t"})
    IN IF At(s, op) = "<" /\ At(s, op + 1) = "<"
       THEN LexHeredocDelimiter(s, i, op, delim, strip)
       ELSE LexOperator(s, i, op)

IsFdRedirect(s, i) == At(s, i) \in Digits /\ At(s, SkipOver(s, i, Digits)) \in {"<", ">"}

\* Past blanks and a comment: after one comes a newline or the end.
TokenStart(s, i) ==
    LET j == SkipOver(s, i, {Space, "\t"})
    IN IF At(s, j) = "#" THEN SkipTo(s, j, {"\n"}) ELSE j

\* `esc` holds the backslash that awaits the character after it.
UnescapeTurn(x, c) ==
    CASE x.esc = <<>> /\ c = "\\" -> [x EXCEPT !.esc = <<c>>]
      [] x.esc # <<>> /\ c \in {DQuote, "\\", "$", Tick} -> [esc |-> <<>>, out |-> Append(x.out, c)]
      [] x.esc # <<>> /\ c = "\n" -> [x EXCEPT !.esc = <<>>]
      [] OTHER -> [esc |-> <<>>, out |-> x.out \o Append(x.esc, c)]
UnescapeDq(s) ==
    LET x == FoldLeft(UnescapeTurn, [esc |-> <<>>, out |-> <<>>], s) IN x.out \o x.esc

DqTurn(i, s) ==
    CASE At(s, i) \in {End, DQuote, "$", Tick} -> i
      [] At(s, i) = "\\" -> SkipEscape(s, i)
      [] OTHER -> i + 1

LexDqFragment(s, i) ==
    LET c == At(s, i)
        e == Turns(DqTurn, i, s)
    IN CASE c = End -> Bad(i)
         [] c = DQuote -> Tok("DoubleQuoteClose", i, i + 1)
         [] c \in {"$", Tick} -> LexWord(s, i)
         [] OTHER -> TextTok("DQText", i, e, UnescapeDq(SubSeq(s, i, e - 1)))

NextToken(s, p, dq) ==
    LET i == TokenStart(s, p)
        c == At(s, i)
    IN CASE dq -> LexDqFragment(s, p)
         [] ~dq /\ c = End -> Tok("Eof", i, i)
         [] ~dq /\ c = "'" -> LexSingleQuote(s, i)
         [] ~dq /\ (c \in {"<", ">"} \/ IsFdRedirect(s, i)) -> LexRedirect(s, i)
         [] ~dq /\ c \in (Range(Single) \ {"<", ">"}) -> LexOperator(s, i, i)
         [] OTHER -> LexWord(s, i)

(* ------------------------------ parts of words ---------------------------- *)

\* `src` is the stretch of the word a part was read from.
Part(form, text, source) == [form |-> form, text |-> text, src |-> source]
Parts(parts) == [st |-> "ok", parts |-> parts]
Failed(how) == [st |-> how, parts |-> <<>>]

\* The text from i on up to `stop`, one or two closing parentheses, with parentheses
\* balanced.  The code slices the word at every byte it looks at while the depth is
\* one: inside a character of several bytes that panics.
ExtractBalanced_FirstStop(w, i, stop) ==   \* mutant: nesting is not counted
    LET hits == {j \in i .. Len(w) : SubSeq(w, j, Min({j + Len(stop) - 1, Len(w)})) = stop}
    IN IF hits = {} THEN [st |-> "err", last |-> i, to |-> i]
       ELSE [st |-> "ok", last |-> Min(hits) - 1, to |-> Min(hits) + Len(stop)]

ExtractTurn(x, w) ==
    LET c == At(w, x.to)
        both == Len(x.stop) = 2 /\ At(w, x.to + 1) = ")"
        Go(depth) == [x EXCEPT !.to = @ + 1, !.depth = depth]
    IN CASE x.st # "err" \/ c = End -> x
         [] x.st = "err" /\ c = ")" /\ x.depth = 1 ->   \* `stop`, or depth zero
              [x EXCEPT !.st = "ok", !.last = x.to - 1, !.to = @ + IF both THEN 2 ELSE 1]
         [] x.st = "err" /\ c = ")" /\ x.depth # 1 -> Go(x.depth - 1)
         [] x.st = "err" /\ c = "(" -> Go(x.depth + 1)
         [] x.st = "err" /\ c \in Wide /\ x.depth = 1 -> [x EXCEPT !.st = "panic"]
         [] OTHER -> Go(x.depth)

ExtractBalanced(w, i, stop) ==
    Turns(ExtractTurn, [st |-> "err", to |-> i, last |-> i, depth |-> 1, stop |-> stop], w)

IsValidName(s) == s # <<>> /\ s[1] \in NameStart /\ Range(s) \subseteq NameChar

\* The first operator of a `${...}`, or zero.
FindVarOperator(s) ==
    LET ops == {"-", "=", "+", "?"}
        hits == {i \in DOMAIN s : \/ s[i] = ":" /\ At(s, i + 1) \in ops
                                  \/ s[i] \in ops /\ i > 1}
    IN IF hits = {} THEN 0 ELSE Min(hits)

\* name=value, or zero: where the first `=` is.
SplitAssignment(w) ==
    LET eq == SkipTo(w, 1, {"="})
    IN IF eq <= Len(w) /\ IsValidName(SubSeq(w, 1, eq - 1)) THEN eq ELSE 0

\* The expansion whose `$` is at i; `brace` is what comes of it if it is a `${`.
ParseDollar(w, i, brace) ==
    LET c == At(w, i + 1)
        arith == At(w, i + 2) = "("
        start == IF arith THEN i + 3 ELSE i + 2
        x == ExtractBalanced(w, start, IF arith THEN <<")", ")">> ELSE <<")">>)
        name == SkipOver(w, i + 1, NameChar)
        Got(form, text, to) ==
            [st |-> "ok", part |-> Part(form, text, SubSeq(w, i, to - 1)), to |-> to]
    IN CASE c = "(" -> IF x.st # "ok" THEN [st |-> x.st]
                       ELSE Got(IF arith THEN "arith" ELSE "subst", SubSeq(w, start, x.last), x.to)
         [] c = OpenBrace -> brace
         [] c \in Digits \cup SpecialChar -> Got("special", <<c>>, i + 2)
         [] c \in NameStart -> Got("variable", SubSeq(w, i + 1, name - 1), name)
         [] OTHER -> Got("literal", <<"$">>, i + 1)

ParseBacktick(w, i) ==
    LET close == SkipTo(w, i + 1, {Tick})
    IN IF close > Len(w) THEN [st |-> "err"]
       ELSE [st |-> "ok", to |-> close + 1,
             part |-> Part("subst", SubSeq(w, i + 1, close - 1), SubSeq(w, i, close))]

NoLit == Part("literal", <<>>, <<>>)
Flushed(x) == IF x.lit.text = <<>> THEN x.parts ELSE Append(x.parts, x.lit)

\* The next part of the word, or character of the literal being read.  A backslash
\* quotes only outside double quotes.
PartTurn(x, w, brace) ==
    LET i == x.at
        c == At(w, i)
        e == IF c = "$" THEN ParseDollar(w, i, brace) ELSE ParseBacktick(w, i)
        escaped == SubSeq(w, i + 1, SkipEscape(w, i) - 1)
        Literal(text, source, to) ==
            [x EXCEPT !.lit = Part("literal", @.text \o text, @.src \o source), !.at = to]
    IN CASE x.st # "ok" \/ c = End -> x
         [] x.st = "ok" /\ c = "\\" /\ ~x.dq ->
              Literal(IF escaped = <<"\n">> THEN <<>> ELSE escaped,
                      <<c>> \o escaped, SkipEscape(w, i))
         [] x.st = "ok" /\ c \in {"$", Tick} ->
              IF e.st # "ok" THEN [x EXCEPT !.st = e.st]
              ELSE [x EXCEPT !.parts = Append(Flushed(x), e.part), !.lit = NoLit, !.at = e.to]
         [] OTHER -> Literal(<<c>>, <<c>>, i + 1)

PartsFrom(dq) == [st |-> "ok", at |-> 1, lit |-> NoLit, parts |-> <<>>, dq |-> dq]
PartsRead(x) == IF x.st = "ok" THEN Parts(Flushed(x)) ELSE Failed(x.st)

\* The word after the operator of a `${...}`.  It has no `}`, so a `${` in it fails.
OperandTurn(x, w) == PartTurn(x, w, [st |-> "err"])
OperandParts(w) == PartsRead(Turns(OperandTurn, PartsFrom(FALSE), w))

\* What follows `${` at i - 1.  `part` is its expression, `to` the position after the `}`.
ParseBraceVar(w, i) ==
    LET close == SkipTo(w, i, {CloseBrace})
        inner == SubSeq(w, i, close - 1)
        source == SubSeq(w, i - 2, close)
        op == FindVarOperator(inner)
        letter == IF At(inner, op) = ":" THEN op + 1 ELSE op
        word == OperandParts(SubSeq(inner, letter + 1, Len(inner)))
        Got(part) == [st |-> "ok", part |-> part, to |-> close + 1]
    IN IF close > Len(w) \/ inner = <<>> THEN [st |-> "err"]
       ELSE IF inner[1] = "#" /\ IsValidName(Tail(inner))
       THEN Got(Part("length", Tail(inner), source))
       ELSE IF op = 0 THEN Got(Part("variable", inner, source))
       ELSE IF word.st # "ok" THEN [st |-> word.st]
       ELSE Got([form |-> "operator", text |-> SubSeq(inner, 1, op - 1), src |-> source,
                 op |-> inner[letter], word |-> word.parts])

WordPartTurn(x, w) == PartTurn(x, w, ParseBraceVar(w, x.at + 2))
PartsOf(w, dq) == PartsRead(Turns(WordPartTurn, PartsFrom(dq), w))

(* ------------------------------- the reading ------------------------------ *)

NoWord == [st |-> "ok", name |-> <<>>, parts |-> <<>>]
NoToken == Tok("None", 1, 1)

Init == /\ src = <<>>
        /\ pos = 1
        /\ inDq = FALSE
        /\ docs = FALSE
        /\ got = [before |-> 1, dq |-> FALSE, tok |-> NoToken, word |-> NoWord]
        /\ st = "write"

\* The caller writes a text and has it parsed.
Joined(text, piece) == text \o piece
Write(piece) ==
    /\ st = "write"
    /\ \E a \in Alphabets : Len(src) < a.max /\ Range(src) \cup {piece} \subseteq a.pieces
    /\ src' = Append(src, piece)
    /\ UNCHANGED <<pos, inDq, docs, got, st>>
Begin ==
    /\ st = "write"
    /\ src' = FoldLeft(Joined, <<>>, src)
    /\ st' = "run"
    /\ UNCHANGED <<pos, inDq, docs, got>>

\* The word of a token, split first into name and value where one is allowed.
WordOf(t, dq, assignable) ==
    LET eq == IF assignable THEN SplitAssignment(t.text) ELSE 0
        x == PartsOf(SubSeq(t.text, eq + 1, Len(t.text)), dq)
    IN [st |-> x.st, name |-> SubSeq(t.text, 1, eq), parts |-> x.parts]

\* The parser asks for the next token and cuts its word into parts.
Read(assignable) ==
    LET t == NextToken(src, pos, inDq)
        word == IF t.kind = "Word" THEN WordOf(t, inDq, assignable /\ ~inDq) ELSE NoWord
    IN /\ st = "run"
       /\ got' = [before |-> pos, dq |-> inDq, tok |-> t, word |-> word]
       /\ pos' = t.to
       /\ inDq' = ((inDq \/ t.kind = "DoubleQuoteOpen") /\ t.kind # "DoubleQuoteClose")
       /\ docs' = (docs \/ t.kind = "HereDoc")
       /\ st' = CASE t.kind = "Error" -> "err"
                  [] t.kind # "Error" /\ word.st # "ok" -> word.st
                  [] t.kind = "Eof" -> "end"
                  [] t.kind = "Newline" /\ docs -> "bodies"   \* read line by line: Parser
                  [] OTHER -> "run"
       /\ UNCHANGED src

Next == \/ \E piece \in UNION {a.pieces : a \in Alphabets} : Write(piece)
        \/ Begin
        \/ \E assignable \in BOOLEAN : Read(assignable)

Spec == Init /\ [][Next]_vars

(* ------------------------------- properties ------------------------------- *)

Spelling == [
    Less |-> <<"<">>, Greater |-> <<">">>, GreaterGreater |-> <<">", ">">>,
    LessGreater |-> <<"<", ">">>, GreaterPipe |-> <<">", "|">>, GreaterAmp |-> <<">", "&">>,
    LessAmp |-> <<"<", "&">>, HereDoc |-> <<"<", "<">>, Pipe |-> <<"|">>, OrOr |-> <<"|", "|">>,
    AndAnd |-> <<"&", "&">>, Amp |-> <<"&">>, Semi |-> <<Semicolon>>,
    SemiSemi |-> <<Semicolon, Semicolon>>, LParen |-> <<"(">>, RParen |-> <<")">>,
    LBrace |-> <<OpenBrace>>, RBrace |-> <<CloseBrace>>, Bang |-> <<"!">>,
    Newline |-> <<"\n">>, DoubleQuoteOpen |-> <<DQuote>>]

\* What a token says, in characters; `s` is the text from its first character on.
Spells(t, s) ==
    LET whole == SubSeq(s, 1, t.to - t.from)
        op == SubSeq(s, Len(t.fd) + 1, Len(s))
        escaped == {i \in 2 .. Len(whole) : whole[i - 1] = "\\"}
    IN CASE t.kind = "Word" -> whole = t.text
         [] t.kind = "SingleQuote" -> whole = <<"'">> \o t.text \o <<"'">>
         [] t.kind = "DQText" -> \A i \in DOMAIN whole :
                                     whole[i] \in {DQuote, "$", Tick} => i \in escaped
         [] t.kind = "DoubleQuoteClose" -> whole = <<DQuote>>
         [] t.kind \in {"Error", "Eof"} -> TRUE
         [] OTHER -> /\ IsPrefix(Spelling[t.kind], op)
                     /\ \A k \in DOMAIN Spelling : IsPrefix(Spelling[k], op) =>
                            Len(Spelling[k]) <= Len(Spelling[t.kind])
                     /\ t.kind = "HereDoc" \/ Len(whole) - Len(s) + Len(op) = Len(Spelling[t.kind])

(* The lexer loses nothing and goes on: between two tokens there are only       *)
(* blanks and a comment, a token says what is written there, an operator is the *)
(* longest one that starts at its place, and no token but the last is empty, in *)
(* quotes and out, so that no text keeps the parser's loops from ending         *)
(* (lexer.rs:171-372, 560-591, parser.rs:50-62, 382-423).                       *)
TokensCoverTheText ==
    got.tok # NoToken =>
        LET t == got.tok
            gap == SubSeq(src, got.before, t.from - 1)
        IN /\ t.kind \notin {"Error", "Eof"} => t.to > got.before
           /\ \A i \in DOMAIN gap : /\ ~got.dq /\ gap[i] # "\n"
                                    /\ gap[i] \in {Space, "\t"} \/ \E j \in 1 .. i : gap[j] = "#"
           /\ Spells(t, SubSeq(src, t.from, Len(src)))

Balanced(s) ==
    LET Count(c, n) == Cardinality({i \in 1 .. n : s[i] = c})
    IN /\ \A n \in DOMAIN s : Count(")", n) <= Count("(", n)
       /\ Count(")", Len(s)) = Count("(", Len(s))

WithSource(text, part) == text \o part.src
Source(parts) == FoldLeft(WithSource, <<>>, parts)
Braced(s) == <<"$", OpenBrace>> \o s \o <<CloseBrace>>

SpeltAlone(p) ==
    CASE p.form = "literal" -> p.src = p.text \/ "\\" \in Range(p.src)
      [] p.form = "variable" -> p.src \in {<<"$">> \o p.text, Braced(p.text)}
      [] p.form = "special" -> p.src = <<"$">> \o p.text
      [] p.form = "length" -> p.src = Braced(<<"#">> \o p.text)
      [] p.form = "subst" -> \/ p.src = <<Tick>> \o p.text \o <<Tick>>
                             \/ p.src = <<"$", "(">> \o p.text \o <<")">> /\ Balanced(p.text)
      [] p.form = "arith" -> \E closing \in {<<")">>, <<")", ")">>} :
                                 p.src = <<"$", "(", "(">> \o p.text \o closing /\ Balanced(p.text)
      [] OTHER -> FALSE

Spelt(p) ==
    \/ SpeltAlone(p)
    \/ /\ p.form = "operator"
       /\ LET rest == <<p.op>> \o Source(p.word)
          IN p.src \in {Braced(p.text \o rest), Braced(p.text \o <<":">> \o rest)}
       /\ \A i \in DOMAIN p.word : SpeltAlone(p.word[i])

GotWord == got.tok.kind = "Word"
Escaped(w, c) == \E i \in 2 .. Len(w) : w[i - 1] = "\\" /\ w[i] = c

(* The parts of a word spell it: no character of it is read twice or skipped by *)
(* the byte counts that parse_dollar, parse_brace_var and parse_backtick hand   *)
(* back, and what stands in a substitution is balanced (parser.rs:513-768).  A  *)
(* word with an escaped newline is shorter, and so is one with a backslash that *)
(* escapes nothing: at the end, or before the `}` that ends a `${`.             *)
PartsSpellTheWord ==
    (/\ GotWord /\ got.word.st = "ok"
     /\ ~Escaped(got.tok.text, "\n") /\ ~Escaped(got.tok.text, CloseBrace)
     /\ Last(got.tok.text) # "\\") =>
        /\ got.word.name \o Source(got.word.parts) = got.tok.text
        /\ got.word.name # <<>> => /\ IsValidName(Front(got.word.name))
                                   /\ Last(got.word.name) = "="
        /\ \A i \in DOMAIN got.word.parts : Spelt(got.word.parts[i])

\* Nothing the lexer and the parser treat differently: see the README.
Plain(w) ==
    /\ Range(w) \cap (Wide \cup {"'", "\\", Tick}) = {}
    /\ \A i \in 2 .. Len(w) : (w[i - 1] = "$" /\ w[i] = OpenBrace) =>
           \E k \in i + 2 .. Len(w) : /\ w[k] = CloseBrace
                                     /\ \A j \in i + 1 .. k - 1 :
                                            w[j] \notin {"$", OpenBrace, CloseBrace}

(* The lexer and the parser agree on words: what the lexer takes whole for a    *)
(* word the parser can cut (lexer.rs:435-436), if the word has no quote,        *)
(* backslash or backtick, no wide character, and in each `${` up to its `}`     *)
(* something, but no `$` or brace (parser.rs:706 takes the first `}`); and      *)
(* cutting any word panics only where a character of several bytes stands       *)
(* inside `$(` (parser.rs:684-688 slices the word byte by byte).                *)
WordsParse ==
    GotWord =>
        LET w == got.tok.text
        IN /\ Plain(w) => got.word.st = "ok"
           /\ got.word.st = "panic" =>
                  \E i, j \in DOMAIN w : /\ i < j /\ SubSeq(w, i, i + 1) = <<"$", "(">>
                                         /\ w[j] \in Wide

=============================================================================
