-------------------------------- MODULE Parser --------------------------------
(* The recursive-descent parser of bash_parser (parser.rs), over the tokens the *)
(* lexer hands it.  A text is a sequence of tokens.  A word token carries the   *)
(* texts of the command substitutions it holds: each is parsed by a parser of   *)
(* its own, which shares one thing with the parser around it, the thread-local  *)
(* queue of here-document bodies.  How characters become tokens and words is    *)
(* the module Lexer.                                                            *)
(*                                                                              *)
(* RECURSIVE operators follow the recursion of the code, so nothing is proved   *)
(* about this module: TLC compares it with definitions that do not recurse      *)
(* over the grammar.                                                            *)
EXTENDS Naturals, Sequences, SequencesExt, FiniteSets, FiniteSetsExt

CONSTANTS
    Alphabets,  \* what scripts are typed from: [pieces: sequences of tokens; max: the most
                \* of them in a script; again: also where an earlier parse left something]
    MaxQueue,   \* bodies left over beyond which no further script is run
    Aborts      \* TRUE: a panic aborts (wasm32); FALSE: it unwinds (native)

ASSUME ParserAssumption ==
    /\ MaxQueue \in Nat /\ Aborts \in BOOLEAN
    /\ \A a \in Alphabets : a.max \in Nat /\ a.again \in BOOLEAN

VARIABLES
    text,      \* the pieces of the script being written
    queue,     \* HEREDOC_QUEUE: the bodies collected and not yet placed
    borrowed,  \* the queue's RefCell is mutably borrowed
    last       \* the last parse: what it read, found and answered

vars == <<text, queue, borrowed, last>>

(* ------------------------------- tokens ----------------------------------- *)

Token(kind) == [kind |-> kind]
Word(w) == [kind |-> "Word", w |-> w, tabs |-> FALSE, assign |-> FALSE, subs |-> <<>>]
Assignment(w, subs) == [Word(w) EXCEPT !.assign = TRUE, !.subs = subs]
Substitution(w, subs) == [Word(w) EXCEPT !.subs = subs]
DoubleQuoted(subs) == [kind |-> "DoubleQuoteOpen", subs |-> subs]
RedirectOp(op, fd) == [kind |-> "Redirect", op |-> op, fd |-> fd]
HereDoc(delim, quoted, strip) ==
    [kind |-> "HereDoc", delim |-> delim, quoted |-> quoted, strip |-> strip]

EndsCommand == {"Eof", "Newline", "Semi", "Amp", "AndAnd", "OrOr", "Pipe", "RParen", "RBrace"}
StartsWord == {"Word", "SingleQuote", "DoubleQuoteOpen"}
Reserved == {"if", "for", "while", "until", "case", "select"}
Numbers == {"0", "1", "2"}

(* ----------------------------- parser states ------------------------------ *)

Start(q, b) == [pos |-> 1, pending |-> <<>>, queue |-> q, borrowed |-> b,
                st |-> "ok", node |-> <<>>]

Fail(s) == [s EXCEPT !.st = "err"]
Panic(s) == [s EXCEPT !.st = "panic"]
Yield(s, node) == [s EXCEPT !.node = node]
Advance(s) == [s EXCEPT !.pos = @ + 1]
Kind(T, s) == IF s.pos > Len(T) THEN "Eof" ELSE T[s.pos].kind

\* The `?` of the code: go on only from a success.
Then(s, Rest(_)) == IF s.st = "ok" THEN Rest(s) ELSE s

(* -------------------------- here-document bodies -------------------------- *)

Line(T, pos) ==
    LET ends == {i \in pos .. Len(T) : T[i].kind = "Newline"}
    IN SubSeq(T, pos, IF ends = {} THEN Len(T) ELSE Min(ends) - 1)

Delimits(line, doc) ==
    \/ line = <<Word(doc.delim)>>
    \/ doc.strip /\ line = <<[Word(doc.delim) EXCEPT !.tabs = TRUE]>>

\* The lines up to the delimiter; the text may not end before it.
RECURSIVE CollectBody(_, _, _, _)
CollectBody(T, pos, doc, body) ==
    LET line == Line(T, pos)
        after == Min({pos + Len(line) + 1, Len(T) + 1})
    IN IF Delimits(line, doc) THEN [ok |-> TRUE, pos |-> after, body |-> body]
       ELSE IF after > Len(T) THEN [ok |-> FALSE, pos |-> after, body |-> body]
       ELSE CollectBody(T, after, doc, Append(body, line))

CollectBodies(T, pos, docs) ==
    FoldLeft(LAMBDA acc, doc :
                IF ~acc.ok THEN acc
                ELSE LET c == CollectBody(T, acc.pos, doc, <<>>)
                     IN [ok |-> c.ok, pos |-> c.pos,
                         bodies |-> Append(acc.bodies, [quoted |-> doc.quoted, body |-> c.body])],
             [ok |-> TRUE, pos |-> pos, bodies |-> <<>>], docs)

FlushHeredocs(T, s) ==
    LET c == CollectBodies(T, s.pos, s.pending)
        r == [s EXCEPT !.pending = <<>>, !.pos = c.pos]
    IN IF s.pending = <<>> THEN s
       ELSE IF ~c.ok THEN Fail(r)
       ELSE IF s.borrowed THEN Panic(r)
       ELSE [r EXCEPT !.queue = @ \o c.bodies]

RECURSIVE SkipNewlines(_, _)
SkipNewlines(T, s) ==
    IF Kind(T, s) = "Newline"
    THEN Then(FlushHeredocs(T, Advance(s)), LAMBDA r : SkipNewlines(T, r))
    ELSE s

SkipListSeparator(T, s) == IF Kind(T, s) = "Semi" THEN Advance(s) ELSE s

(* -------------------------------- the tree -------------------------------- *)

Simple(assigns, name, args, redirects) ==
    [kind |-> "Simple", assigns |-> assigns, name |-> name, args |-> args,
     redirects |-> redirects]
Empty == Simple(<<>>, <<>>, <<>>, <<>>)
PipelineOf(stages, negated) == [kind |-> "Pipeline", stages |-> stages, negated |-> negated]
Connect(op, l, r) == [kind |-> IF op = "AndAnd" THEN "And" ELSE "Or", left |-> l, right |-> r]
Background(c) == [kind |-> "Background", job |-> c]
Enclosed(kind, body) == [kind |-> kind, body |-> body]
WordOf(token, scripts) == [token |-> token, scripts |-> scripts]
NoWord == WordOf(Word(""), <<>>)

(* -------------------- words, redirections, one command -------------------- *)

\* Of a nested parser only the queue, its borrow and the answer come back.
Nested(s, r, node) == [s EXCEPT !.st = r.st, !.queue = r.queue, !.borrowed = r.borrowed,
                                !.node = node]

RECURSIVE Parse(_, _, _), ParseScript(_, _)

\* Parse the command substitutions of a word in turn.
RECURSIVE ParseSubsts(_, _, _)
ParseSubsts(s, subs, scripts) ==
    IF subs = <<>> THEN Yield(s, scripts)
    ELSE LET r == Parse(Head(subs), s.queue, s.borrowed)
         IN Then(Nested(s, r, s.node),
                 LAMBDA n : ParseSubsts(n, Tail(subs), Append(scripts, r.node)))

\* One token's worth of a word; where no word starts, the empty word.
ParseWord(T, s) ==
    IF Kind(T, s) \notin StartsWord THEN Yield(s, NoWord)
    ELSE LET token == T[s.pos]
         IN IF token.kind = "SingleQuote" THEN Yield(Advance(s), WordOf(token, <<>>))
            ELSE Then(ParseSubsts(Advance(s), token.subs, <<>>),
                      LAMBDA r : Yield(r, WordOf(token, r.node)))

\* Each operator's kind of redirection and the descriptor it stands for unless one is written.
RedirectKind == [Less |-> "Read", Greater |-> "Write", GreaterGreater |-> "Append",
                 LessGreater |-> "ReadWrite", GreaterPipe |-> "Clobber",
                 GreaterAmp |-> "Write", LessAmp |-> "Read"]
DefaultFd(op) == IF op \in {"Less", "LessGreater", "LessAmp"} THEN 0 ELSE 1
FdOf(token) == IF token.fd = {} THEN {DefaultFd(token.op)} ELSE token.fd

RedirectTo(token, target, word) ==
    [kind |-> RedirectKind[token.op], fd |-> FdOf(token), op |-> token,
     target |-> target, word |-> word]
\* `literal`: the body is text (a quoted delimiter); `body` is filled in after the parse.
Heredoc(token) == [kind |-> "Read", fd |-> {0}, op |-> token, target |-> "heredoc",
                   literal |-> token.quoted, body |-> <<>>]

ParseDupRedirect(T, s, token) ==
    LET to == IF Kind(T, s) = "Word" THEN T[s.pos] ELSE Word("")
    IN IF to.w = "-" THEN Yield(Advance(s), RedirectTo(token, "close", WordOf(to, <<>>)))
       ELSE IF to.w \in Numbers
            THEN Yield(Advance(s), RedirectTo(token, "fd", WordOf(to, <<>>)))
            ELSE Then(ParseWord(T, s), LAMBDA r : Yield(r, RedirectTo(token, "word", r.node)))

ParseRedirect(T, s) ==
    LET token == T[s.pos]
        n == Advance(s)
    IN IF token.kind = "HereDoc"
       THEN [n EXCEPT !.pending = Append(@, token), !.node = Heredoc(token)]
       ELSE IF token.op \in {"GreaterAmp", "LessAmp"} THEN ParseDupRedirect(T, n, token)
       ELSE Then(ParseWord(T, n), LAMBDA r : Yield(r, RedirectTo(token, "word", r.node)))

RECURSIVE ParseSimpleCommand(_, _, _)
ParseSimpleCommand(T, s, sc) ==
    LET kind == Kind(T, s)
        assigns == kind = "Word" /\ sc.name = <<>> /\ T[s.pos].assign
    IN CASE kind \in EndsCommand -> Yield(s, sc)
         [] kind \in {"Redirect", "HereDoc"} ->
              Then(ParseRedirect(T, s), LAMBDA r :
                  ParseSimpleCommand(T, r, [sc EXCEPT !.redirects = Append(@, r.node)]))
         [] kind \in StartsWord ->
              Then(ParseWord(T, s), LAMBDA r :
                  ParseSimpleCommand(T, r,
                      IF assigns THEN [sc EXCEPT !.assigns = Append(@, r.node)]
                      ELSE IF sc.name = <<>> THEN [sc EXCEPT !.name = <<r.node>>]
                      ELSE [sc EXCEPT !.args = Append(@, r.node)]))
         [] OTHER -> Fail(s)   \* `name (` among them: no function definitions

(* ------------------------- pipelines, lists, scripts ---------------------- *)

ParseSubshell(T, s) ==
    Then(SkipNewlines(T, Advance(s)), LAMBDA n :
    Then(ParseScript(T, n), LAMBDA b :
        IF Kind(T, b) = "RParen" THEN Yield(Advance(b), Enclosed("Subshell", b.node))
        ELSE Fail(b)))

ParseGroup(T, s) ==
    Then(SkipNewlines(T, Advance(s)), LAMBDA n :
    Then(ParseScript(T, n), LAMBDA b :
    Then(SkipNewlines(T, SkipListSeparator(T, b)), LAMBDA e :
        IF Kind(T, e) = "RBrace" THEN Yield(Advance(e), Enclosed("Group", b.node))
        ELSE Fail(e))))

ParseCommand(T, s) ==
    LET kind == Kind(T, s)
    IN CASE kind = "LParen" -> ParseSubshell(T, s)
         [] kind = "LBrace" -> ParseGroup(T, s)
         [] kind = "Word" /\ T[s.pos].w \in Reserved -> Fail(s)
         [] OTHER -> ParseSimpleCommand(T, s, Empty)

\* s.node is the stage just read.
RECURSIVE ParseStages(_, _, _, _)
ParseStages(T, s, stages, negated) ==
    IF s.node.kind # "Simple" THEN Fail(s)
    ELSE LET read == Append(stages, s.node)
         IN IF Kind(T, s) # "Pipe" THEN Yield(s, PipelineOf(read, negated))
            ELSE Then(SkipNewlines(T, Advance(s)), LAMBDA n :
                 Then(ParseCommand(T, n), LAMBDA c : ParseStages(T, c, read, negated)))

ParsePipeline(T, s, negated) ==
    Then(ParseCommand(T, s), LAMBDA c :
        IF Kind(T, c) = "Pipe" THEN ParseStages(T, c, <<>>, negated)
        ELSE IF negated /\ c.node.kind = "Simple" THEN Yield(c, PipelineOf(<<c.node>>, TRUE))
        ELSE c)

ParsePipelineCmd_NegationLost(T, s) ==   \* mutant: `!` is read and forgotten
    IF Kind(T, s) = "Bang" THEN ParsePipeline(T, Advance(s), FALSE)
    ELSE ParsePipeline(T, s, FALSE)

ParsePipelineCmd(T, s) ==
    IF Kind(T, s) = "Bang" THEN ParsePipeline(T, Advance(s), TRUE)
    ELSE ParsePipeline(T, s, FALSE)

\* s.node is the list read so far.
RECURSIVE ParseAndOr(_, _)
ParseAndOr_ToTheRight(T, s) ==   \* mutant: the rest of the list is the right side
    LET op == Kind(T, s)
    IN IF op \notin {"AndAnd", "OrOr"} THEN s
       ELSE Then(SkipNewlines(T, Advance(s)), LAMBDA n :
            Then(ParsePipelineCmd(T, n), LAMBDA r :
            Then(ParseAndOr(T, r), LAMBDA l : Yield(l, Connect(op, s.node, l.node)))))

ParseAndOr(T, s) ==
    LET op == Kind(T, s)
    IN IF op \notin {"AndAnd", "OrOr"} THEN s
       ELSE Then(SkipNewlines(T, Advance(s)), LAMBDA n :
            Then(ParsePipelineCmd(T, n), LAMBDA r :
                 ParseAndOr(T, Yield(r, Connect(op, s.node, r.node)))))

ParseListItem(T, s) ==
    Then(ParsePipelineCmd(T, s), LAMBDA first :
    Then(ParseAndOr(T, first), LAMBDA l :
        IF Kind(T, l) = "Amp" THEN Yield(Advance(l), Background(l.node)) ELSE l))

RECURSIVE ParseItems(_, _, _)
ParseItems(T, s, cmds) ==
    IF Kind(T, s) \in {"Eof", "RParen", "RBrace"} THEN Yield(s, cmds)
    ELSE Then(ParseListItem(T, s), LAMBDA i :
         Then(SkipNewlines(T, SkipListSeparator(T, i)), LAMBDA r :
              ParseItems(T, r, Append(cmds, i.node))))

ParseScript(T, s) == Then(SkipNewlines(T, s), LAMBDA r : ParseItems(T, r, <<>>))

(* --------------------- placing the bodies in the tree --------------------- *)

FillRedirect_QuotedExpands(r, rest) ==   \* mutant: a quoted delimiter expands too
    IF r.target # "heredoc" \/ rest = <<>> THEN [node |-> r, rest |-> rest, st |-> "ok"]
    ELSE LET words == SelectSeq(FlattenSeq(Head(rest).body), LAMBDA t : "subs" \in DOMAIN t)
             subs == FlattenSeq([i \in DOMAIN words |-> words[i].subs])
             st == ParseSubsts(Start(<<>>, TRUE), subs, <<>>).st
         IN [node |-> [r EXCEPT !.body = Head(rest).body], rest |-> Tail(rest), st |-> st]

\* The substitutions of a body are parsed while the queue is borrowed; a body
\* whose substitutions do not parse is taken as text.
FillRedirect(r, rest) ==
    IF r.target # "heredoc" \/ rest = <<>> THEN [node |-> r, rest |-> rest, st |-> "ok"]
    ELSE LET doc == Head(rest)
             words == SelectSeq(FlattenSeq(doc.body), LAMBDA t : "subs" \in DOMAIN t)
             subs == FlattenSeq([i \in DOMAIN words |-> words[i].subs])
             st == IF doc.quoted THEN "ok" ELSE ParseSubsts(Start(<<>>, TRUE), subs, <<>>).st
         IN [node |-> [r EXCEPT !.body = doc.body, !.literal = doc.quoted \/ st = "err"],
             rest |-> Tail(rest),
             st |-> IF st = "panic" THEN "panic" ELSE "ok"]

\* Fill a sequence, each element by Fill(element, bodies left), up to a panic.
FillEach(Fill(_, _), elements, rest) ==
    FoldLeft(LAMBDA acc, e :
                IF acc.st # "ok" THEN acc
                ELSE LET f == Fill(e, acc.rest)
                     IN [f EXCEPT !.node = Append(acc.node, @)],
             [node |-> <<>>, rest |-> rest, st |-> "ok"], elements)

FillSimple(sc, rest) ==
    LET f == FillEach(FillRedirect, sc.redirects, rest)
    IN [f EXCEPT !.node = [sc EXCEPT !.redirects = f.node]]

RECURSIVE FillCmd(_, _)
FillScript(script, rest) == FillEach(LAMBDA c, left : FillCmd(c, left), script, rest)

FillCmd_ListsSkipped(c, rest) ==   \* mutant: the bodies of groups are not walked
    CASE c.kind = "Simple" -> FillSimple(c, rest)
      [] c.kind = "Pipeline" ->
           LET f == FillEach(FillSimple, c.stages, rest)
           IN [f EXCEPT !.node = [c EXCEPT !.stages = f.node]]
      [] OTHER -> [node |-> c, rest |-> rest, st |-> "ok"]

FillCmd(c, rest) ==
    CASE c.kind = "Simple" -> FillSimple(c, rest)
      [] c.kind = "Pipeline" ->
           LET f == FillEach(FillSimple, c.stages, rest)
           IN [f EXCEPT !.node = [c EXCEPT !.stages = f.node]]
      [] c.kind \in {"And", "Or"} ->
           LET f == FillScript(<<c.left, c.right>>, rest)
           IN IF f.st # "ok" THEN f
              ELSE [f EXCEPT !.node = [c EXCEPT !.left = f.node[1], !.right = f.node[2]]]
      [] c.kind = "Background" ->
           LET f == FillCmd(c.job, rest) IN [f EXCEPT !.node = [c EXCEPT !.job = f.node]]
      [] OTHER ->
           LET f == FillScript(c.body, rest) IN [f EXCEPT !.node = [c EXCEPT !.body = f.node]]

FillHeredocBodies_QueueKept(s) ==   \* mutant: the queue is not drained
    IF s.borrowed THEN Panic(s)
    ELSE LET f == FillScript(s.node, s.queue) IN [s EXCEPT !.node = f.node, !.st = f.st]

\* A panic drops the borrow where it unwinds, and leaves it where it aborts.
FillHeredocBodies(s) ==
    LET f == FillScript(s.node, s.queue)
    IN IF s.borrowed THEN Panic(s)
       ELSE [s EXCEPT !.node = f.node, !.queue = <<>>, !.st = f.st,
                      !.borrowed = f.st = "panic" /\ Aborts]

Parse(T, q, b) == Then(ParseScript(T, Start(q, b)), FillHeredocBodies)

(* ------------------------------- the calls -------------------------------- *)

NoParse == [st |-> "none"]

Init == /\ text = <<>>
        /\ queue = <<>>
        /\ borrowed = FALSE
        /\ last = NoParse

\* The caller writes its next script.
Type(piece) ==
    /\ \E a \in Alphabets : /\ Len(text) < a.max
                            /\ Range(text) \cup {piece} \subseteq a.pieces
                            /\ a.again \/ (queue = <<>> /\ ~borrowed)
    /\ text' = Append(text, piece)
    /\ last' = NoParse
    /\ UNCHANGED <<queue, borrowed>>

\* One call of parse().
Run ==
    LET T == FlattenSeq(text)
        r == Parse(T, queue, borrowed)
    IN /\ Len(queue) <= MaxQueue
       /\ queue' = r.queue
       /\ borrowed' = r.borrowed
       /\ last' = [st |-> r.st, text |-> T, read |-> r.pos - 1, script |-> r.node,
                   queue |-> queue, borrowed |-> borrowed]
       /\ text' = <<>>

Next == Run \/ \E piece \in UNION {a.pieces : a \in Alphabets} : Type(piece)

Spec == Init /\ [][Next]_vars

(* ---------------------- reading a tree back into tokens ------------------- *)

Accepted == last.st = "ok"

RECURSIVE SimplesOf(_)
SimplesOf(script) ==
    FlattenSeq([i \in DOMAIN script |->
        LET c == script[i]
        IN CASE c.kind = "Simple" -> <<c>>
             [] c.kind = "Pipeline" -> c.stages
             [] c.kind \in {"And", "Or"} -> SimplesOf(<<c.left, c.right>>)
             [] c.kind = "Background" -> SimplesOf(<<c.job>>)
             [] OTHER -> SimplesOf(c.body)])

Across(script, Part(_)) ==
    LET simples == SimplesOf(script) IN FlattenSeq([i \in DOMAIN simples |-> Part(simples[i])])

WordsOf(script) == Across(script, LAMBDA sc : sc.assigns \o sc.name \o sc.args)
RedirectsOf(script) == Across(script, LAMBDA sc : sc.redirects)
TokensOf(words) == [i \in DOMAIN words |-> words[i].token]

RECURSIVE OperatorsOf(_)
OperatorsOf(script) ==
    FlattenSeq([i \in DOMAIN script |->
        LET c == script[i]
        IN CASE c.kind = "Simple" -> <<>>
             [] c.kind = "Pipeline" ->
                  (IF c.negated THEN <<"Bang">> ELSE <<>>) \o
                  [n \in 1 .. Len(c.stages) - 1 |-> "Pipe"]
             [] c.kind = "And" -> OperatorsOf(<<c.left>>) \o <<"AndAnd">> \o OperatorsOf(<<c.right>>)
             [] c.kind = "Or" -> OperatorsOf(<<c.left>>) \o <<"OrOr">> \o OperatorsOf(<<c.right>>)
             [] c.kind = "Background" -> OperatorsOf(<<c.job>>) \o <<"Amp">>
             [] c.kind = "Subshell" -> <<"LParen">> \o OperatorsOf(c.body) \o <<"RParen">>
             [] OTHER -> <<"LBrace">> \o OperatorsOf(c.body) \o <<"RBrace">>])

\* A text up to the first `)` or `}` with nothing before it to close.
Opening == {"LParen", "LBrace"}
Closing == {"RParen", "RBrace"}
Count(T, kinds) == Len(SelectSeq(T, LAMBDA t : t.kind \in kinds))
UpToStray(T) ==
    LET strays == {i \in DOMAIN T :
                      Count(SubSeq(T, 1, i), Closing) > Count(SubSeq(T, 1, i), Opening)}
    IN SubSeq(T, 1, Min(strays \cup {Len(T) + 1}) - 1)

\* The same three readings of a text without here-documents.
KindAt(T, i) == IF i \in DOMAIN T THEN T[i].kind ELSE "Eof"
IsTarget(T, i) == KindAt(T, i) \in StartsWord /\ KindAt(T, i - 1) = "Redirect"
Pick(T, Test(_), Show(_)) ==
    LET places == SelectSeq([i \in DOMAIN T |-> i], Test)
    IN [n \in DOMAIN places |-> Show(places[n])]
WordTokens(T) ==
    Pick(T, LAMBDA i : KindAt(T, i) \in StartsWord /\ ~IsTarget(T, i), LAMBDA i : T[i])
RedirectTokens(T) ==
    Pick(T, LAMBDA i : KindAt(T, i) = "Redirect",
         LAMBDA i : <<T[i], IF IsTarget(T, i + 1) THEN T[i + 1] ELSE NoWord.token>>)
\* `!` before `(` or `{` is read and forgotten.
OperatorTokens(T) ==
    Pick(T, LAMBDA i : \/ KindAt(T, i) \in {"AndAnd", "OrOr", "Amp", "Pipe"} \cup Opening \cup Closing
                       \/ KindAt(T, i) = "Bang" /\ KindAt(T, i + 1) \notin Opening,
         LAMBDA i : T[i].kind)

(* ------------------------------- properties ------------------------------- *)

(* What parse() accepts it has read in order and without a gap: the words, the  *)
(* redirections with their targets and the operators of the tree are those of   *)
(* the text (parser.rs:96-338, 427-499).  Of two departures from the grammar    *)
(* (parser.rs:6, 9) it says what the code does: the text ends, and the script   *)
(* with it, at the first bracket that closes nothing, and there alone; and `!`  *)
(* before a bracket leaves no trace in the tree, and there alone.               *)
TreeReadsBack ==
    (Accepted /\ \A i \in DOMAIN last.text : last.text[i].kind # "HereDoc") =>
        LET T == UpToStray(last.text)
            rs == RedirectsOf(last.script)
        IN /\ TokensOf(WordsOf(last.script)) = WordTokens(T)
           /\ [i \in DOMAIN rs |-> <<rs[i].op, rs[i].word.token>>] = RedirectTokens(T)
           /\ OperatorsOf(last.script) = OperatorTokens(T)

RECURSIVE WellShaped(_)
WellShaped(script) ==
    \A i \in DOMAIN script :
        LET c == script[i]
            AndOr == {"And", "Or"}
        IN CASE c.kind = "Simple" -> TRUE
             [] c.kind = "Pipeline" -> /\ \A n \in DOMAIN c.stages : c.stages[n].kind = "Simple"
                                       /\ c.negated \/ Len(c.stages) >= 2
             [] c.kind \in AndOr -> /\ c.left.kind # "Background"
                                    /\ c.right.kind \notin AndOr \cup {"Background"}
                                    /\ WellShaped(<<c.left, c.right>>)
             [] c.kind = "Background" -> c.job.kind # "Background" /\ WellShaped(<<c.job>>)
             [] OTHER -> WellShaped(c.body)

(* The tree has the shape of the grammar at the head of parser.rs: `&&` and     *)
(* `||` bind equally and to the left, `|` tighter, `&` takes a whole and-or     *)
(* list, stages of a pipeline are simple commands.                              *)
TreeFollowsGrammar == Accepted => WellShaped(last.script)

\* The bodies a text gives its here-documents, line by line.
RECURSIVE BodiesOf(_, _, _)
BodiesOf(lines, open, body) ==
    IF lines = <<>> THEN <<>>
    ELSE IF open = <<>>
    THEN BodiesOf(Tail(lines), SelectSeq(Head(lines), LAMBDA t : t.kind = "HereDoc"), <<>>)
    ELSE IF Delimits(Head(lines), Head(open))
    THEN <<body>> \o BodiesOf(Tail(lines), Tail(open), <<>>)
    ELSE BodiesOf(Tail(lines), open, Append(body, Head(lines)))

RECURSIVE LinesOf(_, _)
LinesOf(T, pos) ==
    IF pos > Len(T) THEN <<>> ELSE <<Line(T, pos)>> \o LinesOf(T, pos + Len(Line(T, pos)) + 1)

(* The k-th here-document of a script has the k-th body of its text, whatever   *)
(* commands it stands in; one whose line never ends has none.  The code relies  *)
(* on the tree being walked in the order the bodies were queued                 *)
(* (parser.rs:808-861).  It holds when nothing was left in the queue and no     *)
(* command of the script has a substitution, whose own parse would empty it.    *)
BodiesReachTheirHeredocs ==
    (/\ Accepted /\ last.read = Len(last.text) /\ last.queue = <<>>
     /\ \A i \in DOMAIN last.text : last.text[i].kind = "DoubleQuoteOpen" => last.text[i].subs = <<>>
     /\ LET words == WordsOf(last.script) IN \A i \in DOMAIN words : words[i].scripts = <<>>) =>
        LET docs == SelectSeq(RedirectsOf(last.script), LAMBDA r : r.target = "heredoc")
            bodies == BodiesOf(LinesOf(last.text, 1), <<>>, <<>>)
        IN \A i \in DOMAIN docs :
               docs[i].body = IF i \in DOMAIN bodies THEN bodies[i] ELSE <<>>

\* The tokens of a text and of the substitutions in it.
RECURSIVE TokensIn(_)
TokensIn(T) ==
    Range(T) \cup UNION {UNION {TokensIn(sub) : sub \in Range(t.subs)} :
                         t \in {u \in Range(T) : "subs" \in DOMAIN u}}
HasSubst(T) == \E t \in TokensIn(T) : "subs" \in DOMAIN t /\ t.subs # <<>>

(* A parse panics only where an unquoted here-document's body, its own or one   *)
(* left in the queue, holds a command substitution, or after an earlier panic   *)
(* that aborted, for the borrow that leaves is there for good                   *)
(* (parser.rs:804-812, 854).                                                    *)
PanicNeedsSubstInBody ==
    last.st = "panic" =>
        \/ last.borrowed
        \/ /\ HasSubst(last.text)
           /\ \E t \in TokensIn(last.text) : t.kind = "HereDoc" /\ ~t.quoted
        \/ \E d \in Range(last.queue) : ~d.quoted /\ HasSubst(FlattenSeq(d.body))

(* Only a parse that fails leaves bodies behind for the next one                *)
(* (parser.rs:28-29, 811).                                                      *)
OnlyFailuresLeaveBodies ==
    [][queue' # queue => queue' = <<>> \/ last'.st = "err"]_vars

(* parse() answers with a script or an error (parser.rs:26) for a here-document *)
(* whose body has the command substitution ast.rs:144 promises to expand.       *)
ParseAnswers == last.st # "panic"

=============================================================================
