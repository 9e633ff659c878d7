--------------------------------- MODULE Arith ---------------------------------
(* Arithmetic expansion, $((...)): expand.rs:183-390.                           *)
(*                                                                              *)
(* Variables are pasted in as text, the text is cut into tokens, and the tokens *)
(* are evaluated while they are parsed, by precedence climbing, on machine      *)
(* integers.  The 64 bits of the code are Bits here, the 32 bits its exponents  *)
(* are cut to are ExpBits.  What it computes is compared with Value, which      *)
(* splits the tokens at the operator that binds loosest and works on the        *)
(* integers.  RECURSIVE operators follow the recursion of the code, so nothing  *)
(* is proved about this module.                                                 *)
EXTENDS Integers, Sequences, SequencesExt, FiniteSets, FiniteSetsExt

CONSTANTS
    Bits,     \* the width of an integer
    ExpBits,  \* the width an exponent is cut to
    Builds,   \* "release": an overflow wraps; "debug": it panics
    Pieces,   \* what expressions are written from: short sequences of characters
    MaxPieces,
    Bindings  \* what the environment may hold: from names to texts

ASSUME ArithAssumption == /\ Bits \in Nat /\ ExpBits \in 1 .. Bits - 1
                          /\ Builds \subseteq {"release", "debug"} /\ MaxPieces \in Nat

VARIABLES
    build, \* how the shell was built
    env,   \* the variables
    expr,  \* the pieces of the expression being written
    last   \* the last evaluation: its text and its answer

vars == <<build, env, expr, last>>

DigitValue == [c \in {"0", "1", "2", "3"} |->
                  CASE c = "0" -> 0 [] c = "1" -> 1 [] c = "2" -> 2 [] c = "3" -> 3]
Digits == DOMAIN DigitValue
Letters == {"x", "y"}

MinInt == -(2 ^ (Bits - 1))
MaxInt == 2 ^ (Bits - 1) - 1
Fits(n) == n \in MinInt .. MaxInt
Wrapped(n) == ((n - MinInt) % (2 ^ Bits)) + MinInt

(* ---------------------------- pasting variables --------------------------- *)

Span(s, i, Test(_)) == Min({j \in i .. Len(s) + 1 : j > Len(s) \/ ~Test(s[j])})
ValueOf(name) == IF name \in DOMAIN env THEN env[name] ELSE <<"0">>

\* `$` and a name, or `${`, a name and a `}` that may be missing.
RECURSIVE ExpandArithVars(_)
ExpandArithVars(s) ==
    LET braced == Len(s) > 1 /\ s[2] = "{"
        start == IF braced THEN 3 ELSE 2
        e == Span(s, start, LAMBDA c : IF braced THEN c # "}" ELSE c \in Letters \cup Digits)
        rest == SubSeq(s, IF braced THEN e + 1 ELSE e, Len(s))
    IN IF s = <<>> THEN <<>>
       ELSE IF Head(s) # "$" THEN <<Head(s)>> \o ExpandArithVars(Tail(s))
       ELSE IF ~braced /\ e = start THEN <<"$">> \o ExpandArithVars(Tail(s))
       ELSE ValueOf(SubSeq(s, start, e - 1)) \o ExpandArithVars(rest)

(* -------------------------------- tokens ---------------------------------- *)

Num(n) == [op |-> "num", n |-> n]
Op(c) == [op |-> c, n |-> 0]
Number(digits) == FoldLeft(LAMBDA n, d : 10 * n + DigitValue[d], 0, digits)

\* The tokens of a text, or no tokens and not ok.
RECURSIVE TokenizeArith(_, _)
TokenizeArith(s, tokens) ==
    LET e == Span(s, 1, LAMBDA c : c \in Digits)
        n == Number(SubSeq(s, 1, e - 1))
        star == Len(s) > 1 /\ s[1] = "*" /\ s[2] = "*"
        c == Head(s)
    IN IF s = <<>> THEN [ok |-> TRUE, tokens |-> tokens]
       ELSE IF c = " " THEN TokenizeArith(Tail(s), tokens)
       ELSE IF c \in Digits
            THEN IF n > MaxInt THEN [ok |-> FALSE, tokens |-> <<>>]
                 ELSE TokenizeArith(SubSeq(s, e, Len(s)), Append(tokens, Num(n)))
       ELSE IF star THEN TokenizeArith(SubSeq(s, 3, Len(s)), Append(tokens, Op("**")))
       ELSE IF c \in {"+", "-", "*", "/", "%", "(", ")"}
            THEN TokenizeArith(Tail(s), Append(tokens, Op(c)))
       ELSE [ok |-> FALSE, tokens |-> <<>>]

(* ------------------------------ evaluation -------------------------------- *)

Quotient(a, b) ==
    LET Abs(n) == IF n < 0 THEN -n ELSE n
        q == Abs(a) \div Abs(b)
    IN IF (a < 0) # (b < 0) THEN -q ELSE q
Remainder(a, b) == a - b * Quotient(a, b)

Power(a, n) == IF n = 0 THEN 1 ELSE a ^ n

Ok(n, pos) == [st |-> "ok", n |-> n, pos |-> pos]
Failed(st, pos) == [st |-> st, n |-> 0, pos |-> pos]
Machine(n, pos) == IF Fits(n) THEN Ok(n, pos)
                   ELSE IF build = "release" THEN Ok(Wrapped(n), pos) ELSE Failed("panic", pos)

\* The quotient of the least integer by -1, and its remainder, panic in every build.
ApplyBinop(op, a, b, pos) ==
    CASE op = "+" -> Machine(a + b, pos)
      [] op = "-" -> Machine(a - b, pos)
      [] op = "*" -> Machine(a * b, pos)
      [] op \in {"/", "%"} /\ b = 0 -> Failed("err", pos)
      [] op \in {"/", "%"} /\ a = MinInt /\ b = -1 -> Failed("panic", pos)
      [] op = "/" /\ b # 0 /\ ~(a = MinInt /\ b = -1) -> Ok(Quotient(a, b), pos)
      [] op = "%" /\ b # 0 /\ ~(a = MinInt /\ b = -1) -> Ok(Remainder(a, b), pos)
      [] op = "**" -> IF b < 0 THEN Ok(0, pos) ELSE Machine(Power(a, b % (2 ^ ExpBits)), pos)

OpAt(T, i) == IF i \in DOMAIN T THEN T[i].op ELSE "end"
LeftPower_AllAlike(op) ==   \* mutant: `*` binds no tighter than `+`
    IF op \in {"+", "-", "*", "/", "%"} THEN 10 ELSE 30

LeftPower(op) == CASE op \in {"+", "-"} -> 10 [] op \in {"*", "/", "%"} -> 20 [] op = "**" -> 30
RightPower(op) == IF op = "**" THEN 29 ELSE LeftPower(op) + 1
BinaryOps == {"+", "-", "*", "/", "%", "**"}

RECURSIVE ParsePrefix(_, _), ParseExpr(_, _, _), ParseRest(_, _, _)

ParsePrefix(T, pos) ==
    LET op == OpAt(T, pos)
        operand == ParsePrefix(T, pos + 1)
        inner == ParseExpr(T, pos + 1, 0)
    IN CASE op = "num" -> Ok(T[pos].n, pos + 1)
         [] op = "-" -> IF operand.st = "ok" THEN Machine(-operand.n, operand.pos) ELSE operand
         [] op = "+" -> operand
         [] op = "(" -> IF inner.st # "ok" THEN inner
                        ELSE IF OpAt(T, inner.pos) # ")" THEN Failed("err", inner.pos)
                        ELSE Ok(inner.n, inner.pos + 1)
         [] OTHER -> Failed("err", pos)

\* The loop over the operators that bind at least as tightly as minBp.
ParseRest(T, lhs, minBp) ==
    LET op == OpAt(T, lhs.pos)
        rhs == ParseExpr(T, lhs.pos + 1, RightPower(op))
    IN IF lhs.st # "ok" \/ op \notin BinaryOps THEN lhs
       ELSE IF LeftPower(op) < minBp THEN lhs
       ELSE IF rhs.st # "ok" THEN rhs
       ELSE ParseRest(T, ApplyBinop(op, lhs.n, rhs.n, rhs.pos), minBp)

ParseExpr(T, pos, minBp) == ParseRest(T, ParsePrefix(T, pos), minBp)

ParseArith(s) ==
    LET t == TokenizeArith(s, <<>>)
        r == ParseExpr(t.tokens, 1, 0)
    IN IF ~t.ok THEN Failed("err", 0)
       ELSE IF r.st = "ok" /\ r.pos <= Len(t.tokens) THEN Failed("err", r.pos)
       ELSE r

EvalArith(s) == ParseArith(ExpandArithVars(s))

(* ------------------------------- the calls -------------------------------- *)

Init == /\ build \in Builds
        /\ env \in Bindings
        /\ expr = <<>>
        /\ last = [text |-> <<>>, st |-> "none", n |-> 0]

Write(piece) ==
    /\ Len(expr) < MaxPieces
    /\ expr' = Append(expr, piece)
    /\ last' = [text |-> <<>>, st |-> "none", n |-> 0]
    /\ UNCHANGED <<build, env>>

Evaluate ==
    LET s == FlattenSeq(expr)
        r == EvalArith(s)
    IN /\ expr' = <<>>
       /\ last' = [text |-> s, st |-> r.st, n |-> r.n]
       /\ UNCHANGED <<build, env>>

Next == Evaluate \/ \E piece \in Pieces : Write(piece)

Spec == Init /\ [][Next]_vars

(* ------------------------- what it should compute ------------------------- *)

Exact(n) == IF Fits(n) THEN [st |-> "ok", n |-> n] ELSE [st |-> "range", n |-> 0]
Wrong == [st |-> "err", n |-> 0]

\* An exponent has a width of its own, and a negative one gives zero.
Combine(op, a, b) ==
    IF a.st # "ok" THEN a ELSE IF b.st # "ok" THEN b
    ELSE CASE op = "+" -> Exact(a.n + b.n)
           [] op = "-" -> Exact(a.n - b.n)
           [] op = "*" -> Exact(a.n * b.n)
           [] op = "/" -> IF b.n = 0 THEN Wrong ELSE Exact(Quotient(a.n, b.n))
           [] op = "%" -> IF b.n = 0 THEN Wrong
                          ELSE IF Exact(Quotient(a.n, b.n)).st = "ok"
                               THEN Exact(Remainder(a.n, b.n)) ELSE Exact(MaxInt + 1)
           [] op = "**" -> IF b.n < 0 THEN Exact(0)
                           ELSE IF b.n >= 2 ^ ExpBits THEN Exact(MaxInt + 1)
                           ELSE Exact(Power(a.n, b.n))

Depth(T, i) == Cardinality({j \in 1 .. i : T[j].op = "("})
               - Cardinality({j \in 1 .. i - 1 : T[j].op = ")"})
\* The places, outside parentheses, of the given operators between two operands.
Splits(T, ops) ==
    {i \in 2 .. Len(T) - 1 : /\ T[i].op \in ops /\ Depth(T, i) = 0
                             /\ T[i - 1].op \in {"num", ")"}}

RECURSIVE Value(_)
ValueAt(T, i) ==
    Combine(T[i].op, Value(SubSeq(T, 1, i - 1)), Value(SubSeq(T, i + 1, Len(T))))
Value(T) ==
    LET sums == Splits(T, {"+", "-"})
        products == Splits(T, {"*", "/", "%"})
        powers == Splits(T, {"**"})
        last_ == Len(T)
        operand == Value(Tail(T))
    IN IF T = <<>> THEN Wrong
       ELSE IF sums # {} THEN ValueAt(T, Max(sums))
       ELSE IF products # {} THEN ValueAt(T, Max(products))
       ELSE IF powers # {} THEN ValueAt(T, Min(powers))
       ELSE IF T[1].op = "num" THEN IF last_ = 1 THEN Exact(T[1].n) ELSE Wrong
       ELSE IF T[1].op = "+" THEN operand
       ELSE IF T[1].op = "-" THEN Combine("-", Exact(0), operand)
       ELSE IF T[1].op = "(" /\ T[last_].op = ")" THEN Value(SubSeq(T, 2, last_ - 1))
       ELSE Wrong

Meant(s) ==
    LET t == TokenizeArith(ExpandArithVars(s), <<>>)
    IN IF t.ok THEN Value(t.tokens) ELSE Wrong

(* ------------------------------- properties ------------------------------- *)

(* An expression evaluates to what its operators mean: precedence, association, *)
(* signs and rounding are right (expand.rs:313-390) wherever every value in it  *)
(* fits; what is not an expression, or divides by zero, is an error.  None      *)
(* kills the shell unless some part of it has a value out of range, and with    *)
(* wrapping only if it divides too: the least integer by -1 (expand.rs:343,     *)
(* 362-387).  The rest need then not be an expression, for a value is computed  *)
(* before the text after it is read.                                            *)
ArithIsRight ==
    LET meant == Meant(last.text)
        T == TokenizeArith(ExpandArithVars(last.text), <<>>).tokens
    IN CASE last.st = "none" -> TRUE
         [] last.st = "panic" ->
              /\ \E i, j \in DOMAIN T : Value(SubSeq(T, i, j)).st = "range"
              /\ build = "release" => \E i \in DOMAIN T : T[i].op \in {"/", "%"}
         [] OTHER -> /\ Fits(last.n)
                     /\ meant.st # "range" => last.st = meant.st /\ last.n = meant.n
=============================================================================
