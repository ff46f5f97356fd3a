-------------------------- MODULE AddressFormula ----------------------------
(***************************************************************************)
(* Address formulas such as [[<game.exe> + 0x18] + 0x40] + 0x14: the       *)
(* grammar the model crate parses and the value it computes.  A formula is *)
(* a sequence of tokens (the tokenizer's output); numbers are addresses    *)
(* and offsets, and arithmetic wraps at AddrLimit as usize does.           *)
(***************************************************************************)
EXTENDS Integers, Sequences
CONSTANTS
  AddrLimit,      \* 2^64: the arithmetic wraps here
  MaxNesting      \* MAX_DEPTH of the parser

Number(n) == [t |-> "num", n |-> n]
Identifier(name) == [t |-> "mod", name |-> name]
Sym(s) == [t |-> s]
AddOps == {"+", "-"}
MulOps == {"*", "/", "%"}
ParseError == [e |-> [op |-> "error"], rest |-> <<>>]
Failed(p) == p.e.op = "error"
Next1(ts) == IF ts = <<>> THEN "end" ELSE Head(ts).t

---------------------------------------------------------------------------
\* The recursive-descent parser: additive over multiplicative over unary over
\* primary, each returning an expression and the tokens it left.
RECURSIVE ParseUnary(_, _)
RECURSIVE ParseMultiplicative(_, _)
RECURSIVE ParseAdditive(_, _)
RECURSIVE Loop(_, _, _)
Loop(p, ops, depth) ==
  IF Failed(p) \/ Next1(p.rest) \notin ops THEN p
  ELSE LET after == Tail(p.rest)
           rhs == IF ops = AddOps THEN ParseMultiplicative(after, depth)
                  ELSE ParseUnary(after, depth)
       IN IF Failed(rhs) THEN rhs
          ELSE Loop([e |-> [op |-> Next1(p.rest), l |-> p.e, r |-> rhs.e],
                     rest |-> rhs.rest], ops, depth)

ParseAdditive(ts, depth) == Loop(ParseMultiplicative(ts, depth), AddOps, depth)

ParseMultiplicative(ts, depth) == Loop(ParseUnary(ts, depth), MulOps, depth)

\* expect: the closing bracket of a group, or the error.
Closing(p, bracket, e) ==
  IF Failed(p) \/ Next1(p.rest) # bracket THEN ParseError
  ELSE [e |-> e, rest |-> Tail(p.rest)]

ParsePrimary(ts, depth) ==
  IF depth > MaxNesting THEN ParseError
  ELSE CASE Next1(ts) = "num" -> [e |-> [op |-> "const", n |-> Head(ts).n], rest |-> Tail(ts)]
         [] Next1(ts) = "mod" -> [e |-> [op |-> "mod", name |-> Head(ts).name], rest |-> Tail(ts)]
         [] Next1(ts) = "(" ->
              LET p == ParseAdditive(Tail(ts), depth + 1) IN Closing(p, ")", p.e)
         [] Next1(ts) = "[" ->
              LET p == ParseAdditive(Tail(ts), depth + 1)
              IN Closing(p, "]", [op |-> "deref", in |-> p.e])
         [] OTHER -> ParseError

ParseUnary(ts, depth) ==
  IF depth > MaxNesting THEN ParseError
  ELSE IF Next1(ts) # "-" THEN ParsePrimary(ts, depth)
  ELSE LET p == ParseUnary(Tail(ts), depth + 1)
       IN IF Failed(p) THEN p
          ELSE [e |-> [op |-> "neg", in |-> p.e], rest |-> p.rest]

\* parse: the whole token stream, or an error for trailing tokens.
Parse(ts) ==
  LET p == ParseAdditive(ts, 0) IN IF p.rest # <<>> THEN ParseError.e ELSE p.e

---------------------------------------------------------------------------
Unresolved == -1

Arith(op, a, b) ==
  CASE op = "+" -> (a + b) % AddrLimit
    [] op = "-" -> (a - b) % AddrLimit
    [] op = "*" -> (a * b) % AddrLimit
    [] op = "/" -> IF b = 0 THEN Unresolved ELSE a \div b
    [] op = "%" -> IF b = 0 THEN Unresolved ELSE a % b

\* evaluate: bases maps the module names that resolve to their base, words the
\* addresses a pointer can be read at to the word there.
RECURSIVE Evaluate(_, _, _)
Evaluate(e, bases, words) ==
  CASE e.op = "const" -> e.n
    [] e.op = "mod" -> IF e.name \in DOMAIN bases THEN bases[e.name] ELSE Unresolved
    [] e.op = "neg" ->
         LET a == Evaluate(e.in, bases, words)
         IN IF a = Unresolved THEN a ELSE (-a) % AddrLimit
    [] e.op = "deref" ->
         LET a == Evaluate(e.in, bases, words)
         IN IF a \in DOMAIN words THEN words[a] ELSE Unresolved
    [] e.op \in AddOps \cup MulOps ->
         LET a == Evaluate(e.l, bases, words)
             b == Evaluate(e.r, bases, words)
         IN IF a = Unresolved \/ b = Unresolved THEN Unresolved ELSE Arith(e.op, a, b)
    [] e.op = "error" -> Unresolved
=============================================================================
