------------------------------- MODULE Arith -------------------------------
(***************************************************************************)
(* Arithmetic expansion: the calculator of arith_yacc.c over the tokens of *)
(* yylex.  It evaluates while it parses, one token ahead, and parses the   *)
(* parts that must not be evaluated with `noeval' set.                     *)
(***************************************************************************)
EXTENDS Integers, Sequences, TLC
LOCAL INSTANCE Bitwise

CONSTANTS Numbers,  \* the literals: strings mapped to their value by Val
          Names,    \* variables
          Width     \* bits of intmax_t

(***************************************************************************)
(* Numbers of Width bits.                                                  *)
(***************************************************************************)
Val == "0" :> 0 @@ "1" :> 1 @@ "2" :> 2 @@ "3" :> 3
Bool(b) == IF b THEN 1 ELSE 0
Wrapped(n) == ((n + 2^(Width - 1)) % 2^Width) - 2^(Width - 1)
Bits(n) == n % 2^Width
Abs(n) == IF n < 0 THEN -n ELSE n
Quotient(a, b) == (Abs(a) \div Abs(b)) * (IF (a < 0) = (b < 0) THEN 1 ELSE -1)

(***************************************************************************)
(* Tokens.  A lower number in prec binds tighter.                          *)
(***************************************************************************)
prec == [op \in {"*", "/", "%"} |-> 0] @@ [op \in {"+", "-"} |-> 1]
     @@ [op \in {"<<", ">>"} |-> 2] @@ [op \in {"<", "<=", ">", ">="} |-> 3]
     @@ [op \in {"==", "!="} |-> 4] @@ "&" :> 5 @@ "^" :> 6 @@ "|" :> 7
MaxPrec == 8
BinOp(token) == token \in DOMAIN prec
Assigning == "=" :> "=" @@ "+=" :> "+" @@ "-=" :> "-" @@ "*=" :> "*" @@ "/=" :> "/"

do_binop(op, a, b) == Wrapped(
    CASE op = "*"  -> a * b
      [] op = "/"  -> Quotient(a, b)
      [] op = "%"  -> a - b * Quotient(a, b)
      [] op = "+"  -> a + b
      [] op = "-"  -> a - b
      [] op = "<<" -> a * 2^(Bits(b) % Width)
      [] op = ">>" -> a \div 2^(Bits(b) % Width)
      [] op = "<"  -> Bool(a < b)
      [] op = "<=" -> Bool(a =< b)
      [] op = ">"  -> Bool(a > b)
      [] op = ">=" -> Bool(a >= b)
      [] op = "==" -> Bool(a = b)
      [] op = "!=" -> Bool(a # b)
      [] op = "&"  -> Bits(a) & Bits(b)
      [] op = "^"  -> Bits(a) ^^ Bits(b)
      [] op = "|"  -> Bits(a) | Bits(b))
\* yyerror for a divisor of zero; imaxdiv of the smallest number by -1 kills.
Undefined(op, a, b) == op \in {"/", "%"} /\ (b = 0 \/ (a = -(2^(Width - 1)) /\ b = -1))

(***************************************************************************)
(* The calculator.  c is its state: at is the next token to lex, last the  *)
(* global last_token, err whether yyerror was called (the parse ends then; *)
(* here it runs on to no effect).  Each function returns [v, c].           *)
(***************************************************************************)
Token(t, i) == IF i > Len(t) THEN "EOF" ELSE t[i]
Lexed(c, n) == [c EXCEPT !.at = @ + n]
Result(v, c) == [v |-> v, c |-> c]
Failed(c) == Result(0, [c EXCEPT !.err = TRUE])
Garbage == 5 \* val->val of a name, read but never evaluated

Applied(op, a, b, noeval) == 
    IF noeval THEN b
    ELSE IF Undefined(op, a, b.v) THEN Failed(b.c)
    ELSE Result(do_binop(op, a, b.v), b.c)

RECURSIVE assignment(_, _, _, _)
RECURSIVE primary(_, _, _, _, _)
primary(t, c, token, op, noeval) ==
    LET next == primary(t, Lexed(c, 1), op, Token(t, c.at), noeval) IN
    CASE c.err -> Failed(c)
      [] token = "(" -> LET r == assignment(t, c, op, noeval) IN
            IF r.c.last # ")" THEN Failed(r.c)
            ELSE Result(r.v, [Lexed(r.c, 1) EXCEPT !.last = Token(t, r.c.at)])
      [] token \in Numbers -> Result(Val[token], [c EXCEPT !.last = op])
      [] token \in Names -> Result(IF noeval THEN Garbage ELSE c.vars[token],
                                   [c EXCEPT !.last = op])
      [] token = "+" -> next
      [] token = "-" -> Result(Wrapped(-next.v), next.c)
      [] token = "!" -> Result(Bool(next.v = 0), next.c)
      [] token = "~" -> Result(Wrapped(-next.v - 1), next.c)
      [] OTHER -> Failed(c)

RECURSIVE binop2(_, _, _, _, _, _)
\* Mutant of Operand: an operator of the same precedence is taken in as well.
OperandRight(t, c, op, noeval) ==
    LET b == primary(t, Lexed(c, 2), Token(t, c.at), Token(t, c.at + 1), noeval)
        op2 == b.c.last
    IN  IF BinOp(op2) /\ prec[op2] =< prec[op]
        THEN binop2(t, b.c, b.v, op2, prec[op], noeval) ELSE b

\* The right operand of op, with the operators that bind tighter.
Operand(t, c, op, noeval) ==
    LET b == primary(t, Lexed(c, 2), Token(t, c.at), Token(t, c.at + 1), noeval)
        op2 == b.c.last
    IN  IF BinOp(op2) /\ prec[op2] < prec[op]
        THEN binop2(t, b.c, b.v, op2, prec[op], noeval) ELSE b
binop2(t, c, a, op, limit, noeval) ==
    LET r == Applied(op, a, Operand(t, c, op, noeval), noeval)
        op2 == r.c.last
    IN  IF r.c.err \/ ~BinOp(op2) \/ prec[op2] >= limit THEN r
        ELSE binop2(t, r.c, r.v, op2, limit, noeval)

binop(t, c, token, op, noeval) ==
    LET a == primary(t, c, token, op, noeval) IN
    IF BinOp(a.c.last) THEN binop2(t, a.c, a.v, a.c.last, MaxPrec, noeval) ELSE a

RECURSIVE and(_, _, _, _, _)
and(t, c, token, op, noeval) ==
    LET a == binop(t, c, token, op, noeval)
        b == and(t, Lexed(a.c, 2), Token(t, a.c.at), Token(t, a.c.at + 1), noeval \/ a.v = 0)
    IN  IF a.c.err \/ a.c.last # "&&" THEN a
        ELSE Result(Bool(a.v # 0 /\ b.v # 0), b.c)

RECURSIVE or(_, _, _, _, _)
or(t, c, token, op, noeval) ==
    LET a == and(t, c, token, op, noeval)
        b == or(t, Lexed(a.c, 2), Token(t, a.c.at), Token(t, a.c.at + 1), noeval \/ a.v # 0)
    IN  IF a.c.err \/ a.c.last # "||" THEN a
        ELSE Result(Bool(a.v # 0 \/ b.v # 0), b.c)

RECURSIVE cond(_, _, _, _, _)
cond(t, c, token, op, noeval) ==
    LET a == or(t, c, token, op, noeval)
        b == assignment(t, Lexed(a.c, 1), Token(t, a.c.at), noeval \/ a.v = 0)
        d == cond(t, Lexed(b.c, 2), Token(t, b.c.at), Token(t, b.c.at + 1), noeval \/ a.v # 0)
    IN  IF a.c.err \/ a.c.last # "?" THEN a
        ELSE IF b.c.err \/ b.c.last # ":" THEN Failed(b.c)
        ELSE Result(IF a.v # 0 THEN b.v ELSE d.v, d.c)

assignment(t, c, var, noeval) ==
    LET op == Token(t, c.at)
        rhs == assignment(t, Lexed(c, 2), Token(t, c.at + 1), noeval)
        r == IF op = "=" THEN rhs 
             ELSE Applied(Assigning[op], rhs.c.vars[var], rhs, noeval)
    IN  IF var \notin Names \/ op \notin DOMAIN Assigning
        THEN cond(t, Lexed(c, 1), var, op, noeval)
        ELSE IF noeval \/ r.c.err THEN r
        ELSE Result(r.v, [r.c EXCEPT !.vars[var] = r.v])

arith(t, vars) ==
    LET start == [at |-> 2, last |-> "EOF", vars |-> vars, err |-> FALSE]
        r == assignment(t, start, Token(t, 1), FALSE)
    IN  IF r.c.err \/ r.c.last # "EOF" THEN [err |-> TRUE]
        ELSE [err |-> FALSE, v |-> r.v, vars |-> r.c.vars]
=============================================================================
