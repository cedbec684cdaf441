---------------------------- MODULE ArithMeaning ----------------------------
(***************************************************************************)
(* What an arithmetic expression means: trees, how C writes a tree (with   *)
(* the parentheses it needs and no others), and its value.                 *)
(*   <<"leaf", token>>  <<"un", op, e>>  <<"bin", op, e, f>>                *)
(*   <<"cond", e, f, g>>  <<"set", op, name, e>>                           *)
(***************************************************************************)
EXTENDS Arith

Leaves == {<<"leaf", token>> : token \in Numbers \cup Names}

\* Levels of the grammar, loosest first: assignment, ?:, ||, &&, then the
\* operators of prec, the unary ones, and what needs no parentheses.
Level(e) == CASE e[1] = "set"  -> 0
              [] e[1] = "cond" -> 1
              [] e[1] = "bin" /\ e[2] = "||" -> 2
              [] e[1] = "bin" /\ e[2] = "&&" -> 3
              [] e[1] = "bin" -> 4 + MaxPrec - prec[e[2]]
              [] e[1] = "un"  -> 13
              [] OTHER -> 14

RECURSIVE Written(_, _)
Written(e, level) ==
    LET l == Level(e)
        text == CASE e[1] = "leaf" -> <<e[2]>>
                  [] e[1] = "un"   -> <<e[2]>> \o Written(e[3], 13)
                  [] e[1] = "bin"  -> Written(e[3], l) \o <<e[2]>> \o Written(e[4], l + 1)
                  [] e[1] = "cond" -> Written(e[2], 2) \o <<"?">> \o Written(e[3], 0)
                                      \o <<":">> \o Written(e[4], 1)
                  [] e[1] = "set"  -> <<e[3], e[2]>> \o Written(e[4], 0)
    IN  IF l < level THEN <<"(">> \o text \o <<")">> ELSE text

\* The value of a tree and the variables after it, evaluated as C does.
Meant(v, vars) == [err |-> FALSE, v |-> v, vars |-> vars]
RECURSIVE Meaning(_, _)
Meaning(e, vars) ==
    LET m(f) == Meaning(f, vars)
        after(f, g) == Meaning(g, m(f).vars)
        truth(f, g) == IF after(f, g).err THEN after(f, g)
                       ELSE Meant(Bool(after(f, g).v # 0), after(f, g).vars)
        applied(op, a(_), b) == IF b.err THEN b
                             ELSE IF Undefined(op, a(b), b.v) THEN [err |-> TRUE]
                             ELSE Meant(do_binop(op, a(b), b.v), b.vars)
        stored(r) == IF r.err THEN r ELSE Meant(r.v, [r.vars EXCEPT ![e[3]] = r.v])
    IN  CASE e[1] = "leaf" -> Meant(IF e[2] \in Names THEN vars[e[2]] ELSE Val[e[2]], vars)
          [] e[1] = "un" /\ m(e[3]).err -> m(e[3])
          [] e[1] = "un" -> LET n == m(e[3]).v IN
                Meant(CASE e[2] = "+" -> n
                        [] e[2] = "-" -> Wrapped(-n)
                        [] e[2] = "~" -> Wrapped(-n - 1)
                        [] e[2] = "!" -> Bool(n = 0), m(e[3]).vars)
          [] e[1] = "set" -> stored(IF e[2] = "=" THEN m(e[4])
                             ELSE applied(Assigning[e[2]], LAMBDA b : b.vars[e[3]], m(e[4])))
          [] m(e[IF e[1] = "bin" THEN 3 ELSE 2]).err -> [err |-> TRUE]
          [] e[1] = "cond" -> IF m(e[2]).v # 0 THEN after(e[2], e[3]) ELSE after(e[2], e[4])
          [] e[2] = "&&" -> IF m(e[3]).v = 0 THEN Meant(0, m(e[3]).vars) ELSE truth(e[3], e[4])
          [] e[2] = "||" -> IF m(e[3]).v # 0 THEN Meant(1, m(e[3]).vars) ELSE truth(e[3], e[4])
          [] OTHER -> applied(e[2], LAMBDA b : m(e[3]).v, after(e[3], e[4]))

\* Every way to make one larger tree of e, with an operator of ops.
Larger(e, unary, binary, assign) ==
         {<<"un", op, e>> : op \in unary}
    \cup {<<"bin", op, e, f>> : op \in binary, f \in Leaves}
    \cup {<<"bin", op, f, e>> : op \in binary, f \in Leaves}
    \cup {<<"cond", e, f, g>> : f \in Leaves, g \in Leaves}
    \cup {<<"cond", f, e, g>> : f \in Leaves, g \in Leaves}
    \cup {<<"cond", f, g, e>> : f \in Leaves, g \in Leaves}
    \cup {<<"set", op, x, e>> : op \in assign, x \in Names}

=============================================================================
