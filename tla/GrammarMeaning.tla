--------------------------- MODULE GrammarMeaning ---------------------------
(***************************************************************************)
(* How the shell's grammar writes a command (the tuples of Grammar), with  *)
(* the braces it needs and no others.  v is the style: sep ends the        *)
(* commands of this list, nested those of lists inside, and newlines are   *)
(* put where they may be; alias says whether aliases are used.             *)
(***************************************************************************)
EXTENDS Grammar

Inside(v) == [v EXCEPT !.sep = v.nested]
MayBreak(v) == IF v.nested = "NL" THEN <<"NL">> ELSE <<>>

\* The levels of the grammar, loosest first.
Level(x) == CASE x[1] = "semi" -> 0
              [] x[1] = "bg" \/ (x[1] = "pipe" /\ x[3]) -> 1
              [] x[1] \in {"and", "or"} -> 2
              [] x[1] = "not" -> 3
              [] x[1] = "pipe" -> 4
              [] OTHER -> 5

WrittenRedirs(rs) == FlattenSeq([i \in DOMAIN rs |-> IF rs[i] = <<"<<">> THEN <<"<<", "E">> ELSE rs[i]])
\* With aliases: al and al2 stand for each other, sp ends in a blank.
WrittenWords(ws, v) ==
    CASE ws = <<"al", "q">> -> <<"al">>
      [] v.alias /\ ws = <<"a", "b">> -> <<"sp", "bb">>
      [] OTHER -> ws
If(v) == IF v.alias THEN "kw" ELSE "if"

RECURSIVE Written(_, _, _)
Ended(x, v) == LET text == Written(x, 0, Inside(v)) IN
               IF Last(text) = "&" THEN text \o MayBreak(v) ELSE Append(text, v.nested)
Braces(x, v) == <<"{">> \o MayBreak(v) \o Ended(x, v) \o <<"}">>

RECURSIVE WrittenIf(_, _)
WrittenIf(x, v) ==
    Ended(x[2], v) \o <<"then">> \o Ended(x[3], v)
    \o (CASE x[4] = None -> <<"fi">>
          [] x[4] # None /\ x[4][1] = "if" -> <<"elif">> \o WrittenIf(x[4], v)
          [] OTHER -> <<"else">> \o Ended(x[4], v) \o <<"fi">>)
WrittenCases(cs, v) == FlattenSeq([i \in DOMAIN cs |->
    (IF v.alias THEN <<"(">> ELSE <<>>)
    \o FoldLeft(LAMBDA s, p : s \o <<"|", p>>, <<Head(cs[i][1])>>, Tail(cs[i][1])) \o <<")">>
    \o (IF cs[i][2] = None THEN <<>> ELSE Written(cs[i][2], 0, Inside(v)))
    \o MayBreak(v) \o <<";;">> \o MayBreak(v)])

Compound(x, v) ==
    CASE x[1] = "if" -> <<If(v)>> \o WrittenIf(x, v)
      [] x[1] \in {"while", "until"} ->
            <<x[1]>> \o Ended(x[2], v) \o <<"do">> \o Ended(x[3], v) \o <<"done">>
      [] x[1] = "for" -> <<"for", x[2]>>
            \o (IF x[3] = DollarAt THEN MayBreak(v) ELSE <<"in">> \o x[3] \o <<";">> \o MayBreak(v))
            \o <<"do">> \o Ended(x[4], v) \o <<"done">>
      [] x[1] = "case" -> <<"case", x[2], "in">> \o MayBreak(v) \o WrittenCases(x[3], v) \o <<"esac">>
      [] OTHER -> Braces(x, v)

Written(x, level, v) ==
    LET w(y, l) == Written(y, l, v)
        joined(op, y, z, l) == w(y, l) \o <<op>> \o MayBreak(v) \o w(z, l + 1)
        text == CASE x[1] = "cmd" -> 
                        IF v.nested = "NL" THEN WrittenRedirs(x[4]) \o x[2] \o WrittenWords(x[3], v)
                        ELSE x[2] \o WrittenWords(x[3], v) \o WrittenRedirs(x[4])
                  [] x[1] = "defun" -> <<x[2], "(", ")">> \o MayBreak(v) \o w(x[3], 5)
                  [] x[1] = "semi" /\ Last(w(x[2], 0)) = "&" -> w(x[2], 0) \o w(x[3], 1)
                  [] x[1] = "semi" /\ Last(w(x[2], 0)) # "&" -> w(x[2], 0) \o <<v.sep>> \o w(x[3], 1)
                  [] x[1] = "and" -> joined("&&", x[2], x[3], 2)
                  [] x[1] = "or"  -> joined("||", x[2], x[3], 2)
                  [] x[1] = "not" -> <<"!">> \o w(x[2], 4)
                  [] x[1] = "pipe" ->
                        FoldLeft(LAMBDA s, y : s \o <<"|">> \o MayBreak(v) \o w(y, 5),
                                 w(Head(x[2]), 5), Tail(x[2]))
                        \o (IF x[3] THEN <<"&">> ELSE <<>>)
                  [] x[1] = "bg" -> (IF x[3] = <<>> THEN w(x[2], 2) ELSE Compound(x[2], v))
                                    \o WrittenRedirs(x[3]) \o <<"&">>
                  [] x[1] = "subshell" -> <<"(">> \o Written(x[2], 0, Inside(v)) \o <<")">>
                                          \o WrittenRedirs(x[3])
                  [] x[1] = "redir" -> Compound(x[2], v) \o WrittenRedirs(x[3])
                  [] OTHER -> Compound(x, v)
    IN  IF Level(x) < level THEN Braces(x, v) ELSE text

\* The texts of here documents, in order, each behind the first newline.
Placed(toks) ==
    LET step(s, tok) ==
            LET n == IF tok = "NL" THEN s.pending ELSE 0
            IN  [out |-> s.out \o <<tok>> \o SubSeq(Docs, s.done + 1, s.done + n), done |-> s.done + n,
                 pending |-> CASE tok = "<<" -> s.pending + 1 [] tok = "NL" -> 0 [] OTHER -> s.pending]
    IN  FoldLeft(step, [out |-> <<>>, done |-> 0, pending |-> 0], toks)

After == <<"cmd", <<>>, <<"z">>, <<>>>>
Script(x, v) == Placed(Written(x, 0, v) \o <<"NL", "z", "NL">>)
\* The command is read as it was written, with its here documents.
ReadBack(x, v) ==
    LET s == Script(x, v)
        r == cmdloop(Begin(s.out), <<>>)
    IN  ~r.c.err /\ r.n = <<x, After>> /\ r.c.docs = SubSeq(Docs, 1, s.done)

\* Every way to make one larger command of x, with the leaves ys.
LargerCommands(x, ys, redirs) ==
    {<<"not", x>>, <<"defun", "f", x>>, <<"subshell", x, <<>>>>, <<"for", "i", DollarAt, x>>,
     <<"for", "i", <<"in", "b">>, x>>, <<"case", "in", <<<<<<"if">>, x>>, <<<<"a", "b">>, None>>>>>>}
    \cup (IF x[1] = "pipe" THEN {<<"pipe", x[2], TRUE>>}
          ELSE IF x[1] = "redir" THEN {} ELSE {<<"bg", x, <<>>>>})
    \cup {<<"redir", x, <<r>>>> : r \in IF x[1] = "subshell" THEN {} ELSE redirs}
    \cup {<<"bg", x, <<r>>>> : r \in IF x[1] = "subshell" THEN {} ELSE redirs}
    \cup {<<"subshell", x, <<r>>>> : r \in redirs}
    \cup UNION {{<<op, x, y>>, <<op, y, x>>} : op \in {"semi", "and", "or", "while", "until"}, y \in ys}
    \cup UNION {{<<"pipe", <<x, y>>, FALSE>>, <<"pipe", <<y, x, y>>, FALSE>>,
                 <<"if", x, y, None>>, <<"if", y, x, y>>, <<"if", y, y, x>>} : y \in ys}
=============================================================================
