------------------------------ MODULE Grammar ------------------------------
(***************************************************************************)
(* The parser (parser.c) from tokens to commands, with the aliases of      *)
(* alias.c and the strings pushed on the input (input.c).  A word is a     *)
(* string, in quotes of Quoted if part of it is quoted; reading words is   *)
(* Words' part.  The text of a here document is one token, behind the      *)
(* newline.  A command is a tuple:                                         *)
(*   <<"cmd", assignments, words, redirections>>    <<"defun", name, c>>   *)
(*   <<"semi", c, d>>  <<"and", c, d>>  <<"or", c, d>>  <<"not", c>>       *)
(*   <<"pipe", cs, background>>  <<"bg", c, redirections>>                 *)
(*   <<"if", c, d, e>>  <<"while", c, d>>  <<"until", c, d>>               *)
(*   <<"for", variable, words, c>>  <<"case", word, <<patterns, c>>s>>     *)
(*   <<"subshell", c, redirections>>  <<"redir", c, redirections>>         *)
(***************************************************************************)
EXTENDS Integers, Sequences, SequencesExt, TLC

CONSTANTS Quoted,       \* quoted words
          Assignments,  \* words that isassignment accepts
          GoodNames,    \* words that may name a function or a variable
          Docs,         \* the texts of here documents, in the order of the input
          Aliases       \* a function: what the alias stands for, and whether a
                        \* blank ends it: [toks, blank]

Keywords == {"!", "case", "do", "done", "elif", "else", "esac", "fi", "for", "if", "in", "then",
             "until", "while", "{", "}"}
Operators == {"NL", ";", "&", "&&", "||", "|", "(", ")", ";;"}
Redirections == {">", "<<"}
TEOF == "end of file"
Opening == {"NL", "KWD", "ALIAS"}
tokendlist == {TEOF, ")", ";;", "do", "done", "elif", "else", "esac", "fi", "then", "}"}
None == <<>>
DollarAt == <<"$@">>

(***************************************************************************)
(* c, the state of the parser: in is the stack of inputs, innermost first, *)
(* an alias or "" each; last, word and push are lasttoken, wordtext and    *)
(* tokpushback; kwd is checkkwd; heredoclist counts the here documents to  *)
(* be read, docs are those that were.                                      *)
(***************************************************************************)
Begin(toks) == [in |-> <<[alias |-> "", toks |-> toks, blank |-> FALSE]>>, last |-> TEOF, word |-> "",
                push |-> FALSE, kwd |-> {}, heredoclist |-> 0, docs |-> <<>>, err |-> FALSE]
Node(n, c) == [n |-> n, c |-> c]
synexpect(c) == Node(None, [c EXCEPT !.err = TRUE])
Push(c) == [c EXCEPT !.push = TRUE]
Kwd(c, set) == [c EXCEPT !.kwd = set]

\* Mutant of popstring: a blank behind an alias has no effect.
popstringPlain(c) == [c EXCEPT !.in = Tail(@)]
popstring(c) == [c EXCEPT !.in = Tail(@), !.kwd = IF Head(c.in).blank THEN @ \cup {"ALIAS"} ELSE @]
pushstring(c, alias) == [c EXCEPT !.in = <<[alias |-> alias] @@ Aliases[alias]>> \o @]
lookupalias(c, word) == word \in DOMAIN Aliases /\ \A i \in DOMAIN c.in : c.in[i].alias # word

RECURSIVE lex(_)
lex(c) ==
    LET top == Head(c.in) IN
    CASE top.toks # <<>> -> [c EXCEPT !.in[1].toks = Tail(@), !.word = Head(top.toks),
             !.last = IF Head(top.toks) \in Operators THEN Head(top.toks)
                      ELSE IF Head(top.toks) \in Redirections THEN "TREDIR" ELSE "TWORD"]
      [] top.toks = <<>> /\ Len(c.in) > 1 -> lex(popstring(c))
      [] OTHER -> [c EXCEPT !.last = TEOF]
xxreadtoken(c) == IF c.push THEN [c EXCEPT !.push = FALSE] ELSE lex(c)

parseheredoc(c) ==
    LET rest == Head(c.in).toks
        n == c.heredoclist
    IN  IF Len(rest) < n THEN [c EXCEPT !.err = TRUE]
        ELSE [c EXCEPT !.heredoclist = 0, !.docs = @ \o SubSeq(rest, 1, n),
                       !.in[1].toks = SubSeq(rest, n + 1, Len(rest))]

RECURSIVE readtoken(_)
readtoken(c) ==
    LET t == xxreadtoken(c)
        plain == t.last = "TWORD" /\ t.word \notin Quoted
    IN  CASE "NL" \in c.kwd /\ t.last = "NL" -> readtoken(parseheredoc(t))
          [] plain /\ "KWD" \in c.kwd /\ t.word \in Keywords -> Kwd([t EXCEPT !.last = t.word], {})
          [] plain /\ "ALIAS" \in t.kwd /\ lookupalias(t, t.word)
             /\ ~("KWD" \in c.kwd /\ t.word \in Keywords) -> readtoken(pushstring(t, t.word))
          [] OTHER -> Kwd(t, {})
peektoken(c) == Push(readtoken(c))

RECURSIVE command(_)
RECURSIVE list(_, _)

-----------------------------------------------------------------------------
\* parsefname: the word behind a redirection operator.
parsefname(c) ==
    LET op == c.word
        w == readtoken(c)
    IN  IF w.last # "TWORD" THEN synexpect(w)
        ELSE IF op = "<<" THEN Node(<<"<<">>, [w EXCEPT !.heredoclist = @ + 1])
        ELSE Node(<<op, w.word>>, w)

\* The redirections behind a compound command.
RECURSIVE redirections(_, _)
redirections(c, found) ==
    LET t == readtoken(Kwd(c, IF found = <<>> THEN {"KWD", "ALIAS"} ELSE c.kwd))
        r == parsefname(t)
    IN  IF t.err \/ t.last # "TREDIR" THEN Node(found, Push(t))
        ELSE IF r.c.err THEN r ELSE redirections(r.c, Append(found, r.n))

RECURSIVE simplecmd(_, _, _, _, _)
simplecmd(c, save, vars, args, redirs) ==
    LET t == readtoken(Kwd(c, save))
        r == parsefname(t)
        close == readtoken(t)
        body == command(Kwd(close, Opening))
    IN  CASE t.last = "TWORD" /\ save # {} /\ t.word \in Assignments ->
                simplecmd(t, save, Append(vars, t.word), args, redirs)
          [] t.last = "TWORD" /\ ~(save # {} /\ t.word \in Assignments) ->
                simplecmd(t, {}, vars, Append(args, t.word), redirs)
          [] t.last = "TREDIR" ->
                IF r.c.err THEN r ELSE simplecmd(r.c, save, vars, args, Append(redirs, r.n))
          [] t.last = "(" /\ Len(args) = 1 /\ vars = <<>> /\ redirs = <<>> ->
                IF close.last # ")" \/ args[1] \notin GoodNames THEN synexpect(close)
                ELSE IF body.c.err THEN body ELSE Node(<<"defun", args[1], body.n>>, body.c)
          [] OTHER -> Node(<<"cmd", vars, args, redirs>>, Push(t))

-----------------------------------------------------------------------------
\* Two lists with a keyword between them, as in "while a do b".
Two(c, keyword) ==
    LET first == list(c, 0)
        k == readtoken(first.c)
        second == list(k, 0)
    IN  IF first.c.err THEN first
        ELSE IF k.last # keyword THEN synexpect(k)
        ELSE Node(<<first.n, second.n>>, second.c)

\* Behind "if" or "elif".
RECURSIVE ifcmd(_)
ifcmd(c) ==
    LET parts == Two(c, "then")
        k == readtoken(parts.c)
        elif == ifcmd(k)
        else == list(k, 0)
        other == CASE k.last = "elif" -> elif
                   [] k.last = "else" -> else
                   [] OTHER -> Node(None, Push(k))
    IN  IF parts.c.err \/ other.c.err THEN synexpect(parts.c)
        ELSE Node(<<"if", parts.n[1], parts.n[2], other.n>>, other.c)

RECURSIVE words(_, _)
words(c, found) == LET t == readtoken(c) IN
    IF t.last = "TWORD" THEN words(t, Append(found, t.word)) ELSE Node(found, t)

forcmd(c) ==
    LET var == readtoken(c)
        in == readtoken(Kwd(var, Opening))
        args == words(in, <<>>)
        given == in.last = "in"
        before == CASE given -> args.c
                    [] ~given /\ in.last = ";" -> in
                    [] OTHER -> Push(in)
        do == readtoken(Kwd(before, Opening))
        body == list(do, 0)
    IN  IF var.last # "TWORD" \/ var.word \notin GoodNames
           \/ (given /\ args.c.last \notin {"NL", ";"}) \/ do.last # "do"
        THEN synexpect(do)
        ELSE Node(<<"for", var.word, IF given THEN args.n ELSE DollarAt, body.n>>, body.c)

\* Patterns: the first one is the last token read.
RECURSIVE patterns(_, _)
patterns(c, found) ==
    LET bar == readtoken(c) IN
    IF bar.last = "|" THEN patterns(readtoken(bar), Append(found, c.word))
    ELSE Node(Append(found, c.word), bar)

RECURSIVE cases(_, _)
cases(c, found) ==
    LET t == readtoken(Kwd(c, {"NL", "KWD"}))
        pats == patterns(IF t.last = "(" THEN readtoken(t) ELSE t, <<>>)
        body == list(pats.c, 2)
        end == readtoken(Kwd(body.c, {"NL", "KWD"}))
        all == Append(found, <<pats.n, body.n>>)
    IN  CASE t.last = "esac" -> Node(found, t)
          [] t.last # "esac" /\ (pats.c.last # ")" \/ body.c.err) -> synexpect(t)
          [] end.last = "esac" -> Node(all, end)
          [] end.last = ";;" -> cases(end, all)
          [] OTHER -> synexpect(end)
casecmd(c) ==
    LET word == readtoken(c)
        in == readtoken(Kwd(word, Opening))
        all == cases(in, <<>>)
    IN  IF word.last # "TWORD" \/ in.last # "in" \/ all.c.err THEN synexpect(in)
        ELSE Node(<<"case", word.word, all.n>>, all.c)

Loop(kind, r) == IF r.c.err THEN r ELSE Node(<<kind, r.n[1], r.n[2]>>, r.c)
\* The command that t begins, up to the token that ends it.
compound(t) ==
    CASE t.last = "if" -> ifcmd(t) @@ [end |-> "fi"]
      [] t.last \in {"while", "until"} -> Loop(t.last, Two(t, "do")) @@ [end |-> "done"]
      [] t.last = "for" -> forcmd(t) @@ [end |-> "done"]
      [] t.last = "(" -> LET r == list(t, 0) IN
            [n |-> <<"subshell", r.n, <<>>>>, c |-> r.c, end |-> ")"]
      [] t.last = "{" -> list(t, 0) @@ [end |-> "}"]

command(c) ==
    LET t == readtoken(c)
        r == compound(t)
        end == readtoken(r.c)
        all == casecmd(t)
        redir(n, d) == LET rs == redirections(d, <<>>) IN
            IF rs.c.err \/ rs.n = <<>> THEN Node(n, rs.c)
            ELSE IF n # None /\ n[1] = "subshell" THEN Node([n EXCEPT ![3] = rs.n], rs.c)
            ELSE Node(<<"redir", n, rs.n>>, rs.c)
    IN  CASE c.err -> synexpect(c)
          [] t.last \in {"TWORD", "TREDIR"} -> simplecmd(Push(t), {"ALIAS"}, <<>>, <<>>, <<>>)
          [] t.last = "case" -> IF all.c.err THEN all ELSE redir(all.n, all.c)
          [] t.last \in {"if", "while", "until", "for", "(", "{"} ->
                IF r.c.err THEN r ELSE IF end.last # r.end THEN synexpect(end) ELSE redir(r.n, end)
          [] OTHER -> synexpect(t)

-----------------------------------------------------------------------------
RECURSIVE commands(_, _)
commands(c, found) == \* behind "|"
    LET r == command(Kwd(c, Opening))
        t == readtoken(r.c)
        all == Append(found, r.n)
    IN  IF r.c.err THEN r
        ELSE IF t.last = "|" THEN commands(t, all) ELSE Node(<<"pipe", all, FALSE>>, Push(t))
pipeline(c) ==
    LET not == readtoken(c)
        negate == not.last = "!"
        first == command(IF negate THEN Kwd(not, {"KWD", "ALIAS"}) ELSE Push(not))
        t == readtoken(first.c)
        whole == IF t.last = "|" THEN commands(t, <<first.n>>) ELSE Node(first.n, Push(t))
    IN  IF first.c.err THEN first
        ELSE IF negate THEN Node(<<"not", whole.n>>, whole.c) ELSE whole

\* Mutant of andors: "&&" and "||" bind to the right.
RECURSIVE andorsRight(_)
andorsRight(l) ==
    LET t == readtoken(l.c)
        r == pipeline(Kwd(t, Opening))
        right == andorsRight(r)
    IN  CASE l.c.err \/ t.last \notin {"&&", "||"} -> Node(l.n, Push(t))
          [] OTHER -> Node(<<IF t.last = "&&" THEN "and" ELSE "or", l.n, right.n>>, right.c)
RECURSIVE andors(_)
andors(l) ==
    LET t == readtoken(l.c)
        r == pipeline(Kwd(t, Opening))
    IN  CASE l.c.err -> l
          [] ~l.c.err /\ t.last \notin {"&&", "||"} -> Node(l.n, Push(t))
          [] OTHER -> andors(Node(<<IF t.last = "&&" THEN "and" ELSE "or", l.n, r.n>>, r.c))
andor(c) == andors(pipeline(c))

Background(n) ==
    CASE n[1] = "pipe" -> [n EXCEPT ![3] = TRUE]
      [] n[1] = "redir" -> [n EXCEPT ![1] = "bg"]
      [] OTHER -> <<"bg", n, <<>>>>

\* nlflag 1: a newline ends the list; 2: the list may be empty.
RECURSIVE more(_, _, _)
more(c, nlflag, n1) ==
    LET n2 == andor(c)
        t == readtoken(n2.c)
        one == IF t.last = "&" THEN Background(n2.n) ELSE n2.n
        n == IF n1 = None THEN one ELSE <<"semi", n1, one>>
        tok == IF t.last \in {"&", ";"} THEN readtoken(t) ELSE t
        next == Kwd(IF tok.last = "NL" THEN parseheredoc(tok) ELSE Push(tok), Opening)
        peek == peektoken(next)
    IN  CASE n2.c.err -> n2
          [] t.last \in {"&", ";", "NL"} ->
                IF tok.last = "NL" /\ nlflag = 1 THEN Node(n, parseheredoc(tok))
                ELSE IF peek.last \in tokendlist THEN Node(n, peek)
                ELSE more(peek, nlflag, n)
          [] t.last = TEOF -> Node(n, Push(IF t.heredoclist > 0 THEN parseheredoc(t) ELSE t))
          [] OTHER -> IF nlflag = 1 THEN synexpect(t) ELSE Node(n, Push(t))
list(c, nlflag) ==
    LET peek == peektoken(Kwd(c, Opening)) IN
    IF c.err THEN synexpect(c)
    ELSE IF nlflag # 2 THEN more(Kwd(c, Opening), nlflag, None)
    ELSE IF peek.last \in tokendlist THEN Node(None, peek) ELSE more(peek, nlflag, None)

\* One complete command, and what is left; end says that there was none.
parsecmd(c) ==
    LET t == readtoken([c EXCEPT !.push = FALSE])
        r == list(Push(t), 1)
    IN  CASE t.last = TEOF -> [end |-> TRUE, n |-> None, c |-> t]
          [] t.last = "NL" -> [end |-> FALSE, n |-> None, c |-> t]
          [] OTHER -> r @@ [end |-> FALSE]
RECURSIVE cmdloop(_, _)
cmdloop(c, found) ==
    LET r == parsecmd(c) IN
    IF r.end \/ r.c.err THEN [n |-> found, c |-> r.c]
    ELSE cmdloop(r.c, IF r.n = None THEN found ELSE Append(found, r.n))
=============================================================================
