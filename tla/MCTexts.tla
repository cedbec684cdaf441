------------------------------ MODULE MCTexts ------------------------------
(***************************************************************************)
(* The texts that the shell reads, for TLC: a state is one expression,     *)
(* word, pattern or command, a step makes it larger, and the properties    *)
(* say that the code takes it as its reference definition does.            *)
(***************************************************************************)
EXTENDS Integers, Sequences, SequencesExt, TLC

CONSTANT Width   \* of arithmetic

VARIABLES kind, item, size
vars == <<kind, item, size>>

-----------------------------------------------------------------------------
Outs == "OUT1" :> <<"a", " ", "b", "\n">> @@ "OUT2" :> <<"*">>
Names == <<<<"b">>, <<".", "a">>, <<"a", "b">>, <<"a">>>>
HomeDir == <<"/", "a">>
Alias == "al" :> [toks |-> <<"al2">>, blank |-> FALSE] @@ "al2" :> [toks |-> <<"al", "q">>, blank |-> FALSE]
      @@ "sp" :> [toks |-> <<"a">>, blank |-> TRUE] @@ "bb" :> [toks |-> <<"b">>, blank |-> FALSE]
      @@ "kw" :> [toks |-> <<"if">>, blank |-> FALSE]
DocTexts == [i \in 1..12 |-> "DOC"]

A == INSTANCE ArithMeaning WITH Numbers <- {"0", "1", "3"}, Names <- {"x"}
W == INSTANCE WordMeaning WITH Output <- Outs, Files <- Names, Home <- HomeDir
G == INSTANCE GrammarMeaning WITH Quoted <- {"'if'"}, Assignments <- {"x="},
        GoodNames <- {"f", "i", "a", "b"}, Docs <- DocTexts, Aliases <- Alias

-----------------------------------------------------------------------------
(***************************************************************************)
(* Words.  x and y have values with separators and a "*", c is empty, b    *)
(* has none.                                                               *)
(***************************************************************************)
Values == <<"x">> :> <<"a", " ", "b">> @@ <<"y">> :> <<"*", "a">> @@ <<"c">> :> <<>>
       @@ <<"a">> :> <<"a", ":", "b">>
Envs == {W!Env(Values, p, ifs) : p \in {<<>>, <<<<"a">>, <<"b", " ", "*">>>>}, ifs \in {<<" ">>, <<":", " ">>}}
Lit(c) == <<"lit", c>>
Var(name, op, w) == <<"var", name, op, w>>
Dq(w) == <<"dq", w>>
Args == {<<"args", "@">>, <<"args", "*">>}
Out(key) == <<"cmd", key>>

Leaf == {Lit("a"), Lit("*"), <<"esc", "*">>, <<"esc", "a">>, Out("OUT1"),
         Var("x", <<>>, <<>>), Var("y", <<>>, <<>>), Var("b", <<>>, <<>>)}
Leaves == Leaf \cup Args \cup
          {<<"sq", <<" ", "*">>>>, Out("OUT2"), <<"len", "x">>, Var("c", <<>>, <<>>), Var("a", <<>>, <<>>),
           Var("1", <<>>, <<>>), <<"ari", <<Lit("1")>>>>, Lit("~"), Lit("/")}
\* In ${...}.
Inner == {<<p>> : p \in Leaf} \cup
         {<<Lit("a"), Lit(" "), Lit("*")>>, <<Dq(<<Lit("*"), Lit(" ")>>), Lit("a")>>,
          <<Lit("a"), Dq(<<Var("x", <<>>, <<>>)>>)>>}
Ops == {<<"-">>, <<":", "-">>, <<"+">>, <<":", "+">>, <<"=">>, <<":", "=">>}
Trims == {<<"#">>, <<"#", "#">>, <<"%">>, <<"%", "%">>}
\* A trim of a variable without a value forgets to skip the command
\* substitutions of its pattern (see the README): b has none here.
Altered == {Var(v, op, w) : v \in {"x", "y", "b", "c"}, op \in Ops, w \in Inner}
      \cup {Var(v, op, w) : v \in {"x", "y"}, op \in Trims,
                            w \in Inner \cup {<<Lit("*"), Lit("a")>>, <<Lit("?")>>}}
      \cup {Var("b", <<"#">>, <<Lit("a")>>)}
Quotes == {Dq(w) : w \in {<<p>> : p \in Leaf \cup Altered \cup Args} \cup
                   {<<>>, <<Lit(" ")>>, <<<<"esc", "\\">>>>, <<Lit("a"), <<"args", "@">>>>}}
Second == Leaves \cup {Dq(<<Var("x", <<>>, <<>>)>>), Dq(<<>>), Dq(<<<<"args", "@">>>>),
                       Var("b", <<"-">>, <<Lit("a"), Lit(" "), Lit("*")>>), Var("x", <<"+">>, <<Out("OUT1")>>),
                       Var("x", <<"-">>, <<Out("OUT2")>>), Var("c", <<":", "=">>, <<Lit("a")>>)}
\* "$@" leaves what follows it in the word in quotes (see the README).
LargerWords(w) == IF w = <<Dq(<<<<"args", "@">>>>)>> THEN {} ELSE {Append(w, p) : p \in Second}

NoArgs(w) == \A i \in DOMAIN w : w[i] \notin Args \cup {Dq(<<a>>) : a \in Args} 
                                 /\ w[i] # Dq(<<Lit("a"), <<"args", "@">>>>)

-----------------------------------------------------------------------------
\* Patterns of case.
Items == {<<"char", "a">>, <<"char", "*">>, <<"range", "a", "b">>, <<"qrange", "*", "]">>,
          <<"quoted", "]">>, <<"quoted", "-">>, <<"class", ":alpha:]">>}
Sets == {<<"set", invert, items>> : invert \in BOOLEAN, items \in
            {<<i>> : i \in Items} \cup {<<i, j>> : i \in Items, j \in Items} \cup
            {<<<<"char", "]">>, <<"char", "a">>>>, <<<<"char", "a">>, <<"char", "-">>>>}}
Elements == {Lit("a"), Lit("*"), Lit("?"), Lit("-"), <<"esc", "*">>, <<"sq", <<"*">>>>, Dq(<<Lit("*")>>),
             Dq(<<Lit("]")>>), Var("y", <<>>, <<>>), Dq(<<Var("y", <<>>, <<>>)>>), Out("OUT2")}
Subjects == UNION {[1..k -> {"a", "*", "-", "]"}] : k \in 0..2}
            \cup {<<"a", "b", "a">>, <<"*", "a", "*">>, <<"b", "*", "a">>}
LargerPatterns(p) ==
    IF Len(p) = 1 THEN {Append(p, e) : e \in Elements} \cup {<<e>> \o p : e \in Elements}
    ELSE IF ToSet(p) \subseteq Elements THEN {Append(p, e) : e \in Elements} ELSE {}

-----------------------------------------------------------------------------
\* Commands.
Here == <<"<<">>
Cmd(assignments, words, redirs) == <<"cmd", assignments, words, redirs>>
Simple == {Cmd(<<>>, <<"a">>, <<>>), Cmd(<<>>, <<"a", "b">>, <<Here>>), Cmd(<<"x=">>, <<>>, <<<<">", "if">>>>)}
Commands == Simple \cup {Cmd(<<"x=">>, <<"'if'">>, <<Here, Here>>),
                         Cmd(<<>>, <<"a", "if", "x=", "al", "}">>, <<>>),
                         Cmd(<<>>, <<"al", "q">>, <<<<">", "al">>>>)}
Styles == [sep : {";"}, nested : {";", "NL"}, alias : BOOLEAN]

-----------------------------------------------------------------------------
\* One step for each kind of text; the last step of an expression and of a
\* command uses fewer of the operators.
LargerExpression(e) == A!Larger(e, {"-", "!"},
    IF size = 1 THEN {"*", "/", "%", "+", "-", "<<", "<", "==", "&", "|", "&&", "||"}
    ELSE {"*", "-", "<<", "<", "&&", "||"}, {"=", "-="})
LargerCommand(x) == G!LargerCommands(x, IF size = 1 THEN Simple ELSE {Cmd(<<>>, <<"a", "b">>, <<Here>>)},
                                     {Here, <<">", "w">>})

Init == kind = "none" /\ item = <<>> /\ size = 0

First == \/ kind' = "expression" /\ item' \in A!Leaves
         \/ kind' = "word" /\ item' \in {<<p>> : p \in Leaves \cup Altered \cup Quotes}
         \/ kind' = "pattern" /\ item' \in {<<p>> : p \in Elements \cup Sets}
         \/ kind' = "command" /\ item' \in Commands

Grow(k, bound, larger) == /\ kind = k
                          /\ size < bound
                          /\ item' \in larger
                          /\ size' = size + 1
                          /\ UNCHANGED kind

Next == \/ kind = "none" /\ First /\ size' = 1
        \/ Grow("expression", 3, LargerExpression(item))
        \/ Grow("word", 2, LargerWords(item))
        \/ Grow("pattern", 3, LargerPatterns(item))
        \/ Grow("command", 3, LargerCommand(item))

Spec == Init /\ [][Next]_vars

-----------------------------------------------------------------------------
(***************************************************************************)
(* Properties of the steps: the text that a step makes is taken right.     *)
(***************************************************************************)

Calculated(e, x) == A!arith(A!Written(e, 0), "x" :> x) = A!Meaning(e, "x" :> x)
\* The calculator of arith_yacc.c, which evaluates while it parses, gives the
\* value that C gives the expression, assigns what C assigns, and nothing of
\* what "&&", "||" and "?:" skip.
ArithRight == [][kind' = "expression" => \A x \in {0, 2} : Calculated(item', x)]_vars

Taken(word) == W!readtoken1(W!Written(word), W!Start)
Expanded(word, e) ==
    LET taken == Taken(word)
    IN  /\ ~taken.err
        /\ W!expandarg(taken, e) = W!Fields(word, e)
        /\ NoArgs(word) => W!expandtext(taken, e) = W!Text(word, e)
\* The quotes that readtoken1 writes into a word, the regions that the
\* expansions record and the passes over them (ifsbreakup, expandmeta,
\* rmescapes) split the word into the fields, find the files and assign the
\* variables that POSIX says; without EXP_FULL the word is one text.
FieldsRight == [][kind' = "word" => \A e \in Envs : Expanded(item', e)]_vars

Matched(pattern) ==
    LET e == W!Env(Values, <<>>, <<" ">>)
        els == W!Elements(W!Meant(pattern, "bare", e).m)
    IN  \A s \in Subjects : W!casematch(Taken(pattern), e, s) = W!Matches(els, s)
\* A pattern of case matches what its elements match, whether they were
\* quoted, escaped, in brackets or came from an expansion.
CaseRight == [][kind' = "pattern" => Matched(item')]_vars

\* The parser takes a command as it was written, whatever the style, the
\* aliases and the here documents, and goes on right behind it.
ReadBack == [][kind' = "command" => \A style \in Styles : G!ReadBack(item', style)]_vars
=============================================================================
