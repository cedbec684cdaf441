---------------------------- MODULE WordMeaning ----------------------------
(***************************************************************************)
(* What a word means: words as trees, how a tree is written, and the       *)
(* fields it becomes by the rules of POSIX, without regions and control    *)
(* characters: every character knows whether it is quoted, and whether it  *)
(* comes from an expansion and so separates fields.  A word is a sequence  *)
(* of parts:                                                               *)
(*   <<"lit", c>>  <<"esc", c>>  <<"sq", chars>>  <<"dq", word>>           *)
(*   <<"var", name, op, word>>  <<"len", name>>  <<"args", "@" or "*">>    *)
(*   <<"cmd", key of Output>>  <<"ari", word>>  <<"set", invert, items>>   *)
(* and an item of a bracket expression is <<"char", c>>, <<"quoted", c>>,  *)
(* <<"range", c, d>>, <<"qrange", c, d>> (d quoted) or <<"class", c>>.     *)
(***************************************************************************)
EXTENDS Expand

RECURSIVE Written(_)
WrittenItem(i) == CASE i[1] = "char" -> <<i[2]>>
                    [] i[1] = "quoted" -> <<"\\", i[2]>>
                    [] i[1] = "range" -> <<i[2], "-", i[3]>>
                    [] i[1] = "qrange" -> <<i[2], "-", "\\", i[3]>>
                    [] i[1] = "class" -> <<"[", i[2]>>
WrittenPart(e) ==
    CASE e[1] = "lit" -> <<e[2]>>
      [] e[1] = "esc" -> <<"\\", e[2]>>
      [] e[1] = "sq"  -> <<"'">> \o e[2] \o <<"'">>
      [] e[1] = "dq"  -> <<"\"">> \o Written(e[2]) \o <<"\"">>
      [] e[1] = "var" -> <<"$", "{", e[2]>> \o e[3] \o Written(e[4]) \o <<"}">>
      [] e[1] = "len" -> <<"$", "{", "#", e[2], "}">>
      [] e[1] = "args" -> <<"$", e[2]>>
      [] e[1] = "cmd" -> <<e[2]>>
      [] e[1] = "ari" -> <<"$", "(", "(">> \o Written(e[2]) \o <<")", ")">>
      [] e[1] = "set" -> <<"[">> \o (IF e[2] THEN <<"!">> ELSE <<>>)
                         \o FlattenSeq([i \in DOMAIN e[3] |-> WrittenItem(e[3][i])]) \o <<"]">>
Written(word) == FlattenSeq([i \in DOMAIN word |-> WrittenPart(word[i])])

-----------------------------------------------------------------------------
(***************************************************************************)
(* Marked characters: <<"char", c, quoted, separates>>, <<"null">> where   *)
(* quotes are, <<"next">> between the arguments of "$@", <<"set", ...>>.   *)
(* context: "bare", "dq" in double quotes, "alt" in the word of an         *)
(* unquoted ${...}, "pat" in a pattern within double quotes.               *)
(* e is the environment of Expand; the result is [m, e].                   *)
(***************************************************************************)
Chars(cs, quoted, separates) == [i \in DOMAIN cs |-> <<"char", cs[i], quoted, separates>>]
Joined(seqs, between) ==
    IF seqs = <<>> THEN <<>> ELSE FoldLeft(LAMBDA s, t : s \o between \o t, Head(seqs), Tail(seqs))
Is(set, value) == [set |-> set, value |-> value]
Value(name, e) ==
    CASE name \in Digits -> LET n == Code[name] - Code["0"] IN
            IF n =< Len(e.params) THEN Is(TRUE, e.params[n]) ELSE Is(FALSE, <<>>)
      [] OTHER -> IF <<name>> \in DOMAIN e.vars THEN Is(TRUE, e.vars[<<name>>]) ELSE Is(FALSE, <<>>)
Plain(m) == \* the text of marked characters
    LET real == SelectSeq(m, LAMBDA i : i[1] = "char") IN [i \in DOMAIN real |-> real[i][2]]

\* A pattern from marked characters, and what it matches: a text that can be
\* cut into pieces that fit its elements.
Elements(m) == LET real == SelectSeq(m, LAMBDA i : i[1] \in {"char", "set"}) IN
    [i \in DOMAIN real |->
        CASE real[i][1] = "set" -> real[i]
          [] real[i][1] = "char" /\ ~real[i][3] /\ real[i][2] = "*" -> <<"star">>
          [] real[i][1] = "char" /\ ~real[i][3] /\ real[i][2] = "?" -> <<"any">>
          [] OTHER -> <<"one", real[i][2]>>]
InItem(c, i) == CASE i[1] \in {"char", "quoted"} -> c = i[2]
                  [] i[1] \in {"range", "qrange"} -> Code[c] \in Code[i[2]]..Code[i[3]]
                  [] i[1] = "class" -> c \in Classes[i[2]]
Fits(el, s) ==
    CASE el[1] = "star" -> TRUE
      [] el[1] = "any" -> Len(s) = 1
      [] el[1] = "one" -> s = <<el[2]>>
      [] el[1] = "set" -> Len(s) = 1 /\ (\E i \in DOMAIN el[3] : InItem(s[1], el[3][i])) # el[2]
RECURSIVE Matches(_, _)
Matches(els, s) ==
    IF els = <<>> THEN s = <<>>
    ELSE \E n \in 0..Len(s) : Fits(Head(els), SubSeq(s, 1, n)) /\ Matches(Tail(els), Drop(s, n))
\* The prefix or suffix that is taken away, the shortest or the longest.
Trimmed(s, els, op) ==
    LET left == op[1] = "#"
        gone(n) == IF left THEN SubSeq(s, 1, n) ELSE SubSeq(s, Len(s) - n + 1, Len(s))
        ns == {n \in 0..Len(s) : Matches(els, gone(n))}
        n == IF Len(op) = 1 THEN CHOOSE i \in ns : \A j \in ns : i =< j
             ELSE CHOOSE i \in ns : \A j \in ns : i >= j
    IN  IF ns = {} THEN s ELSE IF left THEN Drop(s, n) ELSE SubSeq(s, 1, Len(s) - n)

RECURSIVE Meant(_, _, _)
MeantVar(v, context, e) ==
    LET quoted == context = "dq"
        separates == context \in {"bare", "alt"}
        name == v[2]
        op == IF v[3] # <<>> /\ v[3][1] = ":" THEN Tail(v[3]) ELSE v[3]
        val == Value(name, e)
        there == val.set /\ (op = v[3] \/ val.value # <<>>)
        value == [m |-> Chars(val.value, quoted, separates), e |-> e]
        nothing == [m |-> <<>>, e |-> e]
        word == Meant(v[4], IF context = "bare" THEN "alt" ELSE context, e)
        assigned == Plain(word.m)
    IN  CASE op = <<>> -> value
          [] op = <<"-">> -> IF there THEN value ELSE word
          [] op = <<"+">> -> IF there THEN word ELSE nothing
          [] op = <<"?">> -> IF there THEN value ELSE [nothing EXCEPT !.e.err = TRUE]
          [] op = <<"=">> -> IF there THEN value
                ELSE [m |-> Chars(assigned, quoted, separates), e |-> [word.e EXCEPT !.vars = <<name>> :> assigned @@ @]]
          [] OTHER -> IF ~val.set THEN nothing
                ELSE LET p == Meant(v[4], IF quoted THEN "pat" ELSE "alt", e)
                     IN  [m |-> Chars(Trimmed(val.value, Elements(p.m), op), quoted, separates), e |-> p.e]

MeantPart(v, context, e) ==
    LET quoted == context = "dq"
        separates == context \in {"bare", "alt"}
        chars(cs, q, s) == [m |-> Chars(cs, q, s), e |-> e]
        inner(w) == LET r == Meant(w, "dq", e) IN [r EXCEPT !.m = <<<<"null">>>> \o @]
        out == Output[v[2]]
        last == SelectLastInSeq(out, LAMBDA c : c # "\n")
    IN  CASE v[1] = "lit" -> chars(<<v[2]>>, quoted, context = "alt")
          [] v[1] = "esc" -> chars(IF quoted /\ v[2] \notin {"\\", "$", "\""} THEN <<"\\", v[2]>> ELSE <<v[2]>>,
                                   TRUE, FALSE)
          [] v[1] = "sq" -> [m |-> <<<<"null">>>> \o Chars(v[2], TRUE, FALSE), e |-> e]
          [] v[1] = "dq" /\ v[2] = <<<<"args", "@">>>> ->
                [m |-> Joined([i \in DOMAIN e.params |-> <<<<"null">>>> \o Chars(e.params[i], TRUE, FALSE)],
                              <<<<"next">>>>), e |-> e]
          [] v[1] = "dq" -> inner(v[2])
          [] v[1] = "var" -> MeantVar(v, context, e)
          [] v[1] = "len" -> chars(<<Ascii[Code["0"] + Len(Value(v[2], e).value)]>>, quoted, separates)
          [] v[1] = "args" /\ v[2] = "@" /\ quoted ->
                [m |-> Joined([i \in DOMAIN e.params |-> Chars(e.params[i], TRUE, FALSE)], <<<<"next">>>>),
                 e |-> e]
          [] v[1] = "args" -> chars(Joined(e.params, SubSeq(e.ifs, 1, 1)), quoted, separates)
          [] v[1] = "cmd" -> chars(SubSeq(out, 1, last), quoted, separates)
          [] v[1] = "ari" -> LET r == Meant(v[2], "dq", e) IN
                [m |-> Chars(Plain(r.m), quoted, separates), e |-> r.e]
          [] v[1] = "set" -> [m |-> <<v>>, e |-> e]
Meant(word, context, e) ==
    LET step(r, v) == LET s == MeantPart(v, context, r.e) IN
            IF r.e.err THEN r ELSE [m |-> r.m \o s.m, e |-> s.e]
    IN  FoldLeft(step, [m |-> <<>>, e |-> e], word)

-----------------------------------------------------------------------------
\* Field splitting.  f: has says whether the field exists although it may be
\* empty, absorbs that a separator other than space belongs to the last field.
Split(m, ifs) ==
    LET none == [cur |-> <<>>, has |-> FALSE, absorbs |-> FALSE]
        end(f, absorbs) == [none EXCEPT !.absorbs = absorbs] @@ [fields |-> Append(f.fields, f.cur)]
        step(f, i) ==
            CASE i[1] = "null" -> [f EXCEPT !.has = TRUE, !.absorbs = FALSE]
              [] i[1] = "next" -> [end(f, FALSE) EXCEPT !.has = TRUE]
              [] i[1] = "char" /\ (~i[4] \/ i[2] \notin ToSet(ifs)) ->
                    [f EXCEPT !.cur = Append(@, i), !.has = TRUE, !.absorbs = FALSE]
              [] i[1] = "char" /\ i[4] /\ i[2] \in ToSet(ifs) \cap Space -> 
                    IF f.has THEN end(f, TRUE) ELSE f
              [] OTHER -> IF f.absorbs THEN [f EXCEPT !.absorbs = FALSE] ELSE end(f, FALSE)
        f == FoldLeft(step, none @@ [fields |-> <<>>], m)
    IN  IF f.has THEN Append(f.fields, f.cur) ELSE f.fields

Filenames(m) ==
    LET els == Elements(m)
        found == {i \in DOMAIN Files : Matches(els, Files[i])
                                       /\ (Files[i][1] = "." => els[1] = <<"one", ".">>)}
    IN  IF els = <<>> \/ (\A i \in DOMAIN els : els[i][1] = "one") \/ found = {} THEN <<Plain(m)>>
        ELSE SetToSortSeq({Files[i] : i \in found}, strcmp)

\* A tilde at the beginning, alone or before "/".
Tilded(word) ==
    IF /\ Len(word) > 0 /\ word[1] = <<"lit", "~">> /\ Home # <<>>
       /\ Len(word) > 1 => word[2] = <<"lit", "/">>
    THEN <<<<"sq", Home>>>> \o Tail(word) ELSE word

Fields(word, env) ==
    LET r == Meant(Tilded(word), "bare", env)
        fields == Split(r.m, env.ifs)
    IN  IF r.e.err THEN [err |-> TRUE]
        ELSE [err |-> FALSE, vars |-> r.e.vars,
              fields |-> FlattenSeq([i \in DOMAIN fields |-> Filenames(fields[i])])]
Text(word, env) ==
    LET r == Meant(Tilded(word), "bare", env)
    IN  IF r.e.err THEN [err |-> TRUE]
        ELSE [err |-> FALSE, vars |-> r.e.vars, fields |-> <<Plain(r.m)>>]
=============================================================================
