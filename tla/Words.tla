-------------------------------- MODULE Words --------------------------------
(***************************************************************************)
(* How the parser reads a word (readtoken1): quotes become control         *)
(* characters, and what is to be expanded is marked for Expand.            *)
(* A command substitution is one character of the text, a key of Output,   *)
(* since the parser calls itself for it.                                   *)
(***************************************************************************)
EXTENDS Patterns

CONSTANT Output   \* what command substitutions print

CTLVAR == "CTLVAR" CTLENDVAR == "CTLENDVAR" CTLBACKQ == "CTLBACKQ"
CTLARI == "CTLARI" CTLENDARI == "CTLENDARI"
EOF == "PEOF"

Letters == {"a", "b", "c", "x", "y"}
Digits == {"0", "1", "2", "3"}
Special == {"#", "?", "$", "!", "-", "*", "@"}
VSNORMAL == "VSNORMAL"
BAD == "0" \* a bad substitution

\* The syntax tables, as mksyntax writes them.
Quotable == {"!", "*", "?", "[", "=", "~", ":", "/", "-", "]"}
Syntax(table, c) ==
    CASE c = EOF -> "CEOS"
      [] c = "\n" -> "CNL"
      [] c = "\\" /\ table # "sq" -> "CBACK"
      [] c = "$" /\ table # "sq" -> "CVAR"
      [] c \in DOMAIN Output /\ table # "sq" -> "CBQUOTE"
      [] c = "}" /\ table # "sq" -> "CENDVAR"
      [] c = "'" /\ table = "base" -> "CSQUOTE"
      [] c = "\"" /\ table = "base" -> "CDQUOTE"
      [] c = [sq |-> "'", dq |-> "\"", base |-> "", ari |-> ""][table] -> "CENDQUOTE"
      [] c \in Quotable /\ table \in {"sq", "dq"} -> "CCTL"
      [] c = "\\" /\ table = "sq" -> "CCTL"
      [] c = "(" /\ table = "ari" -> "CLP"
      [] c = ")" /\ table = "ari" -> "CRP"
      [] c \in {"<", ">", "(", ")", ";", "&", "|", " ", "\t"} /\ table = "base" -> "CSPCL"
      [] OTHER -> "CWORD"

(***************************************************************************)
(* r is the state of readtoken1: at is the next character, out what has    *)
(* been written, syntax the table in use.                                  *)
(***************************************************************************)
Start == [at |-> 1, out |-> <<>>, syntax |-> "base", dblquote |-> FALSE, quotef |-> FALSE,
          bqlist |-> <<>>, varnest |-> 0, dqvarnest |-> 0, arinest |-> 0, parenlevel |-> 0,
          prevsyntax |-> "base", err |-> FALSE]
pgetc(t, i) == IF i > Len(t) THEN EOF ELSE t[i]
Put(r, chars, n) == [r EXCEPT !.out = @ \o chars, !.at = @ + n]

\* parsesub, after "$": the variable's name and what is done with it.
Op(t, i) == \* its characters, from i
    LET c == pgetc(t, i)
        d == pgetc(t, i + 1)
    IN  CASE c = ":" -> <<c, d>>
          [] c \in {"%", "#"} /\ d = c -> <<c, d>>
          [] OTHER -> <<c>>
Types == <<"}">> :> VSNORMAL
      @@ <<"-">> :> "VSMINUS" @@ <<"+">> :> "VSPLUS" @@ <<"?">> :> "VSQUESTION" @@ <<"=">> :> "VSASSIGN"
      @@ <<":", "-">> :> "VSMINUS|VSNUL" @@ <<":", "+">> :> "VSPLUS|VSNUL"
      @@ <<":", "?">> :> "VSQUESTION|VSNUL" @@ <<":", "=">> :> "VSASSIGN|VSNUL"
      @@ <<"%">> :> "VSTRIMRIGHT" @@ <<"%", "%">> :> "VSTRIMRIGHTMAX"
      @@ <<"#">> :> "VSTRIMLEFT" @@ <<"#", "#">> :> "VSTRIMLEFTMAX"

\* The characters of the name at i, or none.
Name(t, i) ==
    LET ends(set) == SelectInSeq(SubSeq(t, i, Len(t)), LAMBDA d : d \notin set)
        run(set) == IF ends(set) = 0 THEN SubSeq(t, i, Len(t)) ELSE SubSeq(t, i, i + ends(set) - 2)
    IN  CASE pgetc(t, i) \in Letters -> run(Letters \cup Digits)
          [] pgetc(t, i) \in Digits  -> run(Digits)
          [] pgetc(t, i) \in Special -> <<t[i]>>
          [] OTHER -> <<>>

parsesub(t, r) ==
    LET brace == pgetc(t, r.at + 1) = "{"
        i == r.at + (IF brace THEN 2 ELSE 1)
        after == pgetc(t, i + 1)
        length == /\ brace /\ pgetc(t, i) = "#"
                  /\ after \in Letters \cup Digits \/ (after \in Special /\ pgetc(t, i + 2) = "}")
        name == Name(t, IF length THEN i + 1 ELSE i)
        op == Op(t, i + Len(name))
        written(type, n) == Put(r, <<CTLVAR, type>> \o name \o <<"=">>, n)
        nested(type, n) == [written(type, n)
            EXCEPT !.varnest = @ + 1, !.dqvarnest = IF r.dblquote THEN @ + 1 ELSE @]
        named == i + Len(name) - r.at
    IN  CASE pgetc(t, r.at + 1) = "(" /\ pgetc(t, r.at + 2) = "(" ->
                LET a == Put(r, <<CTLARI>>, 3)
                IN  IF r.arinest > 0 THEN [a EXCEPT !.arinest = @ + 1]
                    ELSE [a EXCEPT !.arinest = 1, !.prevsyntax = r.syntax, !.syntax = "ari"]
          [] ~brace /\ name = <<>> -> Put(r, <<"$">>, 1)
          [] ~brace /\ name # <<>> -> written(VSNORMAL, named)
          [] length -> nested("VSLENGTH", named + 1)
          [] brace /\ ~length /\ name = <<>> -> nested(BAD, named)
          [] OTHER -> IF op \notin DOMAIN Types THEN nested(BAD, named + Len(op))
                      ELSE IF Types[op] = VSNORMAL THEN written(VSNORMAL, named + 1)
                      ELSE nested(Types[op], named + Len(op))

\* A backslash: in double quotes only some characters are quoted by it.
Backslash(t, r) ==
    LET c == pgetc(t, r.at + 1)
        kept == r.dblquote /\ c \notin {"\\", "$", "\""} /\ c \notin DOMAIN Output
    IN  CASE c = EOF -> Put(r, <<CTLESC, "\\">>, 1)
          [] c = "\n" -> Put(r, <<>>, 2)
          [] OTHER -> [Put(r, (IF kept THEN <<"\\">> ELSE <<>>) \o <<CTLESC, c>>, 2)
                          EXCEPT !.quotef = TRUE]

EndQuote(r) ==
    LET out == [Put(r, <<CTLQUOTEMARK>>, 1) EXCEPT !.quotef = TRUE]
    IN  IF r.dqvarnest > 0 THEN out ELSE [out EXCEPT !.syntax = "base", !.dblquote = FALSE]
\* ")" in arithmetic.
Paren(t, r) ==
    CASE r.parenlevel > 0 -> [Put(r, <<")">>, 1) EXCEPT !.parenlevel = @ - 1]
      [] r.parenlevel = 0 /\ pgetc(t, r.at + 1) # ")" -> Put(r, <<")">>, 1)
      [] OTHER -> [Put(r, <<CTLENDARI>>, 2) EXCEPT !.arinest = @ - 1,
                     !.syntax = IF r.arinest = 1 THEN r.prevsyntax ELSE @]

\* One character.  The word ends where the state does not change.
readchar(t, r) ==
    LET c == pgetc(t, r.at)
        class == Syntax(r.syntax, c)
    IN  CASE class = "CNL" -> IF r.syntax = "base" THEN r ELSE Put(r, <<c>>, 1)
          [] class = "CWORD" -> Put(r, <<c>>, 1)
          [] class = "CCTL" -> Put(r, <<CTLESC, c>>, 1)
          [] class = "CBACK" -> Backslash(t, r)
          [] class = "CSQUOTE" -> [Put(r, <<CTLQUOTEMARK>>, 1) EXCEPT !.syntax = "sq"]
          [] class = "CDQUOTE" -> [Put(r, <<CTLQUOTEMARK>>, 1)
                                      EXCEPT !.syntax = "dq", !.dblquote = TRUE]
          [] class = "CENDQUOTE" -> EndQuote(r)
          [] class = "CVAR" -> parsesub(t, r)
          [] class = "CENDVAR" ->
                IF r.varnest = 0 THEN Put(r, <<c>>, 1)
                ELSE [Put(r, <<CTLENDVAR>>, 1) EXCEPT !.varnest = @ - 1,
                         !.dqvarnest = IF @ > 0 THEN @ - 1 ELSE @]
          [] class = "CLP" -> [Put(r, <<c>>, 1) EXCEPT !.parenlevel = @ + 1]
          [] class = "CRP" -> Paren(t, r)
          [] class = "CBQUOTE" -> [Put(r, <<CTLBACKQ>>, 1) EXCEPT !.bqlist = Append(@, c)]
          [] class = "CSPCL" -> IF r.varnest = 0 THEN r ELSE Put(r, <<c>>, 1)
          [] class = "CEOS" -> r

RECURSIVE readtoken1(_, _)
readtoken1(t, r) ==
    LET next == readchar(t, r)
    IN  IF r.err \/ next = r
        THEN [r EXCEPT !.err = @ \/ r.syntax # "base" \/ r.varnest # 0]
        ELSE readtoken1(t, next)
=============================================================================
