------------------------------ MODULE Patterns ------------------------------
(***************************************************************************)
(* Pattern matching (expand.c): the control characters of quoted text are  *)
(* turned into backslashes, and pmatch matches the pattern.  A text is a   *)
(* sequence of characters.                                                 *)
(***************************************************************************)
EXTENDS Integers, Sequences, SequencesExt, TLC

CTLESC == "CTLESC"              \* the next character is quoted
CTLQUOTEMARK == "CTLQUOTEMARK"  \* quotes begin or end
NUL == "NUL"

\* The characters in use, in the order of their codes.
Ascii == <<" ", "!", "'", "*", "-", ".", "/", "0", "1", "2", "3", ":", "?", "@", "[", "\\", "]",
           "a", "b", "c", "x", "y", "~">>
Code == [c \in ToSet(Ascii) |-> CHOOSE i \in DOMAIN Ascii : Ascii[i] = c]
\* A class in a bracket expression is one character here, after its "[".
Classes == ":alpha:]" :> {"a", "b", "c", "x", "y"} @@ ":digit:]" :> {"0", "1", "2", "3"}

At(s, i) == IF i \in DOMAIN s THEN s[i] ELSE NUL
Drop(s, n) == SubSeq(s, n + 1, Len(s))

-----------------------------------------------------------------------------
\* Control characters are removed; with glob, quoted ones get a backslash.
rmescapes(str, glob) ==
    LET first == SelectInSeq(str, LAMBDA c : c \in {CTLESC, CTLQUOTEMARK})
        step(r, c) ==
            CASE r.copy -> [r EXCEPT !.out = Append(@, c), !.copy = FALSE]
              [] ~r.copy /\ c = CTLQUOTEMARK ->
                    [r EXCEPT !.inquotes = ~@, !.notescaped = glob]
              [] ~r.copy /\ c = CTLESC ->
                    [r EXCEPT !.out = IF r.notescaped THEN Append(@, "\\") ELSE @,
                              !.copy = TRUE, !.notescaped = glob]
              [] OTHER -> [r EXCEPT !.out = Append(@, c), 
                                    !.notescaped = glob /\ (c # "\\" \/ r.inquotes)]
    IN  IF first = 0 THEN str
        ELSE FoldLeft(step, [out |-> SubSeq(str, 1, first - 1), copy |-> FALSE,
                             inquotes |-> FALSE, notescaped |-> glob], Drop(str, first - 1)).out
preglob(pattern) == rmescapes(pattern, TRUE)

-----------------------------------------------------------------------------
\* Mutant of bracket: a backslash does not quote the end of a range.
RECURSIVE bracketNaive(_, _, _)
bracketNaive(p, chr, found) ==
    LET quoted == At(p, 1) = "\\"
        c == IF quoted THEN At(p, 2) ELSE At(p, 1)
        q == Drop(p, IF quoted THEN 2 ELSE 1)
        class == ~quoted /\ c = "[" /\ At(q, 1) \in DOMAIN Classes
        range == ~class /\ Len(q) > 1 /\ q[1] = "-" /\ q[2] # "]"
        hit == CASE class -> chr \in Classes[q[1]]
                 [] range -> Code[chr] >= Code[c] /\ Code[chr] =< Code[At(q, 2)]
                 [] OTHER -> chr = c
        next == Drop(q, IF class THEN 1 ELSE IF range THEN 2 ELSE 0)
    IN  IF p = <<>> THEN [closed |-> FALSE]
        ELSE IF At(next, 1) = "]"
        THEN [closed |-> TRUE, found |-> found \/ hit, rest |-> Tail(next)]
        ELSE bracketNaive(next, chr, found \/ hit)

\* What follows "[" or "[!": whether it is closed, whether chr is in it, and
\* what is left of the pattern.
RECURSIVE bracket(_, _, _)
bracket(p, chr, found) ==
    LET quoted == At(p, 1) = "\\"
        c == IF quoted THEN At(p, 2) ELSE At(p, 1)
        q == Drop(p, IF quoted THEN 2 ELSE 1)
        class == ~quoted /\ c = "[" /\ At(q, 1) \in DOMAIN Classes
        range == ~class /\ Len(q) > 1 /\ q[1] = "-" /\ q[2] # "]"
        last == IF At(q, 2) = "\\" THEN 3 ELSE 2
        hit == CASE class -> chr \in Classes[q[1]]
                 [] range -> Code[chr] >= Code[c] /\ Code[chr] =< Code[At(q, last)]
                 [] OTHER -> chr = c
        next == Drop(q, IF class THEN 1 ELSE IF range THEN last ELSE 0)
    IN  IF p = <<>> THEN [closed |-> FALSE]
        ELSE IF At(next, 1) = "]"
        THEN [closed |-> TRUE, found |-> found \/ hit, rest |-> Tail(next)]
        ELSE bracket(next, chr, found \/ hit)

RECURSIVE pmatch(_, _)
pmatch(pattern, string) ==
    LET c == At(pattern, 1)
        p == Drop(pattern, 1)
        q == Drop(string, 1)
        stars == SelectInSeq(p, LAMBDA d : d # "*")
        after == IF stars = 0 THEN <<>> ELSE Drop(p, stars - 1)
        \* A literal after the stars: the string is skipped up to it.
        skipped == IF At(after, 1) \in {"\\", "?", "["} THEN 1
                   ELSE SelectInSeq(Append(string, NUL), LAMBDA d : d = At(after, 1))
        invert == At(p, 1) = "!"
        b == bracket(IF invert THEN Tail(p) ELSE p, string[1], FALSE)
    IN  CASE pattern = <<>> -> string = <<>>
          [] c = "*" -> skipped # 0 /\ \E i \in skipped..Len(string) + 1 :
                            pmatch(after, Drop(string, i - 1))
          [] string = <<>> -> FALSE
          [] c = "?" -> pmatch(p, q)
          [] c = "\\" /\ p # <<>> -> string[1] = p[1] /\ pmatch(Tail(p), q)
          \* Not closed: the rest is compared with the next character, again.
          [] c = "[" /\ ~b.closed -> p # <<>> /\ At(q, 1) = p[1] /\ pmatch(p, Tail(q))
          [] c = "[" /\ b.closed -> b.found # invert /\ pmatch(b.rest, q)
          [] OTHER -> string[1] = c /\ pmatch(p, q)

-----------------------------------------------------------------------------
(***************************************************************************)
(* ${x#pattern} and its like.  value is the text of x, which may hold      *)
(* CTLESC; a position in it is walked together with one in the text        *)
(* without CTLESC.  The result is the position found, from 1, or 0.        *)
(***************************************************************************)
esclen(s, i) == \* the CTLESCs right before position i
    LET other == SelectLastInSeq(SubSeq(s, 1, i - 1), LAMBDA c : c # CTLESC)
    IN  i - 1 - other

RECURSIVE scanleft(_, _, _, _, _, _)
scanleft(value, plain, pattern, zero, loc, loc2) ==
    LET s == IF zero THEN SubSeq(plain, 1, loc2 - 1) ELSE Drop(plain, loc2 - 1)
    IN  IF pmatch(pattern, s) THEN loc
        ELSE IF loc2 > Len(plain) THEN 0
        ELSE scanleft(value, plain, pattern, zero,
                      IF At(value, loc) = CTLESC THEN loc + 2 ELSE loc + 1, loc2 + 1)

RECURSIVE scanright(_, _, _, _, _, _)
scanright(value, plain, pattern, zero, loc, loc2) ==
    LET s == IF zero THEN SubSeq(plain, 1, loc2 - 1) ELSE Drop(plain, loc2 - 1)
        back == IF esclen(value, loc - 1) % 2 = 1 THEN 2 ELSE 1
    IN  IF loc < 1 THEN 0
        ELSE IF pmatch(pattern, s) THEN loc
        ELSE scanright(value, plain, pattern, zero, loc - back, loc2 - 1)

\* What is left of value; from is the side the pattern is at.
trimmed(value, escaped, pattern, from, longest) ==
    LET plain == IF escaped THEN rmescapes(value, FALSE) ELSE value
        zero == from = "left"
        loc == IF zero = longest
               THEN scanright(value, plain, preglob(pattern), zero, Len(value) + 1, Len(plain) + 1)
               ELSE scanleft(value, plain, preglob(pattern), zero, 1, 1)
    IN  CASE loc = 0 -> value
          [] loc # 0 /\ zero -> Drop(value, loc - 1)
          [] OTHER -> SubSeq(value, 1, loc - 1)
=============================================================================
