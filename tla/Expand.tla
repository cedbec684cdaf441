------------------------------- MODULE Expand -------------------------------
(***************************************************************************)
(* Expansion of words (expand.c).  argstr and evalvar write the expanded   *)
(* text, with the control characters of what is quoted, to dest, and       *)
(* record which regions of it are to be split; ifsbreakup splits them and  *)
(* expandmeta looks for files.                                             *)
(***************************************************************************)
EXTENDS Words

CONSTANTS Files,   \* the file names of the directory, in the order of readdir
          Home

\* x, the state: dest and regs (regions: offsets beg and end, nulonly),
\* bq (the command substitutions to come), vars, params, ifs, and err.
Escaped(flag) == flag \cap {"full", "case", "qpat"} # {}
Quoted(flag) == "quoted" \in flag
Put_(x, chars) == [x EXCEPT !.dest = @ \o chars]

\* memtodest: what of a value could be taken for syntax is escaped.
memtodest(x, chars, table, flag) ==
    Put_(x, FlattenSeq([i \in DOMAIN chars |->
        IF /\ Escaped(flag)
           /\ \/ Syntax(table, chars[i]) = "CCTL"
              \/ ("full" \in flag \/ table # "base") /\ Syntax(table, chars[i]) = "CBACK"
        THEN <<CTLESC, chars[i]>> ELSE <<chars[i]>>]))

\* Mutant of recordregion: an empty region does not split what is before it.
recordregionLate(x, beg, nulonly) ==
    [x EXCEPT !.regs = Append(@, [beg |-> beg + 1, end |-> Len(x.dest), nulonly |-> nulonly])]
recordregion(x, beg, nulonly) ==
    [x EXCEPT !.regs = Append(@, [beg |-> beg, end |-> Len(x.dest), nulonly |-> nulonly])]
removerecordregions(x, end) ==
    LET first == Head(x.regs)
        later == SelectInSeq(Tail(x.regs), LAMBDA r : r.beg >= end)
        kept == IF later = 0 THEN x.regs ELSE SubSeq(x.regs, 1, later)
        cut == [kept EXCEPT ![Len(kept)].end = IF @ > end THEN end ELSE @]
    IN  CASE x.regs = <<>> -> x
          [] x.regs # <<>> /\ first.end > end ->
                [x EXCEPT !.regs = IF first.beg > end THEN <<>> ELSE <<[first EXCEPT !.end = end]>>]
          [] OTHER -> [x EXCEPT !.regs = cut]

exptilde(w, p, flag, x) ==
    LET ends == SelectInSeq(SubSeq(w, p, Len(w)),
                            LAMBDA c : c \in {CTLESC, CTLQUOTEMARK, "/", CTLENDVAR})
        q == IF ends = 0 THEN Len(w) + 1 ELSE p + ends - 1
    IN  IF At(w, q) \in {CTLESC, CTLQUOTEMARK} \/ q # p + 1 \/ Home = <<>> THEN [p |-> p, x |-> x]
        ELSE [p |-> q, x |-> memtodest(x, Home, "sq", flag)]

\* $((...)): what is behind the last CTLARI that is not escaped.  Its value
\* is Arith's; here it is a digit.
expari(x, flag) ==
    LET beg == CHOOSE i \in DOMAIN x.dest : 
                   /\ x.dest[i] = CTLARI
                   /\ \A j \in i + 1..Len(x.dest) : x.dest[j] # CTLARI
        text == Drop(Front(x.dest), beg)
        digits == SelectSeq(IF Escaped(flag) THEN rmescapes(text, FALSE) ELSE text, LAMBDA c : c # " ")
        done == Put_([removerecordregions(x, beg - 1) EXCEPT !.dest = SubSeq(@, 1, beg - 1)], digits)
    IN  IF Quoted(flag) THEN done ELSE recordregion(done, beg - 1, FALSE)

expbackq(x, flag) ==
    LET out == memtodest(x, Output[Head(x.bq)], IF Quoted(flag) THEN "dq" ELSE "base", flag)
        last == SelectLastInSeq(out.dest, LAMBDA c : c # "\n")
        done == [out EXCEPT !.dest = SubSeq(@, 1, last), !.bq = Tail(@)]
    IN  IF Quoted(flag) THEN done ELSE recordregion(done, Len(x.dest), FALSE)

\* varvalue: len is -1 if there is no value, and dest gets it, unless it is
\* not wanted.
varvalue(x, name, flag, discard) ==
    LET table == IF Quoted(flag) THEN "dq" ELSE "base"
        flags == IF discard THEN {} ELSE flag
        sep == IF name = <<"@">> /\ Quoted(flag) /\ "full" \in flag THEN <<NUL>>
               ELSE SubSeq(x.ifs, 1, 1)
        joined == FoldLeft(LAMBDA t, s : t \o sep \o s, Head(x.params), Tail(x.params))
        number == IF name[1] \in Digits THEN Code[name[1]] - Code["0"] ELSE 0
        value == CASE name = <<"#">> -> <<Ascii[Code["0"] + Len(x.params)]>>
                   [] name \in {<<"@">>, <<"*">>} -> IF x.params = <<>> THEN <<>> ELSE joined
                   [] number > 0 -> x.params[number]
                   [] OTHER -> x.vars[name]
        set == IF number > 0 THEN number =< Len(x.params)
               ELSE name \in {<<"#">>, <<"@">>, <<"*">>} \cup DOMAIN x.vars
    IN  IF ~set THEN [len |-> -1, x |-> x]
        ELSE [len |-> Len(value), 
              x |-> IF discard THEN x ELSE memtodest(x, value, table, flags)]

\* Where the alternative that begins at p ends, and how many command
\* substitutions are in it.
RECURSIVE skipto(_, _, _, _)
skipto(w, p, nesting, count) ==
    LET c == At(w, p) IN
    CASE c = CTLESC -> skipto(w, p + 2, nesting, count)
      [] c = CTLBACKQ -> skipto(w, p + 1, nesting, count + 1)
      [] c = CTLVAR -> skipto(w, p + 2, IF At(w, p + 1) = VSNORMAL THEN nesting ELSE nesting + 1, count)
      [] c = CTLENDVAR /\ nesting = 1 -> [p |-> p + 1, count |-> count]
      [] c = CTLENDVAR /\ nesting > 1 -> skipto(w, p + 1, nesting - 1, count)
      [] OTHER -> skipto(w, p + 1, nesting, count)

Kind(type) == SelectInSeq(<<"VSMINUS|VSNUL", "VSPLUS|VSNUL", "VSQUESTION|VSNUL", "VSASSIGN|VSNUL">>,
                          LAMBDA t : t = type)
Type(type) == IF Kind(type) = 0 THEN type
              ELSE <<"VSMINUS", "VSPLUS", "VSQUESTION", "VSASSIGN">>[Kind(type)]
Side == "VSTRIMLEFT" :> "left" @@ "VSTRIMLEFTMAX" :> "left"
     @@ "VSTRIMRIGHT" :> "right" @@ "VSTRIMRIGHTMAX" :> "right"

RECURSIVE scan(_, _, _, _, _, _, _)
argstr(w, p, flag, x) ==
    LET tilde == IF "tilde" \in flag /\ At(w, p) = "~" THEN exptilde(w, p, flag, x)
                 ELSE [p |-> p, x |-> x]
    IN  scan(w, tilde.p, 0, flag \ {"tilde"}, FALSE, Len(tilde.x.dest), tilde.x)

\* The part of evalvar from "again" to "end", for the type token at p.
RECURSIVE Substituted(_, _, _, _, _, _, _)
Substituted(w, p, body, name, type, flag, x) ==
    LET subtype == Type(type)
        quoted == Quoted(flag)
        easy == ~quoted \/ (name = <<"@">> /\ x.params # <<>>)
        start == Len(x.dest)
        got == varvalue(x, name, flag, subtype \in {"VSPLUS", "VSLENGTH"})
        n == IF Kind(type) = 0 THEN got.len ELSE got.len - 1
        varlen == IF subtype = "VSPLUS" THEN -1 - n ELSE n
        record(y) == [len |-> varlen, x |-> recordregion(y, start, quoted)]
        recordeasy(y) == IF easy THEN record(y) ELSE [len |-> varlen, x |-> y]
        assigned == argstr(w, body, {"tilde"}, got.x)
        pattern == argstr(w, body, {"tilde", IF quoted THEN "qpat" ELSE "case"},
                          [got.x EXCEPT !.dest = Append(@, NUL)])
        value == Drop(got.x.dest, start)
        longest == subtype \in {"VSTRIMLEFTMAX", "VSTRIMRIGHTMAX"}
        trim == trimmed(value, Escaped(flag), Drop(pattern.dest, Len(got.x.dest) + 1),
                        Side[subtype], longest)
    IN  CASE subtype \in {"VSMINUS", "VSPLUS"} ->
                IF varlen < 0 
                THEN [len |-> varlen, x |-> argstr(w, body, flag \cup {"tilde", "word"}, got.x)]
                ELSE recordeasy(got.x)
          [] subtype = "VSASSIGN" /\ varlen < 0 ->
                Substituted(w, p, body, name, "VSASSIGN", flag, removerecordregions(
                    [assigned EXCEPT !.vars = name :> Drop(assigned.dest, start) @@ @,
                                     !.dest = x.dest, !.bq = x.bq], start))
          [] subtype = "VSQUESTION" /\ varlen < 0 -> [len |-> -1, x |-> [x EXCEPT !.err = TRUE]]
          [] subtype \in {"VSASSIGN", "VSQUESTION"} /\ varlen >= 0 -> recordeasy(got.x)
          [] subtype = "VSLENGTH" ->
                record(Put_(x, <<Ascii[Code["0"] + (IF varlen > 0 THEN varlen ELSE 0)]>>))
          [] subtype = VSNORMAL -> recordeasy(got.x)
          [] varlen < 0 -> [len |-> varlen, x |-> got.x]
          [] OTHER -> record(removerecordregions(
                          [pattern EXCEPT !.dest = x.dest \o trim, !.bq = x.bq], start))

\* p is behind CTLVAR.
evalvar(w, p, flag, x) ==
    LET body == p + SelectInSeq(SubSeq(w, p + 1, Len(w)), LAMBDA c : c = "=") + 1
        s == Substituted(w, p, body, SubSeq(w, p + 1, body - 2), w[p], flag, x)
        skip == skipto(w, body, 1, 0)
    IN  IF w[p] = BAD THEN [p |-> body, x |-> [x EXCEPT !.err = TRUE]]
        ELSE IF w[p] = VSNORMAL THEN [p |-> body, x |-> s.x]
        ELSE [p |-> skip.p, x |-> IF s.len < 0 THEN s.x
                                  ELSE [s.x EXCEPT !.bq = Drop(@, skip.count)]]

dolatstr == <<CTLVAR, VSNORMAL, "@", "=", CTLQUOTEMARK>>

\* The loop of argstr: from p, of which the first len characters are to be
\* written as they are; start is where the region to record begins.
scan(w, p, len, flag, inquotes, start, x) ==
    LET stops == SelectInSeq(SubSeq(w, p + len, Len(w)), LAMBDA c : c \in
                     {CTLQUOTEMARK, CTLENDVAR, CTLESC, CTLVAR, CTLBACKQ, CTLENDARI})
        q == IF stops = 0 THEN Len(w) + 1 ELSE p + len + stops - 1
        c == At(w, q)
        text == SubSeq(w, p, IF c = CTLENDARI THEN q ELSE q - 1)
        put == Put_(x, text)
        breakall == "word" \in flag /\ ~Quoted(flag) /\ ~inquotes
        y == IF text # <<>> /\ breakall /\ Len(put.dest) > start
             THEN recordregion(put, start, FALSE) ELSE put
        here == IF text # <<>> THEN Len(y.dest) ELSE start
        in == IF c = CTLQUOTEMARK THEN ~inquotes ELSE inquotes
        flags == IF in THEN flag \cup {"quoted"} ELSE flag
        v == evalvar(w, q + 1, flags, y)
        hack == evalvar(w, q + 2, flags, y)
        restart(r, p2) == scan(w, p2, 0, flag, in, Len(r.dest), r)
        \* addquote
        quote(len2) == IF Escaped(flag) THEN scan(w, q, len2 + 1, flag, in, here + 1, y)
                       ELSE scan(w, q + 1, len2, flag, in, here, y)
    IN  CASE c \in {NUL, CTLENDVAR} \/ y.err -> y
          [] c = CTLQUOTEMARK ->
                IF in /\ IsPrefix(dolatstr, Drop(w, q))
                THEN restart(hack.x, hack.p + 1)
                ELSE quote(0)
          [] c = CTLESC ->
                IF "qpat" \in flag /\ ~Quoted(flags) /\ At(w, q + 1) # "\\"
                THEN scan(w, q + 1, 1, flag, in, here + 1, y)
                ELSE IF Escaped(flag) THEN scan(w, q, 2, flag, in, here + 2, y)
                ELSE scan(w, q + 1, 1, flag, in, here + 1, y)
          [] c = CTLVAR -> restart(v.x, v.p)
          [] c = CTLBACKQ -> LET r == expbackq(y, flags) IN restart(r, q + 1)
          [] c = CTLENDARI -> LET r == expari(y, flags) IN restart(r, q + 1)

-----------------------------------------------------------------------------
\* ifsbreakup.  b is its state: start of the field and p, from 1, ifsspc.
Space == {" ", "\t", "\n", NUL}
CString(s) == LET end == SelectInSeq(s, LAMBDA c : c = NUL) IN IF end = 0 THEN s ELSE SubSeq(s, 1, end - 1)

\* Behind the end of a field: separators that belong to it.
RECURSIVE separators(_, _, _, _, _)
separators(s, p, end, ifs, ifsspc) ==
    LET q == IF At(s, p) = CTLESC THEN p + 1 ELSE p
        c == At(s, q)
    IN  CASE p > end \/ c \notin ifs -> p
          [] p =< end /\ c \in ifs \cap Space -> separators(s, q + 1, end, ifs, ifsspc)
          [] OTHER -> IF ifsspc THEN separators(s, q + 1, end, ifs, FALSE) ELSE p

RECURSIVE region(_, _, _, _, _)
region(s, b, end, ifs, nulonly) ==
    LET q == IF At(s, b.p) = CTLESC THEN b.p + 1 ELSE b.p
        space == ~nulonly /\ At(s, q) \in Space
        next == IF nulonly THEN q + 1 ELSE separators(s, q + 1, end, ifs, space)
    IN  CASE b.p > end -> b
          [] b.p =< end /\ At(s, q) \notin ifs -> region(s, [b EXCEPT !.p = q + 1], end, ifs, nulonly)
          [] b.p =< end /\ b.p = b.start /\ space ->
                region(s, [b EXCEPT !.p = q + 1, !.start = q + 1], end, ifs, nulonly)
          [] OTHER -> region(s, [b EXCEPT !.p = next, !.start = next,
                                 !.fields = Append(@, SubSeq(s, b.start, b.p - 1))], end, ifs, nulonly)

ifsbreakup(s, regs, ifs) ==
    LET step(b, r) == region(s, [b EXCEPT !.p = r.beg + 1], r.end, 
                             (IF r.nulonly THEN {} ELSE ToSet(ifs)) \cup {NUL}, r.nulonly)
        done == FoldLeft(step, [start |-> 1, p |-> 1, fields |-> <<>>], regs)
        rest == CString(Drop(s, done.start - 1))
    IN  IF rest = <<>> /\ (regs = <<>> \/ ~Last(regs).nulonly)
        THEN done.fields ELSE Append(done.fields, rest)

-----------------------------------------------------------------------------
\* expmeta, for a pattern without "/": whether it has a metacharacter.
RECURSIVE closes(_, _)
closes(p, q) ==
    LET e == IF At(p, q) = "\\" THEN q + 1 ELSE q IN
    CASE At(p, e) \in {"/", NUL} -> FALSE
      [] At(p, e + 1) = "]" -> TRUE
      [] OTHER -> closes(p, e + 1)
RECURSIVE hasmeta(_, _)
hasmeta(p, i) ==
    CASE i > Len(p) -> FALSE
      [] i =< Len(p) /\ p[i] \in {"*", "?"} -> TRUE
      [] i =< Len(p) /\ p[i] = "[" /\ closes(p, IF At(p, i + 1) = "!" THEN i + 2 ELSE i + 1) -> TRUE
      [] OTHER -> hasmeta(p, IF p[i] = "\\" THEN i + 2 ELSE i + 1)

strcmp(s, t) == \* s < t
    LET differ == {i \in 1..Len(s) + 1 : At(s, i) # At(t, i)}
        i == CHOOSE j \in differ : \A k \in differ : j =< k
        code(u) == IF i > Len(u) THEN 0 ELSE Code[u[i]]
    IN  differ # {} /\ code(s) < code(t)
RECURSIVE merge(_, _)
merge(q, p) ==
    CASE p = <<>> -> q
      [] p # <<>> /\ q = <<>> -> p
      [] OTHER -> IF strcmp(Head(p), Head(q)) THEN <<Head(p)>> \o merge(q, Tail(p))
                  ELSE <<Head(q)>> \o merge(Tail(q), p)
RECURSIVE msort(_)
msort(list) ==
    LET half == Len(list) \div 2 IN
    IF Len(list) =< 1 THEN list
    ELSE merge(msort(SubSeq(list, 1, half)), msort(Drop(list, half)))

expmeta(pattern) ==
    LET dot == At(pattern, 1) = "." \/ (At(pattern, 1) = "\\" /\ At(pattern, 2) = ".")
    IN  IF ~hasmeta(pattern, 1) THEN <<>>
        ELSE SelectSeq(Files, LAMBDA f : (f[1] # "." \/ dot) /\ pmatch(pattern, f))
expandmeta(str) ==
    LET found == expmeta(preglob(str))
    IN  IF ToSet(str) \cap {"*", "?", "["} = {} \/ found = <<>> THEN <<rmescapes(str, FALSE)>>
        ELSE msort(found)

-----------------------------------------------------------------------------
Env(vars, params, ifs) == [dest |-> <<>>, regs |-> <<>>, bq |-> <<>>, vars |-> vars,
                           params |-> params, ifs |-> ifs, err |-> FALSE]

\* expandarg with EXP_FULL: the arguments a word becomes.
expandarg(word, env) ==
    LET x == argstr(word.out, 1, {"full", "tilde"}, [env EXCEPT !.bq = word.bqlist])
        fields == ifsbreakup(x.dest, x.regs, x.ifs)
    IN  IF x.err THEN [err |-> TRUE]
        ELSE [err |-> FALSE, vars |-> x.vars,
              fields |-> FlattenSeq([i \in DOMAIN fields |-> expandmeta(CString(fields[i]))])]
\* Without EXP_FULL: one text, as the subject of case.
expandtext(word, env) ==
    LET x == argstr(word.out, 1, {"tilde"}, [env EXCEPT !.bq = word.bqlist])
    IN  IF x.err THEN [err |-> TRUE]
        ELSE [err |-> FALSE, vars |-> x.vars, fields |-> <<CString(x.dest)>>]
casematch(pattern, env, val) ==
    LET x == argstr(pattern.out, 1, {"tilde", "case"}, [env EXCEPT !.bq = pattern.bqlist])
    IN  pmatch(preglob(x.dest), val)
=============================================================================
