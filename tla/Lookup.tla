------------------------------- MODULE Lookup -------------------------------
(***************************************************************************)
(* Finding commands (exec.c) as operators on a record [path, builtinloc,   *)
(* table, count, cwd, locals]: PATH, the place of %builtin in it, the hash *)
(* table of commands, the reference counts of functions, the directory the *)
(* shell is in, and what open functions and commands will restore PATH to. *)
(* PATH is a sequence of entries; "" is the current directory, "%builtin"  *)
(* stands for the builtins.  The table knows an entry by its place in      *)
(* PATH, from 0 as in the source.                                          *)
(***************************************************************************)
EXTENDS Integers, Sequences, SequencesExt, FiniteSetsExt

CONSTANTS Names, FuncIds

None == [type |-> "none", index |-> -1, rehash |-> FALSE]
Entry(type, index) == [type |-> type, index |-> index, rehash |-> FALSE]

\* Whether there is a regular file, and an executable one.  files maps
\* <<directory, name>> to "exe", "plain" or "no".
Dir(ct, p) == IF p = "" THEN ct.cwd ELSE p
Stat(ct, files, p, name) == p # "%builtin" /\ files[Dir(ct, p), name] # "no"
Executable(ct, files, p, name) == p # "%builtin" /\ files[Dir(ct, p), name] = "exe"

BuiltinAt(path) == SelectInSeq(path, LAMBDA p : p = "%builtin") - 1

-----------------------------------------------------------------------------
\* The table.
\* Mutant of clearcmdentry: what was found at the first change stays.
clearcmdentryLate(ct, first) ==
    [ct EXCEPT !.table = [n \in Names |->
        IF \/ @[n].type = "normal" /\ @[n].index > first
           \/ @[n].type = "builtin" /\ ct.builtinloc >= first
        THEN None ELSE @[n]]]
clearcmdentry(ct, first) ==
    [ct EXCEPT !.table = [n \in Names |->
        IF \/ @[n].type = "normal" /\ @[n].index >= first
           \/ @[n].type = "builtin" /\ ct.builtinloc >= first
        THEN None ELSE @[n]]]

\* The first entry of PATH that is not what it was.
FirstChange(old, new) ==
    LET common == {i \in 1..Len(old) : i =< Len(new) /\ old[i] = new[i]}
        prefix == Max({i \in 0..Len(old) : 1..i \subseteq common})
    IN  IF old = new THEN 9999 ELSE prefix

changepath(ct, new) ==
    LET bltin == BuiltinAt(new)
        loc == IF ct.builtinloc < 0 THEN bltin ELSE ct.builtinloc
        first == IF loc >= 0 /\ bltin < 0 THEN 0 ELSE FirstChange(ct.path, new)
    IN  [clearcmdentry([ct EXCEPT !.builtinloc = loc], first)
            EXCEPT !.builtinloc = bltin, !.path = new]

hashcd(ct, builtin) ==
    [ct EXCEPT !.table = [n \in Names |->
        IF \/ @[n].type = "normal"
           \/ @[n].type = "builtin" /\ builtin[n] = "plain" /\ ct.builtinloc > 0
        THEN [@[n] EXCEPT !.rehash = TRUE] ELSE @[n]]]

freefunc(ct, f) == [ct EXCEPT !.count[f] = @ - 1]
delete_cmd_entry(ct, name) ==
    LET e == ct.table[name]
        freed == IF e.type = "function" THEN freefunc(ct, e.index) ELSE ct
    IN  [freed EXCEPT !.table[name] = None]

\* A function that nothing refers to has count -1.
Unused(ct) == {f \in FuncIds : ct.count[f] = -1}
defun(ct, name) ==
    LET f == Min(Unused(ct))
        old == ct.table[name]
        freed == IF old.type = "function" THEN freefunc(ct, old.index) ELSE ct
    IN  [freed EXCEPT !.count[f] = 0, !.table[name] = Entry("function", f)]
unsetfunc(ct, name) ==
    IF ct.table[name].type = "function" THEN delete_cmd_entry(ct, name) ELSE ct

-----------------------------------------------------------------------------
\* Local values of PATH: locals is the stack of lists of saved values.
pushlocalvars(ct) == [ct EXCEPT !.locals = <<<<>>>> \o @]
mklocal(ct, path) ==
    [changepath(ct, path) EXCEPT !.locals[1] = <<ct.path>> \o @]
Restored(ct, values) ==
    LET to[k \in 0..Len(values)] == IF k = 0 THEN ct ELSE changepath(to[k - 1], values[k])
    IN  to[Len(values)]
poplocalvars(ct, keep) ==
    [(IF keep = 1 THEN ct ELSE Restored(ct, Head(ct.locals))) EXCEPT !.locals = Tail(@)]
unwindlocalvars(ct, stop) ==
    LET pops == Len(ct.locals) - stop
        left[k \in 0..pops] == IF k = 0 THEN ct ELSE poplocalvars(left[k - 1], 0)
    IN  IF pops =< 0 THEN ct ELSE left[pops]

-----------------------------------------------------------------------------
\* find_command: where the walk through path stops, and why.
Walk(ct, files, builtin, name, path, prev) ==
    LET stops(i) == \/ path[i + 1] = "%builtin" /\ builtin[name] # "none"
                    \/ path[i + 1] \notin {"", "%builtin"} /\ i = prev
                    \/ /\ path[i + 1] = "" \/ i > prev
                       /\ Stat(ct, files, path[i + 1], name)
        at == {i \in 0..Len(path) - 1 : stops(i)}
    IN  IF at = {} THEN None
        ELSE Entry(IF path[Min(at) + 1] = "%builtin" THEN "builtin" ELSE "normal", Min(at))

\* What the name is found to be; path is another one than PATH if alt.
find_command(ct, files, builtin, name, path, alt, nofunc) ==
    LET cached == ct.table[name]
        refused == \/ cached.type = "normal" /\ alt
                   \/ cached.type = "function" /\ nofunc
                   \/ cached.type = "builtin" /\ alt /\ BuiltinAt(path) >= 0
        cmdp == IF refused THEN None ELSE cached
        update == ~alt /\ ~refused
        first == \/ builtin[name] \in {"regular", "special"}
                 \/ /\ builtin[name] = "plain"
                    /\ IF alt THEN BuiltinAt(path) < 0 ELSE ct.builtinloc =< 0
        prev == IF ~cmdp.rehash THEN -1
                ELSE IF cmdp.type = "builtin" THEN ct.builtinloc ELSE cmdp.index
        found == IF cmdp.type # "none" /\ ~cmdp.rehash THEN cmdp
                 ELSE IF first THEN Entry("builtin", -1)
                 ELSE Walk(ct, files, builtin, name, path, prev)
        settled == IF found.type = "builtin" THEN Entry("builtin", -1) ELSE found
    IN  [entry |-> settled,
         ct |-> IF update THEN [ct EXCEPT !.table[name] = settled] ELSE ct]

\* hash name: look it up anew.
hashcmd(ct, files, builtin, name) ==
    LET e == ct.table[name]
        forgets == e.type = "normal" \/ (e.type = "builtin" /\ ct.builtinloc >= 0)
        dropped == IF forgets THEN delete_cmd_entry(ct, name) ELSE ct
    IN  find_command(dropped, files, builtin, name, ct.path, FALSE, FALSE).ct

\* shellexec: try the entries of path from index on; what is run, or the
\* status of the failure.
shellexec(ct, files, name, path, index) ==
    LET tried == {i \in 0..Len(path) - 1 : i >= index /\ path[i + 1] # "%builtin"}
        runs == {i \in tried : Executable(ct, files, path[i + 1], name)}
    IN  IF runs # {} THEN <<"run", Dir(ct, path[Min(runs) + 1])>>
        ELSE IF \E i \in tried : Stat(ct, files, path[i + 1], name) THEN <<"status", 126>>
        ELSE <<"status", 127>>

\* What a command of that name does.
Does(ct, files, builtin, name, path, alt, nofunc) ==
    LET e == find_command(ct, files, builtin, name, path, alt, nofunc).entry IN
    CASE e.type = "normal" -> shellexec(ct, files, name, path, e.index)
      [] e.type = "none" -> <<"status", 127>>
      [] OTHER -> <<e.type, name>>
=============================================================================
