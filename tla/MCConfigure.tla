---------------------------- MODULE MCConfigure -----------------------------
(***************************************************************************)
(* Configure for TLC: all acyclic graphs of three modules, for a project   *)
(* of one directory; and trees of five directories, with one module.       *)
(***************************************************************************)
EXTENDS Configure

CONSTANTS core, cc, path, top, a, b, c, d

Cmd(flags, set) == [flags |-> flags, set |-> set]
Nothing == Cmd({}, FALSE)
AllCmds == {Cmd(f, s) : f \in SUBSET {"i", "e"}, s \in BOOLEAN}
ModCmds == {Nothing, Cmd({"i", "e"}, TRUE)}

\* At most two modules of ms.
Lists(ms) == {<<>>} \cup {<<m>> : m \in ms} \cup {<<m, n>> : m \in ms, n \in ms}
Graph(x, y, z, p) == [m \in {core, cc, path, Project} |->
    IF m = core THEN x ELSE IF m = cc THEN y ELSE IF m = path THEN z ELSE p]
Small     == Graph(<<>>, <<>>, <<>>, <<core>>)
AllGraphs == {Graph(<<>>, y, z, p) :
                 y \in Lists({core}), z \in Lists({core, cc}), p \in Lists({core, cc, path})}

Tree(r, x, y, z) == [e \in {top, a, b, c, d} |->
    IF e = top THEN r ELSE IF e = a THEN x ELSE IF e = b THEN y ELSE IF e = c THEN z ELSE <<>>]
Trees == {Tree(<<a, b>>, <<c>>, <<d>>, <<>>), Tree(<<a, Dot, b>>, <<>>, <<c, d>>, <<>>),
          Tree(<<a>>, <<Dot, b, d>>, <<c>>, <<>>)}
Alone == Tree(<<>>, <<>>, <<>>, <<>>)

AllProjects == {<<g, Alone>> : g \in AllGraphs} \cup {<<Small, t>> : t \in Trees}

=============================================================================
