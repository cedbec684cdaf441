----------------------------- MODULE MCCommands -----------------------------
(***************************************************************************)
(* Commands for TLC: programs that nest, with redirections and errors, and *)
(* programs that change what is found under a name.                        *)
(***************************************************************************)
EXTENDS Commands, TLC

ToFile(n)  == [type |-> "file", fd |-> n, from |-> 0]
Copy(n, m) == [type |-> "dup", fd |-> n, from |-> m]
Shut(n)    == [type |-> "close", fd |-> n, from |-> 0]
Failing    == [type |-> "fail", fd |-> 1, from |-> 0]

Name == CHOOSE n \in Names : TRUE
Nowhere == [d \in {"a"} \X Names |-> "no"]

Base == [program |-> {}, redirs |-> {<<>>}, paths |-> {<<"a">>}, args |-> {<<>>}, builtin |-> Name :> "none",
         files |-> Nowhere, cwds |-> {"a"}, interactive |-> TRUE, depth |-> 1]

Nesting == {"call", "eval", "command", "group", "error", "defun"}
WithExec == [Base EXCEPT
    !.program = Nesting \cup {"exec"}, !.depth = 4,
    !.redirs = {<<>>, <<ToFile(2), Copy(1, 2)>>, <<ToFile(1), Failing>>}]
WithClosing == [Base EXCEPT
    !.program = Nesting \cup {"simple", "special"}, !.depth = 4,
    !.redirs = {<<>>, <<Shut(1)>>, <<ToFile(1), Copy(2, 1)>>}]
Skips == [Base EXCEPT !.depth = 4,
    !.program = {"call", "eval", "command", "dot", "loop", "break", "return", "error", "defun"}]
Arguments == [Base EXCEPT !.depth = 4,
    !.program = {"call", "eval", "command", "set", "return", "error", "defun", "unset"}]
OptString == "a" :> FALSE @@ "b" :> TRUE
Lists == {<<<<"-", "a", "a">>, <<"-", "b">>, <<"-", "a">>>>,
          <<<<"-", "c", "b", "a">>, <<"-", "-">>, <<"-", "a">>>>,
          <<<<"-", "a">>, <<"-", "b">>>>}
WithOptions == [Base EXCEPT !.depth = 2, !.args = Lists,
    !.program = {"call", "set", "shift", "getopts", "error", "defun"}]
PathValues == {<<"a", "b">>, <<"b", "">>, <<"", "a">>, <<"a", "%builtin", "">>, <<"%builtin", "b">>}
Lookups == {[Base EXCEPT
    !.program = {"simple", "special", "call", "defun", "unset", "hash", "cd", "local", "error"},
    !.paths = PathValues, !.builtin = Name :> b, !.cwds = {"u", "v"}, !.depth = 2,
    !.files = [d \in {"a", "b", "u", "v"} \X Names |-> f[d[1]]]] :
       b \in {"none", "plain"}, f \in [a : {"no", "plain", "exe"}, b : {"exe"},
                                       u : {"no", "exe"}, v : {"exe"}]}

AllWorlds == {WithExec, WithClosing, Skips, Arguments, WithOptions} \cup Lookups

\* The hypothesis of DescriptorsRestored and CopiesClosed (CommandsProofs).
ASSUME LastingAssumption == \A w \in Worlds : Lasting(w)

=============================================================================
