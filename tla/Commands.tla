------------------------------ MODULE Commands ------------------------------
(***************************************************************************)
(* The shell running commands: eval.c, with redirections (redir.c), the    *)
(* lookup of commands (exec.c), positional parameters (options.c) and the  *)
(* stack of inputs (input.c).  What a command does while it runs nests:    *)
(* loops, groups, functions, eval and dot scripts; an error unwinds them   *)
(* by longjmp to the innermost handler.                                    *)
(***************************************************************************)
EXTENDS Integers, Sequences, SequencesExt, FiniteSetsExt

CONSTANTS
    UserFds, LowFds, SaveFds, Closed, File, Terminal,
    Names, FuncIds, Options,
    Worlds,     \* what does not change: program (the commands in use), redirs, paths
                \* and args (the redirections, values of PATH and arguments they have),
                \* builtin, files, cwds, interactive, and depth (bound: nested commands)
    MaxBlocks   \* bound: argument lists on the heap

Redirections == [type : {"file", "dup", "close", "fail"}, fd : UserFds, from : UserFds \cup {0}]
ASSUME WorldsAssumption == \A w \in Worlds :
    /\ w.redirs \subseteq Seq(Redirections)
    /\ \A redirs \in w.redirs, r \in Redirections :
          r \in Range(redirs) /\ r.type = "dup" => r.from \in UserFds
    /\ w.paths \subseteq Seq(STRING) \ {<<>>} /\ w.args \subseteq Seq(Seq(STRING))
    /\ w.builtin \in [Names -> {"none", "plain", "regular", "special"}]
    /\ w.cwds # {} /\ w.cwds \subseteq STRING
    /\ w.depth \in Nat \ {0} /\ w.interactive \in BOOLEAN
ASSUME FilesAssumption == \A w \in Worlds :
    \A name \in Names, dir \in w.cwds \cup ((UNION {Range(path) : path \in w.paths}) \ {"", "%builtin"}) :
        w.files[dir, name] \in {"exe", "plain", "no"}
ASSUME BoundsAssumption == FuncIds \subseteq Nat /\ MaxBlocks \in Nat
ASSUME DescriptorsAssumption ==
    /\ UserFds \cup LowFds \cup SaveFds \subseteq Nat /\ LowFds \ UserFds # {}
    /\ SaveFds \cap (UserFds \cup LowFds) = {}
    /\ "same" \notin {Closed, File, Terminal}
\* There are copies enough for all commands that nest (EMFILE is not modelled).
ASSUME CopiesAssumption ==
    /\ IsFiniteSet(UserFds) /\ IsFiniteSet(SaveFds)
    /\ \A w \in Worlds : w.depth * Cardinality(UserFds) =< Cardinality(SaveFds)

VARIABLES
    rd,       \* descriptors (Redir)
    ct,       \* commands, functions and PATH (Lookup)
    stack,    \* the commands that run, outermost first
    flow,     \* evalskip, skipcount and loopnest
    inputs,   \* the stack of parsefiles, innermost first
    params,   \* shellparam: [malloc, block, words, at], and read: the options
              \* that getopts has read since it began (history)
    blocks,   \* argument lists on the heap
    world,    \* one of Worlds
    mode,     \* "runs", or "exited"
    goal,     \* history: how deep break, continue or return has to lead
    caught    \* history: an error was caught by "command eval" or "command ."

vars == <<rd, ct, stack, flow, inputs, params, blocks, world, mode, goal, caught>>

R == INSTANCE Redir
L == INSTANCE Lookup
G == INSTANCE Getopts

AllFds == UserFds \cup LowFds \cup SaveFds
Same == "same"
NoGoal == -1
Params(block, words) ==
    [malloc |-> block # 0, block |-> block, words |-> words, at |-> G!First, read |-> <<>>]

\* A command that runs; sees is what it makes of the descriptors (history).
Frame(kind, redirs) ==
    [kind |-> kind, special |-> FALSE, redirs |-> redirs # <<>>,
     sees |-> [n \in UserFds |-> Same], stop |-> Len(rd.list),
     lstop |-> Len(ct.locals), input |-> 0, func |-> 0, params |-> params]

Top == Last(stack)
Allowed(command) == mode = "runs" /\ flow.evalskip = "no" /\ command \in world.program
Nests == Len(stack) < world.depth
NoPath == <<>>

Init ==
    /\ world \in Worlds
    /\ rd = [open |-> [n \in AllFds |-> IF n \in UserFds THEN Terminal ELSE Closed],
             list |-> <<>>]
    /\ \E path \in world.paths :
         ct = [path |-> path, builtinloc |-> L!BuiltinAt(path), cwd |-> CHOOSE dir \in world.cwds : TRUE,
               table |-> [n \in Names |-> L!None],
               count |-> [f \in FuncIds |-> -1], locals |-> <<>>]
    /\ \E words \in world.args : params = Params(0, words)
    /\ blocks = {}
    /\ stack = <<[Frame("top", <<>>) EXCEPT !.sees = [n \in UserFds |-> Terminal]]>>
    /\ flow = [evalskip |-> "no", skipcount |-> 0, loopnest |-> 0]
    /\ inputs = <<0>>
    /\ mode = "runs"
    /\ goal = NoGoal
    /\ caught = FALSE

-----------------------------------------------------------------------------
(***************************************************************************)
(* What descriptors are to a command, told from what the commands around   *)
(* it asked for (history, not code).                                       *)
(***************************************************************************)
View(n) == LET i == SelectLastInSeq(stack, LAMBDA f : f.sees[n] # Same) IN stack[i].sees[n]
Asked(sees, r) ==
    [sees EXCEPT ![r.fd] = CASE r.type = "file"  -> File
                             [] r.type = "close" -> Closed
                             [] r.type = "dup"   -> IF sees[r.from] # Same THEN sees[r.from]
                                                    ELSE View(r.from)
                             [] OTHER -> @]
Sees(redirs) ==
    LET asked[k \in 0..Len(redirs)] == IF k = 0 THEN [n \in UserFds |-> Same]
                                       ELSE Asked(asked[k - 1], redirs[k])
    IN  asked[Len(redirs)]

\* exec changes what the innermost command that redirected n, if any, sees.
Executed(redirs) ==
    LET asked == Sees(redirs)
        owner(n) == SelectLastInSeq(stack, LAMBDA f : f.sees[n] # Same)
    IN  [i \in 1..Len(stack) |-> [stack[i] EXCEPT !.sees = [n \in UserFds |->
            IF asked[n] # Same /\ owner(n) = i THEN asked[n] ELSE @[n]]]]

-----------------------------------------------------------------------------
(***************************************************************************)
(* Errors.  raise is longjmp(handler->loc): what runs above the handler    *)
(* ends without its epilogue, except that evalfun has one and raises on;   *)
(* evalcommand raises again what it caught from a special builtin.         *)
(***************************************************************************)
freeparam(p, live) == IF p.malloc THEN live \ {p.block} ELSE live

\* Mutants of funcdone: the function, or its parameters, are not freed.
funcdoneKept(f, held) == IF f.kind # "function" THEN held
    ELSE [params |-> f.params, blocks |-> freeparam(held.params, held.blocks), ct |-> held.ct]
funcdoneLeaks(f, held) == IF f.kind # "function" THEN held
    ELSE [params |-> f.params, blocks |-> held.blocks, ct |-> L!freefunc(held.ct, f.func)]
\* evalfun, from funcdone on.
funcdone(f, held) == IF f.kind # "function" THEN held
    ELSE [params |-> f.params, blocks |-> freeparam(held.params, held.blocks),
          ct |-> L!freefunc(held.ct, f.func)]

\* What takes the error: a builtin run by "command", or main.
Handler == SelectLastInSeq(stack, LAMBDA f :
               f.kind = "top" \/ (f.kind \in {"eval", "dot"} /\ ~f.special))

\* What is held once funcdone has run for all functions above the handler.
Unwound(held) ==
    LET above == Len(stack) - Handler
        left[k \in 0..above] == IF k = 0 THEN held ELSE funcdone(stack[Len(stack) - k + 1], left[k - 1])
    IN  left[above]

raise(io, cmds) ==
    LET h == stack[Handler]
        held == Unwound([params |-> params, blocks |-> blocks, ct |-> cmds])
        popped == IF h.redirs THEN R!popredir(io, 0) ELSE io
    IN  /\ params' = held.params
        /\ blocks' = held.blocks
        /\ rd' = R!unwindredir(popped, h.stop)
        /\ ct' = L!unwindlocalvars(held.ct, h.lstop)
        /\ goal' = NoGoal
        /\ IF h.kind = "top"
           THEN /\ flow' = [evalskip |-> "no", skipcount |-> 0, loopnest |-> 0]
                /\ inputs' = <<Last(inputs)>>
                /\ stack' = <<h>>
                /\ mode' = IF world.interactive THEN "runs" ELSE "exited"
                /\ UNCHANGED caught
           ELSE /\ stack' = SubSeq(stack, 1, Handler - 1)
                /\ caught' = TRUE
                /\ UNCHANGED <<flow, inputs, mode>>

Error == Allowed("error") /\ raise(rd, ct) /\ UNCHANGED world

-----------------------------------------------------------------------------
(***************************************************************************)
(* evalcommand: local variables and redirections are set up, the command   *)
(* is looked up and runs, and both are undone.                             *)
(***************************************************************************)
redirectsafe(redirs) == IF redirs = <<>> THEN [rd |-> rd, err |-> FALSE]
                        ELSE R!redirect(R!pushredir(rd), redirs)
Assigned(path) == IF path = NoPath THEN L!pushlocalvars(ct)
                  ELSE L!mklocal(L!pushlocalvars(ct), path)
Undone(io, redirs) == IF redirs = <<>> THEN io ELSE R!popredir(io, 0)
Find(name, path, nofunc) ==
    LET cmds == Assigned(path)
    IN  L!find_command(cmds, world.files, world.builtin, name,
                       IF path = NoPath THEN cmds.path ELSE path, path # NoPath, nofunc)
Settled == goal' = NoGoal /\ UNCHANGED <<world, caught>>

\* A program, a regular builtin, or nothing that is found.
Simple(name, redirs, path, nofunc) ==
    LET found == Find(name, path, nofunc) IN
    /\ Allowed("simple")
    /\ found.entry.type # "function"
    /\ world.builtin[name] # "special" \/ found.entry.type # "builtin"
    /\ rd' = Undone(redirectsafe(redirs).rd, redirs)
    /\ ct' = L!unwindlocalvars(found.ct, Len(ct.locals))
    /\ Settled /\ UNCHANGED <<stack, flow, inputs, params, blocks, mode>>

\* A special builtin, or assignments alone.  exec keeps its redirections.
Special(redirs, path, execcmd) ==
    LET r == redirectsafe(redirs) IN
    /\ Allowed(IF execcmd THEN "exec" ELSE "special")
    /\ IF r.err THEN raise(r.rd, Assigned(path))
       ELSE /\ rd' = IF redirs = <<>> THEN rd ELSE R!popredir(r.rd, IF execcmd THEN 1 ELSE 0)
            /\ ct' = L!poplocalvars(Assigned(path), 1)
            /\ stack' = IF execcmd THEN Executed(redirs) ELSE stack
            /\ goal' = NoGoal
            /\ UNCHANGED <<flow, inputs, params, blocks, mode, caught>>
    /\ UNCHANGED world

\* A function: evalfun up to its body.
Call(name, redirs, path, words) ==
    LET found == Find(name, path, FALSE)
        f == found.entry.index
        r == redirectsafe(redirs)
    IN  /\ Allowed("call") /\ Nests
        /\ found.entry.type = "function"
        /\ IF r.err
           THEN /\ rd' = Undone(r.rd, redirs)
                /\ ct' = L!unwindlocalvars(found.ct, Len(ct.locals))
                /\ UNCHANGED <<stack, params>>
           ELSE /\ rd' = r.rd
                /\ ct' = [L!pushlocalvars(L!poplocalvars(found.ct, 1)) EXCEPT !.count[f] = @ + 1]
                /\ params' = Params(0, words)
                /\ stack' = Append(stack, [Frame("function", redirs)
                                EXCEPT !.sees = Sees(redirs), !.func = f])
        /\ Settled /\ UNCHANGED <<flow, inputs, blocks, mode>>

\* eval and ".", alone or as the arguments of "command".
Read(kind, special, redirs) ==
    LET r == redirectsafe(redirs)
        cmds == L!pushlocalvars(ct)
        new == Min((0..Len(inputs)) \ Range(inputs))
    IN  /\ Allowed(kind) /\ Nests
        /\ special \/ (Allowed("command") /\ ~caught) \* bound: one error is caught
        /\ IF ~r.err
           THEN /\ rd' = r.rd
                /\ ct' = IF special THEN L!poplocalvars(cmds, 1) ELSE cmds
                /\ inputs' = <<new>> \o inputs
                /\ stack' = Append(stack, [Frame(kind, redirs)
                       EXCEPT !.special = special, !.sees = Sees(redirs), !.input = new])
                /\ goal' = NoGoal
                /\ UNCHANGED <<flow, params, blocks, mode, caught>>
           ELSE IF special THEN raise(r.rd, cmds)
           ELSE /\ rd' = Undone(r.rd, redirs)
                /\ goal' = NoGoal
                /\ UNCHANGED <<ct, stack, flow, inputs, params, blocks, mode, caught>>
        /\ UNCHANGED world

\* { ...; } with redirections.
Group(redirs) ==
    LET r == redirectsafe(redirs) IN
    /\ Allowed("group") /\ Nests /\ redirs # <<>>
    /\ IF r.err THEN rd' = Undone(r.rd, redirs) /\ UNCHANGED stack
       ELSE /\ rd' = r.rd
            /\ stack' = Append(stack, [Frame("group", redirs) EXCEPT !.sees = Sees(redirs)])
    /\ Settled /\ UNCHANGED <<ct, flow, inputs, params, blocks, mode>>

\* while, until and for.
Loop ==
    /\ Allowed("loop") /\ Nests
    /\ stack' = Append(stack, Frame("loop", <<>>))
    /\ flow' = [flow EXCEPT !.loopnest = @ + 1]
    /\ Settled /\ UNCHANGED <<rd, ct, inputs, params, blocks, mode>>

-----------------------------------------------------------------------------
(***************************************************************************)
(* break, continue and return set evalskip; what runs ends by it, and      *)
(* Ends is what it does as it ends (also without evalskip).                *)
(***************************************************************************)
Loops == {i \in 1..Len(stack) : stack[i].kind = "loop"}
Scripts == {i \in 1..Len(stack) : stack[i].kind \in {"function", "dot", "top"}}
\* The n-th loop from the inside, or the outermost.
NthLoop(n) == Max({i \in Loops : n =< Cardinality({j \in Loops : j >= i})} \cup {Min(Loops)})

breakcmd(n, how) ==
    LET levels == Min({n, flow.loopnest}) IN
    /\ Allowed("break")
    /\ flow' = IF levels = 0 THEN flow ELSE [flow EXCEPT !.evalskip = how, !.skipcount = levels]
    /\ goal' = IF Loops = {} THEN Len(stack)
               ELSE IF how = "cont" THEN NthLoop(n) ELSE NthLoop(n) - 1
    /\ UNCHANGED <<rd, ct, stack, inputs, params, blocks, world, mode, caught>>
returncmd ==
    /\ Allowed("return")
    /\ flow' = [flow EXCEPT !.evalskip = "func"]
    /\ goal' = Max(Scripts) - 1
    /\ UNCHANGED <<rd, ct, stack, inputs, params, blocks, world, mode, caught>>

\* Mutant of popfile: the input that has ended stays.
popfileNot == UNCHANGED inputs
popfile == inputs' = Tail(inputs)
\* evalcommand from out on.
Out(f, io, cmds) ==
    /\ rd' = R!unwindredir(IF f.redirs THEN R!popredir(io, 0) ELSE io, f.stop)
    /\ ct' = L!unwindlocalvars(cmds, f.lstop)
\* Mutant of SkipsFunc: return also ends what called the function.
SkipsFuncOn(skip) == skip
SkipsFunc(skip) == IF skip = "func" THEN "no" ELSE skip

\* The innermost command ends, with that evalskip and skipcount.
Ends(skip, count) ==
    /\ stack' = Front(stack)
    /\ CASE Top.kind = "loop" ->
              /\ flow' = [evalskip |-> skip, skipcount |-> count, loopnest |-> flow.loopnest - 1]
              /\ UNCHANGED <<rd, ct, inputs, params, blocks, mode>>
         [] Top.kind = "group" ->
              /\ rd' = R!popredir(rd, 0)
              /\ UNCHANGED <<ct, flow, inputs, params, blocks, mode>>
         [] Top.kind = "function" ->
              LET held == funcdone(Top, [params |-> params, blocks |-> blocks,
                                         ct |-> L!poplocalvars(ct, 0)])
              IN  /\ Out(Top, rd, held.ct)
                  /\ params' = held.params /\ blocks' = held.blocks
                  /\ flow' = [flow EXCEPT !.evalskip = SkipsFunc(skip)]
                  /\ UNCHANGED <<inputs, mode>>
         [] Top.kind = "eval" ->
              /\ popfile /\ Out(Top, rd, ct)
              /\ UNCHANGED <<flow, params, blocks, mode>>
         [] Top.kind = "dot" ->
              /\ popfile /\ Out(Top, rd, ct)
              /\ flow' = [flow EXCEPT !.evalskip = SkipsFunc(skip)]
              /\ UNCHANGED <<params, blocks, mode>>
         [] Top.kind = "top" ->
              /\ mode' = "exited"
              /\ flow' = [flow EXCEPT !.evalskip = SkipsFunc(skip)]
              /\ UNCHANGED <<rd, ct, inputs, params, blocks>>
    /\ UNCHANGED <<world, caught>>

\* Nothing is left to run, or to read.
End ==
    /\ mode = "runs" /\ flow.evalskip = "no"
    /\ Top.kind \in {"eval", "dot"} => Len(inputs) > 1
    /\ Ends("no", flow.skipcount)
    /\ goal' = NoGoal

\* A loop counts down, all else ends.
Skip ==
    LET loop == Top.kind = "loop" /\ flow.evalskip # "func"
        count == IF loop THEN flow.skipcount - 1 ELSE flow.skipcount
        done == loop /\ count =< 0
    IN  /\ mode = "runs" /\ flow.evalskip # "no"
        /\ IF done /\ flow.evalskip = "cont"
           THEN /\ flow' = [flow EXCEPT !.evalskip = "no", !.skipcount = count]
                /\ UNCHANGED <<rd, ct, stack, inputs, params, blocks, world, mode, caught>>
           ELSE Ends(IF done THEN "no" ELSE flow.evalskip, count)
        /\ UNCHANGED goal

-----------------------------------------------------------------------------
(***************************************************************************)
(* Builtins that change what is found, or the parameters.                  *)
(***************************************************************************)
Keeps == goal' = NoGoal /\ UNCHANGED <<rd, stack, flow, inputs, world, mode, caught>>

\* Mutant of setparam: getopts goes on in the new parameters.
setparamStale(block, words) == [Params(block, words) EXCEPT !.at = params.at]
setparam(block, words) == Params(block, words)
set(words) ==
    LET new == Min((1..MaxBlocks) \ blocks) IN
    /\ Allowed("set") /\ Cardinality(blocks) < MaxBlocks
    /\ blocks' = freeparam(params, blocks) \cup {new}
    /\ params' = setparam(new, words)
    /\ Keeps /\ UNCHANGED ct

shift ==
    /\ Allowed("shift") /\ params.words # <<>>
    /\ params' = [params EXCEPT !.words = Tail(@), !.at = G!First, !.read = <<>>]
    /\ Keeps /\ UNCHANGED <<ct, blocks>>
\* OPTIND=1
getoptsreset ==
    /\ Allowed("getopts") /\ params.read # <<>>
    /\ params' = [params EXCEPT !.at = G!First, !.read = <<>>]
    /\ Keeps /\ UNCHANGED <<ct, blocks>>
\* Once, until getopts says that there are no more.
AtEnd == params.read # <<>> /\ Last(params.read).opt = "end"
getopts ==
    LET got == G!getopts(params.words, params.at)
        arg == IF got.opt = "end" THEN got.at.ind ELSE got.arg
    IN  /\ Allowed("getopts") /\ ~AtEnd
        /\ params' = [params EXCEPT !.at = got.at, !.read = Append(@, [opt |-> got.opt, arg |-> arg])]
        /\ Keeps /\ UNCHANGED <<ct, blocks>>

\* local PATH=..., where there are local variables.
local(path) ==
    /\ Allowed("local") /\ ct.locals # <<>>
    /\ Len(Head(ct.locals)) < 2 \* bound: local values per function
    /\ ct' = L!mklocal(ct, path)
    /\ Keeps /\ UNCHANGED <<params, blocks>>

Table(change) == ct' = change /\ Keeps /\ UNCHANGED <<params, blocks>>
Defun(name) == Allowed("defun") /\ L!Unused(ct) # {} /\ Table(L!defun(ct, name))
Unset(name) == Allowed("unset") /\ Table(L!unsetfunc(ct, name))
Hash(name) == Allowed("hash") /\ Table(L!hashcmd(ct, world.files, world.builtin, name))
HashR == Allowed("hash") /\ Table(L!clearcmdentry(ct, 0))
Cd(dir) == Allowed("cd") /\ Table([L!hashcd(ct, world.builtin) EXCEPT !.cwd = dir])

Next ==
    \/ \E name \in Names, redirs \in world.redirs, path \in world.paths \cup {NoPath} :
          \/ \E nofunc \in BOOLEAN : Simple(name, redirs, path, nofunc)
          \/ \E words \in world.args : Call(name, redirs, path, words)
    \/ \E redirs \in world.redirs, path \in world.paths \cup {NoPath}, execcmd \in BOOLEAN :
          Special(redirs, path, execcmd)
    \/ \E kind \in {"eval", "dot"}, special \in BOOLEAN, redirs \in world.redirs :
          Read(kind, special, redirs)
    \/ \E redirs \in world.redirs : Group(redirs)
    \/ Loop \/ Error \/ returncmd \/ End \/ Skip \/ HashR
    \/ shift \/ getoptsreset \/ getopts \/ \E words \in world.args : set(words)
    \/ \E n \in 1..2, how \in {"break", "cont"} : breakcmd(n, how)
    \/ \E path \in world.paths : local(path)
    \/ \E name \in Names : Defun(name) \/ Unset(name) \/ Hash(name)
    \/ \E dir \in world.cwds : Cd(dir)

Spec == Init /\ [][Next]_vars

-----------------------------------------------------------------------------
(***************************************************************************)
(* Properties.                                                             *)
(***************************************************************************)

\* Where the marks in the tables of redirections are enough: popredir goes wrong
\* where a descriptor that was closed before, and is closed, is opened in the
\* same command, or by an exec in it, and where an exec runs in a command with
\* n>&n, which leaves no mark.
Shuts(w) == {n \in UserFds : \E redirs \in w.redirs : \E i \in 1..Len(redirs) :
                redirs[i].type = "close" /\ redirs[i].fd = n}
StayClosed(redirs) == \A i, j \in 1..Len(redirs) :
    i < j /\ redirs[i].type = "close" /\ redirs[j].fd = redirs[i].fd => redirs[j].type \in {"close", "fail"}
Lasting(w) ==
    IF "exec" \in w.program
    THEN \A redirs \in w.redirs : \A i \in 1..Len(redirs) :
            /\ redirs[i].fd \in Shuts(w) => redirs[i].type \in {"close", "fail"}
            /\ redirs[i].type = "dup" => redirs[i].from # redirs[i].fd
    ELSE \A redirs \in w.redirs : StayClosed(redirs)

\* Every descriptor is to a command what the commands around it made it:
\* popredir, also after errors (unwindredir), undoes exactly one command's
\* redirections, and exec changes what it should.
DescriptorsRight == mode = "runs" => \A n \in UserFds : rd.open[n] = View(n)

\* The copies the shell keeps are those that redirections still need, and
\* nothing else stays open.
NoCopyLeft ==
    LET needed == (UNION {Range(rd.list[i]) : i \in 1..Len(rd.list)}) \cap SaveFds
    IN  {n \in AllFds \ UserFds : rd.open[n] # Closed} = needed

\* What a command does is what a search without a table would find, after
\* cd, assignments to PATH, also local ones and for one command, and hash.
FirstIn(name, path, nofunc) ==
    LET at(what) == {i \in 1..Len(path) : path[i] # "%builtin" /\
                       world.files[L!Dir(ct, path[i]), name] \in what}
        builtin == /\ world.builtin[name] # "none"
                   /\ \/ world.builtin[name] # "plain"
                      \/ \A i \in at({"exe", "plain"}) : L!BuiltinAt(path) + 1 < i
    IN  IF ct.table[name].type = "function" /\ ~nofunc THEN <<"function", name>>
        ELSE IF builtin THEN <<"builtin", name>>
        ELSE IF at({"exe"}) # {} THEN <<"run", L!Dir(ct, path[Min(at({"exe"}))])>>
        ELSE <<"status", IF at({"plain"}) # {} THEN 126 ELSE 127>>
LookupRight == \A name \in Names, nofunc \in BOOLEAN :
    LET does(cmds, path, alt) ==
            L!Does(cmds, world.files, world.builtin, name, path, alt, nofunc)
    IN  /\ does(ct, ct.path, FALSE) = FirstIn(name, ct.path, nofunc)
        /\ \A path \in world.paths : does(Assigned(path), path, TRUE) = FirstIn(name, path, nofunc)

\* A function is not freed while it runs, although it may be redefined or
\* unset, and is freed when nothing refers to it.
FunctionsOwned == \A f \in FuncIds :
    ct.count[f] + 1 = Cardinality({n \in Names : ct.table[n] = L!Entry("function", f)})
                    + Cardinality({i \in 1..Len(stack) : stack[i].kind = "function" /\ stack[i].func = f})

\* The arguments on the heap are those of the shell or of a function that
\* waits for another to end, each owned once.
Owners == <<params>> \o [i \in 1..Len(stack) |-> 
             IF stack[i].kind = "function" THEN stack[i].params ELSE Params(0, <<>>)]
ParamsOwned == \A b \in 1..MaxBlocks :
    Cardinality({i \in DOMAIN Owners : Owners[i].malloc /\ Owners[i].block = b})
        = IF b \in blocks THEN 1 ELSE 0

\* getopts reads the options of the shell and of every function that waits
\* once each and in order, whatever functions, set, shift and errors come in
\* between, and says where the operands begin.
OptionsRight == \A i \in DOMAIN Owners : IsPrefix(Owners[i].read, G!Said(Owners[i].words))

\* break, continue and return lead to the command they should, and no
\* further.  Once `command' has caught an error raised inside of a loop,
\* loopnest is too high (see the README).
SkipsRight == goal # NoGoal /\ ~caught =>
    /\ flow.evalskip = "no" => Len(stack) = goal
    /\ Len(stack) >= goal

\* What is read next is the rest of what the innermost reader reads, until
\* `command' catches an error (see the README).
Readers == {i \in 1..Len(stack) : stack[i].kind \in {"top", "eval", "dot"}}
InputsRight == mode = "runs" /\ ~caught =>
    /\ Len(inputs) = Cardinality(Readers)
    /\ \A i \in Readers : inputs[Cardinality({j \in Readers : j >= i})] = stack[i].input

=============================================================================
