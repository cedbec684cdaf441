----------------------------- MODULE Configure ------------------------------
(***************************************************************************)
(* One run of configure (mk/command/configure.sh, with the hooks of        *)
(* mk/module/core.sh): the modules are put in order (Modules) and          *)
(* configured, then _mk_process_build_recursive walks the directories and  *)
(* runs configure() and make() in each, then the make() of the modules.    *)
(*                                                                         *)
(* A directory of the source tree is known by its name, Root being the     *)
(* top.  What a MakeKitBuild does is chosen freely from DirCommands and    *)
(* MakeSets; a value is the name of the directory or module that set it.   *)
(***************************************************************************)
EXTENDS Modules, Lists

CONSTANTS
    Dirs, Root, Dot,    \* directories, and "." in SUBDIRS
    Projects,           \* pairs: the graph of the modules, SUBDIRS of each MakeKitBuild
    Vars,               \* variables of the project
    Unset, Empty,
    ModuleCommands,     \* what configure() of a module may do to a variable
    DirCommands,        \* what configure() of a directory may do to one
    MakeSets,           \* may make() set a variable?
    Skips               \* what configure() may take out by mk_skip_subdir

Command == [flags : SUBSET {"i", "e"}, set : BOOLEAN]

\* The MakeKitBuild files name a directory in one place only, "." at most once
\* in each.
IsTree(t) ==
    /\ \A d \in Dirs : \A i, j \in DOMAIN t[d] : t[d][i] = t[d][j] => i = j
    /\ \A d, e \in Dirs : d # e => ToSet(t[d]) \cap ToSet(t[e]) \subseteq {Dot}

ASSUME ConfigureAssumption ==
    /\ Root \in Dirs /\ Dot \notin Dirs /\ IsFiniteSet(Dirs)
    /\ Projects \subseteq Graphs \X [Dirs -> Seq((Dirs \ {Root}) \cup {Dot})]
    /\ \A p \in Projects : IsTree(p[2])
    /\ ModuleCommands \subseteq Command /\ DirCommands \subseteq Command
    /\ MakeSets \subseteq BOOLEAN /\ Skips \subseteq SUBSET Dirs

VARIABLES
    tree,       \* SUBDIRS as the files of this project set it
    pc,         \* "load", "modules", "enter" (a directory), "loop", "footer", "end"
    left,       \* modules still to configure, or to make
    calls,      \* the open calls of _mk_process_build_recursive, innermost last
    sh,         \* the variables of the shell, see Shell
    shadow,     \* depth -> _INHERIT_{depth}_{variable}
    exports,    \* directory -> its .MakeKitExports
    targets,    \* directory -> its .MakeKitTargets and its rule in the Makefile
    made        \* history: what each make() of a directory saw, in order

dirVars == <<calls, sh, shadow, exports, targets, made>>
vars == <<moduleVars, tree, pc, left, dirVars>>

\* var: the project's variables; inh: _MK_INHERITED_VARS; exp: MK_EXPORTS;
\* subdirs: SUBDIRS; mksubdirs: MK_SUBDIRS; subdir: MK_SUBDIR; subdirtargets:
\* MK_SUBDIR_TARGETS; stage: MK_STAGE_TARGETS.
Shell == [var |-> [v \in Vars |-> Unset], inh |-> {}, exp |-> {}, subdirs |-> <<>>,
          mksubdirs |-> <<>>, subdir |-> Dot, subdirtargets |-> {}, stage |-> {}]
NoShadow == [var |-> [v \in Vars |-> Unset], inh |-> {}, exp |-> {}, mksubdirs |-> <<>>]
Missing  == [v \in {} |-> Empty]

Depth == Len(calls) - 1
Call(d) == [dir |-> d, todo |-> <<>>, preorder |-> FALSE, subdirs |-> sh.subdirs, before |-> sh]
Here == calls[Len(calls)]

Expand(x) == IF x = Unset THEN Empty ELSE x

Init ==
    /\ ModulesInit
    /\ \E p \in Projects : depends = p[1] /\ tree = p[2]
    /\ pc = "load" /\ left = <<>> /\ calls = <<>>
    /\ sh = Shell
    /\ shadow = [d \in 0 .. Cardinality(Dirs) |-> NoShadow]
    /\ exports = [d \in Dirs \cup {Dot} |-> Missing]
    /\ targets = [d \in {} |-> Shell]
    /\ made = <<>>

(***************************************************************************)
(* Variables                                                               *)
(***************************************************************************)

\* V=w, or mk_declare with the flags -i, -e and V or V=w.
Declare(s, c, v, w) ==
    [s EXCEPT !.var[v] = IF c.set THEN w ELSE @,
              !.inh = IF "i" \in c.flags THEN @ \cup {v} ELSE @,
              !.exp = IF "e" \in c.flags THEN @ \cup {v} ELSE @]

\* _mk_write_exports: "" for a variable that is not set.
Exported(s) == [v \in s.exp |-> Expand(s.var[v])]

\* Mutant of Inherited: the list of inherited variables is not among them.
InheritedNoList(s, old) ==
    [var |-> [v \in Vars |-> IF v \in s.inh THEN Expand(s.var[v]) ELSE old.var[v]],
     inh |-> {}, exp |-> s.exp, mksubdirs |-> s.mksubdirs]
\* The shadows of one depth after _mk_push_inherited; old is what was there.
Inherited(s, old) ==
    [var |-> [v \in Vars |-> IF v \in s.inh THEN Expand(s.var[v]) ELSE old.var[v]],
     inh |-> s.inh, exp |-> s.exp, mksubdirs |-> s.mksubdirs]
\* Mutant of Disinherited: only what is unset gets its value back.
DisinheritedUnset(s, old) ==
    [s EXCEPT !.var = [v \in Vars |-> IF v \in s.inh /\ s.var[v] = Unset
                                      THEN Expand(old.var[v]) ELSE s.var[v]],
              !.inh = old.inh, !.exp = old.exp, !.mksubdirs = old.mksubdirs]
\* _mk_pop_inherited: what is inherited here, now, is taken from the shadows.
Disinherited(s, old) ==
    [s EXCEPT !.var = [v \in Vars |-> IF v \in s.inh THEN Expand(old.var[v]) ELSE s.var[v]],
              !.inh = old.inh, !.exp = old.exp, !.mksubdirs = old.mksubdirs]

(***************************************************************************)
(* Modules                                                                 *)
(***************************************************************************)

LoadModules ==
    /\ pc = "load"
    /\ IF AllLoaded
       THEN pc' = "modules" /\ left' = list /\ UNCHANGED moduleVars
       ELSE ModulesNext /\ UNCHANGED <<pc, left>>
    /\ UNCHANGED <<tree, dirVars>>

\* _mk_process_build_module.
ConfigureModule(c, v) ==
    /\ pc = "modules" /\ left # <<>>
    /\ sh' = Declare(sh, c, v, Head(left))
    /\ left' = Tail(left)
    /\ UNCHANGED <<moduleVars, tree, pc, calls, shadow, exports, targets, made>>
\* The exports of the build root, then the top directory.
StartTree ==
    /\ pc = "modules" /\ left = <<>>
    /\ exports' = [exports EXCEPT ![Dot] = Exported(sh)]
    /\ calls' = <<Call(Root)>>
    /\ pc' = "enter"
    /\ UNCHANGED <<moduleVars, tree, left, sh, shadow, targets, made>>

(***************************************************************************)
(* Directories                                                             *)
(***************************************************************************)

\* _mk_process_build_configure, with mk_skip_subdir for the directories skip;
\* MK_SUBDIRS and .MakeKitExports.
ConfigureDir(c, v, skip) ==
    /\ pc = "enter"
    /\ LET own == Without(tree[Here.dir], skip)
           s   == Declare([sh EXCEPT !.subdirs = own, !.subdir = Here.dir], c, v, Here.dir)
       IN  /\ sh' = [s EXCEPT !.mksubdirs = own]
           /\ exports' = [exports EXCEPT ![Here.dir] = Exported(s)]
           /\ calls' = [calls EXCEPT ![Len(calls)].todo = own]
    /\ pc' = "loop"
    /\ UNCHANGED <<moduleVars, tree, left, shadow, targets, made>>

\* The variables make() of d starts with; the file is sourced again, but SUBDIRS
\* is put back (_backup_SUBDIRS).
MakeContext(s, d) == [s EXCEPT !.subdir = d]
\* make() sets v, or not, and stages one file.
RunMake(s, set, v) ==
    [s EXCEPT !.var[v] = IF set THEN s.subdir ELSE @, !.stage = @ \cup {s.subdir},
              !.subdirtargets = @ \cup {s.subdir}]
\* _mk_core_write_subdir_rule and _mk_core_write_targets_file unset these.
Posthooks(s) == [s EXCEPT !.subdirtargets = {}, !.stage = {}]

\* _mk_process_build_make, with the rules and files its posthooks write.
MakeDir(set, v) ==
    LET before == MakeContext(sh, Here.dir)
        after  == RunMake(before, set, v)
    IN  /\ made' = Append(made, [dir |-> Here.dir, var |-> before.var, inh |-> before.inh,
                                 subdirs |-> before.subdirs, mksubdirs |-> before.mksubdirs])
        /\ targets' = [d \in DOMAIN targets \cup {after.subdir} |->
              IF d = after.subdir
              THEN [subdirs |-> after.subdirs, stage |-> after.stage,
                    rule |-> after.subdirtargets \cup (ToSet(after.subdirs) \ {Dot})]
              ELSE targets[d]]
        /\ sh' = Posthooks(after)

\* Mutant of DotDone: _preorder_make is not set.
DotDoneForgets(call) == [call EXCEPT !.todo = Tail(@)]
DotDone(call) == [call EXCEPT !.todo = Tail(@), !.preorder = TRUE]
\* "." in SUBDIRS: make() before the directories that follow.
Preorder(set, v) ==
    /\ pc = "loop" /\ Here.todo # <<>> /\ Head(Here.todo) = Dot
    /\ MakeDir(set, v)
    /\ calls' = [calls EXCEPT ![Len(calls)] = DotDone(@)]
    /\ UNCHANGED <<moduleVars, tree, pc, left, shadow, exports>>

\* Mutant of Entered: _preorder_make is not among the pushed variables.
EnteredPreorder(d) == [Call(d) EXCEPT !.preorder = Here.preorder]
Entered(d) == Call(d)
\* _mk_push_inherited and the call for the next directory; mk_push_vars.
Descend ==
    /\ pc = "loop" /\ Here.todo # <<>> /\ Head(Here.todo) # Dot
    /\ shadow' = [shadow EXCEPT ![Depth] = Inherited(sh, @)]
    /\ calls' = Append([calls EXCEPT ![Len(calls)].todo = Tail(@)], Entered(Head(Here.todo)))
    /\ sh' = [sh EXCEPT !.subdirs = <<>>]
    /\ pc' = "enter"
    /\ UNCHANGED <<moduleVars, tree, left, exports, targets, made>>

\* make() after the children, if not before; preorder is set to note that it ran.
Postorder(set, v) ==
    /\ pc = "loop" /\ Here.todo = <<>> /\ ~Here.preorder
    /\ MakeDir(set, v)
    /\ calls' = [calls EXCEPT ![Len(calls)].preorder = TRUE]
    /\ UNCHANGED <<moduleVars, tree, pc, left, shadow, exports>>

\* mk_pop_vars, and back in the caller _mk_pop_inherited.
Ascend ==
    /\ pc = "loop" /\ Here.todo = <<>> /\ Here.preorder /\ Len(calls) > 1
    /\ sh' = [Disinherited(sh, shadow[Depth - 1]) EXCEPT !.subdirs = Here.subdirs]
    /\ calls' = Front(calls)
    /\ UNCHANGED <<moduleVars, tree, pc, left, shadow, exports, targets, made>>
LeaveTree ==
    /\ pc = "loop" /\ Here.todo = <<>> /\ Here.preorder /\ Len(calls) = 1
    /\ sh' = [sh EXCEPT !.subdirs = Here.subdirs, !.subdir = Dot]
    /\ calls' = <<>> /\ pc' = "footer" /\ left' = Reverse(list)
    /\ UNCHANGED <<moduleVars, tree, shadow, exports, targets, made>>

\* _mk_emit_make_footer, one module; the posthooks clear MK_SUBDIR_TARGETS.
MakeModule ==
    /\ pc = "footer"
    /\ IF left = <<>> THEN pc' = "end" /\ UNCHANGED <<left, sh>>
       ELSE left' = Tail(left) /\ sh' = [sh EXCEPT !.subdirtargets = {}] /\ UNCHANGED pc
    /\ UNCHANGED <<moduleVars, tree, calls, shadow, exports, targets, made>>

Next ==
    \/ LoadModules \/ StartTree \/ Descend \/ Ascend \/ LeaveTree \/ MakeModule
    \/ \E v \in Vars : \/ \E c \in ModuleCommands : ConfigureModule(c, v)
                       \/ \E c \in DirCommands, skip \in Skips : ConfigureDir(c, v, skip)
                       \/ \E set \in MakeSets : Preorder(set, v) \/ Postorder(set, v)
Ended == pc = "end" /\ UNCHANGED vars
Spec == Init /\ [][Next \/ Ended]_vars

(***************************************************************************)
(* Properties                                                              *)
(***************************************************************************)

TypeOK ==
    /\ pc \in {"load", "modules", "enter", "loop", "footer", "end"}
    /\ left \in Seq(Modules) /\ list \in Seq(Modules)
    /\ sh.inh \subseteq Vars /\ sh.exp \subseteq Vars
    /\ Depth \in -1 .. Cardinality(Dirs)
    /\ DOMAIN targets \subseteq Dirs
    /\ \A d \in DOMAIN exports : \A v \in DOMAIN exports[d] :
          v \in Vars /\ exports[d][v] \in Modules \cup Dirs \cup {Empty}
    /\ pc = "enter" => calls # <<>>

Leaving == Len(calls) > 1 /\ Len(calls') < Len(calls)

\* What was inherited when a directory was entered is, when it is left, as its
\* parent had it, whatever the directory and those below it set or declared:
\* its value, and that it is inherited and exported (_mk_push_inherited).
InheritedRestored ==
    [][Leaving =>
          LET was == Here.before
          IN  /\ \A v \in was.inh : Expand(sh'.var[v]) = Expand(was.var[v])
              /\ sh'.inh = was.inh /\ sh'.exp = was.exp
              /\ sh'.subdirs = was.subdirs /\ sh'.mksubdirs = was.mksubdirs]_vars

\* An exported variable that is inherited has, in the actions make runs for a
\* directory (which read its .MakeKitExports), the value make() there saw.
BuildContextAgrees ==
    \A m \in ToSet(made) : \A v \in DOMAIN exports[m.dir] \cap m.inh :
        Expand(m.var[v]) = exports[m.dir][v]

\* make() of a directory runs once, after the children that stand before "." in
\* its SUBDIRS and before those after it; without ".", after all of them.
Made(d) == \E i \in DOMAIN made : made[i].dir = d
ChildrenDue(m) == IF Contains(m.subdirs, Dot)
                  THEN ToSet(SubSeq(m.subdirs, 1, SelectInSeq(m.subdirs, LAMBDA d : d = Dot) - 1))
                  ELSE ToSet(m.subdirs)
MadeInOrder ==
    \A i \in DOMAIN made :
        {made[j].dir : j \in 1 .. (i - 1)} \cap (ToSet(made[i].subdirs) \cup {made[i].dir})
            = ChildrenDue(made[i])

\* In the end all directories that SUBDIRS names, less those skipped, are made,
\* and .MakeKitTargets and the rule of each name what it staged and its own
\* subdirectories, which are those configure() left it.
TargetsFiled ==
    pc = "end" =>
        /\ Made(Root)
        /\ \A m \in ToSet(made) :
              /\ \A d \in ToSet(m.mksubdirs) \ {Dot} : Made(d)
              /\ targets[m.dir] = [subdirs |-> m.mksubdirs, stage |-> {m.dir},
                                   rule |-> {m.dir} \cup (ToSet(m.mksubdirs) \ {Dot})]

\* The guide (doc/guide/conventions.xml) says that overriding an inherited
\* variable does "not affect the value seen by sibling or parent directories".
\* A variable that a subdirectory declares inherited, and its parent did not,
\* is nevertheless changed for the parent: _mk_pop_inherited takes it from a
\* shadow that was never written, or was for another directory.
InheritedStaysBelow ==
    [][Leaving => \A v \in sh.inh : Expand(sh'.var[v]) = Expand(Here.before.var[v])]_vars

=============================================================================
