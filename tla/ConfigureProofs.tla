-------------------------- MODULE ConfigureProofs ---------------------------
(***************************************************************************)
(* Proofs about Configure, for every finite set of directories, every tree *)
(* of them, every project of modules, and whatever configure() and make()  *)
(* do: the order of the make() functions, the variables they see, what a   *)
(* directory leaves to its parent, and the targets that are filed.         *)
(*                                                                         *)
(* The induction rests on where the walk is: the open calls are a path of  *)
(* the tree (Path), and of the list each works through the first part is   *)
(* made and the rest not entered (Walk).                                   *)
(***************************************************************************)
EXTENDS Configure, ListsProofs, ModulesProofs

Sub     == (Dirs \ {Root}) \cup {Dot}
Contents == Modules \cup Dirs \cup {Unset, Empty}
Shells  == [var : [Vars -> Contents], inh : SUBSET Vars, exp : SUBSET Vars,
            subdirs : Seq(Sub), mksubdirs : Seq(Sub), subdir : Dirs \cup {Dot},
            subdirtargets : SUBSET Dirs, stage : SUBSET Dirs]
Shadows == [var : [Vars -> Contents], inh : SUBSET Vars, exp : SUBSET Vars,
            mksubdirs : Seq(Sub)]
Calls   == [dir : Dirs, todo : Seq(Sub), preorder : BOOLEAN, subdirs : Seq(Sub),
            before : Shells]
Makes   == [dir : Dirs, var : [Vars -> Contents], inh : SUBSET Vars,
            subdirs : Seq(Sub), mksubdirs : Seq(Sub)]
Files   == UNION {[S -> Modules \cup Dirs \cup {Empty}] : S \in SUBSET Vars}

Types ==
    /\ tree \in [Dirs -> Seq(Sub)] /\ IsTree(tree)
    /\ pc \in {"load", "modules", "enter", "loop", "footer", "end"}
    /\ left \in Seq(Modules)
    /\ calls \in Seq(Calls)
    /\ sh \in Shells /\ sh.stage = {} /\ sh.subdirtargets = {}
    /\ shadow \in [0 .. Cardinality(Dirs) -> Shadows]
    /\ exports \in [Dirs \cup {Dot} -> Files]
    /\ DOMAIN targets \subseteq Dirs
    /\ made \in Seq(Makes)

\* When there are calls, and when make() was run.
Stage ==
    /\ calls = <<>> <=> pc \notin {"enter", "loop"}
    /\ pc \in {"load", "modules"} => made = <<>>
    /\ pc \in {"footer", "end"} => Made(Root)

\* configure() of the i-th call has run.  Its SUBDIRS, and the variables of the
\* shell, are in the shell, or kept by the call below.
Configured(i) == i < Len(calls) \/ pc = "loop"
Own(i) == IF i < Len(calls) THEN calls[i + 1].subdirs ELSE sh.subdirs
Now(i) == IF i < Len(calls) THEN calls[i + 1].before ELSE sh
\* How many of its SUBDIRS the i-th call has been through.
Gone(i) == Len(Own(i)) - Len(calls[i].todo)

\* The open calls are a path of the tree.
Path ==
    /\ \A i \in DOMAIN calls : IF i = 1 THEN calls[i].dir = Root
                               ELSE calls[i].dir \in ToSet(tree[calls[i - 1].dir])
    /\ \A i, j \in DOMAIN calls : calls[i].dir = calls[j].dir => i = j

\* A call works through the SUBDIRS that configure() left it.
Todo ==
    \A i \in DOMAIN calls : Configured(i) =>
        /\ Once(Own(i)) /\ ToSet(Own(i)) \subseteq ToSet(tree[calls[i].dir])
        /\ Len(calls[i].todo) <= Len(Own(i))
        /\ \A k \in DOMAIN calls[i].todo : calls[i].todo[k] = Own(i)[Gone(i) + k]
        /\ i < Len(calls) => Gone(i) >= 1 /\ Own(i)[Gone(i)] = calls[i + 1].dir

\* _preorder_make tells whether make() ran, which "." is for.
Preordered ==
    \A i \in DOMAIN calls :
        /\ Made(calls[i].dir) <=> calls[i].preorder
        /\ calls[i].preorder => Configured(i)
        /\ Configured(i) =>
              /\ calls[i].preorder => Dot \notin ToSet(calls[i].todo)
              /\ ~calls[i].preorder /\ Dot \in ToSet(Own(i)) => Dot \in ToSet(calls[i].todo)

\* The directories the walk has come to, and those whose SUBDIRS are known.
Reached == {d \in Dirs : Made(d) \/ \E i \in DOMAIN calls : calls[i].dir = d}
Known   == {d \in Dirs : Made(d) \/ \E i \in DOMAIN calls : Configured(i) /\ calls[i].dir = d}

\* The walk comes to a directory through its parent, makes what it has left, and
\* what is still to do was not entered.
Walk ==
    /\ \A d \in Reached \ {Root} : \E p \in Known : d \in ToSet(tree[p])
    /\ \A i \in DOMAIN calls : Configured(i) => \A k \in DOMAIN Own(i) : Own(i)[k] # Dot =>
          /\ k > Gone(i) => Own(i)[k] \notin Reached
          /\ k < Gone(i) \/ (k = Gone(i) /\ i = Len(calls)) => Made(Own(i)[k])

\* Each directory is made once.
MadeOnce == \A i, j \in DOMAIN made : made[i].dir = made[j].dir => i = j

\* The shadows hold what the calls below will give back.
Kept(i) ==
    LET was == calls[i].before  old == shadow[i - 2]
    IN  /\ old.inh = was.inh /\ old.exp = was.exp /\ old.mksubdirs = was.mksubdirs
        /\ \A v \in was.inh : old.var[v] = Expand(was.var[v])
        /\ was.inh \subseteq Now(i).inh
        /\ was.subdirs = calls[i].subdirs
ShadowsKept == \A i \in DOMAIN calls : i # 1 => Kept(i)

\* MK_SUBDIRS is SUBDIRS, also when the children are back.
SubdirsAgree == \A i \in DOMAIN calls : Configured(i) => Now(i).mksubdirs = Own(i)

\* Until make(), what is exported and inherited is what configure() left.
ContextKept ==
    \A i \in DOMAIN calls : Configured(i) /\ ~calls[i].preorder =>
        \A v \in DOMAIN exports[calls[i].dir] \cap Now(i).inh :
            exports[calls[i].dir][v] = Expand(Now(i).var[v])

\* What make() of a directory filed, and what is still due.
Filed ==
    \A m \in ToSet(made) :
        /\ m.dir \in DOMAIN targets
        /\ targets[m.dir] = [subdirs |-> m.mksubdirs, stage |-> {m.dir},
                             rule |-> {m.dir} \cup (ToSet(m.mksubdirs) \ {Dot})]
        /\ \/ \A d \in ToSet(m.mksubdirs) \ {Dot} : Made(d)
           \/ \E i \in DOMAIN calls : calls[i].dir = m.dir /\ Own(i) = m.mksubdirs

WalkInv    == Types /\ Stage /\ Path /\ Todo /\ Preordered /\ Walk /\ MadeOnce /\ MadeInOrder
ContextInv == ShadowsKept /\ SubdirsAgree /\ ContextKept /\ BuildContextAgrees /\ Filed
ConfigureInv == ModulesInv /\ WalkInv /\ ContextInv

-----------------------------------------------------------------------------
(***************************************************************************)
(* The calls                                                               *)
(***************************************************************************)

LEMMA CallsTyped ==
    ASSUME Types, NEW i \in DOMAIN calls
    PROVE  /\ Len(calls) \in Nat /\ DOMAIN calls = 1 .. Len(calls) /\ i \in Nat
           /\ calls[i].dir \in Dirs /\ calls[i].todo \in Seq(Sub)
           /\ calls[i].preorder \in BOOLEAN /\ calls[i].subdirs \in Seq(Sub)
           /\ calls[i].before \in Shells
           /\ Own(i) \in Seq(Sub) /\ Now(i) \in Shells
           /\ Len(Own(i)) \in Nat /\ Len(calls[i].todo) \in Nat
           /\ DOMAIN Own(i) = 1 .. Len(Own(i))
           /\ DOMAIN calls[i].todo = 1 .. Len(calls[i].todo)
  <1> DEFINE n == Len(calls)
  <1>1. n \in Nat /\ DOMAIN calls = 1 .. n /\ \A k \in 1 .. n : calls[k] \in Calls
    BY LenProperties, ElementOfSeq DEF Types
  <1>2. \A c \in Calls : /\ c.dir \in Dirs /\ c.todo \in Seq(Sub)
                         /\ c.preorder \in BOOLEAN /\ c.subdirs \in Seq(Sub)
                         /\ c.before \in Shells
    BY DEF Calls
  <1>3. sh.subdirs \in Seq(Sub) /\ sh \in Shells
    BY DEF Types, Shells
  <1> HIDE DEF n
  <1>4. i < n => i + 1 \in 1 .. n
    BY <1>1
  <1>5. Own(i) \in Seq(Sub) /\ Now(i) \in Shells
    BY <1>1, <1>2, <1>3, <1>4 DEF Own, Now, n
  <1>6. calls[i].todo \in Seq(Sub)
    BY <1>1, <1>2
  <1>7. /\ Len(Own(i)) \in Nat /\ Len(calls[i].todo) \in Nat
        /\ DOMAIN Own(i) = 1 .. Len(Own(i))
        /\ DOMAIN calls[i].todo = 1 .. Len(calls[i].todo)
    BY <1>5, <1>6, LenProperties
  <1> QED
    BY <1>1, <1>2, <1>5, <1>7 DEF n

LEMMA TopCall ==
    ASSUME Types, calls # <<>>
    PROVE  /\ Len(calls) \in Nat /\ Len(calls) >= 1 /\ Len(calls) \in DOMAIN calls
           /\ DOMAIN calls = 1 .. Len(calls)
           /\ Here = calls[Len(calls)] /\ Here \in Calls
           /\ Own(Len(calls)) = sh.subdirs /\ Now(Len(calls)) = sh
           /\ Depth = Len(calls) - 1
  <1>1. calls \in Seq(Calls)
    BY DEF Types
  <1>2. Len(calls) \in Nat /\ Len(calls) >= 1 /\ DOMAIN calls = 1 .. Len(calls)
    BY <1>1, EmptySeq, LenProperties
  <1> DEFINE n == Len(calls)
  <1>3. n \in 1 .. n /\ ~(n < n)
    BY <1>2
  <1>4. calls[n] \in Calls
    BY <1>1, <1>3, ElementOfSeq
  <1> QED
    BY <1>2, <1>3, <1>4 DEF Here, Own, Now, Depth

\* What becomes of the calls when the innermost one is changed.
LEMMA TopChanged ==
    ASSUME Types, calls # <<>>, NEW c \in Calls, calls' = [calls EXCEPT ![Len(calls)] = c]
    PROVE  /\ calls' \in Seq(Calls) /\ Len(calls') = Len(calls) /\ calls' # <<>>
           /\ DOMAIN calls' = DOMAIN calls
           /\ \A i \in DOMAIN calls : calls'[i] = IF i = Len(calls) THEN c ELSE calls[i]
  <1>1. calls \in Seq(Calls) /\ Len(calls) \in 1 .. Len(calls) /\ Len(calls) >= 1
        /\ DOMAIN calls = 1 .. Len(calls)
    BY TopCall DEF Types
  <1>2. /\ calls' \in Seq(Calls) /\ Len(calls') = Len(calls)
        /\ \A i \in 1 .. Len(calls) : calls'[i] = IF i = Len(calls) THEN c ELSE calls[i]
    BY <1>1, ExceptSeq
  <1>3. DOMAIN calls' = 1 .. Len(calls') /\ calls' # <<>>
    BY <1>1, <1>2, LenProperties, EmptySeq
  <1> QED
    BY <1>1, <1>2, <1>3

\* The path has no directory twice, so it is no longer than there are directories.
LEMMA PathBounded ==
    ASSUME Types, Path
    PROVE  Len(calls) \in Nat /\ Len(calls) <= Cardinality(Dirs) /\ Cardinality(Dirs) \in Nat
  <1> DEFINE n == Len(calls)  f == [i \in 1 .. n |-> calls[i].dir]
  <1>1. n \in Nat /\ DOMAIN calls = 1 .. n
    BY LenProperties DEF Types
  <1>2. IsFiniteSet(Dirs) /\ Cardinality(Dirs) \in Nat
    BY ConfigureAssumption, FS_CardinalityType
  <1>3. \A i \in 1 .. n : calls[i].dir \in Dirs
    BY <1>1, CallsTyped
  <1>4. \A i, j \in 1 .. n : calls[i].dir = calls[j].dir => i = j
    BY <1>1 DEF Path
  <1> HIDE DEF n
  <1>5. f \in Injection(1 .. n, Dirs)
    BY <1>3, <1>4 DEF Injection, IsInjective
  <1> HIDE DEF f
  <1>6. Cardinality(1 .. n) <= Cardinality(Dirs) /\ Cardinality(1 .. n) = n
    <2>1. Cardinality(1 .. n) <= Cardinality(Dirs)
      BY <1>2, <1>5, FS_Injection
    <2>2. Cardinality(1 .. n) = n
      BY <1>1, FS_Interval
    <2> QED
      BY <2>1, <2>2
  <1> QED
    BY <1>1, <1>2, <1>6 DEF n

(***************************************************************************)
(* The variables of the shell                                              *)
(***************************************************************************)

LEMMA Expanding ==
    ASSUME NEW x
    PROVE  /\ Expand(Expand(x)) = Expand(x)
           /\ x \in Contents => Expand(x) \in Modules \cup Dirs \cup {Empty}
           /\ x \in Contents => Expand(x) \in Contents
  BY DEF Expand, Contents

LEMMA ShellFields ==
    ASSUME NEW s \in Shells
    PROVE  /\ s.var \in [Vars -> Contents] /\ s.inh \subseteq Vars /\ s.exp \subseteq Vars
           /\ s.subdirs \in Seq(Sub) /\ s.mksubdirs \in Seq(Sub)
           /\ s.subdir \in Dirs \cup {Dot}
           /\ s.subdirtargets \subseteq Dirs /\ s.stage \subseteq Dirs
  BY DEF Shells

LEMMA Declaring ==
    ASSUME NEW s \in Shells, NEW c \in Command, NEW v \in Vars, NEW w \in Contents
    PROVE  /\ Declare(s, c, v, w) \in Shells
           /\ Declare(s, c, v, w).subdirs = s.subdirs
           /\ Declare(s, c, v, w).subdir = s.subdir
           /\ Declare(s, c, v, w).stage = s.stage
           /\ Declare(s, c, v, w).subdirtargets = s.subdirtargets
           /\ s.inh \subseteq Declare(s, c, v, w).inh
  <1> DEFINE d == Declare(s, c, v, w)
             var == [s.var EXCEPT ![v] = IF c.set THEN w ELSE @]
             inh == IF "i" \in c.flags THEN s.inh \cup {v} ELSE s.inh
             exp == IF "e" \in c.flags THEN s.exp \cup {v} ELSE s.exp
  <1>1. d = [s EXCEPT !.var = var, !.inh = inh, !.exp = exp]
    BY DEF Declare
  <1>2. var \in [Vars -> Contents]
    BY ShellFields
  <1>3. inh \subseteq Vars /\ exp \subseteq Vars /\ s.inh \subseteq inh
    BY ShellFields
  <1> HIDE DEF d, var, inh, exp
  <1>4. /\ d \in Shells /\ d.subdirs = s.subdirs /\ d.subdir = s.subdir
        /\ d.stage = s.stage /\ d.subdirtargets = s.subdirtargets /\ d.inh = inh
    BY <1>1, <1>2, <1>3 DEF Shells
  <1> QED
    BY <1>3, <1>4 DEF d

LEMMA Exporting ==
    ASSUME NEW s \in Shells
    PROVE  /\ Exported(s) \in Files
           /\ DOMAIN Exported(s) = s.exp
           /\ \A v \in s.exp : Exported(s)[v] = Expand(s.var[v])
  <1>1. s.var \in [Vars -> Contents] /\ s.exp \subseteq Vars
    BY ShellFields
  <1>2. \A v \in s.exp : Expand(s.var[v]) \in Modules \cup Dirs \cup {Empty}
    BY <1>1, Expanding
  <1>3. Exported(s) \in [s.exp -> Modules \cup Dirs \cup {Empty}]
    BY <1>2 DEF Exported
  <1>4. Exported(s) \in Files
    BY <1>1, <1>3 DEF Files
  <1> QED
    BY <1>4 DEF Exported

LEMMA Inheriting ==
    ASSUME NEW s \in Shells, NEW old \in Shadows
    PROVE  /\ Inherited(s, old) \in Shadows
           /\ Inherited(s, old).inh = s.inh /\ Inherited(s, old).exp = s.exp
           /\ Inherited(s, old).mksubdirs = s.mksubdirs
           /\ \A v \in s.inh : Inherited(s, old).var[v] = Expand(s.var[v])
  <1>1. s.var \in [Vars -> Contents] /\ s.inh \subseteq Vars /\ s.exp \subseteq Vars
        /\ s.mksubdirs \in Seq(Sub)
    BY ShellFields
  <1>2. old.var \in [Vars -> Contents]
    BY DEF Shadows
  <1> DEFINE var == [v \in Vars |-> IF v \in s.inh THEN Expand(s.var[v]) ELSE old.var[v]]
  <1>3. var \in [Vars -> Contents]
    BY <1>1, <1>2, Expanding
  <1>4. \A v \in s.inh : var[v] = Expand(s.var[v])
    BY <1>1
  <1>5. Inherited(s, old) = [var |-> var, inh |-> s.inh, exp |-> s.exp, mksubdirs |-> s.mksubdirs]
    BY DEF Inherited
  <1> HIDE DEF var
  <1> QED
    BY <1>1, <1>3, <1>4, <1>5 DEF Shadows

LEMMA Disinheriting ==
    ASSUME NEW s \in Shells, NEW old \in Shadows
    PROVE  /\ Disinherited(s, old) \in Shells
           /\ Disinherited(s, old).inh = old.inh /\ Disinherited(s, old).exp = old.exp
           /\ Disinherited(s, old).mksubdirs = old.mksubdirs
           /\ Disinherited(s, old).stage = s.stage
           /\ Disinherited(s, old).subdirtargets = s.subdirtargets
           /\ \A v \in s.inh : Disinherited(s, old).var[v] = Expand(old.var[v])
  <1>1. s.var \in [Vars -> Contents] /\ s.inh \subseteq Vars
    BY ShellFields
  <1>2. /\ old.var \in [Vars -> Contents] /\ old.inh \subseteq Vars /\ old.exp \subseteq Vars
        /\ old.mksubdirs \in Seq(Sub)
    BY DEF Shadows
  <1> DEFINE var == [v \in Vars |-> IF v \in s.inh THEN Expand(old.var[v]) ELSE s.var[v]]
  <1>3. var \in [Vars -> Contents]
    BY <1>1, <1>2, Expanding
  <1>4. \A v \in s.inh : var[v] = Expand(old.var[v])
    BY <1>1
  <1>5. Disinherited(s, old) = [s EXCEPT !.var = var, !.inh = old.inh, !.exp = old.exp,
                                         !.mksubdirs = old.mksubdirs]
    BY DEF Disinherited
  <1> HIDE DEF var
  <1> QED
    BY <1>2, <1>3, <1>4, <1>5 DEF Shells

-----------------------------------------------------------------------------
(***************************************************************************)
(* Before and after the walk                                               *)
(***************************************************************************)

\* The initial state.
THEOREM InitConfigure == Init => ConfigureInv
  <1> SUFFICES ASSUME Init PROVE ConfigureInv
    OBVIOUS
  <1>1. ModulesInv
    BY InitModules DEF Init
  <1>2. /\ pc = "load" /\ left = <<>> /\ calls = <<>> /\ made = <<>> /\ sh = Shell
        /\ shadow = [d \in 0 .. Cardinality(Dirs) |-> NoShadow]
        /\ exports = [d \in Dirs \cup {Dot} |-> Missing]
        /\ targets = [d \in {} |-> Shell]
    BY DEF Init
  <1>3. tree \in [Dirs -> Seq(Sub)] /\ IsTree(tree)
    <2>1. PICK p \in Projects : tree = p[2]
      BY DEF Init
    <2>2. p \in Graphs \X [Dirs -> Seq(Sub)] /\ IsTree(p[2])
      BY ConfigureAssumption DEF Sub
    <2> QED
      BY <2>1, <2>2
  <1>4. <<>> \in Seq(Sub) /\ <<>> \in Seq(Modules) /\ <<>> \in Seq(Calls) /\ <<>> \in Seq(Makes)
    BY EmptySeq
  <1>5. [v \in Vars |-> Unset] \in [Vars -> Contents]
    BY DEF Contents
  <1>6. Shell \in Shells /\ Shell.stage = {} /\ Shell.subdirtargets = {}
    BY <1>4, <1>5 DEF Shell, Shells
  <1>7. NoShadow \in Shadows
    BY <1>4, <1>5 DEF NoShadow, Shadows
  <1>8. Missing \in Files
    <2>1. Missing \in [{} -> Modules \cup Dirs \cup {Empty}]
      BY DEF Missing
    <2> QED
      BY <2>1 DEF Files
  <1>9. exports \in [Dirs \cup {Dot} -> Files]
    BY <1>2, <1>8
  <1>10. shadow \in [0 .. Cardinality(Dirs) -> Shadows]
    BY <1>2, <1>7
  <1>11. DOMAIN targets \subseteq Dirs
    BY <1>2
  <1>12. Types
    BY <1>2, <1>3, <1>4, <1>6, <1>9, <1>10, <1>11 DEF Types
  <1>13. DOMAIN calls = {} /\ DOMAIN made = {} /\ ToSet(made) = {}
    BY <1>2 DEF ToSet
  <1>14. Stage /\ Path /\ Todo /\ Preordered /\ Walk /\ MadeOnce /\ MadeInOrder
    <2>1. Reached = {}
      BY <1>13 DEF Reached, Made
    <2> QED
      BY <1>2, <1>13, <2>1 DEF Stage, Path, Todo, Preordered, Walk, MadeOnce, MadeInOrder
  <1>15. ContextInv
    BY <1>13 DEF ContextInv, ShadowsKept, SubdirsAgree, ContextKept, BuildContextAgrees, Filed
  <1> QED
    BY <1>1, <1>12, <1>14, <1>15 DEF ConfigureInv, WalkInv

\* Steps outside of the tree leave what was made alone.
LEMMA OutsideStep ==
    ASSUME WalkInv, ContextInv, Types', Stage', calls = <<>>, calls' = <<>>,
           UNCHANGED <<tree, made, targets>>, \A d \in Dirs : exports'[d] = exports[d]
    PROVE  WalkInv' /\ ContextInv'
  <1>1. DOMAIN calls = {} /\ DOMAIN calls' = {}
    BY LenProperties
  <1>2. \A d : Made(d)' <=> Made(d)
    BY DEF Made
  <1>3. Reached' = Reached /\ Known' = Known
    BY <1>1, <1>2 DEF Reached, Known
  <1>4. Path' /\ Todo' /\ Preordered'
    BY <1>1 DEF Path, Todo, Preordered
  <1>5. Walk'
    BY <1>1, <1>3 DEF WalkInv, Walk
  <1>6. MadeOnce' /\ MadeInOrder'
    BY DEF WalkInv, MadeOnce, MadeInOrder
  <1>7. ShadowsKept' /\ SubdirsAgree' /\ ContextKept'
    BY <1>1 DEF ShadowsKept, SubdirsAgree, ContextKept
  <1>8. BuildContextAgrees'
    <2>1. \A m \in ToSet(made) : m.dir \in Dirs
      <3>1. \A m \in Makes : m.dir \in Dirs
        BY DEF Makes
      <3> QED
        BY <3>1, ElementOfSeq, LenProperties DEF WalkInv, Types, ToSet
    <2> QED
      BY <2>1 DEF ContextInv, BuildContextAgrees
  <1>9. Filed'
    BY <1>1, <1>2 DEF ContextInv, Filed
  <1> QED
    BY <1>4, <1>5, <1>6, <1>7, <1>8, <1>9 DEF WalkInv, ContextInv

LEMMA LoadModulesKeeps == ConfigureInv /\ LoadModules => ConfigureInv'
  <1> SUFFICES ASSUME ConfigureInv, LoadModules PROVE ConfigureInv'
    OBVIOUS
  <1>1. WalkInv /\ ContextInv /\ ModulesInv /\ Types /\ Stage
    BY DEF ConfigureInv, WalkInv
  <1>2. /\ pc = "load" /\ pc' \in {"load", "modules"}
        /\ UNCHANGED <<tree, calls, sh, shadow, exports, targets, made>>
        /\ left' \in {left, list}
        /\ ModulesNext \/ UNCHANGED moduleVars
    BY DEF LoadModules, dirVars
  <1>3. ModulesInv'
    BY <1>1, <1>2, NextModules
  <1>4. calls = <<>> /\ calls' = <<>> /\ made = <<>>
    BY <1>1, <1>2 DEF Stage
  <1>5. left' \in Seq(Modules)
    BY <1>1, <1>2 DEF ModulesInv, Shape, Types
  <1>6. Types'
    BY <1>1, <1>2, <1>5 DEF Types
  <1>7. Stage'
    BY <1>2, <1>4 DEF Stage
  <1> QED
    BY <1>1, <1>2, <1>3, <1>4, <1>6, <1>7, OutsideStep DEF ConfigureInv

\* Steps that leave the modules alone keep what is proved of them.
LEMMA ModulesStay == ModulesInv /\ UNCHANGED moduleVars => ModulesInv'
  BY NextModules

LEMMA ConfigureModuleKeeps ==
    ASSUME ConfigureInv, NEW c \in ModuleCommands, NEW v \in Vars, ConfigureModule(c, v)
    PROVE  ConfigureInv'
  <1>1. WalkInv /\ ContextInv /\ ModulesInv /\ Types /\ Stage
    BY DEF ConfigureInv, WalkInv
  <1>2. /\ pc = "modules" /\ left # <<>> /\ left' = Tail(left)
        /\ sh' = Declare(sh, c, v, Head(left))
        /\ UNCHANGED <<moduleVars, tree, pc, calls, shadow, exports, targets, made>>
    BY DEF ConfigureModule
  <1>3. calls = <<>> /\ calls' = <<>> /\ made = <<>>
    BY <1>1, <1>2 DEF Stage
  <1>4. left' \in Seq(Modules) /\ Head(left) \in Contents
    BY <1>1, <1>2, HeadTailProperties DEF Types, Contents
  <1>5. sh' \in Shells /\ sh'.stage = {} /\ sh'.subdirtargets = {}
    <2>1. c \in Command
      BY ConfigureAssumption
    <2>2. sh \in Shells /\ sh.stage = {} /\ sh.subdirtargets = {}
      BY <1>1 DEF Types
    <2> QED
      BY <1>2, <1>4, <2>1, <2>2, Declaring
  <1>6. Types'
    BY <1>1, <1>2, <1>4, <1>5 DEF Types
  <1>7. Stage'
    BY <1>1, <1>2 DEF Stage, Made
  <1> QED
    BY <1>1, <1>2, <1>3, <1>6, <1>7, OutsideStep, ModulesStay DEF ConfigureInv

LEMMA MakeModuleKeeps == ConfigureInv /\ MakeModule => ConfigureInv'
  <1> SUFFICES ASSUME ConfigureInv, MakeModule PROVE ConfigureInv'
    OBVIOUS
  <1>1. WalkInv /\ ContextInv /\ ModulesInv /\ Types /\ Stage
    BY DEF ConfigureInv, WalkInv
  <1>2. /\ pc = "footer" /\ pc' \in {"footer", "end"}
        /\ left' = left \/ (left # <<>> /\ left' = Tail(left))
        /\ sh' = sh \/ sh' = [sh EXCEPT !.subdirtargets = {}]
        /\ UNCHANGED <<moduleVars, tree, calls, shadow, exports, targets, made>>
    BY DEF MakeModule
  <1>3. calls = <<>> /\ calls' = <<>>
    BY <1>1, <1>2 DEF Stage
  <1>4. left' \in Seq(Modules)
    <2>1. left \in Seq(Modules)
      BY <1>1 DEF Types
    <2>2. left # <<>> => Tail(left) \in Seq(Modules)
      BY <2>1, HeadTailProperties
    <2> QED
      BY <1>2, <2>1, <2>2
  <1>5. sh' \in Shells /\ sh'.stage = {} /\ sh'.subdirtargets = {}
    BY <1>1, <1>2 DEF Types, Shells
  <1>6. Types'
    BY <1>1, <1>2, <1>4, <1>5 DEF Types
  <1>7. Stage'
    BY <1>1, <1>2, <1>3 DEF Stage, Made
  <1> QED
    BY <1>1, <1>2, <1>3, <1>6, <1>7, OutsideStep, ModulesStay DEF ConfigureInv

\* The call made for a directory.
LEMMA NewCall ==
    ASSUME sh \in Shells, NEW d \in Dirs
    PROVE  /\ Call(d) \in Calls /\ Call(d).dir = d /\ Call(d).todo = <<>>
           /\ ~Call(d).preorder /\ Call(d).subdirs = sh.subdirs /\ Call(d).before = sh
  BY EmptySeq, ShellFields DEF Call, Calls

LEMMA StartTreeKeeps == ConfigureInv /\ StartTree => ConfigureInv'
  <1> SUFFICES ASSUME ConfigureInv, StartTree PROVE ConfigureInv'
    OBVIOUS
  <1>1. WalkInv /\ ContextInv /\ ModulesInv /\ Types /\ Stage
    BY DEF ConfigureInv, WalkInv
  <1>2. /\ pc = "modules" /\ pc' = "enter" /\ calls' = <<Call(Root)>>
        /\ exports' = [exports EXCEPT ![Dot] = Exported(sh)]
        /\ UNCHANGED <<moduleVars, tree, left, sh, shadow, targets, made>>
    BY DEF StartTree
  <1>3. made = <<>> /\ DOMAIN made = {} /\ ToSet(made) = {}
    BY <1>1, <1>2 DEF Stage, ToSet
  <1>4. /\ Call(Root) \in Calls /\ Call(Root).dir = Root /\ ~Call(Root).preorder
    BY <1>1, NewCall, ConfigureAssumption DEF Types
  <1> DEFINE c == Call(Root)
  <1>5. /\ calls' \in Seq(Calls) /\ Len(calls') = 1 /\ DOMAIN calls' = {1} /\ calls'[1] = c
        /\ calls' # <<>>
    <2> HIDE DEF c
    <2>1. calls' = <<c>> /\ c \in Calls
      BY <1>2, <1>4 DEF c
    <2> QED
      BY <2>1
  <1> HIDE DEF c
  <1>6. Exported(sh) \in Files
    BY <1>1, Exporting DEF Types
  <1>7. Types'
    <2>1. exports' \in [Dirs \cup {Dot} -> Files]
      BY <1>1, <1>2, <1>6 DEF Types
    <2> QED
      BY <1>1, <1>2, <1>5, <2>1 DEF Types
  <1>8. \A d : ~Made(d)'
    BY <1>2, <1>3 DEF Made
  <1>9. \A i \in DOMAIN calls' : i = 1 /\ ~Configured(i)' /\ calls'[i].dir = Root /\ ~calls'[i].preorder
    BY <1>2, <1>4, <1>5 DEF Configured, c
  <1>10. Stage' /\ Path' /\ Todo' /\ Preordered' /\ MadeOnce' /\ MadeInOrder'
    BY <1>2, <1>3, <1>5, <1>8, <1>9
       DEF Stage, Path, Todo, Preordered, MadeOnce, MadeInOrder
  <1>11. Walk'
    <2>1. Reached' \subseteq {Root}
      BY <1>8, <1>9 DEF Reached
    <2> QED
      BY <1>9, <2>1 DEF Walk
  <1>12. ContextInv'
    BY <1>2, <1>3, <1>9
       DEF ContextInv, ShadowsKept, SubdirsAgree, ContextKept, BuildContextAgrees, Filed
  <1> QED
    BY <1>1, <1>2, <1>7, <1>10, <1>11, <1>12, ModulesStay DEF ConfigureInv, WalkInv

\* A call that has been through its SUBDIRS has them made.
LEMMA ChildrenMade ==
    ASSUME WalkInv, pc = "loop", Here.todo = <<>>
    PROVE  \A d \in ToSet(Own(Len(calls))) \ {Dot} : Made(d)
  <1>1. PICK n : n = Len(calls)
    OBVIOUS
  <1>2. Types /\ calls # <<>>
    BY DEF WalkInv, Stage
  <1>3. n \in DOMAIN calls /\ Here = calls[n] /\ Configured(n)
    BY <1>1, <1>2, TopCall DEF Configured
  <1>4. PICK l \in Nat : l = Len(Own(n)) /\ DOMAIN Own(n) = 1 .. l
    BY <1>2, <1>3, CallsTyped
  <1>5. Gone(n) = l
    <2>1. Len(calls[n].todo) = 0
      BY <1>3
    <2> QED
      BY <1>4, <2>1 DEF Gone
  <1>6. \A k \in 1 .. l : k < l \/ k = l
    BY <1>4
  <1>7. \A k \in 1 .. l : Own(n)[k] # Dot => Made(Own(n)[k])
    BY <1>1, <1>3, <1>4, <1>5, <1>6 DEF WalkInv, Walk
  <1> QED
    BY <1>1, <1>4, <1>7 DEF ToSet

LEMMA LeaveTreeKeeps == ConfigureInv /\ LeaveTree => ConfigureInv'
  <1> SUFFICES ASSUME ConfigureInv, LeaveTree PROVE ConfigureInv'
    OBVIOUS
  <1>1. WalkInv /\ ContextInv /\ ModulesInv /\ Types /\ Stage
    BY DEF ConfigureInv, WalkInv
  <1>2. /\ pc = "loop" /\ Here.todo = <<>> /\ Here.preorder /\ Len(calls) = 1
        /\ sh' = [sh EXCEPT !.subdirs = Here.subdirs, !.subdir = Dot]
        /\ calls' = <<>> /\ pc' = "footer" /\ left' = Reverse(list)
        /\ UNCHANGED <<moduleVars, tree, shadow, exports, targets, made>>
    BY DEF LeaveTree
  <1>3. calls # <<>> /\ DOMAIN calls = {1} /\ Here = calls[1]
    <2>1. calls # <<>>
      BY <1>1, <1>2 DEF Stage
    <2> QED
      BY <1>1, <1>2, <2>1, TopCall
  <1>4. DOMAIN calls' = {} /\ calls' = <<>>
    BY <1>2
  <1>5. Made(Root) /\ calls[1].dir = Root
    BY <1>1, <1>2, <1>3 DEF WalkInv, Path, Preordered
  <1>6. \A d \in ToSet(Own(1)) \ {Dot} : Made(d)
    BY <1>1, <1>2, ChildrenMade
  <1>7. \A d : Made(d)' <=> Made(d)
    BY <1>2 DEF Made
  <1>8. Types'
    <2>1. left' \in Seq(Modules)
      <3>1. list \in Seq(Modules)
        BY <1>1 DEF ModulesInv, Shape
      <3> DEFINE n == Len(list)
      <3>2. n \in Nat /\ \A i \in 1 .. n : list[i] \in Modules
        BY <3>1, LenProperties, ElementOfSeq
      <3> HIDE DEF n
      <3>3. \A i \in 1 .. n : (n - i) + 1 \in 1 .. n
        BY <3>2
      <3>4. [i \in 1 .. n |-> list[(n - i) + 1]] \in [1 .. n -> Modules]
        BY <3>2, <3>3
      <3>5. [i \in 1 .. n |-> list[(n - i) + 1]] \in Seq(Modules)
        BY <3>2, <3>4
      <3> QED
        BY <1>2, <3>5 DEF Reverse, n
    <2>2. Here.subdirs \in Seq(Sub)
      BY <1>1, <1>3, CallsTyped
    <2>3. sh' \in Shells /\ sh'.stage = {} /\ sh'.subdirtargets = {}
      BY <1>1, <1>2, <2>2 DEF Types, Shells
    <2>4. <<>> \in Seq(Calls)
      BY EmptySeq
    <2> QED
      BY <1>1, <1>2, <2>1, <2>3, <2>4 DEF Types
  <1>9. Stage'
    BY <1>2, <1>5, <1>7 DEF Stage
  <1>10. Path' /\ Todo' /\ Preordered'
    BY <1>4 DEF Path, Todo, Preordered
  <1>11. Walk'
    <2>1. Reached' = {d \in Dirs : Made(d)} /\ Known' = {d \in Dirs : Made(d)}
      BY <1>4, <1>7 DEF Reached, Known
    <2>2. Reached = {d \in Dirs : Made(d)} /\ Known = {d \in Dirs : Made(d)}
      BY <1>3, <1>5 DEF Reached, Known
    <2> QED
      BY <1>1, <1>2, <1>4, <2>1, <2>2 DEF WalkInv, Walk
  <1>12. MadeOnce' /\ MadeInOrder'
    BY <1>1, <1>2 DEF WalkInv, MadeOnce, MadeInOrder
  <1>13. ShadowsKept' /\ SubdirsAgree' /\ ContextKept'
    BY <1>4 DEF ShadowsKept, SubdirsAgree, ContextKept
  <1>14. BuildContextAgrees'
    BY <1>1, <1>2 DEF ContextInv, BuildContextAgrees
  <1>15. Filed'
    <2> SUFFICES ASSUME NEW m \in ToSet(made)
                 PROVE  \A d \in ToSet(m.mksubdirs) \ {Dot} : Made(d)
      BY <1>1, <1>2, <1>4, <1>7 DEF ContextInv, Filed
    <2>1. CASE \A d \in ToSet(m.mksubdirs) \ {Dot} : Made(d)
      BY <2>1
    <2>2. CASE \E i \in DOMAIN calls : calls[i].dir = m.dir /\ Own(i) = m.mksubdirs
      BY <1>3, <1>6, <2>2
    <2> QED
      BY <1>1, <2>1, <2>2 DEF ContextInv, Filed
  <1> QED
    BY <1>1, <1>2, <1>8, <1>9, <1>10, <1>11, <1>12, <1>13, <1>14, <1>15, ModulesStay
       DEF ConfigureInv, WalkInv, ContextInv

-----------------------------------------------------------------------------
(***************************************************************************)
(* configure() of a directory                                              *)
(***************************************************************************)

\* When the walk enters a directory, it was never at one of its children: they
\* have no other parent.
LEMMA ChildrenFresh ==
    ASSUME WalkInv, pc = "enter"
    PROVE  /\ ~Made(Here.dir) /\ Here.dir \notin Known
           /\ \A d \in ToSet(tree[Here.dir]) : d # Dot => d \notin Reached
  <1> DEFINE n == Len(calls)  here == Here.dir
  <1>1. Types /\ calls # <<>>
    BY DEF WalkInv, Stage
  <1>2. n \in DOMAIN calls /\ DOMAIN calls = 1 .. n /\ n \in Nat /\ here = calls[n].dir
    BY <1>1, TopCall
  <1>3. ~Configured(n)
    BY <1>2 DEF Configured
  <1>4. ~Made(here)
    BY <1>2, <1>3 DEF WalkInv, Preordered
  <1>5. here \notin Known
    BY <1>2, <1>3, <1>4 DEF WalkInv, Path, Known
  <1>6. ASSUME NEW d \in ToSet(tree[here]), d # Dot, d \in Reached
        PROVE  FALSE
    <2>1. here \in Dirs /\ tree[here] \in Seq(Sub)
      BY <1>1, <1>2, CallsTyped DEF Types
    <2>2. d \in Dirs /\ d # Root
      BY <1>6, <2>1, ElementOfSeq, LenProperties DEF ToSet, Sub
    <2>3. PICK p \in Known : d \in ToSet(tree[p])
      BY <1>6, <2>2 DEF WalkInv, Walk
    <2>4. p = here
      BY <1>1, <1>6, <2>1, <2>3 DEF Types, IsTree, Known
    <2> QED
      BY <1>5, <2>3, <2>4
  <1> QED
    BY <1>4, <1>5, <1>6

LEMMA ConfigureDirKeeps ==
    ASSUME ConfigureInv, NEW c \in DirCommands, NEW v \in Vars, NEW skip \in Skips,
           ConfigureDir(c, v, skip)
    PROVE  ConfigureInv'
  <1>0. PICK n : n = Len(calls)
    OBVIOUS
  <1> DEFINE d == Here.dir
             own == Without(tree[d], skip)
             begun == [sh EXCEPT !.subdirs = own, !.subdir = d]
             s == Declare(begun, c, v, d)
             call == [Here EXCEPT !.todo = own]
  <1>1. WalkInv /\ ContextInv /\ ModulesInv /\ Types /\ Stage
    BY DEF ConfigureInv, WalkInv
  <1>2. /\ pc = "enter" /\ pc' = "loop"
        /\ sh' = [s EXCEPT !.mksubdirs = own]
        /\ exports' = [exports EXCEPT ![d] = Exported(s)]
        /\ calls' = [calls EXCEPT ![n].todo = own]
        /\ UNCHANGED <<moduleVars, tree, left, shadow, targets, made>>
    BY <1>0 DEF ConfigureDir
  <1>3. calls # <<>>
    BY <1>1, <1>2 DEF Stage
  <1>4. /\ n \in Nat /\ n >= 1 /\ n \in DOMAIN calls /\ DOMAIN calls = 1 .. n
        /\ Here = calls[n] /\ Here \in Calls
    BY <1>0, <1>1, <1>3, TopCall
  <1>5. /\ d \in Dirs /\ d # Dot /\ tree[d] \in Seq(Sub) /\ Once(tree[d])
    <2>1. d \in Dirs
      BY <1>1, <1>4, CallsTyped
    <2> QED
      BY <1>1, <2>1, ConfigureAssumption DEF Types, IsTree, Once
  <1>6. own \in Seq(Sub) /\ Once(own) /\ ToSet(own) \subseteq ToSet(tree[d])
    BY <1>5, WithoutElements
  <1> HIDE DEF own
  <1>7. begun \in Shells /\ begun.stage = {} /\ begun.subdirtargets = {}
        /\ begun.subdirs = own /\ begun.inh = sh.inh
    BY <1>1, <1>5, <1>6 DEF Types, Shells
  <1> HIDE DEF begun
  <1>8. /\ s \in Shells /\ s.subdirs = own /\ s.stage = {} /\ s.subdirtargets = {}
        /\ sh.inh \subseteq s.inh
    <2>1. c \in Command /\ d \in Contents
      BY <1>5, ConfigureAssumption DEF Contents
    <2> QED
      BY <1>7, <2>1, Declaring
  <1> HIDE DEF s
  <1>9. /\ sh' \in Shells /\ sh'.stage = {} /\ sh'.subdirtargets = {}
        /\ sh'.subdirs = own /\ sh'.mksubdirs = own
        /\ sh'.inh = s.inh /\ sh'.var = s.var
    BY <1>2, <1>6, <1>8 DEF Shells
  <1>10. /\ call \in Calls /\ call.dir = d /\ call.todo = own /\ call.preorder = Here.preorder
         /\ call.subdirs = Here.subdirs /\ call.before = Here.before
    BY <1>4, <1>6 DEF Calls
  <1>11. calls' = [calls EXCEPT ![n] = call]
    BY <1>0, <1>2, <1>4
  <1> HIDE DEF call
  <1>12. /\ calls' \in Seq(Calls) /\ Len(calls') = n /\ calls' # <<>>
         /\ DOMAIN calls' = 1 .. n
         /\ \A i \in 1 .. n : calls'[i] = IF i = n THEN call ELSE calls[i]
    BY <1>0, <1>1, <1>3, <1>4, <1>10, <1>11, TopChanged
  <1> HIDE DEF d
  \* What has changed is the innermost call.
  <1>13. \A i \in 1 .. n : /\ calls'[i].dir = calls[i].dir
                           /\ calls'[i].preorder = calls[i].preorder
                           /\ calls'[i].subdirs = calls[i].subdirs
                           /\ calls'[i].before = calls[i].before
                           /\ i # n => calls'[i].todo = calls[i].todo
                           /\ i = n => calls'[i].todo = own
    BY <1>4, <1>10, <1>12 DEF d
  <1>14. \A i \in 1 .. n : i < n => /\ Own(i)' = Own(i) /\ Now(i)' = Now(i) /\ Gone(i)' = Gone(i)
                                    /\ Configured(i)' /\ Configured(i)
    <2> SUFFICES ASSUME NEW i \in 1 .. n, i < n
                 PROVE  /\ Own(i)' = Own(i) /\ Now(i)' = Now(i) /\ Gone(i)' = Gone(i)
                        /\ Configured(i)' /\ Configured(i)
      OBVIOUS
    <2>1. i + 1 \in 1 .. n
      BY <1>4
    <2>2. Len(calls') = Len(calls) /\ i < Len(calls)
      BY <1>0, <1>12
    <2>3. Own(i)' = Own(i) /\ Now(i)' = Now(i)
      BY <1>13, <2>1, <2>2 DEF Own, Now
    <2>4. Gone(i)' = Gone(i)
      BY <1>4, <1>13, <2>3 DEF Gone
    <2> QED
      BY <2>2, <2>3, <2>4 DEF Configured
  <1>15. /\ Own(n)' = own /\ Now(n)' = sh' /\ Gone(n)' = 0 /\ Configured(n)' /\ ~Configured(n)
         /\ Now(n) = sh
    <2>1. Len(calls') = n /\ ~(n < n) /\ Len(calls) = n
      BY <1>0, <1>4, <1>12
    <2>2. Own(n)' = own /\ Now(n)' = sh' /\ Now(n) = sh
      BY <1>9, <2>1 DEF Own, Now
    <2>3. Len(own) \in Nat
      BY <1>6
    <2>4. Gone(n)' = Len(own) - Len(own)
      BY <1>4, <1>13, <2>2 DEF Gone
    <2> QED
      BY <1>2, <2>1, <2>2, <2>3, <2>4 DEF Configured
  <1>16. /\ ~Made(d) /\ d \notin Known
         /\ \A e \in ToSet(tree[d]) : e # Dot => e \notin Reached
    BY <1>1, <1>2, ChildrenFresh DEF d
  <1>17. ~calls[n].preorder /\ calls[n].dir = d
    BY <1>1, <1>4, <1>15 DEF WalkInv, Preordered, d
  <1>18. \A e : Made(e)' <=> Made(e)
    BY <1>2 DEF Made
  <1>19. Reached' = Reached /\ Known \subseteq Known'
    <2>1. Reached' = Reached
      BY <1>4, <1>12, <1>13, <1>18 DEF Reached
    <2>2. Known \subseteq Known'
      BY <1>4, <1>12, <1>13, <1>14, <1>15, <1>18 DEF Known
    <2> QED
      BY <2>1, <2>2
  <1>20. Types'
    <2>1. exports' \in [Dirs \cup {Dot} -> Files]
      BY <1>1, <1>2, <1>8, Exporting DEF Types
    <2> QED
      BY <1>1, <1>2, <1>9, <1>12, <2>1 DEF Types
  <1>21. Stage'
    BY <1>2, <1>12 DEF Stage
  <1>22. Path'
    <2>1. \A i \in 1 .. n : i # 1 => i - 1 \in 1 .. n
      BY <1>4
    <2> QED
      BY <1>1, <1>2, <1>4, <1>12, <1>13, <2>1 DEF WalkInv, Path
  <1>23. Todo'
    <2> SUFFICES ASSUME NEW i \in 1 .. n
                 PROVE  /\ Once(Own(i)') /\ ToSet(Own(i)') \subseteq ToSet(tree[calls'[i].dir])
                        /\ Len(calls'[i].todo) <= Len(Own(i)')
                        /\ \A k \in DOMAIN calls'[i].todo : calls'[i].todo[k] = (Own(i)')[Gone(i)' + k]
                        /\ i < n => Gone(i)' >= 1 /\ (Own(i)')[Gone(i)'] = calls'[i + 1].dir
      BY <1>2, <1>12 DEF Todo
    <2>1. CASE i = n
      <3>1. Len(own) \in Nat /\ DOMAIN own = 1 .. Len(own) /\ \A k \in 1 .. Len(own) : 0 + k = k
        BY <1>6, LenProperties
      <3> QED
        BY <1>4, <1>6, <1>13, <1>15, <1>17, <2>1, <3>1
    <2>2. CASE i < n
      <3>1. i + 1 \in 1 .. n
        BY <1>4, <2>2
      <3> QED
        BY <1>0, <1>1, <1>4, <1>13, <1>14, <2>2, <3>1 DEF WalkInv, Todo
    <2> QED
      BY <1>4, <2>1, <2>2
  <1>24. Preordered'
    <2> SUFFICES ASSUME NEW i \in 1 .. n
                 PROVE  /\ Made(calls[i].dir)' <=> calls'[i].preorder
                        /\ calls'[i].preorder => Dot \notin ToSet(calls'[i].todo)
                        /\ ~calls'[i].preorder /\ Dot \in ToSet(Own(i)') => Dot \in ToSet(calls'[i].todo)
      BY <1>2, <1>12 DEF Preordered, Configured
    <2>0. Made(calls[i].dir)' <=> Made(calls[i].dir)
      BY <1>2, <1>13 DEF Made
    <2>1. CASE i = n
      BY <1>13, <1>15, <1>16, <1>17, <2>0, <2>1
    <2>2. CASE i < n
      BY <1>1, <1>4, <1>13, <1>14, <2>0, <2>2 DEF WalkInv, Preordered
    <2> QED
      BY <1>4, <2>1, <2>2
  <1>25. Walk'
    <2>1. \A e \in Reached' \ {Root} : \E p \in Known' : e \in ToSet(tree'[p])
      BY <1>1, <1>2, <1>19 DEF WalkInv, Walk
    <2>2. ASSUME NEW i \in 1 .. n, NEW k \in DOMAIN (Own(i)'), (Own(i)')[k] # Dot
          PROVE  /\ k > Gone(i)' => (Own(i)')[k] \notin Reached
                 /\ k < Gone(i)' \/ (k = Gone(i)' /\ i = n) => Made((Own(i)')[k])
      <3>1. CASE i = n
        <4>1. k \in 1 .. Len(own) /\ own[k] \in ToSet(tree[d])
          BY <1>6, <1>15, <2>2, <3>1 DEF ToSet
        <4> QED
          BY <1>15, <1>16, <2>2, <3>1, <4>1
      <3>2. CASE i < n
        BY <1>0, <1>1, <1>4, <1>14, <2>2, <3>2 DEF WalkInv, Walk
      <3> QED
        BY <1>4, <3>1, <3>2
    <2> QED
      BY <1>12, <1>18, <1>19, <2>1, <2>2 DEF Walk
  <1>26. MadeOnce' /\ MadeInOrder'
    BY <1>1, <1>2 DEF WalkInv, MadeOnce, MadeInOrder
  <1>27. ShadowsKept'
    <2> SUFFICES ASSUME NEW i \in 1 .. n, i # 1 PROVE Kept(i)'
      BY <1>12 DEF ShadowsKept
    <2>1. Kept(i)
      BY <1>1, <1>4 DEF ContextInv, ShadowsKept
    <2>2. Now(i).inh \subseteq Now(i)'.inh
      BY <1>4, <1>8, <1>9, <1>14, <1>15
    <2> QED
      BY <1>2, <1>13, <2>1, <2>2 DEF Kept
  <1>28. SubdirsAgree'
    BY <1>1, <1>4, <1>9, <1>12, <1>14, <1>15 DEF ContextInv, SubdirsAgree
  <1>29. ContextKept'
    <2> SUFFICES ASSUME NEW i \in 1 .. n, ~calls'[i].preorder,
                        NEW w \in DOMAIN (exports'[calls'[i].dir]) \cap Now(i)'.inh
                 PROVE  exports'[calls'[i].dir][w] = Expand(Now(i)'.var[w])
      BY <1>12 DEF ContextKept
    <2>1. CASE i = n
      <3>1. exports'[d] = Exported(s)
        BY <1>1, <1>2, <1>5 DEF Types
      <3> QED
        BY <1>8, <1>9, <1>13, <1>15, <1>17, <2>1, <3>1, Exporting
    <2>2. CASE i < n
      <3>1. calls[i].dir # d
        BY <1>1, <1>4, <1>17, <2>2 DEF WalkInv, Path
      <3>2. exports'[calls[i].dir] = exports[calls[i].dir]
        BY <1>1, <1>2, <3>1 DEF Types
      <3> QED
        BY <1>1, <1>4, <1>13, <1>14, <2>2, <3>2 DEF ContextInv, ContextKept
    <2> QED
      BY <1>4, <2>1, <2>2
  <1>30. BuildContextAgrees'
    <2> SUFFICES ASSUME NEW m \in ToSet(made)
                 PROVE  exports'[m.dir] = exports[m.dir]
      BY <1>1, <1>2 DEF ContextInv, BuildContextAgrees
    <2>1. Made(m.dir)
      BY DEF ToSet, Made
    <2>2. m.dir # d
      BY <1>16, <2>1
    <2> QED
      BY <1>1, <1>2, <2>2 DEF Types
  <1>31. Filed'
    <2> SUFFICES ASSUME NEW m \in ToSet(made), NEW i \in 1 .. n,
                        calls[i].dir = m.dir, Own(i) = m.mksubdirs
                 PROVE  calls'[i].dir = m.dir /\ Own(i)' = m.mksubdirs
      BY <1>1, <1>2, <1>4, <1>12, <1>18 DEF ContextInv, Filed
    <2>1. Made(m.dir)
      BY DEF ToSet, Made
    <2>2. i < n
      BY <1>4, <1>16, <1>17, <2>1
    <2> QED
      BY <1>13, <1>14, <2>2
  <1> QED
    BY <1>1, <1>2, <1>20, <1>21, <1>22, <1>23, <1>24, <1>25, <1>26, <1>27, <1>28, <1>29,
       <1>30, <1>31, ModulesStay
       DEF ConfigureInv, WalkInv, ContextInv

-----------------------------------------------------------------------------
(***************************************************************************)
(* make() of a directory                                                   *)
(***************************************************************************)

\* Where "." stands.
LEMMA DotPlace ==
    ASSUME NEW s \in Seq(Sub), Once(s), NEW k \in DOMAIN s, s[k] = Dot
    PROVE  /\ Contains(s, Dot)
           /\ ToSet(SubSeq(s, 1, SelectInSeq(s, LAMBDA d : d = Dot) - 1)) = {s[i] : i \in 1 .. (k - 1)}
  <1>1. DOMAIN s = 1 .. Len(s) /\ Len(s) \in Nat /\ \A i \in 1 .. Len(s) : s[i] \in Sub
    BY LenProperties, ElementOfSeq
  <1>2. Contains(s, Dot)
    BY <1>1 DEF Contains
  <1>3. {i \in 1 .. Len(s) : s[i] = Dot} = {k}
    BY <1>1 DEF Once
  <1>4. SelectInSeq(s, LAMBDA d : d = Dot) = k
    <2>1. Min({k}) = k
      BY <1>1 DEF Min
    <2> QED
      BY <1>3, <2>1 DEF SelectInSeq
  <1> DEFINE n == Len(s)
  <1>5. n \in Nat /\ k \in 1 .. n /\ \A i \in 1 .. n : s[i] \in Sub
    BY <1>1
  <1> HIDE DEF n
  <1>6. \A i \in 1 .. (k - 1) : s[i] \in Sub
    BY <1>5
  <1> DEFINE f == SubSeq(s, 1, k - 1)
  <1>7. /\ f \in Seq(Sub) /\ Len(f) = IF 1 <= k - 1 THEN (k - 1) - 1 + 1 ELSE 0
        /\ \A i \in 1 .. (k - 1) - 1 + 1 : f[i] = s[1 + i - 1]
    BY <1>5, <1>6, SubSeqProperties
  <1>8. DOMAIN f = 1 .. (k - 1) /\ \A i \in 1 .. (k - 1) : f[i] = s[i]
    BY <1>5, <1>7, LenProperties
  <1> HIDE DEF f
  <1>9. ToSet(f) = {s[i] : i \in 1 .. (k - 1)}
    BY <1>8 DEF ToSet
  <1> QED
    BY <1>2, <1>4, <1>9 DEF f

\* What MakeDir does: the record of it, what is filed, and the shell after it.
LEMMA MakingDir ==
    ASSUME Types, NEW set \in MakeSets, NEW v \in Vars, MakeDir(set, v),
           NEW d, d = Here.dir, d \in Dirs
    PROVE  /\ made' = Append(made, [dir |-> d, var |-> sh.var, inh |-> sh.inh,
                                    subdirs |-> sh.subdirs, mksubdirs |-> sh.mksubdirs])
           /\ DOMAIN targets' = DOMAIN targets \cup {d}
           /\ targets'[d] = [subdirs |-> sh.subdirs, stage |-> {d},
                             rule |-> {d} \cup (ToSet(sh.subdirs) \ {Dot})]
           /\ \A e \in DOMAIN targets : e # d => targets'[e] = targets[e]
           /\ sh' \in Shells /\ sh'.stage = {} /\ sh'.subdirtargets = {}
           /\ sh'.subdirs = sh.subdirs /\ sh'.mksubdirs = sh.mksubdirs /\ sh'.inh = sh.inh
  <1> DEFINE before == MakeContext(sh, d)
             after  == RunMake(before, set, v)
  <1>1. sh \in Shells /\ sh.stage = {} /\ sh.subdirtargets = {}
    BY DEF Types
  <1>2. /\ before \in Shells /\ before.var = sh.var /\ before.inh = sh.inh
        /\ before.subdirs = sh.subdirs /\ before.mksubdirs = sh.mksubdirs
        /\ before.subdir = d /\ before.stage = {} /\ before.subdirtargets = {}
    BY <1>1 DEF MakeContext, Shells
  <1> HIDE DEF before
  <1>3. /\ after \in Shells /\ after.inh = sh.inh
        /\ after.subdirs = sh.subdirs /\ after.mksubdirs = sh.mksubdirs
        /\ after.subdir = d /\ after.stage = {d} /\ after.subdirtargets = {d}
    <2> DEFINE var == [before.var EXCEPT ![v] = IF set THEN before.subdir ELSE @]
    <2>1. var \in [Vars -> Contents]
      BY <1>2, ShellFields DEF Contents
    <2>2. after = [before EXCEPT !.var = var, !.stage = {d}, !.subdirtargets = {d}]
      BY <1>2 DEF RunMake
    <2> HIDE DEF var, after
    <2> QED
      BY <1>2, <2>1, <2>2 DEF Shells
  <1> HIDE DEF after
  <1>4. made' = Append(made, [dir |-> d, var |-> sh.var, inh |-> sh.inh,
                              subdirs |-> sh.subdirs, mksubdirs |-> sh.mksubdirs])
    BY <1>2 DEF MakeDir, before
  <1>5. targets' = [e \in DOMAIN targets \cup {d} |->
              IF e = d
              THEN [subdirs |-> sh.subdirs, stage |-> {d},
                    rule |-> {d} \cup (ToSet(sh.subdirs) \ {Dot})]
              ELSE targets[e]]
    <2>1. targets' = [e \in DOMAIN targets \cup {after.subdir} |->
              IF e = after.subdir
              THEN [subdirs |-> after.subdirs, stage |-> after.stage,
                    rule |-> after.subdirtargets \cup (ToSet(after.subdirs) \ {Dot})]
              ELSE targets[e]]
      BY DEF MakeDir, before, after
    <2> QED
      BY <1>3, <2>1
  <1>6. sh' = Posthooks(after)
    BY DEF MakeDir, before, after
  <1>7. /\ sh' \in Shells /\ sh'.stage = {} /\ sh'.subdirtargets = {}
        /\ sh'.subdirs = sh.subdirs /\ sh'.mksubdirs = sh.mksubdirs /\ sh'.inh = sh.inh
    BY <1>3, <1>6 DEF Posthooks, Shells
  <1> QED
    BY <1>4, <1>5, <1>7

\* The next of SUBDIRS, and what is left after it.
LEMMA NextSubdir ==
    ASSUME WalkInv, pc = "loop", Here.todo # <<>>
    PROVE  \E h \in Nat :
              /\ h = Gone(Len(calls))
              /\ h + 1 \in DOMAIN sh.subdirs /\ sh.subdirs[h + 1] = Head(Here.todo)
              /\ Head(Here.todo) \in Sub /\ Tail(Here.todo) \in Seq(Sub)
              /\ Len(Tail(Here.todo)) = Len(sh.subdirs) - (h + 1)
              /\ \A k \in DOMAIN Tail(Here.todo) :
                    Tail(Here.todo)[k] = sh.subdirs[(h + 1) + k]
  <1> PICK n : n = Len(calls)
    OBVIOUS
  <1> PICK own : own = sh.subdirs
    OBVIOUS
  <1> PICK h : h = Gone(n)
    OBVIOUS
  <1>1. Types /\ calls # <<>>
    BY DEF WalkInv, Stage
  <1>2. n \in DOMAIN calls /\ Here = calls[n] /\ Own(n) = own
    BY <1>1, TopCall
  <1>3. PICK todo : todo = Here.todo
    OBVIOUS
  <1>4. PICK l \in Nat : l = Len(own) /\ DOMAIN own = 1 .. l
    BY <1>1, <1>2, CallsTyped
  <1>5. PICK q \in Nat : q = Len(todo) /\ DOMAIN todo = 1 .. q /\ todo \in Seq(Sub)
    BY <1>1, <1>2, <1>3, CallsTyped
  <1>6. h = l - q
    BY <1>2, <1>3, <1>4, <1>5 DEF Gone
  <1>7. q <= l /\ \A k \in 1 .. q : todo[k] = own[h + k]
    BY <1>2, <1>3, <1>4, <1>5 DEF WalkInv, Todo, Configured
  <1>8. PICK rest : rest = Tail(todo)
    OBVIOUS
  <1>9. /\ Head(todo) = todo[1] /\ Head(todo) \in Sub /\ rest \in Seq(Sub)
        /\ Len(rest) = Len(todo) - 1
        /\ \A k \in 1 .. Len(rest) : rest[k] = todo[k + 1]
    <2>1. todo # <<>>
      BY <1>3
    <2> QED
      BY <1>5, <1>8, <2>1, HeadTailProperties
  <1>10. PICK r \in Nat : r = Len(rest) /\ DOMAIN rest = 1 .. r
    BY <1>9, LenProperties
  <1>11. r = q - 1
    BY <1>5, <1>9, <1>10
  <1>12. q <= l
    BY <1>7
  <1>13. h \in Nat /\ h + 1 \in 1 .. l /\ 1 \in 1 .. q /\ r = l - (h + 1)
    BY <1>6, <1>11, <1>12
  <1>14. \A k \in 1 .. r : k + 1 \in 1 .. q /\ h + (k + 1) = (h + 1) + k
    BY <1>11, <1>13
  <1>15. \A k \in 1 .. r : rest[k] = own[(h + 1) + k]
    BY <1>7, <1>9, <1>10, <1>14
  <1>16. own[h + 1] = Head(todo)
    BY <1>7, <1>9, <1>13
  <1> QED
    BY <1>3, <1>4, <1>8, <1>9, <1>10, <1>13, <1>15, <1>16

\* The common part of Preorder and Postorder: rest is what is left to do then.
LEMMA MakingKeeps ==
    ASSUME ConfigureInv, NEW set \in MakeSets, NEW v \in Vars,
           pc = "loop", MakeDir(set, v), NEW rest \in Seq(Sub),
           \/ Here.todo # <<>> /\ Head(Here.todo) = Dot /\ rest = Tail(Here.todo)
           \/ Here.todo = <<>> /\ ~Here.preorder /\ rest = <<>>,
           calls' = [calls EXCEPT ![Len(calls)] = [Here EXCEPT !.todo = rest, !.preorder = TRUE]],
           UNCHANGED <<moduleVars, tree, pc, left, shadow, exports>>
    PROVE  ConfigureInv'
  <1>0. PICK n : n = Len(calls)
    OBVIOUS
  <1>00. PICK d : d = Here.dir
    OBVIOUS
  <1>000. PICK own : own = sh.subdirs
    OBVIOUS
  <1> DEFINE call == [Here EXCEPT !.todo = rest, !.preorder = TRUE]
             rec == [dir |-> d, var |-> sh.var, inh |-> sh.inh,
                     subdirs |-> sh.subdirs, mksubdirs |-> sh.mksubdirs]
  <1>1. WalkInv /\ ContextInv /\ ModulesInv /\ Types /\ Stage
    BY DEF ConfigureInv, WalkInv
  <1>2. calls # <<>>
    BY <1>1 DEF Stage
  <1>3. /\ n \in Nat /\ n >= 1 /\ n \in DOMAIN calls /\ DOMAIN calls = 1 .. n
        /\ Here = calls[n] /\ Here \in Calls
        /\ Own(n) = own /\ Now(n) = sh
    BY <1>0, <1>000, <1>1, <1>2, TopCall
  \* The lengths of SUBDIRS, of what is left before and after, and what is gone.
  <1>a. PICK l \in Nat : l = Len(own) /\ DOMAIN own = 1 .. l
    BY <1>000, <1>1, <1>3, CallsTyped
  <1>b. PICK q \in Nat : q = Len(Here.todo) /\ DOMAIN Here.todo = 1 .. q
    BY <1>1, <1>3, CallsTyped
  <1>c. PICK r \in Nat : r = Len(rest) /\ DOMAIN rest = 1 .. r
    BY LenProperties
  <1>d. PICK h : h = Gone(n)
    OBVIOUS
  <1>e. PICK g : g = l - r
    OBVIOUS
  <1>4. /\ d \in Dirs /\ d # Dot /\ Here.todo \in Seq(Sub) /\ own \in Seq(Sub)
        /\ h = l - q
    <2>1. d \in Dirs /\ Here.todo \in Seq(Sub) /\ own \in Seq(Sub)
      BY <1>00, <1>1, <1>3, CallsTyped
    <2>2. h = l - q
      BY <1>3, <1>a, <1>b, <1>d DEF Gone
    <2> QED
      BY <2>1, <2>2, ConfigureAssumption
  <1>5. \A i \in 1 .. n : Configured(i)
    BY <1>0 DEF Configured
  <1>6. /\ Once(own) /\ ToSet(own) \subseteq ToSet(tree[d])
        /\ q <= l /\ h \in Nat /\ h <= l
        /\ \A k \in 1 .. q : Here.todo[k] = own[h + k]
    <2>1. /\ Once(own) /\ ToSet(own) \subseteq ToSet(tree[d])
          /\ Len(Here.todo) <= Len(own)
          /\ \A k \in DOMAIN Here.todo : Here.todo[k] = own[Gone(n) + k]
      BY <1>00, <1>1, <1>3, <1>5 DEF WalkInv, Todo
    <2>2. q <= l
      BY <1>a, <1>b, <2>1
    <2> QED
      BY <1>4, <1>b, <1>d, <2>1, <2>2
  <1>f. q <= l /\ h \in Nat /\ h <= l /\ h = l - q
    BY <1>4, <1>6
  \* make() did not run yet.
  <1>7. ~Here.preorder
    <2>1. CASE Here.todo # <<>> /\ Head(Here.todo) = Dot
      <3>1. Dot \in ToSet(Here.todo)
        BY <1>4, <2>1, HeadTailElements
      <3> QED
        BY <1>1, <1>3, <1>5, <3>1 DEF WalkInv, Preordered
    <2> QED
      BY <2>1
  <1>8. ~Made(d)
    BY <1>00, <1>1, <1>3, <1>7 DEF WalkInv, Preordered
  \* What is left, and what has been gone through, does not name "." any more.
  <1>9. /\ g \in Nat /\ g <= l
        /\ \A k \in 1 .. r : rest[k] = own[g + k]
        /\ \/ g = h /\ g = l /\ Dot \notin ToSet(own) /\ rest = <<>>
           \/ g = h + 1 /\ own[g] = Dot
    <2>2. CASE Here.todo # <<>> /\ Head(Here.todo) = Dot /\ rest = Tail(Here.todo)
      <3>1. /\ h \in Nat /\ h + 1 \in DOMAIN own /\ own[h + 1] = Head(Here.todo)
            /\ Head(Here.todo) \in Sub /\ Tail(Here.todo) \in Seq(Sub)
            /\ Len(Tail(Here.todo)) = Len(own) - (h + 1)
            /\ \A k \in DOMAIN Tail(Here.todo) : Tail(Here.todo)[k] = own[(h + 1) + k]
        BY <1>0, <1>000, <1>d, <1>1, <2>2, NextSubdir
      <3>2. r = l - (h + 1) /\ h + 1 \in 1 .. l /\ h \in Nat
        BY <1>a, <1>c, <2>2, <3>1
      <3>3. g = h + 1 /\ g \in Nat /\ g <= l
        BY <1>e, <3>2
      <3> QED
        BY <1>c, <2>2, <3>1, <3>3
    <2>3. CASE Here.todo = <<>> /\ ~Here.preorder /\ rest = <<>>
      <3>1. q = 0 /\ r = 0 /\ ToSet(Here.todo) = {}
        BY <1>b, <1>c, <2>3 DEF ToSet
      <3>2. Dot \notin ToSet(own)
        BY <1>1, <1>3, <1>5, <2>3, <3>1 DEF WalkInv, Preordered
      <3>3. g = l /\ g = h /\ \A k \in 1 .. r : FALSE
        BY <1>4, <1>e, <3>1
      <3> QED
        BY <1>6, <2>3, <3>2, <3>3
    <2> QED
      BY <2>2, <2>3
  <1>g. g \in Nat /\ g <= l
    BY <1>9
  <1>h. \A k \in 1 .. r : g + k \in 1 .. l /\ g # g + k
    BY <1>e, <1>g
  <1>10. /\ made' = Append(made, rec)
         /\ DOMAIN targets' = DOMAIN targets \cup {d}
         /\ targets'[d] = [subdirs |-> own, stage |-> {d},
                           rule |-> {d} \cup (ToSet(own) \ {Dot})]
         /\ \A e \in DOMAIN targets : e # d => targets'[e] = targets[e]
         /\ sh' \in Shells /\ sh'.stage = {} /\ sh'.subdirtargets = {}
         /\ sh'.subdirs = own /\ sh'.mksubdirs = sh.mksubdirs /\ sh'.inh = sh.inh
    BY <1>00, <1>000, <1>1, <1>4, MakingDir
  <1>11. sh.mksubdirs = own
    BY <1>1, <1>3, <1>5 DEF ContextInv, SubdirsAgree
  <1>12. /\ rec \in Makes /\ rec.dir = d /\ rec.var = sh.var /\ rec.inh = sh.inh
         /\ rec.subdirs = own /\ rec.mksubdirs = own
    BY <1>000, <1>1, <1>4, <1>11, ShellFields DEF Types, Makes
  <1> HIDE DEF rec
  <1>13. PICK m \in Nat : /\ m = Len(made) /\ DOMAIN made = 1 .. m
                          /\ made' \in Seq(Makes) /\ DOMAIN made' = 1 .. (m + 1)
                          /\ \A i \in 1 .. m : made'[i] = made[i]
                          /\ made'[m + 1] = rec
                          /\ ToSet(made') = ToSet(made) \cup {rec}
    <2>1. made \in Seq(Makes) /\ Len(made) \in Nat /\ DOMAIN made = 1 .. Len(made)
      BY <1>1, LenProperties DEF Types
    <2>2. /\ made' \in Seq(Makes) /\ Len(made') = Len(made) + 1
          /\ \A i \in 1 .. Len(made) : made'[i] = made[i]
          /\ made'[Len(made) + 1] = rec
      BY <1>10, <1>12, <2>1, AppendProperties
    <2>3. DOMAIN made' = 1 .. (Len(made) + 1)
      BY <2>2, LenProperties
    <2>4. ToSet(made') = ToSet(made) \cup {rec}
      BY <1>10, <1>12, <2>1, AppendElements
    <2> QED
      BY <2>1, <2>2, <2>3, <2>4
  <1>14. \A e : Made(e)' <=> (Made(e) \/ e = d)
    <2>1. \A i \in 1 .. (m + 1) : i \in 1 .. m \/ i = m + 1
      OBVIOUS
    <2>2. m + 1 \in 1 .. (m + 1) /\ \A i \in 1 .. m : i \in 1 .. (m + 1)
      OBVIOUS
    <2> QED
      BY <1>12, <1>13, <2>1, <2>2 DEF Made
  <1>15. /\ call \in Calls /\ call.dir = d /\ call.todo = rest /\ call.preorder
         /\ call.subdirs = Here.subdirs /\ call.before = Here.before
    BY <1>00, <1>3 DEF Calls
  <1> HIDE DEF call
  <1>16. /\ calls' \in Seq(Calls) /\ Len(calls') = n /\ calls' # <<>>
         /\ DOMAIN calls' = 1 .. n
         /\ \A i \in 1 .. n : calls'[i] = IF i = n THEN call ELSE calls[i]
    <2>1. calls' = [calls EXCEPT ![Len(calls)] = call]
      BY DEF call
    <2> QED
      BY <1>0, <1>1, <1>2, <1>3, <1>15, <2>1, TopChanged
  <1>17. \A i \in 1 .. n : /\ calls'[i].dir = calls[i].dir
                           /\ calls'[i].subdirs = calls[i].subdirs
                           /\ calls'[i].before = calls[i].before
                           /\ i # n => /\ calls'[i].todo = calls[i].todo
                                       /\ calls'[i].preorder = calls[i].preorder
                           /\ i = n => calls'[i].todo = rest /\ calls'[i].preorder
    BY <1>00, <1>3, <1>15, <1>16
  <1>18. \A i \in 1 .. n : /\ Own(i)' = Own(i) /\ Now(i)'.inh = Now(i).inh
                           /\ Now(i)'.mksubdirs = Now(i).mksubdirs
                           /\ i < n => Now(i)' = Now(i) /\ Gone(i)' = Gone(i)
                           /\ i = n => Gone(i)' = g
                           /\ Configured(i)'
    <2> SUFFICES ASSUME NEW i \in 1 .. n
                 PROVE  /\ Own(i)' = Own(i) /\ Now(i)'.inh = Now(i).inh
                        /\ Now(i)'.mksubdirs = Now(i).mksubdirs
                        /\ i < n => Now(i)' = Now(i) /\ Gone(i)' = Gone(i)
                        /\ i = n => Gone(i)' = g
                        /\ Configured(i)'
      OBVIOUS
    <2>1. Len(calls') = Len(calls) /\ n = Len(calls)
      BY <1>0, <1>16
    <2>2. CASE i < n
      <3>1. i + 1 \in 1 .. n
        BY <1>3, <2>2
      <3>2. Own(i)' = Own(i) /\ Now(i)' = Now(i)
        BY <1>17, <2>1, <2>2, <3>1 DEF Own, Now
      <3>3. Gone(i)' = Gone(i)
        BY <1>3, <1>17, <2>2, <3>2 DEF Gone
      <3> QED
        BY <1>3, <2>1, <2>2, <3>2, <3>3 DEF Configured
    <2>3. CASE i = n
      <3>1. ~(i < n)
        BY <1>3, <2>3
      <3>2. Own(i)' = own /\ Now(i)' = sh'
        BY <1>10, <2>1, <3>1 DEF Own, Now
      <3>3. Own(i) = own /\ Now(i) = sh
        BY <1>3, <2>3
      <3>4. Gone(i)' = g
        BY <1>17, <1>a, <1>c, <1>e, <2>3, <3>2 DEF Gone
      <3>5. Configured(i)'
        BY DEF Configured
      <3> QED
        BY <1>3, <1>9, <1>10, <2>3, <3>2, <3>3, <3>4, <3>5
    <2> QED
      BY <1>3, <2>2, <2>3
  <1>19. Reached' = Reached /\ Known' = Known
    <2>1. d \in Reached /\ d \in Known
      BY <1>00, <1>3, <1>4, <1>5 DEF Reached, Known
    <2>2. Reached' = Reached
      BY <1>3, <1>14, <1>16, <1>17, <2>1 DEF Reached
    <2>3. Known' = Known
      BY <1>3, <1>5, <1>14, <1>16, <1>17, <1>18, <2>1 DEF Known
    <2> QED
      BY <2>2, <2>3
  <1>20. Types'
    BY <1>1, <1>4, <1>10, <1>13, <1>16 DEF Types
  <1>21. Stage'
    BY <1>16 DEF Stage
  <1>22. Path'
    <2>1. \A i \in 1 .. n : i # 1 => i - 1 \in 1 .. n
      BY <1>3
    <2> QED
      BY <1>1, <1>3, <1>16, <1>17, <2>1 DEF WalkInv, Path
  <1>23. Todo'
    <2> SUFFICES ASSUME NEW i \in 1 .. n
                 PROVE  /\ Once(Own(i)') /\ ToSet(Own(i)') \subseteq ToSet(tree[calls'[i].dir])
                        /\ Len(calls'[i].todo) <= Len(Own(i)')
                        /\ \A k \in DOMAIN calls'[i].todo : calls'[i].todo[k] = (Own(i)')[Gone(i)' + k]
                        /\ i < n => Gone(i)' >= 1 /\ (Own(i)')[Gone(i)'] = calls'[i + 1].dir
      BY <1>16 DEF Todo
    <2>1. CASE i = n
      <3>1. r <= l /\ ~(n < n)
        BY <1>3, <1>9, <1>e
      <3>2. Own(i)' = own /\ Gone(i)' = g /\ calls'[i].todo = rest /\ calls'[i].dir = d
        BY <1>00, <1>3, <1>17, <1>18, <2>1
      <3> QED
        BY <1>6, <1>9, <1>a, <1>c, <2>1, <3>1, <3>2
    <2>2. CASE i < n
      <3>1. i + 1 \in 1 .. n
        BY <1>3, <2>2
      <3> QED
        BY <1>0, <1>1, <1>3, <1>5, <1>17, <1>18, <2>2, <3>1 DEF WalkInv, Todo
    <2> QED
      BY <1>3, <2>1, <2>2
  <1>24. Preordered'
    <2> SUFFICES ASSUME NEW i \in 1 .. n
                 PROVE  /\ Made(calls[i].dir)' <=> calls'[i].preorder
                        /\ calls'[i].preorder => Dot \notin ToSet(calls'[i].todo)
                        /\ ~calls'[i].preorder /\ Dot \in ToSet(Own(i)') => Dot \in ToSet(calls'[i].todo)
      BY <1>16, <1>18 DEF Preordered
    <2>0. Made(calls[i].dir)' <=> Made(calls[i].dir) \/ calls[i].dir = d
      <3>1. PICK e : e = calls[i].dir
        OBVIOUS
      <3>2. Made(e)' <=> (Made(e) \/ e = d)
        BY <1>14
      <3>3. Made(calls[i].dir)' <=> Made(e)'
        BY <1>17, <3>1 DEF Made
      <3> QED
        BY <3>1, <3>2, <3>3
    <2>1. CASE i = n
      <3>1. Dot \notin ToSet(rest)
        <4> SUFFICES ASSUME NEW k \in DOMAIN rest, rest[k] = Dot PROVE FALSE
          BY DEF ToSet
        <4>0. k \in 1 .. r
          BY <1>c
        <4>1. own[g + k] = Dot /\ g + k \in DOMAIN own /\ g # g + k
          <5>1. g + k \in 1 .. l /\ g # g + k
            BY <1>h, <4>0
          <5> QED
            BY <1>9, <1>a, <4>0, <5>1
        <4>2. Dot \in ToSet(own)
          BY <4>1 DEF ToSet
        <4>3. own[g] = Dot /\ g \in DOMAIN own
          <5>1. g = h + 1 /\ own[g] = Dot
            BY <1>9, <4>2
          <5>2. g \in 1 .. l
            BY <1>f, <1>g, <5>1
          <5> QED
            BY <1>a, <5>1, <5>2
        <4> QED
          BY <1>6, <4>1, <4>3 DEF Once
      <3> QED
        BY <1>00, <1>3, <1>17, <2>0, <2>1, <3>1
    <2>2. CASE i < n
      <3>1. calls[i].dir # d
        BY <1>00, <1>1, <1>3, <2>2 DEF WalkInv, Path
      <3> QED
        BY <1>1, <1>3, <1>5, <1>17, <1>18, <2>0, <2>2, <3>1 DEF WalkInv, Preordered
    <2> QED
      BY <1>3, <2>1, <2>2
  <1>25. \A k \in 1 .. l : own[k] # Dot => /\ k > h => own[k] \notin Reached
                                           /\ k <= h => Made(own[k])
    <2>1. \A k \in DOMAIN Own(n) : Own(n)[k] # Dot =>
              /\ k > Gone(n) => Own(n)[k] \notin Reached
              /\ k < Gone(n) \/ (k = Gone(n) /\ n = Len(calls)) => Made(Own(n)[k])
      BY <1>1, <1>3, <1>5 DEF WalkInv, Walk
    <2>2. \A k \in 1 .. l : own[k] # Dot => /\ k > h => own[k] \notin Reached
                                            /\ k < h \/ k = h => Made(own[k])
      BY <1>0, <1>3, <1>a, <1>d, <2>1
    <2>3. \A k \in 1 .. l : k <= h => k < h \/ k = h
      BY <1>6
    <2> QED
      BY <2>2, <2>3
  <1>26. Walk'
    <2>1. \A e \in Reached' \ {Root} : \E p \in Known' : e \in ToSet(tree'[p])
      BY <1>1, <1>19 DEF WalkInv, Walk
    <2>2. ASSUME NEW i \in 1 .. n, NEW k \in DOMAIN (Own(i)'), (Own(i)')[k] # Dot
          PROVE  /\ k > Gone(i)' => (Own(i)')[k] \notin Reached
                 /\ k < Gone(i)' \/ (k = Gone(i)' /\ i = n) => Made((Own(i)')[k])
      <3>1. CASE i = n
        <4>1. k \in 1 .. l /\ (Own(i)')[k] = own[k] /\ own[k] # Dot /\ Gone(i)' = g
          BY <1>3, <1>18, <1>a, <2>2, <3>1
        <4>2. k > g => k > h
          BY <1>6, <1>9, <4>1
        <4>3. k < g \/ k = g => k <= h
          <5>1. g = h + 1 => k # g
            BY <1>6, <1>9, <4>1
          <5> QED
            BY <1>6, <1>9, <4>1, <5>1
        <4> QED
          BY <1>25, <4>1, <4>2, <4>3
      <3>2. CASE i < n
        BY <1>1, <1>3, <1>5, <1>18, <2>2, <3>2 DEF WalkInv, Walk
      <3> QED
        BY <1>3, <3>1, <3>2
    <2> QED
      BY <1>14, <1>16, <1>19, <2>1, <2>2 DEF Walk
  <1>27. MadeOnce'
    <2> SUFFICES ASSUME NEW i \in 1 .. (m + 1), NEW j \in 1 .. (m + 1),
                        made'[i].dir = made'[j].dir
                 PROVE  i = j
      BY <1>13 DEF MadeOnce
    <2>1. \A k \in 1 .. m : made'[k].dir # d
      BY <1>8, <1>13 DEF Made
    <2>2. made'[m + 1].dir = d
      BY <1>12, <1>13
    <2>3. CASE i \in 1 .. m /\ j \in 1 .. m
      BY <1>1, <1>13, <2>3 DEF WalkInv, MadeOnce
    <2> QED
      BY <2>1, <2>2, <2>3
  <1>28. MadeInOrder'
    <2> SUFFICES ASSUME NEW i \in 1 .. (m + 1)
                 PROVE  {made'[j].dir : j \in 1 .. (i - 1)}
                            \cap (ToSet(made'[i].subdirs) \cup {made'[i].dir}) = ChildrenDue(made'[i])
      BY <1>13 DEF MadeInOrder
    <2>1. {made'[j].dir : j \in 1 .. (i - 1)} = {made[j].dir : j \in 1 .. (i - 1)}
      <3>1. \A j \in 1 .. (i - 1) : j \in 1 .. m
        OBVIOUS
      <3> QED
        BY <1>13, <3>1
    <2>2. CASE i \in 1 .. m
      BY <1>1, <1>13, <2>1, <2>2 DEF WalkInv, MadeInOrder
    <2>3. CASE i = m + 1
      <3>1. made'[i] = rec /\ i - 1 = m
        BY <1>13, <2>3
      <3>2. \A e : e \in {made[j].dir : j \in 1 .. m} <=> Made(e)
        BY <1>13 DEF Made
      <3>3. {made'[j].dir : j \in 1 .. (i - 1)} \cap (ToSet(own) \cup {d})
              = {e \in ToSet(own) : Made(e)}
        BY <1>8, <2>1, <3>1, <3>2
      <3>4. ~Made(Dot)
        <4>1. \A e \in Makes : e.dir \in Dirs
          BY DEF Makes
        <4> QED
          BY <1>1, <1>13, <4>1, ElementOfSeq, ConfigureAssumption DEF Made, Types
      <3>5. CASE g = h /\ g = l /\ Dot \notin ToSet(own)
        <4>1. ~Contains(own, Dot)
          BY <1>a, <3>5 DEF Contains, ToSet
        <4>2. \A k \in 1 .. l : own[k] # Dot /\ k <= h
          BY <1>a, <3>5 DEF ToSet
        <4>3. \A e \in ToSet(own) : Made(e)
          BY <1>25, <1>a, <4>2 DEF ToSet
        <4>4. ChildrenDue(rec) = ToSet(own)
          BY <1>12, <4>1 DEF ChildrenDue
        <4> QED
          BY <1>12, <3>1, <3>3, <4>3, <4>4
      <3>6. CASE g = h + 1 /\ own[g] = Dot
        <4>2. g \in DOMAIN own /\ own[g] = Dot /\ g - 1 = h
          <5>1. g \in 1 .. l /\ g - 1 = h
            BY <1>f, <1>g, <3>6
          <5> QED
            BY <1>a, <3>6, <5>1
        <4>3. ChildrenDue(rec) = {own[k] : k \in 1 .. h}
          BY <1>4, <1>6, <1>12, <4>2, DotPlace DEF ChildrenDue
        <4>4. \A k \in 1 .. h : own[k] \in ToSet(own) /\ Made(own[k])
          <5> SUFFICES ASSUME NEW k \in 1 .. h PROVE own[k] \in ToSet(own) /\ Made(own[k])
            OBVIOUS
          <5>1. k \in 1 .. l /\ k # g /\ k <= h
            BY <1>6, <3>6
          <5>2. own[k] # Dot
            BY <1>6, <1>a, <4>2, <5>1 DEF Once
          <5> QED
            BY <1>25, <1>a, <5>1, <5>2 DEF ToSet
        <4>5. ASSUME NEW e \in ToSet(own), Made(e) PROVE e \in {own[k] : k \in 1 .. h}
          <5>1. PICK k \in DOMAIN own : e = own[k]
            BY DEF ToSet
          <5>2. e # Dot /\ k # g
            BY <3>4, <4>2, <4>5, <5>1
          <5>3. e \in Dirs
            <6>1. e \in Sub
              BY <1>4, <1>a, <5>1, ElementOfSeq
            <6> QED
              BY <5>2, <6>1 DEF Sub
          <5>4. e \in Reached
            BY <4>5, <5>3 DEF Reached
          <5>5. ~(k > h)
            BY <1>25, <1>a, <5>1, <5>2, <5>4
          <5>6. k \in 1 .. h
            BY <1>6, <1>a, <5>1, <5>5
          <5> QED
            BY <5>1, <5>6
        <4> QED
          BY <1>12, <3>1, <3>3, <4>3, <4>4, <4>5
      <3> QED
        BY <1>9, <3>5, <3>6
    <2> QED
      BY <2>2, <2>3
  <1>29. ShadowsKept'
    <2> SUFFICES ASSUME NEW i \in 1 .. n, i # 1 PROVE Kept(i)'
      BY <1>16 DEF ShadowsKept
    <2>1. Kept(i)
      BY <1>1, <1>3 DEF ContextInv, ShadowsKept
    <2>2. shadow' = shadow
      OBVIOUS
    <2>3. /\ calls'[i].before = calls[i].before /\ calls'[i].subdirs = calls[i].subdirs
          /\ Now(i)'.inh = Now(i).inh
      BY <1>17, <1>18
    <2> QED
      BY <2>1, <2>2, <2>3 DEF Kept
  <1>30. SubdirsAgree'
    BY <1>1, <1>3, <1>5, <1>16, <1>18 DEF ContextInv, SubdirsAgree
  <1>31. ContextKept'
    <2> SUFFICES ASSUME NEW i \in 1 .. n, ~calls'[i].preorder,
                        NEW w \in DOMAIN (exports'[calls'[i].dir]) \cap Now(i)'.inh
                 PROVE  exports'[calls'[i].dir][w] = Expand(Now(i)'.var[w])
      BY <1>16 DEF ContextKept
    <2>1. i < n
      BY <1>3, <1>17
    <2> QED
      BY <1>1, <1>3, <1>5, <1>17, <1>18, <2>1 DEF ContextInv, ContextKept
  <1>32. BuildContextAgrees'
    <2> SUFFICES ASSUME NEW w \in DOMAIN exports[rec.dir] \cap rec.inh
                 PROVE  Expand(rec.var[w]) = exports[rec.dir][w]
      BY <1>1, <1>13 DEF ContextInv, BuildContextAgrees
    <2> QED
      BY <1>00, <1>1, <1>3, <1>5, <1>7, <1>12 DEF ContextInv, ContextKept
  <1>33. Filed'
    <2>1. ASSUME NEW a \in ToSet(made)
          PROVE  /\ a.dir \in DOMAIN targets'
                 /\ targets'[a.dir] = [subdirs |-> a.mksubdirs, stage |-> {a.dir},
                                       rule |-> {a.dir} \cup (ToSet(a.mksubdirs) \ {Dot})]
                 /\ \/ \A e \in ToSet(a.mksubdirs) \ {Dot} : Made(e)
                    \/ \E i \in 1 .. n : calls'[i].dir = a.dir /\ Own(i)' = a.mksubdirs
      <3>1. Made(a.dir)
        BY DEF ToSet, Made
      <3>2. a.dir # d
        BY <1>8, <3>1
      <3>3. /\ a.dir \in DOMAIN targets
            /\ targets[a.dir] = [subdirs |-> a.mksubdirs, stage |-> {a.dir},
                                 rule |-> {a.dir} \cup (ToSet(a.mksubdirs) \ {Dot})]
            /\ \/ \A e \in ToSet(a.mksubdirs) \ {Dot} : Made(e)
               \/ \E i \in 1 .. n : calls[i].dir = a.dir /\ Own(i) = a.mksubdirs
        BY <1>1, <1>3 DEF ContextInv, Filed
      <3>4. a.dir \in DOMAIN targets' /\ targets'[a.dir] = targets[a.dir]
        BY <1>10, <3>2, <3>3
      <3>5. \A i \in 1 .. n : calls'[i].dir = calls[i].dir /\ Own(i)' = Own(i)
        BY <1>17, <1>18
      <3> QED
        BY <3>3, <3>4, <3>5
    <2>2. /\ rec.dir \in DOMAIN targets'
          /\ targets'[rec.dir] = [subdirs |-> rec.mksubdirs, stage |-> {rec.dir},
                                  rule |-> {rec.dir} \cup (ToSet(rec.mksubdirs) \ {Dot})]
          /\ \E i \in 1 .. n : calls'[i].dir = rec.dir /\ Own(i)' = rec.mksubdirs
      <3>1. n \in 1 .. n
        BY <1>3
      <3>2. calls'[n].dir = rec.dir /\ Own(n)' = rec.mksubdirs
        BY <1>00, <1>3, <1>12, <1>17, <1>18, <3>1
      <3>3. \E i \in 1 .. n : calls'[i].dir = rec.dir /\ Own(i)' = rec.mksubdirs
        BY <3>1, <3>2
      <3> QED
        BY <1>10, <1>12, <3>3
    <2> QED
      BY <1>13, <1>14, <1>16, <2>1, <2>2 DEF Filed
  <1> QED
    BY <1>1, <1>20, <1>21, <1>22, <1>23, <1>24, <1>26, <1>27, <1>28, <1>29, <1>30, <1>31,
       <1>32, <1>33, ModulesStay
       DEF ConfigureInv, WalkInv, ContextInv

LEMMA PreorderKeeps ==
    ASSUME ConfigureInv, NEW set \in MakeSets, NEW v \in Vars, Preorder(set, v)
    PROVE  ConfigureInv'
  <1>1. WalkInv /\ Types /\ pc = "loop" /\ calls # <<>>
    BY DEF ConfigureInv, WalkInv, Stage, Preorder
  <1>2. Here = calls[Len(calls)] /\ Here.todo \in Seq(Sub)
    BY <1>1, TopCall, CallsTyped
  <1>3. calls' = [calls EXCEPT ![Len(calls)] = [Here EXCEPT !.todo = Tail(Here.todo), !.preorder = TRUE]]
    BY <1>2 DEF Preorder, DotDone
  <1>4. /\ Here.todo # <<>> /\ Head(Here.todo) = Dot /\ MakeDir(set, v)
        /\ UNCHANGED <<moduleVars, tree, pc, left, shadow, exports>>
    BY DEF Preorder
  <1>5. Tail(Here.todo) \in Seq(Sub)
    BY <1>2, <1>4, HeadTailProperties
  <1> QED
    BY <1>1, <1>3, <1>4, <1>5, MakingKeeps

LEMMA PostorderKeeps ==
    ASSUME ConfigureInv, NEW set \in MakeSets, NEW v \in Vars, Postorder(set, v)
    PROVE  ConfigureInv'
  <1>1. WalkInv /\ Types /\ pc = "loop" /\ calls # <<>>
    BY DEF ConfigureInv, WalkInv, Stage, Postorder
  <1>2. Here = calls[Len(calls)] /\ Here \in Calls
    BY <1>1, TopCall
  <1>3. /\ Here.todo = <<>> /\ ~Here.preorder /\ MakeDir(set, v)
        /\ calls' = [calls EXCEPT ![Len(calls)].preorder = TRUE]
        /\ UNCHANGED <<moduleVars, tree, pc, left, shadow, exports>>
    BY DEF Postorder
  <1>4. [Here EXCEPT !.preorder = TRUE] = [Here EXCEPT !.todo = <<>>, !.preorder = TRUE]
    BY <1>2, <1>3 DEF Calls
  <1>5. calls' = [calls EXCEPT ![Len(calls)] = [Here EXCEPT !.todo = <<>>, !.preorder = TRUE]]
    BY <1>2, <1>3, <1>4
  <1>6. <<>> \in Seq(Sub)
    BY EmptySeq
  <1> QED
    BY <1>1, <1>3, <1>5, <1>6, MakingKeeps

-----------------------------------------------------------------------------
(***************************************************************************)
(* Into a directory, and back                                              *)
(***************************************************************************)

LEMMA DescendKeeps == ConfigureInv /\ Descend => ConfigureInv'
  <1> SUFFICES ASSUME ConfigureInv, Descend PROVE ConfigureInv'
    OBVIOUS
  <1>1. WalkInv /\ ContextInv /\ ModulesInv /\ Types /\ Stage
    BY DEF ConfigureInv, WalkInv
  <1>2. PICK n : n = Len(calls)
    OBVIOUS
  <1>3. PICK d : d = Head(Here.todo)
    OBVIOUS
  <1>4. PICK rest : rest = Tail(Here.todo)
    OBVIOUS
  <1>5. PICK own : own = sh.subdirs
    OBVIOUS
  <1>6. PICK h : h = Gone(n)
    OBVIOUS
  <1>7. PICK depth : depth = n - 1
    OBVIOUS
  <1>8. /\ pc = "loop" /\ pc' = "enter" /\ Here.todo # <<>> /\ d # Dot
        /\ shadow' = [shadow EXCEPT ![Depth] = Inherited(sh, @)]
        /\ calls' = Append([calls EXCEPT ![n].todo = Tail(@)], Call(d))
        /\ sh' = [sh EXCEPT !.subdirs = <<>>]
        /\ UNCHANGED <<moduleVars, tree, left, exports, targets, made>>
    BY <1>2, <1>3 DEF Descend, Entered
  <1>9. calls # <<>>
    BY <1>1, <1>8 DEF Stage
  <1>10. /\ n \in Nat /\ n >= 1 /\ n \in DOMAIN calls /\ DOMAIN calls = 1 .. n
         /\ Here = calls[n] /\ Here \in Calls
         /\ Own(n) = own /\ Now(n) = sh /\ Depth = depth
    BY <1>1, <1>2, <1>5, <1>7, <1>9, TopCall
  <1>11. /\ h \in Nat /\ h + 1 \in DOMAIN own /\ own[h + 1] = d
         /\ d \in Sub /\ rest \in Seq(Sub)
         /\ Len(rest) = Len(own) - (h + 1)
         /\ \A k \in DOMAIN rest : rest[k] = own[(h + 1) + k]
    <2>1. /\ h \in Nat /\ h + 1 \in DOMAIN own /\ own[h + 1] = Head(Here.todo)
          /\ Head(Here.todo) \in Sub /\ Tail(Here.todo) \in Seq(Sub)
          /\ Len(Tail(Here.todo)) = Len(own) - (h + 1)
          /\ \A k \in DOMAIN Tail(Here.todo) : Tail(Here.todo)[k] = own[(h + 1) + k]
      BY <1>1, <1>2, <1>5, <1>6, <1>8, NextSubdir
    <2> QED
      BY <1>3, <1>4, <2>1
  <1>12. d \in Dirs /\ d # Root
    BY <1>8, <1>11 DEF Sub
  <1>13. PICK l \in Nat : l = Len(own) /\ DOMAIN own = 1 .. l
    BY <1>1, <1>10, CallsTyped
  <1>14. \A i \in 1 .. n : Configured(i)
    BY <1>8 DEF Configured
  <1>15. /\ Once(own) /\ ToSet(own) \subseteq ToSet(tree[calls[n].dir]) /\ d \in ToSet(own)
    <2>1. Once(own) /\ ToSet(own) \subseteq ToSet(tree[calls[n].dir])
      BY <1>1, <1>10, <1>14 DEF WalkInv, Todo
    <2>2. d \in ToSet(own)
      BY <1>11 DEF ToSet
    <2> QED
      BY <2>1, <2>2
  \* The directory is new.
  <1>16. h < h + 1
    BY <1>11
  <1>17. d \notin Reached
    BY <1>1, <1>6, <1>8, <1>10, <1>11, <1>14, <1>16 DEF WalkInv, Walk
  <1>18. ~Made(d) /\ \A i \in 1 .. n : calls[i].dir # d
    BY <1>10, <1>12, <1>17 DEF Reached
  <1> DEFINE call == [Here EXCEPT !.todo = rest]
             below == [calls EXCEPT ![n] = call]
             new == Call(d)
  <1>19. /\ call \in Calls /\ call.dir = Here.dir /\ call.todo = rest
         /\ call.preorder = Here.preorder
         /\ call.subdirs = Here.subdirs /\ call.before = Here.before
    BY <1>10, <1>11 DEF Calls
  <1>20. calls' = Append(below, new)
    BY <1>4, <1>8, <1>10
  <1> HIDE DEF call
  <1>21. /\ new \in Calls /\ new.dir = d /\ new.todo = <<>> /\ ~new.preorder
         /\ new.subdirs = own /\ new.before = sh
    BY <1>1, <1>5, <1>12, NewCall DEF Types
  <1> HIDE DEF new
  <1>22. /\ below \in Seq(Calls) /\ Len(below) = n
         /\ \A i \in 1 .. n : below[i] = IF i = n THEN call ELSE calls[i]
    BY <1>1, <1>2, <1>10, <1>19, ExceptSeq DEF Types
  <1> HIDE DEF below
  <1>23. /\ calls' \in Seq(Calls) /\ Len(calls') = n + 1 /\ calls' # <<>>
         /\ DOMAIN calls' = 1 .. (n + 1)
         /\ \A i \in 1 .. n : calls'[i] = IF i = n THEN call ELSE calls[i]
         /\ calls'[n + 1] = new
    <2>1. /\ calls' \in Seq(Calls) /\ calls' # <<>> /\ Len(calls') = n + 1
          /\ \A i \in 1 .. n : calls'[i] = below[i]
          /\ calls'[n + 1] = new
      BY <1>20, <1>21, <1>22, AppendProperties
    <2>2. DOMAIN calls' = 1 .. (n + 1)
      BY <2>1, LenProperties
    <2> QED
      BY <1>22, <2>1, <2>2
  <1>24. \A i \in 1 .. n : /\ calls'[i].dir = calls[i].dir
                           /\ calls'[i].preorder = calls[i].preorder
                           /\ calls'[i].subdirs = calls[i].subdirs
                           /\ calls'[i].before = calls[i].before
                           /\ i # n => calls'[i].todo = calls[i].todo
                           /\ i = n => calls'[i].todo = rest
    BY <1>10, <1>19, <1>23
  <1>25. \A i \in 1 .. (n + 1) : i \in 1 .. n \/ i = n + 1
    BY <1>10
  <1>26. \A i \in 1 .. n : i \in 1 .. (n + 1) /\ i + 1 \in 1 .. (n + 1) /\ i < n + 1 /\ i # n + 1
    BY <1>10
  <1>27. \A i \in 1 .. n : /\ Own(i)' = Own(i) /\ Now(i)' = Now(i)
                           /\ i < n => Gone(i)' = Gone(i)
                           /\ i = n => Gone(i)' = h + 1
                           /\ Configured(i)'
    <2> SUFFICES ASSUME NEW i \in 1 .. n
                 PROVE  /\ Own(i)' = Own(i) /\ Now(i)' = Now(i)
                        /\ i < n => Gone(i)' = Gone(i)
                        /\ i = n => Gone(i)' = h + 1
                        /\ Configured(i)'
      OBVIOUS
    <2>1. i < Len(calls')
      BY <1>23, <1>26
    <2>2. Own(i)' = calls'[i + 1].subdirs /\ Now(i)' = calls'[i + 1].before /\ Configured(i)'
      BY <2>1 DEF Own, Now, Configured
    <2>3. CASE i < n
      <3>1. i + 1 \in 1 .. n
        BY <1>10, <2>3
      <3>2. Own(i) = calls[i + 1].subdirs /\ Now(i) = calls[i + 1].before
        BY <1>2, <2>3 DEF Own, Now
      <3>3. Own(i)' = Own(i) /\ Now(i)' = Now(i)
        BY <1>24, <2>2, <3>1, <3>2
      <3>4. i # n
        BY <1>10, <2>3
      <3>5. Gone(i)' = Gone(i)
        BY <1>24, <3>3, <3>4 DEF Gone
      <3> QED
        BY <2>2, <3>3, <3>4, <3>5
    <2>4. CASE i = n
      <3>1. Own(i)' = own /\ Now(i)' = sh
        BY <1>21, <1>23, <2>2, <2>4
      <3>2. Gone(i)' = Len(own) - Len(rest)
        BY <1>24, <2>4, <3>1 DEF Gone
      <3>3. \A a, b, c \in Int : c = a - b => a - c = b
        OBVIOUS
      <3>4. l - Len(rest) = h + 1
        <4>1. Len(rest) = l - (h + 1) /\ h + 1 \in Int /\ l \in Int
          BY <1>11, <1>13
        <4> QED
          BY <4>1
      <3>5. Gone(i)' = h + 1 /\ ~(i < n)
        BY <1>10, <1>13, <2>4, <3>2, <3>4
      <3> QED
        BY <1>10, <2>2, <2>4, <3>1, <3>5
    <2> QED
      BY <1>10, <2>3, <2>4
  <1>28. /\ ~Configured(n + 1)' /\ Now(n + 1)' = sh' /\ sh'.inh = sh.inh
         /\ sh' \in Shells /\ sh'.stage = {} /\ sh'.subdirtargets = {}
    <2>1. ~(n + 1 < n + 1)
      BY <1>10
    <2>2. ~Configured(n + 1)' /\ Now(n + 1)' = sh'
      BY <1>8, <1>23, <2>1 DEF Configured, Now
    <2>3. <<>> \in Seq(Sub)
      BY EmptySeq
    <2>4. /\ sh'.inh = sh.inh
          /\ sh' \in Shells /\ sh'.stage = {} /\ sh'.subdirtargets = {}
      BY <1>1, <1>8, <2>3 DEF Types, Shells
    <2> QED
      BY <2>2, <2>4
  <1>29. \A e : Made(e)' <=> Made(e)
    BY <1>8 DEF Made
  <1>30. Reached' = Reached \cup {d} /\ Known' = Known
    <2>1. Reached' = Reached \cup {d}
      BY <1>10, <1>12, <1>21, <1>23, <1>24, <1>25, <1>26, <1>29 DEF Reached
    <2>2. Known' = Known
      BY <1>10, <1>14, <1>23, <1>24, <1>25, <1>26, <1>27, <1>28, <1>29 DEF Known
    <2> QED
      BY <2>1, <2>2
  \* The shadows of this depth.
  <1>31. /\ depth \in DOMAIN shadow
         /\ shadow' \in [0 .. Cardinality(Dirs) -> Shadows]
         /\ \A e : e # depth => shadow'[e] = shadow[e]
         /\ shadow'[depth].inh = sh.inh /\ shadow'[depth].exp = sh.exp
         /\ shadow'[depth].mksubdirs = sh.mksubdirs
         /\ \A v \in sh.inh : shadow'[depth].var[v] = Expand(sh.var[v])
    <2>1. n <= Cardinality(Dirs) /\ Cardinality(Dirs) \in Nat
      BY <1>1, <1>2, PathBounded DEF WalkInv
    <2>2. depth \in 0 .. Cardinality(Dirs)
      <3> DEFINE b == Cardinality(Dirs)
      <3>1. b \in Nat /\ n <= b
        BY <2>1
      <3> HIDE DEF b
      <3>2. depth \in 0 .. b
        BY <1>7, <1>10, <3>1
      <3> QED
        BY <3>2 DEF b
    <2>3. shadow \in [0 .. Cardinality(Dirs) -> Shadows] /\ sh \in Shells
      BY <1>1 DEF Types
    <2>4. shadow[depth] \in Shadows
      BY <2>2, <2>3
    <2> DEFINE kept == Inherited(sh, shadow[depth])
    <2>5. /\ kept \in Shadows /\ kept.inh = sh.inh /\ kept.exp = sh.exp
          /\ kept.mksubdirs = sh.mksubdirs
          /\ \A v \in sh.inh : kept.var[v] = Expand(sh.var[v])
      BY <2>3, <2>4, Inheriting
    <2>6. shadow' = [shadow EXCEPT ![depth] = kept]
      BY <1>8, <1>10
    <2> HIDE DEF kept
    <2> QED
      BY <2>2, <2>3, <2>5, <2>6
  <1>32. Types'
    BY <1>1, <1>8, <1>23, <1>28, <1>31 DEF Types
  <1>33. Stage'
    BY <1>8, <1>23 DEF Stage
  <1>34. Path'
    <2>1. ASSUME NEW i \in 1 .. (n + 1)
          PROVE  IF i = 1 THEN calls'[i].dir = Root
                 ELSE calls'[i].dir \in ToSet(tree[calls'[i - 1].dir])
      <3>1. CASE i \in 1 .. n
        <4>1. i # 1 => i - 1 \in 1 .. n
          BY <1>10, <3>1
        <4> QED
          BY <1>1, <1>10, <1>24, <3>1, <4>1 DEF WalkInv, Path
      <3>2. CASE i = n + 1
        <4>1. i # 1 /\ i - 1 = n /\ n \in 1 .. n
          BY <1>10, <3>2
        <4>2. calls'[i].dir = d /\ calls'[i - 1].dir = calls[n].dir
          BY <1>21, <1>23, <1>24, <3>2, <4>1
        <4> QED
          BY <1>15, <4>1, <4>2
      <3> QED
        BY <1>25, <3>1, <3>2
    <2>2. \A i, j \in 1 .. n : calls'[i].dir = calls'[j].dir => i = j
      BY <1>1, <1>10, <1>24 DEF WalkInv, Path
    <2>3. \A i \in 1 .. n : calls'[i].dir # calls'[n + 1].dir
      BY <1>18, <1>21, <1>23, <1>24
    <2>4. \A i, j \in 1 .. (n + 1) : calls'[i].dir = calls'[j].dir => i = j
      BY <1>25, <2>2, <2>3
    <2> QED
      BY <1>8, <1>23, <2>1, <2>4 DEF Path
  <1>35. Todo'
    <2> SUFFICES ASSUME NEW i \in 1 .. n
                 PROVE  /\ Once(Own(i)') /\ ToSet(Own(i)') \subseteq ToSet(tree[calls'[i].dir])
                        /\ Len(calls'[i].todo) <= Len(Own(i)')
                        /\ \A k \in DOMAIN calls'[i].todo : calls'[i].todo[k] = (Own(i)')[Gone(i)' + k]
                        /\ Gone(i)' >= 1 /\ (Own(i)')[Gone(i)'] = calls'[i + 1].dir
      BY <1>8, <1>23, <1>25, <1>28 DEF Todo
    <2>1. CASE i = n
      <3>1. Len(rest) <= Len(own) /\ h + 1 >= 1
        <4>1. Len(rest) = l - (h + 1) /\ h \in Nat
          BY <1>11, <1>13
        <4>2. l - (h + 1) <= l /\ h + 1 >= 1
          BY <4>1
        <4> QED
          BY <1>13, <4>1, <4>2
      <3>2. Own(i)' = own /\ Gone(i)' = h + 1 /\ calls'[i].todo = rest /\ calls'[i].dir = calls[n].dir
        BY <1>10, <1>24, <1>27, <2>1
      <3>3. calls'[i + 1].dir = d
        BY <1>21, <1>23, <2>1
      <3> QED
        BY <1>11, <1>15, <3>1, <3>2, <3>3
    <2>2. CASE i < n
      <3>1. i + 1 \in 1 .. n /\ i # n
        BY <1>10, <2>2
      <3>2. Own(i)' = Own(i) /\ Gone(i)' = Gone(i) /\ calls'[i].todo = calls[i].todo
            /\ calls'[i].dir = calls[i].dir /\ calls'[i + 1].dir = calls[i + 1].dir
        BY <1>24, <1>27, <2>2, <3>1
      <3> QED
        BY <1>1, <1>2, <1>10, <1>14, <2>2, <3>2 DEF WalkInv, Todo
    <2> QED
      BY <1>10, <2>1, <2>2
  <1>36. Preordered'
    <2>1. Dot \in ToSet(rest) <=> Dot \in ToSet(Here.todo)
      <3>1. Here.todo \in Seq(Sub)
        BY <1>1, <1>10, CallsTyped
      <3> QED
        BY <1>3, <1>4, <1>8, <3>1, HeadTailElements
    <2>2. ASSUME NEW i \in 1 .. n
          PROVE  /\ Made(calls[i].dir)' <=> calls'[i].preorder
                 /\ calls'[i].preorder => Dot \notin ToSet(calls'[i].todo)
                 /\ ~calls'[i].preorder /\ Dot \in ToSet(Own(i)') => Dot \in ToSet(calls'[i].todo)
      <3>1. Made(calls[i].dir)' <=> Made(calls[i].dir)
        BY <1>8, <1>24 DEF Made
      <3>2. Dot \in ToSet(calls'[i].todo) <=> Dot \in ToSet(calls[i].todo)
        BY <1>10, <1>24, <2>1
      <3> QED
        BY <1>1, <1>10, <1>14, <1>24, <1>27, <3>1, <3>2 DEF WalkInv, Preordered
    <2>3. ~Made(calls[n + 1].dir)' /\ ~calls'[n + 1].preorder
      BY <1>8, <1>18, <1>21, <1>23 DEF Made
    <2> QED
      BY <1>23, <1>25, <1>27, <1>28, <2>2, <2>3 DEF Preordered
  <1>37. Walk'
    <2>1. \A e \in Reached' \ {Root} : \E p \in Known' : e \in ToSet(tree'[p])
      <3>1. calls[n].dir \in Known /\ d \in ToSet(tree[calls[n].dir])
        <4>1. calls[n].dir \in Dirs
          BY <1>1, <1>10, CallsTyped
        <4> QED
          BY <1>10, <1>14, <1>15, <4>1 DEF Known
      <3> QED
        BY <1>1, <1>8, <1>30, <3>1 DEF WalkInv, Walk
    <2>2. ASSUME NEW i \in 1 .. n, NEW k \in DOMAIN (Own(i)'), (Own(i)')[k] # Dot
          PROVE  /\ k > Gone(i)' => (Own(i)')[k] \notin Reached'
                 /\ k < Gone(i)' => Made((Own(i)')[k])
      <3>1. CASE i = n
        <4>1. k \in 1 .. l /\ (Own(i)')[k] = own[k] /\ own[k] # Dot /\ Gone(i)' = h + 1
          BY <1>10, <1>13, <1>27, <2>2, <3>1
        <4>2. /\ k > h => own[k] \notin Reached
              /\ k < h \/ k = h => Made(own[k])
          BY <1>1, <1>2, <1>6, <1>10, <1>13, <1>14, <4>1 DEF WalkInv, Walk
        <4>3. k > h + 1 => own[k] # d
          <5>1. k > h + 1 => k # h + 1
            BY <1>11, <4>1
          <5> QED
            BY <1>11, <1>13, <1>15, <4>1, <5>1 DEF Once
        <4>4. (k > h + 1 => k > h) /\ (k < h + 1 => k < h \/ k = h)
          BY <1>11, <4>1
        <4> QED
          BY <1>30, <4>1, <4>2, <4>3, <4>4
      <3>2. CASE i < n
        <4>1. Own(i)' = Own(i) /\ Gone(i)' = Gone(i) /\ i # n
          BY <1>10, <1>27, <3>2
        <4>2. /\ k > Gone(i) => Own(i)[k] \notin Reached
              /\ k < Gone(i) => Made(Own(i)[k])
          BY <1>1, <1>10, <1>14, <2>2, <4>1 DEF WalkInv, Walk
        <4>3. Own(i)[k] # d
          <5>1. Own(i)[k] \in ToSet(tree[calls[i].dir])
            BY <1>1, <1>10, <1>14, <2>2, <4>1 DEF WalkInv, Todo, ToSet
          <5>2. d \in ToSet(tree[calls[n].dir]) /\ calls[i].dir # calls[n].dir
            BY <1>1, <1>10, <1>15, <4>1 DEF WalkInv, Path
          <5>3. calls[i].dir \in Dirs /\ calls[n].dir \in Dirs
            BY <1>1, <1>10, CallsTyped
          <5> QED
            BY <1>1, <2>2, <4>1, <5>1, <5>2, <5>3 DEF Types, IsTree
        <4> QED
          BY <1>30, <4>1, <4>2, <4>3
      <3> QED
        BY <1>10, <3>1, <3>2
    <2> QED
      BY <1>23, <1>25, <1>26, <1>28, <1>29, <2>1, <2>2 DEF Walk
  <1>38. MadeOnce' /\ MadeInOrder'
    BY <1>1, <1>8 DEF WalkInv, MadeOnce, MadeInOrder
  <1>39. ShadowsKept'
    <2>1. ASSUME NEW i \in 1 .. n, i # 1 PROVE Kept(i)'
      <3>1. Kept(i)
        BY <1>1, <1>10, <2>1 DEF ContextInv, ShadowsKept
      <3>2. i - 2 # depth
        BY <1>7, <1>10
      <3>3. /\ shadow'[i - 2] = shadow[i - 2] /\ Now(i)' = Now(i)
            /\ calls'[i].before = calls[i].before /\ calls'[i].subdirs = calls[i].subdirs
        BY <1>24, <1>27, <1>31, <3>2
      <3> QED
        BY <3>1, <3>3 DEF Kept
    <2>2. Kept(n + 1)'
      <3>1. (n + 1) - 2 = depth
        BY <1>7, <1>10
      <3>2. calls'[n + 1].before = sh /\ calls'[n + 1].subdirs = sh.subdirs
        BY <1>5, <1>21, <1>23
      <3> QED
        BY <1>28, <1>31, <3>1, <3>2 DEF Kept
    <2> QED
      BY <1>23, <1>25, <2>1, <2>2 DEF ShadowsKept
  <1>40. SubdirsAgree'
    BY <1>1, <1>10, <1>14, <1>23, <1>25, <1>27, <1>28 DEF ContextInv, SubdirsAgree
  <1>41. ContextKept'
    BY <1>1, <1>8, <1>10, <1>14, <1>23, <1>24, <1>25, <1>27, <1>28 DEF ContextInv, ContextKept
  <1>42. BuildContextAgrees'
    BY <1>1, <1>8 DEF ContextInv, BuildContextAgrees
  <1>43. Filed'
    <2> SUFFICES ASSUME NEW a \in ToSet(made), NEW i \in 1 .. n,
                        calls[i].dir = a.dir, Own(i) = a.mksubdirs
                 PROVE  \E j \in 1 .. (n + 1) : calls'[j].dir = a.dir /\ Own(j)' = a.mksubdirs
      BY <1>1, <1>8, <1>10, <1>23, <1>29 DEF ContextInv, Filed
    <2>1. calls'[i].dir = a.dir /\ Own(i)' = a.mksubdirs
      BY <1>24, <1>27
    <2> QED
      BY <1>26, <2>1
  <1> QED
    BY <1>1, <1>8, <1>32, <1>33, <1>34, <1>35, <1>36, <1>37, <1>38, <1>39, <1>40, <1>41,
       <1>42, <1>43, ModulesStay
       DEF ConfigureInv, WalkInv, ContextInv

\* What a directory leaves to its parent: Now is what the shell had when the
\* parent went into it, and what was inherited then is as it was.
LEMMA Ascending ==
    ASSUME ConfigureInv, Ascend, NEW n, n = Len(calls), NEW p, p = n - 1
    PROVE  /\ n \in Nat /\ p \in Nat /\ p >= 1 /\ p < n /\ DOMAIN calls = 1 .. n
           /\ calls' \in Seq(Calls) /\ Len(calls') = p /\ DOMAIN calls' = 1 .. p
           /\ \A i \in 1 .. p : calls'[i] = calls[i]
           /\ sh' \in Shells /\ sh'.stage = {} /\ sh'.subdirtargets = {}
           /\ Now(p) = calls[n].before /\ Own(p) = calls[n].subdirs
           /\ sh'.subdirs = Own(p) /\ sh'.mksubdirs = Now(p).mksubdirs
           /\ sh'.inh = Now(p).inh /\ sh'.exp = Now(p).exp
           /\ \A v \in Now(p).inh : Expand(sh'.var[v]) = Expand(Now(p).var[v])
  <1>1. WalkInv /\ ContextInv /\ Types /\ Stage
    BY DEF ConfigureInv, WalkInv
  <1>2. /\ pc = "loop" /\ Len(calls) > 1 /\ calls' = Front(calls)
        /\ sh' = [Disinherited(sh, shadow[Depth - 1]) EXCEPT !.subdirs = Here.subdirs]
    BY DEF Ascend
  <1>3. calls # <<>>
    BY <1>1, <1>2 DEF Stage
  <1>4. /\ n \in Nat /\ n \in DOMAIN calls /\ DOMAIN calls = 1 .. n
        /\ Here = calls[n] /\ Now(n) = sh /\ Depth = n - 1
    BY <1>1, <1>3, TopCall
  <1>5. n > 1
    BY <1>2
  <1>6. p \in Nat /\ p >= 1 /\ p < n /\ p + 1 = n /\ n # 1 /\ (n - 1) - 1 = n - 2
    BY <1>4, <1>5
  <1>7. /\ calls' \in Seq(Calls) /\ Len(calls') = p /\ DOMAIN calls' = 1 .. p
        /\ \A i \in 1 .. p : calls'[i] = calls[i]
    BY <1>1, <1>2, <1>3, FrontElements DEF Types
  <1>8. Now(p) = calls[n].before /\ Own(p) = calls[n].subdirs
    BY <1>6 DEF Now, Own
  <1>9. Kept(n)
    BY <1>1, <1>4, <1>6 DEF ContextInv, ShadowsKept
  <1>10. PICK old : old = shadow[n - 2]
    OBVIOUS
  <1>11. /\ old.inh = Now(p).inh /\ old.exp = Now(p).exp
         /\ old.mksubdirs = Now(p).mksubdirs
         /\ \A v \in Now(p).inh : old.var[v] = Expand(Now(p).var[v])
         /\ Now(p).inh \subseteq sh.inh
    BY <1>4, <1>8, <1>9, <1>10 DEF Kept
  <1>12. old \in Shadows
    <2> DEFINE b == Cardinality(Dirs)
    <2>1. n <= b /\ b \in Nat
      BY <1>1, PathBounded DEF WalkInv
    <2> HIDE DEF b
    <2>2. n - 2 \in 0 .. b
      BY <1>4, <1>5, <2>1
    <2> QED
      BY <1>1, <1>10, <2>2 DEF Types, b
  <1> DEFINE back == Disinherited(sh, old)
  <1>13. /\ back \in Shells /\ back.inh = old.inh /\ back.exp = old.exp
         /\ back.mksubdirs = old.mksubdirs
         /\ back.stage = {} /\ back.subdirtargets = {}
         /\ \A v \in sh.inh : back.var[v] = Expand(old.var[v])
    BY <1>1, <1>12, Disinheriting DEF Types
  <1>14. sh' = [back EXCEPT !.subdirs = Own(p)]
    BY <1>2, <1>4, <1>6, <1>8, <1>10
  <1> HIDE DEF back
  <1>15. Own(p) \in Seq(Sub)
    BY <1>1, <1>4, <1>8, CallsTyped
  <1>16. /\ sh' \in Shells /\ sh'.stage = {} /\ sh'.subdirtargets = {}
         /\ sh'.subdirs = Own(p) /\ sh'.mksubdirs = back.mksubdirs
         /\ sh'.inh = back.inh /\ sh'.exp = back.exp /\ sh'.var = back.var
    BY <1>13, <1>14, <1>15 DEF Shells
  <1>17. \A v \in Now(p).inh : Expand(sh'.var[v]) = Expand(Now(p).var[v])
    <2> SUFFICES ASSUME NEW v \in Now(p).inh
                 PROVE  Expand(sh'.var[v]) = Expand(Now(p).var[v])
      OBVIOUS
    <2>1. sh'.var[v] = Expand(Expand(Now(p).var[v]))
      BY <1>11, <1>13, <1>16
    <2> QED
      BY <2>1, Expanding
  <1> QED
    BY <1>4, <1>6, <1>7, <1>8, <1>11, <1>13, <1>16, <1>17

LEMMA AscendKeeps == ConfigureInv /\ Ascend => ConfigureInv'
  <1> SUFFICES ASSUME ConfigureInv, Ascend PROVE ConfigureInv'
    OBVIOUS
  <1>1. WalkInv /\ ContextInv /\ ModulesInv /\ Types /\ Stage
    BY DEF ConfigureInv, WalkInv
  <1>2. PICK n : n = Len(calls)
    OBVIOUS
  <1>3. PICK p : p = n - 1
    OBVIOUS
  <1>4. /\ n \in Nat /\ p \in Nat /\ p >= 1 /\ p < n /\ DOMAIN calls = 1 .. n
        /\ calls' \in Seq(Calls) /\ Len(calls') = p /\ DOMAIN calls' = 1 .. p
        /\ \A i \in 1 .. p : calls'[i] = calls[i]
        /\ sh' \in Shells /\ sh'.stage = {} /\ sh'.subdirtargets = {}
        /\ Now(p) = calls[n].before /\ Own(p) = calls[n].subdirs
        /\ sh'.subdirs = Own(p) /\ sh'.mksubdirs = Now(p).mksubdirs
        /\ sh'.inh = Now(p).inh /\ sh'.exp = Now(p).exp
        /\ \A v \in Now(p).inh : Expand(sh'.var[v]) = Expand(Now(p).var[v])
    BY <1>2, <1>3, Ascending
  <1>5. /\ pc = "loop" /\ pc' = "loop" /\ Here.todo = <<>> /\ Here.preorder
        /\ UNCHANGED <<moduleVars, tree, pc, left, shadow, exports, targets, made>>
    BY DEF Ascend
  <1>6. /\ \A i \in 1 .. n : i \in 1 .. p \/ i = n
        /\ \A i \in 1 .. p : i \in 1 .. n /\ i + 1 \in 1 .. n /\ i < n
        /\ p \in 1 .. p /\ n \in 1 .. n /\ p + 1 = n
    BY <1>3, <1>4
  <1>7. calls' # <<>> /\ calls # <<>>
    <2>1. calls # <<>>
      BY <1>1, <1>5 DEF Stage
    <2>2. calls' # <<>>
      BY <1>4, EmptySeq
    <2> QED
      BY <2>1, <2>2
  <1>8. Here = calls[n]
    BY <1>1, <1>2, <1>7, TopCall
  <1>9. \A i \in 1 .. n : Configured(i)
    BY <1>5 DEF Configured
  <1>10. \A i \in 1 .. p : /\ Own(i)' = Own(i) /\ Gone(i)' = Gone(i) /\ Configured(i)'
                           /\ Now(i)'.inh = Now(i).inh /\ Now(i)'.mksubdirs = Now(i).mksubdirs
                           /\ \A v \in Now(i).inh : Expand(Now(i)'.var[v]) = Expand(Now(i).var[v])
    <2> SUFFICES ASSUME NEW i \in 1 .. p
                 PROVE  /\ Own(i)' = Own(i) /\ Gone(i)' = Gone(i) /\ Configured(i)'
                        /\ Now(i)'.inh = Now(i).inh /\ Now(i)'.mksubdirs = Now(i).mksubdirs
                        /\ \A v \in Now(i).inh : Expand(Now(i)'.var[v]) = Expand(Now(i).var[v])
      OBVIOUS
    <2>1. Configured(i)'
      BY <1>5 DEF Configured
    <2>2. CASE i < p
      <3>1. i + 1 \in 1 .. p
        BY <1>4, <2>2
      <3>2. Own(i) = calls[i + 1].subdirs /\ Now(i) = calls[i + 1].before
        BY <1>2, <1>6 DEF Own, Now
      <3>3. Own(i)' = calls'[i + 1].subdirs /\ Now(i)' = calls'[i + 1].before
        BY <1>4, <2>2 DEF Own, Now
      <3>4. Own(i)' = Own(i) /\ Now(i)' = Now(i)
        BY <1>4, <3>1, <3>2, <3>3
      <3>5. Gone(i)' = Gone(i)
        BY <1>4, <3>4 DEF Gone
      <3> QED
        BY <2>1, <3>4, <3>5
    <2>3. CASE i = p
      <3>1. ~(p < p)
        BY <1>4
      <3>2. Own(p)' = sh'.subdirs /\ Now(p)' = sh'
        BY <1>4, <3>1 DEF Own, Now
      <3>3. Own(p)' = Own(p)
        BY <1>4, <3>2
      <3>4. Gone(p)' = Gone(p)
        BY <1>4, <1>6, <3>3 DEF Gone
      <3> QED
        BY <1>4, <2>1, <2>3, <3>2, <3>3, <3>4
    <2> QED
      BY <1>4, <2>2, <2>3
  <1>11. \A e : Made(e)' <=> Made(e)
    BY <1>5 DEF Made
  \* The directory left is made, and those below it are.
  <1>12. Made(calls[n].dir)
    BY <1>1, <1>4, <1>5, <1>6, <1>8 DEF WalkInv, Preordered
  <1>13. \A d \in ToSet(Own(n)) \ {Dot} : Made(d)
    BY <1>1, <1>2, <1>5, ChildrenMade
  <1>14. Reached' = Reached /\ Known' = Known
    <2>1. Reached' = Reached
      BY <1>4, <1>6, <1>11, <1>12 DEF Reached
    <2>2. Known' = Known
      BY <1>4, <1>6, <1>9, <1>10, <1>11, <1>12 DEF Known
    <2> QED
      BY <2>1, <2>2
  <1>15. Types'
    BY <1>1, <1>4, <1>5 DEF Types
  <1>16. Stage'
    BY <1>5, <1>7 DEF Stage
  <1>17. Path'
    <2>1. \A i \in 1 .. p : i # 1 => i - 1 \in 1 .. p
      BY <1>4
    <2> QED
      BY <1>1, <1>4, <1>5, <1>6, <2>1 DEF WalkInv, Path
  <1>18. Todo'
    <2> SUFFICES ASSUME NEW i \in 1 .. p
                 PROVE  /\ Once(Own(i)) /\ ToSet(Own(i)) \subseteq ToSet(tree[calls[i].dir])
                        /\ Len(calls[i].todo) <= Len(Own(i))
                        /\ \A k \in DOMAIN calls[i].todo : calls[i].todo[k] = Own(i)[Gone(i) + k]
                        /\ i < p => Gone(i) >= 1 /\ Own(i)[Gone(i)] = calls'[i + 1].dir
      BY <1>4, <1>5, <1>10 DEF Todo
    <2>1. i < p => i + 1 \in 1 .. p
      BY <1>4
    <2> QED
      BY <1>1, <1>2, <1>4, <1>6, <1>9, <2>1 DEF WalkInv, Todo
  <1>19. Preordered'
    <2> SUFFICES ASSUME NEW i \in 1 .. p
                 PROVE  /\ Made(calls[i].dir)' <=> calls[i].preorder
                        /\ calls[i].preorder => Dot \notin ToSet(calls[i].todo)
                        /\ ~calls[i].preorder /\ Dot \in ToSet(Own(i)) => Dot \in ToSet(calls[i].todo)
      BY <1>4, <1>10 DEF Preordered
    <2>1. Made(calls[i].dir)' <=> Made(calls[i].dir)
      BY <1>4, <1>5 DEF Made
    <2> QED
      BY <1>1, <1>4, <1>6, <1>9, <2>1 DEF WalkInv, Preordered
  <1>20. Walk'
    <2>1. \A e \in Reached' \ {Root} : \E q \in Known' : e \in ToSet(tree'[q])
      BY <1>1, <1>5, <1>14 DEF WalkInv, Walk
    <2>2. ASSUME NEW i \in 1 .. p, NEW k \in DOMAIN Own(i), Own(i)[k] # Dot
          PROVE  /\ k > Gone(i) => Own(i)[k] \notin Reached
                 /\ k < Gone(i) \/ (k = Gone(i) /\ i = p) => Made(Own(i)[k])
      <3>1. /\ k > Gone(i) => Own(i)[k] \notin Reached
            /\ k < Gone(i) => Made(Own(i)[k])
        BY <1>1, <1>4, <1>6, <1>9, <2>2 DEF WalkInv, Walk
      <3>2. Own(p)[Gone(p)] = calls[n].dir
        BY <1>1, <1>2, <1>4, <1>6, <1>9 DEF WalkInv, Todo
      <3> QED
        BY <1>12, <3>1, <3>2
    <2> QED
      BY <1>4, <1>10, <1>11, <1>14, <2>1, <2>2 DEF Walk
  <1>21. MadeOnce' /\ MadeInOrder'
    BY <1>1, <1>5 DEF WalkInv, MadeOnce, MadeInOrder
  <1>22. ShadowsKept'
    <2> SUFFICES ASSUME NEW i \in 1 .. p, i # 1 PROVE Kept(i)'
      BY <1>4 DEF ShadowsKept
    <2>1. Kept(i)
      BY <1>1, <1>4, <1>6 DEF ContextInv, ShadowsKept
    <2>2. shadow' = shadow /\ calls'[i] = calls[i] /\ Now(i)'.inh = Now(i).inh
      BY <1>4, <1>5, <1>10
    <2> QED
      BY <2>1, <2>2 DEF Kept
  <1>23. SubdirsAgree'
    BY <1>1, <1>4, <1>6, <1>9, <1>10 DEF ContextInv, SubdirsAgree
  <1>24. ContextKept'
    <2> SUFFICES ASSUME NEW i \in 1 .. p, ~calls[i].preorder,
                        NEW v \in DOMAIN (exports[calls[i].dir]) \cap Now(i).inh
                 PROVE  exports[calls[i].dir][v] = Expand(Now(i)'.var[v])
      BY <1>4, <1>5, <1>10 DEF ContextKept
    <2>1. exports[calls[i].dir][v] = Expand(Now(i).var[v])
      BY <1>1, <1>4, <1>6, <1>9 DEF ContextInv, ContextKept
    <2> QED
      BY <1>10, <2>1
  <1>25. BuildContextAgrees'
    BY <1>1, <1>5 DEF ContextInv, BuildContextAgrees
  <1>26. Filed'
    <2> SUFFICES ASSUME NEW a \in ToSet(made), NEW i \in 1 .. n,
                        calls[i].dir = a.dir, Own(i) = a.mksubdirs
                 PROVE  \/ \A d \in ToSet(a.mksubdirs) \ {Dot} : Made(d)
                        \/ \E j \in 1 .. p : calls'[j].dir = a.dir /\ Own(j)' = a.mksubdirs
      BY <1>1, <1>4, <1>5, <1>11 DEF ContextInv, Filed
    <2>1. CASE i \in 1 .. p
      BY <1>4, <1>10, <2>1
    <2>2. CASE i = n
      BY <1>13, <2>2
    <2> QED
      BY <1>6, <2>1, <2>2
  <1> QED
    BY <1>1, <1>5, <1>15, <1>16, <1>17, <1>18, <1>19, <1>20, <1>21, <1>22, <1>23, <1>24,
       <1>25, <1>26, ModulesStay
       DEF ConfigureInv, WalkInv, ContextInv

-----------------------------------------------------------------------------
(***************************************************************************)
(* The run of configure                                                    *)
(***************************************************************************)

\* Every step of configure keeps the invariant.
THEOREM NextConfigure == ConfigureInv /\ [Next \/ Ended]_vars => ConfigureInv'
  <1> SUFFICES ASSUME ConfigureInv, [Next \/ Ended]_vars PROVE ConfigureInv'
    OBVIOUS
  <1>1. CASE LoadModules \/ StartTree \/ LeaveTree \/ MakeModule
    BY <1>1, LoadModulesKeeps, StartTreeKeeps, LeaveTreeKeeps, MakeModuleKeeps
  <1>2. CASE Descend \/ Ascend
    BY <1>2, DescendKeeps, AscendKeeps
  <1>3. ASSUME NEW v \in Vars, NEW c \in ModuleCommands, ConfigureModule(c, v)
        PROVE  ConfigureInv'
    BY <1>3, ConfigureModuleKeeps
  <1>4. ASSUME NEW v \in Vars, NEW c \in DirCommands, NEW skip \in Skips,
               ConfigureDir(c, v, skip)
        PROVE  ConfigureInv'
    BY <1>4, ConfigureDirKeeps
  <1>5. ASSUME NEW v \in Vars, NEW set \in MakeSets, Preorder(set, v) \/ Postorder(set, v)
        PROVE  ConfigureInv'
    BY <1>5, PreorderKeeps, PostorderKeeps
  <1>6. CASE UNCHANGED vars
    <2>1. /\ UNCHANGED moduleVars
          /\ UNCHANGED <<tree, pc, left, calls, sh, shadow, exports, targets, made>>
      BY <1>6 DEF vars, dirVars
    <2>2. ModulesInv' /\ ModulesInv /\ WalkInv /\ ContextInv
      BY <2>1, ModulesStay DEF ConfigureInv
    <2>3. /\ \A i : Own(i)' = Own(i) /\ Now(i)' = Now(i) /\ Gone(i)' = Gone(i)
          /\ \A i : Configured(i)' <=> Configured(i)
          /\ \A e : Made(e)' <=> Made(e)
      BY <2>1 DEF Own, Now, Gone, Configured, Made
    <2>4. Reached' = Reached /\ Known' = Known
      BY <2>1, <2>3 DEF Reached, Known
    <2>5. Types' /\ Stage' /\ Path' /\ MadeOnce' /\ MadeInOrder'
      BY <2>1, <2>2, <2>3
         DEF WalkInv, Types, Stage, Path, MadeOnce, MadeInOrder
    <2>6. Todo'
      BY <2>1, <2>2, <2>3 DEF WalkInv, Todo
    <2>7. Preordered'
      <3>1. \A i : Made(calls[i].dir)' <=> Made(calls[i].dir)
        BY <2>1 DEF Made
      <3> QED
        BY <2>1, <2>2, <2>3, <3>1 DEF WalkInv, Preordered
    <2>8. Walk'
      BY <2>1, <2>2, <2>3, <2>4 DEF WalkInv, Walk
    <2>9. ShadowsKept' /\ SubdirsAgree' /\ ContextKept' /\ BuildContextAgrees' /\ Filed'
      BY <2>1, <2>2, <2>3
         DEF ContextInv, ShadowsKept, Kept, SubdirsAgree, ContextKept, BuildContextAgrees, Filed
    <2> QED
      BY <2>2, <2>5, <2>6, <2>7, <2>8, <2>9 DEF ConfigureInv, WalkInv, ContextInv
  <1> QED
    BY <1>1, <1>2, <1>3, <1>4, <1>5, <1>6 DEF Next, Ended

\* The walk is where the calls say, and keeps what they have to give back: the
\* invariant holds all through a run of configure.
THEOREM ConfigureInvariant == Spec => []ConfigureInv
  BY InitConfigure, NextConfigure, PTL DEF Spec

\* The values the variables of configure may have; no path of the tree is longer
\* than it has directories (_mk_process_build_recursive returns).
THEOREM ConfigureTypes == Spec => []TypeOK
  <1>1. ConfigureInv => TypeOK
    <2> SUFFICES ASSUME ConfigureInv PROVE TypeOK
      OBVIOUS
    <2>1. Types /\ Stage /\ Path /\ list \in Seq(Modules)
      BY DEF ConfigureInv, WalkInv, ModulesInv, Shape
    <2>2. Depth \in -1 .. Cardinality(Dirs)
      <3> DEFINE n == Len(calls)  b == Cardinality(Dirs)
      <3>1. n \in Nat /\ b \in Nat /\ n <= b
        BY <2>1, PathBounded
      <3> HIDE DEF n, b
      <3>2. n - 1 \in -1 .. b
        BY <3>1
      <3> QED
        BY <3>2 DEF Depth, n, b
    <2>3. sh.inh \subseteq Vars /\ sh.exp \subseteq Vars
      BY <2>1, ShellFields DEF Types
    <2>4. \A d \in DOMAIN exports : \A v \in DOMAIN exports[d] :
              v \in Vars /\ exports[d][v] \in Modules \cup Dirs \cup {Empty}
      <3>1. \A f \in Files : \A v \in DOMAIN f :
                v \in Vars /\ f[v] \in Modules \cup Dirs \cup {Empty}
        BY DEF Files
      <3>2. \A d \in DOMAIN exports : exports[d] \in Files
        BY <2>1 DEF Types
      <3> QED
        BY <3>1, <3>2
    <2>5. pc = "enter" => calls # <<>>
      BY <2>1 DEF Stage
    <2> QED
      BY <2>1, <2>2, <2>3, <2>4, <2>5 DEF TypeOK, Types
  <1> QED
    BY <1>1, ConfigureInvariant, PTL

\* make() of a directory runs once, where "." in SUBDIRS says, or after its
\* children (_mk_process_build_recursive).
THEOREM DirectoriesMadeInOrder == Spec => []MadeInOrder
  <1>1. ConfigureInv => MadeInOrder
    BY DEF ConfigureInv, WalkInv
  <1> QED
    BY <1>1, ConfigureInvariant, PTL

\* The actions of a directory see the exported and inherited variables as its
\* make() did (.MakeKitExports).
THEOREM ExportsAgree == Spec => []BuildContextAgrees
  <1>1. ConfigureInv => BuildContextAgrees
    BY DEF ConfigureInv, ContextInv
  <1> QED
    BY <1>1, ConfigureInvariant, PTL

\* In the end every directory that was not skipped is made, and its targets are
\* filed with the subdirectories configure() left it.
THEOREM AllTargetsFiled == Spec => []TargetsFiled
  <1>1. ConfigureInv => TargetsFiled
    <2> SUFFICES ASSUME ConfigureInv, pc = "end"
                 PROVE  /\ Made(Root)
                        /\ \A m \in ToSet(made) :
                              /\ \A d \in ToSet(m.mksubdirs) \ {Dot} : Made(d)
                              /\ targets[m.dir] =
                                    [subdirs |-> m.mksubdirs, stage |-> {m.dir},
                                     rule |-> {m.dir} \cup (ToSet(m.mksubdirs) \ {Dot})]
      BY DEF TargetsFiled
    <2>1. Made(Root) /\ DOMAIN calls = {}
      BY DEF ConfigureInv, WalkInv, Stage
    <2> QED
      BY <2>1 DEF ConfigureInv, ContextInv, Filed
  <1> QED
    BY <1>1, ConfigureInvariant, PTL

\* The modules are configured in an order in which each finds what it DEPENDS on.
THEOREM ConfigureModulesInOrder == Spec => []ModulesInOrder
  <1>1. ConfigureInv => ModulesInOrder
    BY DEF ConfigureInv, ModulesInv
  <1> QED
    BY <1>1, ConfigureInvariant, PTL

\* Nothing that the project or a module DEPENDS on is missing then.
THEOREM ConfigureModulesComplete == Spec => []ModulesComplete
  <1>1. ConfigureInv => ModulesComplete
    BY CompleteList DEF ConfigureInv
  <1> QED
    BY <1>1, ConfigureInvariant, PTL

\* Only the return from a directory takes a call away, and leaves one.
LEMMA LeavingAscends ==
    ASSUME ConfigureInv, [Next \/ Ended]_vars, Leaving
    PROVE  Ascend
  <1>1. Types /\ Types'
    BY NextConfigure DEF ConfigureInv, WalkInv
  <1>2. Len(calls) \in Nat /\ Len(calls') \in Nat
        /\ DOMAIN calls = 1 .. Len(calls) /\ DOMAIN calls' = 1 .. Len(calls')
    BY <1>1, LenProperties DEF Types
  <1>3. PICK n \in Nat : n = Len(calls) /\ DOMAIN calls = 1 .. n
    BY <1>2
  <1>4. PICK m \in Nat : m = Len(calls') /\ DOMAIN calls' = 1 .. m
    BY <1>2
  <1>5. n > 1 /\ m < n
    BY <1>3, <1>4 DEF Leaving
  <1>6. n \in 1 .. n /\ n \notin 1 .. m
    BY <1>5
  <1>7. DOMAIN calls' # DOMAIN calls
    BY <1>3, <1>4, <1>6
  <1>8. ~ UNCHANGED calls
    BY <1>7
  <1>9. ~(LoadModules \/ MakeModule \/ UNCHANGED vars)
    BY <1>8 DEF LoadModules, MakeModule, vars, dirVars
  <1>10. ~LeaveTree
    BY <1>3, <1>5 DEF LeaveTree
  <1>11. ~StartTree
    <2>1. StartTree => pc = "modules"
      BY DEF StartTree
    <2>2. calls # <<>>
      BY <1>3, <1>5
    <2> QED
      BY <2>1, <2>2 DEF ConfigureInv, WalkInv, Stage
  <1>12. ~Descend
    <2> SUFFICES ASSUME Descend PROVE FALSE
      OBVIOUS
    <2> DEFINE below == [calls EXCEPT ![Len(calls)].todo = Tail(@)]
    <2>1. \E new : calls' = Append(below, new)
      BY DEF Descend
    <2>2. PICK new : calls' = Append(below, new)
      BY <2>1
    <2>3. DOMAIN below = 1 .. n
      BY <1>3
    <2> HIDE DEF below
    <2>4. Len(below) = n
      BY <2>3
    <2>5. DOMAIN calls' = 1 .. (n + 1)
      BY <2>2, <2>4
    <2>6. n \in 1 .. (n + 1)
      BY <1>6
    <2> QED
      BY <1>4, <1>6, <2>5, <2>6
  <1>13. \A v \in Vars, c \in ModuleCommands : ~ConfigureModule(c, v)
    BY <1>8 DEF ConfigureModule
  <1>14. \A v \in Vars, c \in DirCommands, skip \in Skips : ~ConfigureDir(c, v, skip)
    <2> SUFFICES ASSUME NEW v \in Vars, NEW c \in DirCommands, NEW skip \in Skips,
                        ConfigureDir(c, v, skip)
                 PROVE  FALSE
      OBVIOUS
    <2>1. calls' = [calls EXCEPT ![Len(calls)].todo = Without(tree[Here.dir], skip)]
      BY DEF ConfigureDir
    <2> QED
      BY <1>7, <2>1
  <1>15. \A v \in Vars, set \in MakeSets : ~Preorder(set, v) /\ ~Postorder(set, v)
    BY <1>7 DEF Preorder, Postorder
  <1> QED
    BY <1>9, <1>10, <1>11, <1>12, <1>13, <1>14, <1>15 DEF Next, Ended

LEMMA Restoring ==
    ASSUME ConfigureInv, Ascend, NEW was, was = Here.before
    PROVE  /\ \A v \in was.inh : Expand(sh'.var[v]) = Expand(was.var[v])
           /\ sh'.inh = was.inh /\ sh'.exp = was.exp
           /\ sh'.subdirs = was.subdirs /\ sh'.mksubdirs = was.mksubdirs
  <1>1. PICK n : n = Len(calls)
    OBVIOUS
  <1>2. PICK p : p = n - 1
    OBVIOUS
  <1>3. /\ n \in Nat /\ p \in Nat /\ p >= 1 /\ p < n /\ DOMAIN calls = 1 .. n
        /\ calls' \in Seq(Calls) /\ Len(calls') = p /\ DOMAIN calls' = 1 .. p
        /\ \A i \in 1 .. p : calls'[i] = calls[i]
        /\ sh' \in Shells /\ sh'.stage = {} /\ sh'.subdirtargets = {}
        /\ Now(p) = calls[n].before /\ Own(p) = calls[n].subdirs
        /\ sh'.subdirs = Own(p) /\ sh'.mksubdirs = Now(p).mksubdirs
        /\ sh'.inh = Now(p).inh /\ sh'.exp = Now(p).exp
        /\ \A v \in Now(p).inh : Expand(sh'.var[v]) = Expand(Now(p).var[v])
    BY <1>1, <1>2, Ascending
  <1>4. was = Now(p)
    BY <1>1, <1>3 DEF Here
  <1>5. Own(p) = was.subdirs
    <2>1. n \in DOMAIN calls /\ n # 1
      BY <1>3
    <2>2. Kept(n)
      BY <2>1 DEF ConfigureInv, ContextInv, ShadowsKept
    <2> QED
      BY <1>1, <1>3, <2>2 DEF Kept, Here
  <1> QED
    BY <1>3, <1>4, <1>5

\* A directory leaves what its parent inherits as it was when it was entered,
\* whatever it and those below it do (_mk_push_inherited, _mk_pop_inherited).
THEOREM ParentUnchanged == Spec => InheritedRestored
  <1>1. ConfigureInv /\ [Next \/ Ended]_vars =>
            [Leaving =>
                LET was == Here.before
                IN  /\ \A v \in was.inh : Expand(sh'.var[v]) = Expand(was.var[v])
                    /\ sh'.inh = was.inh /\ sh'.exp = was.exp
                    /\ sh'.subdirs = was.subdirs /\ sh'.mksubdirs = was.mksubdirs]_vars
    BY LeavingAscends, Restoring
  <1> QED
    BY <1>1, ConfigureInvariant, PTL DEF Spec, InheritedRestored

=============================================================================
