------------------------------ MODULE Modules -------------------------------
(***************************************************************************)
(* How configure orders the modules of a project (_mk_module_list and      *)
(* _mk_modules_rec in mk/command/configure.sh): a depth-first walk of the  *)
(* DEPENDS lists.  A frame is one call of _mk_modules_rec: the module it   *)
(* was made for ($1) and what is left of the loop over its arguments.      *)
(*                                                                         *)
(* The code does not notice a cycle: it recurses until the shell fails.    *)
(* So the graphs are acyclic: rank gives each module more than what it     *)
(* depends on.                                                             *)
(***************************************************************************)
EXTENDS Naturals, Sequences, SequencesExt

CONSTANTS
    Modules,
    Project,    \* stands for the project, which asks for the first modules
    Graphs      \* the DEPENDS of all modules, and MODULES as Project's

Nodes == Modules \cup {Project}
Ranked(g) == \E rank \in [Nodes -> 0 .. Cardinality(Modules)] :
                \A m \in Nodes : \A d \in ToSet(g[m]) : rank[d] < rank[m]

ASSUME ModulesAssumption ==
    /\ Project \notin Modules /\ IsFiniteSet(Modules)
    /\ Graphs \subseteq [Nodes -> Seq(Modules)]
    /\ \A g \in Graphs : Ranked(g)

VARIABLES
    depends,    \* the graph of this project
    list,       \* MK_MODULE_LIST
    frames      \* the open calls, innermost last

moduleVars == <<depends, list, frames>>

Frame(m, todo) == [mod |-> m, todo |-> todo]
Top == frames[Len(frames)]
Remaining == [frames EXCEPT ![Len(frames)].todo = Tail(@)]

ModulesInit ==
    /\ depends \in Graphs
    /\ list = <<>>
    /\ frames = <<Frame(Project, depends[Project])>>

\* The module is on the list already.
Skip ==
    /\ Top.todo # <<>> /\ Head(Top.todo) \in ToSet(list)
    /\ frames' = Remaining
    /\ UNCHANGED <<depends, list>>
\* Source it, and take its DEPENDS first.
Load ==
    /\ Top.todo # <<>> /\ Head(Top.todo) \notin ToSet(list)
    /\ frames' = Append(Remaining, Frame(Head(Top.todo), depends[Head(Top.todo)]))
    /\ UNCHANGED <<depends, list>>
\* Mutant of Loaded: __module, which the recursion has overwritten, for $1.
LoadedGlobal(m) == IF depends[m] = <<>> THEN m ELSE Last(depends[m])
\* What is appended when the call for the DEPENDS of m is back.
Loaded(m) == m
Done ==
    /\ Top.todo = <<>> /\ Len(frames) > 1
    /\ list' = Append(list, Loaded(Top.mod))
    /\ frames' = Front(frames)
    /\ UNCHANGED depends

AllLoaded == Len(frames) = 1 /\ Top.todo = <<>>

ModulesNext == Skip \/ Load \/ Done
ModulesSpec == ModulesInit /\ [][ModulesNext]_moduleVars

\* Modules are configured in the order of the list, and a module may use what
\* those it DEPENDS on have set up: each comes after them, and once.
ModulesInOrder ==
    /\ \A i, j \in DOMAIN list : list[i] = list[j] => i = j
    /\ \A i \in DOMAIN list : \A d \in ToSet(depends[list[i]]) :
          \E j \in DOMAIN list : j < i /\ list[j] = d

\* All that the project and its modules ask for is there in the end.
ModulesComplete ==
    AllLoaded => \A m \in ToSet(list) \cup {Project} : ToSet(depends[m]) \subseteq ToSet(list)

=============================================================================
