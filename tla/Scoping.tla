------------------------------ MODULE Scoping -------------------------------
(***************************************************************************)
(* One MakeKit script run by two shells in lockstep: a POSIX shell, where  *)
(* mk_push_vars and mk_pop_vars are the functions of mk.sh (ShadowVars),   *)
(* and mkdash, where they are aliases of the builtin _mk_push_vars and of  *)
(* ":" (LocalVars).  Both have to be Scope.                                *)
(*                                                                         *)
(* A function uses mk_push_vars at most once, and mk_pop_vars last, as     *)
(* mk.sh asks of it.                                                       *)
(***************************************************************************)
EXTENDS Integers, Sequences, SequencesExt, FiniteSetsExt

CONSTANTS
    Names, Values, Empty, Unset,
    MaxDepth,     \* bound: open function calls
    MaxTexts,     \* bound: texts on mkdash's heap
    ArgLists      \* the argument lists mk_push_vars is called with

ASSUME ScopingAssumption ==
    /\ Empty \notin Values /\ Unset \notin Values \cup {Empty}
    /\ MaxDepth \in Nat /\ MaxTexts \in Nat
    /\ ArgLists \subseteq Seq([name : Names, init : Values \cup {Empty, Unset}])

VARIABLES
    ps,      \* the POSIX shell
    vt,      \* mkdash
    calls    \* the open calls: TRUE once the function has pushed variables

vars == <<ps, vt, calls>>

S == INSTANCE ShadowVars
L == INSTANCE LocalVars

Init ==
    /\ \E f \in [Names -> Values \cup {Unset}] : ps = S!FreshShell(f) /\ vt = L!FreshTable(f)
    /\ calls = <<>>

Assign(n, v) ==
    /\ ps' = [ps EXCEPT !.env[n] = v]
    /\ vt' = L!Assign(vt, n, v)
    /\ UNCHANGED calls
UnsetVar(n) ==
    /\ ps' = [ps EXCEPT !.env[n] = Unset]
    /\ vt' = L!Unsetvar(vt, n)
    /\ UNCHANGED calls
Export(n) == vt' = L!Export(vt, n) /\ UNCHANGED <<ps, calls>>
Prefixed(n, v) == vt' = L!Prefixed(vt, n, v) /\ UNCHANGED <<ps, calls>>
Call ==
    /\ Len(calls) < MaxDepth
    /\ calls' = Append(calls, FALSE)
    /\ vt' = L!Evalfun(vt)
    /\ UNCHANGED ps
Push(args) ==
    /\ calls # <<>> /\ ~Last(calls)
    /\ calls' = Append(Front(calls), TRUE)
    /\ ps' = S!MkPushVars(ps, args)
    /\ vt' = L!MkPushVars(vt, args)
Return ==
    /\ calls # <<>>
    /\ calls' = Front(calls)
    /\ ps' = IF Last(calls) THEN S!MkPopVars(ps) ELSE ps
    /\ vt' = L!EvalfunDone(vt)

Next ==
    \/ \E n \in Names :
          UnsetVar(n) \/ Export(n) \/ \E v \in Values : Assign(n, v) \/ Prefixed(n, v)
    \/ Call \/ Return \/ \E args \in ArgLists : Push(args)
Spec == Init /\ [][Next]_vars

(***************************************************************************)
(* The mappings to Scope                                                   *)
(***************************************************************************)

ShadowVal == [n \in Names |-> S!Expand(ps.env[n])]
LocalVal  == [n \in Names |-> S!Expand(vt.var[n].val)]

\* The shadows of depth d - 1, for the names pushed there.
ShadowNames(d) == ToSet(IF d = ps.sp THEN ps.list ELSE ps.lists[d])
ShadowSaved == [d \in 1 .. ps.sp |-> [n \in ShadowNames(d) |-> ps.shadow[d - 1][n]]]

\* The first of a list's entries for a variable has the caller's value.
Entry(list, n) == list[SelectLastInSeq(list, LAMBDA e : e.name = n)]
ListSaved(list) == [n \in {list[i].name : i \in DOMAIN list} |-> S!Expand(Entry(list, n).old.val)]
LocalSaved ==
    LET pushed == {i \in DOMAIN calls : calls[i]}
        nth(k) == CHOOSE i \in pushed : Cardinality({j \in pushed : j < i}) = k - 1
    IN  [k \in 1 .. Cardinality(pushed) |-> ListSaved(vt.lists[Len(calls) + 1 - nth(k)])]

Shadow == INSTANCE Scope WITH val <- ShadowVal, saved <- ShadowSaved
Local  == INSTANCE Scope WITH val <- LocalVal, saved <- LocalSaved

(***************************************************************************)
(* Properties                                                              *)
(***************************************************************************)

\* The functions of mk.sh implement scopes: whatever calls, assignments and
\* unsets a function makes, its caller finds its own values again.
ShadowIsScope == [][Shadow!Next]_<<ShadowVal, ShadowSaved>>

\* So do mkdash's local variables, where pop is the return of the function.
LocalIsScope == [][Local!Next]_<<LocalVal, LocalSaved>>

\* Every text of mkdash's variables that is on the heap belongs to exactly one
\* variable or saved value, and nothing else is on the heap: no text is freed
\* while in use, freed twice or lost (setvareq, mklocal, poplocalvars).
Saves == UNION {{i} \X DOMAIN vt.lists[i] : i \in DOMAIN vt.lists}
SavedVar(k) == vt.lists[k[1]][k[2]].old
OwningSaves == {k \in Saves : SavedVar(k).in /\ ~SavedVar(k).tfix}
OwningVars == {n \in Names : vt.var[n].in /\ ~vt.var[n].tfix}
TextsOwned ==
    /\ vt.heap = {vt.var[n].text : n \in OwningVars} \cup {SavedVar(k).text : k \in OwningSaves}
    /\ Cardinality(vt.heap) = Cardinality(OwningVars) + Cardinality(OwningSaves)

\* Outside of functions nothing is left of them: no shadow variable, no list,
\* and no variable that unset could not remove (VSTRFIXED).
NothingLeft ==
    calls = <<>> =>
        /\ ps.sp = 0 /\ ps.list = <<>>
        /\ \A d \in 0 .. MaxDepth, n \in Names : ps.shadow[d][n] = Unset
        /\ vt.lists = <<>>
        /\ \A n \in Names : ~vt.var[n].fixed /\ (vt.var[n].in /\ vt.var[n].val = Unset => vt.var[n].exp)

\* The same promise when a variable is named twice, as mk_chain_autotools does
\* with NAME.  mk.sh says of mk_push_vars: "Saves each variable in vars to a
\* safe location"; here the second shadow overwrites the first, and the
\* caller's value is lost.
CallerRestored == ShadowIsScope

=============================================================================
