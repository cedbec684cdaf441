----------------------------- MODULE ShadowVars -----------------------------
(***************************************************************************)
(* mk_push_vars and mk_pop_vars for any POSIX shell (mk/mk.sh): pushed     *)
(* variables are kept in shadow variables _MK_VAR_{SP}_{NAME}.             *)
(*                                                                         *)
(* The shell's variables are a record ps: env, the ordinary ones; sp, the  *)
(* variable _MK_VAR_SP; list, _MK_VARS; shadow[d][n] for the shadow of n   *)
(* at depth d, and lists[d] for the one of _MK_VARS.                       *)
(***************************************************************************)
EXTENDS Integers, Sequences, SequencesExt

CONSTANTS Names, Values, Empty, Unset, MaxDepth

\* "$n" in a shell.
Expand(x) == IF x = Unset THEN Empty ELSE x

NoShadows == [n \in Names |-> Unset]
\* The shell at start; f gives the environment.
FreshShell(f) == [env |-> f, sp |-> 0, list |-> <<>>,
               shadow |-> [d \in 0 .. MaxDepth |-> NoShadows],
               lists |-> [d \in 0 .. MaxDepth |-> <<>>]]

\* An argument of mk_push_vars: NAME=value, or NAME alone when init is Unset.
Arguments == [name : Names, init : Values \cup {Empty, Unset}]

\* The loop over the arguments: save one variable and set or unset it.
PushVar(ps, a) ==
    [ps EXCEPT !.shadow[ps.sp][a.name] = Expand(ps.env[a.name]),
               !.env[a.name] = a.init,
               !.list = Append(@, a.name)]
\* Mutant of MkPushVars: the names of the caller are not saved.
MkPushVarsNoList(ps, args) ==
    [FoldLeft(PushVar, [ps EXCEPT !.list = <<>>], args) EXCEPT !.sp = @ + 1]
MkPushVars(ps, args) ==
    [FoldLeft(PushVar, [ps EXCEPT !.lists[ps.sp] = ps.list, !.list = <<>>], args)
        EXCEPT !.sp = @ + 1]

\* Restore one variable from its shadow, which is unset (in the mutant: not).
PopVarKeeps(ps, n) == [ps EXCEPT !.env[n] = Expand(ps.shadow[ps.sp][n])]
PopVar(ps, n) ==
    [ps EXCEPT !.env[n] = Expand(ps.shadow[ps.sp][n]), !.shadow[ps.sp][n] = Unset]
MkPopVars(ps) ==
    LET top == [ps EXCEPT !.sp = @ - 1]
    IN  [FoldLeft(PopVar, top, ps.list)
            EXCEPT !.list = ps.lists[top.sp], !.lists[top.sp] = <<>>]

=============================================================================
