----------------------------- MODULE LocalVars ------------------------------
(***************************************************************************)
(* The variables of mkdash and their localvar_stack (mkdash/var.c), with   *)
(* the builtin _mk_push_vars (mkdash/mkbltin.c) and the calls of           *)
(* pushlocalvars, poplocalvars and unwindlocalvars in evalcommand and      *)
(* evalfun (mkdash/eval.c).                                                *)
(*                                                                         *)
(* The state is a record vt: var, the variable table; lists, the           *)
(* localvar_stack, newest list first, each with its newest entry first;    *)
(* heap, the texts ("name=value") that ckmalloc handed out and ckfree did  *)
(* not get back.  A text is known by an address: its variable's name and a *)
(* number, the lowest free one.                                            *)
(* Readonly variables are not modelled.                                    *)
(***************************************************************************)
EXTENDS Integers, Sequences, SequencesExt, FiniteSetsExt

CONSTANTS Names, Values, Empty, Unset, MaxTexts

\* in: there is a struct var; val Unset: VUNSET; exp, fixed: VEXPORT and
\* VSTRFIXED; tfix: VTEXTFIXED or VSTACK; text: the address of its text.
NoVar == [in |-> FALSE, val |-> Unset, exp |-> FALSE, fixed |-> FALSE, tfix |-> FALSE, text |-> <<>>]
\* struct localvar; VUNSET alone when the variable was not in the table.
LocalVar(n, v) == [name |-> n, old |-> v]

\* A variable imported from the environment; its text is not on the heap.
Imported(v) == [in |-> TRUE, val |-> v, exp |-> TRUE, fixed |-> FALSE, tfix |-> TRUE, text |-> <<>>]

\* The table at start; f gives the environment.
FreshTable(f) == [var |-> [n \in Names |-> IF f[n] = Unset THEN NoVar ELSE Imported(f[n])],
                  lists |-> <<>>, heap |-> {}]

NewText(vt, n) == <<n, Min({k \in 1 .. MaxTexts : <<n, k>> \notin vt.heap})>>
Free(vt, t) == [vt EXCEPT !.heap = @ \ {t}]
Disown(vt, n) == IF vt.var[n].tfix THEN vt ELSE Free(vt, vt.var[n].text)

\* setvareq with a text of its own; strfixed and export are the flags given.
Setvareq(vt, n, v, strfixed, export) ==
    LET old  == vt.var[n]
        t    == NewText(vt, n)
        kept == IF old.in THEN Disown(vt, n) ELSE vt
    IN  IF v = Unset /\ ~strfixed /\ ~export /\ ~old.fixed
        THEN [kept EXCEPT !.var[n] = NoVar]
        ELSE [kept EXCEPT !.var[n] = [in |-> TRUE, val |-> v, exp |-> old.exp \/ export,
                                      fixed |-> old.fixed \/ strfixed, tfix |-> FALSE, text |-> t],
                          !.heap = @ \cup {t}]
Setvar(vt, n, v) == Setvareq(vt, n, v, FALSE, FALSE)

\* exportcmd.
Export(vt, n) == IF vt.var[n].in THEN [vt EXCEPT !.var[n].exp = TRUE]
                 ELSE Setvareq(vt, n, Unset, FALSE, TRUE)

Pushlocalvars(vt) == [vt EXCEPT !.lists = <<(<<>>)>> \o @]

\* Mutant of Mklocal: the variable is saved after it was set.
MklocalLate(vt, n, v) ==
    LET made == Setvareq(vt, n, v, TRUE, FALSE)
    IN  [made EXCEPT !.lists[1] = <<LocalVar(n, made.var[n])>> \o @]
\* mklocal(name), or mklocal("name=v").
Mklocal(vt, n, v) ==
    LET old  == vt.var[n]
        kept == IF old.in THEN [vt EXCEPT !.var[n].fixed = TRUE, !.var[n].tfix = TRUE] ELSE vt
        made == IF old.in THEN IF v = Unset THEN kept ELSE Setvareq(kept, n, v, FALSE, FALSE)
                ELSE Setvareq(vt, n, v, TRUE, FALSE)
    IN  [made EXCEPT !.lists[1] = <<LocalVar(n, old)>> \o @]

\* poplocalvars(1) for one entry: the value stays, the saved one is dropped.
KeepLocal(vt, lv) ==
    LET n    == lv.name
        same == lv.old.in /\ vt.var[n].text = lv.old.text
        v    == [vt.var[n] EXCEPT !.fixed = lv.old.fixed,
                                  !.tfix = IF same THEN lv.old.tfix ELSE @]
        kept == [IF lv.old.in /\ ~same /\ ~lv.old.tfix THEN Free(vt, lv.old.text) ELSE vt
                    EXCEPT !.var[n] = v]
    IN  IF v.val = Unset /\ ~v.exp /\ ~v.fixed THEN Setvar(kept, n, Unset) ELSE kept

\* Mutant of RestoreLocal: the text of the local value is not freed.
RestoreLocalLeaks(vt, lv) ==
    LET n == lv.name
    IN  IF ~lv.old.in THEN Setvar([vt EXCEPT !.var[n].fixed = FALSE], n, Unset)
        ELSE [vt EXCEPT !.var[n] = lv.old]
\* poplocalvars(0) for one entry: the saved value comes back.
RestoreLocal(vt, lv) ==
    LET n == lv.name
    IN  IF ~lv.old.in THEN Setvar([vt EXCEPT !.var[n].fixed = FALSE], n, Unset)
        ELSE [Disown(vt, n) EXCEPT !.var[n] = lv.old]

Poplocalvars(vt, keep) ==
    LET popped == [vt EXCEPT !.lists = Tail(@)]
    IN  IF keep THEN FoldLeft(KeepLocal, popped, Head(vt.lists))
        ELSE FoldLeft(RestoreLocal, popped, Head(vt.lists))

(***************************************************************************)
(* Commands                                                                *)
(***************************************************************************)

\* n=v alone: evalcommand makes n local to the command and keeps it.
Assign(vt, n, v) == Poplocalvars(Mklocal(Pushlocalvars(vt), n, v), TRUE)
\* n=v before a regular builtin or a program: unwindlocalvars restores n.
Prefixed(vt, n, v) == Poplocalvars(Mklocal(Pushlocalvars(vt), n, v), FALSE)
\* unset n.
Unsetvar(vt, n) == Setvar(vt, n, Unset)
\* evalfun, entering and leaving.
Evalfun(vt) == Pushlocalvars(vt)
EvalfunDone(vt) == Poplocalvars(vt, FALSE)

\* _mk_push_vars with one argument, init being Unset when there is no "=":
\* unlike "local", it does not leave the variable its value.
PushVar(vt, a) ==
    LET made == Mklocal(vt, a.name, a.init)
    IN  IF a.init = Unset THEN Setvar(made, a.name, Empty) ELSE made
\* The builtin, which as a special one works on the list of the function.
MkPushVars(vt, args) == FoldLeft(PushVar, vt, args)

=============================================================================
