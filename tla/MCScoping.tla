----------------------------- MODULE MCScoping ------------------------------
(***************************************************************************)
(* Scoping for TLC: the argument lists mk_push_vars is called with, a name *)
(* alone, a name with a value, and both; and a name given twice.           *)
(***************************************************************************)
EXTENDS Scoping, TLC

CONSTANTS x, y, a

Arg(n, v) == [name |-> n, init |-> v]
Distinct == {<<Arg(x, Unset)>>, <<Arg(y, a)>>, <<Arg(x, a), Arg(y, Unset)>>}
Twice == {<<Arg(x, Unset), Arg(x, Unset)>>}

=============================================================================
