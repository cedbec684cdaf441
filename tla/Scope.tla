------------------------------- MODULE Scope --------------------------------
(***************************************************************************)
(* What mk_push_vars and mk_pop_vars promise (mk/mk.sh): variables that    *)
(* are local to a call.  Reading a variable that is not set gives Empty.   *)
(***************************************************************************)
EXTENDS Integers, Sequences

CONSTANTS Names, Values, Empty

VARIABLES
    val,    \* the value a reader sees, per name
    saved   \* per open call, the callers' values of the names local to it

Contents == Values \cup {Empty}

Init == val = [n \in Names |-> Empty] /\ saved = <<>>

\* f gives the names that become local, and their first values.
Declared(f) == [n \in Names |-> IF n \in DOMAIN f THEN f[n] ELSE val[n]]
Set(n, v) == val' = [val EXCEPT ![n] = v] /\ UNCHANGED saved
Open(f) ==
    /\ saved' = Append(saved, [n \in DOMAIN f |-> val[n]])
    /\ val' = Declared(f)
Close ==
    /\ saved # <<>>
    /\ LET old == saved[Len(saved)]
       IN  val' = [n \in Names |-> IF n \in DOMAIN old THEN old[n] ELSE val[n]]
    /\ saved' = SubSeq(saved, 1, Len(saved) - 1)

Locals == UNION {[S -> Contents] : S \in SUBSET Names}
Next ==
    \/ \E n \in Names, v \in Contents : Set(n, v)
    \/ \E f \in Locals : Open(f)
    \/ Close
Spec == Init /\ [][Next]_<<val, saved>>

=============================================================================
