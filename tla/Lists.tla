------------------------------- MODULE Lists --------------------------------
(***************************************************************************)
(* What the code does to lists in several places: take elements out.       *)
(***************************************************************************)
EXTENDS Naturals, Sequences, FiniteSets

\* The list without the elements that are in S; the others keep their order.
Without(list, S) ==
    LET keep   == {i \in DOMAIN list : list[i] \notin S}
        upTo(i) == {k \in keep : k <= i}
        nth(k) == CHOOSE i \in keep : Cardinality(upTo(i)) = k
    IN  [k \in 1 .. Cardinality(keep) |-> list[nth(k)]]

=============================================================================
