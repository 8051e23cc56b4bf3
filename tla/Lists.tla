------------------------------- MODULE Lists -------------------------------
(* Choosing from a list: the places in a set, in their order. *)
EXTENDS Naturals, FiniteSets

Rank(i, keep) == Cardinality({k \in keep : k <= i})
Ordered(keep) == [n \in 1 .. Cardinality(keep) |-> CHOOSE i \in keep : Rank(i, keep) = n]

(* The entries of s at the places in keep. *)
Kept(s, keep) ==
    [n \in 1 .. Cardinality(keep) |-> s[CHOOSE i \in keep : Rank(i, keep) = n]]

=============================================================================
