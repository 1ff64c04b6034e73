------------------------------- MODULE Sublist -------------------------------
(***************************************************************************)
(* What a loop that splices entries out of an array leaves in it.          *)
(***************************************************************************)
EXTENDS Naturals, Sequences, FiniteSets

\* How many of these places are not behind place i.
Rank(places, i) == Cardinality({j \in places : j <= i})

(* The entries of list at these places, in the order they have there. *)
Sublist(list, places) ==
  [k \in 1..Cardinality(places) |->
     list[CHOOSE i \in places : Rank(places, i) = k]]
=============================================================================
