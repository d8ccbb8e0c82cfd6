------------------------------ MODULE Ordering ------------------------------
(* Sets of positions in a sequence, in order. *)
EXTENDS Integers, FiniteSets

\* How many of the positions S are up to n.
CountTo(S, n) == Cardinality(S \cap (1 .. n))

\* The positions of a finite set S, in ascending order.
Ascending(S) == [k \in 1 .. Cardinality(S) |-> CHOOSE n \in S : CountTo(S, n) = k]
=============================================================================
