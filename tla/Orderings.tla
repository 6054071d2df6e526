------------------------------ MODULE Orderings ------------------------------
(***************************************************************************)
(* The sorted lists, and the comprehensions with a condition, that the     *)
(* code is full of.                                                        *)
(***************************************************************************)
EXTENDS Integers, FiniteSets

\* The k-th has k - 1 before it.
Sorted(S, Before(_, _)) ==
    [k \in 1 .. Cardinality(S) |->
        CHOOSE x \in S : Cardinality({y \in S : Before(y, x)}) = k - 1]

\* What a sequence holds at some places, in order.
Those(s, places) ==
    LET place == Sorted(places, <)
    IN  [k \in 1 .. Cardinality(places) |-> s[place[k]]]

=============================================================================
