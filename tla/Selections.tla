------------------------------ MODULE Selections ------------------------------
(***************************************************************************)
(* [x for x in s if x in P], the filtering of Python's comprehensions, with *)
(* the test as a set.                                                      *)
(***************************************************************************)
EXTENDS Integers, Sequences, FiniteSets

Kept(s, P) == {i \in DOMAIN s : s[i] \in P}

Rank(i, places) == Cardinality({j \in places : j <= i})

Nth(places, n) == CHOOSE i \in places : Rank(i, places) = n

(* The elements of s that are in P, in their order. *)
Select(s, P) == [n \in 1..Cardinality(Kept(s, P)) |-> s[Nth(Kept(s, P), n)]]
=============================================================================
