------------------------------- MODULE Ranking --------------------------------
(***************************************************************************)
(* Finite sets of numbers as sequences: ORDER BY and Array.filter.  A      *)
(* number's place is how many are below it, rather than its place in a     *)
(* sorted sequence, so that the order can be reasoned about.               *)
(***************************************************************************)
EXTENDS Naturals, FiniteSets

Below(S, x) == {y \in S : y < x}

(* The i-th smallest of S.                                                 *)
Nth(S, i) == CHOOSE x \in S : Cardinality(Below(S, x)) + 1 = i

Ascending(S) == [i \in 1..Cardinality(S) |-> Nth(S, i)]

Descending(S) == [i \in 1..Cardinality(S) |-> Nth(S, (Cardinality(S) + 1) - i)]

===============================================================================
