------------------------------ MODULE Sorting -------------------------------
(* Python's sorted() and list.sort().  The sort is stable: what ties stays in the  *)
(* order of the input, which is that of the positions.                           *)
EXTENDS Integers, FiniteSets

\* the members of a finite set in the order of a relation, as a set of pairs
InOrder(S, before) ==
  CHOOSE s \in [1..Cardinality(S) -> S] :
    \A i, j \in 1..Cardinality(S) : i < j => <<s[i], s[j]>> \in before

\* positions by the key at each of them
Sorted(S, key) ==
  InOrder(S, {p \in S \X S : \/ key[p[1]] < key[p[2]]
                             \/ key[p[1]] = key[p[2]] /\ p[1] < p[2]})

\* numbers, the smallest first
Ascending(S) == Sorted(S, [n \in S |-> n])
=============================================================================
