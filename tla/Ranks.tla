-------------------------------- MODULE Ranks --------------------------------
(* The n-th element of a finite set of numbers, in ascending order.  *)
EXTENDS Naturals, FiniteSets

\* How many elements of K are not above k.
UpTo(K, k) == Cardinality({j \in K : j <= k})

Nth(K, n) == CHOOSE k \in K : UpTo(K, k) = n
=============================================================================
