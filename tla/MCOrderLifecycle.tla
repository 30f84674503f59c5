-------------------------- MODULE MCOrderLifecycle --------------------------
\* Instances of OrderLifecycle for TLC: two rows of one (symbol, side) pair
\* and, in the second wiring, a third row of another pair.
EXTENDS OrderLifecycle, TLC

CONSTANTS o1, o2, k1, k2

SamePair == o1 :> k1 @@ o2 :> k1
TwoPairs == o1 :> k1 @@ o2 :> k2
Symmetry == Permutations(Requests)
=============================================================================
