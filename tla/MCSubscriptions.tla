-------------------------- MODULE MCSubscriptions --------------------------
EXTENDS Subscriptions, TLC

CONSTANTS s1, s2, w1, w2

\* Without keeps the order, as the loops of the code do.
ASSUME WithoutIsSelectSeq ==
  \A l \in SeqOf({1, 2, 3}, 4), S \in SUBSET {1, 2, 3} :
    Without(l, S) = SelectSeq(l, LAMBDA m : m \notin S)

MCSubs    == {s1, s2}
MCWorkers == {w1, w2}

\* Neither subscriptions nor workers are told apart but by what they do.
Symmetry == Permutations(MCSubs) \cup Permutations(MCWorkers)
=============================================================================
