-------------------------- MODULE MC_FeedSubscriber -------------------------
EXTENDS FeedSubscriber, TLC

CONSTANTS u1, s1, s2, s3, c1, c2, c3

MCOwner == [s \in Sessions |-> u1]

Symmetry == Permutations(Sessions) \cup Permutations(Consumers)
=============================================================================
