-------------------------- MODULE MC_FeedPipeline ---------------------------
EXTENDS FeedPipeline, TLC

CONSTANTS u, v, f, w1, w2, r1, h1, h2

MCPairs == {<<u, f>>}
MCTwoFollowers == {<<u, f>>, <<v, f>>}
MCProcs == Workers \cup Readers
MCCaches == {subs, feed}
MCValues == (SUBSET Users) \cup SUBSET (Users \X (0..MaxWrites + 1))

\* Handlers are interchangeable, and so are updaters.
Symmetry == Permutations(Handlers) \cup Permutations(Workers)
=============================================================================
