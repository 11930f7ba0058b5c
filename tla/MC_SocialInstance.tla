-------------------------- MODULE MC_SocialInstance --------------------------
\* Two instances, two requests.
EXTENDS SocialInstance, TLC
CONSTANTS i1, i2, c1, c2
Symmetry == Permutations({i1, i2}) \cup Permutations({c1, c2})
==============================================================================
