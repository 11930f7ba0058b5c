-------------------------- MODULE MC_CachedSource ---------------------------
(* Two callers of one key of one cache, over a master and two replicas. *)
EXTENDS CachedSource

CONSTANTS p1, p2, feed, u1, a, b

MCProcs == {p1, p2}
MCCaches == {feed}
MCIds == {u1}
MCValues == 0..MaxVersion
=============================================================================
