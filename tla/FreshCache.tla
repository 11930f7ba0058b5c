----------------------------- MODULE FreshCache -----------------------------
(***************************************************************************)
(* What the service relies on a cache for, with no calls, locks or round   *)
(* trips: a key holds nothing or a version some copy of the database       *)
(* really had, and is filled from a copy with a version no older than that *)
(* copy had when the key was last filled.  The second half is what the     *)
(* lock buys; it is given up for the keys whose lock was lost while in     *)
(* use.  Nothing is said of how far one copy lags behind another.          *)
(***************************************************************************)
EXTENDS Naturals

CONSTANTS Keys, Copies, NoValue

VARIABLES
    store,   \* [Keys -> version or NoValue]
    copy,    \* [Copies -> [Keys -> version]]: what each copy of the database has
    had,     \* [Keys -> [Copies -> version]]: what it had at the last fill
    stolen   \* keys whose lock was lost while in use

freshVars == <<store, copy, had, stolen>>

Init ==
    /\ store = [k \in Keys |-> NoValue]
    /\ copy = [n \in Copies |-> [k \in Keys |-> 0]]
    /\ had = [k \in Keys |-> [n \in Copies |-> 0]]
    /\ stolen = {}

Advance(n, k) ==
    /\ copy' = [copy EXCEPT ![n][k] = @ + 1]
    /\ UNCHANGED <<store, had, stolen>>

\* k is filled with the version v, which the copy n has or has had.
Fill(k, n, v) ==
    /\ k \in stolen \/ had[k][n] <= v
    /\ store' = [store EXCEPT ![k] = v]
    /\ had' = [had EXCEPT ![k] = [m \in Copies |-> copy[m][k]]]
    /\ UNCHANGED <<copy, stolen>>

\* The keys of D lose their value, those of S their lock.
Lose(D, S) ==
    /\ store' = [k \in Keys |-> IF k \in D THEN NoValue ELSE store[k]]
    /\ stolen' = stolen \cup S
    /\ UNCHANGED <<copy, had>>

Next ==
    \/ \E n \in Copies, k \in Keys : Advance(n, k)
    \/ \E k \in Keys, n \in Copies : \E v \in 0..copy[n][k] : Fill(k, n, v)
    \/ \E D, S \in SUBSET Keys : Lose(D, S)

Spec == Init /\ [][Next]_freshVars
=============================================================================
