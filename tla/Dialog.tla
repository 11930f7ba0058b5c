-------------------------------- MODULE Dialog --------------------------------
(***************************************************************************)
(* What the dialogs promise their users, whatever keeps the messages: a    *)
(* message answered with success is kept, what is kept stays, and a list   *)
(* shows, each once, messages that the same two users sent each other.     *)
(***************************************************************************)
EXTENDS Naturals, FiniteSets, Sequences

CONSTANTS Messages, Lists, Users

VARIABLES
    pair,     \* [requests -> the two users it is about, or {}]
    kept,     \* messages kept
    answer,   \* [requests -> "none", "ok" or "failed"]
    shown     \* [Lists -> the messages it was answered with]

Requests == Messages \cup Lists

Init ==
    /\ pair = [r \in Requests |-> {}]
    /\ kept = {}
    /\ answer = [r \in Requests |-> "none"]
    /\ shown = [l \in Lists |-> <<>>]

Ask(r) ==
    /\ pair[r] = {} /\ answer[r] = "none"
    /\ \E u, v \in Users : pair' = [pair EXCEPT ![r] = {u, v}]
    /\ UNCHANGED <<kept, answer, shown>>

Refuse(r) ==
    /\ pair[r] = {} /\ answer[r] = "none"
    /\ answer' = [answer EXCEPT ![r] = "failed"]
    /\ UNCHANGED <<pair, kept, shown>>

\* A message may be kept although its sender was told that it failed.
Keep(m) ==
    /\ pair[m] # {}
    /\ kept' = kept \cup {m}
    /\ UNCHANGED <<pair, answer, shown>>

Open(r) == pair[r] # {} /\ answer[r] = "none"

Accept(m) ==
    /\ Open(m) /\ m \in kept
    /\ answer' = [answer EXCEPT ![m] = "ok"]
    /\ UNCHANGED <<pair, kept, shown>>

Show(l) ==
    /\ Open(l)
    /\ answer' = [answer EXCEPT ![l] = "ok"]
    /\ \E S \in SUBSET {m \in kept : pair[m] = pair[l]} :
         \E s \in [1..Cardinality(S) -> S] :
            /\ S = {s[n] : n \in DOMAIN s}
            /\ shown' = [shown EXCEPT ![l] = s]
    /\ UNCHANGED <<pair, kept>>

\* Several at once, when what they share fails.
Fail(S) ==
    /\ \A r \in S : Open(r)
    /\ answer' = [r \in Requests |-> IF r \in S THEN "failed" ELSE answer[r]]
    /\ UNCHANGED <<pair, kept, shown>>

Next ==
    \/ \E r \in Requests : Ask(r) \/ Refuse(r)
    \/ \E S \in SUBSET Requests : Fail(S)
    \/ \E m \in Messages : Keep(m) \/ Accept(m)
    \/ \E l \in Lists : Show(l)

vars == <<pair, kept, answer, shown>>

Spec == Init /\ [][Next]_vars
==============================================================================
