---------------------------- MODULE Registration ----------------------------
(***************************************************************************)
(* What the registration saga promises of a user, without services, queues *)
(* or failures: the row appears pending, the verifier gives at most one    *)
(* verdict, and the status becomes what that verdict says and stays so.    *)
(***************************************************************************)
EXTENDS Naturals

CONSTANTS Users, NoRow, NoVerdict

UserPendingVerification == 0
UserVerificationFailed == 10
UserVerificationSucceeded == 100

Verdicts == {"UserVerifiedEvent", "UserVerificationFailedEvent"}

StatusOf(type) ==
    IF type = "UserVerifiedEvent" THEN UserVerificationSucceeded
                                  ELSE UserVerificationFailed

VARIABLES
    status,   \* [Users -> user_status of the row, or NoRow]
    verdict   \* [Users -> the verifier's verdict, or NoVerdict]

vars == <<status, verdict>>

Init ==
    /\ status = [u \in Users |-> NoRow]
    /\ verdict = [u \in Users |-> NoVerdict]

Register(u) ==
    /\ status[u] = NoRow
    /\ status' = [status EXCEPT ![u] = UserPendingVerification]
    /\ UNCHANGED verdict

Judge(u) ==
    /\ status[u] = UserPendingVerification
    /\ verdict[u] = NoVerdict
    /\ \E type \in Verdicts : verdict' = [verdict EXCEPT ![u] = type]
    /\ UNCHANGED status

Settle(u) ==
    /\ status[u] = UserPendingVerification
    /\ verdict[u] \in Verdicts
    /\ status' = [status EXCEPT ![u] = StatusOf(verdict[u])]
    /\ UNCHANGED verdict

Next == \E u \in Users : Register(u) \/ Judge(u) \/ Settle(u)

Spec == Init /\ [][Next]_vars
=============================================================================
