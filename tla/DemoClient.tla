----------------------------- MODULE DemoClient -----------------------------
(***************************************************************************)
(* The demo client (social/cmd/client/main.go) against the API of the      *)
(* social service, while another user sends requests of his own.  The      *)
(* client registers two users, goes through the operations for both and    *)
(* stops at the first answer that is not a success; then it sends requests *)
(* that must all be refused.                                               *)
(***************************************************************************)
EXTENDS SocialApi, Sequences

CONSTANTS
    Demo, Other,   \* the two clients
    Targets,       \* bound: ids that the other user sends
    MaxOthers      \* bound: requests of the other user

ASSUME DemoAssumption ==
    /\ Demo # Other
    /\ Clients = {Demo, Other}
    /\ {0, 2 * MaxFeedLength} \subseteq Numbers /\ MaxFeedLength > 0
    /\ Targets \subseteq Ids /\ MaxOthers \in Nat
    /\ 1..(MaxOthers + 3) \subseteq Ids

OtherUser == 1  \* registered before the demo starts

VARIABLES
    step,     \* the step of the script that is next, or on its way
    known,    \* ids the client has learnt: its users "me" and "friend", and "post"
    tokens,   \* users it has a token of
    stopped,  \* it has given up
    excused,  \* history: a step met a replica that lags, or a fault
    passed,   \* history: steps of the second part that were answered 200
    others    \* requests the other user has sent

demoVars == <<step, known, tokens, stopped, excused, passed, others>>
vars == <<apiVars, demoVars>>

\* A step: an operation, whose token is sent and which id or password with it.
Do(op, by, id) == [op |-> op, by |-> by, id |-> id, form |-> ""]
With(password, id, op) == [op |-> op, by |-> "nobody", id |-> id, form |-> password]

UserSteps ==
    << With("right", "nobody", "PostUserRegister"), With("right", "me", "PostLogin"),
       Do("PostFeedPosted", "me", "nobody"), Do("GetUserGetId", "me", "me"),
       Do("GetUserMe", "me", "nobody"), Do("GetUserSearch", "me", "nobody") >>

FriendSteps ==
    << With("right", "nobody", "PostUserRegister"), Do("PutFriendSetUserId", "me", "friend"),
       With("right", "friend", "PostLogin") >>

PostSteps ==
    << Do("PostPostCreate", "friend", "nobody"), Do("PutPostUpdate", "friend", "post"),
       Do("GetPostGetId", "friend", "post"), Do("GetPostFeed", "me", "nobody"),
       Do("PutPostDeleteId", "friend", "post"), Do("PutFriendDeleteUserId", "me", "friend") >>

DialogSteps ==
    << Do("PostDialogUserIdSend", "me", "friend"), Do("PostDialogUserIdSend", "friend", "me"),
       Do("GetDialogUserIdList", "me", "friend"), Do("GetDialogUserIdList", "friend", "me") >>

\* "nobody" stands for an id that does not exist and for no token.
BadSteps ==
    << With("wrong", "me", "PostLogin"), Do("GetUserGetId", "me", "nobody"),
       Do("GetUserMe", "nobody", "nobody"), Do("GetUserSearch", "nobody", "nobody"),
       Do("PutFriendSetUserId", "me", "nobody"), Do("PutFriendDeleteUserId", "me", "nobody"),
       Do("PostPostCreate", "nobody", "nobody"), Do("PutPostUpdate", "me", "nobody"),
       Do("PutPostDeleteId", "me", "nobody"), Do("GetPostGetId", "me", "nobody"),
       Do("GetPostFeed", "nobody", "nobody"), Do("PostDialogUserIdSend", "nobody", "me"),
       Do("GetDialogUserIdList", "nobody", "friend") >>

GoodSteps == UserSteps \o FriendSteps \o PostSteps \o DialogSteps

Script == GoodSteps \o BadSteps

Names == {"me", "friend", "post", "nobody"}

TypeOK ==
    /\ ApiTypeOK
    /\ step \in 1..(Len(Script) + 1)
    /\ known \in [Names -> Ids \cup {Nobody}] /\ known["nobody"] = Nobody
    /\ tokens \subseteq Names
    /\ stopped \in BOOLEAN /\ excused \in BOOLEAN
    /\ passed \subseteq 1..Len(Script)
    /\ others \in 0..MaxOthers

Init ==
    /\ InitWith({OtherUser})
    /\ step = 1
    /\ known = [n \in Names |-> Nobody]
    /\ tokens = {}
    /\ stopped = FALSE /\ excused = FALSE
    /\ passed = {}
    /\ others = 0

(***************************************************************************)
(* The demo client.                                                        *)
(***************************************************************************)
Running == ~stopped /\ step <= Len(Script)

TokenOf(s) == IF s.by \in tokens THEN known[s.by] ELSE Nobody

\* What an operation needs is in the path, the body or the query.
ByPath(s) == [NoRequest EXCEPT !.op = s.op, !.token = TokenOf(s), !.id = known[s.id]]
ByBody(s) == [ByPath(s) EXCEPT !.form = s.form]
ByQuery(s) == [ByPath(s) EXCEPT !.limit = 2 * MaxFeedLength]

\* The feed is asked for as a whole.
RequestOf(s) ==
    CASE s.op \in OpenOps -> ByBody(s)
      [] s.op = "GetPostFeed" -> ByQuery(s)
      [] OTHER -> ByPath(s)

DemoSend ==
    /\ Running
    /\ Send(Demo, RequestOf(Script[step]))
    /\ UNCHANGED demoVars

\* What the client takes from a success.
Learn(s, value) ==
    /\ known' = CASE s.op = "PostUserRegister" /\ known["me"] = Nobody ->
                       [known EXCEPT !["me"] = value]
                  [] s.op = "PostUserRegister" /\ known["me"] # Nobody ->
                       [known EXCEPT !["friend"] = value]
                  [] s.op = "PostPostCreate" -> [known EXCEPT !["post"] = value]
                  [] OTHER -> known
    /\ tokens' = IF s.op = "PostLogin" THEN tokens \cup {s.id} ELSE tokens

\* The dialer takes 101 for success, the other calls 200.
Success(answer) == answer.status \in {101, 200}

\* A slip: a step that failed is tried again.
ReceiveOrRetry ==
    LET s == Script[step]
        answer == req[Demo]
    IN  /\ Running /\ Receive(Demo)
        /\ excused' = (excused \/ answer.doubt)
        /\ IF Success(answer)
           THEN Learn(s, answer.value) /\ step' = step + 1
           ELSE UNCHANGED <<known, tokens, step>>
        /\ UNCHANGED <<stopped, passed, others>>

\* The first part ends at a failure, the second goes on whatever comes.
DemoReceive ==
    LET s == Script[step]
        answer == req[Demo]
    IN  /\ Running /\ Receive(Demo)
        /\ excused' = (excused \/ answer.doubt)
        /\ IF step <= Len(GoodSteps)
           THEN /\ \/ Success(answer) /\ Learn(s, answer.value) /\ step' = step + 1
                         /\ UNCHANGED stopped
                   \/ ~Success(answer) /\ stopped' = TRUE
                         /\ UNCHANGED <<known, tokens, step>>
                /\ UNCHANGED passed
           ELSE /\ step' = step + 1
                /\ passed' = IF Success(answer) THEN passed \cup {step} ELSE passed
                /\ UNCHANGED <<known, tokens, stopped>>
        /\ UNCHANGED others

(***************************************************************************)
(* The other user, with his own token or none and any ids.                 *)
(***************************************************************************)
Blank == [NoRequest EXCEPT !.token = OtherUser]

OtherSend ==
    /\ others < MaxOthers /\ others' = others + 1
    /\ \/ \E op \in FriendOps \cup {"PutPostUpdate", "PutPostDeleteId"}, id \in Targets :
             Send(Other, [Blank EXCEPT !.op = op, !.id = id])
       \/ Send(Other, [Blank EXCEPT !.op = "PutFriendSetUserId", !.form = "unfit"])
       \/ \E op \in {"PostPostCreate", "CacheInvalidate"} : Send(Other, [Blank EXCEPT !.op = op])
       \/ \E op \in OpenOps, form \in Forms :
             Send(Other, [NoRequest EXCEPT !.op = op, !.id = OtherUser, !.form = form])
       \/ \E limit \in Numbers, offset \in Numbers :
             Send(Other, [Blank EXCEPT !.op = "GetPostFeed", !.limit = limit, !.offset = offset])
    /\ UNCHANGED <<step, known, tokens, stopped, excused, passed>>

OtherReceive == Receive(Other) /\ UNCHANGED demoVars

Server(c) == Serve(c) /\ UNCHANGED demoVars

Lose(c) == LoseReply(c) /\ UNCHANGED demoVars

Follow == Replicate /\ UNCHANGED demoVars

Next ==
    \/ DemoSend \/ DemoReceive \/ OtherSend \/ OtherReceive \/ Follow
    \/ \E c \in Clients : Server(c) \/ Lose(c)

Spec == Init /\ [][Next]_vars

\* The client reads and writes without a timeout; the server's goroutine runs.
FairSpec ==
    /\ Spec
    /\ WF_vars(DemoSend) /\ WF_vars(DemoReceive) /\ WF_vars(Server(Demo))

(***************************************************************************)
(* Properties.                                                             *)
(***************************************************************************)
\* The first part of the script fails only where a step read a replica that had
\* not caught up, or met a fault: never for what another user does at the same
\* time (main.go:43-177).
FailureIsExplained == stopped => excused

\* Every request of the second part is refused, whatever another user has done
\* before (main.go:191-228).
BadIsRefused == passed = {}

\* When the first part is over the client has taken back all that it did but
\* for the users and the dialog: the post and the friend are gone.
NothingLeft ==
    step > Len(UserSteps \o FriendSteps \o PostSteps) =>
        /\ \A p \in db.posts : p.owner \notin {known["me"], known["friend"]}
        /\ <<known["me"], known["friend"]>> \notin db.friends

\* The script ends, after its last step or at a failure.
ScriptEnds == <>(~Running)
==============================================================================
