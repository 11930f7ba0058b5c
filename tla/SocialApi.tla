------------------------------ MODULE SocialApi ------------------------------
(***************************************************************************)
(* The HTTP API of the social service: a request passes the middlewares,   *)
(* the validator and the generated wrapper (main.go, server.gen.go), its   *)
(* handler (server.go) runs one statement on Postgres through a service    *)
(* and a storage, and the response goes out.  Writes go to the master,     *)
(* reads to a replica that follows when it can.                            *)
(*                                                                         *)
(* The caches, queues and dialogs behind some operations are in modules of *)
(* their own; here they only succeed or fail.  Tokens carry a user id,     *)
(* never expire and cannot be made up, so a token is its user.             *)
(***************************************************************************)
EXTENDS Integers, FiniteSets

CONSTANTS
    Clients,
    Ids,            \* ids of users and of posts
    Numbers,        \* bound: values of limit and offset, which are floats, in halves
    MaxFeedLength,  \* cache.maxSize of the configuration
    MaxInt,         \* the greatest int
    MaxFaults       \* bound: failed statements and lost responses

Nobody == 0         \* no token, and the id of nothing

ASSUME ApiAssumption ==
    /\ Ids \subseteq Nat \ {Nobody}
    /\ Numbers \subseteq Int /\ 0 \in Numbers
    /\ MaxInt \in Nat /\ MaxFeedLength \in Nat /\ MaxFeedLength < MaxInt
    /\ MaxFaults \in Nat

DialogOps == {"GetDialogUserIdList", "PostDialogUserIdSend"}
FriendOps == {"PutFriendDeleteUserId", "PutFriendSetUserId"}
PostOps == {"PostPostCreate", "PutPostDeleteId", "GetPostFeed", "GetPostGetId",
            "PutPostUpdate"}
UserOps == {"GetUserGetId", "GetUserMe", "GetUserSearch"}
OpenOps == {"PostLogin", "PostUserRegister"}
ManualOps == {"PostFeedPosted", "CacheInvalidate"}
Operations == DialogOps \cup FriendOps \cup PostOps \cup UserOps \cup OpenOps
                 \cup ManualOps

\* What matters of a body: unreadable, which password is in it, or that a value
\* does not fit its column (missing where it must not be, or too long; the id in
\* the path of PutFriendSetUserId too).
Forms == {"", "broken", "right", "wrong", "long", "none", "unfit"}

Request == [op : Operations, token : Ids \cup {Nobody}, id : Ids \cup {Nobody},
            form : Forms, limit : Numbers, offset : Numbers]

Post == [id : Ids, owner : Ids, text : {"new", "edited"}]
Database == [users : SUBSET Ids, friends : SUBSET (Ids \X Ids),
             posts : SUBSET Post, made : Nat]

VARIABLES
    db,       \* the master
    replica,  \* what the replica has of it
    req,      \* [Clients -> the request in flight and its answer]
    faults

apiVars == <<db, replica, req, faults>>

\* The connection is closed without a response.
Closed == 0

\* The statuses that the generated responses of each operation can write, but
\* for 503, which no handler answers.
DialogResponses ==
    [GetDialogUserIdList |-> {200, 400, 401, 500}, PostDialogUserIdSend |-> {200, 400, 401, 404, 500}]
FriendResponses ==
    [PutFriendDeleteUserId |-> {200, 400, 401, 404, 500}, PutFriendSetUserId |-> {200, 400, 401, 404, 500}]
LoginResponses == [PostLogin |-> {200, 400, 404, 500}]
PostWriteResponses ==
    [PostPostCreate |-> {200, 400, 401, 404, 500}, PutPostDeleteId |-> {200, 400, 401, 404, 500}]
PostReadResponses ==
    [GetPostFeed |-> {200, 400, 401, 500}, GetPostGetId |-> {200, 400, 401, 404, 500}]
PostUpdateResponses == [PutPostUpdate |-> {200, 400, 401, 404, 500}]
UserResponses ==
    [GetUserGetId |-> {200, 400, 401, 404, 500}, GetUserMe |-> {200, 400, 401, 404, 500}]
RegisterResponses == [PostUserRegister |-> {200, 400, 500}]
SearchResponses == [GetUserSearch |-> {200, 400, 401, 500}]
ManualResponses ==
    [PostFeedPosted |-> {101, 400, 401, 500}, CacheInvalidate |-> {200, 500}]

Declared(op) ==
    {Closed} \cup
       CASE op \in DOMAIN DialogResponses -> DialogResponses[op]
         [] op \in DOMAIN FriendResponses -> FriendResponses[op]
         [] op \in DOMAIN LoginResponses -> LoginResponses[op]
         [] op \in DOMAIN PostWriteResponses -> PostWriteResponses[op]
         [] op \in DOMAIN PostReadResponses -> PostReadResponses[op]
         [] op \in DOMAIN PostUpdateResponses -> PostUpdateResponses[op]
         [] op \in DOMAIN UserResponses -> UserResponses[op]
         [] op \in DOMAIN RegisterResponses -> RegisterResponses[op]
         [] op \in DOMAIN SearchResponses -> SearchResponses[op]
         [] op \in DOMAIN ManualResponses -> ManualResponses[op]

Page == [len : 0..MaxFeedLength, shown : SUBSET (0..MaxFeedLength)]
NoPage == [len |-> 0, shown |-> {}]

NoRequest == [op |-> "GetUserMe", token |-> Nobody, id |-> Nobody, form |-> "",
              limit |-> 0, offset |-> 0]

Idle == [q |-> NoRequest, stage |-> "idle", status |-> Closed, value |-> 0,
         page |-> NoPage, doubt |-> FALSE]

Call == [q : Request, stage : {"idle", "sent", "answered"},
         status : {101, 200, 400, 401, 404, 500, Closed},
         value : Nat, page : Page, doubt : BOOLEAN]

ApiTypeOK ==
    /\ db \in Database /\ replica \in Database
    /\ req \in [Clients -> Call]
    /\ \A c \in Clients : req[c].stage = "answered" =>
          req[c].status \in Declared(req[c].q.op)
    /\ faults \in 0..MaxFaults

(***************************************************************************)
(* Before the handler.                                                     *)
(***************************************************************************)
\* A slip: the manual routes and the posts are skipped by the validator.
NotAuthorizedFew(q) ==
    q.op \in FriendOps \cup UserOps \cup DialogOps /\ q.token = Nobody

\* The validator checks the token first; the web socket does it by itself.
NotAuthorized(q) ==
    q.op \notin OpenOps \cup {"CacheInvalidate"} /\ q.token = Nobody

\* Then parameters and body, as the OpenAPI description wants them.
NotValid(q) ==
    \/ q.op \notin ManualOps /\ q.form = "broken"
    \/ q.op = "GetPostFeed" /\ (q.limit < 2 \/ q.offset < 0)

Answer(c, status, value, page, doubt) ==
    req' = [req EXCEPT ![c] = [q |-> req[c].q, stage |-> "answered", status |-> status,
                               value |-> value, page |-> page, doubt |-> doubt]]

Refuse(c) ==
    /\ req[c].stage = "sent"
    /\ \/ NotAuthorized(req[c].q) /\ Answer(c, 401, 0, NoPage, FALSE)
       \/ /\ ~NotAuthorized(req[c].q) /\ NotValid(req[c].q)
          /\ Answer(c, 400, 0, NoPage, FALSE)
    /\ UNCHANGED <<db, replica, faults>>

Serving(c, op) ==
    /\ req[c].stage = "sent" /\ req[c].q.op = op
    /\ ~NotAuthorized(req[c].q) /\ ~NotValid(req[c].q)

(***************************************************************************)
(* A handler's one statement.  When it fails the answer is 500, and a      *)
(* write may have been committed.                                          *)
(***************************************************************************)
Fail(c) ==
    /\ faults < MaxFaults /\ faults' = faults + 1
    /\ Answer(c, 500, 0, NoPage, TRUE)

\* A slip: a failed statement is answered like one that was executed.
WriteHopefully(c, status, value, new) ==
    /\ \/ Answer(c, status, value, NoPage, FALSE) /\ db' = new /\ UNCHANGED faults
       \/ /\ faults < MaxFaults /\ faults' = faults + 1
          /\ Answer(c, status, value, NoPage, TRUE) /\ db' \in {db, new}
    /\ UNCHANGED replica

Write(c, status, value, new) ==
    /\ \/ Answer(c, status, value, NoPage, FALSE) /\ db' = new /\ UNCHANGED faults
       \/ Fail(c) /\ db' \in {db, new}
    /\ UNCHANGED replica

\* status is what the replica says, truth what the master would have said.
Read(c, status, truth, value, page) ==
    /\ \/ Answer(c, status, value, page, status # truth) /\ UNCHANGED faults
       \/ Fail(c)
    /\ UNCHANGED <<db, replica>>

(***************************************************************************)
(* Login and users.                                                        *)
(***************************************************************************)
\* The hash is read before the password is looked at: without one in the body
\* the handler panics.
LoginStatus(q, d) ==
    IF q.id \notin d.users THEN 404
    ELSE IF q.form = "none" THEN Closed
    ELSE IF q.form = "right" THEN 200 ELSE 400

\* The token is the id of the user.
PostLogin(c) ==
    LET q == req[c].q
    IN  /\ Serving(c, "PostLogin")
        /\ Read(c, LoginStatus(q, replica), LoginStatus(q, db), q.id, NoPage)

\* bcrypt refuses a long password; a missing one is a panic.  Postgres refuses a
\* row without a name, or with a value longer than its column.
PostUserRegister(c) ==
    LET q == req[c].q
        new == Cardinality(db.users) + 1
    IN  /\ Serving(c, "PostUserRegister")
        /\ \/ q.form = "none" /\ Answer(c, Closed, 0, NoPage, FALSE)
                 /\ UNCHANGED <<db, replica, faults>>
           \/ q.form = "long" /\ Answer(c, 400, 0, NoPage, FALSE)
                 /\ UNCHANGED <<db, replica, faults>>
           \/ q.form = "unfit" /\ Answer(c, 500, 0, NoPage, FALSE)
                 /\ UNCHANGED <<db, replica, faults>>
           \/ /\ q.form \notin {"none", "long", "unfit"} /\ new \in Ids
              /\ Write(c, 200, new, [db EXCEPT !.users = @ \cup {new}])

UserStatus(id, d) == IF id \in d.users THEN 200 ELSE 404

GetUserGetId(c) ==
    /\ Serving(c, "GetUserGetId")
    /\ Read(c, UserStatus(req[c].q.id, replica), UserStatus(req[c].q.id, db), 0, NoPage)

GetUserMe(c) ==
    /\ Serving(c, "GetUserMe")
    /\ Read(c, UserStatus(req[c].q.token, replica), UserStatus(req[c].q.token, db),
            0, NoPage)

\* A slip: nobody found is answered like in GetUserGetId.
SearchOrNotFound(c) == Serving(c, "GetUserSearch") /\ Read(c, 404, 404, 0, NoPage)

GetUserSearch(c) == Serving(c, "GetUserSearch") /\ Read(c, 200, 200, 0, NoPage)

(***************************************************************************)
(* Friends: the user of the token and the user of the path.                *)
(***************************************************************************)
PutFriendSetUserId(c) ==
    LET pair == <<req[c].q.token, req[c].q.id>>
        known == {pair[1], pair[2]} \subseteq db.users
    IN  /\ Serving(c, "PutFriendSetUserId")
        /\ \/ req[c].q.form = "unfit" /\ Answer(c, 500, 0, NoPage, FALSE)
                 /\ UNCHANGED <<db, replica, faults>>
           \/ /\ req[c].q.form # "unfit" /\ known /\ pair \notin db.friends
              /\ Write(c, 200, 0, [db EXCEPT !.friends = @ \cup {pair}])
           \/ /\ req[c].q.form # "unfit" /\ pair \in db.friends
              /\ Write(c, 400, 0, db)
           \/ /\ req[c].q.form # "unfit" /\ ~known
              /\ Write(c, 404, 0, db)

\* A slip: the statement does without the user of the token.
DeleteByFriend(c) ==
    LET other == req[c].q.id
    IN  /\ Serving(c, "PutFriendDeleteUserId")
        /\ Write(c, IF \E pair \in db.friends : pair[2] = other THEN 200 ELSE 404, 0,
                 [db EXCEPT !.friends = {pair \in @ : pair[2] # other}])

PutFriendDeleteUserId(c) ==
    LET pair == <<req[c].q.token, req[c].q.id>>
    IN  /\ Serving(c, "PutFriendDeleteUserId")
        /\ Write(c, IF pair \in db.friends THEN 200 ELSE 404, 0,
                 [db EXCEPT !.friends = @ \ {pair}])

(***************************************************************************)
(* Posts: every statement on a post has the user of the token in it.       *)
(***************************************************************************)
\* A slip: a post is found by its id alone.
AnyonesPost(q, d) == {p \in d.posts : p.id = q.id}

OwnPost(q, d) == {p \in d.posts : p.id = q.id /\ p.owner = q.token}

PostStatus(q, d) == IF OwnPost(q, d) # {} THEN 200 ELSE 404

PostPostCreate(c) ==
    LET q == req[c].q
        new == db.made + 1
    IN  /\ Serving(c, "PostPostCreate")
        /\ \/ /\ q.token \in db.users /\ new \in Ids
              /\ Write(c, 200, new,
                       [db EXCEPT !.posts = @ \cup {[id |-> new, owner |-> q.token,
                                                     text |-> "new"]},
                                  !.made = new])
           \/ q.token \notin db.users /\ Write(c, 404, 0, db)

PutPostUpdate(c) ==
    LET q == req[c].q
        own == OwnPost(q, db)
    IN  /\ Serving(c, "PutPostUpdate")
        /\ Write(c, PostStatus(q, db), 0,
                 [db EXCEPT !.posts = (@ \ own) \cup
                                         {[p EXCEPT !.text = "edited"] : p \in own}])

PutPostDeleteId(c) ==
    LET q == req[c].q
    IN  /\ Serving(c, "PutPostDeleteId")
        /\ Write(c, PostStatus(q, db), 0, [db EXCEPT !.posts = @ \ OwnPost(q, db)])

GetPostGetId(c) ==
    LET q == req[c].q
    IN  /\ Serving(c, "GetPostGetId")
        /\ Read(c, PostStatus(q, replica), PostStatus(q, db), 0, NoPage)

\* int(x) of a float, not negative here: the fraction goes; what no int is equal
\* to becomes the least int or the greatest, whichever the processor has it.
ToInt(halves) ==
    IF halves \div 2 <= MaxInt THEN {halves \div 2} ELSE {-(MaxInt + 1), MaxInt}

\* A sum of two ints wraps around.
Wrap(n) == IF n > MaxInt THEN n - 2 * (MaxInt + 1) ELSE n

InFeed(limit, offset) ==
    limit > 0 /\ offset >= 0 /\ Wrap(offset + limit) <= MaxFeedLength

\* A slip: the page ends at limit, wherever it begins.
PageToLimit(limit, offset, len) == {n \in 0..MaxFeedLength : offset <= n /\ n < limit /\ n < len}

\* The loop of GetUserPosts, over a feed of len posts.
PageOf(limit, offset, len) ==
    {n \in 0..MaxFeedLength : offset <= n /\ n < Wrap(offset + limit) /\ n < len}

\* The feed comes from the cache (FeedPipeline): of any length here.
GetPostFeed(c) ==
    /\ Serving(c, "GetPostFeed")
    /\ \E limit \in ToInt(req[c].q.limit), offset \in ToInt(req[c].q.offset) :
          \/ /\ ~InFeed(limit, offset)
             /\ Answer(c, 400, 0, NoPage, FALSE)
             /\ UNCHANGED <<db, replica, faults>>
          \/ /\ InFeed(limit, offset)
             /\ \E len \in 0..MaxFeedLength :
                   Read(c, 200, 200, 0, [len |-> len, shown |-> PageOf(limit, offset, len)])

(***************************************************************************)
(* Dialogs (DialogService) and the manual routes.                          *)
(***************************************************************************)
GetDialogUserIdList(c) ==
    Serving(c, "GetDialogUserIdList") /\ Read(c, 200, 200, 0, NoPage)

PostDialogUserIdSend(c) ==
    Serving(c, "PostDialogUserIdSend") /\ Read(c, 200, 200, 0, NoPage)

PostFeedPosted(c) == Serving(c, "PostFeedPosted") /\ Read(c, 101, 101, 0, NoPage)

CacheInvalidate(c) == Serving(c, "CacheInvalidate") /\ Read(c, 200, 200, 0, NoPage)

(***************************************************************************)
(* Clients and the system.                                                 *)
(***************************************************************************)
Send(c, q) ==
    /\ req[c].stage = "idle"
    /\ req' = [req EXCEPT ![c].q = q, ![c].stage = "sent"]
    /\ UNCHANGED <<db, replica, faults>>

LoseReply(c) ==
    /\ req[c].stage = "answered"
    /\ faults < MaxFaults /\ faults' = faults + 1
    /\ Answer(c, Closed, 0, NoPage, TRUE)
    /\ UNCHANGED <<db, replica>>

Receive(c) ==
    /\ req[c].stage = "answered"
    /\ req' = [req EXCEPT ![c] = Idle]
    /\ UNCHANGED <<db, replica, faults>>

Replicate ==
    /\ replica # db
    /\ replica' = db
    /\ UNCHANGED <<db, req, faults>>

HandleUser(c) ==
    PostLogin(c) \/ PostUserRegister(c) \/ GetUserGetId(c) \/ GetUserMe(c) \/ GetUserSearch(c)

HandleFriend(c) == PutFriendSetUserId(c) \/ PutFriendDeleteUserId(c)

HandlePost(c) ==
    PostPostCreate(c) \/ PutPostUpdate(c) \/ PutPostDeleteId(c) \/ GetPostGetId(c) \/ GetPostFeed(c)

HandleOther(c) ==
    GetDialogUserIdList(c) \/ PostDialogUserIdSend(c) \/ PostFeedPosted(c) \/ CacheInvalidate(c)

Serve(c) ==
    Refuse(c) \/ HandleUser(c) \/ HandleFriend(c) \/ HandlePost(c) \/ HandleOther(c)

InitWith(users) ==
    /\ db = [users |-> users, friends |-> {}, posts |-> {}, made |-> 0]
    /\ replica = db
    /\ req = [c \in Clients |-> Idle]
    /\ faults = 0

ApiInit == \E users \in SUBSET Ids : InitWith(users)

ApiNext ==
    \/ \E c \in Clients : (\E q \in Request : Send(c, q)) \/ Serve(c) \/ Receive(c) \/ LoseReply(c)
    \/ Replicate

ApiSpec == ApiInit /\ [][ApiNext]_apiVars

(***************************************************************************)
(* Properties.                                                             *)
(***************************************************************************)
\* What belongs to a user: the posts and the list of friends.
Belongs(u, d) ==
    <<{p \in d.posts : p.owner = u}, {pair \in d.friends : pair[1] = u}>>

\* Nothing of a user changes but in the service of a request with that user's
\* token, whatever ids the others send (post_storage.go:46-77).
OnlyOwnChanges ==
    [][\A u \in Ids : Belongs(u, db') # Belongs(u, db) =>
          \E c \in Clients : /\ req[c].stage = "sent" /\ req[c].q.token = u
                             /\ req'[c].stage = "answered"]_apiVars

\* The part of the feed that was asked for, by the whole parts of the numbers;
\* nothing if its end is not an int.
IsWindow(q, page) ==
    LET first == q.offset \div 2
        end == first + q.limit \div 2
    IN  IF end > MaxInt THEN page.shown = {}
        ELSE /\ end <= MaxFeedLength
             /\ page.shown = first..(end - 1) \cap 0..(page.len - 1)

\* A page that is answered is the part of the feed that was asked for, or, if
\* the end of that part is not an int, none of it (post_feed_service.go:24).
PageIsWindow ==
    \A c \in Clients :
        req[c].stage = "answered" /\ req[c].q.op = "GetPostFeed" /\ req[c].status = 200 =>
            IsWindow(req[c].q, req[c].page)
==============================================================================
