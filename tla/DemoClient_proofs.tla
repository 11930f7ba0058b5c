-------------------------- MODULE DemoClient_proofs --------------------------
(***************************************************************************)
(* What holds of the API for any clients, ids, numbers and bounds: every   *)
(* answer is one its operation declares, nobody changes what belongs to    *)
(* another user, and a page of a feed is the part that was asked for,      *)
(* overflow included.  And of the demo client beside another user, for any *)
(* number of that user's requests: its first part fails only for a replica *)
(* that lags or a fault, its second is refused, and nothing is left.       *)
(***************************************************************************)
EXTENDS DemoClient, FiniteSetTheorems, SequenceTheorems, TLAPS

-----------------------------------------------------------------------------
(* The API: an answer, and what a handler does around it. *)

\* The record that Answer puts in place of the request.
AnswerOf(c, status, value, page, doubt) ==
    [q |-> req[c].q, stage |-> "answered", status |-> status, value |-> value,
     page |-> page, doubt |-> doubt]

\* Only the entry of c changes.
LEMMA AnswerIs ==
    ASSUME ApiTypeOK, NEW c \in Clients, NEW status, NEW value, NEW page, NEW doubt,
           Answer(c, status, value, page, doubt)
    PROVE  /\ req'[c] = AnswerOf(c, status, value, page, doubt)
           /\ \A d \in Clients \ {c} : req'[d] = req[d]
           /\ DOMAIN req' = Clients
BY DEF Answer, AnswerOf, ApiTypeOK

\* What ApiTypeOK says of req.
CallsOK ==
    /\ req \in [Clients -> Call]
    /\ \A d \in Clients : req[d].stage = "answered" =>
          req[d].status \in Declared(req[d].q.op)

LEMMA ApiTypeNext ==
    ASSUME db' \in Database, replica' \in Database, faults' \in 0..MaxFaults, CallsOK'
    PROVE  ApiTypeOK'
BY DEF ApiTypeOK, CallsOK

\* A well-typed answer that the operation declares keeps the type of req.
LEMMA AnswerType ==
    ASSUME ApiTypeOK, NEW c \in Clients, NEW status, NEW value, NEW page, NEW doubt,
           Answer(c, status, value, page, doubt),
           status \in Declared(req[c].q.op), status \in {101, 200, 400, 401, 404, 500, Closed},
           value \in Nat, page \in Page, doubt \in BOOLEAN
    PROVE  CallsOK'
<1>1. AnswerOf(c, status, value, page, doubt) \in Call
  BY DEF AnswerOf, Call, ApiTypeOK
<1>2. req' = [req EXCEPT ![c] = AnswerOf(c, status, value, page, doubt)]
  BY DEF Answer, AnswerOf
<1>3. req' \in [Clients -> Call]
  BY <1>1, <1>2 DEF ApiTypeOK
<1>4. ASSUME NEW d \in Clients, req'[d].stage = "answered"
      PROVE  req'[d].status \in Declared(req'[d].q.op)
  <2>1. CASE d = c
    <3>1. req'[c] = AnswerOf(c, status, value, page, doubt)
      BY AnswerIs
    <3>2. req'[c].status = status /\ req'[c].q = req[c].q
      BY <3>1 DEF AnswerOf
    <3> QED
      BY <2>1, <3>2
  <2>2. CASE d # c
    <3>1. req'[d] = req[d]
      BY <2>2, AnswerIs
    <3> QED
      BY <1>4, <3>1 DEF ApiTypeOK
  <2> QED
    BY <2>1, <2>2
<1> QED
  BY <1>3, <1>4 DEF CallsOK

-----------------------------------------------------------------------------
(* The statuses of the operations. *)

LEMMA DialogDeclares ==
    /\ Declared("GetDialogUserIdList") = {Closed, 200, 400, 401, 500}
    /\ Declared("PostDialogUserIdSend") = {Closed, 200, 400, 401, 404, 500}
BY DEF Declared, DialogResponses, FriendResponses, LoginResponses, PostWriteResponses,
       PostReadResponses, PostUpdateResponses, UserResponses, RegisterResponses,
       SearchResponses, ManualResponses

LEMMA FriendDeclares ==
    \A op \in FriendOps : Declared(op) = {Closed, 200, 400, 401, 404, 500}
BY DEF Declared, DialogResponses, FriendResponses, LoginResponses, PostWriteResponses,
       PostReadResponses, PostUpdateResponses, UserResponses, RegisterResponses,
       SearchResponses, ManualResponses, FriendOps

LEMMA PostDeclares ==
    /\ Declared("PostPostCreate") = {Closed, 200, 400, 401, 404, 500}
    /\ Declared("PutPostDeleteId") = {Closed, 200, 400, 401, 404, 500}
    /\ Declared("GetPostFeed") = {Closed, 200, 400, 401, 500}
    /\ Declared("GetPostGetId") = {Closed, 200, 400, 401, 404, 500}
    /\ Declared("PutPostUpdate") = {Closed, 200, 400, 401, 404, 500}
BY DEF Declared, DialogResponses, FriendResponses, LoginResponses, PostWriteResponses,
       PostReadResponses, PostUpdateResponses, UserResponses, RegisterResponses,
       SearchResponses, ManualResponses

LEMMA UserDeclares ==
    /\ Declared("GetUserGetId") = {Closed, 200, 400, 401, 404, 500}
    /\ Declared("GetUserMe") = {Closed, 200, 400, 401, 404, 500}
    /\ Declared("GetUserSearch") = {Closed, 200, 400, 401, 500}
BY DEF Declared, DialogResponses, FriendResponses, LoginResponses, PostWriteResponses,
       PostReadResponses, PostUpdateResponses, UserResponses, RegisterResponses,
       SearchResponses, ManualResponses

LEMMA OtherDeclares ==
    /\ Declared("PostLogin") = {Closed, 200, 400, 404, 500}
    /\ Declared("PostUserRegister") = {Closed, 200, 400, 500}
    /\ Declared("PostFeedPosted") = {Closed, 101, 400, 401, 500}
    /\ Declared("CacheInvalidate") = {Closed, 200, 500}
BY DEF Declared, DialogResponses, FriendResponses, LoginResponses, PostWriteResponses,
       PostReadResponses, PostUpdateResponses, UserResponses, RegisterResponses,
       SearchResponses, ManualResponses

\* Every operation may fail, and the connection may break before the response.
LEMMA AllDeclare == \A op \in Operations : {Closed, 500} \subseteq Declared(op)
BY DialogDeclares, FriendDeclares, PostDeclares, UserDeclares, OtherDeclares
   DEF Operations, DialogOps, PostOps, UserOps, OpenOps, ManualOps

\* What the middlewares answer is declared where they answer it.
LEMMA RefusalsDeclared ==
    ASSUME NEW q \in Request
    PROVE  /\ NotAuthorized(q) => 401 \in Declared(q.op)
           /\ ~NotAuthorized(q) /\ NotValid(q) => 400 \in Declared(q.op)
BY DialogDeclares, FriendDeclares, PostDeclares, UserDeclares, OtherDeclares
   DEF Request, Operations, DialogOps, PostOps, UserOps, OpenOps, ManualOps,
       NotAuthorized, NotValid

-----------------------------------------------------------------------------
(* Types. *)

LEMMA NoPageType == NoPage \in Page
BY ApiAssumption DEF NoPage, Page

\* The answer of a handler whose statement failed.
LEMMA FailType ==
    ASSUME ApiTypeOK, NEW c \in Clients, Answer(c, 500, 0, NoPage, TRUE)
    PROVE  CallsOK'
<1>1. 500 \in Declared(req[c].q.op)
  BY AllDeclare DEF ApiTypeOK, Call, Request
<1>2. TRUE \in BOOLEAN /\ 500 \in {101, 200, 400, 401, 404, 500, Closed} /\ 0 \in Nat
  OBVIOUS
<1> QED
  BY <1>1, <1>2, AnswerType, NoPageType

LEMMA WriteType ==
    ASSUME ApiTypeOK, NEW c \in Clients, NEW status, NEW value \in Nat, NEW new \in Database,
           status \in Declared(req[c].q.op), status \in {200, 400, 404},
           Write(c, status, value, new)
    PROVE  ApiTypeOK'
<1> DEFINE Rest == db' \in Database /\ replica' \in Database /\ faults' \in 0..MaxFaults
<1>1. Rest
  <2>1. db \in Database /\ replica \in Database /\ faults \in 0..MaxFaults
    BY DEF ApiTypeOK
  <2>2. db' \in {db, new} /\ replica' = replica
    BY DEF Write, Fail
  <2>3. faults' = faults \/ (faults < MaxFaults /\ faults' = faults + 1)
    BY DEF Write, Fail
  <2> QED
    BY <2>1, <2>2, <2>3, ApiAssumption
<1>2. CASE Answer(c, status, value, NoPage, FALSE)
  <2>1. CallsOK'
    <3>1. FALSE \in BOOLEAN /\ status \in {101, 200, 400, 401, 404, 500, Closed}
      OBVIOUS
    <3> QED
      BY <1>2, <3>1, AnswerType, NoPageType
  <2> QED
    BY <1>1, <2>1, ApiTypeNext
<1>3. CASE Answer(c, 500, 0, NoPage, TRUE)
  BY <1>1, <1>3, FailType, ApiTypeNext
<1> QED
  BY <1>2, <1>3 DEF Write, Fail

LEMMA ReadType ==
    ASSUME ApiTypeOK, NEW c \in Clients, NEW status, NEW truth, NEW value \in Nat,
           NEW page \in Page,
           status \in Declared(req[c].q.op), status \in {101, 200, 400, 404, Closed},
           Read(c, status, truth, value, page)
    PROVE  ApiTypeOK'
<1> DEFINE Rest == db' \in Database /\ replica' \in Database /\ faults' \in 0..MaxFaults
<1>1. Rest
  <2>1. db \in Database /\ replica \in Database /\ faults \in 0..MaxFaults
    BY DEF ApiTypeOK
  <2>2. db' \in {db, db} /\ replica' = replica
    BY DEF Read, Fail
  <2>3. faults' = faults \/ (faults < MaxFaults /\ faults' = faults + 1)
    BY DEF Read, Fail
  <2> QED
    BY <2>1, <2>2, <2>3, ApiAssumption
<1>2. CASE Answer(c, status, value, page, status # truth)
  <2>1. (status # truth) \in BOOLEAN
    OBVIOUS
  <2>2. CallsOK'
    <3>1. status \in {101, 200, 400, 401, 404, 500, Closed}
      OBVIOUS
    <3> QED
      BY <1>2, <2>1, <3>1, AnswerType
  <2> QED
    BY <1>1, <2>2, ApiTypeNext
<1>3. CASE Answer(c, 500, 0, NoPage, TRUE)
  BY <1>1, <1>3, FailType, ApiTypeNext
<1> QED
  BY <1>2, <1>3 DEF Read, Fail

\* An answer before any statement.
LEMMA PlainType ==
    ASSUME ApiTypeOK, NEW c \in Clients, NEW status,
           status \in Declared(req[c].q.op), status \in {400, 401, 500, Closed},
           Answer(c, status, 0, NoPage, FALSE), UNCHANGED <<db, replica, faults>>
    PROVE  ApiTypeOK'
<1>1. FALSE \in BOOLEAN /\ status \in {101, 200, 400, 401, 404, 500, Closed} /\ 0 \in Nat
  OBVIOUS
<1>2. CallsOK'
  BY <1>1, AnswerType, NoPageType
<1> QED
  BY <1>2, ApiTypeNext DEF ApiTypeOK

-----------------------------------------------------------------------------
(* Types through the handlers. *)

\* What the type says of a request and of the database.
LEMMA TypeFacts ==
    ASSUME ApiTypeOK, NEW c \in Clients
    PROVE  /\ req[c].q \in Request /\ req[c].q.id \in Nat /\ req[c].q.token \in Nat
           /\ db \in Database /\ replica \in Database
           /\ req[c].q.id \in Ids \cup {Nobody} /\ req[c].q.token \in Ids \cup {Nobody}
<1>1. req[c] \in Call /\ db \in Database /\ replica \in Database
  BY DEF ApiTypeOK
<1>2. req[c].q \in Request
  BY <1>1 DEF Call
<1>3. req[c].q.id \in Ids \cup {Nobody} /\ req[c].q.token \in Ids \cup {Nobody}
  BY <1>2 DEF Request
<1>4. Ids \cup {Nobody} \subseteq Nat
  BY ApiAssumption DEF Nobody
<1> QED
  BY <1>1, <1>2, <1>3, <1>4

LEMMA RefuseType ==
    ASSUME ApiTypeOK, NEW c \in Clients, Refuse(c)
    PROVE  ApiTypeOK'
<1>1. req[c].q \in Request
  BY TypeFacts
<1>2. CASE NotAuthorized(req[c].q) /\ Answer(c, 401, 0, NoPage, FALSE)
  BY <1>1, <1>2, RefusalsDeclared, PlainType DEF Refuse
<1>3. CASE /\ ~NotAuthorized(req[c].q) /\ NotValid(req[c].q)
           /\ Answer(c, 400, 0, NoPage, FALSE)
  BY <1>1, <1>3, RefusalsDeclared, PlainType DEF Refuse
<1> QED
  BY <1>2, <1>3 DEF Refuse

\* The operations that only read.
LEMMA UserReadType ==
    ASSUME ApiTypeOK, NEW c \in Clients,
           GetUserGetId(c) \/ GetUserMe(c) \/ GetUserSearch(c)
    PROVE  ApiTypeOK'
<1> DEFINE q == req[c].q
<1>1. CASE GetUserGetId(c)
  <2>1. q.op = "GetUserGetId" /\ UserStatus(q.id, replica) \in {200, 404}
    BY <1>1 DEF GetUserGetId, Serving, UserStatus
  <2>2. UserStatus(q.id, replica) \in Declared(q.op)
    BY <2>1, UserDeclares
  <2> QED
    BY <1>1, <2>1, <2>2, NoPageType, ReadType DEF GetUserGetId
<1>2. CASE GetUserMe(c)
  <2>1. q.op = "GetUserMe" /\ UserStatus(q.token, replica) \in {200, 404}
    BY <1>2 DEF GetUserMe, Serving, UserStatus
  <2>2. UserStatus(q.token, replica) \in Declared(q.op)
    BY <2>1, UserDeclares
  <2> QED
    BY <1>2, <2>1, <2>2, NoPageType, ReadType DEF GetUserMe
<1>3. CASE GetUserSearch(c)
  <2>1. 200 \in Declared(q.op)
    BY <1>3, UserDeclares DEF GetUserSearch, Serving
  <2> QED
    BY <1>3, <2>1, NoPageType, ReadType DEF GetUserSearch
<1> QED
  BY <1>1, <1>2, <1>3

LEMMA OtherType ==
    ASSUME ApiTypeOK, NEW c \in Clients, HandleOther(c)
    PROVE  ApiTypeOK'
<1> DEFINE op == req[c].q.op
<1>1. CASE GetDialogUserIdList(c) \/ PostDialogUserIdSend(c)
  <2>1. 200 \in Declared(op)
    BY <1>1, DialogDeclares DEF GetDialogUserIdList, PostDialogUserIdSend, Serving
  <2>2. Read(c, 200, 200, 0, NoPage)
    BY <1>1 DEF GetDialogUserIdList, PostDialogUserIdSend
  <2> QED
    BY <2>1, <2>2, NoPageType, ReadType
<1>2. CASE PostFeedPosted(c)
  <2>1. 101 \in Declared(op)
    BY <1>2, OtherDeclares DEF PostFeedPosted, Serving
  <2> QED
    BY <1>2, <2>1, NoPageType, ReadType DEF PostFeedPosted
<1>3. CASE CacheInvalidate(c)
  <2>1. 200 \in Declared(op)
    BY <1>3, OtherDeclares DEF CacheInvalidate, Serving
  <2> QED
    BY <1>3, <2>1, NoPageType, ReadType DEF CacheInvalidate
<1> QED
  BY <1>1, <1>2, <1>3 DEF HandleOther

LEMMA LoginType ==
    ASSUME ApiTypeOK, NEW c \in Clients, PostLogin(c)
    PROVE  ApiTypeOK'
<1> DEFINE q == req[c].q
<1>1. q.op = "PostLogin" /\ LoginStatus(q, replica) \in {200, 400, 404, Closed}
  BY DEF PostLogin, Serving, LoginStatus
<1>2. LoginStatus(q, replica) \in Declared(q.op)
  BY <1>1, OtherDeclares
<1>3. q.id \in Nat
  BY TypeFacts
<1>4. Read(c, LoginStatus(q, replica), LoginStatus(q, db), q.id, NoPage)
  BY DEF PostLogin
<1> QED
  BY <1>1, <1>2, <1>3, <1>4, NoPageType, ReadType

LEMMA RegisterType ==
    ASSUME ApiTypeOK, NEW c \in Clients, PostUserRegister(c)
    PROVE  ApiTypeOK'
<1> DEFINE op == req[c].q.op
           user == Cardinality(db.users) + 1
           new == [db EXCEPT !.users = @ \cup {user}]
<1>1. {200, 400, 500, Closed} \subseteq Declared(op)
  BY OtherDeclares DEF PostUserRegister, Serving
<1>2. CASE Answer(c, Closed, 0, NoPage, FALSE) /\ UNCHANGED <<db, replica, faults>>
  BY <1>1, <1>2, PlainType
<1>3. ASSUME NEW status \in {400, 500}, Answer(c, status, 0, NoPage, FALSE),
             UNCHANGED <<db, replica, faults>>
      PROVE  ApiTypeOK'
  <2>1. status \in Declared(op) /\ status \in {400, 401, 500, Closed}
    BY <1>1
  <2> HIDE DEF user, new
  <2> QED
    BY <1>3, <2>1, PlainType
<1>4. CASE user \in Ids /\ Write(c, 200, user, new)
  <2>1. user \in Nat /\ new \in Database
    BY <1>4, ApiAssumption, TypeFacts DEF Database
  <2> HIDE DEF user, new
  <2> QED
    BY <1>1, <1>4, <2>1, WriteType
<1> QED
  BY <1>2, <1>3, <1>4 DEF PostUserRegister

LEMMA FriendType ==
    ASSUME ApiTypeOK, NEW c \in Clients, HandleFriend(c)
    PROVE  ApiTypeOK'
<1> DEFINE op == req[c].q.op
           pair == <<req[c].q.token, req[c].q.id>>
           with == [db EXCEPT !.friends = @ \cup {pair}]
           without == [db EXCEPT !.friends = @ \ {pair}]
<1>1. {200, 400, 404} \subseteq Declared(op)
  <2>1. Serving(c, "PutFriendSetUserId") \/ Serving(c, "PutFriendDeleteUserId")
    BY Zenon DEF HandleFriend, PutFriendSetUserId, PutFriendDeleteUserId
  <2>2. op \in FriendOps
    BY <2>1 DEF Serving, FriendOps
  <2> QED
    BY <2>2, FriendDeclares
<1>2. db \in Database
  BY TypeFacts
<1>3. CASE pair[1] \in db.users /\ pair[2] \in db.users /\ Write(c, 200, 0, with)
  <2>1. pair \in Ids \X Ids
    BY <1>2, <1>3 DEF Database
  <2> HIDE DEF pair
  <2>2. with \in Database
    BY <1>2, <2>1 DEF Database
  <2> HIDE DEF with
  <2> QED
    BY <1>1, <1>3, <2>2, WriteType
<1>4. CASE \E status \in {200, 400, 404} : Write(c, status, 0, db)
  BY <1>1, <1>2, <1>4, WriteType
<1>5. CASE \E status \in {200, 404} : Write(c, status, 0, without)
  <2>1. without \in Database
    BY <1>2 DEF Database
  <2> HIDE DEF without
  <2> QED
    BY <1>1, <1>5, <2>1, WriteType
<1>6. ASSUME Answer(c, 500, 0, NoPage, FALSE), UNCHANGED <<db, replica, faults>>
      PROVE  ApiTypeOK'
  <2> DEFINE status == 500
  <2>1. status \in Declared(op) /\ status \in {400, 401, 500, Closed}
    BY AllDeclare, TypeFacts DEF Request
  <2>2. Answer(c, status, 0, NoPage, FALSE)
    BY <1>6
  <2> HIDE DEF status
  <2> QED
    BY <1>6, <2>1, <2>2, PlainType
<1>7. CASE PutFriendSetUserId(c)
  <2>1. \/ Answer(c, 500, 0, NoPage, FALSE) /\ UNCHANGED <<db, replica, faults>>
        \/ {pair[1], pair[2]} \subseteq db.users /\ Write(c, 200, 0, with)
        \/ Write(c, 400, 0, db) \/ Write(c, 404, 0, db)
    BY <1>7, Zenon DEF PutFriendSetUserId
  <2>2. CASE Write(c, 400, 0, db) \/ Write(c, 404, 0, db)
    BY <1>4, <2>2
  <2>3. CASE {pair[1], pair[2]} \subseteq db.users /\ Write(c, 200, 0, with)
    <3>1. pair[1] \in db.users /\ pair[2] \in db.users
      BY <2>3, Zenon
    <3> QED
      BY <1>3, <2>3, <3>1, Zenon
  <2> QED
    BY <1>6, <2>1, <2>2, <2>3, Zenon
<1>8. CASE PutFriendDeleteUserId(c)
  BY <1>5, <1>8 DEF PutFriendDeleteUserId
<1> QED
  BY <1>7, <1>8 DEF HandleFriend

LEMMA CreateType ==
    ASSUME ApiTypeOK, NEW c \in Clients, PostPostCreate(c)
    PROVE  ApiTypeOK'
<1> DEFINE q == req[c].q
           id == db.made + 1
           new == [db EXCEPT !.posts = @ \cup {[id |-> id, owner |-> q.token, text |-> "new"]},
                             !.made = id]
<1>1. {200, 404} \subseteq Declared(q.op)
  BY PostDeclares DEF PostPostCreate, Serving
<1>2. db \in Database
  BY TypeFacts
<1>3. CASE q.token \in db.users /\ id \in Ids /\ Write(c, 200, id, new)
  <2>1. id \in Nat /\ q.token \in Ids
    BY <1>2, <1>3, ApiAssumption DEF Database
  <2>2. [id |-> id, owner |-> q.token, text |-> "new"] \in Post
    BY <1>3, <2>1 DEF Post
  <2>3. new \in Database
    BY <1>2, <2>1, <2>2 DEF Database
  <2> HIDE DEF new, id
  <2> QED
    BY <1>1, <1>3, <2>1, <2>3, WriteType
<1>4. CASE Write(c, 404, 0, db)
  BY <1>1, <1>2, <1>4, WriteType
<1> QED
  BY <1>3, <1>4 DEF PostPostCreate

LEMMA ChangeType ==
    ASSUME ApiTypeOK, NEW c \in Clients, PutPostUpdate(c) \/ PutPostDeleteId(c)
    PROVE  ApiTypeOK'
<1> DEFINE q == req[c].q
           own == OwnPost(q, db)
           edited == [db EXCEPT !.posts = (@ \ own) \cup {[p EXCEPT !.text = "edited"] : p \in own}]
           deleted == [db EXCEPT !.posts = @ \ own]
           status == PostStatus(q, db)
<1>1. status \in Declared(q.op) /\ status \in {200, 404}
  BY PostDeclares DEF PutPostUpdate, PutPostDeleteId, Serving, PostStatus
<1>2. db \in Database /\ own \subseteq db.posts
  BY TypeFacts DEF OwnPost
<1> HIDE DEF own, status
<1>3. edited \in Database
  <2>1. db.posts \subseteq Post
    BY <1>2 DEF Database
  <2>2. {[p EXCEPT !.text = "edited"] : p \in own} \subseteq Post
    BY <1>2, <2>1 DEF Post
  <2>3. (db.posts \ own) \cup {[p EXCEPT !.text = "edited"] : p \in own} \subseteq Post
    BY <2>1, <2>2
  <2> QED
    BY <1>2, <2>3 DEF Database
<1>4. deleted \in Database
  BY <1>2 DEF Database
<1> HIDE DEF edited, deleted
<1>5. CASE PutPostUpdate(c)
  <2>1. Write(c, status, 0, edited)
    BY <1>5 DEF PutPostUpdate, edited, status, own
  <2> QED
    BY <1>1, <1>3, <2>1, WriteType
<1>6. CASE PutPostDeleteId(c)
  <2>1. Write(c, status, 0, deleted)
    BY <1>6 DEF PutPostDeleteId, deleted, status, own
  <2> QED
    BY <1>1, <1>4, <2>1, WriteType
<1> QED
  BY <1>5, <1>6

LEMMA GetPostType ==
    ASSUME ApiTypeOK, NEW c \in Clients, GetPostGetId(c)
    PROVE  ApiTypeOK'
<1> DEFINE q == req[c].q
<1>1. q.op = "GetPostGetId" /\ PostStatus(q, replica) \in {200, 404}
  BY DEF GetPostGetId, Serving, PostStatus
<1>2. PostStatus(q, replica) \in Declared(q.op)
  BY <1>1, PostDeclares
<1> QED
  BY <1>1, <1>2, NoPageType, ReadType DEF GetPostGetId

LEMMA FeedType ==
    ASSUME ApiTypeOK, NEW c \in Clients, GetPostFeed(c)
    PROVE  ApiTypeOK'
<1> DEFINE q == req[c].q
<1>1. {200, 400} \subseteq Declared(q.op)
  BY PostDeclares DEF GetPostFeed, Serving
<1>2. CASE Answer(c, 400, 0, NoPage, FALSE) /\ UNCHANGED <<db, replica, faults>>
  BY <1>1, <1>2, PlainType
<1>3. ASSUME NEW limit, NEW offset, NEW len \in 0..MaxFeedLength,
             Read(c, 200, 200, 0, [len |-> len, shown |-> PageOf(limit, offset, len)])
      PROVE  ApiTypeOK'
  <2> DEFINE page == [len |-> len, shown |-> PageOf(limit, offset, len)]
  <2>1. Read(c, 200, 200, 0, page)
    BY <1>3
  <2>2. page \in Page
    BY DEF Page, PageOf
  <2> HIDE DEF page
  <2> QED
    BY <1>1, <2>1, <2>2, ReadType
<1> QED
  BY <1>2, <1>3 DEF GetPostFeed

LEMMA ServeType ==
    ASSUME ApiTypeOK, NEW c \in Clients, Serve(c)
    PROVE  ApiTypeOK'
<1>1. CASE HandleUser(c)
  BY <1>1, LoginType, RegisterType, UserReadType DEF HandleUser
<1>2. CASE HandlePost(c)
  BY <1>2, CreateType, ChangeType, GetPostType, FeedType DEF HandlePost
<1> QED
  BY <1>1, <1>2, RefuseType, FriendType, OtherType DEF Serve

\* A client that has nothing in flight.
LEMMA IdleType == Idle \in Call /\ Idle.stage # "answered"
<1>1. NoRequest \in Request
  BY ApiAssumption DEF NoRequest, Request, Operations, UserOps, Forms
<1> QED
  BY <1>1, NoPageType DEF Idle, Call

LEMMA ClientType ==
    ASSUME ApiTypeOK, NEW c \in Clients,
           (\E q \in Request : Send(c, q)) \/ Receive(c) \/ LoseReply(c)
    PROVE  ApiTypeOK'
<1>1. ASSUME NEW q \in Request, Send(c, q)
      PROVE  ApiTypeOK'
  <2> DEFINE call == [req[c] EXCEPT !.q = q, !.stage = "sent"]
  <2>1. call \in Call /\ call.stage # "answered"
    <3>1. req[c] \in Call
      BY DEF ApiTypeOK
    <3>2. [req[c] EXCEPT !.q = q] \in Call
      BY <3>1 DEF Call
    <3>3. call = [[req[c] EXCEPT !.q = q] EXCEPT !.stage = "sent"]
      OBVIOUS
    <3>4. \A call1 \in Call : /\ [call1 EXCEPT !.stage = "sent"] \in Call
                             /\ [call1 EXCEPT !.stage = "sent"].stage = "sent"
      BY DEF Call
    <3> QED
      BY <3>2, <3>3, <3>4
  <2>2. req' = [req EXCEPT ![c] = call]
    BY <1>1 DEF Send, ApiTypeOK
  <2> HIDE DEF call
  <2>3. req' \in [Clients -> Call]
    BY <2>1, <2>2 DEF ApiTypeOK
  <2>4. ASSUME NEW d \in Clients, req'[d].stage = "answered"
        PROVE  req'[d] = req[d]
    BY <2>1, <2>2, <2>4 DEF ApiTypeOK
  <2>5. CallsOK'
    BY <2>3, <2>4 DEF CallsOK, ApiTypeOK
  <2> QED
    BY <1>1, <2>5, ApiTypeNext DEF Send, ApiTypeOK
<1>2. CASE Receive(c)
  <2>1. req' = [req EXCEPT ![c] = Idle] /\ UNCHANGED <<db, replica, faults>>
    BY <1>2 DEF Receive
  <2>2. CallsOK'
    BY <2>1, IdleType DEF CallsOK, ApiTypeOK
  <2> QED
    BY <2>1, <2>2, ApiTypeNext DEF ApiTypeOK
<1>3. CASE LoseReply(c)
  <2>1. Closed \in Declared(req[c].q.op)
    BY AllDeclare, TypeFacts DEF Request
  <2>2. TRUE \in BOOLEAN /\ Closed \in {101, 200, 400, 401, 404, 500, Closed} /\ 0 \in Nat
    OBVIOUS
  <2>3. Answer(c, Closed, 0, NoPage, TRUE)
    BY <1>3 DEF LoseReply
  <2>4. CallsOK'
    BY <2>1, <2>2, <2>3, AnswerType, NoPageType
  <2>5. faults' \in 0..MaxFaults /\ UNCHANGED <<db, replica>>
    BY <1>3, ApiAssumption DEF LoseReply, ApiTypeOK
  <2> QED
    BY <2>4, <2>5, ApiTypeNext DEF ApiTypeOK
<1> QED
  BY <1>1, <1>2, <1>3

LEMMA ApiTypeInit == ApiInit => ApiTypeOK
<1> SUFFICES ASSUME NEW users \in SUBSET Ids, InitWith(users)
             PROVE  ApiTypeOK
  BY DEF ApiInit
<1>1. db \in Database /\ replica \in Database
  BY DEF InitWith, Database
<1>2. req \in [Clients -> Call] /\ \A c \in Clients : req[c].stage # "answered"
  BY IdleType DEF InitWith
<1> QED
  BY <1>1, <1>2, ApiAssumption DEF InitWith, ApiTypeOK

LEMMA ApiTypeStep == ApiTypeOK /\ [ApiNext]_apiVars => ApiTypeOK'
<1> SUFFICES ASSUME ApiTypeOK, [ApiNext]_apiVars
             PROVE  ApiTypeOK'
  OBVIOUS
<1>1. CASE \E c \in Clients : Serve(c)
  BY <1>1, ServeType
<1>2. CASE \E c \in Clients : (\E q \in Request : Send(c, q)) \/ Receive(c) \/ LoseReply(c)
  BY <1>2, ClientType
<1>3. CASE Replicate
  BY <1>3 DEF Replicate, ApiTypeOK
<1>4. CASE UNCHANGED apiVars
  BY <1>4 DEF apiVars, ApiTypeOK
<1> QED
  BY <1>1, <1>2, <1>3, <1>4 DEF ApiNext

\* Every answer is well-typed and has a status that the description of its
\* operation declares.
THEOREM ApiTypeCorrect == ApiSpec => []ApiTypeOK
  BY ApiTypeInit, ApiTypeStep, PTL DEF ApiSpec

-----------------------------------------------------------------------------
(* The API: whose things change. *)

\* A step answers c and leaves what belongs to any other user alone.
OwnStep(c) ==
    /\ req[c].stage = "sent" /\ req'[c].stage = "answered"
    /\ \A u \in Ids \ {req[c].q.token} : Belongs(u, db') = Belongs(u, db)

LEMMA WriteIsOwn ==
    ASSUME ApiTypeOK, NEW c \in Clients, NEW op, NEW status, NEW value, NEW new,
           Serving(c, op), Write(c, status, value, new),
           \A u \in Ids \ {req[c].q.token} : Belongs(u, new) = Belongs(u, db)
    PROVE  OwnStep(c)
<1>1. db' \in {db, new}
  BY DEF Write, Fail
<1>2. req'[c].stage = "answered"
  BY DEF Write, Fail, Answer, ApiTypeOK
<1> QED
  BY <1>1, <1>2 DEF OwnStep, Serving

LEMMA RegisterIsOwn ==
    ASSUME ApiTypeOK, NEW c \in Clients, PostUserRegister(c)
    PROVE  db' = db \/ OwnStep(c)
<1> DEFINE user == Cardinality(db.users) + 1
           new == [db EXCEPT !.users = @ \cup {user}]
<1>1. CASE Write(c, 200, user, new)
  <2>1. \A u \in Ids : Belongs(u, new) = Belongs(u, db)
    BY TypeFacts DEF Belongs, Database
  <2> HIDE DEF new, user
  <2> QED
    BY <1>1, <2>1, WriteIsOwn DEF PostUserRegister
<1> QED
  BY <1>1 DEF PostUserRegister

LEMMA FriendIsOwn ==
    ASSUME ApiTypeOK, NEW c \in Clients, HandleFriend(c)
    PROVE  OwnStep(c)
<1> DEFINE token == req[c].q.token
           pair == <<token, req[c].q.id>>
           with == [db EXCEPT !.friends = @ \cup {pair}]
           without == [db EXCEPT !.friends = @ \ {pair}]
<1>1. db \in Database /\ pair[1] = token
  BY TypeFacts
<1>2. \A u \in Ids \ {token} : Belongs(u, with) = Belongs(u, db)
  BY <1>1 DEF Belongs, Database
<1>3. \A u \in Ids \ {token} : Belongs(u, without) = Belongs(u, db)
  BY <1>1 DEF Belongs, Database
<1>4. CASE PutFriendSetUserId(c)
  <2>1. \/ \E status \in {200, 400, 404} :
              Write(c, status, 0, with) \/ Write(c, status, 0, db)
        \/ Answer(c, 500, 0, NoPage, FALSE) /\ db' = db
    <3> SUFFICES ASSUME ~(Answer(c, 500, 0, NoPage, FALSE) /\ db' = db)
                 PROVE  \E status \in {200, 400, 404} :
                           Write(c, status, 0, with) \/ Write(c, status, 0, db)
      OBVIOUS
    <3> HIDE DEF with
    <3>1. Write(c, 200, 0, with) \/ Write(c, 400, 0, db) \/ Write(c, 404, 0, db)
      BY <1>4, Zenon DEF PutFriendSetUserId, with
    <3> QED
      BY <3>1
  <2>2. Serving(c, "PutFriendSetUserId")
    BY <1>4 DEF PutFriendSetUserId
  <2> HIDE DEF with
  <2>3. CASE Answer(c, 500, 0, NoPage, FALSE) /\ db' = db
    BY <2>2, <2>3 DEF OwnStep, Serving, Answer, ApiTypeOK
  <2> QED
    BY <1>2, <2>1, <2>2, <2>3, WriteIsOwn
<1>5. CASE PutFriendDeleteUserId(c)
  <2>1. \E status \in {200, 404} : Write(c, status, 0, without)
    BY <1>5 DEF PutFriendDeleteUserId
  <2> HIDE DEF without
  <2> QED
    BY <1>3, <1>5, <2>1, WriteIsOwn DEF PutFriendDeleteUserId
<1> QED
  BY <1>4, <1>5 DEF HandleFriend

LEMMA PostIsOwn ==
    ASSUME ApiTypeOK, NEW c \in Clients,
           PostPostCreate(c) \/ PutPostUpdate(c) \/ PutPostDeleteId(c)
    PROVE  OwnStep(c)
<1> DEFINE q == req[c].q
           id == db.made + 1
           post == [id |-> id, owner |-> q.token, text |-> "new"]
           own == OwnPost(q, db)
           made == [db EXCEPT !.posts = @ \cup {post}, !.made = id]
           edited == [db EXCEPT !.posts = (@ \ own) \cup {[p EXCEPT !.text = "edited"] : p \in own}]
           deleted == [db EXCEPT !.posts = @ \ own]
           status == PostStatus(q, db)
<1>1. db \in Database /\ db.posts \subseteq Post
  BY TypeFacts DEF Database
<1>2. own \subseteq db.posts /\ \A p \in own : p.owner = q.token
  BY DEF OwnPost
<1>3. \A u \in Ids \ {q.token} : Belongs(u, made) = Belongs(u, db)
  <2>1. post.owner = q.token
    OBVIOUS
  <2>2. made.posts = db.posts \cup {post} /\ made.friends = db.friends
    BY <1>1 DEF Database
  <2> QED
    BY <2>1, <2>2 DEF Belongs
<1>4. \A u \in Ids \ {q.token} : Belongs(u, edited) = Belongs(u, db)
  <2> DEFINE new == {[p EXCEPT !.text = "edited"] : p \in own}
  <2>1. \A p \in new : p.owner = q.token
    BY <1>1, <1>2 DEF Post
  <2> HIDE DEF own, new
  <2>2. edited.posts = (db.posts \ own) \cup new /\ edited.friends = db.friends
    BY <1>1 DEF Database, new
  <2> QED
    BY <1>2, <2>1, <2>2 DEF Belongs
<1>5. \A u \in Ids \ {q.token} : Belongs(u, deleted) = Belongs(u, db)
  <2>1. deleted.posts = db.posts \ own /\ deleted.friends = db.friends
    BY <1>1 DEF Database
  <2> QED
    BY <1>2, <2>1 DEF Belongs
<1>6. CASE PostPostCreate(c)
  <2>1. Write(c, 200, id, made) \/ Write(c, 404, 0, db)
    BY <1>6 DEF PostPostCreate
  <2> HIDE DEF made, id
  <2> QED
    BY <1>3, <1>6, <2>1, WriteIsOwn DEF PostPostCreate
<1>7. CASE PutPostUpdate(c)
  <2>1. Write(c, status, 0, edited)
    BY <1>7 DEF PutPostUpdate
  <2> HIDE DEF edited, status
  <2> QED
    BY <1>4, <1>7, <2>1, WriteIsOwn DEF PutPostUpdate
<1>8. CASE PutPostDeleteId(c)
  <2>1. Write(c, status, 0, deleted)
    BY <1>8 DEF PutPostDeleteId
  <2> HIDE DEF deleted, status
  <2> QED
    BY <1>5, <1>8, <2>1, WriteIsOwn DEF PutPostDeleteId
<1> QED
  BY <1>6, <1>7, <1>8

\* The other steps leave the master as it is.
LEMMA OthersKeep ==
    ASSUME NEW c \in Clients,
           \/ (\E q \in Request : Send(c, q)) \/ Receive(c) \/ LoseReply(c) \/ Refuse(c)
           \/ PostLogin(c) \/ GetUserGetId(c) \/ GetUserMe(c) \/ GetUserSearch(c)
           \/ GetPostGetId(c) \/ GetPostFeed(c) \/ HandleOther(c)
    PROVE  db' = db
<1>1. ASSUME NEW status, NEW truth, NEW value, NEW page, Read(c, status, truth, value, page)
      PROVE  db' = db
  BY <1>1 DEF Read
<1>2. CASE PostLogin(c) \/ GetUserGetId(c) \/ GetUserMe(c) \/ GetUserSearch(c) \/ GetPostGetId(c)
  BY <1>1, <1>2 DEF PostLogin, GetUserGetId, GetUserMe, GetUserSearch, GetPostGetId
<1>3. CASE GetPostFeed(c)
  BY <1>1, <1>3 DEF GetPostFeed
<1>4. CASE HandleOther(c)
  BY <1>1, <1>4 DEF HandleOther, GetDialogUserIdList, PostDialogUserIdSend, PostFeedPosted,
                    CacheInvalidate
<1>5. CASE (\E q \in Request : Send(c, q)) \/ Receive(c) \/ LoseReply(c) \/ Refuse(c)
  BY <1>5 DEF Send, Receive, LoseReply, Refuse
<1> QED
  BY <1>2, <1>3, <1>4, <1>5

\* Nothing of a user changes but by a request with that user's token.
THEOREM OwnChangesOnly == ApiSpec => OnlyOwnChanges
<1> DEFINE Own == \A u \in Ids : Belongs(u, db') # Belongs(u, db) =>
                     \E c \in Clients : /\ req[c].stage = "sent" /\ req[c].q.token = u
                                        /\ req'[c].stage = "answered"
<1>1. ApiTypeOK /\ [ApiNext]_apiVars => [Own]_apiVars
  <2> SUFFICES ASSUME ApiTypeOK, [ApiNext]_apiVars
               PROVE  Own \/ UNCHANGED apiVars
    OBVIOUS
  <2>1. ASSUME NEW c \in Clients, OwnStep(c)
        PROVE  Own
    BY <2>1 DEF OwnStep
  <2>2. CASE db' = db
    BY <2>2
  <2> HIDE DEF Own
  <2>3. CASE \E c \in Clients : HandleUser(c)
    BY <2>1, <2>2, <2>3, RegisterIsOwn, OthersKeep DEF HandleUser
  <2>4. CASE \E c \in Clients : HandleFriend(c)
    BY <2>1, <2>4, FriendIsOwn
  <2>5. CASE \E c \in Clients : HandlePost(c)
    BY <2>1, <2>2, <2>5, PostIsOwn, OthersKeep DEF HandlePost
  <2>6. CASE \E c \in Clients : \/ (\E q \in Request : Send(c, q)) \/ Receive(c)
                               \/ LoseReply(c) \/ Refuse(c) \/ HandleOther(c)
    BY <2>2, <2>6, OthersKeep
  <2>7. CASE Replicate
    BY <2>2, <2>7 DEF Replicate
  <2> QED
    BY <2>3, <2>4, <2>5, <2>6, <2>7 DEF ApiNext, Serve
<1> QED
  BY <1>1, ApiTypeCorrect, PTL DEF ApiSpec, OnlyOwnChanges

-----------------------------------------------------------------------------
(* The API: pages of a feed. *)

\* The sum that wraps around is below every index.
LEMMA PageOfIsWindow ==
    ASSUME NEW limit \in 1..MaxInt, NEW offset \in 0..MaxInt, NEW len \in 0..MaxFeedLength,
           Wrap(offset + limit) <= MaxFeedLength
    PROVE  IF offset + limit > MaxInt
           THEN PageOf(limit, offset, len) = {}
           ELSE /\ offset + limit <= MaxFeedLength
                /\ PageOf(limit, offset, len)
                      = offset..(offset + limit - 1) \cap 0..(len - 1)
<1>1. CASE offset + limit > MaxInt
  <2>1. Wrap(offset + limit) < 0
    BY <1>1, ApiAssumption DEF Wrap
  <2>2. Wrap(offset + limit) \in Int
    BY ApiAssumption DEF Wrap
  <2>3. PageOf(limit, offset, len) = {}
    BY <2>1, <2>2, ApiAssumption DEF PageOf
  <2> QED
    BY <1>1, <2>3
<1>2. CASE ~(offset + limit > MaxInt)
  <2>1. Wrap(offset + limit) = offset + limit
    BY <1>2 DEF Wrap
  <2>2. PageOf(limit, offset, len) = offset..(offset + limit - 1) \cap 0..(len - 1)
    BY <2>1, ApiAssumption DEF PageOf
  <2> QED
    BY <1>2, <2>1, <2>2
<1> QED
  BY <1>1, <1>2

\* An answer keeps PageIsWindow unless it is a wrong page of a feed.
LEMMA AnswerWindow ==
    ASSUME ApiTypeOK, PageIsWindow, NEW c \in Clients,
           NEW status, NEW value, NEW page, NEW doubt \in BOOLEAN,
           Answer(c, status, value, page, doubt),
           req[c].q.op = "GetPostFeed" /\ status = 200 => IsWindow(req[c].q, page)
    PROVE  PageIsWindow'
<1> SUFFICES ASSUME NEW d \in Clients, req'[d].stage = "answered",
                    req'[d].q.op = "GetPostFeed", req'[d].status = 200
             PROVE  IsWindow(req'[d].q, req'[d].page)
  BY DEF PageIsWindow
<1>1. CASE d = c
  <2>1. req'[c] = AnswerOf(c, status, value, page, doubt)
    BY AnswerIs
  <2>2. req'[c].q = req[c].q /\ req'[c].page = page /\ req'[c].status = status
    BY <2>1 DEF AnswerOf
  <2> QED
    BY <1>1, <2>2
<1>2. CASE d # c
  <2>1. req'[d] = req[d]
    BY <1>2, AnswerIs
  <2> QED
    BY <2>1 DEF PageIsWindow
<1> QED
  BY <1>1, <1>2

\* A step after which the requests that changed are not answered with 200.
LEMMA PlainWindow ==
    ASSUME PageIsWindow, \A d \in Clients : req'[d] = req[d] \/ req'[d].status # 200
    PROVE  PageIsWindow'
BY DEF PageIsWindow

\* A failed statement is such a step.
LEMMA FailWindow ==
    ASSUME ApiTypeOK, PageIsWindow, NEW c \in Clients, Fail(c)
    PROVE  PageIsWindow'
<1>1. \A d \in Clients : req'[d] = req[d] \/ req'[d].status # 200
  BY DEF Fail, Answer, ApiTypeOK
<1> QED
  BY <1>1, PlainWindow

\* The page between the two ints is the part that was asked for, whatever became
\* of a number that no int is equal to.
LEMMA FeedPageIsWindow ==
    ASSUME NEW q \in Request, q.op = "GetPostFeed", ~NotValid(q),
           NEW limit \in ToInt(q.limit), NEW offset \in ToInt(q.offset),
           InFeed(limit, offset), NEW len \in 0..MaxFeedLength
    PROVE  IsWindow(q, [len |-> len, shown |-> PageOf(limit, offset, len)])
<1> DEFINE first == q.offset \div 2
           many == q.limit \div 2
<1>1. first \in Nat /\ many \in Nat \ {0}
  <2>1. q.limit \in Int /\ q.offset \in Int
    BY ApiAssumption DEF Request
  <2>2. q.limit >= 2 /\ q.offset >= 0
    BY <2>1 DEF NotValid
  <2> QED
    BY <2>1, <2>2
<1>2. /\ IF many <= MaxInt THEN limit = many ELSE limit \in {-(MaxInt + 1), MaxInt}
      /\ IF first <= MaxInt THEN offset = first ELSE offset \in {-(MaxInt + 1), MaxInt}
  <2>1. /\ ToInt(q.limit) = IF many <= MaxInt THEN {many} ELSE {-(MaxInt + 1), MaxInt}
        /\ ToInt(q.offset) = IF first <= MaxInt THEN {first} ELSE {-(MaxInt + 1), MaxInt}
    BY Zenon DEF ToInt
  <2> HIDE DEF first, many
  <2> QED
    BY <2>1
<1> HIDE DEF first, many
<1>3. limit \in 1..MaxInt /\ offset \in 0..MaxInt
  <2>1. limit > 0 /\ offset >= 0
    BY DEF InFeed
  <2>2. limit \in 1..MaxInt
    BY <1>1, <1>2, <2>1, ApiAssumption
  <2>3. offset \in 0..MaxInt
    BY <1>1, <1>2, <2>1, ApiAssumption
  <2> QED
    BY <2>2, <2>3
<1>4. IF offset + limit > MaxInt
      THEN PageOf(limit, offset, len) = {}
      ELSE /\ offset + limit <= MaxFeedLength
           /\ PageOf(limit, offset, len) = offset..(offset + limit - 1) \cap 0..(len - 1)
  BY <1>3, PageOfIsWindow DEF InFeed
<1>5. first + many > MaxInt <=> offset + limit > MaxInt
  BY <1>1, <1>2, <1>3, <1>4, ApiAssumption
<1>6. ~(first + many > MaxInt) => offset = first /\ limit = many
  BY <1>1, <1>2, ApiAssumption
<1>7. IF first + many > MaxInt
      THEN PageOf(limit, offset, len) = {}
      ELSE /\ first + many <= MaxFeedLength
           /\ PageOf(limit, offset, len) = first..(first + many - 1) \cap 0..(len - 1)
  BY <1>4, <1>5, <1>6
<1> DEFINE page == [len |-> len, shown |-> PageOf(limit, offset, len)]
<1>8. page.len = len /\ page.shown = PageOf(limit, offset, len)
  OBVIOUS
<1> HIDE DEF page
<1>9. IF first + many > MaxInt
      THEN page.shown = {}
      ELSE /\ first + many <= MaxFeedLength
           /\ page.shown = first..(first + many - 1) \cap 0..(page.len - 1)
  BY <1>7, <1>8
<1>10. q.offset \div 2 = first /\ q.limit \div 2 = many /\ page.len \in Nat
  BY <1>8, ApiAssumption DEF first, many
<1>11. IsWindow(q, page)
  <2>1. CASE first + many > MaxInt
    BY <1>1, <1>9, <1>10, <2>1 DEF IsWindow
  <2>2. CASE ~(first + many > MaxInt)
    BY <1>1, <1>9, <1>10, <2>2 DEF IsWindow
  <2> QED
    BY <2>1, <2>2
<1> QED
  BY <1>11 DEF page

LEMMA FeedWindow ==
    ASSUME ApiTypeOK, PageIsWindow, NEW c \in Clients, GetPostFeed(c)
    PROVE  PageIsWindow'
<1> DEFINE q == req[c].q
<1>1. q \in Request /\ q.op = "GetPostFeed" /\ ~NotValid(q)
  BY TypeFacts DEF GetPostFeed, Serving
<1>2. CASE Answer(c, 400, 0, NoPage, FALSE)
  <2>1. \A d \in Clients : req'[d] = req[d] \/ req'[d].status # 200
    BY <1>2 DEF Answer, ApiTypeOK
  <2> QED
    BY <2>1, PlainWindow
<1>3. ASSUME NEW limit \in ToInt(q.limit), NEW offset \in ToInt(q.offset),
             InFeed(limit, offset), NEW len \in 0..MaxFeedLength,
             Read(c, 200, 200, 0, [len |-> len, shown |-> PageOf(limit, offset, len)])
      PROVE  PageIsWindow'
  <2> DEFINE page == [len |-> len, shown |-> PageOf(limit, offset, len)]
  <2>1. IsWindow(q, page)
    BY <1>1, <1>3, FeedPageIsWindow
  <2> HIDE DEF page
  <2>2. CASE Answer(c, 200, 0, page, 200 # 200)
    BY <2>1, <2>2, AnswerWindow
  <2> QED
    BY <1>3, <2>2, FailWindow DEF Read, page
<1> QED
  BY <1>2, <1>3 DEF GetPostFeed

\* Every other handler answers an operation that has no page.
LEMMA OtherWindow ==
    ASSUME ApiTypeOK, PageIsWindow, NEW c \in Clients, NEW op, op # "GetPostFeed",
           Serving(c, op),
           NEW status, NEW truth, NEW value, NEW page, NEW new,
           Read(c, status, truth, value, page) \/ Write(c, status, value, new)
    PROVE  PageIsWindow'
<1>1. req[c].q.op # "GetPostFeed"
  BY DEF Serving
<1>2. CASE Answer(c, status, value, page, status # truth)
  BY <1>1, <1>2, AnswerWindow
<1>3. CASE Answer(c, status, value, NoPage, FALSE)
  BY <1>1, <1>3, AnswerWindow
<1> QED
  BY <1>2, <1>3, FailWindow DEF Read, Write

LEMMA ReadWindow ==
    ASSUME ApiTypeOK, PageIsWindow, NEW c \in Clients,
           \/ PostLogin(c) \/ GetUserGetId(c) \/ GetUserMe(c) \/ GetUserSearch(c)
           \/ GetPostGetId(c) \/ HandleOther(c)
    PROVE  PageIsWindow'
<1>1. CASE PostLogin(c)
  BY <1>1, OtherWindow DEF PostLogin
<1>2. CASE GetUserGetId(c) \/ GetUserMe(c) \/ GetUserSearch(c)
  BY <1>2, OtherWindow DEF GetUserGetId, GetUserMe, GetUserSearch
<1>3. CASE GetPostGetId(c)
  BY <1>3, OtherWindow DEF GetPostGetId
<1>4. CASE HandleOther(c)
  BY <1>4, OtherWindow DEF HandleOther, GetDialogUserIdList, PostDialogUserIdSend,
                           PostFeedPosted, CacheInvalidate
<1> QED
  BY <1>1, <1>2, <1>3, <1>4

LEMMA WriteWindow ==
    ASSUME ApiTypeOK, PageIsWindow, NEW c \in Clients,
           \/ PostUserRegister(c) \/ HandleFriend(c) \/ PostPostCreate(c)
           \/ PutPostUpdate(c) \/ PutPostDeleteId(c)
    PROVE  PageIsWindow'
<1>0. ASSUME NEW status \in {400, 500, Closed}, Answer(c, status, 0, NoPage, FALSE)
      PROVE  PageIsWindow'
  <2>1. \A d \in Clients : req'[d] = req[d] \/ req'[d].status # 200
    BY <1>0 DEF Answer, ApiTypeOK, Closed
  <2> QED
    BY <2>1, PlainWindow
<1>1. CASE PostUserRegister(c)
  <2> DEFINE user == Cardinality(db.users) + 1
             with == [db EXCEPT !.users = @ \cup {user}]
  <2>1. \/ Answer(c, 400, 0, NoPage, FALSE) \/ Answer(c, 500, 0, NoPage, FALSE)
        \/ Answer(c, Closed, 0, NoPage, FALSE) \/ Write(c, 200, user, with)
    BY <1>1, Zenon DEF PostUserRegister
  <2>2. Serving(c, "PostUserRegister")
    BY <1>1 DEF PostUserRegister
  <2> QED
    BY <1>0, <2>1, <2>2, OtherWindow
<1>2. CASE PutFriendSetUserId(c)
  <2>1. \/ Answer(c, 500, 0, NoPage, FALSE)
        \/ \E status, new : Write(c, status, 0, new)
    BY <1>2, Zenon DEF PutFriendSetUserId
  <2>2. Serving(c, "PutFriendSetUserId")
    BY <1>2 DEF PutFriendSetUserId
  <2> QED
    BY <1>0, <2>1, <2>2, OtherWindow
<1>3. CASE PutFriendDeleteUserId(c)
  BY <1>3, OtherWindow DEF PutFriendDeleteUserId
<1>4. CASE PostPostCreate(c)
  BY <1>4, OtherWindow DEF PostPostCreate
<1>5. CASE PutPostUpdate(c)
  BY <1>5, OtherWindow DEF PutPostUpdate
<1>6. CASE PutPostDeleteId(c)
  BY <1>6, OtherWindow DEF PutPostDeleteId
<1> QED
  BY <1>1, <1>2, <1>3, <1>4, <1>5, <1>6 DEF HandleFriend

\* The steps of clients and of the middlewares.
LEMMA ClientWindow ==
    ASSUME ApiTypeOK, PageIsWindow, NEW c \in Clients,
           (\E q \in Request : Send(c, q)) \/ Receive(c) \/ LoseReply(c) \/ Refuse(c)
    PROVE  PageIsWindow'
<1>1. CASE LoseReply(c) \/ Refuse(c)
  <2>1. \A d \in Clients : req'[d] = req[d] \/ req'[d].status # 200
    BY <1>1 DEF LoseReply, Refuse, Answer, ApiTypeOK, Closed
  <2> QED
    BY <2>1, PlainWindow
<1>2. CASE (\E q \in Request : Send(c, q)) \/ Receive(c)
  <2>1. ASSUME NEW d \in Clients, req'[d].stage = "answered"
        PROVE  req'[d] = req[d]
    <3>1. CASE Receive(c)
      BY <2>1, <3>1, IdleType DEF Receive, ApiTypeOK
    <3>2. CASE \E q \in Request : Send(c, q)
      <4>1. PICK q \in Request : Send(c, q)
        BY <3>2
      <4>2. req[c] \in Call
        BY DEF ApiTypeOK
      <4>3. req' = [req EXCEPT ![c] = [[req[c] EXCEPT !.q = q] EXCEPT !.stage = "sent"]]
        BY <4>1 DEF Send, ApiTypeOK
      <4>4. \A call \in Call : [[call EXCEPT !.q = q] EXCEPT !.stage = "sent"].stage = "sent"
        BY DEF Call
      <4> QED
        BY <2>1, <4>2, <4>3, <4>4 DEF ApiTypeOK
    <3> QED
      BY <1>2, <3>1, <3>2
  <2> QED
    BY <2>1 DEF PageIsWindow
<1> QED
  BY <1>1, <1>2

\* A page is the part of the feed that was asked for, and nothing if the end of
\* that part is not an int.
THEOREM PagesAreWindows == ApiSpec => []PageIsWindow
<1>1. ApiInit => PageIsWindow
  BY DEF ApiInit, InitWith, PageIsWindow, Idle
<1>2. ApiTypeOK /\ PageIsWindow /\ [ApiNext]_apiVars => PageIsWindow'
  <2> SUFFICES ASSUME ApiTypeOK, PageIsWindow, [ApiNext]_apiVars
               PROVE  PageIsWindow'
    OBVIOUS
  <2>1. CASE \E c \in Clients : HandleUser(c) \/ HandleFriend(c) \/ HandlePost(c) \/ HandleOther(c)
    BY <2>1, ReadWindow, WriteWindow, FeedWindow DEF HandleUser, HandlePost
  <2>2. CASE \E c \in Clients : \/ (\E q \in Request : Send(c, q)) \/ Receive(c)
                               \/ LoseReply(c) \/ Refuse(c)
    BY <2>2, ClientWindow
  <2>3. CASE Replicate \/ UNCHANGED apiVars
    BY <2>3 DEF Replicate, apiVars, PageIsWindow
  <2> QED
    BY <2>1, <2>2, <2>3 DEF ApiNext, Serve
<1> QED
  BY <1>1, <1>2, ApiTypeCorrect, PTL DEF ApiSpec

-----------------------------------------------------------------------------
(* The script, step by step. *)

Step == [op : Operations, by : Names, id : Names, form : Forms]

LEMMA UserScript ==
    /\ UserSteps \in Seq(Step) /\ Len(UserSteps) = 6
    /\ UserSteps[1] = With("right", "nobody", "PostUserRegister")
    /\ UserSteps[2] = With("right", "me", "PostLogin")
    /\ UserSteps[3] = Do("PostFeedPosted", "me", "nobody")
    /\ UserSteps[4] = Do("GetUserGetId", "me", "me")
    /\ UserSteps[5] = Do("GetUserMe", "me", "nobody")
    /\ UserSteps[6] = Do("GetUserSearch", "me", "nobody")
<1>1. \A op \in Operations, n, x \in Names : Do(op, n, x) \in Step
  BY DEF Do, Step, Forms
<1>2. \A op \in Operations, n \in Names : With("right", n, op) \in Step
  BY DEF With, Step, Forms, Names
<1>3. {"PostUserRegister", "PostLogin", "PostFeedPosted", "GetUserGetId", "GetUserMe",
       "GetUserSearch"} \subseteq Operations /\ {"me", "nobody"} \subseteq Names
  BY DEF Operations, OpenOps, ManualOps, UserOps, Names
<1> QED
  BY <1>1, <1>2, <1>3 DEF UserSteps

LEMMA FriendScript ==
    /\ FriendSteps \in Seq(Step) /\ Len(FriendSteps) = 3
    /\ FriendSteps[1] = With("right", "nobody", "PostUserRegister")
    /\ FriendSteps[2] = Do("PutFriendSetUserId", "me", "friend")
    /\ FriendSteps[3] = With("right", "friend", "PostLogin")
<1>1. \A op \in Operations, n, x \in Names : Do(op, n, x) \in Step
  BY DEF Do, Step, Forms
<1>2. \A op \in Operations, n \in Names : With("right", n, op) \in Step
  BY DEF With, Step, Forms, Names
<1>3. {"PostUserRegister", "PostLogin", "PutFriendSetUserId"} \subseteq Operations
         /\ {"me", "friend", "nobody"} \subseteq Names
  BY DEF Operations, OpenOps, FriendOps, Names
<1> QED
  BY <1>1, <1>2, <1>3 DEF FriendSteps

LEMMA PostScript ==
    /\ PostSteps \in Seq(Step) /\ Len(PostSteps) = 6
    /\ PostSteps[1] = Do("PostPostCreate", "friend", "nobody")
    /\ PostSteps[2] = Do("PutPostUpdate", "friend", "post")
    /\ PostSteps[3] = Do("GetPostGetId", "friend", "post")
    /\ PostSteps[4] = Do("GetPostFeed", "me", "nobody")
    /\ PostSteps[5] = Do("PutPostDeleteId", "friend", "post")
    /\ PostSteps[6] = Do("PutFriendDeleteUserId", "me", "friend")
<1>1. \A op \in Operations, n, x \in Names : Do(op, n, x) \in Step
  BY DEF Do, Step, Forms
<1>2. PostOps \subseteq Operations /\ "PutFriendDeleteUserId" \in Operations
         /\ {"me", "friend", "post", "nobody"} \subseteq Names
  BY DEF Operations, FriendOps, Names
<1> QED
  BY <1>1, <1>2 DEF PostSteps, PostOps

LEMMA DialogScript ==
    /\ DialogSteps \in Seq(Step) /\ Len(DialogSteps) = 4
    /\ \A k \in 1..4 : \E op \in DialogOps, by, id \in {"me", "friend"} :
          DialogSteps[k] = Do(op, by, id)
<1>1. \A op \in Operations, n, x \in Names : Do(op, n, x) \in Step
  BY DEF Do, Step, Forms
<1>2. DialogOps \subseteq Operations /\ {"me", "friend"} \subseteq Names
  BY DEF Operations, Names
<1>3. DialogSteps \in Seq(Step) /\ Len(DialogSteps) = 4
  BY <1>1, <1>2 DEF DialogSteps, DialogOps
<1>4. /\ DialogSteps[1] = Do("PostDialogUserIdSend", "me", "friend")
      /\ DialogSteps[2] = Do("PostDialogUserIdSend", "friend", "me")
      /\ DialogSteps[3] = Do("GetDialogUserIdList", "me", "friend")
      /\ DialogSteps[4] = Do("GetDialogUserIdList", "friend", "me")
  BY DEF DialogSteps
<1>5. {"PostDialogUserIdSend", "GetDialogUserIdList"} \subseteq DialogOps
         /\ \A k \in 1..4 : k \in {1, 2, 3, 4}
  BY DEF DialogOps
<1> QED
  BY <1>3, <1>4, <1>5

\* Why a request of the second part is refused.
NoToken(s) == s.by = "nobody" /\ s.op \notin OpenOps \cup {"CacheInvalidate"}
WrongPassword(s) == s.op = "PostLogin" /\ s.form = "wrong"
NoSuchThing(s) ==
    /\ s.id = "nobody"
    /\ s.op \in {"GetUserGetId", "PutFriendSetUserId", "PutFriendDeleteUserId",
                 "PutPostUpdate", "PutPostDeleteId", "GetPostGetId"}

LEMMA BadScript ==
    /\ BadSteps \in Seq(Step) /\ Len(BadSteps) = 13
    /\ \A k \in 1..13 : \/ NoToken(BadSteps[k]) \/ WrongPassword(BadSteps[k])
                        \/ NoSuchThing(BadSteps[k])
<1>1. \A op \in Operations, n, x \in Names : Do(op, n, x) \in Step
  BY DEF Do, Step, Forms
<1>2. \A op \in Operations, n \in Names : With("wrong", n, op) \in Step
  BY DEF With, Step, Forms, Names
<1>3. Operations = DialogOps \cup FriendOps \cup PostOps \cup UserOps \cup OpenOps
                      \cup ManualOps /\ {"me", "friend", "nobody"} \subseteq Names
  BY DEF Operations, Names
<1>4. BadSteps \in Seq(Step) /\ Len(BadSteps) = 13
  BY <1>1, <1>2, <1>3 DEF BadSteps, DialogOps, FriendOps, PostOps, UserOps, OpenOps
<1>5. /\ BadSteps[1] = With("wrong", "me", "PostLogin")
      /\ BadSteps[2] = Do("GetUserGetId", "me", "nobody")
      /\ BadSteps[3] = Do("GetUserMe", "nobody", "nobody")
      /\ BadSteps[4] = Do("GetUserSearch", "nobody", "nobody")
      /\ BadSteps[5] = Do("PutFriendSetUserId", "me", "nobody")
      /\ BadSteps[6] = Do("PutFriendDeleteUserId", "me", "nobody")
      /\ BadSteps[7] = Do("PostPostCreate", "nobody", "nobody")
      /\ BadSteps[8] = Do("PutPostUpdate", "me", "nobody")
      /\ BadSteps[9] = Do("PutPostDeleteId", "me", "nobody")
      /\ BadSteps[10] = Do("GetPostGetId", "me", "nobody")
      /\ BadSteps[11] = Do("GetPostFeed", "nobody", "nobody")
      /\ BadSteps[12] = Do("PostDialogUserIdSend", "nobody", "me")
      /\ BadSteps[13] = Do("GetDialogUserIdList", "nobody", "friend")
  BY DEF BadSteps
<1>6. WrongPassword(With("wrong", "me", "PostLogin"))
  BY DEF WrongPassword, With
<1>7. \A op \in {"GetUserMe", "GetUserSearch", "PostPostCreate", "GetPostFeed",
               "PostDialogUserIdSend", "GetDialogUserIdList"}, x \in Names :
         NoToken(Do(op, "nobody", x))
  BY DEF NoToken, Do, OpenOps
<1>8. \A op \in {"GetUserGetId", "PutFriendSetUserId", "PutFriendDeleteUserId",
               "PutPostUpdate", "PutPostDeleteId", "GetPostGetId"}, x \in Names :
         NoSuchThing(Do(op, x, "nobody"))
  BY DEF NoSuchThing, Do
<1>9. \A k \in 1..13 : k \in {1} \cup {3, 4, 7, 11, 12, 13} \cup {2, 5, 6, 8, 9, 10}
  OBVIOUS
<1>10. \A k \in {3, 4, 7, 11, 12, 13} : NoToken(BadSteps[k])
  BY <1>3, <1>5, <1>7
<1>11. \A k \in {2, 5, 6, 8, 9, 10} : NoSuchThing(BadSteps[k])
  BY <1>3, <1>5, <1>8
<1> QED
  BY <1>4, <1>5, <1>6, <1>9, <1>10, <1>11

\* u is s, then t.
IsConcat(u, s, t) ==
    /\ u \in Seq(Step) /\ Len(u) = Len(s) + Len(t)
    /\ \A k \in 1..Len(u) : u[k] = IF k <= Len(s) THEN s[k] ELSE t[k - Len(s)]

LEMMA ConcatIs ==
    ASSUME NEW s \in Seq(Step), NEW t \in Seq(Step)
    PROVE  s \o t \in Seq(Step) /\ IsConcat(s \o t, s, t)
BY ConcatProperties DEF IsConcat

\* The first part, as it is put together.
UpToFriends(u, a, b) ==
    Len(u) = 9 /\ \A k \in 1..9 : u[k] = IF k <= 6 THEN a[k] ELSE b[k - 6]

UpToPosts(u, a, b, c) ==
    /\ Len(u) = 15
    /\ \A k \in 1..15 : u[k] = IF k <= 6 THEN a[k]
                               ELSE IF k <= 9 THEN b[k - 6] ELSE c[k - 9]

UpToDialogs(u, a, b, c, d) ==
    /\ Len(u) = 19
    /\ \A k \in 1..19 : u[k] = IF k <= 6 THEN a[k]
                               ELSE IF k <= 9 THEN b[k - 6]
                               ELSE IF k <= 15 THEN c[k - 9] ELSE d[k - 15]

LEMMA FriendsFollow ==
    ASSUME NEW a, NEW b, NEW u, IsConcat(u, a, b), Len(a) = 6, Len(b) = 3
    PROVE  UpToFriends(u, a, b)
BY DEF IsConcat, UpToFriends

LEMMA PostsFollow ==
    ASSUME NEW a, NEW b, NEW c, NEW u, NEW v, UpToFriends(u, a, b), IsConcat(v, u, c), Len(c) = 6
    PROVE  UpToPosts(v, a, b, c)
BY DEF IsConcat, UpToFriends, UpToPosts

LEMMA DialogsFollow ==
    ASSUME NEW a, NEW b, NEW c, NEW d, NEW u, NEW v,
           UpToPosts(u, a, b, c), IsConcat(v, u, d), Len(d) = 4
    PROVE  UpToDialogs(v, a, b, c, d)
BY DEF IsConcat, UpToPosts, UpToDialogs

LEMMA GoodScript ==
    /\ UpToPosts(UserSteps \o FriendSteps \o PostSteps, UserSteps, FriendSteps, PostSteps)
    /\ GoodSteps \in Seq(Step)
    /\ UpToDialogs(GoodSteps, UserSteps, FriendSteps, PostSteps, DialogSteps)
<1> DEFINE U == UserSteps
           F == FriendSteps
           P == PostSteps
           D == DialogSteps
<1>1. /\ U \in Seq(Step) /\ Len(U) = 6
      /\ F \in Seq(Step) /\ Len(F) = 3
      /\ P \in Seq(Step) /\ Len(P) = 6
      /\ D \in Seq(Step) /\ Len(D) = 4
  BY UserScript, FriendScript, PostScript, DialogScript
<1>2. GoodSteps = ((U \o F) \o P) \o D
  BY DEF GoodSteps
<1> HIDE DEF U, F, P, D
<1>3. U \o F \in Seq(Step) /\ IsConcat(U \o F, U, F)
  BY <1>1, ConcatIs, Zenon
<1>4. (U \o F) \o P \in Seq(Step) /\ IsConcat((U \o F) \o P, U \o F, P)
  BY <1>1, <1>3, ConcatIs, Zenon
<1>5. GoodSteps \in Seq(Step) /\ IsConcat(GoodSteps, (U \o F) \o P, D)
  BY <1>1, <1>2, <1>4, ConcatIs, Zenon
<1>6. UpToFriends(U \o F, U, F)
  BY <1>1, <1>3, FriendsFollow, Zenon
<1>7. UpToPosts((U \o F) \o P, U, F, P)
  BY <1>1, <1>4, <1>6, PostsFollow, Zenon
<1>8. UpToDialogs(GoodSteps, U, F, P, D)
  BY <1>1, <1>5, <1>7, DialogsFollow, Zenon
<1> QED
  BY <1>5, <1>7, <1>8, Zenon DEF U, F, P, D

LEMMA ScriptIs ==
    /\ Len(Script) = 32 /\ Len(GoodSteps) = 19
    /\ \A k \in 1..32 : Script[k] \in Step
    /\ \A k \in 1..19 : Script[k] = GoodSteps[k]
    /\ \A k \in 20..32 : \/ NoToken(Script[k]) \/ WrongPassword(Script[k])
                         \/ NoSuchThing(Script[k])
<1>1. IsConcat(Script, GoodSteps, BadSteps)
  BY GoodScript, BadScript, ConcatIs, Zenon DEF Script
<1>2. Len(GoodSteps) = 19 /\ Len(BadSteps) = 13
  BY GoodScript, BadScript DEF UpToDialogs
<1>3. /\ Script \in Seq(Step) /\ Len(Script) = 32
      /\ \A k \in 1..32 : Script[k] = IF k <= 19 THEN GoodSteps[k] ELSE BadSteps[k - 19]
  BY <1>1, <1>2 DEF IsConcat
<1>4. \A k \in 1..32 : Script[k] \in Step
  BY <1>3, ElementOfSeq
<1>5. ASSUME NEW k \in 20..32
      PROVE  NoToken(Script[k]) \/ WrongPassword(Script[k]) \/ NoSuchThing(Script[k])
  <2>1. k - 19 \in 1..13 /\ k \in 1..32 /\ ~(k <= 19)
    OBVIOUS
  <2>2. Script[k] = BadSteps[k - 19]
    BY <1>3, <2>1
  <2> QED
    BY <2>1, <2>2, BadScript
<1> QED
  BY <1>2, <1>3, <1>4, <1>5

\* The steps that write, and the logins before them.
LEMMA WritingSteps ==
    /\ Script[1] = With("right", "nobody", "PostUserRegister")
    /\ Script[2] = With("right", "me", "PostLogin")
    /\ Script[7] = With("right", "nobody", "PostUserRegister")
    /\ Script[8] = Do("PutFriendSetUserId", "me", "friend")
    /\ Script[9] = With("right", "friend", "PostLogin")
    /\ Script[10] = Do("PostPostCreate", "friend", "nobody")
    /\ Script[11] = Do("PutPostUpdate", "friend", "post")
    /\ Script[14] = Do("PutPostDeleteId", "friend", "post")
    /\ Script[15] = Do("PutFriendDeleteUserId", "me", "friend")
BY ScriptIs, GoodScript, UserScript, FriendScript, PostScript DEF UpToDialogs

\* The steps that read.
LEMMA ReadingSteps ==
    /\ Script[3] = Do("PostFeedPosted", "me", "nobody")
    /\ Script[4] = Do("GetUserGetId", "me", "me")
    /\ Script[5] = Do("GetUserMe", "me", "nobody")
    /\ Script[6] = Do("GetUserSearch", "me", "nobody")
    /\ Script[12] = Do("GetPostGetId", "friend", "post")
    /\ Script[13] = Do("GetPostFeed", "me", "nobody")
    /\ \A k \in 16..19 : \E op \in DialogOps, by, id \in {"me", "friend"} :
          Script[k] = Do(op, by, id)
<1>1. \A k \in 1..19 : k > 15 => GoodSteps[k] = DialogSteps[k - 15]
  BY GoodScript DEF UpToDialogs
<1>2. ASSUME NEW k \in 16..19
      PROVE  \E op \in DialogOps, by, id \in {"me", "friend"} : Script[k] = Do(op, by, id)
  <2>1. k - 15 \in 1..4 /\ k \in 1..19 /\ k > 15
    OBVIOUS
  <2>2. Script[k] = GoodSteps[k] /\ GoodSteps[k] = DialogSteps[k - 15]
    BY <1>1, <2>1, ScriptIs
  <2> QED
    BY <2>1, <2>2, DialogScript
<1> QED
  BY <1>2, ScriptIs, GoodScript, UserScript, PostScript DEF UpToDialogs

-----------------------------------------------------------------------------
(* The two clients send what the API takes. *)

DemoTypes ==
    /\ step \in 1..33
    /\ known \in [Names -> Ids \cup {Nobody}] /\ known["nobody"] = Nobody
    /\ tokens \subseteq Names

LEMMA RequestType ==
    ASSUME NEW op \in Operations, NEW token \in Ids \cup {Nobody}, NEW id \in Ids \cup {Nobody},
           NEW form \in Forms, NEW limit \in Numbers, NEW offset \in Numbers
    PROVE  [op |-> op, token |-> token, id |-> id, form |-> form, limit |-> limit,
            offset |-> offset] \in Request
BY DEF Request

LEMMA RequestIs ==
    ASSUME DemoTypes, NEW s \in Step
    PROVE  /\ RequestOf(s) = [op |-> s.op, token |-> TokenOf(s), id |-> known[s.id],
                              form |-> IF s.op \in OpenOps THEN s.form ELSE "",
                              limit |-> IF s.op = "GetPostFeed" THEN 2 * MaxFeedLength ELSE 0,
                              offset |-> 0]
           /\ RequestOf(s) \in Request
<1>1. "GetPostFeed" \notin OpenOps
  BY DEF OpenOps
<1>2. RequestOf(s) = [op |-> s.op, token |-> TokenOf(s), id |-> known[s.id],
                      form |-> IF s.op \in OpenOps THEN s.form ELSE "",
                      limit |-> IF s.op = "GetPostFeed" THEN 2 * MaxFeedLength ELSE 0,
                      offset |-> 0]
  <2>1. CASE s.op \in OpenOps
    BY <1>1, <2>1 DEF RequestOf, ByBody, ByPath, NoRequest
  <2>2. CASE s.op = "GetPostFeed"
    BY <1>1, <2>2 DEF RequestOf, ByQuery, ByPath, NoRequest
  <2>3. CASE s.op \notin OpenOps /\ s.op # "GetPostFeed"
    BY <2>3 DEF RequestOf, ByPath, NoRequest
  <2> QED
    BY <2>1, <2>2, <2>3
<1>3. TokenOf(s) \in Ids \cup {Nobody} /\ known[s.id] \in Ids \cup {Nobody}
  BY DEF TokenOf, DemoTypes, Step
<1>4. /\ s.op \in Operations /\ s.form \in Forms /\ "" \in Forms
      /\ 2 * MaxFeedLength \in Numbers /\ 0 \in Numbers
  BY DemoAssumption DEF Step, Forms
<1> DEFINE form == IF s.op \in OpenOps THEN s.form ELSE ""
           limit == IF s.op = "GetPostFeed" THEN 2 * MaxFeedLength ELSE 0
           id == known[s.id]
           token == TokenOf(s)
           op == s.op
           offset == 0
<1>5. op \in Operations /\ form \in Forms /\ limit \in Numbers /\ offset \in Numbers
  BY <1>4
<1>6. RequestOf(s) = [op |-> op, token |-> token, id |-> id, form |-> form,
                      limit |-> limit, offset |-> offset]
  BY <1>2
<1> HIDE DEF form, limit, id, token, op, offset
<1>7. RequestOf(s) \in Request
  <2>1. token \in Ids \cup {Nobody} /\ id \in Ids \cup {Nobody}
    BY <1>3 DEF token, id
  <2> QED
    BY <1>5, <1>6, <2>1, RequestType
<1> QED
  BY <1>2, <1>7, Zenon

LEMMA OtherRequestIs ==
    ASSUME OtherSend
    PROVE  \E q \in Request : q.token \in {OtherUser, Nobody} /\ Send(Other, q)
<1> USE DEF Blank, NoRequest, Request
<1>1. /\ OtherUser \in Ids /\ Targets \subseteq Ids /\ 0 \in Numbers
      /\ {"", "unfit"} \subseteq Forms /\ OpenOps \subseteq Operations
      /\ FriendOps \cup {"PutPostUpdate", "PutPostDeleteId"} \subseteq Operations
      /\ {"PostPostCreate", "CacheInvalidate", "GetPostFeed"} \subseteq Operations
  BY DemoAssumption DEF OtherUser, Forms, Operations, PostOps, ManualOps
<1>2. CASE \E op \in FriendOps \cup {"PutPostUpdate", "PutPostDeleteId"}, id \in Targets :
              Send(Other, [Blank EXCEPT !.op = op, !.id = id])
  BY <1>1, <1>2
<1>3. CASE \E op \in {"PostPostCreate", "CacheInvalidate"} :
              Send(Other, [Blank EXCEPT !.op = op])
  BY <1>1, <1>3
<1>4. CASE \E op \in OpenOps, form \in Forms :
              Send(Other, [NoRequest EXCEPT !.op = op, !.id = OtherUser, !.form = form])
  BY <1>1, <1>4
<1>5. CASE \E limit \in Numbers, offset \in Numbers :
              Send(Other, [Blank EXCEPT !.op = "GetPostFeed", !.limit = limit,
                                        !.offset = offset])
  BY <1>1, <1>5
<1>6. CASE Send(Other, [Blank EXCEPT !.op = "PutFriendSetUserId", !.form = "unfit"])
  BY <1>1, <1>6 DEF FriendOps
<1> QED
  BY <1>2, <1>3, <1>4, <1>5, <1>6, Zenon DEF OtherSend

-----------------------------------------------------------------------------
(* The API: which handler serves a request, and what every one of them does. *)

LEMMA UserOp ==
    ASSUME NEW c
    PROVE  /\ PostLogin(c) => Serving(c, "PostLogin")
           /\ PostUserRegister(c) => Serving(c, "PostUserRegister")
           /\ GetUserGetId(c) => Serving(c, "GetUserGetId")
           /\ GetUserMe(c) => Serving(c, "GetUserMe")
           /\ GetUserSearch(c) => Serving(c, "GetUserSearch")
<1>1. PostLogin(c) => Serving(c, "PostLogin")
  BY DEF PostLogin
<1>2. PostUserRegister(c) => Serving(c, "PostUserRegister")
  BY DEF PostUserRegister
<1> QED
  BY <1>1, <1>2 DEF GetUserGetId, GetUserMe, GetUserSearch

LEMMA WriteOp ==
    ASSUME NEW c
    PROVE  /\ PutFriendSetUserId(c) => Serving(c, "PutFriendSetUserId")
           /\ PutFriendDeleteUserId(c) => Serving(c, "PutFriendDeleteUserId")
           /\ PostPostCreate(c) => Serving(c, "PostPostCreate")
           /\ PutPostUpdate(c) => Serving(c, "PutPostUpdate")
           /\ PutPostDeleteId(c) => Serving(c, "PutPostDeleteId")
<1>1. PutFriendSetUserId(c) => Serving(c, "PutFriendSetUserId")
  BY DEF PutFriendSetUserId
<1>2. PutFriendDeleteUserId(c) => Serving(c, "PutFriendDeleteUserId")
  BY DEF PutFriendDeleteUserId
<1>3. PostPostCreate(c) => Serving(c, "PostPostCreate")
  BY DEF PostPostCreate
<1> QED
  BY <1>1, <1>2, <1>3 DEF PutPostUpdate, PutPostDeleteId

LEMMA OtherOp ==
    ASSUME NEW c
    PROVE  /\ GetPostGetId(c) => Serving(c, "GetPostGetId")
           /\ GetPostFeed(c) => Serving(c, "GetPostFeed")
           /\ GetDialogUserIdList(c) => Serving(c, "GetDialogUserIdList")
           /\ PostDialogUserIdSend(c) => Serving(c, "PostDialogUserIdSend")
           /\ PostFeedPosted(c) => Serving(c, "PostFeedPosted")
           /\ CacheInvalidate(c) => Serving(c, "CacheInvalidate")
<1>1. GetPostFeed(c) => Serving(c, "GetPostFeed")
  BY DEF GetPostFeed
<1> QED
  BY <1>1 DEF GetPostGetId, GetDialogUserIdList, PostDialogUserIdSend, PostFeedPosted,
              CacheInvalidate

\* A request that passes is served by the handler of its operation.
LEMMA Dispatch ==
    ASSUME NEW c, Serve(c), ~Refuse(c)
    PROVE  /\ ~NotAuthorized(req[c].q) /\ ~NotValid(req[c].q)
           /\ req[c].q.op = "PostLogin" => PostLogin(c)
           /\ req[c].q.op = "PostUserRegister" => PostUserRegister(c)
           /\ req[c].q.op = "GetUserGetId" => GetUserGetId(c)
           /\ req[c].q.op = "GetUserMe" => GetUserMe(c)
           /\ req[c].q.op = "GetUserSearch" => GetUserSearch(c)
           /\ req[c].q.op = "PutFriendSetUserId" => PutFriendSetUserId(c)
           /\ req[c].q.op = "PutFriendDeleteUserId" => PutFriendDeleteUserId(c)
           /\ req[c].q.op = "PostPostCreate" => PostPostCreate(c)
           /\ req[c].q.op = "PutPostUpdate" => PutPostUpdate(c)
           /\ req[c].q.op = "PutPostDeleteId" => PutPostDeleteId(c)
           /\ req[c].q.op = "GetPostGetId" => GetPostGetId(c)
           /\ req[c].q.op = "GetPostFeed" => GetPostFeed(c)
           /\ req[c].q.op = "PostFeedPosted" => PostFeedPosted(c)
           /\ req[c].q.op \in DialogOps => GetDialogUserIdList(c) \/ PostDialogUserIdSend(c)
BY UserOp, WriteOp, OtherOp
   DEF Serve, HandleUser, HandleFriend, HandlePost, HandleOther, Serving, DialogOps

\* The answer of c, and nothing of the other clients.
Answered(c) ==
    /\ req[c].stage = "sent" /\ req'[c].stage = "answered" /\ req'[c].q = req[c].q
    /\ \A d \in Clients \ {c} : req'[d] = req[d]

LEMMA AnswerAnswers ==
    ASSUME ApiTypeOK, NEW c \in Clients, req[c].stage = "sent",
           NEW status, NEW value, NEW page, NEW doubt, Answer(c, status, value, page, doubt)
    PROVE  /\ Answered(c)
           /\ req'[c].status = status /\ req'[c].value = value /\ req'[c].doubt = doubt
<1>1. req'[c] = AnswerOf(c, status, value, page, doubt) /\ \A d \in Clients \ {c} : req'[d] = req[d]
  BY AnswerIs
<1>2. /\ req'[c].q = req[c].q /\ req'[c].stage = "answered"
      /\ req'[c].status = status /\ req'[c].value = value /\ req'[c].doubt = doubt
  BY <1>1 DEF AnswerOf
<1> QED
  BY <1>1, <1>2, Zenon DEF Answered

LEMMA FailIs ==
    ASSUME ApiTypeOK, NEW c \in Clients, req[c].stage = "sent", Fail(c)
    PROVE  Answered(c) /\ req'[c].status = 500 /\ req'[c].doubt
<1>1. req' = [req EXCEPT ![c] = AnswerOf(c, 500, 0, NoPage, TRUE)]
  BY DEF Fail, Answer, AnswerOf
<1>2. req'[c] = AnswerOf(c, 500, 0, NoPage, TRUE) /\ \A d \in Clients \ {c} : req'[d] = req[d]
  BY <1>1 DEF ApiTypeOK
<1>3. /\ req'[c].status = 500 /\ req'[c].doubt
      /\ req'[c].q = req[c].q /\ req'[c].stage = "answered"
  BY <1>2 DEF AnswerOf
<1> QED
  BY <1>2, <1>3 DEF Answered

\* What a handler's statement leaves behind.
LEMMA ReadIs ==
    ASSUME ApiTypeOK, NEW c \in Clients, NEW op, Serving(c, op),
           NEW status, NEW truth, NEW value, NEW page, Read(c, status, truth, value, page)
    PROVE  /\ Answered(c) /\ db' = db
           /\ \/ req'[c].status = status /\ (status = truth \/ req'[c].doubt)
              \/ req'[c].status = 500 /\ req'[c].doubt
<1>1. CASE Answer(c, status, value, page, status # truth)
  <2> DEFINE doubt == status # truth
  <2>1. status = truth \/ doubt
    OBVIOUS
  <2>2. Answer(c, status, value, page, doubt)
    BY <1>1
  <2> HIDE DEF doubt
  <2> QED
    BY <2>1, <2>2, AnswerAnswers DEF Serving, Read
<1>2. CASE Fail(c)
  BY <1>2, FailIs DEF Serving, Read
<1> QED
  BY <1>1, <1>2 DEF Read

LEMMA WriteIs ==
    ASSUME ApiTypeOK, NEW c \in Clients, NEW op, Serving(c, op),
           NEW status, NEW value, NEW new, Write(c, status, value, new)
    PROVE  /\ Answered(c) /\ db' \in {db, new}
           /\ \/ req'[c].status = status /\ req'[c].value = value /\ db' = new
              \/ req'[c].status = 500 /\ req'[c].doubt
<1>1. CASE Answer(c, status, value, NoPage, FALSE) /\ db' = new
  BY <1>1, AnswerAnswers DEF Serving
<1>2. CASE Fail(c) /\ db' \in {db, new}
  BY <1>2, FailIs DEF Serving
<1> QED
  BY <1>1, <1>2 DEF Write

LEMMA PlainIs ==
    ASSUME ApiTypeOK, NEW c \in Clients, NEW status, req[c].stage = "sent",
           Answer(c, status, 0, NoPage, FALSE), UNCHANGED <<db, replica, faults>>
    PROVE  Answered(c) /\ db' = db /\ req'[c].status = status
BY AnswerAnswers

LEMMA RefuseIs ==
    ASSUME ApiTypeOK, NEW c \in Clients, Refuse(c)
    PROVE  Answered(c) /\ db' = db /\ req'[c].status \in {400, 401}
<1>1. PICK status \in {400, 401} : Answer(c, status, 0, NoPage, FALSE)
  BY DEF Refuse
<1>2. req[c].stage = "sent" /\ UNCHANGED <<db, replica, faults>>
  BY DEF Refuse
<1>3. Answered(c)
  BY <1>1, <1>2, PlainIs
<1>4. req'[c].status = status
  <2>1. req' = [req EXCEPT ![c] = AnswerOf(c, status, 0, NoPage, FALSE)]
    BY <1>1 DEF Answer, AnswerOf
  <2>2. req'[c] = AnswerOf(c, status, 0, NoPage, FALSE)
    BY <2>1 DEF ApiTypeOK
  <2> QED
    BY <2>2 DEF AnswerOf
<1> QED
  BY <1>2, <1>3, <1>4

LEMMA ReadsAnswer ==
    ASSUME ApiTypeOK, NEW c \in Clients,
           \/ PostLogin(c) \/ GetUserGetId(c) \/ GetUserMe(c) \/ GetUserSearch(c)
           \/ GetPostGetId(c) \/ GetPostFeed(c) \/ HandleOther(c)
    PROVE  Answered(c) /\ db' = db
<1>1. CASE PostLogin(c)
  BY <1>1, ReadIs DEF PostLogin
<1>2. CASE GetUserGetId(c) \/ GetUserMe(c) \/ GetUserSearch(c)
  BY <1>2, ReadIs DEF GetUserGetId, GetUserMe, GetUserSearch
<1>3. CASE GetPostGetId(c)
  BY <1>3, ReadIs DEF GetPostGetId
<1>4. CASE GetPostFeed(c)
  <2>1. CASE Answer(c, 400, 0, NoPage, FALSE) /\ UNCHANGED <<db, replica, faults>>
    BY <1>4, <2>1, PlainIs DEF GetPostFeed, Serving
  <2>2. CASE \E page : Read(c, 200, 200, 0, page)
    BY <1>4, <2>2, ReadIs DEF GetPostFeed
  <2>3. \/ Answer(c, 400, 0, NoPage, FALSE) /\ UNCHANGED <<db, replica, faults>>
        \/ \E page : Read(c, 200, 200, 0, page)
    BY <1>4, Zenon DEF GetPostFeed
  <2> QED
    BY <2>1, <2>2, <2>3
<1>5. CASE HandleOther(c)
  BY <1>5, ReadIs DEF HandleOther, GetDialogUserIdList, PostDialogUserIdSend, PostFeedPosted,
                      CacheInvalidate
<1> QED
  BY <1>1, <1>2, <1>3, <1>4, <1>5

\* Only a registration changes the users, and it adds the next one.
Grown == db'.users \in {db.users, db.users \cup {Cardinality(db.users) + 1}}

LEMMA RegisterGrows ==
    ASSUME ApiTypeOK, NEW c \in Clients, PostUserRegister(c)
    PROVE  Answered(c) /\ Grown
<1> DEFINE user == Cardinality(db.users) + 1
           new == [db EXCEPT !.users = @ \cup {user}]
<1>1. Serving(c, "PostUserRegister") /\ req[c].stage = "sent"
  BY DEF PostUserRegister, Serving
<1>2. CASE Answer(c, Closed, 0, NoPage, FALSE) /\ UNCHANGED <<db, replica, faults>>
  BY <1>1, <1>2, PlainIs DEF Grown
<1>3. ASSUME NEW status \in {400, 500}, Answer(c, status, 0, NoPage, FALSE),
             UNCHANGED <<db, replica, faults>>
      PROVE  Answered(c) /\ Grown
  BY <1>1, <1>3, PlainIs DEF Grown
<1>4. CASE Write(c, 200, user, new)
  <2>1. new.users = db.users \cup {user}
    BY TypeFacts DEF Database
  <2>2. Answered(c) /\ db' \in {db, new}
    <3> HIDE DEF new, user
    <3> QED
      BY <1>1, <1>4, WriteIs
  <2> HIDE DEF new
  <2> QED
    BY <2>1, <2>2 DEF Grown
<1> QED
  BY <1>2, <1>3, <1>4 DEF PostUserRegister

LEMMA WritesAnswer ==
    ASSUME ApiTypeOK, NEW c \in Clients,
           HandleFriend(c) \/ PostPostCreate(c) \/ PutPostUpdate(c) \/ PutPostDeleteId(c)
    PROVE  Answered(c) /\ db'.users = db.users
<1> DEFINE q == req[c].q
           pair == <<q.token, q.id>>
           with == [db EXCEPT !.friends = @ \cup {pair}]
           without == [db EXCEPT !.friends = @ \ {pair}]
           id == db.made + 1
           made == [db EXCEPT !.posts = @ \cup {[id |-> id, owner |-> q.token, text |-> "new"]},
                              !.made = id]
           own == OwnPost(q, db)
           edited == [db EXCEPT !.posts = (@ \ own) \cup {[p EXCEPT !.text = "edited"] : p \in own}]
           deleted == [db EXCEPT !.posts = @ \ own]
           news == {db, with, without, made, edited, deleted}
<1>1. \A new \in news : new.users = db.users
  BY TypeFacts DEF Database
<1>2. ASSUME NEW op, NEW status, NEW value, NEW new \in news,
             Serving(c, op), Write(c, status, value, new)
      PROVE  Answered(c) /\ db'.users = db.users
  <2> HIDE DEF news
  <2> QED
    BY <1>1, <1>2, WriteIs
<1>3. {db, with, without, made, edited, deleted} = news
  OBVIOUS
<1> HIDE DEF with, without, made, edited, deleted, news
<1>4. CASE PutFriendSetUserId(c)
  <2>1. \/ \E status : Write(c, status, 0, with) \/ Write(c, status, 0, db)
        \/ Answer(c, 500, 0, NoPage, FALSE) /\ UNCHANGED <<db, replica, faults>>
    BY <1>4, Zenon DEF PutFriendSetUserId, with
  <2>2. CASE Answer(c, 500, 0, NoPage, FALSE) /\ UNCHANGED <<db, replica, faults>>
    BY <1>4, <2>2, PlainIs, WriteOp DEF Serving
  <2> QED
    BY <1>2, <1>3, <1>4, <2>1, <2>2, WriteOp
<1>5. CASE PutFriendDeleteUserId(c)
  <2>1. \E status : Write(c, status, 0, without)
    BY <1>5, Zenon DEF PutFriendDeleteUserId, without
  <2> QED
    BY <1>2, <1>3, <1>5, <2>1, WriteOp
<1>6. CASE PostPostCreate(c)
  <2>1. \E status, value : Write(c, status, value, made) \/ Write(c, status, value, db)
    BY <1>6, Zenon DEF PostPostCreate, made
  <2> QED
    BY <1>2, <1>3, <1>6, <2>1, WriteOp
<1>7. CASE PutPostUpdate(c)
  <2>1. \E status : Write(c, status, 0, edited)
    BY <1>7, Zenon DEF PutPostUpdate, edited
  <2> QED
    BY <1>2, <1>3, <1>7, <2>1, WriteOp
<1>8. CASE PutPostDeleteId(c)
  <2>1. \E status : Write(c, status, 0, deleted)
    BY <1>8, Zenon DEF PutPostDeleteId, deleted
  <2> QED
    BY <1>2, <1>3, <1>8, <2>1, WriteOp
<1> QED
  BY <1>4, <1>5, <1>6, <1>7, <1>8 DEF HandleFriend

\* Whoever is served: his answer alone changes, and no user goes away.
LEMMA ServeAnswers ==
    ASSUME ApiTypeOK, NEW c \in Clients, Serve(c)
    PROVE  Answered(c) /\ Grown
<1>1. CASE db' = db /\ Answered(c)
  BY <1>1 DEF Grown
<1>2. CASE db'.users = db.users /\ Answered(c)
  BY <1>2 DEF Grown
<1> QED
  BY <1>1, <1>2, RefuseIs, ReadsAnswer, RegisterGrows, WritesAnswer
     DEF Serve, HandleUser, HandlePost

-----------------------------------------------------------------------------
(* The inductive invariant. *)

HasAnswer == req[Demo].stage = "answered"
Succeeded == HasAnswer /\ Success(req[Demo])

\* A request in flight is that of the step that is next, and the other user
\* sends his own token or none.
InFlight ==
    /\ req[Demo].stage # "idle" => Running /\ req[Demo].q = RequestOf(Script[step])
    /\ req[Other].stage # "idle" => req[Other].q.token \in {OtherUser, Nobody}

\* The users are numbered from 1 on, so a new one has a new number.
Numbered == \E n \in Nat : n >= 1 /\ db.users = 1..n

\* The client's users are two of them, none the other user.
Learnt ==
    /\ step = 1 => known["me"] = Nobody
    /\ step > 1 => known["me"] \in db.users \ {OtherUser}
    /\ step > 7 => known["friend"] \in db.users \ {OtherUser, known["me"]}
    /\ step > 2 => "me" \in tokens
    /\ step > 9 => "friend" \in tokens
    /\ step \in {1, 7} /\ Succeeded => req[Demo].value \in db.users \ {OtherUser, known["me"]}

\* What there is that is not the other user's.
MyFriends(d) == {pair \in d.friends : pair[1] # OtherUser}
MyPosts(d) == {p \in d.posts : p.owner # OtherUser}

\* What the first n steps leave behind.
Has(d, n, me, friend, post) ==
    /\ MyFriends(d) = IF n \in 8..14 THEN {<<me, friend>>} ELSE {}
    /\ IF n \in 10..13
       THEN \E p \in MyPosts(d) : MyPosts(d) = {p} /\ p.owner = friend /\ p.id = post
       ELSE MyPosts(d) = {}

\* The id of the post, from the moment it is in the answer.
PostIs == IF step = 10 THEN req[Demo].value ELSE known["post"]

\* Until a step fails the client has what its steps leave behind, and at the end
\* of the first part nothing.
Effects ==
    /\ ~stopped /\ ~HasAnswer => Has(db, step - 1, known["me"], known["friend"], known["post"])
    /\ Succeeded => Has(db, step, known["me"], known["friend"], PostIs)
    /\ step > 15 => MyFriends(db) = {} /\ MyPosts(db) = {}

\* A failure of the first part is excused, a step of the second fails.
Verdicts ==
    /\ HasAnswer /\ step <= 19 => Success(req[Demo]) \/ req[Demo].doubt
    /\ HasAnswer /\ step > 19 => ~Success(req[Demo])
    /\ stopped => excused
    /\ passed = {}

DemoInv == TypeOK /\ InFlight /\ Numbered /\ Learnt /\ Effects /\ Verdicts

LEMMA HasOf ==
    ASSUME NEW d, NEW e, NEW n, NEW me, NEW friend, NEW post, Has(d, n, me, friend, post),
           MyFriends(e) = MyFriends(d), MyPosts(e) = MyPosts(d)
    PROVE  Has(e, n, me, friend, post)
BY DEF Has

LEMMA TypeFactsOfDemo ==
    ASSUME TypeOK
    PROVE  /\ DemoTypes /\ ApiTypeOK /\ step \in 1..33
           /\ known["me"] \in Ids \cup {Nobody} /\ known["friend"] \in Ids \cup {Nobody}
           /\ known["post"] \in Ids \cup {Nobody}
           /\ Demo \in Clients /\ Other \in Clients /\ req[Demo] \in Call /\ req[Other] \in Call
           /\ DOMAIN known = Names /\ Names = {"me", "friend", "post", "nobody"}
<1>1. DemoTypes /\ ApiTypeOK
  BY ScriptIs DEF TypeOK, DemoTypes
<1>2. Demo \in Clients /\ Other \in Clients
  BY DemoAssumption
<1> QED
  BY <1>1, <1>2 DEF DemoTypes, ApiTypeOK, Names

\* A step that the client does not notice.
LEMMA Unnoticed ==
    ASSUME TypeOK, Learnt, Effects, Verdicts,
           UNCHANGED <<step, known, tokens, stopped, excused, passed>>, req'[Demo] = req[Demo],
           db.users \subseteq db'.users,
           MyFriends(db') = MyFriends(db), MyPosts(db') = MyPosts(db)
    PROVE  Learnt' /\ Effects' /\ Verdicts'
<1>1. Learnt'
  BY DEF Learnt, Succeeded, HasAnswer
<1>2. Verdicts'
  BY DEF Verdicts, HasAnswer
<1>3. ASSUME ~stopped, ~HasAnswer
      PROVE  Has(db', step - 1, known["me"], known["friend"], known["post"])
  BY <1>3, HasOf DEF Effects
<1>4. ASSUME Succeeded
      PROVE  Has(db', step, known["me"], known["friend"], PostIs)
  BY <1>4, HasOf DEF Effects
<1>5. /\ HasAnswer' = HasAnswer /\ Succeeded' = Succeeded /\ PostIs' = PostIs
      /\ step' = step /\ known' = known /\ stopped' = stopped
  BY DEF HasAnswer, Succeeded, PostIs
<1>6. step > 15 => MyFriends(db') = {} /\ MyPosts(db') = {}
  BY DEF Effects
<1> QED
  BY <1>1, <1>2, <1>3, <1>4, <1>5, <1>6 DEF Effects

LEMMA NumberedGrows ==
    ASSUME Numbered, Grown
    PROVE  /\ Numbered' /\ db.users \subseteq db'.users
           /\ Cardinality(db.users) + 1 \notin db.users \cup {OtherUser, Nobody}
           /\ OtherUser \in db.users
<1>1. PICK n \in Nat : n >= 1 /\ db.users = 1..n
  BY DEF Numbered
<1>2. Cardinality(db.users) = n
  BY <1>1, FS_Interval
<1>3. db.users \cup {n + 1} = 1..(n + 1)
  BY <1>1
<1>4. Numbered'
  <2>1. CASE db'.users = db.users
    BY <1>1, <2>1 DEF Numbered
  <2>2. CASE db'.users = 1..(n + 1)
    <3>1. n + 1 \in Nat /\ n + 1 >= 1
      OBVIOUS
    <3> QED
      BY <2>2, <3>1 DEF Numbered
  <2> QED
    BY <1>2, <1>3, <2>1, <2>2 DEF Grown
<1> QED
  BY <1>1, <1>2, <1>4 DEF Grown, OtherUser, Nobody

-----------------------------------------------------------------------------
(* The steps of the other user. *)

LEMMA ServeIsOwn ==
    ASSUME ApiTypeOK, NEW c \in Clients, Serve(c)
    PROVE  db' = db \/ OwnStep(c)
<1>1. CASE Refuse(c)
  BY <1>1, RefuseIs
<1> QED
  BY <1>1, ReadsAnswer, RegisterIsOwn, FriendIsOwn, PostIsOwn
     DEF Serve, HandleUser, HandlePost

\* What belongs to nobody but the other user.
LEMMA MineIsKept ==
    ASSUME NEW d \in Database, NEW e \in Database,
           \A u \in Ids \ {OtherUser} : Belongs(u, e) = Belongs(u, d)
    PROVE  MyFriends(e) = MyFriends(d) /\ MyPosts(e) = MyPosts(d)
<1>1. /\ \A pair \in d.friends \cup e.friends : pair[1] \in Ids
      /\ \A p \in d.posts \cup e.posts : p.owner \in Ids
  BY DEF Database, Post
<1>2. ASSUME NEW u \in Ids \ {OtherUser}
      PROVE  /\ {p \in e.posts : p.owner = u} = {p \in d.posts : p.owner = u}
             /\ {pair \in e.friends : pair[1] = u} = {pair \in d.friends : pair[1] = u}
  BY DEF Belongs
<1>3. ASSUME NEW pair
      PROVE  pair \in MyFriends(e) <=> pair \in MyFriends(d)
  <2>1. CASE pair[1] \in Ids \ {OtherUser}
    <3>1. pair \in {x \in e.friends : x[1] = pair[1]} <=> pair \in {x \in d.friends : x[1] = pair[1]}
      BY <1>2, <2>1, Zenon
    <3> QED
      BY <3>1 DEF MyFriends
  <2>2. CASE pair[1] \notin Ids \ {OtherUser}
    BY <1>1, <2>2 DEF MyFriends
  <2> QED
    BY <2>1, <2>2
<1>4. ASSUME NEW p
      PROVE  p \in MyPosts(e) <=> p \in MyPosts(d)
  <2>1. CASE p.owner \in Ids \ {OtherUser}
    <3>1. p \in {x \in e.posts : x.owner = p.owner} <=> p \in {x \in d.posts : x.owner = p.owner}
      BY <1>2, <2>1, Zenon
    <3> QED
      BY <3>1 DEF MyPosts
  <2>2. CASE p.owner \notin Ids \ {OtherUser}
    BY <1>1, <2>2 DEF MyPosts
  <2> QED
    BY <2>1, <2>2
<1> QED
  BY <1>3, <1>4

LEMMA OtherIsServed ==
    ASSUME DemoInv, Serve(Other), UNCHANGED demoVars
    PROVE  /\ InFlight' /\ Numbered' /\ Learnt' /\ Effects' /\ Verdicts'
<1>1. /\ ApiTypeOK /\ Other \in Clients /\ Demo \in Clients \ {Other}
      /\ db \in Database
  BY TypeFactsOfDemo, DemoAssumption, TypeFacts DEF DemoInv
<1>2. Answered(Other) /\ Grown
  BY <1>1, ServeAnswers
<1>3. req[Other].q.token \in {OtherUser, Nobody}
  BY <1>2 DEF DemoInv, InFlight, Answered
<1>4. db' \in Database
  BY <1>1, ServeType DEF ApiTypeOK
<1>5. \A u \in Ids \ {OtherUser} : Belongs(u, db') = Belongs(u, db)
  <2>1. \A u \in Ids : u # Nobody
    BY ApiAssumption
  <2>2. db' = db \/ OwnStep(Other)
    BY <1>1, ServeIsOwn
  <2> QED
    BY <1>3, <2>1, <2>2 DEF OwnStep
<1>6. MyFriends(db') = MyFriends(db) /\ MyPosts(db') = MyPosts(db)
  BY <1>1, <1>4, <1>5, MineIsKept
<1>7. Numbered' /\ db.users \subseteq db'.users
  BY <1>2, NumberedGrows DEF DemoInv
<1>8. req'[Demo] = req[Demo] /\ req'[Other].q = req[Other].q
  BY <1>1, <1>2 DEF Answered
<1>9. InFlight'
  <2>1. RequestOf(Script[step])' = RequestOf(Script[step]) /\ Running' = Running
    BY DEF demoVars, RequestOf, ByBody, ByQuery, ByPath, TokenOf, Running
  <2>2. req[Demo].stage # "idle" => Running /\ req[Demo].q = RequestOf(Script[step])
    BY DEF DemoInv, InFlight
  <2> QED
    BY <1>3, <1>8, <2>1, <2>2 DEF InFlight
<1>10. Learnt' /\ Effects' /\ Verdicts'
  BY <1>6, <1>7, <1>8, Unnoticed DEF DemoInv, demoVars
<1> QED
  BY <1>7, <1>9, <1>10

-----------------------------------------------------------------------------
(* What the demo client asks for. *)

LEMMA Asked ==
    ASSUME DemoInv, req[Demo].stage = "sent"
    PROVE  /\ Running /\ step \in 1..32 /\ Script[step] \in Step
           /\ req[Demo].q = RequestOf(Script[step])
           /\ Has(db, step - 1, known["me"], known["friend"], known["post"])
<1>1. Running /\ req[Demo].q = RequestOf(Script[step])
  BY DEF DemoInv, InFlight
<1>2. step \in 1..32
  BY <1>1, TypeFactsOfDemo, ScriptIs DEF Running, DemoInv
<1>3. Has(db, step - 1, known["me"], known["friend"], known["post"])
  BY <1>1 DEF DemoInv, Effects, Running, HasAnswer
<1> QED
  BY <1>1, <1>2, <1>3, ScriptIs

LEMMA PeopleAre ==
    ASSUME DemoInv
    PROVE  /\ step > 1 => known["me"] \in db.users /\ known["me"] \in Ids \ {OtherUser, Nobody}
           /\ step > 7 => /\ known["friend"] \in db.users /\ known["friend"] # known["me"]
                          /\ known["friend"] \in Ids \ {OtherUser, Nobody}
<1>1. db.users \subseteq Ids
  BY TypeFactsOfDemo DEF DemoInv, ApiTypeOK, Database
<1>2. Nobody \notin Ids
  BY ApiAssumption
<1> QED
  BY <1>1, <1>2 DEF DemoInv, Learnt

\* A step by one of the client's users passes the middlewares.
LEMMA DoIsServed ==
    ASSUME DemoInv, req[Demo].stage = "sent", step > 2,
           NEW op \in Operations \ OpenOps, NEW by \in {"me", "friend"}, NEW id \in Names,
           by = "friend" => step > 9, Script[step] = Do(op, by, id)
    PROVE  /\ ~Refuse(Demo)
           /\ req[Demo].q.op = op /\ req[Demo].q.token = known[by] /\ req[Demo].q.id = known[id]
           /\ op = "GetPostFeed" => req[Demo].q.limit = 2 * MaxFeedLength /\ req[Demo].q.offset = 0
<1> DEFINE q == req[Demo].q
           s == Script[step]
<1>1. DemoTypes /\ s \in Step /\ q = RequestOf(s)
  BY Asked, TypeFactsOfDemo DEF DemoInv
<1> s = Do(op, by, id)
  OBVIOUS
<1> HIDE DEF s
<1>2. s.op = op /\ s.by = by /\ s.id = id
  BY DEF Do
<1>3. /\ q.op = op /\ q.token = TokenOf(s) /\ q.id = known[id] /\ q.form = ""
      /\ op = "GetPostFeed" => q.limit = 2 * MaxFeedLength
      /\ q.offset = 0
  <2>1. RequestOf(s) = [op |-> s.op, token |-> TokenOf(s), id |-> known[s.id],
                        form |-> IF s.op \in OpenOps THEN s.form ELSE "",
                        limit |-> IF s.op = "GetPostFeed" THEN 2 * MaxFeedLength ELSE 0,
                        offset |-> 0]
    BY <1>1, RequestIs
  <2> HIDE DEF q
  <2>2. q = [op |-> op, token |-> TokenOf(s), id |-> known[id],
             form |-> IF op \in OpenOps THEN s.form ELSE "",
             limit |-> IF op = "GetPostFeed" THEN 2 * MaxFeedLength ELSE 0,
             offset |-> 0]
    BY <1>1, <1>2, <2>1
  <2> QED
    BY <2>2
<1>4. by \in tokens
  BY DEF DemoInv, Learnt
<1>5. TokenOf(s) = known[by] /\ known[by] # Nobody
  <2>1. known["me"] # Nobody /\ (by = "friend" => known["friend"] # Nobody)
    <3>1. step \in 1..32
      BY Asked
    <3> QED
      BY <3>1, PeopleAre
  <2> QED
    BY <1>2, <1>4, <2>1 DEF TokenOf
<1>6. ~NotAuthorized(q)
  BY <1>3, <1>5 DEF NotAuthorized
<1>7. ~NotValid(q)
  <2>1. MaxFeedLength \in Nat /\ MaxFeedLength >= 1
    BY DemoAssumption, ApiAssumption
  <2> HIDE DEF q
  <2>2. CASE op = "GetPostFeed"
    <3>1. q.limit = 2 * MaxFeedLength /\ q.offset = 0 /\ q.form = ""
      BY <1>3, <2>2, Zenon
    <3>2. ~(2 * MaxFeedLength < 2) /\ ~(0 < 0) /\ "" # "broken"
      BY <2>1
    <3> QED
      BY <3>1, <3>2, Zenon DEF NotValid
  <2>3. CASE op # "GetPostFeed"
    BY <1>3, <2>3 DEF NotValid
  <2> QED
    BY <2>2, <2>3
<1> QED
  BY <1>3, <1>5, <1>6, <1>7 DEF Refuse

\* The client's values fit.
LEMMA SentForm ==
    ASSUME DemoInv, req[Demo].stage = "sent", req[Demo].q.op \notin OpenOps
    PROVE  req[Demo].q.form = ""
<1> DEFINE q == req[Demo].q
           s == Script[step]
<1>1. DemoTypes /\ s \in Step /\ q = RequestOf(s)
  BY Asked, TypeFactsOfDemo DEF DemoInv
<1> HIDE DEF s
<1>2. RequestOf(s) = [op |-> s.op, token |-> TokenOf(s), id |-> known[s.id],
                      form |-> IF s.op \in OpenOps THEN s.form ELSE "",
                      limit |-> IF s.op = "GetPostFeed" THEN 2 * MaxFeedLength ELSE 0,
                      offset |-> 0]
  BY <1>1, RequestIs
<1> DEFINE token == TokenOf(s)
           form == IF s.op \in OpenOps THEN s.form ELSE ""
           limit == IF s.op = "GetPostFeed" THEN 2 * MaxFeedLength ELSE 0
           offset == 0
<1>3. q = [op |-> s.op, token |-> token, id |-> known[s.id], form |-> form,
           limit |-> limit, offset |-> offset]
  BY <1>1, <1>2
<1>4. s.op \notin OpenOps => form = ""
  OBVIOUS
<1> HIDE DEF q, token, form, limit, offset
<1>5. q.op = s.op /\ q.form = form
  BY <1>3
<1> QED
  BY <1>4, <1>5 DEF q

\* So does a step that needs no token.
LEMMA WithIsServed ==
    ASSUME DemoInv, req[Demo].stage = "sent",
           NEW op \in OpenOps, NEW id \in Names, NEW password \in {"right", "wrong"},
           Script[step] = With(password, id, op)
    PROVE  /\ ~Refuse(Demo)
           /\ req[Demo].q.op = op /\ req[Demo].q.id = known[id] /\ req[Demo].q.form = password
<1> DEFINE q == req[Demo].q
           s == Script[step]
<1>1. DemoTypes /\ s \in Step /\ q = RequestOf(s)
  BY Asked, TypeFactsOfDemo DEF DemoInv
<1>2. s.op = op /\ s.id = id /\ s.form = password
  BY DEF With
<1>3. q.op = op /\ q.id = known[id] /\ q.form = password
  <2>1. RequestOf(s) = [op |-> s.op, token |-> TokenOf(s), id |-> known[s.id],
                        form |-> IF s.op \in OpenOps THEN s.form ELSE "",
                        limit |-> IF s.op = "GetPostFeed" THEN 2 * MaxFeedLength ELSE 0,
                        offset |-> 0]
    BY <1>1, RequestIs
  <2> HIDE DEF s
  <2> QED
    BY <1>1, <1>2, <2>1
<1>4. ~NotAuthorized(q)
  BY <1>3 DEF NotAuthorized
<1>5. ~NotValid(q)
  BY <1>3 DEF NotValid, OpenOps
<1> QED
  BY <1>3, <1>4, <1>5 DEF Refuse

-----------------------------------------------------------------------------
(* What the demo client is answered. *)

\* An answer that keeps the invariant.
Outcome ==
    /\ Success(req'[Demo]) =>
          Has(db', step, known["me"], known["friend"],
              IF step = 10 THEN req'[Demo].value ELSE known["post"])
    /\ step > 15 => MyFriends(db') = {} /\ MyPosts(db') = {}
    /\ step <= 19 => Success(req'[Demo]) \/ req'[Demo].doubt
    /\ step > 19 => ~Success(req'[Demo])
    /\ step \in {1, 7} /\ Success(req'[Demo]) =>
          req'[Demo].value \in db'.users \ {OtherUser, known["me"]}

LEMMA DemoIsServed ==
    ASSUME DemoInv, Serve(Demo), UNCHANGED demoVars, Outcome
    PROVE  InFlight' /\ Numbered' /\ Learnt' /\ Effects' /\ Verdicts'
<1>1. ApiTypeOK /\ Demo \in Clients /\ Other \in Clients \ {Demo}
  BY TypeFactsOfDemo, DemoAssumption DEF DemoInv
<1>2. Answered(Demo) /\ Grown
  BY <1>1, ServeAnswers
<1>3. /\ req[Demo].stage = "sent" /\ req'[Demo].stage = "answered" /\ req'[Demo].q = req[Demo].q
      /\ req'[Other] = req[Other]
  BY <1>1, <1>2 DEF Answered
<1>4. Numbered' /\ db.users \subseteq db'.users
  BY <1>2, NumberedGrows DEF DemoInv
<1>5. InFlight'
  <2>1. RequestOf(Script[step])' = RequestOf(Script[step]) /\ Running' = Running
    BY DEF demoVars, RequestOf, ByBody, ByQuery, ByPath, TokenOf, Running
  <2>2. Running /\ req[Demo].q = RequestOf(Script[step])
    BY <1>3, Asked
  <2> QED
    BY <1>3, <2>1, <2>2 DEF DemoInv, InFlight
<1>6. /\ HasAnswer' /\ Succeeded' = Success(req'[Demo])
      /\ PostIs' = IF step = 10 THEN req'[Demo].value ELSE known["post"]
      /\ step' = step /\ known' = known /\ tokens' = tokens /\ stopped' = stopped
      /\ excused' = excused /\ passed' = passed
  BY <1>3 DEF HasAnswer, Succeeded, PostIs, demoVars, Success
<1>7. Learnt'
  BY <1>4, <1>6 DEF DemoInv, Learnt, Outcome
<1>8. Effects'
  BY <1>6 DEF Effects, Outcome
<1>9. Verdicts'
  BY <1>6 DEF DemoInv, Verdicts, Outcome, Success
<1> QED
  BY <1>4, <1>5, <1>7, <1>8, <1>9

\* A step that writes nothing leaves what the step before left.
LEMMA HasNext ==
    ASSUME NEW k \in 1..7 \cup {9, 12, 13} \cup 16..32,
           NEW d, NEW me, NEW friend, NEW post, Has(d, k - 1, me, friend, post)
    PROVE  Has(d, k, me, friend, post)
<1>1. /\ (k - 1 \in 8..14) = (k \in 8..14)
      /\ (k - 1 \in 10..13) = (k \in 10..13)
  OBVIOUS
<1> QED
  BY <1>1 DEF Has

LEMMA GoodRead ==
    ASSUME DemoInv, NEW op, Serving(Demo, op),
           NEW status, NEW truth \in {101, 200}, NEW value, NEW page,
           Read(Demo, status, truth, value, page)
    PROVE  db' = db /\ (Success(req'[Demo]) \/ req'[Demo].doubt)
<1>1. /\ db' = db
      /\ \/ req'[Demo].status = status /\ (status = truth \/ req'[Demo].doubt)
         \/ req'[Demo].status = 500 /\ req'[Demo].doubt
  BY ReadIs, TypeFactsOfDemo DEF DemoInv
<1> QED
  BY <1>1 DEF Success

\* The steps of the first part that read succeed but for a lag or a fault.
LEMMA UserReads ==
    ASSUME DemoInv, Serve(Demo), step \in 2..6
    PROVE  db' = db /\ (Success(req'[Demo]) \/ req'[Demo].doubt)
<1> DEFINE q == req[Demo].q
<1>1. req[Demo].stage = "sent"
  BY ServeAnswers, TypeFactsOfDemo DEF DemoInv, Answered
<1>2. known["me"] \in db.users
  BY PeopleAre
<1>3. {"me", "nobody"} \subseteq Names
  BY DEF Names
<1>4. CASE step = 2
  <2>1. ~Refuse(Demo) /\ q.op = "PostLogin" /\ q.id = known["me"] /\ q.form = "right"
    BY <1>1, <1>3, <1>4, WritingSteps, WithIsServed DEF OpenOps
  <2>2. PostLogin(Demo)
    BY <2>1, Dispatch
  <2>3. LoginStatus(q, db) = 200
    BY <1>2, <2>1 DEF LoginStatus
  <2> QED
    BY <2>2, <2>3, GoodRead DEF PostLogin
<1>5. CASE step = 3
  <2>1. ~Refuse(Demo) /\ q.op = "PostFeedPosted"
    BY <1>1, <1>3, <1>5, ReadingSteps, DoIsServed DEF OpenOps, Operations, ManualOps
  <2> QED
    BY <2>1, Dispatch, GoodRead DEF PostFeedPosted
<1>6. CASE step = 4
  <2>1. ~Refuse(Demo) /\ q.op = "GetUserGetId" /\ q.id = known["me"]
    BY <1>1, <1>3, <1>6, ReadingSteps, DoIsServed DEF OpenOps, Operations, UserOps
  <2>2. UserStatus(q.id, db) = 200
    BY <1>2, <2>1 DEF UserStatus
  <2> QED
    BY <2>1, <2>2, Dispatch, GoodRead DEF GetUserGetId
<1>7. CASE step = 5
  <2>1. ~Refuse(Demo) /\ q.op = "GetUserMe" /\ q.token = known["me"]
    BY <1>1, <1>3, <1>7, ReadingSteps, DoIsServed DEF OpenOps, Operations, UserOps
  <2>2. UserStatus(q.token, db) = 200
    BY <1>2, <2>1 DEF UserStatus
  <2> QED
    BY <2>1, <2>2, Dispatch, GoodRead DEF GetUserMe
<1>8. CASE step = 6
  <2>1. ~Refuse(Demo) /\ q.op = "GetUserSearch"
    BY <1>1, <1>3, <1>8, ReadingSteps, DoIsServed DEF OpenOps, Operations, UserOps
  <2> QED
    BY <2>1, Dispatch, GoodRead DEF GetUserSearch
<1> QED
  BY <1>4, <1>5, <1>6, <1>7, <1>8

LEMMA FriendReads ==
    ASSUME DemoInv, Serve(Demo), step \in {9, 12, 13} \cup 16..19
    PROVE  db' = db /\ (Success(req'[Demo]) \/ req'[Demo].doubt)
<1> DEFINE q == req[Demo].q
<1>1. /\ req[Demo].stage = "sent"
      /\ Has(db, step - 1, known["me"], known["friend"], known["post"])
  BY ServeAnswers, Asked, TypeFactsOfDemo DEF DemoInv, Answered
<1>2. known["friend"] \in db.users
  BY PeopleAre
<1>3. {"me", "friend", "post", "nobody"} \subseteq Names
  BY DEF Names
<1>4. CASE step = 9
  <2>1. ~Refuse(Demo) /\ q.op = "PostLogin" /\ q.id = known["friend"] /\ q.form = "right"
    BY <1>1, <1>3, <1>4, WritingSteps, WithIsServed DEF OpenOps
  <2>2. PostLogin(Demo)
    BY <2>1, Dispatch
  <2>3. LoginStatus(q, db) = 200
    BY <1>2, <2>1 DEF LoginStatus
  <2> QED
    BY <2>2, <2>3, GoodRead DEF PostLogin
<1>5. CASE step = 12
  <2>1. /\ ~Refuse(Demo) /\ q.op = "GetPostGetId"
        /\ q.token = known["friend"] /\ q.id = known["post"]
    BY <1>1, <1>3, <1>5, ReadingSteps, DoIsServed DEF OpenOps, Operations, PostOps
  <2>2. \E p \in MyPosts(db) : p.owner = known["friend"] /\ p.id = known["post"]
    BY <1>1, <1>5 DEF Has
  <2>3. PostStatus(q, db) = 200
    BY <2>1, <2>2 DEF PostStatus, OwnPost, MyPosts
  <2> QED
    BY <2>1, <2>3, Dispatch, GoodRead DEF GetPostGetId
<1>6. CASE step = 13
  <2>1. /\ ~Refuse(Demo) /\ q.op = "GetPostFeed"
        /\ q.limit = 2 * MaxFeedLength /\ q.offset = 0
    BY <1>1, <1>3, <1>6, ReadingSteps, DoIsServed DEF OpenOps, Operations, PostOps
  <2>2. \A limit \in ToInt(2 * MaxFeedLength), offset \in ToInt(0) : InFeed(limit, offset)
    <3>1. (2 * MaxFeedLength) \div 2 = MaxFeedLength /\ 0 \div 2 = 0
      BY ApiAssumption
    <3>2. ToInt(2 * MaxFeedLength) = {MaxFeedLength} /\ ToInt(0) = {0}
      BY <3>1, ApiAssumption DEF ToInt
    <3>3. InFeed(MaxFeedLength, 0)
      BY ApiAssumption, DemoAssumption DEF InFeed, Wrap
    <3> QED
      BY <3>2, <3>3
  <2>3. GetPostFeed(Demo)
    BY <2>1, Dispatch
  <2>4. Serving(Demo, "GetPostFeed") /\ \E page : Read(Demo, 200, 200, 0, page)
    BY <2>1, <2>2, <2>3, Zenon DEF GetPostFeed
  <2> QED
    BY <2>4, GoodRead
<1>7. CASE step \in 16..19
  <2>1. PICK op \in DialogOps, by, id \in {"me", "friend"} : Script[step] = Do(op, by, id)
    BY <1>7, ReadingSteps
  <2>2. op \in Operations \ OpenOps
    BY DEF DialogOps, Operations, OpenOps
  <2>3. ~Refuse(Demo) /\ q.op \in DialogOps
    BY <1>1, <1>3, <1>7, <2>1, <2>2, DoIsServed
  <2>4. GetDialogUserIdList(Demo) \/ PostDialogUserIdSend(Demo)
    BY <2>3, Dispatch
  <2> QED
    BY <2>4, GoodRead DEF GetDialogUserIdList, PostDialogUserIdSend
<1> QED
  BY <1>4, <1>5, <1>6, <1>7

LEMMA ReadOutcome ==
    ASSUME DemoInv, Serve(Demo), step \in {2, 3, 4, 5, 6, 9, 12, 13} \cup 16..19
    PROVE  Outcome
<1>1. db' = db /\ (Success(req'[Demo]) \/ req'[Demo].doubt)
  BY UserReads, FriendReads
<1>2. Has(db, step - 1, known["me"], known["friend"], known["post"])
  BY ServeAnswers, Asked, TypeFactsOfDemo DEF DemoInv, Answered
<1>3. Has(db, step, known["me"], known["friend"], known["post"])
  BY <1>2, HasNext
<1>4. step > 15 => MyFriends(db) = {} /\ MyPosts(db) = {}
  BY DEF DemoInv, Effects
<1> QED
  BY <1>1, <1>3, <1>4 DEF Outcome

\* A step that writes: its effect is there, or it failed and may be there.
LEMMA WriteOutcome ==
    ASSUME DemoInv, NEW op, Serving(Demo, op), step \in 1..15,
           NEW value, NEW new, Write(Demo, 200, value, new),
           Has(new, step, known["me"], known["friend"],
               IF step = 10 THEN value ELSE known["post"]),
           step \in {1, 7} => value \in new.users \ {OtherUser, known["me"]}
    PROVE  Outcome
<1>1. \/ req'[Demo].status = 200 /\ req'[Demo].value = value /\ db' = new
      \/ req'[Demo].status = 500 /\ req'[Demo].doubt
  <2> DEFINE status == 200
  <2>1. Write(Demo, status, value, new)
    OBVIOUS
  <2> HIDE DEF status
  <2>2. \/ req'[Demo].status = status /\ req'[Demo].value = value /\ db' = new
        \/ req'[Demo].status = 500 /\ req'[Demo].doubt
    BY <2>1, WriteIs, TypeFactsOfDemo DEF DemoInv
  <2> QED
    BY <2>2 DEF status
<1>2. CASE req'[Demo].status = 200 /\ req'[Demo].value = value /\ db' = new
  BY <1>2 DEF Outcome, Success
<1>3. CASE req'[Demo].status = 500 /\ req'[Demo].doubt
  BY <1>3 DEF Outcome, Success
<1> QED
  BY <1>1, <1>2, <1>3

LEMMA RegisterOutcome ==
    ASSUME DemoInv, Serve(Demo), step \in {1, 7}
    PROVE  Outcome
<1> DEFINE q == req[Demo].q
           user == Cardinality(db.users) + 1
           new == [db EXCEPT !.users = @ \cup {user}]
<1>1. /\ req[Demo].stage = "sent" /\ Grown
      /\ Has(db, step - 1, known["me"], known["friend"], known["post"])
  BY ServeAnswers, Asked, TypeFactsOfDemo DEF DemoInv, Answered
<1>2. ~Refuse(Demo) /\ q.op = "PostUserRegister" /\ q.form = "right"
  BY <1>1, WritingSteps, WithIsServed DEF OpenOps, Names
<1>3. PostUserRegister(Demo)
  BY <1>2, Dispatch
<1>4. Serving(Demo, "PostUserRegister") /\ Write(Demo, 200, user, new)
  BY <1>2, <1>3, Zenon DEF PostUserRegister
<1>5. /\ new.users = db.users \cup {user} /\ new.friends = db.friends
      /\ new.posts = db.posts
  BY TypeFacts, TypeFactsOfDemo DEF DemoInv, Database
<1>6. user \notin db.users \cup {OtherUser, Nobody}
  BY <1>1, NumberedGrows DEF DemoInv
<1>7. known["me"] \in db.users \cup {Nobody}
  BY DEF DemoInv, Learnt
<1> HIDE DEF user, new
<1>8. Has(new, step, known["me"], known["friend"], known["post"])
  <2>1. MyFriends(new) = MyFriends(db) /\ MyPosts(new) = MyPosts(db)
    BY <1>5 DEF MyFriends, MyPosts
  <2> QED
    BY <1>1, <2>1, HasNext, HasOf
<1> QED
  BY <1>4, <1>5, <1>6, <1>7, <1>8, WriteOutcome

LEMMA FriendOutcome ==
    ASSUME DemoInv, Serve(Demo), step \in {8, 15}
    PROVE  Outcome
<1> DEFINE q == req[Demo].q
           pair == <<q.token, q.id>>
           with == [db EXCEPT !.friends = @ \cup {pair}]
           without == [db EXCEPT !.friends = @ \ {pair}]
<1>1. /\ req[Demo].stage = "sent"
      /\ Has(db, step - 1, known["me"], known["friend"], known["post"])
  BY ServeAnswers, Asked, TypeFactsOfDemo DEF DemoInv, Answered
<1>2. /\ known["me"] \in db.users /\ known["friend"] \in db.users
      /\ known["me"] # OtherUser
  BY PeopleAre
<1>3. /\ ~Refuse(Demo) /\ q.token = known["me"] /\ q.id = known["friend"]
      /\ q.op = IF step = 8 THEN "PutFriendSetUserId" ELSE "PutFriendDeleteUserId"
  BY <1>1, WritingSteps, DoIsServed DEF OpenOps, Operations, FriendOps, Names
<1>4. /\ with.friends = db.friends \cup {pair} /\ with.posts = db.posts
      /\ without.friends = db.friends \ {pair} /\ without.posts = db.posts
  BY TypeFacts, TypeFactsOfDemo DEF DemoInv, Database
<1>5. pair = <<known["me"], known["friend"]>> /\ pair[1] # OtherUser
  BY <1>2, <1>3
<1>6. MyPosts(with) = MyPosts(db) /\ MyPosts(without) = MyPosts(db)
  BY <1>4 DEF MyPosts
<1> HIDE DEF with, without
<1>7. CASE step = 8
  <2>1. MyFriends(db) = {} /\ MyPosts(db) = {}
    BY <1>1, <1>7 DEF Has
  <2>2. pair \notin db.friends
    BY <1>5, <2>1 DEF MyFriends
  <2>3. PutFriendSetUserId(Demo)
    BY <1>3, <1>7, Dispatch
  <2>4. Serving(Demo, "PutFriendSetUserId") /\ Write(Demo, 200, 0, with)
    <3>1. q.form = ""
      BY <1>1, <1>3, <1>7, SentForm DEF OpenOps
    <3> QED
      BY <1>2, <1>5, <2>2, <2>3, <3>1 DEF PutFriendSetUserId, with
  <2>5. MyFriends(with) = {pair}
    BY <1>4, <1>5, <2>1 DEF MyFriends
  <2>6. Has(with, step, known["me"], known["friend"], known["post"])
    BY <1>5, <1>6, <1>7, <2>1, <2>5 DEF Has
  <2> QED
    BY <1>7, <2>4, <2>6, WriteOutcome
<1>8. CASE step = 15
  <2>1. MyFriends(db) = {pair} /\ MyPosts(db) = {}
    BY <1>1, <1>5, <1>8 DEF Has
  <2>2. pair \in db.friends
    BY <2>1 DEF MyFriends
  <2>3. PutFriendDeleteUserId(Demo)
    BY <1>3, <1>8, Dispatch
  <2>4. Serving(Demo, "PutFriendDeleteUserId") /\ Write(Demo, 200, 0, without)
    BY <2>2, <2>3 DEF PutFriendDeleteUserId, without
  <2>5. MyFriends(without) = {}
    BY <1>4, <2>1 DEF MyFriends
  <2>6. Has(without, step, known["me"], known["friend"], known["post"])
    BY <1>6, <1>8, <2>1, <2>5 DEF Has
  <2> QED
    BY <1>8, <2>4, <2>6, WriteOutcome
<1> QED
  BY <1>7, <1>8

LEMMA CreateOutcome ==
    ASSUME DemoInv, Serve(Demo), step = 10
    PROVE  Outcome
<1> DEFINE q == req[Demo].q
           id == db.made + 1
           post == [id |-> id, owner |-> q.token, text |-> "new"]
           new == [db EXCEPT !.posts = @ \cup {post}, !.made = id]
<1>1. /\ req[Demo].stage = "sent"
      /\ Has(db, 9, known["me"], known["friend"], known["post"])
  BY ServeAnswers, Asked, TypeFactsOfDemo DEF DemoInv, Answered
<1>2. known["friend"] \in db.users /\ known["friend"] # OtherUser
  BY PeopleAre
<1>3. ~Refuse(Demo) /\ q.token = known["friend"] /\ q.op = "PostPostCreate"
  BY <1>1, WritingSteps, DoIsServed DEF OpenOps, Operations, PostOps, Names
<1>4. PostPostCreate(Demo)
  BY <1>3, Dispatch
<1>5. Serving(Demo, "PostPostCreate") /\ Write(Demo, 200, id, new)
  BY <1>2, <1>3, <1>4 DEF PostPostCreate
<1>6. new.friends = db.friends /\ new.posts = db.posts \cup {post}
  BY TypeFacts, TypeFactsOfDemo DEF DemoInv, Database
<1>7. post.owner = known["friend"] /\ post.id = id
  BY <1>3
<1> HIDE DEF id, post, new
<1>8. Has(new, 10, known["me"], known["friend"], id)
  <2>1. MyPosts(db) = {}
    BY <1>1 DEF Has
  <2>2. MyFriends(new) = MyFriends(db) /\ MyPosts(new) = {post}
    BY <1>2, <1>6, <1>7, <2>1 DEF MyFriends, MyPosts
  <2> QED
    BY <1>1, <1>7, <2>2 DEF Has
<1> QED
  BY <1>5, <1>8, WriteOutcome

LEMMA ChangeOutcome ==
    ASSUME DemoInv, Serve(Demo), step \in {11, 14}
    PROVE  Outcome
<1> DEFINE q == req[Demo].q
           own == OwnPost(q, db)
           changed == {[p EXCEPT !.text = "edited"] : p \in own}
           edited == [db EXCEPT !.posts = (@ \ own) \cup changed]
           deleted == [db EXCEPT !.posts = @ \ own]
<1>1. /\ req[Demo].stage = "sent"
      /\ Has(db, step - 1, known["me"], known["friend"], known["post"])
  BY ServeAnswers, Asked, TypeFactsOfDemo DEF DemoInv, Answered
<1>2. known["friend"] # OtherUser
  BY PeopleAre
<1>3. /\ ~Refuse(Demo) /\ q.token = known["friend"] /\ q.id = known["post"]
      /\ q.op = IF step = 11 THEN "PutPostUpdate" ELSE "PutPostDeleteId"
  BY <1>1, WritingSteps, DoIsServed DEF OpenOps, Operations, PostOps, Names
<1>4. PICK p \in MyPosts(db) :
         MyPosts(db) = {p} /\ p.owner = known["friend"] /\ p.id = known["post"]
  BY <1>1 DEF Has
<1>5. own = {p}
  <2>1. own \subseteq MyPosts(db)
    BY <1>2, <1>3 DEF OwnPost, MyPosts
  <2>2. p \in own
    BY <1>3, <1>4 DEF OwnPost, MyPosts
  <2> QED
    BY <1>4, <2>1, <2>2
<1>6. PostStatus(q, db) = 200
  BY <1>5 DEF PostStatus
<1>7. p \in Post /\ db \in Database
  BY TypeFacts, TypeFactsOfDemo DEF DemoInv, Database, MyPosts
<1>8. /\ edited.posts = (db.posts \ own) \cup changed /\ edited.friends = db.friends
      /\ deleted.posts = db.posts \ own /\ deleted.friends = db.friends
  BY <1>7 DEF Database
<1>9. PICK p2 : changed = {p2} /\ p2.owner = known["friend"] /\ p2.id = known["post"]
  <2> DEFINE p2 == [p EXCEPT !.text = "edited"]
  <2>1. p2.owner = p.owner /\ p2.id = p.id
    BY <1>7 DEF Post
  <2>2. changed = {p2}
    BY <1>5
  <2> QED
    BY <1>4, <2>1, <2>2
<1>10. MyFriends(edited) = MyFriends(db) /\ MyFriends(deleted) = MyFriends(db)
  BY <1>8 DEF MyFriends
<1>11. CASE step = 11
  <2>1. PutPostUpdate(Demo)
    BY <1>3, <1>11, Dispatch
  <2>2. Serving(Demo, "PutPostUpdate") /\ Write(Demo, 200, 0, edited)
    BY <1>6, <2>1 DEF PutPostUpdate
  <2> HIDE DEF edited, changed, own
  <2>3. MyPosts(edited) = {p2}
    BY <1>2, <1>4, <1>5, <1>8, <1>9 DEF MyPosts
  <2>4. Has(edited, step, known["me"], known["friend"], known["post"])
    BY <1>1, <1>9, <1>10, <1>11, <2>3 DEF Has
  <2> QED
    BY <1>11, <2>2, <2>4, WriteOutcome
<1>12. CASE step = 14
  <2>1. PutPostDeleteId(Demo)
    BY <1>3, <1>12, Dispatch
  <2>2. Serving(Demo, "PutPostDeleteId") /\ Write(Demo, 200, 0, deleted)
    BY <1>6, <2>1 DEF PutPostDeleteId
  <2> HIDE DEF deleted, own
  <2>3. MyPosts(deleted) = {}
    BY <1>4, <1>5, <1>8 DEF MyPosts
  <2>4. Has(deleted, step, known["me"], known["friend"], known["post"])
    BY <1>1, <1>10, <1>12, <2>3 DEF Has
  <2> QED
    BY <1>12, <2>2, <2>4, WriteOutcome
<1> QED
  BY <1>11, <1>12

\* The second part: what is refused, and leaves nothing behind.
LEMMA BadRead ==
    ASSUME DemoInv, step \in 20..32, NEW op, Serving(Demo, op),
           NEW status \in {400, 404}, NEW truth, NEW value, NEW page,
           Read(Demo, status, truth, value, page)
    PROVE  Outcome
<1>1. db' = db /\ (req'[Demo].status = status \/ req'[Demo].status = 500)
  BY ReadIs, TypeFactsOfDemo DEF DemoInv
<1>2. ~Success(req'[Demo])
  BY <1>1 DEF Success
<1>3. MyFriends(db) = {} /\ MyPosts(db) = {}
  BY DEF DemoInv, Effects
<1> QED
  BY <1>1, <1>2, <1>3 DEF Outcome

LEMMA BadWrite ==
    ASSUME DemoInv, step \in 20..32, NEW op, Serving(Demo, op),
           NEW new, new.friends = db.friends, new.posts = db.posts, Write(Demo, 404, 0, new)
    PROVE  Outcome
<1>1. db' \in {db, new} /\ (req'[Demo].status = 404 \/ req'[Demo].status = 500)
  <2> DEFINE status == 404
             value == 0
  <2>1. Write(Demo, status, value, new)
    OBVIOUS
  <2> HIDE DEF status, value
  <2>2. db' \in {db, new} /\ (req'[Demo].status = status \/ req'[Demo].status = 500)
    BY <2>1, WriteIs, TypeFactsOfDemo DEF DemoInv
  <2> QED
    BY <2>2 DEF status
<1>2. ~Success(req'[Demo])
  BY <1>1 DEF Success
<1>3. MyFriends(db') = {} /\ MyPosts(db') = {}
  <2>1. MyFriends(db) = {} /\ MyPosts(db) = {}
    BY DEF DemoInv, Effects
  <2> QED
    BY <1>1, <2>1 DEF MyFriends, MyPosts
<1> QED
  BY <1>2, <1>3 DEF Outcome

LEMMA RefusedOutcome ==
    ASSUME DemoInv, step \in 20..32, Refuse(Demo)
    PROVE  Outcome
<1>1. db' = db /\ req'[Demo].status \in {400, 401}
  BY RefuseIs, TypeFactsOfDemo DEF DemoInv
<1>2. MyFriends(db) = {} /\ MyPosts(db) = {}
  BY DEF DemoInv, Effects
<1>3. ~Success(req'[Demo])
  BY <1>1 DEF Success
<1> QED
  BY <1>1, <1>2, <1>3 DEF Outcome

\* Nothing has the id of nothing.
LEMMA NothingIs ==
    ASSUME ApiTypeOK, NEW d \in {db, replica}, NEW q, q.id = Nobody
    PROVE  /\ UserStatus(Nobody, d) = 404 /\ Nobody \notin d.users
           /\ OwnPost(q, d) = {} /\ PostStatus(q, d) = 404
           /\ \A u : <<u, Nobody>> \notin d.friends
<1>1. d \in Database /\ Nobody \notin Ids
  BY ApiAssumption DEF ApiTypeOK
<1>2. d.users \subseteq Ids /\ d.posts \subseteq Post /\ d.friends \subseteq Ids \X Ids
  BY <1>1 DEF Database
<1>3. OwnPost(q, d) = {}
  BY <1>1, <1>2 DEF OwnPost, Post
<1>4. \A u : <<u, Nobody>> \notin d.friends
  BY <1>1, <1>2
<1> QED
  BY <1>1, <1>2, <1>3, <1>4 DEF UserStatus, PostStatus

LEMMA NoSuchThingOutcome ==
    ASSUME DemoInv, step \in 20..32, Serve(Demo), ~Refuse(Demo), req[Demo].q.id = Nobody,
           req[Demo].q.op \in {"GetUserGetId", "PutFriendSetUserId", "PutFriendDeleteUserId",
                               "PutPostUpdate", "PutPostDeleteId", "GetPostGetId"}
    PROVE  Outcome
<1> DEFINE q == req[Demo].q
           pair == <<q.token, q.id>>
           own == OwnPost(q, db)
           without == [db EXCEPT !.friends = @ \ {pair}]
           edited == [db EXCEPT !.posts = (@ \ own) \cup
                                             {[p EXCEPT !.text = "edited"] : p \in own}]
           deleted == [db EXCEPT !.posts = @ \ own]
<1>1. /\ UserStatus(q.id, replica) = 404 /\ PostStatus(q, replica) = 404
      /\ pair[2] \notin db.users /\ pair \notin db.friends
      /\ own = {} /\ PostStatus(q, db) = 404
  BY NothingIs, TypeFactsOfDemo DEF DemoInv
<1>2. db \in Database
  BY TypeFacts, TypeFactsOfDemo DEF DemoInv
<1>3. /\ without.friends = db.friends /\ without.posts = db.posts
      /\ edited.friends = db.friends /\ edited.posts = db.posts
      /\ deleted.friends = db.friends /\ deleted.posts = db.posts
  BY <1>1, <1>2 DEF Database
<1>4. CASE GetUserGetId(Demo) \/ GetPostGetId(Demo)
  BY <1>1, <1>4, BadRead DEF GetUserGetId, GetPostGetId
<1>5. CASE PutFriendSetUserId(Demo)
  <2>1. Serving(Demo, "PutFriendSetUserId") /\ Write(Demo, 404, 0, db)
    <3>1. req[Demo].stage = "sent" /\ q.op = "PutFriendSetUserId"
      BY <1>5 DEF PutFriendSetUserId, Serving
    <3>2. q.form = ""
      BY <3>1, SentForm DEF OpenOps
    <3> QED
      BY <1>1, <1>5, <3>2 DEF PutFriendSetUserId
  <2> QED
    BY <2>1, BadWrite
<1>6. CASE PutFriendDeleteUserId(Demo)
  <2>1. Serving(Demo, "PutFriendDeleteUserId") /\ Write(Demo, 404, 0, without)
    BY <1>1, <1>6 DEF PutFriendDeleteUserId
  <2> HIDE DEF without
  <2> QED
    BY <1>3, <2>1, BadWrite
<1>7. CASE PutPostUpdate(Demo)
  <2>1. Serving(Demo, "PutPostUpdate") /\ Write(Demo, 404, 0, edited)
    BY <1>1, <1>7 DEF PutPostUpdate
  <2> HIDE DEF edited
  <2> QED
    BY <1>3, <2>1, BadWrite
<1>8. CASE PutPostDeleteId(Demo)
  <2>1. Serving(Demo, "PutPostDeleteId") /\ Write(Demo, 404, 0, deleted)
    BY <1>1, <1>8 DEF PutPostDeleteId
  <2> HIDE DEF deleted
  <2> QED
    BY <1>3, <2>1, BadWrite
<1> QED
  BY <1>4, <1>5, <1>6, <1>7, <1>8, Dispatch

LEMMA BadOutcome ==
    ASSUME DemoInv, Serve(Demo), step \in 20..32
    PROVE  Outcome
<1> DEFINE q == req[Demo].q
           s == Script[step]
<1>1. DemoTypes /\ s \in Step /\ q = RequestOf(s)
  BY ServeAnswers, Asked, TypeFactsOfDemo DEF DemoInv, Answered
<1>2. NoToken(s) \/ WrongPassword(s) \/ NoSuchThing(s)
  BY ScriptIs
<1> HIDE DEF s
<1>3. /\ q.op = s.op /\ q.token = TokenOf(s) /\ q.id = known[s.id]
      /\ s.op \in OpenOps => q.form = s.form
  <2>1. RequestOf(s) = [op |-> s.op, token |-> TokenOf(s), id |-> known[s.id],
                        form |-> IF s.op \in OpenOps THEN s.form ELSE "",
                        limit |-> IF s.op = "GetPostFeed" THEN 2 * MaxFeedLength ELSE 0,
                        offset |-> 0]
    BY <1>1, RequestIs
  <2> DEFINE token == TokenOf(s)
             form == IF s.op \in OpenOps THEN s.form ELSE ""
             limit == IF s.op = "GetPostFeed" THEN 2 * MaxFeedLength ELSE 0
             offset == 0
  <2>2. q = [op |-> s.op, token |-> token, id |-> known[s.id], form |-> form,
             limit |-> limit, offset |-> offset]
    BY <1>1, <2>1
  <2>3. s.op \in OpenOps => form = s.form
    OBVIOUS
  <2> HIDE DEF q, token, form, limit, offset
  <2>4. q.op = s.op /\ q.token = token /\ q.id = known[s.id] /\ q.form = form
    BY <2>2
  <2> QED
    BY <2>3, <2>4 DEF token
<1>4. CASE Refuse(Demo)
  BY <1>4, RefusedOutcome
<1>5. CASE NoToken(s) /\ ~Refuse(Demo)
  <2>1. q.token = Nobody /\ q.op \notin OpenOps \cup {"CacheInvalidate"}
    BY <1>1, <1>3, <1>5 DEF NoToken, TokenOf, DemoTypes
  <2>2. NotAuthorized(q)
    BY <2>1 DEF NotAuthorized
  <2> QED
    BY <1>5, <2>2, Dispatch
<1>6. CASE WrongPassword(s) /\ ~Refuse(Demo)
  <2>1. q.op = "PostLogin" /\ q.form = "wrong"
    BY <1>3, <1>6 DEF WrongPassword, OpenOps
  <2>2. PostLogin(Demo)
    BY <1>6, <2>1, Dispatch
  <2>3. LoginStatus(q, replica) \in {400, 404}
    BY <2>1 DEF LoginStatus
  <2> QED
    BY <2>2, <2>3, BadRead DEF PostLogin
<1>7. CASE NoSuchThing(s) /\ ~Refuse(Demo)
  BY <1>1, <1>3, <1>7, NoSuchThingOutcome DEF NoSuchThing, DemoTypes
<1> QED
  BY <1>2, <1>4, <1>5, <1>6, <1>7

\* Whatever the step, its answer keeps the invariant.
LEMMA ServedOutcome ==
    ASSUME DemoInv, Serve(Demo)
    PROVE  Outcome
<1>1. step \in 1..32
  BY ServeAnswers, Asked, TypeFactsOfDemo DEF DemoInv, Answered
<1>2. \/ step \in {2, 3, 4, 5, 6, 9, 12, 13} \cup 16..19 \/ step \in {1, 7}
      \/ step \in {8, 15} \/ step = 10 \/ step \in {11, 14} \/ step \in 20..32
  BY <1>1
<1> QED
  BY <1>2, ReadOutcome, RegisterOutcome, FriendOutcome, CreateOutcome, ChangeOutcome, BadOutcome

-----------------------------------------------------------------------------
(* The steps of the demo client, and of the network. *)

LEMMA SendIs ==
    ASSUME ApiTypeOK, NEW c \in Clients, NEW q, Send(c, q)
    PROVE  /\ req[c].stage = "idle" /\ req'[c].stage = "sent" /\ req'[c].q = q
           /\ \A d \in Clients \ {c} : req'[d] = req[d]
           /\ db' = db
<1>1. req[c] \in Call
  BY DEF ApiTypeOK
<1>2. req' = [req EXCEPT ![c] = [[req[c] EXCEPT !.q = q] EXCEPT !.stage = "sent"]]
  BY DEF Send, ApiTypeOK
<1>3. \A call \in Call : /\ [[call EXCEPT !.q = q] EXCEPT !.stage = "sent"].stage = "sent"
                         /\ [[call EXCEPT !.q = q] EXCEPT !.stage = "sent"].q = q
  BY DEF Call
<1> QED
  BY <1>1, <1>2, <1>3 DEF Send, ApiTypeOK

LEMMA ReceiveIs ==
    ASSUME ApiTypeOK, NEW c \in Clients, Receive(c)
    PROVE  /\ req[c].stage = "answered" /\ req'[c].stage = "idle"
           /\ \A d \in Clients \ {c} : req'[d] = req[d]
           /\ db' = db
BY DEF Receive, ApiTypeOK, Idle

LEMMA LoseIs ==
    ASSUME ApiTypeOK, NEW c \in Clients, LoseReply(c)
    PROVE  /\ req[c].stage = "answered" /\ req'[c].stage = "answered"
           /\ req'[c].q = req[c].q /\ ~Success(req'[c]) /\ req'[c].doubt
           /\ \A d \in Clients \ {c} : req'[d] = req[d]
           /\ db' = db
<1>1. req' = [req EXCEPT ![c] = AnswerOf(c, Closed, 0, NoPage, TRUE)]
  BY DEF LoseReply, Answer, AnswerOf
<1>2. req'[c] = AnswerOf(c, Closed, 0, NoPage, TRUE) /\ \A d \in Clients \ {c} : req'[d] = req[d]
  BY <1>1 DEF ApiTypeOK
<1>3. /\ req'[c].status = Closed /\ req'[c].doubt
      /\ req'[c].q = req[c].q /\ req'[c].stage = "answered"
  BY <1>2 DEF AnswerOf
<1>4. ~Success(req'[c])
  BY <1>3 DEF Success, Closed
<1> QED
  BY <1>2, <1>3, <1>4 DEF LoseReply

\* The request of a step depends on what the client knows alone.
LEMMA SameRequest ==
    ASSUME UNCHANGED <<step, known, tokens, stopped>>
    PROVE  RequestOf(Script[step])' = RequestOf(Script[step]) /\ Running' = Running
BY DEF RequestOf, ByBody, ByQuery, ByPath, TokenOf, Running

LEMMA DemoSendKeeps ==
    ASSUME DemoInv, DemoSend
    PROVE  InFlight' /\ Numbered' /\ Learnt' /\ Effects' /\ Verdicts'
<1>1. ApiTypeOK /\ Demo \in Clients /\ Other \in Clients \ {Demo}
  BY TypeFactsOfDemo, DemoAssumption DEF DemoInv
<1>2. /\ req[Demo].stage = "idle" /\ req'[Demo].stage = "sent"
      /\ req'[Demo].q = RequestOf(Script[step])
      /\ req'[Other] = req[Other] /\ db' = db
  BY <1>1, SendIs DEF DemoSend
<1>3. /\ step' = step /\ known' = known /\ tokens' = tokens /\ stopped' = stopped
      /\ excused' = excused /\ passed' = passed /\ Running
  BY DEF DemoSend, demoVars
<1>4. InFlight'
  BY <1>2, <1>3, SameRequest DEF DemoInv, InFlight
<1>5. ~HasAnswer /\ ~HasAnswer' /\ ~Succeeded'
  BY <1>2 DEF HasAnswer, Succeeded
<1>6. Numbered'
  BY <1>2 DEF DemoInv, Numbered
<1>7. Learnt' /\ Verdicts'
  BY <1>2, <1>3, <1>5 DEF DemoInv, Learnt, Verdicts
<1>8. Effects'
  BY <1>2, <1>3, <1>5 DEF DemoInv, Effects
<1> QED
  BY <1>4, <1>6, <1>7, <1>8

LEMMA DemoLosesKeeps ==
    ASSUME DemoInv, Lose(Demo)
    PROVE  InFlight' /\ Numbered' /\ Learnt' /\ Effects' /\ Verdicts'
<1>1. ApiTypeOK /\ Demo \in Clients /\ Other \in Clients \ {Demo}
  BY TypeFactsOfDemo, DemoAssumption DEF DemoInv
<1>2. /\ req[Demo].stage = "answered" /\ req'[Demo].stage = "answered"
      /\ req'[Demo].q = req[Demo].q /\ ~Success(req'[Demo]) /\ req'[Demo].doubt
      /\ req'[Other] = req[Other] /\ db' = db
  BY <1>1, LoseIs DEF Lose
<1>3. /\ step' = step /\ known' = known /\ tokens' = tokens /\ stopped' = stopped
      /\ excused' = excused /\ passed' = passed
  BY DEF Lose, demoVars
<1>4. InFlight'
  BY <1>2, <1>3, SameRequest DEF DemoInv, InFlight
<1>5. HasAnswer' /\ ~Succeeded' /\ ~Success(req[Demo])'
  BY <1>2 DEF HasAnswer, Succeeded, Success
<1>6. Numbered'
  BY <1>2 DEF DemoInv, Numbered
<1>7. Learnt'
  BY <1>2, <1>3, <1>5 DEF DemoInv, Learnt
<1>8. Effects'
  BY <1>2, <1>3, <1>5 DEF DemoInv, Effects
<1>9. Verdicts'
  BY <1>2, <1>3, <1>5 DEF DemoInv, Verdicts
<1> QED
  BY <1>4, <1>6, <1>7, <1>8, <1>9

\* The other user's part, the replica's, and no step at all.
LEMMA RestKeeps ==
    ASSUME DemoInv,
           OtherSend \/ OtherReceive \/ Lose(Other) \/ Follow \/ UNCHANGED vars
    PROVE  InFlight' /\ Numbered' /\ Learnt' /\ Effects' /\ Verdicts'
<1>1. ApiTypeOK /\ Other \in Clients /\ Demo \in Clients \ {Other}
  BY TypeFactsOfDemo, DemoAssumption DEF DemoInv
<1>2. UNCHANGED <<step, known, tokens, stopped, excused, passed>>
  BY DEF OtherSend, OtherReceive, Lose, Follow, vars, demoVars
<1>3. /\ req'[Demo] = req[Demo] /\ db' = db
      /\ req'[Other].stage # "idle" => req'[Other].q.token \in {OtherUser, Nobody}
  <2>1. CASE OtherSend
    <3>1. PICK q \in Request : q.token \in {OtherUser, Nobody} /\ Send(Other, q)
      BY <2>1, OtherRequestIs
    <3> QED
      BY <1>1, <3>1, SendIs
  <2>2. CASE OtherReceive
    BY <1>1, <2>2, ReceiveIs DEF OtherReceive
  <2>3. CASE Lose(Other)
    BY <1>1, <2>3, LoseIs DEF Lose, DemoInv, InFlight
  <2>4. CASE Follow \/ UNCHANGED vars
    BY <2>4 DEF Follow, Replicate, vars, apiVars, DemoInv, InFlight
  <2> QED
    BY <2>1, <2>2, <2>3, <2>4
<1>4. InFlight'
  BY <1>2, <1>3, SameRequest DEF DemoInv, InFlight
<1>5. Numbered'
  BY <1>3 DEF DemoInv, Numbered
<1>6. Learnt' /\ Effects' /\ Verdicts'
  BY <1>2, <1>3, Unnoticed DEF DemoInv
<1> QED
  BY <1>4, <1>5, <1>6

\* Where the client learns: from the registrations, the post and the logins.
LEMMA LearningSteps ==
    ASSUME NEW k \in 1..19
    PROVE  /\ Script[k].op = "PostUserRegister" <=> k \in {1, 7}
           /\ Script[k].op = "PostPostCreate" <=> k = 10
           /\ Script[k].op = "PostLogin" <=> k \in {2, 9}
           /\ Script[2].id = "me" /\ Script[9].id = "friend"
<1>1. \A p, n, op : With(p, n, op).op = op /\ With(p, n, op).id = n
  BY DEF With
<1>2. \A op, n, x : Do(op, n, x).op = op
  BY DEF Do
<1>3. Script[2].id = "me" /\ Script[9].id = "friend"
  BY <1>1, WritingSteps
<1>4. CASE k \in {1, 2, 7, 8, 9, 10, 11, 14, 15}
  BY <1>1, <1>2, <1>3, <1>4, WritingSteps
<1>5. CASE k \in {3, 4, 5, 6, 12, 13}
  BY <1>2, <1>3, <1>5, ReadingSteps
<1>6. CASE k \in 16..19
  <2>1. Script[k].op \in DialogOps
    BY <1>2, <1>6, ReadingSteps
  <2> QED
    BY <1>3, <1>6, <2>1 DEF DialogOps
<1> QED
  BY <1>4, <1>5, <1>6

LEMMA LearnIs ==
    ASSUME DemoInv, step \in 1..19, NEW value, Learn(Script[step], value)
    PROVE  /\ known' = IF step = 1 THEN [known EXCEPT !["me"] = value]
                       ELSE IF step = 7 THEN [known EXCEPT !["friend"] = value]
                       ELSE IF step = 10 THEN [known EXCEPT !["post"] = value] ELSE known
           /\ tokens' = IF step = 2 THEN tokens \cup {"me"}
                        ELSE IF step = 9 THEN tokens \cup {"friend"} ELSE tokens
<1> DEFINE s == Script[step]
<1>1. /\ s.op = "PostUserRegister" <=> step \in {1, 7}
      /\ s.op = "PostPostCreate" <=> step = 10
      /\ s.op = "PostLogin" <=> step \in {2, 9}
      /\ step = 2 => s.id = "me"
      /\ step = 9 => s.id = "friend"
  BY LearningSteps
<1>2. known["me"] = Nobody <=> step = 1
  BY PeopleAre DEF DemoInv, Learnt
<1>3. /\ known' = CASE s.op = "PostUserRegister" /\ known["me"] = Nobody ->
                          [known EXCEPT !["me"] = value]
                     [] s.op = "PostUserRegister" /\ known["me"] # Nobody ->
                          [known EXCEPT !["friend"] = value]
                     [] s.op = "PostPostCreate" -> [known EXCEPT !["post"] = value]
                     [] OTHER -> known
      /\ tokens' = IF s.op = "PostLogin" THEN tokens \cup {s.id} ELSE tokens
  BY DEF Learn
<1> HIDE DEF s
<1>4. CASE step = 1
  BY <1>1, <1>2, <1>3, <1>4
<1>5. CASE step = 7
  BY <1>1, <1>2, <1>3, <1>5
<1>6. CASE step = 10
  BY <1>1, <1>2, <1>3, <1>6
<1>7. CASE step \notin {1, 7, 10}
  BY <1>1, <1>2, <1>3, <1>7
<1> QED
  BY <1>4, <1>5, <1>6, <1>7

LEMMA ReceivedWell ==
    ASSUME DemoInv, DemoReceive, step <= 19, Success(req[Demo])
    PROVE  /\ Numbered' /\ Learnt' /\ Effects' /\ Verdicts'
           /\ known' \in [Names -> Ids \cup {Nobody}] /\ known'["nobody"] = Nobody
           /\ tokens' \subseteq Names
<1> DEFINE value == req[Demo].value
<1>1. /\ ApiTypeOK /\ Demo \in Clients /\ step \in 1..19
      /\ known \in [Names -> Ids \cup {Nobody}] /\ known["nobody"] = Nobody
      /\ tokens \subseteq Names /\ Names = {"me", "friend", "post", "nobody"}
  BY TypeFactsOfDemo DEF DemoInv, DemoTypes
<1>2. /\ req[Demo].stage = "answered" /\ req'[Demo].stage = "idle" /\ db' = db
  BY <1>1, ReceiveIs DEF DemoReceive
<1>3. /\ Learn(Script[step], value) /\ step' = step + 1
      /\ stopped' = stopped /\ excused' = (excused \/ req[Demo].doubt) /\ passed' = passed
      /\ ~stopped
  BY ScriptIs DEF DemoReceive, Running
<1>4. /\ known' = IF step = 1 THEN [known EXCEPT !["me"] = value]
                  ELSE IF step = 7 THEN [known EXCEPT !["friend"] = value]
                  ELSE IF step = 10 THEN [known EXCEPT !["post"] = value] ELSE known
      /\ tokens' = IF step = 2 THEN tokens \cup {"me"}
                   ELSE IF step = 9 THEN tokens \cup {"friend"} ELSE tokens
  BY <1>1, <1>3, LearnIs
<1>5. /\ known'["me"] = IF step = 1 THEN value ELSE known["me"]
      /\ known'["friend"] = IF step = 7 THEN value ELSE known["friend"]
      /\ known'["post"] = PostIs
      /\ known'["nobody"] = Nobody
  BY <1>1, <1>4 DEF PostIs
<1>6. Succeeded /\ ~HasAnswer' /\ ~Succeeded'
  BY <1>2 DEF Succeeded, HasAnswer
<1>7. Has(db, step, known["me"], known["friend"], PostIs)
  BY <1>6 DEF DemoInv, Effects
<1>8. step \in {1, 7} => value \in db.users \ {OtherUser, known["me"]}
  BY <1>6 DEF DemoInv, Learnt
<1> HIDE DEF value
<1>9. Numbered'
  BY <1>2 DEF DemoInv, Numbered
<1>10. Learnt'
  BY <1>1, <1>2, <1>3, <1>4, <1>5, <1>6, <1>8 DEF DemoInv, Learnt
<1>11. Effects'
  <2>1. Has(db, step, known'["me"], known'["friend"], known'["post"])
    <3>1. CASE step \in {1, 7}
      BY <1>7, <3>1 DEF Has
    <3>2. CASE step \notin {1, 7}
      BY <1>5, <1>7, <3>2
    <3> QED
      BY <3>1, <3>2
  <2>2. step >= 15 => MyFriends(db) = {} /\ MyPosts(db) = {}
    BY <1>1, <1>7 DEF Has
  <2>3. step' - 1 = step
    BY <1>1, <1>3
  <2> QED
    BY <1>1, <1>2, <1>3, <1>6, <2>1, <2>2, <2>3 DEF Effects
<1>12. Verdicts'
  BY <1>3, <1>6 DEF DemoInv, Verdicts
<1>13. value \in Ids \/ step \notin {1, 7, 10}
  <2>1. db.users \subseteq Ids /\ db.posts \subseteq Post
    BY <1>1 DEF ApiTypeOK, Database
  <2>2. CASE step = 10
    <3>1. PICK p \in MyPosts(db) : p.id = PostIs
      BY <1>7, <2>2 DEF Has
    <3>2. p.id \in Ids
      BY <2>1 DEF MyPosts, Post
    <3> QED
      BY <2>2, <3>1, <3>2 DEF PostIs, value
  <2> QED
    BY <1>8, <2>1, <2>2
<1>14. known' \in [Names -> Ids \cup {Nobody}]
  BY <1>1, <1>4, <1>13
<1>15. tokens' \subseteq Names
  BY <1>1, <1>4
<1> QED
  BY <1>5, <1>9, <1>10, <1>11, <1>12, <1>14, <1>15

LEMMA ReceivedBadly ==
    ASSUME DemoInv, DemoReceive, step > 19 \/ ~Success(req[Demo])
    PROVE  /\ Numbered' /\ Learnt' /\ Effects' /\ Verdicts'
           /\ known' = known /\ tokens' = tokens /\ passed' = passed
<1>1. /\ ApiTypeOK /\ Demo \in Clients /\ step \in 1..33
  BY TypeFactsOfDemo DEF DemoInv
<1>2. /\ req[Demo].stage = "answered" /\ req'[Demo].stage = "idle" /\ db' = db
  BY <1>1, ReceiveIs DEF DemoReceive
<1>3. HasAnswer /\ ~HasAnswer' /\ ~Succeeded'
  BY <1>2 DEF HasAnswer, Succeeded
<1>4. ~Success(req[Demo])
  BY <1>1, <1>3 DEF DemoInv, Verdicts
<1>5. /\ known' = known /\ tokens' = tokens /\ passed' = passed
      /\ excused' = (excused \/ req[Demo].doubt)
      /\ \/ step <= 19 /\ step' = step /\ stopped'
         \/ step > 19 /\ step' = step + 1 /\ stopped' = stopped
  BY <1>1, <1>4, ScriptIs DEF DemoReceive
<1>6. Numbered'
  BY <1>2 DEF DemoInv, Numbered
<1>7. Learnt'
  BY <1>1, <1>2, <1>3, <1>5 DEF DemoInv, Learnt
<1>8. Effects'
  <2>1. CASE step <= 19
    BY <1>1, <1>2, <1>3, <1>5, <2>1 DEF DemoInv, Effects
  <2>2. CASE step > 19
    <3>1. MyFriends(db) = {} /\ MyPosts(db) = {}
      BY <1>1, <2>2 DEF DemoInv, Effects
    <3>2. Has(db, step, known["me"], known["friend"], known["post"])
      BY <1>1, <2>2, <3>1 DEF Has
    <3>3. step' - 1 = step
      BY <1>1, <1>5, <2>2
    <3> QED
      BY <1>2, <1>3, <1>5, <3>1, <3>2, <3>3 DEF Effects
  <2> QED
    BY <1>1, <2>1, <2>2
<1>9. Verdicts'
  <2>1. step <= 19 => req[Demo].doubt
    BY <1>3, <1>4 DEF DemoInv, Verdicts
  <2>2. (stopped => excused) /\ passed = {}
    BY DEF DemoInv, Verdicts
  <2>3. stopped' => excused'
    <3>1. CASE req[Demo].doubt
      BY <1>5, <3>1, Zenon
    <3>2. CASE step > 19 /\ stopped' = stopped
      BY <1>5, <2>2, <3>2, Zenon
    <3> QED
      BY <1>1, <1>5, <2>1, <3>1, <3>2
  <2> QED
    BY <1>3, <1>5, <2>2, <2>3 DEF Verdicts
<1> QED
  BY <1>5, <1>6, <1>7, <1>8, <1>9

LEMMA DemoReceiveKeeps ==
    ASSUME DemoInv, DemoReceive
    PROVE  InFlight' /\ Numbered' /\ Learnt' /\ Effects' /\ Verdicts'
<1>1. Numbered' /\ Learnt' /\ Effects' /\ Verdicts'
  BY ReceivedWell, ReceivedBadly, TypeFactsOfDemo DEF DemoInv
<1>2. /\ ApiTypeOK /\ Demo \in Clients /\ Other \in Clients \ {Demo}
  BY TypeFactsOfDemo, DemoAssumption DEF DemoInv
<1>3. req'[Demo].stage = "idle" /\ req'[Other] = req[Other]
  BY <1>2, ReceiveIs DEF DemoReceive
<1> QED
  BY <1>1, <1>3 DEF DemoInv, InFlight

-----------------------------------------------------------------------------
(* Types, and the demo as a run of the API. *)

\* Every step is one of the API, or none of it.
LEMMA StepsOfApi ==
    ASSUME DemoInv, [Next]_vars
    PROVE  [ApiNext]_apiVars
<1>1. Demo \in Clients /\ Other \in Clients
  BY DemoAssumption
<1>2. CASE DemoSend
  <2>1. step \in 1..32
    BY <1>2, ScriptIs, TypeFactsOfDemo DEF DemoSend, Running, DemoInv
  <2>2. RequestOf(Script[step]) \in Request
    BY <2>1, ScriptIs, RequestIs, TypeFactsOfDemo DEF DemoInv
  <2> QED
    BY <1>1, <1>2, <2>2 DEF DemoSend, ApiNext
<1>3. CASE OtherSend
  BY <1>1, <1>3, OtherRequestIs DEF ApiNext
<1>4. CASE DemoReceive \/ OtherReceive
  BY <1>1, <1>4 DEF DemoReceive, OtherReceive, ApiNext
<1>5. CASE Follow \/ \E c \in Clients : Server(c) \/ Lose(c)
  BY <1>5 DEF Follow, Server, Lose, ApiNext
<1>6. CASE UNCHANGED vars
  BY <1>6 DEF vars
<1> QED
  BY <1>2, <1>3, <1>4, <1>5, <1>6 DEF Next

LEMMA DemoTypeStep ==
    ASSUME DemoInv, [Next]_vars
    PROVE  TypeOK'
<1>1. TypeOK /\ ApiTypeOK /\ step \in 1..33 /\ Len(Script) = 32
  BY TypeFactsOfDemo, ScriptIs DEF DemoInv
<1>2. ApiTypeOK'
  BY <1>1, StepsOfApi, ApiTypeStep
<1>3. CASE DemoReceive
  <2>1. /\ known' \in [Names -> Ids \cup {Nobody}] /\ known'["nobody"] = Nobody
        /\ tokens' \subseteq Names
    BY <1>1, <1>3, ReceivedWell, ReceivedBadly DEF TypeOK
  <2>2. step' \in {step, step + 1} /\ step \in 1..32 /\ others' = others
    BY <1>1, <1>3 DEF DemoReceive, Running
  <2>3. passed' = {}
    BY <1>3, ReceivedWell, ReceivedBadly, <1>1 DEF Verdicts
  <2>4. excused' = (excused \/ req[Demo].doubt) /\ (stopped' = stopped \/ stopped' = TRUE)
    BY <1>3, Zenon DEF DemoReceive
  <2>5. excused' \in BOOLEAN /\ stopped' \in BOOLEAN
    BY <1>1, <2>4, Zenon DEF TypeOK
  <2>6. step' \in 1..(Len(Script) + 1) /\ others' \in 0..MaxOthers
    BY <1>1, <2>2 DEF TypeOK
  <2>7. passed' \subseteq 1..Len(Script)'
    BY <2>3
  <2> QED
    BY <1>2, <2>1, <2>5, <2>6, <2>7, Zenon DEF TypeOK
<1>4. CASE OtherSend
  <2>1. /\ others < MaxOthers /\ others' = others + 1
        /\ UNCHANGED <<step, known, tokens, stopped, excused, passed>>
    BY <1>4 DEF OtherSend
  <2> QED
    BY <1>1, <1>2, <2>1, DemoAssumption DEF TypeOK
<1>5. CASE UNCHANGED demoVars
  BY <1>1, <1>2, <1>5 DEF demoVars, TypeOK
<1> QED
  BY <1>3, <1>4, <1>5 DEF Next, DemoSend, OtherReceive, Server, Lose, Follow, vars

LEMMA DemoStep == DemoInv /\ [Next]_vars => DemoInv'
<1> SUFFICES ASSUME DemoInv, [Next]_vars
             PROVE  DemoInv'
  OBVIOUS
<1>1. TypeOK'
  BY DemoTypeStep
<1>2. InFlight' /\ Numbered' /\ Learnt' /\ Effects' /\ Verdicts'
  <2>1. CASE DemoSend
    BY <2>1, DemoSendKeeps
  <2>2. CASE DemoReceive
    BY <2>2, DemoReceiveKeeps
  <2>3. CASE Server(Demo)
    BY <2>3, ServedOutcome, DemoIsServed DEF Server
  <2>4. CASE Server(Other)
    BY <2>4, OtherIsServed DEF Server
  <2>5. CASE Lose(Demo)
    BY <2>5, DemoLosesKeeps
  <2>6. CASE OtherSend \/ OtherReceive \/ Lose(Other) \/ Follow \/ UNCHANGED vars
    BY <2>6, RestKeeps
  <2> QED
    BY <2>1, <2>2, <2>3, <2>4, <2>5, <2>6, DemoAssumption DEF Next
<1> QED
  BY <1>1, <1>2 DEF DemoInv

LEMMA DemoStart == Init => DemoInv
<1> SUFFICES ASSUME Init
             PROVE  DemoInv
  OBVIOUS
<1>1. OtherUser \in Ids
  BY DemoAssumption DEF OtherUser
<1>2. ApiTypeOK
  BY <1>1, ApiTypeInit DEF Init, ApiInit
<1>3. TypeOK
  <2>1. known = [n \in Names |-> Nobody] /\ "nobody" \in Names
    BY DEF Init, Names
  <2>2. known \in [Names -> Ids \cup {Nobody}] /\ known["nobody"] = Nobody
    BY <2>1
  <2>3. step = 1 /\ tokens = {} /\ stopped = FALSE /\ excused = FALSE /\ passed = {} /\ others = 0
    BY DEF Init
  <2>4. step \in 1..(Len(Script) + 1) /\ others \in 0..MaxOthers
    BY <2>3, ScriptIs, DemoAssumption
  <2>5. tokens \subseteq Names /\ passed \subseteq 1..Len(Script)
    BY <2>3
  <2> QED
    BY <1>2, <2>2, <2>3, <2>4, <2>5, Zenon DEF TypeOK
<1>4. /\ db = [users |-> {OtherUser}, friends |-> {}, posts |-> {}, made |-> 0]
      /\ req[Demo].stage = "idle" /\ req[Other].stage = "idle"
  BY DemoAssumption DEF Init, InitWith, Idle
<1>5. InFlight
  BY <1>4 DEF InFlight
<1>6. Numbered
  BY <1>4 DEF Numbered, OtherUser
<1>7. ~HasAnswer /\ ~Succeeded
  BY <1>4 DEF HasAnswer, Succeeded
<1>8. step = 1 /\ known["me"] = Nobody /\ ~stopped /\ passed = {}
  BY DEF Init, Names
<1>9. Learnt /\ Verdicts
  BY <1>7, <1>8 DEF Learnt, Verdicts
<1>10. Effects
  BY <1>4, <1>7, <1>8 DEF Effects, Has, MyFriends, MyPosts
<1> QED
  BY <1>3, <1>5, <1>6, <1>9, <1>10 DEF DemoInv

LEMMA DemoInvariant == Spec => []DemoInv
  BY DemoStart, DemoStep, PTL DEF Spec

\* Types, with the statuses that the operations declare.
THEOREM TypeCorrect == Spec => []TypeOK
<1>1. DemoInv => TypeOK
  BY DEF DemoInv
<1> QED
  BY <1>1, DemoInvariant, PTL

\* The first part of the demo (main.go:43-177) fails only for a replica that
\* lags or a fault, however many requests another user has sent meanwhile.
THEOREM FailuresExplained == Spec => []FailureIsExplained
<1>1. DemoInv => FailureIsExplained
  BY DEF DemoInv, Verdicts, FailureIsExplained
<1> QED
  BY <1>1, DemoInvariant, PTL

\* Every request of the second part (main.go:191-228) is refused.
THEOREM BadRefused == Spec => []BadIsRefused
<1>1. DemoInv => BadIsRefused
  BY DEF DemoInv, Verdicts, BadIsRefused
<1> QED
  BY <1>1, DemoInvariant, PTL

\* After the first part neither the post nor the friend is left.
THEOREM NothingIsLeft == Spec => []NothingLeft
<1>1. ASSUME DemoInv, step > 15
      PROVE  /\ \A p \in db.posts : p.owner \notin {known["me"], known["friend"]}
             /\ <<known["me"], known["friend"]>> \notin db.friends
  <2>1. step \in 1..33
    BY <1>1, TypeFactsOfDemo DEF DemoInv
  <2>2. MyFriends(db) = {} /\ MyPosts(db) = {}
    BY <1>1 DEF DemoInv, Effects
  <2>3. known["me"] # OtherUser /\ known["friend"] # OtherUser
    BY <1>1, <2>1, PeopleAre
  <2>4. \A p \in db.posts : p.owner = OtherUser
    BY <2>2 DEF MyPosts
  <2>5. \A pair \in db.friends : pair[1] = OtherUser
    BY <2>2 DEF MyFriends
  <2> QED
    BY <2>3, <2>4, <2>5
<1>2. Len(UserSteps \o FriendSteps \o PostSteps) = 15
  BY GoodScript, Zenon DEF UpToPosts
<1>3. DemoInv => NothingLeft
  BY <1>1, <1>2, Zenon DEF NothingLeft
<1> QED
  BY <1>3, DemoInvariant, PTL

\* The demo beside the other user is a run of the API: what holds of the API for
\* any clients holds of it.
THEOREM DemoUsesApi == Spec => ApiSpec
<1>1. Init => ApiInit
  BY DemoAssumption DEF Init, ApiInit, OtherUser
<1>2. DemoInv /\ [Next]_vars => [ApiNext]_apiVars
  BY StepsOfApi
<1> QED
  BY <1>1, <1>2, DemoInvariant, PTL DEF Spec, ApiSpec

\* So nobody changes what is another's in it, ...
THEOREM DemoChangesOwn == Spec => OnlyOwnChanges
  BY DemoUsesApi, OwnChangesOnly, PTL

\* ... and its pages are those that were asked for.
THEOREM DemoPagesAreWindows == Spec => []PageIsWindow
  BY DemoUsesApi, PagesAreWindows, PTL
=============================================================================
