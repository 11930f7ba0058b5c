---------------------------- MODULE FeedPipeline ----------------------------
(***************************************************************************)
(* How the feeds of the social network are kept in step with its database. *)
(*                                                                         *)
(* A request handler (friend_service.go, post_service.go) commits a change *)
(* and only then publishes a notification, ignoring the error of the       *)
(* publication.  The updaters (post_feed_updater.go), one per service      *)
(* instance, compete for one queue: the broker hands every message to one  *)
(* of them at once and forgets it (noAck), so each updater has an inbox    *)
(* that dies with it.  For each notification an updater reloads the cached *)
(* subscribers and feeds the change concerns, and publishes each reloaded  *)
(* feed to the routing key of its user.  Readers (GET /post/feed) go       *)
(* through GetOrLoad.  The two caches are those of RedisCache.             *)
(*                                                                         *)
(* A feed is abstracted to the set of its authors with the version of each *)
(* author's posts; LIMIT never cuts it.                                    *)
(***************************************************************************)
EXTENDS RedisCache, Sequences

CONSTANTS
    Users,
    Pairs,      \* <<u, f>>: the friendships clients set and delete
    Authors,    \* the users who create, update and delete posts
    Handlers,   \* request handler goroutines
    Workers,    \* updater goroutines, one per service instance
    Readers,    \* goroutines serving GET /post/feed
    Master, Replicas,  \* database nodes; without replicas the master is read
    subs, feed, \* the names of the two caches
    Invalidations,     \* whether POST /internal/cache/invalidate is called
    MaxWrites,  \* bound: requests that change something
    NoEvent

ASSUME FeedAssumption ==
    /\ Pairs \subseteq Users \X Users
    /\ Authors \subseteq Users
    /\ Workers \cap Readers = {}
    /\ Procs = Workers \cup Readers
    /\ subs # feed /\ Caches = {subs, feed}
    /\ Ids = Users
    /\ Master \notin Replicas
    /\ Invalidations \in BOOLEAN
    /\ MaxWrites \in Nat
    /\ Values = (SUBSET Users) \cup (SUBSET (Users \X (0..MaxWrites + 1)))

VARIABLES
    db,       \* [Nodes -> the rows each database node shows]
    handler,  \* [Handlers -> committed and not yet published event, or NoEvent]
    inbox,    \* [Workers -> Seq(event)]: delivered, not yet processed
    task,     \* [Workers -> the event in hand and how far it is]
    pushed,   \* [Users -> last feed published for the user, or NoValue]
    lost,     \* history: events dropped, wholly or partly, and failed pushes
    behind,   \* history: keys loaded from a replica that lagged, or in part
    writes,   \* number of requests so far
    older,    \* history: [Workers -> updaters that had loaded a feed of the same
              \* user, and not yet sent it, when this one read the database]
    late,     \* history: updaters with a feed in hand that was overtaken: one that
              \* read later has sent its feed of the same user
    overtaken \* history: users whose last feed came from such an updater

sendVars == <<older, late, overtaken>>
feedVars == <<db, handler, inbox, task, pushed, lost, behind, writes, sendVars>>
vars == <<store, lock, call, stolen, faults, feedVars>>

Nodes == {Master} \cup Replicas
ReadNodes == IF Replicas = {} THEN {Master} ELSE Replicas

FriendEvent(u, f) == <<"friend", u, f>>
PostEvent(a) == <<"post", a>>
InvalidateEvent == <<"invalidate">>
PushEvent(u) == <<"push", u>>

Event ==
    {FriendEvent(q[1], q[2]) : q \in Pairs} \cup {PostEvent(a) : a \in Authors}
        \cup {InvalidateEvent}

ASSUME EventAssumption == NoEvent \notin Event

\* The keys that change at all: the feeds of users with friends to set, the
\* subscribers of users to befriend or with posts.
LiveKeys ==
    {<<feed, q[1]>> : q \in Pairs} \cup {<<subs, q[2]>> : q \in Pairs}
        \cup {<<subs, a>> : a \in Authors}

Friends(n, u) == {f \in Users : <<u, f>> \in db[n].friends}
Subscribers(n, f) == {u \in Users : <<u, f>> \in db[n].friends}
FeedOf(n, u) ==
    {<<a, db[n].posts[a]>> : a \in {f \in Friends(n, u) : db[n].posts[f] > 0}}

\* What loadFunc of the cache of key k returns when it asks node n.
Source(n, k) == IF k[1] = subs THEN Subscribers(n, k[2]) ELSE FeedOf(n, k[2])

NoTask == [stage |-> "idle", ev |-> NoEvent, todo |-> {}, to |-> {}]

Stages == {"idle", "subs", "fan", "feed", "flushSubs", "flushFeed"}

TypeOK ==
    /\ CacheTypeOK
    /\ db \in [Nodes -> [friends: SUBSET Pairs, posts: [Users -> 0..MaxWrites + 1]]]
    /\ handler \in [Handlers -> Event \cup {NoEvent}]
    /\ inbox \in [Workers -> Seq(Event)]
    /\ task \in [Workers -> [stage: Stages, ev: Event \cup {NoEvent},
                             todo: SUBSET Users, to: SUBSET Users]]
    /\ pushed \in [Users -> Values \cup {NoValue}]
    /\ lost \subseteq Event \cup {PushEvent(u) : u \in Users}
    /\ behind \subseteq Keys
    /\ writes \in 0..MaxWrites
    /\ older \in [Workers -> SUBSET Workers]
    /\ late \subseteq Workers
    /\ overtaken \subseteq Users

\* Any friendships, one version of posts each; a key is cached or not.
Init ==
    /\ \E rows \in SUBSET Pairs :
         db = [n \in Nodes |-> [friends |-> rows, posts |-> [u \in Users |-> 1]]]
    /\ \E warm \in SUBSET LiveKeys :
         store = [k \in Keys |-> IF k \in warm THEN Source(Master, k) ELSE NoValue]
    /\ lock = [k \in Keys |-> NoProc]
    /\ call = [p \in Procs |-> Idle]
    /\ stolen = {}
    /\ faults = 0
    /\ handler = [h \in Handlers |-> NoEvent]
    /\ inbox = [w \in Workers |-> <<>>]
    /\ task = [w \in Workers |-> NoTask]
    /\ pushed = [u \in Users |-> NoValue]
    /\ lost = {} /\ behind = {}
    /\ writes = 0
    /\ older = [w \in Workers |-> {}] /\ late = {} /\ overtaken = {}

-----------------------------------------------------------------------------
(* Request handlers: commit, then publish. *)

Request(h, e) ==
    /\ handler[h] = NoEvent
    /\ writes < MaxWrites
    /\ writes' = writes + 1
    /\ handler' = [handler EXCEPT ![h] = e]
    /\ UNCHANGED <<cacheVars, inbox, task, pushed, lost, behind, sendVars>>

AddFriend(h, u, f) ==
    /\ <<u, f>> \notin db[Master].friends
    /\ Request(h, FriendEvent(u, f))
    /\ db' = [db EXCEPT ![Master].friends = @ \cup {<<u, f>>}]

DeleteFriend(h, u, f) ==
    /\ <<u, f>> \in db[Master].friends
    /\ Request(h, FriendEvent(u, f))
    /\ db' = [db EXCEPT ![Master].friends = @ \ {<<u, f>>}]

\* A post is created, updated or deleted.
ChangePost(h, a) ==
    /\ Request(h, PostEvent(a))
    /\ db' = [db EXCEPT ![Master].posts[a] = @ + 1]

\* POST /internal/cache/invalidate.
RequestInvalidation(h) ==
    /\ Invalidations
    /\ Request(h, InvalidateEvent)
    /\ UNCHANGED db

\* The broker passes the message on to one of the consumers of the queue.
Publish(h, w) ==
    /\ handler[h] # NoEvent
    /\ inbox' = [inbox EXCEPT ![w] = Append(@, handler[h])]
    /\ handler' = [handler EXCEPT ![h] = NoEvent]
    /\ UNCHANGED <<cacheVars, db, task, pushed, lost, behind, writes, sendVars>>

\* The publication fails, or the process dies before it: the change stays.
PublishFails(h) ==
    /\ handler[h] # NoEvent
    /\ Fault
    /\ lost' = lost \cup {handler[h]}
    /\ handler' = [handler EXCEPT ![h] = NoEvent]
    /\ UNCHANGED <<store, lock, call, stolen, db, inbox, task, pushed, behind, writes, sendVars>>

HandlerStep(h) == (\E w \in Workers : Publish(h, w)) \/ PublishFails(h)

\* Asynchronous replication: a replica catches up with the master.
Replicate(r) ==
    /\ db[r] # db[Master]
    /\ db' = [db EXCEPT ![r] = db[Master]]
    /\ UNCHANGED <<cacheVars, handler, inbox, task, pushed, lost, behind, writes, sendVars>>

-----------------------------------------------------------------------------
(* The updaters. *)

\* A slip: the subscribers are looked up whatever the event.
LookSubsUp(w, e) ==
    \/ e[1] = "friend" /\ StartGetOrLoad(w, <<subs, e[3]>>)
    \/ e[1] = "post" /\ StartGetOrLoad(w, <<subs, e[2]>>)

\* The subscribers are reloaded after a friendship changed, and looked up after
\* a post changed.
CallSubs(w, e) ==
    \/ e[1] = "friend" /\ StartLoad(w, <<subs, e[3]>>)
    \/ e[1] = "post" /\ StartGetOrLoad(w, <<subs, e[2]>>)

\* A message leaves the inbox; the first call it leads to starts.
Take(w) ==
    LET e == Head(inbox[w]) IN
    /\ task[w].stage = "idle"
    /\ inbox[w] # <<>>
    /\ inbox' = [inbox EXCEPT ![w] = Tail(@)]
    /\ \/ /\ CallSubs(w, e)
          /\ task' = [task EXCEPT ![w] = [NoTask EXCEPT !.stage = "subs", !.ev = e]]
       \/ /\ e[1] = "invalidate"
          /\ task' = [task EXCEPT ![w] = [NoTask EXCEPT !.stage = "flushSubs", !.ev = e]]
          /\ UNCHANGED call
    /\ UNCHANGED <<store, lock, stolen, faults, db, handler, pushed, lost, behind, writes,
                   sendVars>>

\* A slip: the error of the call is not looked at.
GotSubsOrError(w) ==
    LET e == task[w].ev
        users == IF e[1] = "friend" THEN {e[2]} ELSE call[w].val IN
    /\ task[w].stage = "subs"
    /\ call[w].pc = "return"
    /\ Reset(w)
    /\ task' = [task EXCEPT ![w].stage = "fan", ![w].todo = users]
    /\ UNCHANGED <<store, lock, stolen, faults, db, handler, inbox, pushed, lost, behind, writes,
                   sendVars>>

\* The subscribers are known: the feeds to reload are the user's own after a
\* friendship changed, those of all subscribers after a post changed.
GotSubs(w) ==
    LET e == task[w].ev
        users == IF e[1] = "friend" THEN {e[2]} ELSE call[w].val IN
    /\ task[w].stage = "subs"
    /\ call[w].pc = "return"
    /\ call[w].val # NoValue
    /\ Reset(w)
    /\ task' = [task EXCEPT ![w].stage = "fan", ![w].todo = users]
    /\ UNCHANGED <<store, lock, stolen, faults, db, handler, inbox, pushed, lost, behind, writes,
                   sendVars>>

\* The subscribers could not be loaded: the event is dropped.
NoSubs(w) ==
    /\ task[w].stage = "subs"
    /\ call[w].pc = "return"
    /\ call[w].val = NoValue
    /\ Reset(w)
    /\ task' = [task EXCEPT ![w] = NoTask]
    /\ lost' = lost \cup {task[w].ev}
    /\ UNCHANGED <<store, lock, stolen, faults, db, handler, inbox, pushed, behind, writes,
                   sendVars>>

\* A slip: only one subscriber is served.
LoadOne(w) ==
    /\ task[w].stage = "fan"
    /\ \E u \in task[w].todo :
         /\ StartLoad(w, <<feed, u>>)
         /\ task' = [task EXCEPT ![w].stage = "feed", ![w].to = {u}, ![w].todo = {}]
    /\ UNCHANGED <<store, lock, stolen, faults, db, handler, inbox, pushed, lost, behind, writes,
                   sendVars>>

\* A slip: the feeds are looked up.
LookNext(w) ==
    /\ task[w].stage = "fan"
    /\ \E u \in task[w].todo :
         /\ StartGetOrLoad(w, <<feed, u>>)
         /\ task' = [task EXCEPT ![w].stage = "feed", ![w].to = {u}, ![w].todo = @ \ {u}]
    /\ UNCHANGED <<store, lock, stolen, faults, db, handler, inbox, pushed, lost, behind, writes,
                   sendVars>>

LoadNext(w) ==
    /\ task[w].stage = "fan"
    /\ \E u \in task[w].todo :
         /\ StartLoad(w, <<feed, u>>)
         /\ task' = [task EXCEPT ![w].stage = "feed", ![w].to = {u}, ![w].todo = @ \ {u}]
    /\ UNCHANGED <<store, lock, stolen, faults, db, handler, inbox, pushed, lost, behind, writes,
                   sendVars>>

\* The feed in hand of w has gone, ahead of those the updaters in passed hold.
Release(w, passed) ==
    /\ older' = [q \in Workers |-> IF q = w THEN {} ELSE older[q] \ {w}]
    /\ late' = (late \cup passed) \ {w}

\* sendPostFeedUpdate: the reloaded feed goes to its user's routing key.
Send(w) ==
    /\ task[w].stage = "feed"
    /\ call[w].pc = "return"
    /\ call[w].val # NoValue
    /\ pushed' = [u \in Users |-> IF u \in task[w].to THEN call[w].val ELSE pushed[u]]
    /\ overtaken' = IF w \in late THEN overtaken \cup task[w].to ELSE overtaken \ task[w].to
    /\ Reset(w)
    /\ task' = [task EXCEPT ![w].stage = "fan", ![w].to = {}]
    /\ Release(w, older[w])
    /\ UNCHANGED <<store, lock, stolen, faults, db, handler, inbox, lost, behind, writes>>

\* The feed was reloaded, its publication fails: logged only.
SendFails(w) ==
    /\ task[w].stage = "feed"
    /\ call[w].pc = "return"
    /\ call[w].val # NoValue
    /\ Fault
    /\ lost' = lost \cup {PushEvent(u) : u \in task[w].to}
    /\ Reset(w)
    /\ task' = [task EXCEPT ![w].stage = "fan", ![w].to = {}]
    /\ Release(w, {})
    /\ UNCHANGED <<store, lock, stolen, db, handler, inbox, pushed, behind, writes, overtaken>>

\* A feed could not be reloaded: the others still are.
NoFeed(w) ==
    /\ task[w].stage = "feed"
    /\ call[w].pc = "return"
    /\ call[w].val = NoValue
    /\ Reset(w)
    /\ task' = [task EXCEPT ![w].stage = "fan", ![w].to = {}]
    /\ lost' = lost \cup {task[w].ev}
    /\ Release(w, {})
    /\ UNCHANGED <<store, lock, stolen, faults, db, handler, inbox, pushed, behind, writes,
                   overtaken>>

Done(w) ==
    /\ task[w].stage = "fan"
    /\ task[w].todo = {}
    /\ task' = [task EXCEPT ![w] = NoTask]
    /\ UNCHANGED <<cacheVars, db, handler, inbox, pushed, lost, behind, writes, sendVars>>

\* processInvalidateAll: the subscribers first, then the feeds.
FlushSubs(w) ==
    /\ task[w].stage = "flushSubs"
    /\ FlushDB(subs)
    /\ task' = [task EXCEPT ![w].stage = "flushFeed"]
    /\ UNCHANGED <<db, handler, inbox, pushed, lost, behind, writes, sendVars>>

FlushFeed(w) ==
    /\ task[w].stage = "flushFeed"
    /\ FlushDB(feed)
    /\ task' = [task EXCEPT ![w] = NoTask]
    /\ UNCHANGED <<db, handler, inbox, pushed, lost, behind, writes, sendVars>>

\* A FLUSHDB fails: what was to follow is not done.
FlushFails(w) ==
    /\ task[w].stage \in {"flushSubs", "flushFeed"}
    /\ Fault
    /\ task' = [task EXCEPT ![w] = NoTask]
    /\ lost' = lost \cup {task[w].ev}
    /\ UNCHANGED <<store, lock, call, stolen, db, handler, inbox, pushed, behind, writes, sendVars>>

\* The instance of w dies and is started again: the event in hand and all
\* that was delivered to it are gone, a lock it held is not.
Crash(w) ==
    /\ task[w].stage # "idle" \/ inbox[w] # <<>>
    /\ Fault
    /\ Reset(w)
    /\ lost' = lost \cup {inbox[w][i] : i \in DOMAIN inbox[w]}
                    \cup ({task[w].ev} \ {NoEvent})
    /\ inbox' = [inbox EXCEPT ![w] = <<>>]
    /\ task' = [task EXCEPT ![w] = NoTask]
    /\ Release(w, {})
    /\ UNCHANGED <<store, lock, stolen, db, handler, pushed, behind, writes, overtaken>>

-----------------------------------------------------------------------------
(* The cache calls of updaters and readers. *)

\* p reads after the updaters that have a feed of the same user in hand.
ReadsAfter(p) ==
    older' = [q \in Workers |->
        IF q = p
        THEN {w \in Workers : /\ task[w].stage = "feed" /\ call[w].key = call[p].key
                              /\ call[w].pc = "return" /\ call[w].val # NoValue}
        ELSE older[q]]

\* loadFunc: one SELECT on a node that serves reads.
Read(p) ==
    LET k == call[p].key IN
    /\ \E n \in ReadNodes :
         /\ ReadSource(p, Source(n, k))
         /\ behind' = IF Source(n, k) = Source(Master, k) THEN behind ELSE behind \cup {k}
    /\ ReadsAfter(p)
    /\ UNCHANGED <<db, handler, inbox, task, pushed, lost, writes, late, overtaken>>

\* The connection breaks after some rows: rows.Err is not looked at, so they
\* are taken for all there are.
ReadCut(p) ==
    LET k == call[p].key IN
    /\ call[p].pc = "load"
    /\ Fault
    /\ \E n \in ReadNodes : \E rows \in (SUBSET Source(n, k)) \ {Source(n, k)} :
         GotoWith(p, "add", rows)
    /\ behind' = behind \cup {k}
    /\ ReadsAfter(p)
    /\ UNCHANGED <<store, lock, stolen, db, handler, inbox, task, pushed, lost, writes, late,
                   overtaken>>

Trip(p) == CallStep(p) /\ UNCHANGED feedVars

\* GET /post/feed: GetUserPosts looks the feed up.  Only users with friends
\* to set ask: the feed of the others is always empty.
Ask(r, u) ==
    /\ StartGetOrLoad(r, <<feed, u>>)
    /\ UNCHANGED <<store, lock, stolen, faults, feedVars>>

Answer(r) ==
    /\ call[r].pc = "return"
    /\ Reset(r)
    /\ UNCHANGED <<store, lock, stolen, faults, feedVars>>

\* TTL of a value; expiry of a lock nobody uses any more.  An expiry of a
\* lock in use is studied in CachedSource.
Expire(k) ==
    /\ \/ ExpireValue(k)
       \/ /\ lock[k] \in Procs => ~Loading(lock[k], k)
          /\ ExpireLock(k)
    /\ UNCHANGED feedVars

WorkerStep(w) ==
    \/ Take(w) \/ GotSubs(w) \/ NoSubs(w) \/ LoadNext(w)
    \/ Send(w) \/ SendFails(w) \/ NoFeed(w) \/ Done(w)
    \/ FlushSubs(w) \/ FlushFeed(w) \/ FlushFails(w)
    \/ Read(w) \/ ReadCut(w) \/ Trip(w)

ReaderStep(r) == Read(r) \/ ReadCut(r) \/ Trip(r) \/ Answer(r)

Next ==
    \/ \E h \in Handlers :
         \/ \E q \in Pairs : AddFriend(h, q[1], q[2]) \/ DeleteFriend(h, q[1], q[2])
         \/ \E a \in Authors : ChangePost(h, a)
         \/ RequestInvalidation(h)
         \/ HandlerStep(h)
    \/ \E n \in Replicas : Replicate(n)
    \/ \E w \in Workers : WorkerStep(w) \/ Crash(w)
    \/ \E r \in Readers : ReaderStep(r) \/ \E q \in Pairs : Ask(r, q[1])
    \/ \E k \in Keys : Expire(k)

Spec == Init /\ [][Next]_vars

\* Goroutines that can run do: a handler goes on to its publication, an
\* updater through its inbox, a reader through its call.  Requests, expiry
\* and failures are never owed.
FairSpec ==
    /\ Spec
    /\ \A h \in Handlers : WF_vars(HandlerStep(h))
    /\ \A w \in Workers : WF_vars(WorkerStep(w))
    /\ \A r \in Readers : WF_vars(ReaderStep(r))
    /\ \A n \in Replicas : WF_vars(Replicate(n))

-----------------------------------------------------------------------------

\* Nothing is on its way to the caches any more.
Quiet ==
    /\ \A h \in Handlers : handler[h] = NoEvent
    /\ \A w \in Workers : inbox[w] = <<>> /\ task[w].stage = "idle"
    /\ \A p \in Procs : call[p].pc = "idle"
    /\ \A n \in Replicas : db[n] = db[Master]

Fresh(k) == store[k] \in {NoValue, Source(Master, k)}

\* Nothing but the notifications themselves: none was lost, and no lock of a
\* load, and nothing was loaded from a replica that lagged or only in part.
Undisturbed == lost = {} /\ stolen = {} /\ behind = {}

\* Once every notification has been handled, undisturbed, what the caches hold
\* is what the database holds.  It rests on committing before publishing, on
\* reloading subscribers before the feed that needs them, and on reading the
\* database under the key's lock.
QuiescentFresh ==
    Quiet /\ Undisturbed => \A k \in Keys : Fresh(k)

\* With failures and replicas: a stale feed is always the trace of a read of it
\* from a lagging replica or cut short, or of the subscribers of a present
\* friend, or of a lost notification about its user's friendships or about the
\* posts of a present friend; stale subscribers that of such a read of them, or
\* of a lost notification about who has this friend.
StaleIsExplained ==
    Quiet /\ stolen = {} =>
        \A u \in Users :
          /\ ~Fresh(<<subs, u>>) =>
                <<subs, u>> \in behind \/ \E v \in Users : FriendEvent(v, u) \in lost
          /\ ~Fresh(<<feed, u>>) =>
                \/ <<feed, u>> \in behind
                \/ \E f \in Users :
                     \/ FriendEvent(u, f) \in lost
                     \/ f \in Friends(Master, u)
                           /\ (PostEvent(f) \in lost \/ <<subs, f>> \in behind)

\* "The current feed of the user is requested" and published
\* (queues/report.md): when all is quiet and nothing was disturbed, the last
\* feed a user was sent is the user's feed, whatever updaters sent it.  The
\* one exception: a feed is published after the key's lock is released, so an
\* updater may send one after another has read and sent a newer, and that feed
\* may be the last.
PushedIsCurrent ==
    Quiet /\ Undisturbed =>
        \A u \in Users \ overtaken : pushed[u] \in {NoValue, FeedOf(Master, u)}

\* Once clients stop changing things, the caches become right and stay right.
EventuallyFresh ==
    <>[](~Undisturbed \/ \A k \in Keys : Fresh(k))
=============================================================================
