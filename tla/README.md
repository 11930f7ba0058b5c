# A specification of the back end of otus-highload

TLA+ models of the back end in `src/backend`, TLC runs on small instances and
TLAPS proofs for all instances. Paths below are relative to `src/backend`
unless they start with `src/`; the reports cited are `src/caching/report.md`,
`src/queues/report.md`, `src/distrubuted-transactions/report.md` and
`src/inmemory/report.md`.

## 1. The system

A social network in Go: a **social** service (users, friends, posts, feed,
websocket), a **dialog** service, a **verifier** service, over PostgreSQL with
replicas, Redis, RabbitMQ and optionally Tarantool. Several instances of the
social service may run side by side.

| Component | State | Operations | What makes it correct |
|---|---|---|---|
| Redis cache (`social/internal/service/cache`) | values with a TTL, `<key>-lock` with a 5 s expiry | `Load`, `GetOrLoad`, `InvalidateAll` | one load of a key at a time; a key is not filled with an older value than the copy read had when it was last filled; every call returns |
| Friend and post services, notifier | none of their own | commit a change, then publish an event, ignoring the error | each committed change reaches the caches unless an event is lost |
| Feed updater (`post_feed_updater.go`) | the backlog delivered by the broker, the event in hand | reload subscribers, reload feeds, push feeds to users; flush both caches | caches equal the database when all is quiet; failures damage only what they concern |
| Feed service | none | `GetUserPosts` | reads through the cache; pages of the cached feed |
| Replicated database | master and lagging replicas | writes on the master, reads on any replica | - |
| Feed subscriber and websocket handlers (`post_feed_user_subscriber.go`, `manual_routes.go`) | `consumers`, `activeSubscribers` under one mutex; a goroutine per consumer; a channel per session | subscribe, unsubscribe, receive, send, clean up | no channel closed twice or used after; the two maps agree; a registered consumer is fed; sessions and goroutines end |
| RabbitMQ wrapper (`pkg/queue/rabbit`) | queues, bindings, one connection opened once | `Start`, `Stop`, `ReceiveData`, `SendData` | what is bound is fed; nothing is left behind |
| Registration saga (`user_service.go`, `user_status_service.go`, verifier) | the status of a user | publish "created", verify, set the status | a status never goes back; every user ends active or failed |
| HTTP API (`social/internal/server/http`, the wrappers of `server.gen.go`) | the request in flight | authenticate, validate, run one statement, answer | a status the operation declares; nobody changes what is another's; a page is the part that was asked for |
| Authentication, user storage | users and password hashes | register, log in, look up, search | a token names its user |
| Dialog service and storages (`dialog`, and its client in `social/internal/service/dialog`) | messages by dialog, in Postgres or Tarantool | send, list | what is acknowledged is kept and shown, in the order of the talk |
| Tarantool's start script (`tarantool/*.lua`) | the log on disk: spaces, a user, the migration lock; Lua functions in memory | `box.once` twice, the migration under its lock | after a start the database serves |
| Start and shutdown (`*/cmd/server/main.go`) | which parts run | start and stop in order | a stop ends; it loses nothing it need not lose |
| Demo client (`social/cmd/client/main.go`) | the ids and tokens it has learnt | a script of 32 calls | it succeeds when nothing is wrong, and takes back what it did |
| Logging, metrics, tracing, Zabbix, dialog generator | none that others depend on | - | - |

How they interact: a handler of the HTTP API commits to the master and
publishes a notification to one durable queue. Every instance has an updater
consuming from that queue; the broker hands each message to one of them and,
with `noAck`, forgets it. The updater rebuilds caches under the key's lock by
reading the (replicated) database and publishes each rebuilt feed under its
user's routing key. A websocket session subscribes its instance to a queue of
that user; one goroutine per user and instance passes the feeds on to the
sessions. Dialogs go from a social instance over HTTP to the dialog service, once
and without a retry.

What is hard: the gap between commit and publication, `noAck` delivery, locks
that expire under their holders, FLUSHDB removing locks, reads of replicas,
updaters overtaking each other, and the goroutines of the subscriber, which
read shared maps and send on channels without the mutex that guards them; results
of queries that break off unnoticed (`rows.Err` is never read), instances that bind and
unbind one queue for all, connections that are opened once, clocks that order the
messages of a dialog, and a start script that may die between any two statements. The
full list, each item at its line, is `hazards` in `PROJECT.json`.

## 2. Modules

```
RedisCache ------> CachedSource -----> MC_CachedSource
    |                  | refines
    |                  v
    |              FreshCache
    +------------> FeedPipeline -----> MC_FeedPipeline
    +--> RedisCache_proofs --> CachedSource_proofs, FeedPipeline_proofs
FeedSubscriber --> MC_FeedSubscriber
    +------------> FeedSubscriber_proofs
UserSaga --------> MC_UserSaga
    | refines +--> UserSaga_proofs
    v
Registration
Tarantool -------> DialogService ----> MC_DialogService
    |                  | refines
    |                  v
    |                Dialog
    |              DialogService_proofs
    +------------> MC_Tarantool
SocialApi -------> DemoClient -------> MC_DemoClient
                       +-------------> DemoClient_proofs
SocialInstance --> MC_SocialInstance
    +------------> SocialInstance_proofs
```

**RedisCache** is the component of `redis.go`. `store` and `lock` are Redis;
`call[p]` is the call a goroutine `p` is in, with its program counter, key, tries
left and value. Each round trip is an action: `Get`, `Acquire`, `AcquireBusy`,
`AcquireFails`, `ReadSource`, `Add`, `Unlock`, and the failing variant of each. `ExpireValue`,
`ExpireLock` and `FlushDB` are what Redis does meanwhile. The unlock script
deletes the lock only if it still holds the caller's token, so `lock` stores its
holder. `stolen` is a history variable: the keys whose lock vanished (expiry,
FLUSHDB) while a holder was using it. `NoValue` as the value of a returned call
stands for an error. Every key is a pair of cache and user, because the
service has two caches in two Redis databases.

**FreshCache** is what the cache promises without any calls or locks: a key is
filled only with a version that some copy of its source has had, and, unless the key's lock was
lost, with none older than that copy had when the key was last filled (`had`). This says less
than that a key never goes back. It goes back when a load reads a replica that is behind
the one read by the load before it, and no lock can prevent that. With one node to read (no replicas
configured) the copy is the master, and then a key never goes back.

**CachedSource** puts RedisCache over a replicated database where a key's value is a
version number, with clients that call `Load` and `GetOrLoad` in any order. A load reads any of
the replicas (`ReadNodes`, as `connRead` picks one at random), a write goes to the master, and
`Replicate` brings a replica one version further, whenever it likes. CachedSource
is shown to implement FreshCache, by TLC and by proof; the refinement mapping
is the identity on `store`, `had` and `stolen` and takes for `copy` the nodes that are read, so that a SET maps to
`Fill`, a write or a replication to `Advance`, expiry and flush map to `Lose`, and every other round trip is a stutter.

**FeedPipeline** is the way from a request to the caches. `db` maps each
database node to the friendships and the version of each user's posts;
`handler[h]` is a committed change not yet published; `inbox[w]` is what the broker
has pushed to updater `w`; `task[w]` is its place in `processUpdateFriend`,
`processUpdateFeed` or `processInvalidateAll`. A feed is the set of a user's
friends that have posts, with the version of these. The cache calls are those of
RedisCache; a crash takes the inbox, the event in hand and the call with it but
leaves the lock. `ReadCut` is a query whose rows end early, which the storage takes for a
whole result. Histories: `lost` has the events dropped wholly or in part, `behind` the keys
whose value was loaded from a replica that lagged or from such a cut result. `pushed` is the
last feed published for each user. A feed is published after the key's lock is released, so one updater may
publish an old feed after another has loaded and published a newer one. Three more histories record exactly
that: `older[w]` has the updaters who held a loaded feed of the same user when `w` read, `late` those of whom one
that read later has published, and `overtaken` the users whose last feed came from a late updater.

**FeedSubscriber** is one instance's websocket side. What runs under the mutex
(subscribe, unsubscribe, the deferred cleanup) is one action; the loop of the
consumer's goroutine is cut at every read of a shared map (`Lookup`,
`NextTarget`) and every send (`Send`, `SendPanics`). Inner maps of
`activeSubscribers` are a small heap, since the goroutine keeps iterating a map
that has been replaced. Reading a map while another goroutine writes it is a
data race in Go: the runtime may kill the process or not (`Survives`), and an
iteration may or may not meet a session added meanwhile (`Skips`). A message
the relay goroutine of `ReceiveData` has in hand may survive the end of
its channel (`InHand`).

**Registration** is what the saga promises of a user: a row appears pending, the
verifier gives at most one verdict, and the status becomes what it says and
stays so.

**UserSaga** is how the services do it. `events` maps each place to the events that are
there: the handlers of `RegisterUser` whose row is inserted (`Handler(s)`), the
broker's two durable queues (`Queue(key)`) and what the broker has pushed to an
instance (`Inbox(i)`). `bound` has the routing keys whose queue is bound: `Start`
binds the queue that all instances of a service share, `StopConsumer` unbinds it,
and what is published in between is dropped. `life[i]` goes from `up` through
`stopping` (the context is cancelled) and `draining` (the consumer is cancelled) to
`down`. Publishing still works after the signal, an update does not. A verifier never leaves
`draining` but by a crash, because its processor's `Stop` waits for a channel nobody
closes. A connection is dialled once (`Queue.Start`): `BreakConsuming` and `BreakPublishing` end one, and until the
process is over the instance is `deaf` (nothing is pushed to it, and its stop fails at the unbinding, so the queue stays
bound) or `mute` (each publication fails, and its event is gone). A social instance consumes and publishes
over one connection, a verifier over two. `verdict` and `lost` are histories: the verdict given for a user, and the users who lost
an event. Places are sets, since events of different users commute.

**Tarantool** is `schema.lua` on every start, statement by statement: `pc` names the
next one, `disk` has those whose effect is in the write-ahead log, `functions` says whether
the Lua functions are defined in this process. `Once` is `box.once`: it writes its key
before it runs its body, so that a crash between the two leaves a body that never runs again.
`damaged` is a history: the process once died inside such a body or under the migration lock.

**Dialog** is what the dialogs promise: a message answered with success is kept for good, and
a list shows, each once, messages of the two users it is about.

**DialogService** is how they are kept. It extends Tarantool, so each step of the script, each crash
and each call of a dialog may interleave. A request is one call (`phase`, `at`, `parties`):
the social instance forwards it, an instance of the dialog service stamps it (with the clock
of the database, or its own for Tarantool: `stamp`), the storage inserts or selects, and the
reply goes back. `flying` has the inserts on their way, which may be applied after their
caller is gone. Whatever is lost or refused on the way is status 500. The connection to Tarantool
is opened with the instance and not again (`conn`). `heard` (what was
acknowledged before a request began) and `partial` (lists from a lagging replica or a cut result) are histories.
The mapping to Dialog takes `pair` from the two users, `kept` from whichever
storage is used, and shows a list when it is answered.

**SocialApi** is the API: the requests of `server.gen.go` with the statuses their
responses declare (`Declared`), the order of refusals (token, then parameters and body), one statement per
handler on the master or the replica, and the status its outcome leads to. A token is its user,
integers are those of a machine of width `MaxInt` (`Wrap`). `limit` and `offset` come as floats, counted in halves here:
validation sees the float, `ToInt` drops the fraction, and a number no int equals becomes the least or the greatest int, which the
Go specification leaves to the processor. (A float32 has 24 bits, so it also rounds large numbers; these are far beyond every feed.)
A body may be `unfit`: readable, and refused by Postgres for a missing name, a value too long for its column,
or an id in the path too long for its; the answer is 500. `doubt` marks an
answer that met a lagging replica or a failure. Every answer is `Closed` when the server drops the
connection.

**DemoClient** composes SocialApi with the script of the demo client (`Script`, the steps
that must succeed and the steps that must be refused), next to a second user who sends any
requests of his own.

**SocialInstance** is the life of social instances around their feed updater:
`main` goes through binding, consuming, serving, and, once signalled, through unbinding, cancelling,
closing, waiting for the goroutine, and closing the publishers. `bound` and `queue` are the
broker's one queue of notifications, `inbox` and `hand` what an instance has of it, `open` its
changes not yet published. A connection that breaks stays broken: publications fail, the
consumer's channel ends, and each later step of the stop fails. `lost` and `disturbed` are histories: what
the caches are never told of, and what was under way while something was not in order.

Operators under a comment that begins with "A slip" are plausible mistakes in the
operator that follows them; no specification uses them. They show that each
property would notice.

## 3. Runs

| Run | Instance | What it shows |
|---|---|---|
| `cached` | 2 callers, 1 key, 3 tries, 2 faults, a master with 1 write, 2 lagging replicas | `OneLoadUnlessStolen`, `LoadedIsRecent`, FreshCache implemented, `CallsReturn` |
| `fresh` | 2 updaters, 1 reader, 2 handlers, 1 friendship, 1 lagging replica, 2 changes, no faults | `QuiescentFresh`: when all is quiet and nothing was read from the lagging replica too late, caches equal the database; `StaleIsExplained`: otherwise such a read of the very key or what it needs says why; `PushedIsCurrent`: the last feed sent to a user is the current one, unless one updater overtook the other |
| `faults` | 1 updater, 2 followers of 1 author, 1 fault, crash or cut result, invalidations, 2 changes | `StaleIsExplained`, `EventuallyFresh` |
| `subscriber` | 2 sessions of 1 user, 3 consumers, 2 feeds, broken connection | the maps agree, no double close, order, sessions and goroutines end |
| `closed_channel` | 3 sessions | a send to a session that has unsubscribed panics |
| `orphan_consumer` | 3 sessions | an old goroutine's cleanup drops a new consumer without stopping it |
| `saga` | 1 user, 2 verifiers, 2 social instances, 3 faults (a failed call, a crash, a broken connection), 2 orderly stops | `OneEventEach`, Registration implemented, `EventuallyDecided` |
| `unbound_queue` | 2 users, 2 verifiers, 2 social instances, 1 orderly stop, no faults | `ReceivedByAnInstance` fails: the orderly stop of one verifier unbinds the queue the other consumes, and a "user created" event is dropped |
| `dialog` | 2 messages between 2 users, 1 list, 2 dialog instances of which one has a fast clock, Postgres or Tarantool, 1 fault in total, be it a crash of Tarantool or another | Dialog implemented, `ReadyIffUndamaged`, `ListIsComplete`, `RepliesFollow`, `Answered` |
| `stuck_lock` | Tarantool alone, 3 crashes | `MigratedOnceStarted` fails: after a crash inside the first `box.once` no start creates the lock's space, and none the schema |
| `api` | the demo script, 1 request of another user, a replica, 1 fault, integers from -8 to 7, floats in halves | `OnlyOwnChanges`, `PageIsWindow`, `FailureIsExplained`, `BadIsRefused`, `NothingLeft`, `ScriptEnds` |
| `shutdown` | 2 instances with 3 starts, 2 changes, 1 fault | `LossIsExplained`, `StopEnds`, `EventuallySettled` |

Bounds. Two callers of one key are enough for every race of RedisCache, whose
keys are independent but for FLUSHDB; two faults allow a failure and a crash
in one behaviour, and three tries are the code's. Two replicas are the least of which one may be ahead of the other, and one
write the least that parts them. In FeedPipeline one try suffices: giving up is an outcome of
any number of tries, and a later success is the same interleaving with the call
starting later. Two changes let two events of one friendship or of a friendship and a post overtake each
other between two updaters, and one updater send its feed after the other's newer one. Two followers are the
least for which one feed of a fan-out can fail and the other must not. In
FeedSubscriber two sessions and three consumers let a user leave and come back
while an old goroutine still works; more sessions only add readers of the same
channel type. In UserSaga two instances of each
service let one stop or crash while the other works on; three faults and two stops let both instances of one service, or one of
each, lose their connection or fall away, and a call fail besides. One user is enough there: users share the instances, the bindings and
the connections, and no guard or effect of one user's events asks for another's; that nothing depends on their number is proved
(`EventsAccounted`, `Implements`). In DialogService each message may be about one pair (`Talk`), one in each
direction, and the list about that dialog or another: the least for which a reply follows a
message, and a foreign dialog could show. In DemoClient the script is the whole script; the
other user's one request (`MaxOthers`) may come at any point of it, with any of the ids the script uses
(`Targets`); `Numbers` are the least (in halves) for which a window is empty, whole, too long, or
overflows, a fraction is cut off, and a number is no int. In SocialInstance three starts (`MaxStarts`) let an instance stop and come back while the other works
on, or the first come back after the last is gone. Instances start from nothing and may be started again
at any time. `FeedPipeline_fresh` uses the symmetry of handlers and updaters and
checks invariants only; no run with a liveness property uses symmetry.
`CHECK_DEADLOCK FALSE` is set where a dead process, or an instance whose sessions
have all ended, really stops.

Fairness. `CachedSource!FairSpec`: a goroutine in a call goes on, because each
round trip is answered with a result or an error. `FeedPipeline!FairSpec`:
handlers reach their publication, updaters their next message, readers the end
of their call, replicas catch up. `FeedSubscriber!FairSpec`: handlers and consumer
goroutines are scheduled, and a write to a client returns. `UserSaga!FairSpec`: the
broker pushes what it has to some consumer, running processes and their handlers
go on (a publication ends, with success or an error), and a stop that has begun goes on; nobody owes a registration or a start, so
`EventuallyDecided` asks for a verifier and a social instance that consume in the end. An instance whose connection has
gone does not count, however long it stays up: where all instances of a service are such, the users wait for ever.
`DialogService!FairSpec`: goroutines of requests run and calls return, Tarantool is restarted
and its script goes on; dialog instances are not obliged to start. `DemoClient!FairSpec`: the client and the
server's goroutine for it run; the other user and the replica owe nothing.
`SocialInstance!FairSpec`: main goes on once it has begun to start or has been signalled, handlers publish,
updaters work, the broker pushes to some consumer; nobody owes a start, a request, a signal or a failure.
Nothing is assumed of clients, expiry or the network; a failure is never owed and never excluded.

## 4. Proofs

`tlapm` checks them for every value of the constants under the named
assumptions `CacheAssumption`, `SourceAssumption`, `FeedAssumption`, `EventAssumption`,
`SubscriberAssumption`, `SagaAssumption`, `TarantoolAssumption`, `DialogAssumption`, `ApiAssumption`,
`DemoAssumption` and `InstanceAssumption`. They keep the special values apart from the others, give the
bounds their types and name the sets that one module gives another. Three of their conjuncts say more, each
because the code is so: there are finitely many messages (`DialogAssumption`; a list
sorts them), a page may have a post (`MaxFeedLength > 0` in `DemoAssumption`; without it the
demo does not find its post in the feed), and there are ids enough for the users who register
(`1..(MaxOthers + 3)`, the same place).

Every invariant and every action property that a passing run checks is the statement of a theorem.

*CachedSource.* The invariant is `LockInv /\ Versions /\ Loaded`, for any number of replicas.
Mutual exclusion alone is not inductive: `HolderLocks` (who loads a key whose
lock was never lost holds it) is, and gives it. `LoadedIsRecent` follows from two
more facts: no node is ever behind what it had at a fill (`Versions`), so a
value is recent, for the node it comes from, when it is read; and it stays so until it is stored, because
another SET of that key would be a second load (`Loaded`). From the invariant follow `TypeCorrect`, `LoadsExclude`,
`LoadsAreRecent` and, step by step, `Implements` (`Spec => RefinesFreshCache`).
The lemmas about single steps are in `RedisCache_proofs`, about RedisCache alone,
for use by every module that extends it.

*FeedSubscriber.* The three safety properties are inductive with two
strengthenings. `NewUntouched`: no map has a session that has not subscribed, so
the map made for it starts empty. `LoopsLinked`: a goroutine cleans up only after
its data has ended, and an unused consumer has no channel; hence a consumer that
is registered cannot be reused or be found finished. `MapsApart` follows: maps of
two users share no session, so closing one user's channels leaves the other's open.

`InOrder` (`FeedsInOrder`) says that a session receives feeds in the order of their publication
while one consumer of its user is at work. A second invariant, `OrderInv`, gives it: what a
goroutine has yet to hand out ascends, from the feed in its hands (`Carried`) through its
buffer (`Buffered`), and is newer than what each open session of its user has (`NewerAlone`; a session it
has already met in this round may have the feed in its hands). The delicate step is the one by which a goroutine becomes
the only one: the other may have handed out newer feeds before it ended. But it ends by closing
every session of the user (`OpenRegistered`: an open session is registered), and a new session has received nothing, so
the condition is vacuous when it begins to matter.

*FeedPipeline.* `IInv` has three parts. `Base`: types, the lock invariant of RedisCache, and where an
updater's call is, given its task. `Explained`, while no lock of a load was lost: a cached value is
right, or has a reason that is on record (a lost notification, a bad read), or is *due* (the news waits in an
inbox or a handler, or an updater has yet to read for it: `SubsDue`, `FeedDue`), or is *coming* (an
updater is about to store what it has read since: `SubsComing`, `FeedComing`); and what is
about to be stored is right, or has a reason or is due. Subscribers come before feeds in this argument: an
updater that serves the posts of an author reaches the feed of a follower only if the
subscribers it loaded name the follower, so the feed of a user has the subscribers of each friend
among its reasons. When all is quiet nothing is due or coming, and what is left is
`StaleIsExplained`; with an empty record, `QuiescentFresh`. The proof has one lemma for each
kind of step: those that leave the database alone keep every reason (`Goes`, `Keeps`), those
that change it put an event under way that makes the values it touches due.
`Sent` is the same for what is pushed, with any number of updaters (`LastSentIsCurrent`). A pushed feed is right, or the user is
`overtaken`, or an updater will come to the user (`PushDue`) or brings the right one (`Brings`); and a feed in the hands of an
updater is right, or the updater is `late`, or another will come to the user or is about to bring a newer one (`Follows`). So an old feed
can be the last one only through the exception the histories record, which does happen: TLC finds it at once when
`overtaken` is left out of the property.

*UserSaga.* `OneEventEach` says that a user has at most one event anywhere and has one
exactly while pending without a loss. It is inductive together with `Sorted`
(verdicts are only in the verdicts' queue and the social inboxes), `Judged` (an event
agrees with the verdict given so far) and `Rows` (no verdict without a row, and a decided status is
that of the verdict). Every action does one of three things to `events`: an event
appears (`RegisterUserKeeps`), moves (`EventMoved`) or goes away (`EventsGone`), so the
invariant is proved for these and the actions cite them. Because the event an
instance handles is the user's only one, the row is pending when the UPDATE comes:
its guard `user_status < $2` never refuses, and `Implements` (`Spec =>
RefinesRegistration`) follows step by step. So the guard the report relies on for
idempotence is a second line of defence: with delivery at most once, nothing reaches it twice.

*Tarantool* (in `DialogService_proofs`). `ReadyIffUndamaged` says that the script ends with a database that serves exactly if
no crash ever left something half done. Its invariant says what the log holds at each statement
(`Keys`, `Inside`, `Migration`, `FunctionsThere`) and that `damaged` is the same as a key without its body or a lock
without its holder (`Damage`): the history is thus a state of the disk, which nothing repairs. The same
invariant (`TntInv`) holds with the dialogs around it, whose steps leave the script's state alone (`DialogsFindItReady`).

*DialogService.* Every step of a dialog is one of a few kinds: requests end without an answer (`Fails`), the
row of a message appears (`Inserts`), a list gets its rows (`Reads`), a request is sent, forwarded or
answered, or an instance comes or goes. The invariant is proved for the kinds, and the actions cite
them. Its parts: `Lives` (how far a request is and what it has heard of), `Inserted` (what was acknowledged is
kept, and nothing is that nobody sent), `Stamped` (a message sent after another was
acknowledged has the later stamp, if one clock stamped both), `Shown` (rows are kept messages of the dialog, each
once, sorted, and unless `partial` all that were acknowledged before). `NothingMissing`
(`ListIsComplete`) and `RepliesInPlace` (`RepliesFollow`) follow; and `KeepsItsPromise` (`Spec => RefinesDialog`)
step by step: to ask, to insert, to answer and to fail are steps of Dialog, the others stutter.

*SocialApi and DemoClient.* `ApiTypeCorrect` includes that every answer has a status its operation declares.
`OwnChangesOnly` (`OnlyOwnChanges`) goes through the handlers: each of them changes rows of
the token's user only, since owner and user are in the WHERE of every statement. `PagesAreWindows`
(`PageIsWindow`) needs the arithmetic of a sum that wraps: it is below zero, hence the whole
page is empty, and otherwise the indices of the slice are the window asked for. These
are about `ApiSpec`, any clients with any requests; `DemoUsesApi` (`Spec => ApiSpec`) says that the demo beside another user is
one such behaviour, so they hold of it too.
The demo's own invariant is `DemoInv`. `InFlight`: the request in flight is that of the next step, and the other user
has only his own token. `Numbered`, `Learnt`: users are numbered, and the ids the client has learnt are two
of them that are not the other user's. `Effects`: what is in the database and not the other user's is
exactly what the first `n` steps leave behind (`Has`), before the answer of a step and, once it is a
success, after it. `Verdicts`: a failed step of the first part met a fault or a lagging replica. With
`Effects` each step of the first part finds what it needs, unless its read is excused, whatever the other user
sends in between; and the second part is refused for a reason that no state removes (`NoToken`,
`WrongPassword`, `NoSuchThing`). `FailuresExplained`, `BadRefused` and `NothingIsLeft` follow.

*SocialInstance.* `LossIsExplained` is inductive with three facts. `Explained`: either everything is in
order, or all that is under way counts as disturbed; so what an instance drops in disorder is
explained already. `StopIsSignalled`: main stops after a signal only, hence in disorder. `Resting`: an
instance that is off or starting has nothing to lose, so that a failed start, which undoes none of what it
did, costs no notification.

Only model-checked: liveness (`CallsReturn`, `EventuallyFresh`, `SessionsEnd`,
`LoopsEnd`, `EventuallyDecided`, `Answered`, `ScriptEnds`, `StopEnds`, `EventuallySettled`), which TLAPS
cannot prove here.

## 5. What was found

The four runs that end in a violation are disagreements between the code and its reports or
comments (`findings` in `PROJECT.json`): a send on a closed channel, a consumer left running by a
late cleanup, a queue shared by two verifiers that the orderly stop of one unbinds, so that a "user created" event
is dropped while the other consumes (a killed instance does no such harm), and a Tarantool that died inside
`box.once('create_migration_lock')`, after its key and before the space: no later start creates the lock's space,
takes the lock, or applies the schema. (A death under the lock, which leaves its tuple, has the same end;
`ReadyIffUndamaged` tells all such deaths from the harmless ones.)

The conditions in the other properties say what else is worth knowing: loads of one key overlap
after its lock expires (`OneLoadUnlessStolen`), a cache filled from a lagging replica stays
old until the next event (`QuiescentFresh`), a load from one replica may put an older value after one from
another (`LoadedIsRecent` is about each), feeds pushed by two updaters may be out of
order (`PushedIsCurrent` leaves out the users who were overtaken), an instance that has lost its connection stays up and does
nothing (`EventuallyDecided` does not count it), clocks of two dialog instances order their
messages in Tarantool (`RepliesFollow`), and a page whose end is no integer is empty instead of refused
(`PageIsWindow`).

`src/queues/report.md:22` says that a subscriber's queue is deleted when its request ends. The code deletes no queue: it unbinds
it. An unbound queue receives nothing, so that no property of the sessions depends on the difference, and none is stated.

## 6. Not modelled

Not modelled for good: the dialog generator, signatures of tokens and hashes of passwords, logging, metrics,
tracing, Zabbix, pools of connections, the three seconds `Shutdown` waits. In the saga an
unreadable event is left out: nothing publishes one. `batch_insert_messages` is defined by the migration and called by the
generator only. The durable queue of an instance that died fills in the broker and is read by nobody; that is
memory of the broker, not a state of the code. In the feed, `LIMIT`, the order of posts and the text
of messages are abstracted; an SQL statement is atomic. A text with a zero byte, which Postgres refuses in any column, is left out.
The data race of the subscriber is modelled by its outcomes for a process that survives it (`Skips`) and by the end of
the process (`Survives`); torn memory is not.

Open: what is true in place of the two promises of the subscriber that do not hold (no send on a
closed channel and no orphan while each user has one session at a time, or while the connection stands), and
the same for the saga's queue while no instance stops orderly.
