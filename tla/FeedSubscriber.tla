--------------------------- MODULE FeedSubscriber ---------------------------
(***************************************************************************)
(* The websocket side of the feed: PostFeedUserSubscriber                  *)
(* (post_feed_user_subscriber.go) with the sessions of                     *)
(* postFeedWebSocketHandler (manual_routes.go) and the rabbit consumers it *)
(* starts (rabbit/consumer.go), inside one instance of the service.        *)
(*                                                                         *)
(* SubscribePostFeed, UnsubscribePostFeed and the deferred cleanup of a    *)
(* consumer goroutine run under the mutex and are one action each.  The    *)
(* goroutine's loop is not: it reads activeSubscribers and sends on the    *)
(* sessions' unbuffered channels with the mutex free, so it is cut at      *)
(* every such step.                                                        *)
(*                                                                         *)
(* activeSubscribers is a map of maps, and the goroutine keeps the inner   *)
(* one while it iterates.  An inner map is named here by the session for   *)
(* which it was made; members is the heap of inner maps.                   *)
(***************************************************************************)
EXTENDS Naturals, Sequences, FiniteSets

CONSTANTS
    Users,
    Sessions,    \* websocket requests, each with its subscriptionId
    Consumers,   \* queue.QueueConsumer objects with their goroutines
    Owner,       \* [Sessions -> Users]: who authenticated the request
    MaxPublish,  \* bound: feeds published for each user
    None

ASSUME SubscriberAssumption ==
    /\ Owner \in [Sessions -> Users]
    /\ None \notin Users \cup Sessions \cup Consumers
    /\ MaxPublish \in Nat

VARIABLES
    running,    \* FALSE once a goroutine has panicked: the process is dead
    connected,  \* the AMQP connection, which is never opened again
    consumers,  \* s.consumers
    active,     \* s.activeSubscribers: [Users -> inner map or None]
    members,    \* [inner map -> its sessions]
    chan,       \* [Sessions -> state of the session's postChan]
    session,    \* [Sessions -> where the handler is]
    closing,    \* sessions whose done channel is closed
    owner,      \* [Consumers -> the user it was made for, or None]
    link,       \* [Consumers -> state of its AMQP channel]
    loop,       \* [Consumers -> where its goroutine is]
    buf,        \* [Consumers -> Seq(Nat)]: messages pushed by the broker
    bound,      \* users whose queue is bound to the exchange
    published,  \* [Users -> number of feeds published so far]
    got         \* [Sessions -> number of the last feed received]

sessionVars == <<chan, session, closing, got>>
consumerVars == <<owner, link, loop, buf>>
vars == <<running, connected, consumers, active, members, sessionVars,
          consumerVars, bound, published>>

Parked == [pc |-> "none", map |-> None, visited |-> {}, target |-> None, msg |-> 0]

LoopType ==
    [pc: {"none", "recv", "lookup", "iter", "send", "cleanup", "done"},
     map: Sessions \cup {None}, visited: SUBSET Sessions,
     target: Sessions \cup {None}, msg: Nat]

TypeOK ==
    /\ running \in BOOLEAN /\ connected \in BOOLEAN
    /\ consumers \in [Users -> Consumers \cup {None}]
    /\ active \in [Users -> Sessions \cup {None}]
    /\ members \in [Sessions -> SUBSET Sessions]
    /\ chan \in [Sessions -> {"none", "open", "closed"}]
    /\ session \in [Sessions -> {"new", "select", "writing", "leaving", "gone"}]
    /\ closing \subseteq Sessions
    /\ owner \in [Consumers -> Users \cup {None}]
    /\ link \in [Consumers -> {"none", "consuming", "stopped"}]
    /\ loop \in [Consumers -> LoopType]
    /\ buf \in [Consumers -> Seq(Nat)]
    /\ bound \subseteq Users
    /\ published \in [Users -> 0..MaxPublish]
    /\ got \in [Sessions -> Nat]

Init ==
    /\ running = TRUE /\ connected = TRUE
    /\ consumers = [u \in Users |-> None]
    /\ active = [u \in Users |-> None]
    /\ members = [s \in Sessions |-> {}]
    /\ chan = [s \in Sessions |-> "none"]
    /\ session = [s \in Sessions |-> "new"]
    /\ closing = {}
    /\ owner = [c \in Consumers |-> None]
    /\ link = [c \in Consumers |-> "none"]
    /\ loop = [c \in Consumers |-> Parked]
    /\ buf = [c \in Consumers |-> <<>>]
    /\ bound = {}
    /\ published = [u \in Users |-> 0]
    /\ got = [s \in Sessions |-> 0]

-----------------------------------------------------------------------------
(* Operations on the inner maps. *)

\* A goroutine reads the outer map, or steps through inner map m, while the
\* other is written: the Go runtime may notice the race and kill the process.
ReadsOuter == \E c \in Consumers : loop[c].pc = "lookup"
Iterates(m) == \E c \in Consumers : loop[c].pc = "iter" /\ loop[c].map = m

Survives(race) == running' \in IF race THEN BOOLEAN ELSE {TRUE}

\* s joins inner map m; an iteration of m in progress may or may not meet it.
Join(m, s) ==
    /\ members' = [members EXCEPT ![m] = @ \cup {s}]
    /\ chan' = [chan EXCEPT ![s] = "open"]
    /\ session' = [session EXCEPT ![s] = "select"]

Skips(m, s, l) ==
    \E skip \in SUBSET {c \in Consumers : l[c].pc \in {"iter", "send"} /\ l[c].map = m} :
        loop' = [c \in Consumers |->
                   IF c \in skip THEN [l[c] EXCEPT !.visited = @ \cup {s}] ELSE l[c]]

\* A slip: the channel of the session stays open.
LeaveOpen(s) == UNCHANGED chan

CloseChan(s) == chan' = [chan EXCEPT ![s] = "closed"]

\* A slip: the session stays in the map.
LeaveMember(m, s) == UNCHANGED members

DeleteMember(m, s) == members' = [members EXCEPT ![m] = @ \ {s}]

\* Slips: the user's entry of one of the two maps stays.
LeaveActive(u) == consumers' = [consumers EXCEPT ![u] = None] /\ UNCHANGED active
LeaveConsumer(u) == active' = [active EXCEPT ![u] = None] /\ UNCHANGED consumers

\* The user's entries in activeSubscribers and consumers are deleted.
DeleteUser(u) ==
    /\ active' = [active EXCEPT ![u] = None]
    /\ consumers' = [consumers EXCEPT ![u] = None]

\* When the AMQP channel of c is gone, the relay goroutine of ReceiveData may
\* still have one message in hand.
InHand(c) == IF buf[c] = <<>> THEN {<<>>} ELSE {<<>>, <<Head(buf[c])>>}

\* consumer.Stop: QueueUnbind, Cancel, channel.Close.  On a channel that is
\* closed already the first one fails and nothing else happens.  What the
\* broker had pushed is dropped, but for what may be in hand.
StopConsumer(c) ==
    IF link[c] = "consuming"
      THEN /\ bound' = bound \ {owner[c]}
           /\ link' = [link EXCEPT ![c] = "stopped"]
           /\ \E rest \in InHand(c) : buf' = [buf EXCEPT ![c] = rest]
      ELSE UNCHANGED <<bound, link, buf>>

-----------------------------------------------------------------------------
(* SubscribePostFeed. *)

\* The user has a consumer already.
Subscribe(s) ==
    LET u == Owner[s]
        m == IF active[u] = None THEN s ELSE active[u] IN
    /\ running /\ session[s] = "new"
    /\ consumers[u] # None
    /\ Join(m, s)
    /\ Skips(m, s, loop)
    /\ active' = [active EXCEPT ![u] = m]
    /\ Survives(Iterates(m) \/ (active[u] = None /\ ReadsOuter))
    /\ UNCHANGED <<connected, consumers, closing, got, owner, link, buf, bound, published>>

\* The first session of the user: prepareConsumer declares and binds the
\* queue, starts consuming and starts the goroutine.
SubscribeFirst(s) ==
    LET u == Owner[s]
        m == IF active[u] = None THEN s ELSE active[u] IN
    /\ running /\ session[s] = "new"
    /\ consumers[u] = None
    /\ connected
    /\ \E c \in Consumers :
         /\ loop[c].pc = "none"
         /\ owner' = [owner EXCEPT ![c] = u]
         /\ link' = [link EXCEPT ![c] = "consuming"]
         /\ consumers' = [consumers EXCEPT ![u] = c]
         /\ Skips(m, s, [loop EXCEPT ![c].pc = "recv"])
    /\ bound' = bound \cup {u}
    /\ Join(m, s)
    /\ active' = [active EXCEPT ![u] = m]
    /\ Survives(Iterates(m) \/ (active[u] = None /\ ReadsOuter))
    /\ UNCHANGED <<connected, closing, got, buf, published>>

\* prepareConsumer fails: the handler ends without a subscription.
SubscribeFails(s) ==
    /\ running /\ session[s] = "new"
    /\ consumers[Owner[s]] = None
    /\ ~connected
    /\ session' = [session EXCEPT ![s] = "gone"]
    /\ UNCHANGED <<running, connected, consumers, active, members, chan, closing, got,
                   consumerVars, bound, published>>

-----------------------------------------------------------------------------
(* The websocket handler after its subscription. *)

\* The client closes the connection or it breaks: close(done).
ClientLeaves(s) ==
    /\ running /\ session[s] \in {"select", "writing"}
    /\ s \notin closing
    /\ closing' = closing \cup {s}
    /\ UNCHANGED <<running, connected, consumers, active, members, chan, session, got,
                   consumerVars, bound, published>>

\* writeResponse returns.
Written(s) ==
    /\ running /\ session[s] = "writing"
    /\ session' = [session EXCEPT ![s] = "select"]
    /\ UNCHANGED <<running, connected, consumers, active, members, chan, closing, got,
                   consumerVars, bound, published>>

\* A slip: the select does not listen to done.
LeaveWhenClosed(s) ==
    /\ running /\ session[s] = "select"
    /\ chan[s] = "closed"
    /\ session' = [session EXCEPT ![s] = "leaving"]
    /\ UNCHANGED <<running, connected, consumers, active, members, chan, closing, got,
                   consumerVars, bound, published>>

\* select: done is closed, or the channel with the posts is.
Leave(s) ==
    /\ running /\ session[s] = "select"
    /\ s \in closing \/ chan[s] = "closed"
    /\ session' = [session EXCEPT ![s] = "leaving"]
    /\ UNCHANGED <<running, connected, consumers, active, members, chan, closing, got,
                   consumerVars, bound, published>>

\* The deferred UnsubscribePostFeed finds nothing to do.
UnsubscribeMissing(s) ==
    LET m == active[Owner[s]] IN
    /\ running /\ session[s] = "leaving"
    /\ m # None => s \notin members[m]
    /\ session' = [session EXCEPT ![s] = "gone"]
    /\ UNCHANGED <<running, connected, consumers, active, members, chan, closing, got,
                   consumerVars, bound, published>>

\* UnsubscribePostFeed: the channel is closed; the last session of the user
\* also removes and stops the consumer.
Unsubscribe(s) ==
    LET u == Owner[s]
        m == active[u] IN
    /\ running /\ session[s] = "leaving"
    /\ m # None /\ s \in members[m]
    /\ CloseChan(s)
    /\ DeleteMember(m, s)
    /\ session' = [session EXCEPT ![s] = "gone"]
    /\ IF members[m] # {s}
         THEN /\ UNCHANGED <<active, consumers, bound, link, buf>>
              /\ Survives(Iterates(m))
         ELSE /\ DeleteUser(u)
              /\ StopConsumer(consumers[u])
              /\ Survives(Iterates(m) \/ ReadsOuter)
    /\ UNCHANGED <<connected, closing, got, owner, loop, published>>

-----------------------------------------------------------------------------
(* The goroutine of a consumer. *)

Goto(c, pc) == loop' = [loop EXCEPT ![c].pc = pc]

\* A slip: the newest message first.
ReceiveLast(c) ==
    /\ running /\ loop[c].pc = "recv" /\ buf[c] # <<>>
    /\ loop' = [loop EXCEPT ![c].pc = "lookup", ![c].msg = buf[c][Len(buf[c])]]
    /\ buf' = [buf EXCEPT ![c] = SubSeq(@, 1, Len(@) - 1)]
    /\ UNCHANGED <<running, connected, consumers, active, members, sessionVars, owner,
                   link, bound, published>>

\* The next message.
Receive(c) ==
    /\ running /\ loop[c].pc = "recv" /\ buf[c] # <<>>
    /\ loop' = [loop EXCEPT ![c].pc = "lookup", ![c].msg = Head(buf[c])]
    /\ buf' = [buf EXCEPT ![c] = Tail(@)]
    /\ UNCHANGED <<running, connected, consumers, active, members, sessionVars, owner,
                   link, bound, published>>

\* A slip: the sessions are copied where the map itself is kept.
LookupCopies(c) ==
    LET m == active[owner[c]] IN
    /\ running /\ loop[c].pc = "lookup"
    /\ loop' = [loop EXCEPT ![c].pc = IF m = None THEN "recv" ELSE "iter",
                            ![c].map = IF m = None THEN None ELSE members[m],
                            ![c].visited = {}]
    /\ UNCHANGED <<running, connected, consumers, active, members, sessionVars, owner,
                   link, buf, bound, published>>

\* activeSubscribers[userId], read without the mutex.
Lookup(c) ==
    LET m == active[owner[c]] IN
    /\ running /\ loop[c].pc = "lookup"
    /\ loop' = [loop EXCEPT ![c].pc = IF m = None THEN "recv" ELSE "iter",
                            ![c].map = m, ![c].visited = {}]
    /\ UNCHANGED <<running, connected, consumers, active, members, sessionVars, owner,
                   link, buf, bound, published>>

\* The next session the iteration meets, if any.
NextTarget(c) ==
    LET rest == members[loop[c].map] \ loop[c].visited IN
    /\ running /\ loop[c].pc = "iter"
    /\ \/ rest = {} /\ Goto(c, "recv")
       \/ \E s \in rest :
            loop' = [loop EXCEPT ![c].pc = "send", ![c].target = s,
                                 ![c].visited = @ \cup {s}]
    /\ UNCHANGED <<running, connected, consumers, active, members, sessionVars, owner,
                   link, buf, bound, published>>

\* subscriber <- posts: the handler takes it in its select.
Send(c) ==
    LET s == loop[c].target IN
    /\ running /\ loop[c].pc = "send"
    /\ chan[s] = "open" /\ session[s] = "select"
    /\ got' = [got EXCEPT ![s] = loop[c].msg]
    /\ session' = [session EXCEPT ![s] = "writing"]
    /\ Goto(c, "iter")
    /\ UNCHANGED <<running, connected, consumers, active, members, chan, closing, owner,
                   link, buf, bound, published>>

\* subscriber <- posts on a closed channel: panic.
SendPanics(c) ==
    /\ running /\ loop[c].pc = "send"
    /\ chan[loop[c].target] = "closed"
    /\ running' = FALSE
    /\ UNCHANGED <<connected, consumers, active, members, sessionVars, consumerVars,
                   bound, published>>

\* ReceiveData's channel is closed and drained.
DataEnds(c) ==
    /\ running /\ loop[c].pc = "recv"
    /\ link[c] = "stopped" /\ buf[c] = <<>>
    /\ Goto(c, "cleanup")
    /\ UNCHANGED <<running, connected, consumers, active, members, sessionVars, owner,
                   link, buf, bound, published>>

\* The deferred function: the channels of the user's sessions are closed, and
\* if the user has a consumer (whichever) this goroutine's one is stopped and
\* the user's entry deleted.
Cleanup(c) ==
    LET u == owner[c]
        m == active[u] IN
    /\ running /\ loop[c].pc = "cleanup"
    /\ chan' = [s \in Sessions |->
                  IF m # None /\ s \in members[m] THEN "closed" ELSE chan[s]]
    /\ DeleteUser(u)
    /\ IF consumers[u] # None THEN StopConsumer(c) ELSE UNCHANGED <<bound, link, buf>>
    /\ Survives(m # None /\ ReadsOuter)
    /\ Goto(c, "done")
    /\ UNCHANGED <<connected, members, session, closing, got, owner, published>>

-----------------------------------------------------------------------------
(* The broker. *)

\* A feed is published to the user's routing key: the bound queue hands it
\* to one of its consumers; unbound, it is dropped.
Publish(u) ==
    LET takers == {c \in Consumers : owner[c] = u /\ link[c] = "consuming"} IN
    /\ published[u] < MaxPublish
    /\ published' = [published EXCEPT ![u] = @ + 1]
    /\ IF u \in bound /\ takers # {}
         THEN \E c \in takers : buf' = [buf EXCEPT ![c] = Append(@, published[u] + 1)]
         ELSE UNCHANGED buf
    /\ UNCHANGED <<running, connected, consumers, active, members, sessionVars, owner,
                   link, loop, bound>>

\* The connection breaks: every consumer's data ends; the bindings stay.
Disconnect ==
    /\ running /\ connected
    /\ connected' = FALSE
    /\ link' = [c \in Consumers |-> IF link[c] = "consuming" THEN "stopped" ELSE link[c]]
    /\ \E keep \in SUBSET {c \in Consumers : buf[c] # <<>> /\ link[c] = "consuming"} :
         buf' = [c \in Consumers |->
                   IF link[c] # "consuming" THEN buf[c]
                   ELSE IF c \in keep THEN <<Head(buf[c])>> ELSE <<>>]
    /\ UNCHANGED <<running, consumers, active, members, sessionVars, owner, loop, bound,
                   published>>

-----------------------------------------------------------------------------

SessionStep(s) == Written(s) \/ Leave(s) \/ UnsubscribeMissing(s) \/ Unsubscribe(s)

LoopStep(c) ==
    \/ Receive(c) \/ Lookup(c) \/ NextTarget(c) \/ Send(c) \/ SendPanics(c)
    \/ DataEnds(c) \/ Cleanup(c)

Next ==
    \/ \E s \in Sessions :
         \/ Subscribe(s) \/ SubscribeFirst(s) \/ SubscribeFails(s)
         \/ ClientLeaves(s)
         \/ SessionStep(s)
    \/ \E c \in Consumers : LoopStep(c)
    \/ \E u \in Users : Publish(u)
    \/ Disconnect

Spec == Init /\ [][Next]_vars

\* Handlers and consumer goroutines are scheduled; a write to a client
\* returns, with an error when the client is gone.
FairSpec ==
    /\ Spec
    /\ \A s \in Sessions : WF_vars(SessionStep(s))
    /\ \A c \in Consumers : WF_vars(LoopStep(c))

-----------------------------------------------------------------------------

\* The channel of every registered session is open, so that neither
\* UnsubscribePostFeed nor the cleanup ever closes a channel twice, and the
\* session has not unsubscribed yet.
RegisteredOpen ==
    \A u \in Users : active[u] # None =>
        /\ members[active[u]] # {}
        /\ \A s \in members[active[u]] :
             chan[s] = "open" /\ Owner[s] = u /\ session[s] \notin {"new", "gone"}

\* A user has a consumer exactly while the user has sessions, even when
\* goroutines of earlier consumers clean up late.
ConsumerIffSessions ==
    \A u \in Users : consumers[u] = None <=> active[u] = None

\* The consumer the sessions of a user rely on is theirs, and is bound and
\* fed; or its data has ended and its goroutine is on the way to close them.
FedOrClosing ==
    \A u \in Users : consumers[u] # None =>
        LET c == consumers[u] IN
        /\ owner[c] = u
        /\ \/ link[c] = "consuming" /\ u \in bound
           \/ link[c] = "stopped" /\ loop[c].pc \notin {"none", "done"}

\* A session receives the feeds of its user in the order in which they were
\* published, as long as a single consumer of the user is at work.
Alone(c) ==
    \A d \in Consumers \ {c} : owner[d] = owner[c] => loop[d].pc = "done"
InOrder ==
    [][\A s \in Sessions, c \in Consumers :
         got'[s] # got[s] /\ loop[c].target = s /\ loop[c].pc = "send" /\ Alone(c)
            => got[s] < got'[s]]_vars

\* "Several simultaneous requests of one user are supported"
\* (queues/report.md): a goroutine never sends to a session whose channel
\* was closed under it.
NoSendOnClosed ==
    \A c \in Consumers : running /\ loop[c].pc = "send" => chan[loop[c].target] # "closed"

\* A consumer that still receives is the one registered for its user, so that
\* the last session to leave stops it.
NoOrphan ==
    \A c \in Consumers : running /\ link[c] = "consuming" => consumers[owner[c]] = c

\* A session whose client has left ends, unless the process dies first.
SessionsEnd ==
    \A s \in Sessions : s \in closing ~> (session[s] = "gone" \/ ~running)

\* The goroutine of a consumer whose data has ended finishes.
LoopsEnd ==
    \A c \in Consumers : link[c] = "stopped" ~> (loop[c].pc = "done" \/ ~running)
=============================================================================
