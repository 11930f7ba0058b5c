----------------------- MODULE FeedSubscriber_proofs -----------------------
(***************************************************************************)
(* What holds of FeedSubscriber for any number of users, websocket         *)
(* sessions, consumers and published feeds.                                *)
(***************************************************************************)
EXTENDS FeedSubscriber, SequenceTheorems, TLAPS

\* A session that has not subscribed yet is nowhere: the inner map that may be
\* made for it is empty, and no inner map has it.
NewUntouched ==
    \A s \in Sessions : session[s] = "new" =>
        /\ members[s] = {}
        /\ \A m \in Sessions : s \notin members[m]

\* A consumer object is unused, or belongs to a user and has a channel; its
\* goroutine cleans up only after its data has ended.
LoopsLinked ==
    \A c \in Consumers :
        /\ loop[c].pc = "none" => link[c] = "none"
        /\ loop[c].pc # "none" => link[c] # "none" /\ owner[c] \in Users
        /\ loop[c].pc \in {"cleanup", "done"} => link[c] = "stopped"
        /\ loop[c].pc \in {"iter", "send"} => loop[c].map \in Sessions
        /\ loop[c].pc = "send" => loop[c].target \in Sessions

Safe == RegisteredOpen /\ ConsumerIffSessions /\ FedOrClosing

IInv == TypeOK /\ NewUntouched /\ LoopsLinked /\ Safe

\* The initial state: nobody has subscribed.
LEMMA IInvInit == Init => IInv
<1> SUFFICES ASSUME Init
             PROVE  IInv
  OBVIOUS
<1>1. Parked \in LoopType
  BY SubscriberAssumption DEF Parked, LoopType
<1>2. TypeOK
  BY <1>1, SubscriberAssumption, EmptySeq DEF Init, TypeOK
<1>3. NewUntouched /\ LoopsLinked /\ Safe
  BY SubscriberAssumption DEF Init, NewUntouched, LoopsLinked, Parked, Safe, RegisteredOpen,
     ConsumerIffSessions, FedOrClosing
<1>4. QED
  BY <1>2, <1>3 DEF IInv

-----------------------------------------------------------------------------
(* Steps that touch only the sessions. *)

\* A session that has subscribed changes its place in the handler, and keeps it
\* or, if no map has it, is gone.
LEMMA HandlerStep ==
    ASSUME IInv, NEW s \in Sessions, NEW pc \in {"select", "writing", "leaving", "gone"},
           session' = [session EXCEPT ![s] = pc],
           pc = "gone" => (active[Owner[s]] # None => s \notin members[active[Owner[s]]]),
           closing' \subseteq Sessions, got' \in [Sessions -> Nat],
           running' \in BOOLEAN,
           UNCHANGED <<connected, consumers, active, members, chan, owner, link, buf, bound,
                       published>>,
           loop' \in [Consumers -> LoopType],
           LoopsLinked',
           \A c \in Consumers : loop'[c].pc \in {"none", "done"} => loop'[c].pc = loop[c].pc
    PROVE  IInv'
<1>1. TypeOK'
  BY DEF IInv, TypeOK
<1>2. NewUntouched'
  BY DEF IInv, TypeOK, NewUntouched
<1>3. RegisteredOpen'
  BY SubscriberAssumption DEF IInv, TypeOK, Safe, RegisteredOpen
<1>4. ConsumerIffSessions'
  BY DEF IInv, Safe, ConsumerIffSessions
<1>5. FedOrClosing'
  <2> SUFFICES ASSUME NEW u \in Users, consumers[u] # None
               PROVE  /\ owner[consumers[u]] = u
                      /\ \/ link[consumers[u]] = "consuming" /\ u \in bound
                         \/ /\ link[consumers[u]] = "stopped"
                            /\ loop'[consumers[u]].pc \notin {"none", "done"}
    BY DEF FedOrClosing
  <2>1. consumers[u] \in Consumers
    BY DEF IInv, TypeOK
  <2>2. QED
    BY <2>1 DEF IInv, Safe, FedOrClosing
<1>6. QED
  BY <1>1, <1>2, <1>3, <1>4, <1>5 DEF IInv, Safe

\* The goroutine's record of c becomes r and the others stay.
OnlyLoop(c, r) ==
    /\ loop' \in [Consumers -> LoopType]
    /\ loop'[c] = r
    /\ \A d \in Consumers \ {c} : loop'[d] = loop[d]

\* A goroutine that neither starts nor finishes keeps LoopsLinked.
LEMMA LoopMoves ==
    ASSUME IInv, NEW c \in Consumers, NEW r \in LoopType, OnlyLoop(c, r),
           loop[c].pc \notin {"none", "done"}, r.pc \notin {"none", "done"},
           r.pc = "cleanup" => link[c] = "stopped",
           r.pc \in {"iter", "send"} => r.map \in Sessions,
           r.pc = "send" => r.target \in Sessions,
           UNCHANGED <<owner, link>>
    PROVE  /\ LoopsLinked'
           /\ loop' \in [Consumers -> LoopType]
           /\ \A d \in Consumers : loop'[d].pc \in {"none", "done"} => loop'[d].pc = loop[d].pc
BY DEF IInv, LoopsLinked, OnlyLoop

\* Moving a goroutine changes its place only.
LEMMA LoopGoto ==
    ASSUME TypeOK, NEW c \in Consumers,
           NEW pc \in {"recv", "iter", "send", "cleanup", "done"}, Goto(c, pc)
    PROVE  OnlyLoop(c, [pc |-> pc, map |-> loop[c].map, visited |-> loop[c].visited,
                        target |-> loop[c].target, msg |-> loop[c].msg])
BY DEF TypeOK, LoopType, Goto, OnlyLoop

\* Steps of a goroutine that touch no session and stop no consumer.
LEMMA GoroutineStep ==
    ASSUME IInv, NEW c \in Consumers, NEW r \in LoopType, OnlyLoop(c, r),
           loop[c].pc \notin {"none", "done"}, r.pc \notin {"none", "done"},
           r.pc = "cleanup" => link[c] = "stopped",
           r.pc \in {"iter", "send"} => r.map \in Sessions,
           r.pc = "send" => r.target \in Sessions,
           buf' \in [Consumers -> Seq(Nat)],
           UNCHANGED <<running, connected, consumers, active, members, sessionVars, owner,
                       link, bound, published>>
    PROVE  IInv'
<1>1. /\ LoopsLinked'
      /\ loop' \in [Consumers -> LoopType]
      /\ \A d \in Consumers : loop'[d].pc \in {"none", "done"} => loop'[d].pc = loop[d].pc
  BY LoopMoves
<1>2. TypeOK'
  BY <1>1 DEF IInv, TypeOK, sessionVars
<1>3. NewUntouched' /\ RegisteredOpen'
  BY DEF IInv, Safe, NewUntouched, RegisteredOpen, sessionVars
<1>4. ConsumerIffSessions'
  BY DEF IInv, Safe, ConsumerIffSessions
<1>5. FedOrClosing'
  <2> SUFFICES ASSUME NEW u \in Users, consumers[u] # None
               PROVE  /\ owner[consumers[u]] = u
                      /\ \/ link[consumers[u]] = "consuming" /\ u \in bound
                         \/ /\ link[consumers[u]] = "stopped"
                            /\ loop'[consumers[u]].pc \notin {"none", "done"}
    BY DEF FedOrClosing
  <2>1. consumers[u] \in Consumers
    BY DEF IInv, TypeOK
  <2>2. QED
    BY <1>1, <2>1 DEF IInv, Safe, FedOrClosing
<1>6. QED
  BY <1>1, <1>2, <1>3, <1>4, <1>5 DEF IInv, Safe

-----------------------------------------------------------------------------
(* The steps of the handlers. *)

\* The handler outside of Subscribe and Unsubscribe.
LEMMA HandlerSteps ==
    ASSUME IInv, NEW s \in Sessions,
           SubscribeFails(s) \/ Written(s) \/ Leave(s) \/ UnsubscribeMissing(s)
    PROVE  IInv'
<1>1. /\ loop \in [Consumers -> LoopType] /\ closing \subseteq Sessions
      /\ got \in [Sessions -> Nat] /\ running \in BOOLEAN /\ LoopsLinked
      /\ session \in [Sessions -> {"new", "select", "writing", "leaving", "gone"}]
  BY DEF IInv, TypeOK
<1>2. session[s] = "new" => (active[Owner[s]] # None => s \notin members[active[Owner[s]]])
  <2>1. Owner[s] \in Users
    BY SubscriberAssumption
  <2>2. active[Owner[s]] \in Sessions \cup {None}
    BY <2>1 DEF IInv, TypeOK
  <2>3. QED
    BY <2>2 DEF IInv, NewUntouched
<1> DEFINE Rest == UNCHANGED <<running, connected, consumers, active, members, chan, closing,
                               got, consumerVars, bound, published>>
<1>3. ASSUME Rest
      PROVE  /\ UNCHANGED <<connected, consumers, active, members, chan, owner, link, buf,
                            bound, published, loop>>
             /\ LoopsLinked' /\ loop' \in [Consumers -> LoopType]
             /\ running' \in BOOLEAN /\ closing' \subseteq Sessions
             /\ got' \in [Sessions -> Nat]
  BY <1>1, <1>3 DEF consumerVars, LoopsLinked
<1> HIDE DEF Rest
<1>4. Rest
  BY DEF Rest, SubscribeFails, Written, Leave, UnsubscribeMissing
<1>5. PICK pc \in {"select", "writing", "leaving", "gone"} :
        /\ session' = [session EXCEPT ![s] = pc]
        /\ pc = "gone" => (active[Owner[s]] # None => s \notin members[active[Owner[s]]])
  BY <1>2 DEF SubscribeFails, Written, Leave, UnsubscribeMissing
<1>6. QED
  BY <1>3, <1>4, <1>5, HandlerStep

\* done is closed: no map and no channel of posts changes.
LEMMA ClientLeavesStep ==
    ASSUME IInv, NEW s \in Sessions, ClientLeaves(s)
    PROVE  IInv'
<1>1. TypeOK'
  BY DEF IInv, TypeOK, ClientLeaves, consumerVars
<1>2. NewUntouched' /\ LoopsLinked' /\ Safe'
  BY DEF IInv, ClientLeaves, consumerVars, NewUntouched, LoopsLinked, Safe, RegisteredOpen,
     ConsumerIffSessions, FedOrClosing
<1>3. QED
  BY <1>1, <1>2 DEF IInv

-----------------------------------------------------------------------------
(* The steps of the goroutines. *)

\* A message leaves the buffer of a goroutine.
LEMMA ReceiveStep ==
    ASSUME IInv, NEW c \in Consumers, Receive(c)
    PROVE  IInv'
<1> DEFINE r == [pc |-> "lookup", map |-> loop[c].map, visited |-> loop[c].visited,
                 target |-> loop[c].target, msg |-> Head(buf[c])]
<1>1. /\ loop \in [Consumers -> LoopType] /\ loop[c] \in LoopType
      /\ buf \in [Consumers -> Seq(Nat)] /\ buf[c] \in Seq(Nat) /\ buf[c] # <<>>
  BY DEF IInv, TypeOK, Receive
<1>2. Head(buf[c]) \in Nat /\ Tail(buf[c]) \in Seq(Nat)
  BY <1>1, HeadTailProperties
<1>3. r \in LoopType
  BY <1>1, <1>2 DEF LoopType
<1>4. OnlyLoop(c, r)
  <2> DEFINE h == Head(buf[c])
  <2>1. h \in Nat /\ loop' = [loop EXCEPT ![c].pc = "lookup", ![c].msg = h]
    BY <1>2 DEF Receive
  <2> HIDE DEF h
  <2>2. OnlyLoop(c, [pc |-> "lookup", map |-> loop[c].map, visited |-> loop[c].visited,
                     target |-> loop[c].target, msg |-> h])
    BY <1>1, <2>1 DEF OnlyLoop, LoopType
  <2>3. QED
    BY <2>2 DEF h
<1>5. /\ buf' \in [Consumers -> Seq(Nat)]
      /\ UNCHANGED <<running, connected, consumers, active, members, sessionVars, owner,
                     link, bound, published>>
      /\ loop[c].pc = "recv"
      /\ r.pc = "lookup"
  BY <1>1, <1>2 DEF Receive
<1> HIDE DEF r
<1>6. QED
  BY <1>3, <1>4, <1>5, GoroutineStep

\* The goroutine finds its user's map, or none.
LEMMA LookupStep ==
    ASSUME IInv, NEW c \in Consumers, Lookup(c)
    PROVE  IInv'
<1> DEFINE m == active[owner[c]]
           pc == IF m = None THEN "recv" ELSE "iter"
           r == [pc |-> pc, map |-> m, visited |-> {},
                 target |-> loop[c].target, msg |-> loop[c].msg]
<1>1. /\ loop \in [Consumers -> LoopType] /\ loop[c] \in LoopType
      /\ buf \in [Consumers -> Seq(Nat)]
      /\ owner[c] \in Users /\ loop[c].pc = "lookup"
  BY DEF IInv, TypeOK, LoopsLinked, Lookup
<1>2. m \in Sessions \cup {None}
  BY <1>1 DEF IInv, TypeOK
<1>3. loop' = [loop EXCEPT ![c].pc = pc, ![c].map = m, ![c].visited = {}]
  BY DEF Lookup
<1>4. /\ pc \in {"recv", "iter"}
      /\ pc = "iter" => m \in Sessions
  BY <1>2
<1>5. buf' \in [Consumers -> Seq(Nat)]
      /\ UNCHANGED <<running, connected, consumers, active, members, sessionVars, owner,
                     link, bound, published>>
  BY <1>1 DEF Lookup
<1> HIDE DEF m, pc
<1>6. OnlyLoop(c, r)
  BY <1>1, <1>2, <1>3, <1>4 DEF OnlyLoop, LoopType
<1>7. r \in LoopType /\ r.pc = pc /\ r.map = m
  BY <1>6 DEF OnlyLoop
<1> HIDE DEF r
<1>8. QED
  BY <1>1, <1>4, <1>5, <1>6, <1>7, GoroutineStep

\* The iteration goes on, or ends.
LEMMA NextTargetStep ==
    ASSUME IInv, NEW c \in Consumers, NextTarget(c)
    PROVE  IInv'
<1>1. /\ loop \in [Consumers -> LoopType] /\ loop[c] \in LoopType
      /\ buf \in [Consumers -> Seq(Nat)]
      /\ loop[c].pc = "iter" /\ loop[c].map \in Sessions
      /\ members[loop[c].map] \subseteq Sessions
      /\ buf' \in [Consumers -> Seq(Nat)]
      /\ UNCHANGED <<running, connected, consumers, active, members, sessionVars, owner,
                     link, bound, published>>
  BY DEF IInv, TypeOK, LoopsLinked, NextTarget
<1>2. CASE Goto(c, "recv")
  <2> DEFINE r == [pc |-> "recv", map |-> loop[c].map, visited |-> loop[c].visited,
                   target |-> loop[c].target, msg |-> loop[c].msg]
  <2>1. OnlyLoop(c, r)
    BY <1>2, LoopGoto DEF IInv
  <2>2. r \in LoopType /\ r.pc = "recv"
    BY <2>1 DEF OnlyLoop
  <2> HIDE DEF r
  <2>3. QED
    BY <1>1, <2>1, <2>2, GoroutineStep
<1>3. ASSUME NEW s \in Sessions,
             loop' = [loop EXCEPT ![c].pc = "send", ![c].target = s,
                                  ![c].visited = @ \cup {s}]
      PROVE  IInv'
  <2> DEFINE w == loop[c].visited \cup {s}
             r == [pc |-> "send", map |-> loop[c].map, visited |-> w,
                   target |-> s, msg |-> loop[c].msg]
  <2>1. /\ w \in SUBSET Sessions
        /\ loop' = [loop EXCEPT ![c].pc = "send", ![c].target = s, ![c].visited = w]
    BY <1>1, <1>3 DEF LoopType
  <2> HIDE DEF w
  <2>2. OnlyLoop(c, r)
    BY <1>1, <2>1 DEF OnlyLoop, LoopType
  <2>3. r \in LoopType /\ r.pc = "send" /\ r.map = loop[c].map /\ r.target = s
    BY <2>2 DEF OnlyLoop
  <2> HIDE DEF r
  <2>4. QED
    BY <1>1, <2>2, <2>3, GoroutineStep
<1>4. QED
  BY <1>1, <1>2, <1>3 DEF NextTarget

\* The data of a stopped consumer ends; its goroutine turns to the cleanup.
LEMMA DataEndsStep ==
    ASSUME IInv, NEW c \in Consumers, DataEnds(c)
    PROVE  IInv'
<1> DEFINE r == [pc |-> "cleanup", map |-> loop[c].map, visited |-> loop[c].visited,
                 target |-> loop[c].target, msg |-> loop[c].msg]
<1>1. OnlyLoop(c, r)
  BY LoopGoto DEF IInv, DataEnds
<1>2. r \in LoopType /\ r.pc = "cleanup"
  BY <1>1 DEF OnlyLoop
<1>3. /\ loop[c].pc = "recv" /\ link[c] = "stopped"
      /\ buf' \in [Consumers -> Seq(Nat)]
      /\ UNCHANGED <<running, connected, consumers, active, members, sessionVars, owner,
                     link, bound, published>>
  BY DEF IInv, TypeOK, DataEnds
<1> HIDE DEF r
<1>4. QED
  BY <1>1, <1>2, <1>3, GoroutineStep

\* A session takes a feed.
LEMMA SendStep ==
    ASSUME IInv, NEW c \in Consumers, Send(c)
    PROVE  IInv'
<1> DEFINE s == loop[c].target
           r == [pc |-> "iter", map |-> loop[c].map, visited |-> loop[c].visited,
                 target |-> loop[c].target, msg |-> loop[c].msg]
<1>1. /\ loop \in [Consumers -> LoopType] /\ loop[c] \in LoopType
      /\ got \in [Sessions -> Nat] /\ closing \subseteq Sessions
      /\ running \in BOOLEAN
  BY DEF IInv, TypeOK
<1>2. s \in Sessions /\ loop[c].map \in Sessions /\ loop[c].pc = "send"
  BY DEF IInv, LoopsLinked, Send
<1>3. OnlyLoop(c, r)
  BY LoopGoto DEF IInv, Send
<1>4. r \in LoopType /\ r.pc = "iter" /\ r.map = loop[c].map
  BY <1>3 DEF OnlyLoop
<1>5. /\ session' = [session EXCEPT ![s] = "writing"]
      /\ closing' \subseteq Sessions
      /\ running' \in BOOLEAN
      /\ UNCHANGED <<connected, consumers, active, members, chan, owner, link, buf, bound,
                     published>>
  BY <1>1 DEF Send
<1>6. got' \in [Sessions -> Nat]
  <2>1. loop[c].msg \in Nat
    BY <1>1 DEF LoopType
  <2>2. QED
    BY <1>1, <2>1 DEF Send
<1> HIDE DEF r, s
<1>7. /\ LoopsLinked'
      /\ loop' \in [Consumers -> LoopType]
      /\ \A d \in Consumers : loop'[d].pc \in {"none", "done"} => loop'[d].pc = loop[d].pc
  BY <1>2, <1>3, <1>4, <1>5, LoopMoves
<1>8. QED
  BY <1>2, <1>5, <1>6, <1>7, HandlerStep

\* A send on a closed channel changes nothing but that the process is dead.
LEMMA PanicStep ==
    ASSUME IInv, NEW c \in Consumers, SendPanics(c)
    PROVE  IInv'
<1>1. TypeOK'
  BY DEF IInv, TypeOK, SendPanics, sessionVars, consumerVars
<1>2. NewUntouched' /\ LoopsLinked' /\ Safe'
  BY DEF IInv, SendPanics, sessionVars, consumerVars, NewUntouched, LoopsLinked, Safe,
     RegisteredOpen, ConsumerIffSessions, FedOrClosing
<1>3. QED
  BY <1>1, <1>2 DEF IInv

\* The maps of two users have no session in common.
LEMMA MapsApart ==
    ASSUME IInv, NEW u \in Users, NEW v \in Users, u # v, active[u] # None, active[v] # None
    PROVE  active[u] # active[v] /\ members[active[u]] \cap members[active[v]] = {}
<1>1. PICK s \in members[active[u]] : Owner[s] = u
  BY DEF IInv, Safe, RegisteredOpen
<1>2. QED
  BY <1>1 DEF IInv, Safe, RegisteredOpen

\* The deferred cleanup of a consumer whose data has ended.
LEMMA CleanupStep ==
    ASSUME IInv, NEW c \in Consumers, Cleanup(c)
    PROVE  IInv'
<1> DEFINE u == owner[c]
           m == active[u]
           r == [pc |-> "done", map |-> loop[c].map, visited |-> loop[c].visited,
                 target |-> loop[c].target, msg |-> loop[c].msg]
<1>1. /\ u \in Users /\ link[c] = "stopped" /\ loop[c].pc = "cleanup"
      /\ m \in Sessions \cup {None}
      /\ active \in [Users -> Sessions \cup {None}]
      /\ consumers \in [Users -> Consumers \cup {None}]
      /\ chan \in [Sessions -> {"none", "open", "closed"}]
  BY DEF IInv, TypeOK, LoopsLinked, Cleanup
<1>2. /\ active' = [active EXCEPT ![u] = None]
      /\ consumers' = [consumers EXCEPT ![u] = None]
      /\ chan' = [s \in Sessions |->
                    IF m # None /\ s \in members[m] THEN "closed" ELSE chan[s]]
      /\ running' \in BOOLEAN
      /\ UNCHANGED <<bound, link, buf, connected, members, session, closing, got, owner,
                     published>>
  BY <1>1 DEF Cleanup, DeleteUser, StopConsumer, Survives
<1>3. OnlyLoop(c, r)
  BY LoopGoto DEF IInv, Cleanup
<1>4. r.pc = "done"
  OBVIOUS
<1> HIDE DEF r, u, m
<1>5. TypeOK'
  BY <1>1, <1>2, <1>3 DEF IInv, TypeOK, OnlyLoop
<1>6. NewUntouched'
  BY <1>2 DEF IInv, NewUntouched
<1>7. LoopsLinked'
  BY <1>1, <1>2, <1>3, <1>4 DEF IInv, LoopsLinked, OnlyLoop, u
<1>8. RegisteredOpen'
  <2> SUFFICES ASSUME NEW v \in Users, active'[v] # None
               PROVE  /\ members[active[v]] # {}
                      /\ active'[v] = active[v]
                      /\ \A s \in members[active[v]] :
                           chan'[s] = "open" /\ Owner[s] = v /\ session[s] \notin {"new", "gone"}
    BY <1>2 DEF RegisteredOpen
  <2>1. v # u /\ active'[v] = active[v]
    BY <1>1, <1>2
  <2>2. active[v] \in Sessions /\ members[active[v]] \subseteq Sessions
    BY <2>1 DEF IInv, TypeOK
  <2>3. m # None => members[m] \cap members[active[v]] = {}
    BY <1>1, <2>1, MapsApart DEF m
  <2>4. QED
    BY <1>2, <2>1, <2>2, <2>3 DEF IInv, Safe, RegisteredOpen
<1>9. ConsumerIffSessions'
  BY <1>1, <1>2 DEF IInv, Safe, ConsumerIffSessions
<1>10. FedOrClosing'
  <2> SUFFICES ASSUME NEW v \in Users, consumers'[v] # None
               PROVE  LET d == consumers'[v] IN
                      /\ owner[d] = v
                      /\ \/ link[d] = "consuming" /\ v \in bound
                         \/ link[d] = "stopped" /\ loop'[d].pc \notin {"none", "done"}
    BY <1>2 DEF FedOrClosing
  <2>1. v # u /\ consumers'[v] = consumers[v] /\ consumers[v] \in Consumers
    BY <1>1, <1>2
  <2>2. owner[consumers[v]] = v
    BY <2>1 DEF IInv, Safe, FedOrClosing
  <2>3. loop'[consumers[v]] = loop[consumers[v]]
    BY <1>3, <2>1, <2>2 DEF OnlyLoop, u
  <2>4. QED
    BY <2>1, <2>2, <2>3 DEF IInv, Safe, FedOrClosing
<1>11. QED
  BY <1>5, <1>6, <1>7, <1>8, <1>9, <1>10 DEF IInv, Safe

-----------------------------------------------------------------------------
(* Subscribing. *)

\* What an iteration in progress makes of a new member of its map changes
\* neither where a goroutine is nor the map, the session and the message it
\* holds: it may only count the new member as met.
LEMMA SkipsLoop ==
    ASSUME NEW l \in [Consumers -> LoopType], NEW m, NEW s \in Sessions, Skips(m, s, l)
    PROVE  /\ loop' \in [Consumers -> LoopType]
           /\ \A c \in Consumers : /\ loop'[c].pc = l[c].pc
                                   /\ loop'[c].map = l[c].map
                                   /\ loop'[c].target = l[c].target
                                   /\ loop'[c].msg = l[c].msg
                                   /\ loop'[c].visited \in {l[c].visited, l[c].visited \cup {s}}
<1> DEFINE More(c) == [l[c] EXCEPT !.visited = @ \cup {s}]
<1>1. \A c \in Consumers : /\ More(c) \in LoopType
                           /\ More(c).pc = l[c].pc
                           /\ More(c).map = l[c].map
                           /\ More(c).target = l[c].target
                           /\ More(c).msg = l[c].msg
                           /\ More(c).visited = l[c].visited \cup {s}
  BY DEF LoopType
<1> HIDE DEF More
<1>2. PICK skip \in SUBSET Consumers :
        loop' = [c \in Consumers |-> IF c \in skip THEN More(c) ELSE l[c]]
  BY DEF Skips, More
<1>3. QED
  BY <1>1, <1>2

\* A new session joins the map of its user, which is its own if there is none.
LEMMA JoinKeeps ==
    ASSUME IInv, NEW s \in Sessions, session[s] = "new",
           NEW m \in Sessions, m = IF active[Owner[s]] = None THEN s ELSE active[Owner[s]],
           Join(m, s), active' = [active EXCEPT ![Owner[s]] = m]
    PROVE  /\ members' \in [Sessions -> SUBSET Sessions]
           /\ chan' \in [Sessions -> {"none", "open", "closed"}]
           /\ session' \in [Sessions -> {"new", "select", "writing", "leaving", "gone"}]
           /\ active' \in [Users -> Sessions \cup {None}]
           /\ NewUntouched'
           /\ RegisteredOpen'
<1> DEFINE u == Owner[s]
<1>1. /\ u \in Users
      /\ active \in [Users -> Sessions \cup {None}]
      /\ members \in [Sessions -> SUBSET Sessions]
      /\ chan \in [Sessions -> {"none", "open", "closed"}]
      /\ session \in [Sessions -> {"new", "select", "writing", "leaving", "gone"}]
  BY SubscriberAssumption DEF IInv, TypeOK
<1>2. /\ members' = [members EXCEPT ![m] = members[m] \cup {s}]
      /\ chan' = [chan EXCEPT ![s] = "open"]
      /\ session' = [session EXCEPT ![s] = "select"]
      /\ active' = [active EXCEPT ![u] = m]
  BY DEF Join
<1>3. /\ \A t \in Sessions : session[t] = "new" => members[t] = {}
      /\ \A t, n \in Sessions : session[t] = "new" => t \notin members[n]
  BY DEF IInv, NewUntouched
<1>4. \A v \in Users : active[v] # None =>
        /\ members[active[v]] # {}
        /\ \A t \in members[active[v]] :
             chan[t] = "open" /\ Owner[t] = v /\ session[t] \notin {"new", "gone"}
  BY DEF IInv, Safe, RegisteredOpen
<1>5. /\ members' \in [Sessions -> SUBSET Sessions]
      /\ chan' \in [Sessions -> {"none", "open", "closed"}]
      /\ session' \in [Sessions -> {"new", "select", "writing", "leaving", "gone"}]
      /\ active' \in [Users -> Sessions \cup {None}]
  BY <1>1, <1>2
<1>6. active[u] = None => m = s
  OBVIOUS
<1>7. active[u] # None => m = active[u]
  OBVIOUS
<1>8. NewUntouched'
  <2> SUFFICES ASSUME NEW t \in Sessions, session'[t] = "new"
               PROVE  members'[t] = {} /\ \A n \in Sessions : t \notin members'[n]
    BY DEF NewUntouched
  <2>1. t # s /\ session[t] = "new"
    BY <1>1, <1>2
  <2>2. t # m
    BY <1>3, <1>4, <1>1, <1>6, <1>7, <2>1
  <2>3. QED
    BY <1>1, <1>2, <1>3, <2>1, <2>2
<1>9. RegisteredOpen'
  <2> SUFFICES ASSUME NEW v \in Users, active'[v] # None
               PROVE  /\ members'[active'[v]] # {}
                      /\ \A t \in members'[active'[v]] :
                           chan'[t] = "open" /\ Owner[t] = v /\ session'[t] \notin {"new", "gone"}
    BY DEF RegisteredOpen
  <2>1. CASE v = u
    <3>1. active'[v] = m /\ members'[m] = members[m] \cup {s}
      BY <1>1, <1>2, <2>1
    <3>2. \A t \in members[m] :
            chan[t] = "open" /\ Owner[t] = u /\ session[t] \notin {"new", "gone"}
      BY <1>1, <1>3, <1>4, <1>6, <1>7
    <3>3. members[m] \subseteq Sessions
      BY <1>1
    <3>4. QED
      BY <1>1, <1>2, <2>1, <3>1, <3>2, <3>3
  <2>2. CASE v # u
    <3>1. active'[v] = active[v] /\ active[v] \in Sessions
      BY <1>1, <1>2, <2>2, <1>5
    <3>2. active[v] # m
      BY <1>1, <1>3, <1>4, <1>6, <1>7, <2>2, <3>1, MapsApart
    <3>3. members'[active[v]] = members[active[v]] /\ members[active[v]] \subseteq Sessions
      BY <1>1, <1>2, <3>1, <3>2
    <3>4. QED
      BY <1>1, <1>2, <1>4, <3>1, <3>3
  <2>3. QED
    BY <2>1, <2>2
<1>10. QED
  BY <1>5, <1>8, <1>9

\* A session joins the consumer of its user.
LEMMA SubscribeStep ==
    ASSUME IInv, NEW s \in Sessions, Subscribe(s)
    PROVE  IInv'
<1> DEFINE u == Owner[s]
           m == IF active[u] = None THEN s ELSE active[u]
<1>1. /\ u \in Users /\ loop \in [Consumers -> LoopType]
      /\ m \in Sessions
      /\ session[s] = "new" /\ consumers[u] # None
      /\ Join(m, s) /\ Skips(m, s, loop)
      /\ active' = [active EXCEPT ![u] = m]
      /\ running' \in BOOLEAN
      /\ active \in [Users -> Sessions \cup {None}]
      /\ UNCHANGED <<connected, consumers, closing, got, owner, link, buf, bound, published>>
  BY SubscriberAssumption DEF IInv, TypeOK, Subscribe, Survives
<1> HIDE DEF m
<1>2. /\ members' \in [Sessions -> SUBSET Sessions]
      /\ chan' \in [Sessions -> {"none", "open", "closed"}]
      /\ session' \in [Sessions -> {"new", "select", "writing", "leaving", "gone"}]
      /\ active' \in [Users -> Sessions \cup {None}]
      /\ NewUntouched'
      /\ RegisteredOpen'
  BY <1>1, JoinKeeps DEF m
<1>3. /\ loop' \in [Consumers -> LoopType]
      /\ \A c \in Consumers : /\ loop'[c].pc = loop[c].pc
                              /\ loop'[c].map = loop[c].map
                              /\ loop'[c].target = loop[c].target
  BY <1>1, SkipsLoop
<1>4. TypeOK'
  BY <1>1, <1>2, <1>3 DEF IInv, TypeOK
<1>5. LoopsLinked'
  BY <1>1, <1>3 DEF IInv, LoopsLinked
<1>6. ConsumerIffSessions'
  BY <1>1, SubscriberAssumption DEF IInv, Safe, ConsumerIffSessions
<1>7. FedOrClosing'
  <2> SUFFICES ASSUME NEW v \in Users, consumers[v] # None
               PROVE  LET d == consumers[v] IN
                      /\ owner[d] = v
                      /\ \/ link[d] = "consuming" /\ v \in bound
                         \/ link[d] = "stopped" /\ loop'[d].pc \notin {"none", "done"}
    BY <1>1 DEF FedOrClosing
  <2>1. consumers[v] \in Consumers
    BY DEF IInv, TypeOK
  <2>2. QED
    BY <1>3, <2>1 DEF IInv, Safe, FedOrClosing
<1>8. QED
  BY <1>2, <1>4, <1>5, <1>6, <1>7 DEF IInv, Safe

\* The first session of a user brings an unused consumer into use.
LEMMA SubscribeFirstStep ==
    ASSUME IInv, NEW s \in Sessions, SubscribeFirst(s)
    PROVE  IInv'
<1> DEFINE u == Owner[s]
           m == IF active[u] = None THEN s ELSE active[u]
<1>1. /\ u \in Users /\ loop \in [Consumers -> LoopType]
      /\ m \in Sessions
      /\ session[s] = "new" /\ consumers[u] = None
      /\ Join(m, s)
      /\ active' = [active EXCEPT ![u] = m]
      /\ running' \in BOOLEAN
      /\ active \in [Users -> Sessions \cup {None}]
      /\ consumers \in [Users -> Consumers \cup {None}]
      /\ owner \in [Consumers -> Users \cup {None}]
      /\ link \in [Consumers -> {"none", "consuming", "stopped"}]
      /\ bound' = bound \cup {u}
      /\ UNCHANGED <<connected, closing, got, buf, published>>
  BY SubscriberAssumption DEF IInv, TypeOK, SubscribeFirst, Survives
<1>2. PICK c \in Consumers :
        /\ loop[c].pc = "none"
        /\ owner' = [owner EXCEPT ![c] = u]
        /\ link' = [link EXCEPT ![c] = "consuming"]
        /\ consumers' = [consumers EXCEPT ![u] = c]
        /\ Skips(m, s, [loop EXCEPT ![c].pc = "recv"])
  BY DEF SubscribeFirst
<1> HIDE DEF m
<1>3. /\ members' \in [Sessions -> SUBSET Sessions]
      /\ chan' \in [Sessions -> {"none", "open", "closed"}]
      /\ session' \in [Sessions -> {"new", "select", "writing", "leaving", "gone"}]
      /\ active' \in [Users -> Sessions \cup {None}]
      /\ NewUntouched'
      /\ RegisteredOpen'
  BY <1>1, JoinKeeps DEF m
<1> DEFINE l == [loop EXCEPT ![c].pc = "recv"]
<1>4. /\ l \in [Consumers -> LoopType]
      /\ l[c].pc = "recv"
      /\ \A d \in Consumers \ {c} : l[d] = loop[d]
  BY <1>1 DEF LoopType
<1>5. Skips(m, s, l)
  BY <1>2
<1> HIDE DEF l
<1>6. /\ loop' \in [Consumers -> LoopType]
      /\ \A d \in Consumers : /\ loop'[d].pc = l[d].pc
                              /\ loop'[d].map = l[d].map
                              /\ loop'[d].target = l[d].target
  BY <1>4, <1>5, SkipsLoop
<1>7. link[c] = "none" /\ c # None
  BY <1>2, SubscriberAssumption DEF IInv, LoopsLinked
<1>8. TypeOK'
  <2>1. /\ owner' \in [Consumers -> Users \cup {None}]
        /\ link' \in [Consumers -> {"none", "consuming", "stopped"}]
        /\ consumers' \in [Users -> Consumers \cup {None}]
    BY <1>1, <1>2
  <2>2. QED
    BY <1>1, <1>3, <1>6, <2>1 DEF IInv, TypeOK
<1>9. LoopsLinked'
  <2> SUFFICES ASSUME NEW d \in Consumers
               PROVE  /\ loop'[d].pc = "none" => link'[d] = "none"
                      /\ loop'[d].pc # "none" => link'[d] # "none" /\ owner'[d] \in Users
                      /\ loop'[d].pc \in {"cleanup", "done"} => link'[d] = "stopped"
                      /\ loop'[d].pc \in {"iter", "send"} => loop'[d].map \in Sessions
                      /\ loop'[d].pc = "send" => loop'[d].target \in Sessions
    BY DEF LoopsLinked
  <2>1. CASE d = c
    BY <1>1, <1>2, <1>4, <1>6, <2>1
  <2>2. CASE d # c
    BY <1>1, <1>2, <1>4, <1>6, <2>2 DEF IInv, LoopsLinked
  <2>3. QED
    BY <2>1, <2>2
<1>10. ConsumerIffSessions'
  BY <1>1, <1>2, <1>7, SubscriberAssumption DEF IInv, Safe, ConsumerIffSessions
<1>11. FedOrClosing'
  <2> SUFFICES ASSUME NEW v \in Users, consumers'[v] # None
               PROVE  LET d == consumers'[v] IN
                      /\ owner'[d] = v
                      /\ \/ link'[d] = "consuming" /\ v \in bound'
                         \/ link'[d] = "stopped" /\ loop'[d].pc \notin {"none", "done"}
    BY DEF FedOrClosing
  <2>1. CASE v = u
    BY <1>1, <1>2, <2>1
  <2>2. CASE v # u
    <3> DEFINE d == consumers[v]
    <3>1. consumers'[v] = d /\ d \in Consumers /\ d # None
      BY <1>1, <1>2, <2>2
    <3>2. /\ owner[d] = v
          /\ \/ link[d] = "consuming" /\ v \in bound
             \/ link[d] = "stopped" /\ loop[d].pc \notin {"none", "done"}
      BY <3>1 DEF IInv, Safe, FedOrClosing
    <3>3. d # c
      BY <1>7, <3>2
    <3> HIDE DEF d
    <3>4. owner'[d] = owner[d] /\ link'[d] = link[d] /\ loop'[d].pc = loop[d].pc
      BY <1>1, <1>2, <1>4, <1>6, <3>1, <3>3
    <3>5. QED
      BY <1>1, <3>1, <3>2, <3>4
  <2>3. QED
    BY <2>1, <2>2
<1>12. QED
  BY <1>3, <1>8, <1>9, <1>10, <1>11 DEF IInv, Safe

-----------------------------------------------------------------------------
(* Unsubscribing. *)

\* A message in hand is a sequence of messages.
LEMMA HeadAsSeq == \A n \in Nat : <<n>> \in Seq(Nat)
OBVIOUS

\* Stopping a registered consumer ends its data and unbinds its user only.
LEMMA StopKeeps ==
    ASSUME IInv, NEW c \in Consumers, StopConsumer(c)
    PROVE  /\ bound' \subseteq bound /\ bound \subseteq bound' \cup {owner[c]}
           /\ link' \in [Consumers -> {"none", "consuming", "stopped"}]
           /\ link'[c] = IF link[c] = "consuming" THEN "stopped" ELSE link[c]
           /\ \A d \in Consumers \ {c} : link'[d] = link[d]
           /\ buf' \in [Consumers -> Seq(Nat)]
<1>1. /\ link \in [Consumers -> {"none", "consuming", "stopped"}]
      /\ buf \in [Consumers -> Seq(Nat)]
  BY DEF IInv, TypeOK
<1>2. CASE link[c] = "consuming"
  <2>1. /\ bound' = bound \ {owner[c]}
        /\ link' = [link EXCEPT ![c] = "stopped"]
    BY <1>2 DEF StopConsumer
  <2>2. PICK rest \in InHand(c) : buf' = [buf EXCEPT ![c] = rest]
    BY <1>2 DEF StopConsumer
  <2>3. rest \in Seq(Nat)
    BY <1>1, EmptySeq, HeadTailProperties, HeadAsSeq DEF InHand
  <2>4. QED
    BY <1>1, <1>2, <2>1, <2>2, <2>3
<1>3. CASE link[c] # "consuming"
  BY <1>1, <1>3 DEF StopConsumer
<1>4. QED
  BY <1>2, <1>3

\* The session leaves its map; its channel was open until now.
LEMMA UnsubscribeStep ==
    ASSUME IInv, NEW s \in Sessions, Unsubscribe(s)
    PROVE  IInv'
<1> DEFINE u == Owner[s]
           m == active[u]
           c == consumers[u]
<1>1. /\ u \in Users
      /\ active \in [Users -> Sessions \cup {None}]
      /\ consumers \in [Users -> Consumers \cup {None}]
      /\ members \in [Sessions -> SUBSET Sessions]
      /\ chan \in [Sessions -> {"none", "open", "closed"}]
      /\ session \in [Sessions -> {"new", "select", "writing", "leaving", "gone"}]
      /\ bound \subseteq Users
      /\ loop \in [Consumers -> LoopType]
  BY SubscriberAssumption DEF IInv, TypeOK
<1>2. /\ m # None /\ s \in members[m] /\ session[s] = "leaving"
      /\ chan' = [chan EXCEPT ![s] = "closed"]
      /\ members' = [members EXCEPT ![m] = members[m] \ {s}]
      /\ session' = [session EXCEPT ![s] = "gone"]
      /\ running' \in BOOLEAN
      /\ UNCHANGED <<connected, closing, got, owner, loop, published>>
  BY DEF Unsubscribe, CloseChan, DeleteMember, Survives
<1>3. m \in Sessions /\ c \in Consumers /\ owner[c] = u
  BY <1>1, <1>2 DEF IInv, Safe, ConsumerIffSessions, FedOrClosing
<1>4. \/ /\ members[m] # {s}
         /\ UNCHANGED <<active, consumers, bound, link, buf>>
      \/ /\ active' = [active EXCEPT ![u] = None]
         /\ consumers' = [consumers EXCEPT ![u] = None]
         /\ StopConsumer(c)
  BY DEF Unsubscribe, DeleteUser
<1> HIDE DEF u, m, c
<1>5. /\ bound' \subseteq bound
      /\ bound \subseteq bound' \cup {u}
      /\ link' \in [Consumers -> {"none", "consuming", "stopped"}]
      /\ \A d \in Consumers : d # c => link'[d] = link[d]
      /\ link'[c] \in {link[c], "stopped"}
      /\ link[c] = "none" => link'[c] = "none"
      /\ buf' \in [Consumers -> Seq(Nat)]
  <2>1. CASE StopConsumer(c)
    BY <1>3, <2>1, StopKeeps
  <2>2. CASE UNCHANGED <<bound, link, buf>>
    BY <1>1, <2>2 DEF IInv, TypeOK
  <2>3. QED
    BY <1>4, <2>1, <2>2
<1>6. /\ active' \in [Users -> Sessions \cup {None}]
      /\ consumers' \in [Users -> Consumers \cup {None}]
      /\ \A v \in Users : v # u => active'[v] = active[v] /\ consumers'[v] = consumers[v]
      /\ \/ members[m] # {s} /\ UNCHANGED <<active, consumers, bound, link>>
         \/ active'[u] = None /\ consumers'[u] = None
  BY <1>1, <1>4
<1>7. TypeOK'
  BY <1>1, <1>2, <1>5, <1>6 DEF IInv, TypeOK
<1>8. NewUntouched'
  BY <1>1, <1>2, <1>3 DEF IInv, NewUntouched
<1>9. LoopsLinked'
  BY <1>2, <1>5 DEF IInv, LoopsLinked
<1>10. RegisteredOpen'
  <2> SUFFICES ASSUME NEW v \in Users, active'[v] # None
               PROVE  /\ members'[active'[v]] # {}
                      /\ \A t \in members'[active'[v]] :
                           chan'[t] = "open" /\ Owner[t] = v /\ session'[t] \notin {"new", "gone"}
    BY DEF RegisteredOpen
  <2>1. active'[v] = active[v] /\ active[v] \in Sessions
    BY <1>1, <1>6
  <2>2. /\ members[active[v]] # {} /\ members[active[v]] \subseteq Sessions
        /\ \A t \in members[active[v]] :
             chan[t] = "open" /\ Owner[t] = v /\ session[t] \notin {"new", "gone"}
    BY <1>1, <2>1 DEF IInv, Safe, RegisteredOpen
  <2>3. CASE v = u
    <3>1. active[v] = m /\ members[m] # {s}
      BY <1>6, <2>3 DEF m
    <3>2. members'[m] = members[m] \ {s}
      BY <1>1, <1>2, <1>3
    <3>3. QED
      BY <1>1, <1>2, <2>1, <2>2, <3>1, <3>2
  <2>4. CASE v # u
    <3>1. active[v] # m /\ s \notin members[active[v]]
      BY <1>1, <1>2, <2>1, <2>4, MapsApart DEF m
    <3>2. members'[active[v]] = members[active[v]]
      BY <1>1, <1>2, <2>1, <3>1
    <3>3. QED
      BY <1>1, <1>2, <2>1, <2>2, <3>1, <3>2
  <2>5. QED
    BY <2>3, <2>4
<1>11. ConsumerIffSessions'
  BY <1>6 DEF IInv, Safe, ConsumerIffSessions
<1>12. FedOrClosing'
  <2> SUFFICES ASSUME NEW v \in Users, consumers'[v] # None
               PROVE  LET d == consumers'[v] IN
                      /\ owner[d] = v
                      /\ \/ link'[d] = "consuming" /\ v \in bound'
                         \/ link'[d] = "stopped" /\ loop[d].pc \notin {"none", "done"}
    BY <1>2 DEF FedOrClosing
  <2>1. consumers'[v] = consumers[v] /\ consumers[v] \in Consumers \cup {None}
    BY <1>1, <1>6
  <2>2. LET d == consumers[v] IN
        /\ owner[d] = v
        /\ \/ link[d] = "consuming" /\ v \in bound
           \/ link[d] = "stopped" /\ loop[d].pc \notin {"none", "done"}
    BY <2>1 DEF IInv, Safe, FedOrClosing
  <2>3. CASE v = u
    BY <1>6, <2>1, <2>2, <2>3
  <2>4. CASE v # u
    <3>1. consumers[v] # c /\ consumers[v] \in Consumers
      BY <1>3, <2>1, <2>2, <2>4
    <3>2. link'[consumers[v]] = link[consumers[v]] /\ (v \in bound => v \in bound')
      BY <1>5, <2>4, <3>1
    <3>3. QED
      BY <2>1, <2>2, <3>2
  <2>5. QED
    BY <2>3, <2>4
<1>13. QED
  BY <1>7, <1>8, <1>9, <1>10, <1>11, <1>12 DEF IInv, Safe

-----------------------------------------------------------------------------
(* The broker, and the theorems. *)

\* A feed reaches a buffer, or no one.
LEMMA PublishStep ==
    ASSUME IInv, NEW u \in Users, Publish(u)
    PROVE  IInv'
<1>1. /\ published \in [Users -> 0..MaxPublish] /\ MaxPublish \in Nat
      /\ published[u] < MaxPublish
      /\ buf \in [Consumers -> Seq(Nat)]
      /\ published' = [published EXCEPT ![u] = @ + 1]
      /\ UNCHANGED <<running, connected, consumers, active, members, sessionVars, owner,
                     link, loop, bound>>
  BY SubscriberAssumption DEF IInv, TypeOK, Publish
<1>2. published' \in [Users -> 0..MaxPublish]
  BY <1>1
<1>3. buf' \in [Consumers -> Seq(Nat)]
  <2>1. published[u] + 1 \in Nat
    BY <1>1
  <2>2. \A c \in Consumers : Append(buf[c], published[u] + 1) \in Seq(Nat)
    BY <1>1, <2>1, AppendProperties
  <2>3. QED
    BY <1>1, <2>2 DEF Publish
<1>4. TypeOK'
  BY <1>1, <1>2, <1>3 DEF IInv, TypeOK, sessionVars
<1>5. NewUntouched' /\ LoopsLinked' /\ Safe'
  BY <1>1 DEF IInv, sessionVars, NewUntouched, LoopsLinked, Safe, RegisteredOpen,
     ConsumerIffSessions, FedOrClosing
<1>6. QED
  BY <1>4, <1>5 DEF IInv

\* The connection breaks: consumers that were fed are now on their way out.
LEMMA DisconnectStep ==
    ASSUME IInv, Disconnect
    PROVE  IInv'
<1>1. TypeOK'
  <2>1. /\ buf \in [Consumers -> Seq(Nat)]
        /\ link \in [Consumers -> {"none", "consuming", "stopped"}]
    BY DEF IInv, TypeOK
  <2>2. \A c \in Consumers : buf[c] # <<>> => <<Head(buf[c])>> \in Seq(Nat)
    BY <2>1, HeadTailProperties, HeadAsSeq
  <2>3. buf' \in [Consumers -> Seq(Nat)]
    BY <2>1, <2>2, EmptySeq DEF Disconnect
  <2>4. link' \in [Consumers -> {"none", "consuming", "stopped"}]
    BY <2>1 DEF Disconnect
  <2>5. QED
    BY <2>3, <2>4 DEF IInv, TypeOK, Disconnect, sessionVars
<1>2. NewUntouched' /\ RegisteredOpen' /\ ConsumerIffSessions'
  BY DEF IInv, Safe, Disconnect, sessionVars, NewUntouched, RegisteredOpen, ConsumerIffSessions
<1>3. LoopsLinked'
  BY DEF IInv, LoopsLinked, Disconnect
<1>4. FedOrClosing'
  <2> SUFFICES ASSUME NEW u \in Users, consumers[u] # None
               PROVE  LET d == consumers[u] IN
                      /\ owner[d] = u
                      /\ \/ link'[d] = "consuming" /\ u \in bound
                         \/ link'[d] = "stopped" /\ loop[d].pc \notin {"none", "done"}
    BY DEF FedOrClosing, Disconnect
  <2>1. consumers[u] \in Consumers
    BY DEF IInv, TypeOK
  <2>2. QED
    BY <2>1 DEF IInv, Safe, FedOrClosing, LoopsLinked, Disconnect
<1>5. QED
  BY <1>1, <1>2, <1>3, <1>4 DEF IInv, Safe

\* Every step keeps the invariant.
LEMMA IInvStep == IInv /\ [Next]_vars => IInv'
<1> SUFFICES ASSUME IInv, [Next]_vars
             PROVE  IInv'
  OBVIOUS
<1>1. ASSUME NEW s \in Sessions, Subscribe(s) \/ SubscribeFirst(s) \/ Unsubscribe(s)
      PROVE  IInv'
  BY <1>1, SubscribeStep, SubscribeFirstStep, UnsubscribeStep
<1>2. ASSUME NEW s \in Sessions,
             SubscribeFails(s) \/ Written(s) \/ Leave(s) \/ UnsubscribeMissing(s)
      PROVE  IInv'
  BY <1>2, HandlerSteps
<1>3. ASSUME NEW s \in Sessions, ClientLeaves(s)
      PROVE  IInv'
  BY <1>3, ClientLeavesStep
<1>4. ASSUME NEW c \in Consumers, LoopStep(c)
      PROVE  IInv'
  BY <1>4, ReceiveStep, LookupStep, NextTargetStep, SendStep, PanicStep, DataEndsStep,
     CleanupStep DEF LoopStep
<1>5. ASSUME NEW u \in Users, Publish(u)
      PROVE  IInv'
  BY <1>5, PublishStep
<1>6. CASE Disconnect
  BY <1>6, DisconnectStep
<1>7. CASE UNCHANGED vars
  <2>1. TypeOK'
    BY <1>7 DEF vars, sessionVars, consumerVars, IInv, TypeOK
  <2>2. NewUntouched' /\ LoopsLinked' /\ Safe'
    BY <1>7 DEF vars, sessionVars, consumerVars, IInv, NewUntouched, LoopsLinked, Safe,
       RegisteredOpen, ConsumerIffSessions, FedOrClosing
  <2>3. QED
    BY <2>1, <2>2 DEF IInv
<1>8. QED
  BY <1>1, <1>2, <1>3, <1>4, <1>5, <1>6, <1>7 DEF Next, SessionStep

\* The invariant holds of every behaviour.
THEOREM Invariance == Spec => []IInv
BY IInvInit, IInvStep, PTL DEF Spec

\* The maps, channels, goroutines and queues keep their types.
THEOREM TypeCorrect == Spec => []TypeOK
<1>1. IInv => TypeOK
  BY DEF IInv
<1>2. QED
  BY <1>1, Invariance, PTL

\* The channel of every registered session is open: neither UnsubscribePostFeed
\* nor the deferred cleanup ever closes a channel twice.
THEOREM ClosedOnce == Spec => []RegisteredOpen
<1>1. IInv => RegisteredOpen
  BY DEF IInv, Safe
<1>2. QED
  BY <1>1, Invariance, PTL

\* The two maps of the subscriber agree: a user has a consumer exactly while
\* the user has sessions.
THEOREM MapsAgree == Spec => []ConsumerIffSessions
<1>1. IInv => ConsumerIffSessions
  BY DEF IInv, Safe
<1>2. QED
  BY <1>1, Invariance, PTL

\* The registered consumer of a user is the user's, and bound and fed, or its
\* goroutine is about to close the user's sessions.
THEOREM SessionsServed == Spec => []FedOrClosing
<1>1. IInv => FedOrClosing
  BY DEF IInv, Safe
<1>2. QED
  BY <1>1, Invariance, PTL
-----------------------------------------------------------------------------
(* The order of the feeds.                                                   *)
(*                                                                           *)
(* What a goroutine has yet to hand out ascends, from the message in its     *)
(* hands to the last one in its buffer, and is newer than what each open     *)
(* session of its user has received: unless a second goroutine is at work,   *)
(* which ends only by closing those sessions.                                *)

Ascends(q) == \A i, j \in DOMAIN q : i < j => q[i] < q[j]
After(n, q) == \A i \in DOMAIN q : n < q[i]

\* Neither a new session nor an unused consumer has left a trace.
Unused ==
    /\ \A s \in Sessions : session[s] = "new" => chan[s] = "none"
    /\ \A c \in Consumers : loop[c].pc = "none" => owner[c] = None

\* Feeds wait in the order in which they were published.
Buffered ==
    \A c \in Consumers :
        /\ link[c] = "none" => buf[c] = <<>>
        /\ link[c] # "none" => \A i \in DOMAIN buf[c] : buf[c][i] \in 1..published[owner[c]]
        /\ Ascends(buf[c])

\* The feed in a goroutine's hands is older than those that wait.
Carried ==
    \A c \in Consumers : loop[c].pc \in {"lookup", "iter", "send"} =>
        /\ loop[c].msg \in 1..published[owner[c]]
        /\ After(loop[c].msg, buf[c])

\* An inner map holds sessions of one user, and a goroutine iterates over a map
\* of its own.
Mapped ==
    /\ \A m, s \in Sessions : s \in members[m] => Owner[s] = Owner[m]
    /\ \A c \in Consumers :
         /\ loop[c].pc \in {"iter", "send"} => Owner[loop[c].map] = owner[c]
         /\ loop[c].pc = "send" => /\ Owner[loop[c].target] = owner[c]
                                   /\ loop[c].target \in loop[c].visited

\* A session whose channel is open is registered.
OpenRegistered ==
    \A s \in Sessions : chan[s] = "open" =>
        active[Owner[s]] # None /\ s \in members[active[Owner[s]]]

Received ==
    \A s \in Sessions : /\ got[s] <= published[Owner[s]]
                        /\ chan[s] = "none" => got[s] = 0

\* What c may still hand to s is newer than what s has.
Newer(s, c) ==
    /\ After(got[s], buf[c])
    /\ loop[c].pc = "lookup" => got[s] < loop[c].msg
    /\ loop[c].pc \in {"iter", "send"} => got[s] <= loop[c].msg
    /\ loop[c].pc \in {"iter", "send"} /\ s \notin loop[c].visited => got[s] < loop[c].msg
    /\ loop[c].pc = "send" /\ loop[c].target = s => got[s] < loop[c].msg

NewerAlone ==
    \A s \in Sessions, c \in Consumers :
        chan[s] = "open" /\ owner[c] = Owner[s] /\ Alone(c) => Newer(s, c)

OrderInv ==
    /\ IInv
    /\ Unused /\ Buffered /\ Carried /\ Mapped /\ OpenRegistered /\ Received
    /\ NewerAlone

\* The initial state: nothing was published.
LEMMA OrderInit == Init => OrderInv
<1> SUFFICES ASSUME Init
             PROVE  OrderInv
  OBVIOUS
<1>1. IInv
  BY IInvInit
<1>2. \A c \in Consumers : buf[c] = <<>> /\ loop[c].pc = "none" /\ owner[c] = None
  BY DEF Init, Parked
<1>3. \A c \in Consumers : Ascends(buf[c])
  BY <1>2 DEF Ascends
<1>4. Unused /\ Buffered /\ Carried /\ Mapped /\ OpenRegistered
  BY <1>2, <1>3 DEF Init, Unused, Buffered, Carried, Mapped, OpenRegistered
<1>5. Received
  BY SubscriberAssumption DEF Init, Received
<1>6. NewerAlone
  BY DEF Init, NewerAlone
<1>7. QED
  BY <1>1, <1>4, <1>5, <1>6 DEF OrderInv

\* Taking the first of ascending messages.
LEMMA TailAscends ==
    ASSUME NEW q \in Seq(Nat), q # <<>>, Ascends(q)
    PROVE  /\ Ascends(Tail(q)) /\ After(Head(q), Tail(q))
           /\ Head(q) = q[1] /\ 1 \in DOMAIN q
           /\ \A i \in DOMAIN Tail(q) : i + 1 \in DOMAIN q /\ Tail(q)[i] = q[i + 1]
<1>1. /\ Len(q) \in Nat \ {0} /\ DOMAIN q = 1..Len(q)
      /\ Len(Tail(q)) = Len(q) - 1 /\ DOMAIN Tail(q) = 1..(Len(q) - 1)
      /\ Head(q) = q[1]
      /\ \A i \in 1..(Len(q) - 1) : Tail(q)[i] = q[i + 1]
  BY HeadTailProperties, LenProperties, EmptySeq
<1>2. \A i \in 1..(Len(q) - 1) : i + 1 \in 1..Len(q) /\ 1 < i + 1
  BY <1>1
<1>3. 1 \in DOMAIN q
  BY <1>1
<1>4. \A i, j \in 1..(Len(q) - 1) : i < j => i + 1 < j + 1
  OBVIOUS
<1>5. Ascends(Tail(q))
  BY <1>1, <1>2, <1>4 DEF Ascends
<1>6. After(Head(q), Tail(q))
  BY <1>1, <1>2, <1>3 DEF Ascends, After
<1>7. QED
  BY <1>1, <1>2, <1>3, <1>5, <1>6

\* What may be left of messages that wait.
Part(p, q) == p = q \/ p = <<>> \/ (q # <<>> /\ p = <<Head(q)>>)

LEMMA PartAscends ==
    ASSUME NEW q \in Seq(Nat), NEW p, Part(p, q), Ascends(q)
    PROVE  /\ Ascends(p)
           /\ \A i \in DOMAIN p : \E j \in DOMAIN q : p[i] = q[j]
<1>1. CASE p = q
  BY <1>1
<1>2. CASE p = <<>>
  BY <1>2 DEF Ascends
<1>3. CASE q # <<>> /\ p = <<Head(q)>>
  <2>1. 1 \in DOMAIN q /\ Head(q) = q[1]
    BY <1>3, TailAscends
  <2>2. DOMAIN p = {1} /\ p[1] = q[1]
    BY <1>3, <2>1
  <2>3. QED
    BY <2>1, <2>2 DEF Ascends
<1>4. QED
  BY <1>1, <1>2, <1>3 DEF Part

\* One more message, newer than all.
LEMMA AppendAscends ==
    ASSUME NEW q \in Seq(Nat), NEW n \in Nat, Ascends(q), \A i \in DOMAIN q : q[i] <= n
    PROVE  /\ Ascends(Append(q, n + 1))
           /\ \A i \in DOMAIN Append(q, n + 1) :
                \/ i \in DOMAIN q /\ Append(q, n + 1)[i] = q[i]
                \/ Append(q, n + 1)[i] = n + 1
           /\ \A k \in Nat : k <= n /\ After(k, q) => After(k, Append(q, n + 1))
<1> DEFINE a == Append(q, n + 1)
<1>1. /\ Len(q) \in Nat /\ DOMAIN q = 1..Len(q)
      /\ DOMAIN a = 1..(Len(q) + 1)
      /\ \A i \in 1..Len(q) : a[i] = q[i]
      /\ a[Len(q) + 1] = n + 1
      /\ \A i \in 1..Len(q) : q[i] \in Nat
  BY AppendProperties, LenProperties, ElementOfSeq
<1> HIDE DEF a
<1>2. \A i \in DOMAIN a : i \in DOMAIN q \/ i = Len(q) + 1
  BY <1>1
<1>3. Ascends(a)
  <2> SUFFICES ASSUME NEW i \in DOMAIN a, NEW j \in DOMAIN a, i < j
               PROVE  a[i] < a[j]
    BY DEF Ascends
  <2>1. i \in 1..Len(q)
    BY <1>1
  <2>2. CASE j \in 1..Len(q)
    BY <1>1, <2>1, <2>2 DEF Ascends
  <2>3. CASE j = Len(q) + 1
    BY <1>1, <2>1, <2>3
  <2>4. QED
    BY <1>1, <1>2, <2>2, <2>3
<1>4. \A i \in DOMAIN a : (i \in DOMAIN q /\ a[i] = q[i]) \/ a[i] = n + 1
  BY <1>1, <1>2
<1>5. \A k \in Nat : k <= n /\ After(k, q) => After(k, a)
  BY <1>1, <1>4 DEF After
<1>6. QED
  BY <1>3, <1>4, <1>5 DEF a

\* Steps that move neither a goroutine nor a feed.
LEMMA IdleOrder ==
    ASSUME OrderInv, IInv',
           UNCHANGED <<active, members, chan, got, owner, link, loop, buf, published>>,
           \A s \in Sessions : session'[s] = "new" => session[s] = "new"
    PROVE  OrderInv'
<1>1. Unused' /\ Buffered' /\ Carried' /\ Mapped' /\ OpenRegistered' /\ Received'
  BY DEF OrderInv, Unused, Buffered, Carried, Mapped, OpenRegistered, Received
<1>2. NewerAlone'
  BY DEF OrderInv, NewerAlone, Newer, Alone
<1>3. QED
  BY <1>1, <1>2 DEF OrderInv

\* The handler outside of Subscribe and Unsubscribe, and a send that panics.
LEMMA HandlerOrder ==
    ASSUME OrderInv, IInv',
           \/ \E s \in Sessions : \/ SubscribeFails(s) \/ Written(s) \/ Leave(s)
                                  \/ UnsubscribeMissing(s) \/ ClientLeaves(s)
           \/ \E c \in Consumers : SendPanics(c)
    PROVE  OrderInv'
<1>1. session \in [Sessions -> {"new", "select", "writing", "leaving", "gone"}]
  BY DEF OrderInv, IInv, TypeOK
<1>2. /\ UNCHANGED <<active, members, chan, got, owner, link, loop, buf, published>>
      /\ \A s \in Sessions : session'[s] = "new" => session[s] = "new"
  BY <1>1 DEF SubscribeFails, Written, Leave, UnsubscribeMissing, ClientLeaves, SendPanics,
     consumerVars, sessionVars
<1>3. QED
  BY <1>2, IdleOrder

\* A goroutine moves on between two sends, neither starting nor finishing.
LEMMA MoveOrder ==
    ASSUME OrderInv, IInv', NEW c \in Consumers, NEW r \in LoopType, OnlyLoop(c, r),
           loop[c].pc \notin {"none", "done"}, r.pc \notin {"none", "done"},
           UNCHANGED <<active, members, sessionVars, owner, link, published>>,
           \A d \in Consumers \ {c} : buf'[d] = buf[d],
           Ascends(buf'[c]),
           \A i \in DOMAIN buf'[c] : buf'[c][i] \in 1..published[owner[c]],
           r.pc \in {"lookup", "iter", "send"} =>
               r.msg \in 1..published[owner[c]] /\ After(r.msg, buf'[c]),
           r.pc \in {"iter", "send"} => Owner[r.map] = owner[c],
           r.pc = "send" => Owner[r.target] = owner[c] /\ r.target \in r.visited,
           \A s \in Sessions : owner[c] = Owner[s] /\ Newer(s, c) => Newer(s, c)'
    PROVE  OrderInv'
<1>1. loop'[c] = r /\ \A d \in Consumers \ {c} : loop'[d] = loop[d]
  BY DEF OnlyLoop
<1>2. Unused' /\ OpenRegistered' /\ Received'
  BY <1>1 DEF OrderInv, Unused, OpenRegistered, Received, sessionVars
<1>3. Buffered'
  <2>1. link[c] # "none"
    BY DEF OrderInv, IInv, LoopsLinked
  <2>2. QED
    BY <2>1 DEF OrderInv, Buffered
<1>4. Carried'
  BY <1>1 DEF OrderInv, Carried
<1>5. Mapped'
  BY <1>1 DEF OrderInv, Mapped
<1>6. NewerAlone'
  <2> SUFFICES ASSUME NEW s \in Sessions, NEW e \in Consumers,
                      chan[s] = "open", owner[e] = Owner[s], Alone(e)'
               PROVE  Newer(s, e)'
    BY DEF NewerAlone, sessionVars
  <2>1. \A d \in Consumers : loop'[d].pc = "done" => loop[d].pc = "done"
    BY <1>1
  <2>2. Alone(e)
    BY <2>1 DEF Alone
  <2>3. Newer(s, e)
    BY <2>2 DEF OrderInv, NewerAlone
  <2>4. CASE e = c
    BY <2>3, <2>4
  <2>5. CASE e # c
    BY <1>1, <2>3, <2>5 DEF Newer, sessionVars
  <2>6. QED
    BY <2>4, <2>5
<1>7. QED
  BY <1>2, <1>3, <1>4, <1>5, <1>6 DEF OrderInv

\* The numbers of a goroutine and its user, and what the order says of it.
LEMMA OrderTypes ==
    ASSUME OrderInv, NEW c \in Consumers
    PROVE  /\ loop \in [Consumers -> LoopType] /\ loop[c] \in LoopType
           /\ loop[c].msg \in Nat /\ loop[c].visited \subseteq Sessions
           /\ got \in [Sessions -> Nat]
           /\ buf \in [Consumers -> Seq(Nat)] /\ buf[c] \in Seq(Nat)
           /\ \A i \in DOMAIN buf[c] : buf[c][i] \in Nat
           /\ Ascends(buf[c])
           /\ published \in [Users -> 0..MaxPublish] /\ MaxPublish \in Nat
           /\ loop[c].pc # "none" =>
                /\ owner[c] \in Users /\ published[owner[c]] \in Nat
                /\ link[c] # "none"
                /\ \A i \in DOMAIN buf[c] : buf[c][i] \in 1..published[owner[c]]
<1>1. /\ loop \in [Consumers -> LoopType] /\ loop[c] \in LoopType
      /\ got \in [Sessions -> Nat]
      /\ buf \in [Consumers -> Seq(Nat)] /\ buf[c] \in Seq(Nat)
      /\ published \in [Users -> 0..MaxPublish] /\ MaxPublish \in Nat
  BY SubscriberAssumption DEF OrderInv, IInv, TypeOK
<1>2. loop[c].msg \in Nat /\ loop[c].visited \subseteq Sessions
  BY <1>1 DEF LoopType
<1>3. \A i \in DOMAIN buf[c] : buf[c][i] \in Nat
  BY <1>1, ElementOfSeq, LenProperties
<1>4. Ascends(buf[c])
  BY DEF OrderInv, Buffered
<1>5. ASSUME loop[c].pc # "none"
      PROVE  /\ owner[c] \in Users /\ published[owner[c]] \in Nat
             /\ link[c] # "none"
             /\ \A i \in DOMAIN buf[c] : buf[c][i] \in 1..published[owner[c]]
  <2>1. owner[c] \in Users /\ link[c] # "none"
    BY <1>5 DEF OrderInv, IInv, LoopsLinked
  <2>2. QED
    BY <1>1, <2>1 DEF OrderInv, Buffered
<1>6. QED
  BY <1>1, <1>2, <1>3, <1>4, <1>5

\* The oldest message moves from the buffer into the goroutine's hands.
LEMMA ReceiveOrder ==
    ASSUME OrderInv, IInv', NEW c \in Consumers, Receive(c)
    PROVE  OrderInv'
<1> DEFINE h == Head(buf[c])
           q == Tail(buf[c])
           r == [pc |-> "lookup", map |-> loop[c].map, visited |-> loop[c].visited,
                 target |-> loop[c].target, msg |-> h]
<1>1. /\ loop[c] \in LoopType /\ buf[c] \in Seq(Nat) /\ buf[c] # <<>>
      /\ loop \in [Consumers -> LoopType]
      /\ loop[c].pc = "recv" /\ buf' = [buf EXCEPT ![c] = q]
      /\ buf'[c] = q /\ \A d \in Consumers \ {c} : buf'[d] = buf[d]
      /\ UNCHANGED <<active, members, sessionVars, owner, link, published>>
  BY OrderTypes DEF Receive
<1>2. /\ Ascends(q) /\ After(h, q)
      /\ h = buf[c][1] /\ 1 \in DOMAIN buf[c]
      /\ \A i \in DOMAIN q : i + 1 \in DOMAIN buf[c] /\ q[i] = buf[c][i + 1]
  BY <1>1, OrderTypes, TailAscends
<1>3. /\ h \in 1..published[owner[c]] /\ published[owner[c]] \in Nat /\ h \in Nat
      /\ \A i \in DOMAIN q : q[i] \in 1..published[owner[c]]
  BY <1>1, <1>2, OrderTypes
<1>4. loop' = [loop EXCEPT ![c].pc = "lookup", ![c].msg = h]
  BY DEF Receive
<1> HIDE DEF h, q
<1>5. r \in LoopType /\ OnlyLoop(c, r)
  BY <1>1, <1>3, <1>4 DEF OnlyLoop, LoopType
<1>6. /\ r.pc = "lookup" /\ r.msg = h
      /\ loop'[c].pc = "lookup" /\ loop'[c].msg = h
  BY <1>5 DEF OnlyLoop
<1> HIDE DEF r
<1>7. ASSUME NEW s \in Sessions, Newer(s, c)
      PROVE  Newer(s, c)'
  <2>1. After(got[s], q) /\ got[s] < h
    BY <1>2, <1>7 DEF Newer, After
  <2>2. QED
    BY <1>1, <1>6, <2>1 DEF Newer, sessionVars
<1>8. QED
  BY <1>1, <1>2, <1>3, <1>5, <1>6, <1>7, MoveOrder

\* The active map of a user, as every map, is named for a session of the user.
LEMMA ActiveOwned ==
    ASSUME OrderInv, NEW u \in Users, active[u] # None
    PROVE  active[u] \in Sessions /\ Owner[active[u]] = u
<1>1. active[u] \in Sessions /\ members[active[u]] \subseteq Sessions
  BY DEF OrderInv, IInv, TypeOK
<1>2. PICK s \in members[active[u]] : Owner[s] = u
  BY DEF OrderInv, IInv, Safe, RegisteredOpen
<1>3. QED
  BY <1>1, <1>2 DEF OrderInv, Mapped

\* The goroutine begins with the sessions of its user's map: none is met yet.
LEMMA LookupOrder ==
    ASSUME OrderInv, IInv', NEW c \in Consumers, Lookup(c)
    PROVE  OrderInv'
<1> DEFINE m == active[owner[c]]
           pc == IF m = None THEN "recv" ELSE "iter"
           r == [pc |-> pc, map |-> m, visited |-> {},
                 target |-> loop[c].target, msg |-> loop[c].msg]
<1>1. /\ loop[c] \in LoopType /\ loop \in [Consumers -> LoopType]
      /\ loop[c].pc = "lookup"
      /\ UNCHANGED <<active, members, sessionVars, owner, link, buf, published>>
  BY OrderTypes DEF Lookup
<1>2. owner[c] \in Users
  BY <1>1, OrderTypes
<1>3. /\ m \in Sessions \cup {None}
      /\ pc \in {"recv", "iter"} /\ (pc = "iter" => Owner[m] = owner[c])
  BY <1>2, ActiveOwned DEF OrderInv, IInv, TypeOK
<1>4. loop' = [loop EXCEPT ![c].pc = pc, ![c].map = m, ![c].visited = {}]
  BY DEF Lookup
<1> HIDE DEF m, pc
<1>5. r \in LoopType /\ OnlyLoop(c, r)
  BY <1>1, <1>3, <1>4 DEF OnlyLoop, LoopType
<1>6. /\ r.pc = pc /\ r.msg = loop[c].msg /\ r.map = m
      /\ loop'[c].pc = pc /\ loop'[c].msg = loop[c].msg
  BY <1>5 DEF OnlyLoop
<1> HIDE DEF r
<1>7. /\ loop[c].msg \in 1..published[owner[c]] /\ After(loop[c].msg, buf[c])
      /\ loop[c].msg \in Nat /\ got \in [Sessions -> Nat]
  BY <1>1, OrderTypes DEF OrderInv, Carried
<1>8. ASSUME NEW s \in Sessions, Newer(s, c)
      PROVE  Newer(s, c)'
  BY <1>1, <1>3, <1>6, <1>7, <1>8 DEF Newer, sessionVars
<1>9. /\ Ascends(buf'[c])
      /\ \A i \in DOMAIN buf'[c] : buf'[c][i] \in 1..published[owner[c]]
  BY <1>1, OrderTypes
<1>10. QED
  BY <1>1, <1>3, <1>5, <1>6, <1>7, <1>8, <1>9, MoveOrder

\* The goroutine turns to a session that it has not met, or to its next feed.
LEMMA NextTargetOrder ==
    ASSUME OrderInv, IInv', NEW c \in Consumers, NextTarget(c)
    PROVE  OrderInv'
<1>1. /\ loop[c] \in LoopType /\ loop \in [Consumers -> LoopType]
      /\ loop[c].visited \subseteq Sessions
      /\ loop[c].pc = "iter"
      /\ UNCHANGED <<active, members, sessionVars, owner, link, buf, published>>
  BY OrderTypes DEF NextTarget
<1>2. /\ loop[c].msg \in 1..published[owner[c]] /\ After(loop[c].msg, buf[c])
      /\ Owner[loop[c].map] = owner[c] /\ loop[c].map \in Sessions
  BY <1>1 DEF OrderInv, Carried, Mapped, IInv, LoopsLinked
<1>3. /\ Ascends(buf'[c])
      /\ \A i \in DOMAIN buf'[c] : buf'[c][i] \in 1..published[owner[c]]
  BY <1>1, OrderTypes
<1>4. CASE Goto(c, "recv")
  <2> DEFINE r == [pc |-> "recv", map |-> loop[c].map, visited |-> loop[c].visited,
                   target |-> loop[c].target, msg |-> loop[c].msg]
  <2>1. OnlyLoop(c, r)
    BY <1>4, LoopGoto DEF OrderInv, IInv
  <2>2. r \in LoopType /\ r.pc = "recv" /\ loop'[c].pc = "recv"
    BY <2>1 DEF OnlyLoop
  <2> HIDE DEF r
  <2>3. ASSUME NEW s \in Sessions, Newer(s, c)
        PROVE  Newer(s, c)'
    BY <1>1, <2>2, <2>3 DEF Newer, sessionVars
  <2>4. QED
    BY <1>1, <1>3, <2>1, <2>2, <2>3, MoveOrder
<1>5. ASSUME NEW s \in members[loop[c].map] \ loop[c].visited,
             loop' = [loop EXCEPT ![c].pc = "send", ![c].target = s,
                                  ![c].visited = @ \cup {s}]
      PROVE  OrderInv'
  <2> DEFINE w == loop[c].visited \cup {s}
             r == [pc |-> "send", map |-> loop[c].map, visited |-> w,
                   target |-> s, msg |-> loop[c].msg]
  <2>1. s \in Sessions /\ Owner[s] = owner[c]
    BY <1>2 DEF OrderInv, IInv, TypeOK, Mapped
  <2>2. /\ w \in SUBSET Sessions
        /\ loop' = [loop EXCEPT ![c].pc = "send", ![c].target = s, ![c].visited = w]
        /\ s \in w /\ \A t : t \notin w => t \notin loop[c].visited
    BY <1>1, <1>5, <2>1
  <2> HIDE DEF w
  <2>3. OnlyLoop(c, r)
    BY <1>1, <2>1, <2>2 DEF OnlyLoop, LoopType
  <2>4. /\ r \in LoopType /\ r.pc = "send" /\ r.map = loop[c].map /\ r.target = s
        /\ r.visited = w /\ r.msg = loop[c].msg
        /\ loop'[c] = r
    BY <2>3 DEF OnlyLoop
  <2> HIDE DEF r
  <2>5. ASSUME NEW t \in Sessions, Newer(t, c)
        PROVE  Newer(t, c)'
    <3>1. got[t] <= loop[c].msg /\ (t \notin loop[c].visited => got[t] < loop[c].msg)
          /\ After(got[t], buf[c])
      BY <1>1, <2>5 DEF Newer
    <3>2. s \notin loop[c].visited
      BY <1>5
    <3>3. QED
      BY <1>1, <2>2, <2>4, <3>1, <3>2 DEF Newer, sessionVars
  <2>6. QED
    BY <1>1, <1>2, <1>3, <2>1, <2>2, <2>3, <2>4, <2>5, MoveOrder
<1>6. QED
  BY <1>4, <1>5 DEF NextTarget

\* The data ends.
LEMMA DataEndsOrder ==
    ASSUME OrderInv, IInv', NEW c \in Consumers, DataEnds(c)
    PROVE  OrderInv'
<1> DEFINE r == [pc |-> "cleanup", map |-> loop[c].map, visited |-> loop[c].visited,
                 target |-> loop[c].target, msg |-> loop[c].msg]
<1>1. /\ loop[c].pc = "recv" /\ Goto(c, "cleanup")
      /\ UNCHANGED <<active, members, sessionVars, owner, link, buf, published>>
  BY DEF DataEnds
<1>2. OnlyLoop(c, r)
  BY <1>1, LoopGoto DEF OrderInv, IInv
<1>3. r \in LoopType /\ r.pc = "cleanup" /\ loop'[c].pc = "cleanup"
  BY <1>2 DEF OnlyLoop
<1> HIDE DEF r
<1>4. /\ Ascends(buf'[c])
      /\ \A i \in DOMAIN buf'[c] : buf'[c][i] \in 1..published[owner[c]]
  BY <1>1, OrderTypes
<1>5. ASSUME NEW s \in Sessions, Newer(s, c)
      PROVE  Newer(s, c)'
  BY <1>1, <1>3, <1>5 DEF Newer, sessionVars
<1>6. QED
  BY <1>1, <1>2, <1>3, <1>4, <1>5, MoveOrder

\* A session takes the feed: what it has now is what the goroutine holds.
LEMMA SendOrder ==
    ASSUME OrderInv, IInv', NEW c \in Consumers, Send(c)
    PROVE  OrderInv'
<1> DEFINE s == loop[c].target
           r == [pc |-> "iter", map |-> loop[c].map, visited |-> loop[c].visited,
                 target |-> s, msg |-> loop[c].msg]
<1>1. /\ loop[c].pc = "send" /\ chan[s] = "open" /\ session[s] = "select"
      /\ got' = [got EXCEPT ![s] = loop[c].msg]
      /\ session' = [session EXCEPT ![s] = "writing"]
      /\ UNCHANGED <<active, members, chan, owner, link, buf, published>>
  BY DEF Send
<1>2. OnlyLoop(c, r)
  BY LoopGoto DEF OrderInv, IInv, Send
<1>3. /\ loop'[c].pc = "iter" /\ loop'[c].map = loop[c].map /\ loop'[c].msg = loop[c].msg
      /\ loop'[c].visited = loop[c].visited
      /\ \A d \in Consumers \ {c} : loop'[d] = loop[d]
  BY <1>2 DEF OnlyLoop
<1>4. /\ s \in Sessions /\ Owner[s] = owner[c] /\ s \in loop[c].visited
      /\ loop[c].msg \in 1..published[owner[c]] /\ After(loop[c].msg, buf[c])
      /\ Owner[loop[c].map] = owner[c]
  BY <1>1 DEF OrderInv, Carried, Mapped, IInv, LoopsLinked
<1>5. /\ got \in [Sessions -> Nat] /\ loop[c].msg \in Nat /\ published[owner[c]] \in Nat
      /\ session \in [Sessions -> {"new", "select", "writing", "leaving", "gone"}]
  BY <1>1, OrderTypes DEF OrderInv, IInv, TypeOK
<1> HIDE DEF s, r
<1>6. Unused' /\ Buffered' /\ OpenRegistered'
  BY <1>1, <1>3, <1>5 DEF OrderInv, Unused, Buffered, OpenRegistered
<1>7. Carried' /\ Mapped'
  BY <1>1, <1>3, <1>4 DEF OrderInv, Carried, Mapped
<1>8. Received'
  BY <1>1, <1>4, <1>5 DEF OrderInv, Received
<1>9. NewerAlone'
  <2> SUFFICES ASSUME NEW t \in Sessions, NEW e \in Consumers,
                      chan[t] = "open", owner[e] = Owner[t], Alone(e)'
               PROVE  Newer(t, e)'
    BY <1>1 DEF NewerAlone
  <2>1. Alone(e)
    <3>1. \A d \in Consumers : loop'[d].pc = "done" => loop[d].pc = "done"
      BY <1>3
    <3>2. QED
      BY <1>1, <3>1 DEF Alone
  <2>2. Newer(t, e)
    BY <2>1 DEF OrderInv, NewerAlone
  <2>3. CASE e # c
    <3>1. owner[e] # owner[c]
      BY <1>1, <2>1, <2>3 DEF Alone
    <3>2. t # s
      BY <1>4, <3>1
    <3>3. QED
      BY <1>1, <1>3, <1>5, <2>2, <2>3, <3>2 DEF Newer
  <2>4. CASE e = c /\ t # s
    <3>1. got'[t] = got[t] /\ buf' = buf
      BY <1>1, <1>5, <2>4
    <3>2. QED
      BY <1>1, <1>3, <2>2, <2>4, <3>1 DEF Newer
  <2>5. CASE e = c /\ t = s
    <3>1. got'[t] = loop[c].msg /\ buf' = buf
      BY <1>1, <1>4, <1>5, <2>5
    <3>2. QED
      BY <1>3, <1>4, <1>5, <2>5, <3>1 DEF Newer
  <2>6. QED
    BY <2>3, <2>4, <2>5
<1>10. QED
  BY <1>6, <1>7, <1>8, <1>9 DEF OrderInv

\* A goroutine finishes: another one of its user may then be alone, but no
\* session of that user has an open channel any more.
LEMMA CleanupOrder ==
    ASSUME OrderInv, IInv', NEW c \in Consumers, Cleanup(c)
    PROVE  OrderInv'
<1> DEFINE u == owner[c]
           m == active[u]
           r == [pc |-> "done", map |-> loop[c].map, visited |-> loop[c].visited,
                 target |-> loop[c].target, msg |-> loop[c].msg]
<1>1. /\ u \in Users /\ link[c] = "stopped" /\ loop[c].pc = "cleanup"
      /\ active \in [Users -> Sessions \cup {None}]
      /\ chan \in [Sessions -> {"none", "open", "closed"}]
  BY DEF OrderInv, IInv, TypeOK, LoopsLinked, Cleanup
<1>2. /\ active' = [active EXCEPT ![u] = None]
      /\ chan' = [s \in Sessions |->
                    IF m # None /\ s \in members[m] THEN "closed" ELSE chan[s]]
      /\ UNCHANGED <<link, buf, members, session, got, owner, published>>
  BY <1>1 DEF Cleanup, DeleteUser, StopConsumer
<1>3. OnlyLoop(c, r)
  BY LoopGoto DEF OrderInv, IInv, Cleanup
<1>4. /\ loop'[c].pc = "done"
      /\ \A d \in Consumers \ {c} : loop'[d] = loop[d]
  BY <1>3 DEF OnlyLoop
<1> HIDE DEF r
<1>5. \A s \in Sessions : /\ chan'[s] = "open" => chan[s] = "open" /\ Owner[s] # u
                          /\ chan'[s] = "none" => chan[s] = "none"
                          /\ session[s] = "new" => chan'[s] = "none"
  <2> SUFFICES ASSUME NEW s \in Sessions
               PROVE  /\ chan'[s] = "open" => chan[s] = "open" /\ Owner[s] # u
                      /\ chan'[s] = "none" => chan[s] = "none"
                      /\ session[s] = "new" => chan'[s] = "none"
    OBVIOUS
  <2>1. session[s] = "new" => ~(m # None /\ s \in members[m])
    BY <1>1 DEF OrderInv, IInv, Safe, RegisteredOpen
  <2>2. chan[s] = "open" /\ Owner[s] = u => m # None /\ s \in members[m]
    BY DEF OrderInv, OpenRegistered
  <2>3. session[s] = "new" => chan[s] = "none"
    BY DEF OrderInv, Unused
  <2> HIDE DEF u, m
  <2>4. QED
    BY <1>2, <2>1, <2>2, <2>3
<1>6. Unused' /\ Buffered' /\ Carried' /\ Mapped'
  BY <1>1, <1>2, <1>4, <1>5 DEF OrderInv, Unused, Buffered, Carried, Mapped
<1>7. OpenRegistered'
  <2> SUFFICES ASSUME NEW s \in Sessions, chan'[s] = "open"
               PROVE  active'[Owner[s]] # None /\ s \in members[active'[Owner[s]]]
    BY <1>2 DEF OpenRegistered
  <2>1. chan[s] = "open" /\ Owner[s] # u /\ Owner[s] \in Users
    BY <1>5, SubscriberAssumption
  <2>2. active'[Owner[s]] = active[Owner[s]]
    BY <1>1, <1>2, <2>1
  <2>3. QED
    BY <2>1, <2>2 DEF OrderInv, OpenRegistered
<1>8. Received'
  BY <1>2, <1>5 DEF OrderInv, Received
<1>9. NewerAlone'
  <2> SUFFICES ASSUME NEW t \in Sessions, NEW e \in Consumers,
                      chan'[t] = "open", owner[e] = Owner[t], Alone(e)'
               PROVE  Newer(t, e)'
    BY <1>2 DEF NewerAlone
  <2>1. chan[t] = "open" /\ owner[e] # u
    BY <1>5
  <2>2. e # c
    BY <2>1
  <2>3. Alone(e)
    BY <1>2, <1>4, <2>1 DEF Alone
  <2>4. Newer(t, e)
    BY <2>1, <2>3 DEF OrderInv, NewerAlone
  <2>5. QED
    BY <1>2, <1>4, <2>2, <2>4 DEF Newer
<1>10. QED
  BY <1>6, <1>7, <1>8, <1>9 DEF OrderInv

\* A goroutine stays as it is, or a new one waits for its first feed.
Started(c, l) ==
    \/ l[c] = loop[c] /\ owner'[c] = owner[c] /\ link'[c] = link[c]
    \/ loop[c].pc = "none" /\ l[c].pc = "recv" /\ owner'[c] \in Users /\ link'[c] # "none"

\* A session joins: it has received nothing, and every feed is newer than that.
LEMMA JoinOrder ==
    ASSUME OrderInv, IInv', NEW s \in Sessions, session[s] = "new",
           NEW m, m = IF active[Owner[s]] = None THEN s ELSE active[Owner[s]],
           Join(m, s), active' = [active EXCEPT ![Owner[s]] = m],
           NEW l \in [Consumers -> LoopType], Skips(m, s, l),
           \A c \in Consumers : Started(c, l),
           UNCHANGED <<got, buf, published>>
    PROVE  OrderInv'
<1> DEFINE u == Owner[s]
<1>1. /\ u \in Users
      /\ active \in [Users -> Sessions \cup {None}]
      /\ members \in [Sessions -> SUBSET Sessions]
      /\ chan \in [Sessions -> {"none", "open", "closed"}]
      /\ session \in [Sessions -> {"new", "select", "writing", "leaving", "gone"}]
      /\ loop' \in [Consumers -> LoopType]
  BY SubscriberAssumption DEF OrderInv, IInv, TypeOK
<1>2. /\ members' = [members EXCEPT ![m] = members[m] \cup {s}]
      /\ chan' = [chan EXCEPT ![s] = "open"]
      /\ session' = [session EXCEPT ![s] = "select"]
      /\ active' = [active EXCEPT ![u] = m]
  BY DEF Join
<1>3. m \in Sessions /\ Owner[m] = u /\ (active[u] # None => m = active[u])
  BY <1>1, ActiveOwned
<1> HIDE DEF u
<1>4. /\ chan[s] = "none" /\ got[s] = 0
      /\ \A t \in Sessions \ {s} : chan'[t] = chan[t] /\ session'[t] = session[t]
      /\ chan'[s] = "open" /\ session'[s] = "select"
  BY <1>1, <1>2 DEF OrderInv, Unused, Received
<1>5. \A c \in Consumers : /\ loop'[c].pc = l[c].pc
                           /\ loop'[c].map = l[c].map
                           /\ loop'[c].target = l[c].target
                           /\ loop'[c].msg = l[c].msg
                           /\ loop'[c].visited \in {l[c].visited, l[c].visited \cup {s}}
  BY SkipsLoop
<1>6. \A c \in Consumers : loop[c].pc = "none" => buf[c] = <<>> /\ owner[c] = None
  BY DEF OrderInv, IInv, LoopsLinked, Unused, Buffered
<1>7. \A c \in Consumers :
        \/ /\ owner'[c] = owner[c] /\ link'[c] = link[c]
           /\ loop'[c].pc = loop[c].pc /\ loop'[c].map = loop[c].map
           /\ loop'[c].target = loop[c].target /\ loop'[c].msg = loop[c].msg
           /\ loop'[c].visited \in {loop[c].visited, loop[c].visited \cup {s}}
        \/ /\ loop[c].pc = "none" /\ owner[c] = None /\ buf[c] = <<>>
           /\ loop'[c].pc = "recv" /\ owner'[c] \in Users /\ link'[c] # "none"
  <2> SUFFICES ASSUME NEW c \in Consumers
               PROVE  \/ /\ owner'[c] = owner[c] /\ link'[c] = link[c]
                         /\ loop'[c].pc = loop[c].pc /\ loop'[c].map = loop[c].map
                         /\ loop'[c].target = loop[c].target /\ loop'[c].msg = loop[c].msg
                         /\ loop'[c].visited \in {loop[c].visited, loop[c].visited \cup {s}}
                      \/ /\ loop[c].pc = "none" /\ owner[c] = None /\ buf[c] = <<>>
                         /\ loop'[c].pc = "recv" /\ owner'[c] \in Users /\ link'[c] # "none"
    OBVIOUS
  <2>1. Started(c, l)
    OBVIOUS
  <2>2. QED
    BY <1>5, <1>6, <2>1 DEF Started
<1>8. Unused'
  BY <1>4, <1>7 DEF OrderInv, Unused
<1>9. Buffered'
  BY <1>7 DEF OrderInv, Buffered
<1>10. Carried'
  BY <1>7 DEF OrderInv, Carried
<1>11. Mapped'
  <2>1. \A n, t \in Sessions : t \in members'[n] => Owner[t] = Owner[n]
    BY <1>1, <1>2, <1>3 DEF OrderInv, Mapped, u
  <2>2. ASSUME NEW c \in Consumers
        PROVE  /\ loop'[c].pc \in {"iter", "send"} => Owner[loop'[c].map] = owner'[c]
               /\ loop'[c].pc = "send" => /\ Owner[loop'[c].target] = owner'[c]
                                          /\ loop'[c].target \in loop'[c].visited
    BY <1>7 DEF OrderInv, Mapped
  <2>3. QED
    BY <2>1, <2>2 DEF Mapped
<1>12. OpenRegistered'
  <2> SUFFICES ASSUME NEW t \in Sessions, chan'[t] = "open"
               PROVE  active'[Owner[t]] # None /\ t \in members'[active'[Owner[t]]]
    BY DEF OpenRegistered
  <2>1. CASE t = s
    BY <1>1, <1>2, <1>3, <2>1, SubscriberAssumption DEF u
  <2>2. CASE t # s
    <3>1. /\ Owner[t] \in Users
          /\ active[Owner[t]] # None /\ t \in members[active[Owner[t]]]
      BY <1>4, <2>2, SubscriberAssumption DEF OrderInv, OpenRegistered
    <3>2. active'[Owner[t]] = active[Owner[t]]
      BY <1>1, <1>2, <1>3, <3>1
    <3>3. active[Owner[t]] \in Sessions
      BY <1>1, <3>1
    <3>4. QED
      BY <1>1, <1>2, <3>1, <3>2, <3>3
  <2>3. QED
    BY <2>1, <2>2
<1>13. Received'
  BY <1>4 DEF OrderInv, Received
<1>14. NewerAlone'
  <2> SUFFICES ASSUME NEW t \in Sessions, NEW e \in Consumers,
                      chan'[t] = "open", owner'[e] = Owner[t], Alone(e)'
               PROVE  Newer(t, e)'
    BY DEF NewerAlone
  <2>1. CASE owner'[e] # owner[e] \/ loop[e].pc = "none"
    <3>1. loop'[e].pc \in {"none", "recv"} /\ buf[e] = <<>>
      BY <1>6, <1>7, <2>1
    <3>2. QED
      BY <3>1 DEF Newer, After
  <2>2. CASE owner'[e] = owner[e] /\ loop[e].pc # "none"
    <3>1. owner[e] \in Users /\ owner[e] # None
      BY <2>2, OrderTypes, SubscriberAssumption
    <3>2. Alone(e)
      BY <1>7, <2>2, <3>1 DEF Alone
    <3>3. /\ loop'[e].pc = loop[e].pc /\ loop'[e].map = loop[e].map
          /\ loop'[e].target = loop[e].target /\ loop'[e].msg = loop[e].msg
          /\ loop'[e].visited \in {loop[e].visited, loop[e].visited \cup {s}}
      BY <1>7, <2>2
    <3>4. CASE t # s
      <4>1. Newer(t, e)
        BY <1>4, <2>2, <3>2, <3>4 DEF OrderInv, NewerAlone
      <4>2. t \notin loop'[e].visited => t \notin loop[e].visited
        BY <3>3
      <4>3. QED
        BY <3>3, <4>1, <4>2 DEF Newer
    <3>5. CASE t = s
      <4>1. After(0, buf[e])
        BY <2>2, OrderTypes DEF After
      <4>2. /\ loop[e].pc \in {"lookup", "iter", "send"} => 0 < loop[e].msg
            /\ loop[e].msg \in Nat
        BY <2>2, OrderTypes DEF OrderInv, Carried
      <4>3. got'[t] = 0 /\ buf' = buf
        BY <1>4, <3>5
      <4>4. QED
        BY <3>3, <4>1, <4>2, <4>3 DEF Newer
    <3>6. QED
      BY <3>4, <3>5
  <2>3. QED
    BY <2>1, <2>2
<1>15. QED
  BY <1>8, <1>9, <1>10, <1>11, <1>12, <1>13, <1>14 DEF OrderInv

\* The session joins the consumer of its user, or brings a new one into use.
LEMMA SubscribeOrder ==
    ASSUME OrderInv, IInv', NEW s \in Sessions, Subscribe(s) \/ SubscribeFirst(s)
    PROVE  OrderInv'
<1> DEFINE m == IF active[Owner[s]] = None THEN s ELSE active[Owner[s]]
<1>1. /\ loop \in [Consumers -> LoopType] /\ Owner[s] \in Users
      /\ owner \in [Consumers -> Users \cup {None}]
      /\ link \in [Consumers -> {"none", "consuming", "stopped"}]
  BY SubscriberAssumption DEF OrderInv, IInv, TypeOK
<1>2. /\ session[s] = "new" /\ Join(m, s)
      /\ active' = [active EXCEPT ![Owner[s]] = m]
      /\ UNCHANGED <<got, buf, published>>
  BY DEF Subscribe, SubscribeFirst
<1> HIDE DEF m
<1>3. CASE Subscribe(s)
  <2>1. Skips(m, s, loop) /\ \A c \in Consumers : Started(c, loop)
    BY <1>3 DEF Subscribe, Started, m
  <2>2. QED
    BY <1>1, <1>2, <2>1, JoinOrder DEF m
<1>4. CASE SubscribeFirst(s)
  <2>1. PICK c \in Consumers :
          /\ loop[c].pc = "none"
          /\ owner' = [owner EXCEPT ![c] = Owner[s]]
          /\ link' = [link EXCEPT ![c] = "consuming"]
          /\ Skips(m, s, [loop EXCEPT ![c].pc = "recv"])
    BY <1>4 DEF SubscribeFirst, m
  <2> DEFINE l == [loop EXCEPT ![c].pc = "recv"]
  <2>2. /\ l \in [Consumers -> LoopType] /\ l[c].pc = "recv"
        /\ \A d \in Consumers \ {c} : l[d] = loop[d]
    BY <1>1 DEF LoopType
  <2>3. Skips(m, s, l)
    BY <2>1
  <2> HIDE DEF l
  <2>4. \A d \in Consumers : Started(d, l)
    BY <1>1, <2>1, <2>2 DEF Started
  <2>5. QED
    BY <1>2, <2>2, <2>3, <2>4, JoinOrder DEF m
<1>5. QED
  BY <1>3, <1>4

\* Consumers stop and lose what waits, or most of it; no goroutine moves.
LEMMA LossOrder ==
    ASSUME OrderInv, IInv', UNCHANGED <<got, owner, loop, published>>,
           \A d \in Consumers : /\ Part(buf'[d], buf[d])
                                /\ link[d] = "none" => buf'[d] = buf[d]
                                /\ link'[d] = "none" <=> link[d] = "none",
           \A s \in Sessions : /\ session'[s] = "new" => session[s] = "new" /\ chan'[s] = chan[s]
                               /\ chan'[s] = "open" => chan[s] = "open"
                               /\ chan'[s] = "none" => chan[s] = "none",
           \A m \in Sessions : members'[m] \subseteq members[m],
           OpenRegistered'
    PROVE  OrderInv'
<1>1. ASSUME NEW d \in Consumers
      PROVE  /\ Ascends(buf'[d])
             /\ \A i \in DOMAIN buf'[d] : \E j \in DOMAIN buf[d] : buf'[d][i] = buf[d][j]
  BY OrderTypes, PartAscends
<1>2. Unused' /\ Mapped' /\ Received'
  BY DEF OrderInv, Unused, Mapped, Received
<1>3. Buffered'
  BY <1>1 DEF OrderInv, Buffered
<1>4. Carried'
  BY <1>1 DEF OrderInv, Carried, After
<1>5. NewerAlone'
  <2> SUFFICES ASSUME NEW t \in Sessions, NEW e \in Consumers,
                      chan'[t] = "open", owner[e] = Owner[t], Alone(e)'
               PROVE  Newer(t, e)'
    BY DEF NewerAlone
  <2>1. Alone(e)
    BY DEF Alone
  <2>2. Newer(t, e)
    BY <2>1 DEF OrderInv, NewerAlone
  <2>3. After(got[t], buf'[e])
    BY <1>1, <2>2 DEF Newer, After
  <2>4. QED
    BY <2>2, <2>3 DEF Newer
<1>6. QED
  BY <1>2, <1>3, <1>4, <1>5 DEF OrderInv

\* The session leaves, and if it is the last one the consumer is stopped.
LEMMA UnsubscribeOrder ==
    ASSUME OrderInv, IInv', NEW s \in Sessions, Unsubscribe(s)
    PROVE  OrderInv'
<1> DEFINE u == Owner[s]
           m == active[u]
           c == consumers[u]
<1>1. /\ u \in Users
      /\ active \in [Users -> Sessions \cup {None}]
      /\ members \in [Sessions -> SUBSET Sessions]
      /\ chan \in [Sessions -> {"none", "open", "closed"}]
      /\ session \in [Sessions -> {"new", "select", "writing", "leaving", "gone"}]
      /\ link \in [Consumers -> {"none", "consuming", "stopped"}]
      /\ buf \in [Consumers -> Seq(Nat)]
  BY SubscriberAssumption DEF OrderInv, IInv, TypeOK
<1>2. /\ m # None /\ s \in members[m]
      /\ chan' = [chan EXCEPT ![s] = "closed"]
      /\ members' = [members EXCEPT ![m] = members[m] \ {s}]
      /\ session' = [session EXCEPT ![s] = "gone"]
      /\ UNCHANGED <<got, owner, loop, published>>
      /\ \/ /\ members[m] # {s} /\ UNCHANGED <<active, link, buf>>
         \/ /\ members[m] = {s} /\ active' = [active EXCEPT ![u] = None]
            /\ StopConsumer(c)
  BY DEF Unsubscribe, CloseChan, DeleteMember, DeleteUser
<1>3. m \in Sessions /\ \A v \in Users : active[v] = m => v = u
  <2>1. m \in Sessions
    BY <1>1, <1>2
  <2>2. \A v \in Users : active[v] = m => v = u
    BY <1>1, <1>2, ActiveOwned
  <2>3. QED
    BY <2>1, <2>2
<1> HIDE DEF u, m, c
<1>4. ASSUME NEW d \in Consumers
      PROVE  /\ Part(buf'[d], buf[d])
             /\ link[d] = "none" => buf'[d] = buf[d]
             /\ link'[d] = "none" <=> link[d] = "none"
  <2>1. CASE UNCHANGED <<link, buf>>
    BY <2>1 DEF Part
  <2>2. CASE StopConsumer(c) /\ link[c] = "consuming"
    <3>1. PICK rest \in InHand(c) : buf' = [buf EXCEPT ![c] = rest]
      BY <2>2 DEF StopConsumer
    <3>2. link' = [link EXCEPT ![c] = "stopped"]
      BY <2>2 DEF StopConsumer
    <3>3. CASE d = c
      BY <1>1, <2>2, <3>1, <3>2, <3>3 DEF Part, InHand
    <3>4. CASE d # c
      BY <1>1, <3>1, <3>2, <3>4 DEF Part
    <3>5. QED
      BY <3>3, <3>4
  <2>3. CASE StopConsumer(c) /\ link[c] # "consuming"
    BY <2>3 DEF StopConsumer, Part
  <2>4. QED
    BY <1>2, <2>1, <2>2, <2>3
<1>5. \A t \in Sessions : /\ t # s => chan'[t] = chan[t] /\ session'[t] = session[t]
                          /\ chan'[s] = "closed" /\ session'[s] = "gone"
  BY <1>1, <1>2
<1>6. \A n \in Sessions : members'[n] \subseteq members[n] /\ (n # m => members'[n] = members[n])
  BY <1>1, <1>2
<1>7. OpenRegistered'
  <2> SUFFICES ASSUME NEW t \in Sessions, chan'[t] = "open"
               PROVE  active'[Owner[t]] # None /\ t \in members'[active'[Owner[t]]]
    BY DEF OpenRegistered
  <2>1. t # s /\ chan[t] = "open"
    BY <1>5
  <2>2. /\ Owner[t] \in Users
        /\ active[Owner[t]] # None /\ t \in members[active[Owner[t]]]
    BY <2>1, SubscriberAssumption DEF OrderInv, OpenRegistered
  <2>3. active'[Owner[t]] = active[Owner[t]] /\ active[Owner[t]] \in Sessions
    <3>1. Owner[t] = u => members[m] # {s}
      BY <2>1, <2>2 DEF m
    <3>2. QED
      BY <1>1, <1>2, <2>2, <3>1
  <2>4. t \in members'[active[Owner[t]]]
    BY <1>1, <1>2, <1>3, <2>1, <2>2, <2>3
  <2>5. QED
    BY <2>2, <2>3, <2>4
<1>8. \A t \in Sessions : /\ session'[t] = "new" => session[t] = "new" /\ chan'[t] = chan[t]
                          /\ chan'[t] = "open" => chan[t] = "open"
                          /\ chan'[t] = "none" => chan[t] = "none"
  BY <1>5
<1>9. QED
  BY <1>2, <1>4, <1>6, <1>7, <1>8, LossOrder

\* The connection breaks.
LEMMA DisconnectOrder ==
    ASSUME OrderInv, IInv', Disconnect
    PROVE  OrderInv'
<1>1. /\ link \in [Consumers -> {"none", "consuming", "stopped"}]
      /\ UNCHANGED <<active, members, sessionVars, owner, loop, published>>
  BY DEF OrderInv, IInv, TypeOK, Disconnect
<1>2. PICK keep \in SUBSET {c \in Consumers : buf[c] # <<>> /\ link[c] = "consuming"} :
        buf' = [c \in Consumers |->
                  IF link[c] # "consuming" THEN buf[c]
                  ELSE IF c \in keep THEN <<Head(buf[c])>> ELSE <<>>]
  BY DEF Disconnect
<1>3. link' = [c \in Consumers |-> IF link[c] = "consuming" THEN "stopped" ELSE link[c]]
  BY DEF Disconnect
<1>4. \A d \in Consumers : /\ Part(buf'[d], buf[d])
                           /\ link[d] = "none" => buf'[d] = buf[d]
                           /\ link'[d] = "none" <=> link[d] = "none"
  BY <1>1, <1>2, <1>3 DEF Part
<1>5. OpenRegistered'
  BY <1>1 DEF OrderInv, OpenRegistered, sessionVars
<1>6. QED
  BY <1>1, <1>4, <1>5, LossOrder DEF sessionVars

\* A feed is published: it is newer than all that wait and all that came.
LEMMA PublishOrder ==
    ASSUME OrderInv, IInv', NEW u \in Users, Publish(u)
    PROVE  OrderInv'
<1> DEFINE n == published[u]
<1>1. /\ published \in [Users -> 0..MaxPublish] /\ MaxPublish \in Nat
      /\ buf \in [Consumers -> Seq(Nat)] /\ got \in [Sessions -> Nat] /\ n \in Nat
      /\ owner \in [Consumers -> Users \cup {None}]
  BY SubscriberAssumption DEF OrderInv, IInv, TypeOK
<1>2. /\ UNCHANGED <<active, members, sessionVars, owner, link, loop>>
      /\ published' = [published EXCEPT ![u] = n + 1]
  BY DEF Publish
<1> HIDE DEF n
<1>3. /\ \A v \in Users : published[v] \in Nat /\ published'[v] \in Nat
      /\ \A v \in Users : published[v] <= published'[v]
      /\ published'[u] = n + 1 /\ n = published[u]
  BY <1>1, <1>2 DEF n
<1>4. ASSUME NEW d \in Consumers
      PROVE  \/ buf'[d] = buf[d]
             \/ /\ owner[d] = u /\ link[d] # "none"
                /\ \A i \in DOMAIN buf[d] : buf[d][i] <= n
                /\ buf'[d] = Append(buf[d], n + 1)
  <2>1. CASE UNCHANGED buf
    BY <2>1
  <2>2. ASSUME NEW c \in Consumers, owner[c] = u, link[c] = "consuming",
               buf' = [buf EXCEPT ![c] = Append(@, n + 1)]
        PROVE  \/ buf'[d] = buf[d]
               \/ /\ owner[d] = u /\ link[d] # "none"
                  /\ \A i \in DOMAIN buf[d] : buf[d][i] <= n
                  /\ buf'[d] = Append(buf[d], n + 1)
    <3>1. \A i \in DOMAIN buf[c] : buf[c][i] \in 1..n
      BY <1>3, <2>2 DEF OrderInv, Buffered
    <3>2. QED
      BY <1>1, <2>2, <3>1
  <2>3. QED
    BY <2>1, <2>2 DEF Publish, n
<1>5. ASSUME NEW d \in Consumers
      PROVE  /\ Ascends(buf'[d])
             /\ link[d] = "none" => buf'[d] = buf[d]
             /\ \A i \in DOMAIN buf'[d] :
                  \/ i \in DOMAIN buf[d] /\ buf'[d][i] = buf[d][i]
                  \/ owner[d] = u /\ buf'[d][i] = n + 1
             /\ \A k \in Nat : After(k, buf[d]) /\ (owner[d] = u => k <= n) => After(k, buf'[d])
  <2>1. CASE buf'[d] = buf[d]
    BY <2>1, OrderTypes
  <2>2. CASE /\ owner[d] = u /\ link[d] # "none"
             /\ \A i \in DOMAIN buf[d] : buf[d][i] <= n
             /\ buf'[d] = Append(buf[d], n + 1)
    <3>1. buf[d] \in Seq(Nat) /\ Ascends(buf[d])
      BY OrderTypes
    <3>2. QED
      BY <1>1, <2>2, <3>1, AppendAscends
  <2>3. QED
    BY <1>4, <2>1, <2>2
<1>6. Unused' /\ Mapped' /\ OpenRegistered'
  BY <1>2 DEF OrderInv, Unused, Mapped, OpenRegistered, sessionVars
<1>7. Received'
  <2> SUFFICES ASSUME NEW s \in Sessions
               PROVE  got[s] <= published'[Owner[s]] /\ (chan[s] = "none" => got[s] = 0)
    BY <1>2 DEF Received, sessionVars
  <2>1. Owner[s] \in Users /\ got[s] <= published[Owner[s]] /\ (chan[s] = "none" => got[s] = 0)
    BY SubscriberAssumption DEF OrderInv, Received
  <2>2. QED
    BY <1>1, <1>3, <2>1
<1>8. Buffered'
  <2> SUFFICES ASSUME NEW d \in Consumers
               PROVE  /\ link[d] = "none" => buf'[d] = <<>>
                      /\ link[d] # "none" =>
                           \A i \in DOMAIN buf'[d] : buf'[d][i] \in 1..published'[owner[d]]
                      /\ Ascends(buf'[d])
    BY <1>2 DEF Buffered
  <2>1. /\ link[d] = "none" => buf[d] = <<>>
        /\ link[d] # "none" => \A i \in DOMAIN buf[d] : buf[d][i] \in 1..published[owner[d]]
    BY DEF OrderInv, Buffered
  <2>2. link[d] # "none" => owner[d] \in Users
    BY DEF OrderInv, IInv, LoopsLinked
  <2>3. ASSUME link[d] # "none", NEW i \in DOMAIN buf'[d]
        PROVE  buf'[d][i] \in 1..published'[owner[d]]
    <3>1. published[owner[d]] \in Nat /\ published'[owner[d]] \in Nat
          /\ published[owner[d]] <= published'[owner[d]]
      BY <1>3, <2>2, <2>3
    <3>2. CASE i \in DOMAIN buf[d] /\ buf'[d][i] = buf[d][i]
      BY <2>1, <2>3, <3>1, <3>2
    <3>3. CASE owner[d] = u /\ buf'[d][i] = n + 1
      BY <1>1, <1>3, <3>3
    <3>4. QED
      BY <1>5, <3>2, <3>3
  <2>4. QED
    BY <1>5, <2>1, <2>3
<1>9. Carried'
  <2> SUFFICES ASSUME NEW d \in Consumers, loop[d].pc \in {"lookup", "iter", "send"}
               PROVE  /\ loop[d].msg \in 1..published'[owner[d]]
                      /\ After(loop[d].msg, buf'[d])
    BY <1>2 DEF Carried
  <2>1. /\ owner[d] \in Users /\ loop[d].msg \in Nat
        /\ loop[d].msg \in 1..published[owner[d]] /\ After(loop[d].msg, buf[d])
    BY OrderTypes DEF OrderInv, Carried
  <2>2. /\ published[owner[d]] \in Nat /\ published'[owner[d]] \in Nat
        /\ published[owner[d]] <= published'[owner[d]]
    BY <1>3, <2>1
  <2>3. owner[d] = u => loop[d].msg <= n
    BY <1>3, <2>1
  <2>4. QED
    BY <1>5, <2>1, <2>2, <2>3
<1>10. NewerAlone'
  <2> SUFFICES ASSUME NEW t \in Sessions, NEW e \in Consumers,
                      chan[t] = "open", owner[e] = Owner[t], Alone(e)'
               PROVE  Newer(t, e)'
    BY <1>2 DEF NewerAlone, sessionVars
  <2>1. Alone(e)
    BY <1>2 DEF Alone
  <2>2. Newer(t, e)
    BY <2>1 DEF OrderInv, NewerAlone
  <2>3. owner[e] = u => got[t] <= n
    BY <1>3 DEF OrderInv, Received
  <2>4. After(got[t], buf'[e])
    BY <1>1, <1>5, <2>2, <2>3 DEF Newer
  <2>5. QED
    BY <1>2, <2>2, <2>4 DEF Newer, sessionVars
<1>11. QED
  BY <1>6, <1>7, <1>8, <1>9, <1>10 DEF OrderInv

\* Every step keeps the order.
LEMMA OrderStep == OrderInv /\ [Next]_vars => OrderInv'
<1> SUFFICES ASSUME OrderInv, [Next]_vars
             PROVE  OrderInv'
  OBVIOUS
<1>1. IInv'
  BY IInvStep DEF OrderInv
<1>2. ASSUME NEW s \in Sessions, Subscribe(s) \/ SubscribeFirst(s) \/ Unsubscribe(s)
      PROVE  OrderInv'
  BY <1>1, <1>2, SubscribeOrder, UnsubscribeOrder
<1>3. ASSUME \/ \E s \in Sessions : \/ SubscribeFails(s) \/ Written(s) \/ Leave(s)
                                    \/ UnsubscribeMissing(s) \/ ClientLeaves(s)
             \/ \E c \in Consumers : SendPanics(c)
      PROVE  OrderInv'
  BY <1>1, <1>3, HandlerOrder
<1>4. ASSUME NEW c \in Consumers,
             \/ Receive(c) \/ Lookup(c) \/ NextTarget(c) \/ Send(c) \/ DataEnds(c)
             \/ Cleanup(c)
      PROVE  OrderInv'
  BY <1>1, <1>4, ReceiveOrder, LookupOrder, NextTargetOrder, SendOrder, DataEndsOrder,
     CleanupOrder
<1>5. ASSUME NEW u \in Users, Publish(u)
      PROVE  OrderInv'
  BY <1>1, <1>5, PublishOrder
<1>6. CASE Disconnect
  BY <1>1, <1>6, DisconnectOrder
<1>7. CASE UNCHANGED vars
  BY <1>1, <1>7, IdleOrder DEF vars, sessionVars, consumerVars
<1>8. QED
  BY <1>2, <1>3, <1>4, <1>5, <1>6, <1>7 DEF Next, SessionStep, LoopStep

LEMMA OrderAlways == Spec => []OrderInv
BY OrderInit, OrderStep, PTL DEF Spec

\* Only a send changes what a session has received.
LEMMA GotStep ==
    ASSUME [Next]_vars, NEW s \in Sessions, got'[s] # got[s]
    PROVE  \E c \in Consumers : Send(c)
<1>1. got' # got
  OBVIOUS
<1>2. ASSUME NEW t \in Sessions,
             \/ Subscribe(t) \/ SubscribeFirst(t) \/ SubscribeFails(t) \/ ClientLeaves(t)
             \/ SessionStep(t)
      PROVE  got' = got
  BY <1>2 DEF Subscribe, SubscribeFirst, SubscribeFails, ClientLeaves, SessionStep, Written,
     Leave, UnsubscribeMissing, Unsubscribe
<1>3. ASSUME NEW c \in Consumers, LoopStep(c), ~Send(c)
      PROVE  got' = got
  BY <1>3 DEF LoopStep, Receive, Lookup, NextTarget, SendPanics, DataEnds, Cleanup, sessionVars
<1>4. ASSUME \/ \E u \in Users : Publish(u)
             \/ Disconnect
             \/ UNCHANGED vars
      PROVE  got' = got
  BY <1>4 DEF Publish, Disconnect, vars, sessionVars
<1>5. QED
  BY <1>1, <1>2, <1>3, <1>4 DEF Next

\* While a single consumer of a user is at work, each session of the user
\* receives feeds in the order in which they were published.
THEOREM FeedsInOrder == Spec => InOrder
<1>1. ASSUME OrderInv, [Next]_vars
      PROVE  [\A s \in Sessions, c \in Consumers :
                 got'[s] # got[s] /\ loop[c].target = s /\ loop[c].pc = "send" /\ Alone(c)
                    => got[s] < got'[s]]_vars
  <2> SUFFICES ASSUME NEW s \in Sessions, NEW c \in Consumers,
                      got'[s] # got[s], loop[c].target = s, loop[c].pc = "send", Alone(c)
               PROVE  got[s] < got'[s]
    OBVIOUS
  <2>1. PICK d \in Consumers : Send(d)
    BY <1>1, GotStep
  <2>2. got \in [Sessions -> Nat] /\ loop[d].target \in Sessions /\ loop[d].pc = "send"
    BY <1>1, <2>1, OrderTypes DEF OrderInv, IInv, LoopsLinked, Send
  <2>3. s = loop[d].target /\ got'[s] = loop[d].msg
    BY <2>1, <2>2 DEF Send
  <2>4. owner[d] = Owner[s] /\ owner[c] = Owner[s]
    BY <1>1, <2>2, <2>3 DEF OrderInv, Mapped
  <2>5. d = c
    BY <2>2, <2>4 DEF Alone
  <2>6. Newer(s, c)
    BY <1>1, <2>1, <2>3, <2>4, <2>5 DEF OrderInv, NewerAlone, Send
  <2>7. QED
    BY <2>3, <2>5, <2>6 DEF Newer
<1>2. QED
  BY <1>1, OrderAlways, PTL DEF Spec, InOrder
=============================================================================
