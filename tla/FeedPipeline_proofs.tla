------------------------- MODULE FeedPipeline_proofs -------------------------
(***************************************************************************)
(* What holds of FeedPipeline for any users, friendships, authors, request *)
(* handlers, updaters, readers, replicas, tries, requests and faults: its  *)
(* types, that what a cache holds wrongly once nothing is under way is     *)
(* always the trace of a lost notification or of a bad read, and that the  *)
(* feed sent last is current unless it was overtaken on its way out.       *)
(***************************************************************************)
EXTENDS FeedPipeline, RedisCache_proofs, SequenceTheorems

-----------------------------------------------------------------------------
(* The inductive invariant: what is so of every state. *)

InSeq(s, e) == \E i \in DOMAIN s : s[i] = e

\* The database moves with the requests.
Versions == \A n \in Nodes, u \in Users : db[n].posts[u] <= writes + 1

\* Subscribers are users.
Holds(k, v) == k[1] = subs /\ v # NoValue => v \subseteq Users

\* A call has no value before its read and one when it is about to store it.
CallOk(c) ==
    /\ c.pc # "idle" => Holds(c.key, c.val)
    /\ c.pc \in {"idle", "get", "lock", "load"} => c.val = NoValue
    /\ c.pc = "add" => c.val # NoValue

\* Where an updater with task t is, and the call c it has made.
TaskOk(t, c) ==
    /\ t.stage # "idle" => t.ev \in Event
    /\ t.stage \notin {"subs", "feed"} => c.pc = "idle"
    /\ t.stage = "subs" =>
         /\ c.pc # "idle"
         /\ \/ \E q \in Pairs : t.ev = FriendEvent(q[1], q[2]) /\ c.key = <<subs, q[2]>>
                                    /\ c.pc # "get"
            \/ \E a \in Authors : t.ev = PostEvent(a) /\ c.key = <<subs, a>>
    /\ t.stage = "feed" =>
         /\ c.pc \notin {"idle", "get"}
         /\ \E u \in Users : t.to = {u} /\ c.key = <<feed, u>>

Calls == \A p \in Procs : CallOk(call[p])
Cached == \A k \in Keys : Holds(k, store[k])
Tasks == \A w \in Workers : TaskOk(task[w], call[w])

Base == TypeOK /\ HolderLocks /\ Versions /\ Cached /\ Calls /\ Tasks

-----------------------------------------------------------------------------
(* The inductive invariant: why a cached value may be wrong, while no lock   *)
(* was lost.                                                                 *)

\* The news of e still has to reach an updater.
Waiting(e) ==
    /\ e \in Event
    /\ \/ \E h \in Handlers : handler[h] = e
       \/ \E w \in Workers : InSeq(inbox[w], e)

\* An updater with task t and call c has yet to read the subscribers for e, or
\* has read them and is about to store them.
ReadsSubs(t, c, e) == t.ev = e /\ t.stage = "subs" /\ c.val = NoValue
AddsSubs(t, c, e) == t.ev = e /\ t.stage = "subs" /\ c.pc = "add"

\* Why the subscribers of f may be wrong about u.
SubsDue(e) == Waiting(e) \/ \E w \in Workers : ReadsSubs(task[w], call[w], e)

SubsReason(u, f) ==
    <<subs, f>> \in behind \/ FriendEvent(u, f) \in lost \/ SubsDue(FriendEvent(u, f))

SubsComing(u, f) == \E w \in Workers : AddsSubs(task[w], call[w], FriendEvent(u, f))

RightAbout(v, u, f) == u \in v <=> <<u, f>> \in db[Master].friends

SubsFine(u, f) ==
    /\ store[<<subs, f>>] # NoValue =>
          RightAbout(store[<<subs, f>>], u, f) \/ SubsReason(u, f) \/ SubsComing(u, f)
    /\ \A p \in Procs : call[p].pc = "add" /\ call[p].key = <<subs, f>> =>
          RightAbout(call[p].val, u, f) \/ SubsReason(u, f)

\* The news that concern the feed of u.
NewsOf(u) ==
    {FriendEvent(u, f) : f \in Users} \cup {PostEvent(f) : f \in Friends(Master, u)}

\* An updater with task t and call c will come to the feed of u for e.
WillServe(t, c, e, u) ==
    /\ t.ev = e
    /\ \/ /\ t.stage = "subs"
          /\ c.val = NoValue \/ u \in c.val \/ \E f \in Users : e = FriendEvent(u, f)
       \/ t.stage \in {"fan", "feed"} /\ u \in t.todo

\* It serves the feed of u now, for e.
Serves(t, e, u) == t.ev = e /\ t.stage = "feed" /\ u \in t.to

\* It has yet to read the feed of u, or is about to store it.
ReadsFeed(t, c, e, u) == WillServe(t, c, e, u) \/ (Serves(t, e, u) /\ c.val = NoValue)
AddsFeed(t, c, e, u) == Serves(t, e, u) /\ c.pc = "add"

\* Why the feed of u may be stale.
FeedDue(e, u) == Waiting(e) \/ \E w \in Workers : ReadsFeed(task[w], call[w], e, u)

FeedReason(u) ==
    \/ <<feed, u>> \in behind
    \/ \E f \in Friends(Master, u) : <<subs, f>> \in behind
    \/ \E e \in NewsOf(u) : e \in lost \/ FeedDue(e, u)

FeedComing(u) ==
    \E e \in NewsOf(u) : \E w \in Workers : AddsFeed(task[w], call[w], e, u)

FeedFine(u) ==
    /\ store[<<feed, u>>] # NoValue =>
          store[<<feed, u>>] = FeedOf(Master, u) \/ FeedReason(u) \/ FeedComing(u)
    /\ \A p \in Procs : call[p].pc = "add" /\ call[p].key = <<feed, u>> =>
          call[p].val = FeedOf(Master, u) \/ FeedReason(u)

Explained == \A u \in Users : FeedFine(u) /\ \A f \in Users : SubsFine(u, f)

-----------------------------------------------------------------------------
(* The inductive invariant: why the feed that was sent last may be old,      *)
(* while nothing was disturbed.                                              *)

\* News of u is yet to be taken up, or an updater will come to u for it.
PushDue(u) ==
    \E e \in NewsOf(u) : Waiting(e) \/ \E w \in Workers : WillServe(task[w], call[w], e, u)

\* An updater with task t serves u now; with call c it has yet to read the feed
\* of u, or holds the current one.
Has(t, u) == t.stage = "feed" /\ u \in t.to
Brings(t, c, u) == Has(t, u) /\ c.val \in {NoValue, FeedOf(Master, u)}

\* What v brings is read after what w has in hand was.
Follows(v, w, u) ==
    Brings(task[v], call[v], u) /\ (call[v].val = NoValue \/ w \in older[v])

\* What was sent, and what is about to be: it is the user's feed, or the user's
\* feed is yet to come, or it was overtaken.
PushFine(u) ==
    /\ \/ pushed[u] \in {NoValue, FeedOf(Master, u)}
       \/ PushDue(u) \/ u \in overtaken
       \/ \E v \in Workers : Brings(task[v], call[v], u)
    /\ \A w \in Workers :
         Has(task[w], u) /\ call[w].val # NoValue =>
             \/ call[w].val = FeedOf(Master, u)
             \/ PushDue(u) \/ w \in late
             \/ \E v \in Workers : Follows(v, w, u)

Sent == \A u \in Users : PushFine(u)

IInv ==
    /\ Base
    /\ stolen = {} => Explained
    /\ Undisturbed => Sent

-----------------------------------------------------------------------------
(* Sequences, events and reads. *)

\* The first message leaves an inbox.
LEMMA TailSeq ==
    ASSUME NEW S, NEW s \in Seq(S), s # <<>>
    PROVE  /\ Head(s) \in S /\ Tail(s) \in Seq(S)
           /\ \A e : InSeq(s, e) => e = Head(s) \/ InSeq(Tail(s), e)
<1>1. /\ Len(s) \in Nat \ {0} /\ DOMAIN s = 1..Len(s) /\ Head(s) = s[1]
      /\ Head(s) \in S /\ Tail(s) \in Seq(S)
      /\ DOMAIN Tail(s) = 1..(Len(s) - 1)
      /\ \A n \in 1..(Len(s) - 1) : Tail(s)[n] = s[n + 1]
  BY EmptySeq, HeadTailProperties
<1>2. ASSUME NEW i \in DOMAIN s, i # 1
      PROVE  i - 1 \in DOMAIN Tail(s) /\ Tail(s)[i - 1] = s[i]
  BY <1>1, <1>2
<1>3. QED
  BY <1>1, <1>2 DEF InSeq

\* A message is delivered.
LEMMA AppendSeq ==
    ASSUME NEW S, NEW s \in Seq(S), NEW x \in S
    PROVE  /\ Append(s, x) \in Seq(S)
           /\ InSeq(Append(s, x), x)
           /\ \A e : InSeq(s, e) => InSeq(Append(s, x), e)
<1>1. /\ Len(s) \in Nat /\ DOMAIN s = 1..Len(s) /\ Append(s, x) \in Seq(S)
      /\ DOMAIN Append(s, x) = 1..(Len(s) + 1)
      /\ \A n \in 1..Len(s) : Append(s, x)[n] = s[n]
      /\ Append(s, x)[Len(s) + 1] = x
  BY AppendProperties
<1>2. Len(s) + 1 \in DOMAIN Append(s, x) /\ DOMAIN s \subseteq DOMAIN Append(s, x)
  BY <1>1
<1>3. QED
  BY <1>1, <1>2 DEF InSeq

\* Events of different kinds or about different users are different.
LEMMA EventsDiffer ==
    /\ \A u, f, v, g : FriendEvent(u, f) = FriendEvent(v, g) => u = v /\ f = g
    /\ \A a, b : PostEvent(a) = PostEvent(b) => a = b
    /\ \A u, f, a : FriendEvent(u, f) # PostEvent(a)
    /\ \A u, f : FriendEvent(u, f) # InvalidateEvent
    /\ \A a : PostEvent(a) # InvalidateEvent
BY DEF FriendEvent, PostEvent, InvalidateEvent

\* What kind of event it is.
LEMMA Kinds ==
    ASSUME NEW e \in Event
    PROVE  \/ \E q \in Pairs : /\ e = FriendEvent(q[1], q[2]) /\ q[1] \in Users /\ q[2] \in Users
                               /\ e[1] = "friend" /\ e[2] = q[1] /\ e[3] = q[2]
           \/ \E a \in Authors : e = PostEvent(a) /\ a \in Users /\ e[1] = "post" /\ e[2] = a
           \/ e = InvalidateEvent /\ e[1] = "invalidate"
BY FeedAssumption DEF Event, FriendEvent, PostEvent, InvalidateEvent

\* News are friendships and posts.
LEMMA NewsKinds ==
    ASSUME NEW u \in Users, NEW e \in NewsOf(u)
    PROVE  \/ \E f \in Users : e = FriendEvent(u, f)
           \/ \E f \in Users : e = PostEvent(f) /\ <<u, f>> \in db[Master].friends
BY DEF NewsOf, Friends

LEMMA NewsNotAll ==
    ASSUME NEW u \in Users, NEW e \in NewsOf(u)
    PROVE  e # InvalidateEvent
<1>1. CASE \E f \in Users : e = FriendEvent(u, f)
  BY <1>1, EventsDiffer
<1>2. CASE \E f \in Users : e = PostEvent(f)
  BY <1>2, EventsDiffer
<1>3. QED
  BY <1>1, <1>2, NewsKinds

\* The two caches have different keys.
LEMMA KeysDiffer ==
    /\ \A u \in Users : <<subs, u>> \in Keys /\ <<feed, u>> \in Keys
    /\ \A u, v : <<subs, u>> # <<feed, v>>
    /\ \A u, v : <<subs, u>> = <<subs, v>> => u = v
    /\ \A u, v : <<feed, u>> = <<feed, v>> => u = v
    /\ \A k \in Keys : \E u \in Users : k = <<subs, u>> \/ k = <<feed, u>>
BY FeedAssumption DEF Keys

\* What is read for a key is a value of its cache, and so is a part of it.
LEMMA SourceValue ==
    ASSUME db \in [Nodes -> [friends: SUBSET Pairs, posts: [Users -> 0..MaxWrites + 1]]],
           NEW n \in Nodes, NEW k \in Keys, NEW rows \in SUBSET Source(n, k)
    PROVE  rows \in Values /\ Holds(k, rows) /\ rows # NoValue
<1>1. CASE k[1] = subs
  <2>1. rows \subseteq Users
    BY <1>1 DEF Source, Subscribers
  <2>2. QED
    BY <2>1, FeedAssumption, CacheAssumption DEF Holds
<1>2. CASE k[1] # subs
  <2>1. k[2] \in Users /\ Source(n, k) = FeedOf(n, k[2])
    BY <1>2, FeedAssumption DEF Source, Keys
  <2>2. Source(n, k) \subseteq Users \X (0..MaxWrites + 1)
    <3>1. db[n] \in [friends: SUBSET Pairs, posts: [Users -> 0..MaxWrites + 1]]
      OBVIOUS
    <3>2. \A a \in Users : db[n].posts[a] \in 0..MaxWrites + 1
      BY <3>1
    <3>3. ASSUME NEW x \in FeedOf(n, k[2])
          PROVE  x \in Users \X (0..MaxWrites + 1)
      <4>1. PICK a \in Users : x = <<a, db[n].posts[a]>>
        BY DEF FeedOf, Friends
      <4>2. QED
        BY <3>2, <4>1
    <3>4. QED
      BY <2>1, <3>3
  <2>3. QED
    BY <1>2, <2>2, FeedAssumption, CacheAssumption DEF Holds
<1>3. QED
  BY <1>1, <1>2

-----------------------------------------------------------------------------
(* What the invariant gives. *)

\* When all is quiet only a lost notification or a bad read is left of the
\* reasons why a cached value may be wrong.
LEMMA QuietReasons ==
    ASSUME Quiet, NEW u \in Users
    PROVE  /\ \A f \in Users :
                /\ SubsReason(u, f) => <<subs, f>> \in behind \/ FriendEvent(u, f) \in lost
                /\ ~SubsComing(u, f)
           /\ FeedReason(u) =>
                \/ <<feed, u>> \in behind
                \/ \E f \in Friends(Master, u) : <<subs, f>> \in behind
                \/ \E e \in NewsOf(u) : e \in lost
           /\ ~FeedComing(u)
           /\ ~PushDue(u) /\ \A w \in Workers : ~Brings(task[w], call[w], u)
<1>1. \A w \in Workers : task[w].stage = "idle" /\ \A e : ~InSeq(inbox[w], e)
  BY DEF Quiet, InSeq
<1>2. \A e : ~Waiting(e)
  BY <1>1, EventAssumption DEF Quiet, Waiting
<1>3. /\ \A e : \A w \in Workers : ~ReadsSubs(task[w], call[w], e) /\ ~AddsSubs(task[w], call[w], e)
      /\ \A e : \A w \in Workers : ~ReadsFeed(task[w], call[w], e, u) /\ ~Serves(task[w], e, u)
                                  /\ ~WillServe(task[w], call[w], e, u)
  BY <1>1 DEF ReadsSubs, AddsSubs, ReadsFeed, WillServe, Serves
<1>4. \A f \in Users : /\ SubsReason(u, f) => <<subs, f>> \in behind \/ FriendEvent(u, f) \in lost
                       /\ ~SubsComing(u, f)
  BY <1>2, <1>3 DEF SubsReason, SubsDue, SubsComing
<1>5. FeedReason(u) =>
                \/ <<feed, u>> \in behind
                \/ \E f \in Friends(Master, u) : <<subs, f>> \in behind
                \/ \E e \in NewsOf(u) : e \in lost
  BY <1>2, <1>3 DEF FeedReason, FeedDue
<1>6. ~FeedComing(u) /\ ~PushDue(u) /\ \A w \in Workers : ~Brings(task[w], call[w], u)
  BY <1>1, <1>2, <1>3 DEF FeedComing, AddsFeed, PushDue, Brings, Has
<1>7. QED
  BY <1>4, <1>5, <1>6

\* A feed or subscribers that are right are fresh.
LEMMA RightIsFresh ==
    ASSUME TypeOK, Cached, NEW u \in Users
    PROVE  /\ (\A v \in Users : RightAbout(store[<<subs, u>>], v, u))
                 => Fresh(<<subs, u>>)
           /\ store[<<feed, u>>] = FeedOf(Master, u) => Fresh(<<feed, u>>)
<1>1. Source(Master, <<subs, u>>) = Subscribers(Master, u)
  BY DEF Source
<1>2. Source(Master, <<feed, u>>) = FeedOf(Master, u)
  BY KeysDiffer, FeedAssumption DEF Source
<1>3. ASSUME \A v \in Users : RightAbout(store[<<subs, u>>], v, u)
      PROVE  Fresh(<<subs, u>>)
  <2>1. store[<<subs, u>>] = NoValue \/ store[<<subs, u>>] \subseteq Users
    BY KeysDiffer DEF Cached, Holds
  <2>2. store[<<subs, u>>] \subseteq Users => store[<<subs, u>>] = Subscribers(Master, u)
    BY <1>3 DEF RightAbout, Subscribers
  <2>3. QED
    BY <1>1, <2>1, <2>2 DEF Fresh
<1>4. QED
  BY <1>2, <1>3 DEF Fresh

\* The invariant explains what is stale when all is quiet.
LEMMA IInvExplains == IInv => StaleIsExplained
<1> SUFFICES ASSUME IInv, Quiet, stolen = {}, NEW u \in Users
             PROVE  /\ ~Fresh(<<subs, u>>) =>
                          \/ <<subs, u>> \in behind
                          \/ \E v \in Users : FriendEvent(v, u) \in lost
                    /\ ~Fresh(<<feed, u>>) =>
                          \/ <<feed, u>> \in behind
                          \/ \E f \in Users :
                               \/ FriendEvent(u, f) \in lost
                               \/ f \in Friends(Master, u)
                                     /\ (PostEvent(f) \in lost \/ <<subs, f>> \in behind)
  BY DEF StaleIsExplained
<1>1. TypeOK /\ Cached /\ Explained
  BY DEF IInv, Base
<1>2. ASSUME ~Fresh(<<subs, u>>)
      PROVE  <<subs, u>> \in behind \/ \E v \in Users : FriendEvent(v, u) \in lost
  <2>1. store[<<subs, u>>] # NoValue
    BY <1>2 DEF Fresh
  <2>2. PICK v \in Users : ~RightAbout(store[<<subs, u>>], v, u)
    BY <1>1, <1>2, RightIsFresh
  <2>3. SubsReason(v, u) \/ SubsComing(v, u)
    BY <1>1, <2>1, <2>2 DEF Explained, SubsFine
  <2>4. QED
    BY <2>3, QuietReasons
<1>3. ASSUME ~Fresh(<<feed, u>>)
      PROVE  \/ <<feed, u>> \in behind
             \/ \E f \in Users :
                  \/ FriendEvent(u, f) \in lost
                  \/ f \in Friends(Master, u) /\ (PostEvent(f) \in lost \/ <<subs, f>> \in behind)
  <2>1. store[<<feed, u>>] # NoValue /\ store[<<feed, u>>] # FeedOf(Master, u)
    BY <1>1, <1>3, RightIsFresh DEF Fresh
  <2>2. FeedReason(u)
    BY <1>1, <2>1, QuietReasons DEF Explained, FeedFine
  <2>3. \/ <<feed, u>> \in behind
        \/ \E f \in Friends(Master, u) : <<subs, f>> \in behind
        \/ \E e \in NewsOf(u) : e \in lost
    BY <2>2, QuietReasons
  <2>4. QED
    BY <2>3 DEF NewsOf, Friends
<1>4. QED
  BY <1>2, <1>3

\* Fresh caches are the case without losses and bad reads.
LEMMA ExplainedIsFresh == StaleIsExplained => QuiescentFresh
BY KeysDiffer DEF StaleIsExplained, QuiescentFresh, Undisturbed

\* The invariant of the pushed feeds, when all is quiet.
LEMMA IInvSends == IInv => PushedIsCurrent
BY QuietReasons DEF IInv, Sent, PushFine, PushedIsCurrent

-----------------------------------------------------------------------------
(* The initial state: what is cached is right, and nothing has happened. *)

LEMMA IInvInit == Init => IInv
<1> SUFFICES ASSUME Init
             PROVE  IInv
  OBVIOUS
<1>1. PICK rows \in SUBSET Pairs :
         db = [n \in Nodes |-> [friends |-> rows, posts |-> [u \in Users |-> 1]]]
  BY DEF Init
<1>2. db \in [Nodes -> [friends: SUBSET Pairs, posts: [Users -> 0..MaxWrites + 1]]]
  BY <1>1, FeedAssumption
<1>3. PICK warm \in SUBSET LiveKeys :
         store = [k \in Keys |-> IF k \in warm THEN Source(Master, k) ELSE NoValue]
  BY DEF Init
<1>4. \A k \in Keys : /\ Source(Master, k) \in Values /\ Holds(k, Source(Master, k))
                      /\ store[k] \in {NoValue, Source(Master, k)}
  BY <1>2, <1>3, SourceValue DEF Nodes
<1>5. LockInv
  <2>1. store \in [Keys -> Values \cup {NoValue}]
    BY <1>3, <1>4
  <2>2. Idle \in CallType /\ Idle.pc = "idle"
    BY CacheAssumption DEF Idle, NewCall, CallType, CallPc
  <2>3. QED
    BY <2>1, <2>2, CacheAssumption DEF Init, LockInv, CacheTypeOK, HolderLocks, Loading
<1>6. TypeOK
  <2>1. NoTask \in [stage: Stages, ev: Event \cup {NoEvent},
                    todo: SUBSET Users, to: SUBSET Users]
    BY DEF NoTask, Stages
  <2>2. <<>> \in Seq(Event)
    OBVIOUS
  <2>3. QED
    BY <1>2, <1>5, <2>1, <2>2, FeedAssumption DEF Init, LockInv, TypeOK
<1>7. Versions
  BY <1>1, FeedAssumption DEF Init, Versions
<1>8. Cached /\ Calls /\ Tasks
  <2>1. CallOk(Idle) /\ TaskOk(NoTask, Idle)
    BY DEF CallOk, TaskOk, Idle, NewCall, NoTask
  <2>2. (\A p \in Procs : call[p] = Idle) /\ \A w \in Workers : task[w] = NoTask /\ call[w] = Idle
    BY FeedAssumption DEF Init
  <2>3. Cached
    BY <1>4 DEF Cached, Holds
  <2>4. QED
    BY <2>1, <2>2, <2>3 DEF Calls, Tasks
<1>9. Explained
  <2> SUFFICES ASSUME NEW u \in Users
               PROVE  FeedFine(u) /\ \A f \in Users : SubsFine(u, f)
    BY DEF Explained
  <2>1. \A p \in Procs : call[p].pc # "add"
    BY DEF Init, Idle, NewCall
  <2>2. \A f \in Users : store[<<subs, f>>] \in {NoValue, Subscribers(Master, f)}
    BY <1>4, KeysDiffer DEF Source
  <2>3. store[<<feed, u>>] \in {NoValue, FeedOf(Master, u)}
    BY <1>4, KeysDiffer, FeedAssumption DEF Source
  <2>4. QED
    BY <2>1, <2>2, <2>3 DEF FeedFine, SubsFine, RightAbout, Subscribers
<1>10. Sent
  BY DEF Init, Sent, PushFine, Has, NoTask
<1>11. QED
  BY <1>5, <1>6, <1>7, <1>8, <1>9, <1>10 DEF IInv, Base, LockInv

-----------------------------------------------------------------------------
(* A step keeps the invariant if it keeps its parts where it changes         *)
(* something.                                                                *)

\* What is so of every state.
LEMMA BaseNext ==
    ASSUME Base, LockInv', TypeOK', Versions',
           \A p \in Procs : call'[p] = call[p] \/ CallOk(call'[p]),
           \A w \in Workers : \/ task'[w] = task[w] /\ call'[w] = call[w]
                              \/ TaskOk(task'[w], call'[w]),
           \A k \in Keys : store'[k] = store[k] \/ Holds(k, store'[k])
    PROVE  Base'
<1>1. Calls' /\ Cached' /\ Tasks'
  BY DEF Base, Calls, Cached, Tasks, Holds
<1>2. QED
  BY <1>1 DEF Base, LockInv

\* A reason lasts; a reason or a value about to be stored stays one of the two.
SubsLasts(u, f) ==
    /\ SubsReason(u, f) => SubsReason(u, f)'
    /\ SubsComing(u, f) => SubsReason(u, f)' \/ SubsComing(u, f)'

FeedLasts(u) ==
    /\ FeedReason(u) => FeedReason(u)'
    /\ FeedComing(u) => FeedReason(u)' \/ FeedComing(u)'

\* No value is stored in k, and none is about to be that was not.
CalmFor(k) ==
    /\ store'[k] \in {store[k], NoValue}
    /\ \A q \in Procs : call'[q].pc = "add" /\ call'[q].key = k => call'[q] = call[q]

LEMMA SubsCalm ==
    ASSUME NEW u \in Users, NEW f \in Users, SubsFine(u, f),
           <<u, f>> \in db'[Master].friends <=> <<u, f>> \in db[Master].friends,
           CalmFor(<<subs, f>>), SubsLasts(u, f)
    PROVE  SubsFine(u, f)'
BY DEF SubsFine, CalmFor, SubsLasts, RightAbout

LEMMA FeedCalm ==
    ASSUME NEW u \in Users, FeedFine(u), FeedOf(Master, u)' = FeedOf(Master, u),
           CalmFor(<<feed, u>>), FeedLasts(u)
    PROVE  FeedFine(u)'
BY DEF FeedFine, CalmFor, FeedLasts

-----------------------------------------------------------------------------
(* Steps that leave the database alone. *)

\* Losses and bad reads stay on record, and waiting news is taken up by an
\* updater or lost.  An invalidation is no news of anybody.
Goes ==
    /\ db'[Master] = db[Master]
    /\ lost \subseteq lost' /\ behind \subseteq behind'
    /\ \A e : Waiting(e) /\ e # InvalidateEvent => e \in lost' \/ SubsDue(e)'

\* An updater whose task and call stay what they are.
Still(w) == task'[w] = task[w] /\ call'[w] = call[w]

\* An updater that goes on with what it had to do, as far as the subscribers of
\* f and u, or the feed of u, are concerned.
KeepsSubs(w, u, f) ==
    LET e == FriendEvent(u, f) IN
    /\ ReadsSubs(task[w], call[w], e) => SubsReason(u, f)'
    /\ AddsSubs(task[w], call[w], e) => SubsReason(u, f)' \/ SubsComing(u, f)'

KeepsFeed(w, u) ==
    \A e \in NewsOf(u) :
        /\ ReadsFeed(task[w], call[w], e, u) => FeedReason(u)'
        /\ AddsFeed(task[w], call[w], e, u) => FeedReason(u)' \/ FeedComing(u)'

Keeps(w) == \A u \in Users : KeepsFeed(w, u) /\ \A f \in Users : KeepsSubs(w, u, f)

LEMMA SameFeed ==
    ASSUME db'[Master] = db[Master], NEW u
    PROVE  /\ FeedOf(Master, u)' = FeedOf(Master, u) /\ Friends(Master, u)' = Friends(Master, u)
           /\ NewsOf(u)' = NewsOf(u)
BY DEF FeedOf, Friends, NewsOf

\* News that the subscribers are to be read for is due for the feeds as well.
LEMMA DueForFeed == ASSUME NEW e, NEW u PROVE SubsDue(e)' => FeedDue(e, u)'
BY DEF SubsDue, FeedDue, ReadsSubs, ReadsFeed, WillServe

LEMMA StillKeeps ==
    ASSUME db'[Master] = db[Master], NEW w \in Workers, Still(w)
    PROVE  Keeps(w)
<1> SUFFICES ASSUME NEW u \in Users
             PROVE  KeepsFeed(w, u) /\ \A f \in Users : KeepsSubs(w, u, f)
  BY DEF Keeps
<1>1. KeepsFeed(w, u)
  BY SameFeed DEF KeepsFeed, FeedReason, FeedDue, FeedComing, Still
<1>2. QED
  BY <1>1 DEF KeepsSubs, SubsReason, SubsDue, SubsComing, Still

LEMMA SubsGoOn ==
    ASSUME Goes, NEW u \in Users, NEW f \in Users, \A w \in Workers : KeepsSubs(w, u, f)
    PROVE  SubsLasts(u, f)
BY EventsDiffer DEF Goes, SubsLasts, KeepsSubs, SubsReason, SubsDue, SubsComing

LEMMA FeedGoesOn ==
    ASSUME Goes, NEW u \in Users, \A w \in Workers : KeepsFeed(w, u)
    PROVE  FeedLasts(u)
<1>1. NewsOf(u)' = NewsOf(u) /\ Friends(Master, u)' = Friends(Master, u)
  BY SameFeed DEF Goes
<1>2. ASSUME FeedReason(u)
      PROVE  FeedReason(u)'
  <2>1. ASSUME NEW e \in NewsOf(u), Waiting(e)
        PROVE  FeedReason(u)'
    BY <1>1, <2>1, DueForFeed, NewsNotAll DEF Goes, FeedReason
  <2>2. ASSUME NEW e \in NewsOf(u), FeedDue(e, u)
        PROVE  FeedReason(u)'
    BY <2>1, <2>2 DEF FeedDue, KeepsFeed
  <2>3. QED
    BY <1>1, <1>2, <2>2 DEF FeedReason, Goes
<1>3. FeedComing(u) => FeedReason(u)' \/ FeedComing(u)'
  BY DEF FeedComing, KeepsFeed
<1>4. QED
  BY <1>2, <1>3 DEF FeedLasts

\* A step that stores nothing and reads nothing.
LEMMA CalmStep ==
    ASSUME Explained, Goes, \A k \in Keys : CalmFor(k), \A w \in Workers : Keeps(w)
    PROVE  Explained'
<1> SUFFICES ASSUME NEW u \in Users
             PROVE  FeedFine(u)' /\ \A f \in Users : SubsFine(u, f)'
  BY DEF Explained
<1>1. FeedFine(u)'
  BY FeedCalm, FeedGoesOn, SameFeed, KeysDiffer DEF Explained, Goes, Keeps
<1>2. ASSUME NEW f \in Users
      PROVE  SubsFine(u, f)'
  BY SubsCalm, SubsGoOn, KeysDiffer DEF Explained, Goes, Keeps
<1>3. QED
  BY <1>1, <1>2

-----------------------------------------------------------------------------
(* The same of what is sent.                                                 *)

\* An updater that goes on with what it had to send: it comes to the users it
\* had to come to, and may only lose the feed it has in hand.
SendsOn(w) ==
    \A u \in Users :
        /\ \A e \in NewsOf(u) : WillServe(task[w], call[w], e, u) =>
              PushDue(u)' \/ (Has(task'[w], u) /\ call'[w].val = NoValue)
        /\ Has(task[w], u) => Has(task'[w], u) /\ call'[w].val \in {call[w].val, NoValue}
        /\ Has(task'[w], u) /\ call'[w].val # NoValue =>
              Has(task[w], u) /\ call'[w].val = call[w].val

\* News goes on waiting, or is lost.
Waits == \A e : Waiting(e) => e \in lost' \/ Waiting(e)'

LEMMA StillSendsOn ==
    ASSUME db'[Master] = db[Master], NEW w \in Workers, Still(w)
    PROVE  SendsOn(w)
BY SameFeed DEF Still, SendsOn, PushDue

\* What is due stays due, or is being read.
LEMMA DueGoesOn ==
    ASSUME NEW u \in Users, db'[Master] = db[Master], Waits, lost' = {},
           \A w \in Workers : SendsOn(w), PushDue(u)
    PROVE  PushDue(u)' \/ \E v \in Workers : Has(task'[v], u) /\ call'[v].val = NoValue
<1>1. NewsOf(u)' = NewsOf(u)
  BY SameFeed
<1>2. \A e \in NewsOf(u) : Waiting(e) => PushDue(u)'
  BY <1>1 DEF Waits, PushDue
<1>3. PICK e \in NewsOf(u) : Waiting(e) \/ \E w \in Workers : WillServe(task[w], call[w], e, u)
  BY DEF PushDue
<1>4. CASE Waiting(e)
  BY <1>2, <1>4
<1>5. CASE \E w \in Workers : WillServe(task[w], call[w], e, u)
  BY <1>5 DEF SendsOn
<1>6. QED
  BY <1>3, <1>4, <1>5

LEMMA PushCalm ==
    ASSUME NEW u \in Users, PushFine(u), db'[Master] = db[Master], Waits, lost' = {},
           pushed'[u] = pushed[u], UNCHANGED sendVars, \A w \in Workers : SendsOn(w)
    PROVE  PushFine(u)'
<1>1. FeedOf(Master, u)' = FeedOf(Master, u) /\ UNCHANGED <<older, late, overtaken>>
  BY SameFeed DEF sendVars
<1>2. PushDue(u) =>
         \/ PushDue(u)'
         \/ \E v \in Workers : Brings(task[v], call[v], u)' /\ call'[v].val = NoValue
  BY DueGoesOn DEF Brings
<1>3. \A v \in Workers :
         /\ Brings(task[v], call[v], u) => Brings(task[v], call[v], u)'
         /\ \A w \in Workers : Follows(v, w, u) => Follows(v, w, u)'
  BY <1>1 DEF SendsOn, Brings, Follows
<1>4. \/ pushed'[u] \in {NoValue, FeedOf(Master, u)'}
      \/ PushDue(u)' \/ u \in overtaken'
      \/ \E v \in Workers : Brings(task[v], call[v], u)'
  BY <1>1, <1>2, <1>3 DEF PushFine
<1>5. ASSUME NEW w \in Workers, Has(task'[w], u), call'[w].val # NoValue
      PROVE  \/ call'[w].val = FeedOf(Master, u)'
             \/ PushDue(u)' \/ w \in late'
             \/ \E v \in Workers : Follows(v, w, u)'
  <2>1. Has(task[w], u) /\ call'[w].val = call[w].val
    BY <1>5 DEF SendsOn
  <2>2. \/ call[w].val = FeedOf(Master, u)
        \/ PushDue(u) \/ w \in late
        \/ \E v \in Workers : Follows(v, w, u)
    BY <1>5, <2>1 DEF PushFine
  <2>3. PushDue(u) => PushDue(u)' \/ \E v \in Workers : Follows(v, w, u)'
    BY <1>2 DEF Follows
  <2>4. QED
    BY <1>1, <1>3, <2>1, <2>2, <2>3
<1>6. QED
  BY <1>4, <1>5 DEF PushFine

\* A step that stores nothing, reads nothing and sends nothing.
LEMMA IInvCalm ==
    ASSUME IInv, Base', Goes, Waits, stolen \subseteq stolen', pushed' = pushed,
           \A k \in Keys : CalmFor(k),
           stolen' = {} => \A w \in Workers : Keeps(w),
           Undisturbed' => UNCHANGED sendVars /\ \A w \in Workers : SendsOn(w)
    PROVE  IInv'
<1>1. stolen' = {} => Explained'
  BY CalmStep DEF IInv
<1>2. ASSUME Undisturbed'
      PROVE  Sent'
  <2>1. Undisturbed
    BY <1>2 DEF Goes, Undisturbed
  <2>2. QED
    BY <1>2, <2>1, PushCalm DEF IInv, Sent, Undisturbed, Goes
<1>3. QED
  BY <1>1, <1>2 DEF IInv

\* So is one of a reader, of a request handler, of the database or of Redis: no
\* updater moves.
LEMMA IInvStill ==
    ASSUME IInv, Base', Goes, Waits, stolen \subseteq stolen', pushed' = pushed,
           UNCHANGED sendVars, \A k \in Keys : CalmFor(k), \A w \in Workers : Still(w)
    PROVE  IInv'
BY IInvCalm, StillKeeps, StillSendsOn DEF Goes

\* And one of an updater alone.
LEMMA IInvMove ==
    ASSUME IInv, Base', Goes, Waits, stolen \subseteq stolen', pushed' = pushed,
           \A k \in Keys : CalmFor(k),
           NEW w \in Workers, \A v \in Workers \ {w} : Still(v),
           stolen' = {} => Keeps(w),
           Undisturbed' => UNCHANGED sendVars /\ SendsOn(w)
    PROVE  IInv'
<1>1. db'[Master] = db[Master]
  BY DEF Goes
<1>2. stolen' = {} => \A v \in Workers : Keeps(v)
  BY <1>1, StillKeeps
<1>3. Undisturbed' => \A v \in Workers : SendsOn(v)
  BY <1>1, StillSendsOn
<1>4. QED
  BY <1>2, <1>3, IInvCalm

\* News waits as long as no handler and no inbox changes.
LEMMA SameWaiting ==
    ASSUME UNCHANGED <<handler, inbox>>
    PROVE  Waits /\ \A e : Waiting(e) => Waiting(e)'
BY DEF Waits, Waiting

LEMMA WaitsGoes ==
    ASSUME Waits, db'[Master] = db[Master], lost \subseteq lost', behind \subseteq behind'
    PROVE  Goes
BY DEF Waits, Goes, SubsDue

-----------------------------------------------------------------------------
(* Request handlers and replication. *)

\* Nothing happens in Redis.
LEMMA LockSame == LockInv /\ UNCHANGED cacheVars => LockInv'
BY DEF LockInv, CacheTypeOK, HolderLocks, Loading, cacheVars

\* A change is committed and its news is in the hands of the handler: whatever
\* it makes stale waits for that news.
LEMMA RequestKeeps ==
    ASSUME IInv, NEW h \in Handlers, NEW x \in Event, Request(h, x),
           db' \in [Nodes -> [friends: SUBSET Pairs, posts: [Users -> 0..MaxWrites + 1]]],
           Versions',
           \A u \in Users : \/ x \in NewsOf(u)'
                            \/ /\ Friends(Master, u)' = Friends(Master, u)
                               /\ FeedOf(Master, u)' = FeedOf(Master, u),
           \A u, f \in Users :
               \/ x = FriendEvent(u, f)
               \/ <<u, f>> \in db'[Master].friends <=> <<u, f>> \in db[Master].friends
    PROVE  IInv'
<1>1. /\ UNCHANGED <<cacheVars, inbox, task, pushed, lost, behind, older, late, overtaken>>
      /\ UNCHANGED <<store, lock, call, stolen, faults>>
      /\ handler' \in [Handlers -> Event \cup {NoEvent}]
      /\ writes' \in 0..MaxWrites
      /\ handler[h] = NoEvent /\ handler' = [handler EXCEPT ![h] = x]
  BY FeedAssumption DEF IInv, Base, TypeOK, Request, cacheVars, sendVars
<1>2. Waiting(x)' /\ \A e : Waiting(e) => Waiting(e)'
  <2>1. handler'[h] = x /\ \A g \in Handlers \ {h} : handler'[g] = handler[g]
    BY <1>1 DEF IInv, Base, TypeOK
  <2>2. QED
    BY <1>1, <2>1, EventAssumption DEF Waiting
<1>3. Base'
  <2>1. LockInv'
    BY <1>1, LockSame DEF IInv, Base, TypeOK, LockInv
  <2>2. TypeOK'
    BY <1>1, <2>1 DEF IInv, Base, TypeOK, LockInv
  <2>3. QED
    BY <1>1, <2>1, <2>2, BaseNext DEF IInv
<1>4. ASSUME Explained
      PROVE  Explained'
  <2> SUFFICES ASSUME NEW u \in Users
               PROVE  FeedFine(u)' /\ \A f \in Users : SubsFine(u, f)'
    BY DEF Explained
  <2>1. ASSUME NEW f \in Users
        PROVE  SubsFine(u, f)'
    <3>1. SubsReason(u, f) => SubsReason(u, f)'
      BY <1>1, <1>2 DEF SubsReason, SubsDue
    <3>2. SubsComing(u, f) => SubsComing(u, f)'
      BY <1>1 DEF SubsComing
    <3>3. CASE x = FriendEvent(u, f)
      BY <1>2, <3>3 DEF SubsFine, SubsReason, SubsDue
    <3>4. CASE <<u, f>> \in db'[Master].friends <=> <<u, f>> \in db[Master].friends
      BY <1>1, <1>4, <3>1, <3>2, <3>4, SubsCalm DEF Explained, SubsLasts, CalmFor
    <3>5. QED
      BY <3>3, <3>4
  <2>2. FeedFine(u)'
    <3>1. CASE x \in NewsOf(u)'
      BY <1>2, <3>1 DEF FeedFine, FeedReason, FeedDue
    <3>2. CASE Friends(Master, u)' = Friends(Master, u) /\ FeedOf(Master, u)' = FeedOf(Master, u)
      <4>1. NewsOf(u)' = NewsOf(u)
        BY <3>2 DEF NewsOf
      <4>2. FeedReason(u) => FeedReason(u)'
        BY <1>1, <1>2, <3>2, <4>1 DEF FeedReason, FeedDue
      <4>3. FeedComing(u) => FeedComing(u)'
        BY <1>1, <4>1 DEF FeedComing
      <4>4. QED
        BY <1>1, <1>4, <3>2, <4>2, <4>3, FeedCalm DEF Explained, FeedLasts, CalmFor
    <3>3. QED
      BY <3>1, <3>2
  <2>3. QED
    BY <2>1, <2>2
<1>5. ASSUME Sent
      PROVE  Sent'
  <2> SUFFICES ASSUME NEW u \in Users
               PROVE  PushFine(u)'
    BY DEF Sent
  <2>1. CASE x \in NewsOf(u)'
    BY <1>2, <2>1 DEF PushFine, PushDue
  <2>2. CASE Friends(Master, u)' = Friends(Master, u) /\ FeedOf(Master, u)' = FeedOf(Master, u)
    <3>1. NewsOf(u)' = NewsOf(u)
      BY <2>2 DEF NewsOf
    <3>2. PushDue(u) => PushDue(u)'
      BY <1>1, <1>2, <3>1 DEF PushDue
    <3>3. \A v, w \in Workers :
             /\ Brings(task[v], call[v], u)' <=> Brings(task[v], call[v], u)
             /\ Follows(v, w, u)' <=> Follows(v, w, u)
      BY <1>1, <2>2 DEF Brings, Follows
    <3>4. PushFine(u)
      BY <1>5 DEF Sent
    <3>5. QED
      BY <1>1, <2>2, <3>2, <3>3, <3>4 DEF PushFine
  <2>3. QED
    BY <2>1, <2>2
<1>6. QED
  BY <1>1, <1>3, <1>4, <1>5 DEF IInv, Undisturbed

\* A friendship is set or deleted.
LEMMA FriendKeeps ==
    ASSUME IInv, NEW h \in Handlers, NEW q \in Pairs,
           AddFriend(h, q[1], q[2]) \/ DeleteFriend(h, q[1], q[2])
    PROVE  IInv'
<1> DEFINE x == FriendEvent(q[1], q[2])
<1>1. /\ q[1] \in Users /\ q[2] \in Users /\ q = <<q[1], q[2]>> /\ x \in Event
      /\ db \in [Nodes -> [friends: SUBSET Pairs, posts: [Users -> 0..MaxWrites + 1]]]
      /\ Master \in Nodes
  BY FeedAssumption DEF IInv, Base, TypeOK, Nodes, Event
<1>2. Request(h, x)
  BY DEF AddFriend, DeleteFriend
<1>3. PICK rows \in SUBSET Pairs :
         /\ db' = [db EXCEPT ![Master].friends = rows]
         /\ \A u, f \in Users :
              <<u, f>> # q => (<<u, f>> \in rows <=> <<u, f>> \in db[Master].friends)
  <2>1. CASE AddFriend(h, q[1], q[2])
    <3>1. db[Master].friends \cup {q} \in SUBSET Pairs
      BY <1>1
    <3>2. db' = [db EXCEPT ![Master].friends = db[Master].friends \cup {q}]
      BY <1>1, <2>1 DEF AddFriend
    <3>3. QED
      BY <3>1, <3>2
  <2>2. CASE DeleteFriend(h, q[1], q[2])
    <3>1. db[Master].friends \ {q} \in SUBSET Pairs
      BY <1>1
    <3>2. db' = [db EXCEPT ![Master].friends = db[Master].friends \ {q}]
      BY <1>1, <2>2 DEF DeleteFriend
    <3>3. QED
      BY <3>1, <3>2
  <2>3. QED
    BY <2>1, <2>2
<1>4. /\ db' \in [Nodes -> [friends: SUBSET Pairs, posts: [Users -> 0..MaxWrites + 1]]]
      /\ \A n \in Nodes : db'[n].posts = db[n].posts
      /\ db'[Master].friends = rows
  BY <1>1, <1>3
<1>5. Versions'
  <2>1. writes' = writes + 1 /\ writes \in Nat
    BY <1>2, FeedAssumption DEF Request, IInv, Base, TypeOK
  <2>2. \A n \in Nodes, u \in Users : db[n].posts[u] \in Nat /\ db[n].posts[u] <= writes + 1
    <3>1. \A n \in Nodes : db[n].posts \in [Users -> 0..MaxWrites + 1]
      BY <1>1
    <3>2. QED
      BY <3>1, FeedAssumption DEF IInv, Base, Versions
  <2>3. QED
    BY <1>4, <2>1, <2>2 DEF Versions
<1>6. ASSUME NEW u \in Users
      PROVE  \/ x \in NewsOf(u)'
             \/ /\ Friends(Master, u)' = Friends(Master, u)
                /\ FeedOf(Master, u)' = FeedOf(Master, u)
  <2>1. CASE u = q[1]
    BY <1>1, <2>1 DEF NewsOf
  <2>2. CASE u # q[1]
    <3>1. \A f \in Users : <<u, f>> # q
      BY <1>1, <2>2
    <3>2. Friends(Master, u)' = Friends(Master, u)
      BY <1>3, <1>4, <3>1 DEF Friends
    <3>3. FeedOf(Master, u)' = FeedOf(Master, u)
      BY <1>1, <1>4, <3>2 DEF FeedOf
    <3>4. QED
      BY <3>2, <3>3
  <2>3. QED
    BY <2>1, <2>2
<1>7. \A u, f \in Users :
          \/ x = FriendEvent(u, f)
          \/ <<u, f>> \in db'[Master].friends <=> <<u, f>> \in db[Master].friends
  <2> SUFFICES ASSUME NEW u \in Users, NEW f \in Users, x # FriendEvent(u, f)
               PROVE  <<u, f>> \in rows <=> <<u, f>> \in db[Master].friends
    BY <1>4
  <2>1. <<u, f>> # q
    OBVIOUS
  <2>2. QED
    BY <1>3, <2>1
<1> HIDE DEF x
<1>8. QED
  BY <1>1, <1>2, <1>4, <1>5, <1>6, <1>7, RequestKeeps

\* The posts of a user change.
LEMMA PostKeeps ==
    ASSUME IInv, NEW h \in Handlers, NEW a \in Authors, ChangePost(h, a)
    PROVE  IInv'
<1> DEFINE x == PostEvent(a)
           n0 == db[Master].posts[a]
<1>1. /\ a \in Users /\ x \in Event
      /\ db \in [Nodes -> [friends: SUBSET Pairs, posts: [Users -> 0..MaxWrites + 1]]]
      /\ Master \in Nodes /\ writes \in Nat /\ MaxWrites \in Nat
  BY FeedAssumption DEF IInv, Base, TypeOK, Nodes, Event
<1>2. Request(h, x) /\ writes' = writes + 1 /\ writes < MaxWrites
  BY DEF ChangePost, Request
<1>3. \A n \in Nodes : db[n].posts \in [Users -> 0..MaxWrites + 1]
  BY <1>1
<1>4. /\ n0 \in Nat /\ n0 <= writes + 1
      /\ \A n \in Nodes, u \in Users : db[n].posts[u] \in Nat /\ db[n].posts[u] <= writes + 1
  BY <1>1, <1>3 DEF IInv, Base, Versions
<1>5. db' = [db EXCEPT ![Master].posts[a] = n0 + 1]
  BY DEF ChangePost
<1>6. n0 + 1 \in 0..MaxWrites + 1
  BY <1>1, <1>2, <1>4
<1>7. /\ db' \in [Nodes -> [friends: SUBSET Pairs, posts: [Users -> 0..MaxWrites + 1]]]
      /\ \A n \in Nodes : db'[n].friends = db[n].friends
      /\ db'[Master].posts[a] = n0 + 1
      /\ \A n \in Nodes, u \in Users :
           n # Master \/ u # a => db'[n].posts[u] = db[n].posts[u]
  BY <1>1, <1>3, <1>5, <1>6
<1>8. Versions'
  <2> SUFFICES ASSUME NEW n \in Nodes, NEW u \in Users
               PROVE  db'[n].posts[u] <= writes' + 1
    BY DEF Versions
  <2>1. CASE n = Master /\ u = a
    BY <1>1, <1>2, <1>4, <1>7, <2>1
  <2>2. CASE n # Master \/ u # a
    <3>1. db'[n].posts[u] = db[n].posts[u]
      BY <1>7, <2>2
    <3>2. QED
      BY <1>1, <1>2, <1>4, <3>1
  <2>3. QED
    BY <2>1, <2>2
<1>9. ASSUME NEW u \in Users
      PROVE  \/ x \in NewsOf(u)'
             \/ /\ Friends(Master, u)' = Friends(Master, u)
                /\ FeedOf(Master, u)' = FeedOf(Master, u)
  <2>1. Friends(Master, u)' = Friends(Master, u)
    BY <1>1, <1>7 DEF Friends
  <2>2. CASE a \in Friends(Master, u)
    BY <2>1, <2>2 DEF NewsOf
  <2>3. CASE a \notin Friends(Master, u)
    <3>1. \A f \in Friends(Master, u) : db'[Master].posts[f] = db[Master].posts[f]
      BY <1>1, <1>7, <2>3 DEF Friends
    <3>2. FeedOf(Master, u)' = FeedOf(Master, u)
      BY <2>1, <3>1 DEF FeedOf
    <3>3. QED
      BY <2>1, <3>2
  <2>4. QED
    BY <2>2, <2>3
<1>10. db'[Master].friends = db[Master].friends
  BY <1>1, <1>7
<1> HIDE DEF x, n0
<1>11. QED
  BY <1>1, <1>2, <1>7, <1>8, <1>9, <1>10, RequestKeeps

\* The caches are to be invalidated.
LEMMA InvalidationKeeps ==
    ASSUME IInv, NEW h \in Handlers, RequestInvalidation(h)
    PROVE  IInv'
<1>1. Request(h, InvalidateEvent) /\ InvalidateEvent \in Event /\ UNCHANGED db
  BY DEF RequestInvalidation, Event
<1>2. /\ db \in [Nodes -> [friends: SUBSET Pairs, posts: [Users -> 0..MaxWrites + 1]]]
      /\ writes \in Nat /\ MaxWrites \in Nat /\ writes' = writes + 1
  BY <1>1, FeedAssumption DEF IInv, Base, TypeOK, Request
<1>3. Versions'
  <2>1. \A n \in Nodes : db[n].posts \in [Users -> 0..MaxWrites + 1]
    BY <1>2
  <2>2. \A n \in Nodes, u \in Users : db[n].posts[u] \in Nat
    BY <1>2, <2>1
  <2>3. QED
    BY <1>1, <1>2, <2>2 DEF IInv, Base, Versions
<1>4. \A u \in Users : Friends(Master, u)' = Friends(Master, u)
                          /\ FeedOf(Master, u)' = FeedOf(Master, u)
  BY <1>1 DEF Friends, FeedOf
<1>5. QED
  BY <1>1, <1>2, <1>3, <1>4, RequestKeeps

\* No call changes and no value is stored.
LEMMA QuietRedis ==
    ASSUME UNCHANGED call, \A k \in Keys : store'[k] \in {store[k], NoValue}
    PROVE  \A k \in Keys : CalmFor(k)
BY DEF CalmFor

\* The news is delivered to an updater.
LEMMA PublishKeeps ==
    ASSUME IInv, NEW h \in Handlers, NEW w \in Workers, Publish(h, w)
    PROVE  IInv'
<1> DEFINE x == handler[h]
<1>1. /\ x \in Event /\ inbox \in [Workers -> Seq(Event)]
      /\ inbox' = [inbox EXCEPT ![w] = Append(inbox[w], x)]
      /\ handler \in [Handlers -> Event \cup {NoEvent}]
      /\ handler' = [handler EXCEPT ![h] = NoEvent]
      /\ UNCHANGED <<cacheVars, db, task, pushed, lost, behind, writes, sendVars>>
      /\ UNCHANGED <<store, lock, call, stolen, faults>>
  BY DEF Publish, IInv, Base, TypeOK, cacheVars
<1> HIDE DEF x
<1>2. /\ Append(inbox[w], x) \in Seq(Event)
      /\ InSeq(Append(inbox[w], x), x)
      /\ \A e : InSeq(inbox[w], e) => InSeq(Append(inbox[w], x), e)
  BY <1>1, AppendSeq
<1>3. inbox'[w] = Append(inbox[w], x) /\ \A v \in Workers \ {w} : inbox'[v] = inbox[v]
  BY <1>1
<1>4. Waits
  <2>1. ASSUME NEW e, NEW g \in Handlers, handler[g] = e
        PROVE  \/ \E i \in Handlers : handler'[i] = e
               \/ \E v \in Workers : InSeq(inbox'[v], e)
    <3>1. CASE g = h
      BY <1>2, <1>3, <2>1, <3>1 DEF x
    <3>2. CASE g # h
      BY <1>1, <2>1, <3>2
    <3>3. QED
      BY <3>1, <3>2
  <2>2. ASSUME NEW e, NEW v \in Workers, InSeq(inbox[v], e)
        PROVE  InSeq(inbox'[v], e)
    BY <1>2, <1>3, <2>2
  <2>3. QED
    BY <2>1, <2>2 DEF Waits, Waiting
<1>5. Goes
  BY <1>1, <1>4, WaitsGoes
<1>6. Base'
  <2>1. LockInv'
    BY <1>1, LockSame DEF IInv, Base, TypeOK, LockInv
  <2>2. inbox' \in [Workers -> Seq(Event)] /\ handler' \in [Handlers -> Event \cup {NoEvent}]
    BY <1>1, <1>2
  <2>3. TypeOK'
    BY <1>1, <2>1, <2>2 DEF IInv, Base, TypeOK, LockInv, sendVars
  <2>4. Versions'
    BY <1>1 DEF IInv, Base, Versions
  <2>5. QED
    BY <1>1, <2>1, <2>3, <2>4, BaseNext DEF IInv
<1>7. (\A k \in Keys : CalmFor(k)) /\ \A v \in Workers : Still(v)
  BY <1>1, QuietRedis DEF Still
<1>8. QED
  BY <1>1, <1>4, <1>5, <1>6, <1>7, IInvStill

\* The publication fails: the news is lost.
LEMMA PublishFailsKeeps ==
    ASSUME IInv, NEW h \in Handlers, PublishFails(h)
    PROVE  IInv'
<1> DEFINE x == handler[h]
<1>1. /\ x \in Event /\ lost' = lost \cup {x}
      /\ handler \in [Handlers -> Event \cup {NoEvent}]
      /\ handler' = [handler EXCEPT ![h] = NoEvent]
      /\ UNCHANGED <<store, lock, call, stolen, db, inbox, task, pushed, behind, writes, sendVars>>
      /\ Fault
  BY DEF PublishFails, IInv, Base, TypeOK
<1> HIDE DEF x
<1>2. Waits
  <2>1. ASSUME NEW e, NEW g \in Handlers, handler[g] = e
        PROVE  e \in lost' \/ \E i \in Handlers : handler'[i] = e
    BY <1>1, <2>1 DEF x
  <2>2. QED
    BY <1>1, <2>1 DEF Waits, Waiting
<1>3. Goes
  BY <1>1, <1>2, WaitsGoes
<1>4. Base'
  <2>1. LockInv'
    <3>1. faults' \in 0..MaxFaults
      BY <1>1, FaultBound DEF IInv, Base, TypeOK
    <3>2. QED
      BY <1>1, <3>1 DEF IInv, Base, TypeOK, LockInv, CacheTypeOK, HolderLocks, Loading
  <2>2. TypeOK'
    BY <1>1, <2>1 DEF IInv, Base, TypeOK, LockInv, sendVars
  <2>3. Versions'
    BY <1>1 DEF IInv, Base, Versions
  <2>4. QED
    BY <1>1, <2>1, <2>2, <2>3, BaseNext DEF IInv
<1>5. (\A k \in Keys : CalmFor(k)) /\ \A v \in Workers : Still(v)
  BY <1>1, QuietRedis DEF Still
<1>6. QED
  BY <1>1, <1>2, <1>3, <1>4, <1>5, IInvStill

\* A replica catches up: the master is not touched.
LEMMA ReplicateKeeps ==
    ASSUME IInv, NEW r \in Replicas, Replicate(r)
    PROVE  IInv'
<1>1. /\ db \in [Nodes -> [friends: SUBSET Pairs, posts: [Users -> 0..MaxWrites + 1]]]
      /\ r \in Nodes /\ Master \in Nodes /\ r # Master
      /\ db' = [db EXCEPT ![r] = db[Master]]
      /\ UNCHANGED <<cacheVars, handler, inbox, task, pushed, lost, behind, writes, sendVars>>
      /\ UNCHANGED <<store, lock, call, stolen, faults>>
  BY FeedAssumption DEF Replicate, Nodes, IInv, Base, TypeOK, cacheVars
<1>2. /\ db' \in [Nodes -> [friends: SUBSET Pairs, posts: [Users -> 0..MaxWrites + 1]]]
      /\ db'[Master] = db[Master]
      /\ \A n \in Nodes : db'[n] \in {db[n], db[Master]}
  BY <1>1
<1>3. Waits /\ Goes
  BY <1>1, <1>2, SameWaiting, WaitsGoes
<1>4. Base'
  <2>1. LockInv'
    BY <1>1, LockSame DEF IInv, Base, TypeOK, LockInv
  <2>2. TypeOK'
    BY <1>1, <1>2, <2>1 DEF IInv, Base, TypeOK, LockInv, sendVars
  <2>3. Versions'
    BY <1>1, <1>2 DEF IInv, Base, Versions
  <2>4. QED
    BY <1>1, <2>1, <2>2, <2>3, BaseNext DEF IInv
<1>5. (\A k \in Keys : CalmFor(k)) /\ \A v \in Workers : Still(v)
  BY <1>1, QuietRedis DEF Still
<1>6. QED
  BY <1>1, <1>3, <1>4, <1>5, IInvStill

-----------------------------------------------------------------------------
(* The steps of an updater between its calls. *)

TaskType ==
    [stage: Stages, ev: Event \cup {NoEvent}, todo: SUBSET Users, to: SUBSET Users]

\* Only the task of w becomes t.
OnlyTask(w, t) ==
    /\ task' \in [Workers -> TaskType]
    /\ task'[w] = t
    /\ \A v \in Workers \ {w} : task'[v] = task[v]

LEMMA TaskSet ==
    ASSUME TypeOK, NEW w \in Workers, NEW t \in TaskType, task' = [task EXCEPT ![w] = t]
    PROVE  OnlyTask(w, t)
BY DEF TypeOK, TaskType, OnlyTask

\* The fields of a task are as typed.
LEMMA TaskFields ==
    ASSUME TypeOK, NEW w \in Workers
    PROVE  /\ task[w] \in TaskType
           /\ task[w].stage \in Stages /\ task[w].ev \in Event \cup {NoEvent}
           /\ task[w].todo \in SUBSET Users /\ task[w].to \in SUBSET Users
           /\ NoTask \in TaskType
           /\ NoTask.stage = "idle"
           /\ w \in Procs
BY FeedAssumption DEF TypeOK, TaskType, NoTask, Stages

\* An updater that has nothing to reload goes on to a stage without a feed.
LEMMA NothingToDo ==
    ASSUME NEW w \in Workers, task[w].stage \notin {"subs", "feed"},
           task[w].stage = "fan" => task[w].todo = {},
           task'[w].stage # "feed"
    PROVE  Keeps(w) /\ SendsOn(w)
BY DEF Keeps, KeepsSubs, KeepsFeed, ReadsSubs, AddsSubs, ReadsFeed, AddsFeed, WillServe, Serves,
       SendsOn, Has

\* The invariant when the task of w changes while it is in no call.
LEMMA CalllessKeeps ==
    ASSUME IInv, NEW w \in Workers, NEW t \in TaskType, OnlyTask(w, t),
           task[w].stage \notin {"subs", "feed"},
           task[w].stage = "fan" => task[w].todo = {},
           t.stage \notin {"subs", "feed"},
           t.stage # "idle" => t.ev \in Event,
           LockInv', UNCHANGED <<call, db, handler, inbox, pushed, behind, writes, sendVars>>,
           stolen \subseteq stolen',
           \A k \in Keys : store'[k] \in {store[k], NoValue},
           lost \subseteq lost', lost' \subseteq Event \cup {PushEvent(u) : u \in Users}
    PROVE  IInv'
<1>1. TypeOK /\ TaskOk(task[w], call[w])
  BY DEF IInv, Base, Tasks
<1>2. Waits /\ Goes
  BY SameWaiting, WaitsGoes
<1>3. TaskOk(t, call[w])
  BY <1>1 DEF TaskOk
<1>4. Base'
  <2>1. TypeOK'
    BY <1>1 DEF TypeOK, LockInv, OnlyTask, TaskType, sendVars
  <2>2. Versions'
    BY DEF IInv, Base, Versions
  <2>3. \A k \in Keys : store'[k] = store[k] \/ Holds(k, store'[k])
    BY DEF Holds
  <2>4. QED
    BY <1>3, <2>1, <2>2, <2>3, BaseNext DEF IInv, OnlyTask
<1>5. \A k \in Keys : CalmFor(k)
  BY QuietRedis
<1>6. (\A v \in Workers \ {w} : Still(v)) /\ Keeps(w) /\ SendsOn(w)
  BY NothingToDo DEF OnlyTask, Still
<1>7. QED
  BY <1>2, <1>4, <1>5, <1>6, IInvMove

\* All feeds the event concerns have been reloaded.
LEMMA DoneKeeps ==
    ASSUME IInv, NEW w \in Workers, Done(w)
    PROVE  IInv'
<1>1. TypeOK
  BY DEF IInv, Base
<1>2. OnlyTask(w, NoTask)
  BY <1>1, TaskSet, TaskFields DEF Done
<1>3. LockInv'
  BY LockSame DEF Done, IInv, Base, TypeOK, LockInv
<1>4. QED
  BY <1>1, <1>2, <1>3, TaskFields, CalllessKeeps DEF Done, cacheVars, TypeOK

\* A cache is flushed, or the flush fails.
LEMMA FlushKeeps ==
    ASSUME IInv, NEW w \in Workers, FlushSubs(w) \/ FlushFeed(w) \/ FlushFails(w)
    PROVE  IInv'
<1>1. /\ TypeOK /\ LockInv /\ task[w].stage \in {"flushSubs", "flushFeed"}
      /\ task[w].ev \in Event
  BY DEF IInv, Base, TypeOK, LockInv, Tasks, TaskOk, FlushSubs, FlushFeed, FlushFails
<1>2. CASE FlushSubs(w) \/ FlushFeed(w)
  <2>1. PICK c \in Caches : FlushDB(c)
    BY <1>2, FeedAssumption DEF FlushSubs, FlushFeed
  <2>2. LockInv'
    BY <1>1, <2>1, FlushStep
  <2>3. /\ UNCHANGED <<call, db, handler, inbox, pushed, behind, writes, lost, sendVars>>
        /\ stolen \subseteq stolen'
        /\ \A k \in Keys : store'[k] \in {store[k], NoValue}
    BY <1>2, <2>1 DEF FlushDB, FlushSubs, FlushFeed
  <2>4. PICK t \in TaskType : /\ OnlyTask(w, t)
                              /\ t.stage \in {"idle", "flushFeed"}
                              /\ t.stage # "idle" => t.ev \in Event
    <3>1. CASE FlushSubs(w)
      <4> DEFINE t == [task[w] EXCEPT !.stage = "flushFeed"]
      <4>1. task' = [task EXCEPT ![w] = t] /\ t \in TaskType /\ t.stage = "flushFeed"
            /\ t.ev = task[w].ev
        BY <1>1, <3>1, TaskFields DEF FlushSubs, TypeOK, TaskType, Stages
      <4> HIDE DEF t
      <4>2. OnlyTask(w, t)
        BY <1>1, <4>1, TaskSet
      <4>3. QED
        BY <1>1, <4>1, <4>2
    <3>2. CASE FlushFeed(w)
      BY <1>1, <3>2, TaskSet, TaskFields DEF FlushFeed
    <3>3. QED
      BY <1>2, <3>1, <3>2
  <2>5. QED
    BY <1>1, <2>2, <2>3, <2>4, CalllessKeeps DEF TypeOK
<1>3. CASE FlushFails(w)
  <2>1. OnlyTask(w, NoTask)
    BY <1>1, <1>3, TaskSet, TaskFields DEF FlushFails
  <2>2. LockInv'
    <3>1. faults' \in 0..MaxFaults
      BY <1>1, <1>3, FaultBound DEF FlushFails, TypeOK
    <3>2. QED
      BY <1>1, <1>3, <3>1 DEF FlushFails, LockInv, CacheTypeOK, HolderLocks, Loading
  <2>3. lost \subseteq lost' /\ lost' \subseteq Event \cup {PushEvent(u) : u \in Users}
    BY <1>1, <1>3 DEF FlushFails, TypeOK
  <2>4. QED
    BY <1>1, <1>3, <2>1, <2>2, <2>3, TaskFields, CalllessKeeps DEF FlushFails
<1>4. QED
  BY <1>2, <1>3

-----------------------------------------------------------------------------
(* A call that moves but is not about to store a value.                      *)

LEMMA OthersCalm ==
    ASSUME NEW p \in Procs, NEW c, OnlyCall(p, c), c.pc # "add",
           \A k \in Keys : store'[k] \in {store[k], NoValue}
    PROVE  \A k \in Keys : CalmFor(k)
BY DEF OnlyCall, CalmFor

\* The call of a reader: no updater moves.
LEMMA ReaderKeeps ==
    ASSUME IInv, NEW r \in Readers, NEW c, OnlyCall(r, c), CallOk(c), c.pc # "add",
           LockInv', stolen \subseteq stolen',
           \A k \in Keys : store'[k] \in {store[k], NoValue},
           UNCHANGED feedVars
    PROVE  IInv'
<1>1. r \in Procs /\ r \notin Workers /\ Workers \subseteq Procs
  BY FeedAssumption
<1>2. UNCHANGED <<db, handler, inbox, task, pushed, lost, behind, writes, sendVars>>
  BY DEF feedVars
<1>3. Waits /\ Goes
  BY <1>2, SameWaiting, WaitsGoes
<1>4. \A v \in Workers : Still(v)
  BY <1>1, <1>2 DEF Still, OnlyCall
<1>5. Base'
  <2>1. TypeOK'
    BY <1>2 DEF IInv, Base, TypeOK, LockInv, sendVars
  <2>2. Versions'
    BY <1>2 DEF IInv, Base, Versions
  <2>3. \A p \in Procs : call'[p] = call[p] \/ CallOk(call'[p])
    BY DEF OnlyCall
  <2>4. \A k \in Keys : store'[k] = store[k] \/ Holds(k, store'[k])
    BY DEF Holds
  <2>5. QED
    BY <1>4, <2>1, <2>2, <2>3, <2>4, BaseNext DEF IInv, Still
<1>6. \A k \in Keys : CalmFor(k)
  BY <1>1, OthersCalm
<1>7. QED
  BY <1>2, <1>3, <1>4, <1>5, <1>6, IInvStill

\* The call of an updater, with its task.
LEMMA UpdaterBase ==
    ASSUME IInv, NEW w \in Workers, NEW c, NEW t,
           OnlyCall(w, c), OnlyTask(w, t), CallOk(c), TaskOk(t, c),
           LockInv', \A k \in Keys : store'[k] \in {store[k], NoValue},
           UNCHANGED <<db, handler, writes>>,
           inbox' \in [Workers -> Seq(Event)], pushed' \in [Users -> Values \cup {NoValue}],
           lost' \subseteq Event \cup {PushEvent(u) : u \in Users}, behind' \subseteq Keys,
           older' \in [Workers -> SUBSET Workers], late' \subseteq Workers,
           overtaken' \subseteq Users
    PROVE  Base' /\ \A v \in Workers \ {w} : Still(v)
<1>1. \A v \in Workers \ {w} : Still(v)
  BY FeedAssumption DEF Still, OnlyCall, OnlyTask
<1>2. TypeOK'
  BY DEF IInv, Base, TypeOK, LockInv, OnlyTask, TaskType
<1>3. Versions'
  BY DEF IInv, Base, Versions
<1>4. \A k \in Keys : store'[k] = store[k] \/ Holds(k, store'[k])
  BY DEF Holds
<1>5. (\A p \in Procs : call'[p] = call[p] \/ CallOk(call'[p])) /\ TaskOk(task'[w], call'[w])
  BY FeedAssumption DEF OnlyCall, OnlyTask
<1>6. Base'
  BY <1>1, <1>2, <1>3, <1>4, <1>5, BaseNext DEF IInv, Still
<1>7. QED
  BY <1>1, <1>6

LEMMA UpdaterKeeps ==
    ASSUME IInv, NEW w \in Workers, NEW c, NEW t,
           OnlyCall(w, c), OnlyTask(w, t), CallOk(c), TaskOk(t, c), c.pc # "add",
           LockInv', stolen \subseteq stolen',
           \A k \in Keys : store'[k] \in {store[k], NoValue},
           UNCHANGED <<db, handler, pushed, behind, writes>>,
           inbox' \in [Workers -> Seq(Event)], Waits,
           lost \subseteq lost', lost' \subseteq Event \cup {PushEvent(u) : u \in Users},
           older' \in [Workers -> SUBSET Workers], late' \subseteq Workers,
           overtaken' \subseteq Users,
           stolen' = {} => Keeps(w),
           Undisturbed' => UNCHANGED sendVars /\ SendsOn(w)
    PROVE  IInv'
<1>1. pushed' \in [Users -> Values \cup {NoValue}] /\ behind' \subseteq Keys
  BY DEF IInv, Base, TypeOK
<1>2. Base' /\ \A v \in Workers \ {w} : Still(v)
  BY <1>1, UpdaterBase
<1>3. \A k \in Keys : CalmFor(k)
  BY FeedAssumption, OthersCalm
<1>4. Goes
  BY WaitsGoes
<1>5. QED
  BY <1>2, <1>3, <1>4, IInvMove

\* No call is a good call, and so is a new one.
LEMMA NewCallOk ==
    /\ CallOk(Idle) /\ Idle.pc = "idle"
    /\ \A k \in Keys, pc \in {"get", "lock"} :
         /\ CallOk(NewCall(pc, k)) /\ NewCall(pc, k).pc = pc /\ NewCall(pc, k).key = k
         /\ NewCall(pc, k).val = NoValue
BY DEF CallOk, Idle, NewCall, Holds

\* A reader asks, and has its answer.
LEMMA AskKeeps ==
    ASSUME IInv, NEW r \in Readers, NEW u \in Users, Ask(r, u) \/ Answer(r)
    PROVE  IInv'
<1>1. /\ LockInv /\ call \in [Procs -> CallType] /\ r \in Procs /\ faults \in 0..MaxFaults
      /\ <<feed, u>> \in Keys
  BY FeedAssumption, KeysDiffer DEF IInv, Base, TypeOK, LockInv, CacheTypeOK
<1>2. CASE Ask(r, u)
  <2>1. LockInv'
    BY <1>1, <1>2, StartStep DEF Ask
  <2>2. OnlyCall(r, NewCall("get", <<feed, u>>))
    BY <1>1, <1>2, StartCall DEF Ask, StartGetOrLoad, CallPc
  <2>3. QED
    BY <1>1, <1>2, <2>1, <2>2, NewCallOk, ReaderKeeps DEF Ask
<1>3. CASE Answer(r)
  <2>1. LockInv'
    BY <1>1, <1>3, ResetStep DEF Answer
  <2>2. OnlyCall(r, Idle)
    BY <1>1, <1>3, ResetCall DEF Answer
  <2>3. QED
    BY <1>1, <1>3, <2>1, <2>2, NewCallOk, ReaderKeeps DEF Answer
<1>4. QED
  BY <1>2, <1>3

\* A value or a lock expires.
LEMMA ExpireKeeps ==
    ASSUME IInv, NEW k \in Keys, Expire(k)
    PROVE  IInv'
<1>1. /\ UNCHANGED <<call, db, handler, inbox, task, pushed, lost, behind, writes, sendVars>>
      /\ stolen \subseteq stolen'
      /\ \A j \in Keys : store'[j] \in {store[j], NoValue}
  <2>1. store \in [Keys -> Values \cup {NoValue}]
    BY DEF IInv, Base, TypeOK, CacheTypeOK
  <2>2. QED
    BY <2>1 DEF Expire, ExpireValue, ExpireLock, feedVars
<1>2. LockInv'
  BY ExpireStep DEF Expire, IInv, Base, TypeOK, LockInv
<1>3. Waits /\ Goes
  BY <1>1, SameWaiting, WaitsGoes
<1>4. (\A j \in Keys : CalmFor(j)) /\ \A v \in Workers : Still(v)
  BY <1>1, QuietRedis DEF Still
<1>5. Base'
  <2>1. TypeOK'
    BY <1>1, <1>2 DEF IInv, Base, TypeOK, LockInv, sendVars
  <2>2. Versions'
    BY <1>1 DEF IInv, Base, Versions
  <2>3. \A j \in Keys : store'[j] = store[j] \/ Holds(j, store'[j])
    BY <1>1 DEF Holds
  <2>4. QED
    BY <1>1, <1>2, <2>1, <2>2, <2>3, BaseNext DEF IInv
<1>6. QED
  BY <1>1, <1>3, <1>4, <1>5, IInvStill

-----------------------------------------------------------------------------
(* The steps of an updater that start a call or take its result.             *)

\* What an updater drops is lost: that is reason enough.
LEMMA DroppedKeeps ==
    ASSUME NEW w \in Workers, db'[Master] = db[Master],
           task[w].stage # "idle" => task[w].ev \in lost'
    PROVE  Keeps(w)
<1> SUFFICES ASSUME NEW u \in Users
             PROVE  KeepsFeed(w, u) /\ \A f \in Users : KeepsSubs(w, u, f)
  BY DEF Keeps
<1>1. KeepsFeed(w, u)
  BY SameFeed DEF KeepsFeed, ReadsFeed, AddsFeed, WillServe, Serves, FeedReason
<1>2. QED
  BY <1>1 DEF KeepsSubs, ReadsSubs, AddsSubs, SubsReason

\* The fan-out of an event goes on without the user just served.
LEMMA TaskServed ==
    ASSUME TypeOK, NEW w \in Workers, task' = [task EXCEPT ![w].stage = "fan", ![w].to = {}]
    PROVE  /\ OnlyTask(w, task'[w])
           /\ task'[w].stage = "fan" /\ task'[w].ev = task[w].ev
           /\ task'[w].todo = task[w].todo /\ task'[w].to = {}
<1>1. task \in [Workers -> TaskType] /\ task[w] \in TaskType
  BY DEF TypeOK, TaskType
<1>2. /\ task'[w] \in TaskType
      /\ task'[w].stage = "fan" /\ task'[w].ev = task[w].ev
      /\ task'[w].todo = task[w].todo /\ task'[w].to = {}
      /\ \A v \in Workers \ {w} : task'[v] = task[v]
  BY <1>1 DEF TaskType, Stages
<1>3. task' \in [Workers -> TaskType]
  BY <1>1, <1>2
<1>4. QED
  BY <1>2, <1>3 DEF OnlyTask

\* The result of the call is taken.
LEMMA TakeResult ==
    ASSUME IInv, NEW p \in Procs, Reset(p), UNCHANGED <<store, lock, stolen>>,
           faults' = faults \/ Fault
    PROVE  /\ LockInv' /\ OnlyCall(p, Idle)
           /\ stolen \subseteq stolen' /\ \A k \in Keys : store'[k] \in {store[k], NoValue}
<1>1. LockInv /\ call \in [Procs -> CallType] /\ faults \in 0..MaxFaults
  BY DEF IInv, Base, TypeOK, LockInv, CacheTypeOK
<1>2. faults' \in 0..MaxFaults
  BY <1>1, FaultBound DEF LockInv
<1>3. QED
  BY <1>1, <1>2, ResetStep, ResetCall

\* Histories stay typed when an updater lets go of its feed.
LEMMA ReleaseTyped ==
    ASSUME TypeOK, NEW w \in Workers, NEW passed \in SUBSET Workers, Release(w, passed)
    PROVE  older' \in [Workers -> SUBSET Workers] /\ late' \subseteq Workers
BY DEF TypeOK, Release

\* The instance of an updater dies.
LEMMA CrashKeeps ==
    ASSUME IInv, NEW w \in Workers, Crash(w)
    PROVE  IInv'
<1>1. /\ TypeOK /\ w \in Procs /\ TaskOk(task[w], call[w])
      /\ inbox[w] \in Seq(Event) /\ inbox \in [Workers -> Seq(Event)]
      /\ <<>> \in Seq(Event)
  <2>1. TypeOK /\ w \in Procs /\ TaskOk(task[w], call[w])
    BY FeedAssumption DEF IInv, Base, Tasks
  <2>2. inbox \in [Workers -> Seq(Event)]
    BY <2>1 DEF TypeOK
  <2>3. inbox[w] \in Seq(Event) /\ <<>> \in Seq(Event)
    BY <2>2
  <2>4. QED
    BY <2>1, <2>2, <2>3
<1>2. /\ LockInv' /\ OnlyCall(w, Idle)
      /\ stolen \subseteq stolen' /\ \A k \in Keys : store'[k] \in {store[k], NoValue}
  BY <1>1, TakeResult DEF Crash
<1>3. OnlyTask(w, NoTask) /\ NoTask.stage = "idle"
  BY <1>1, TaskSet, TaskFields DEF Crash
<1>4. TaskOk(NoTask, Idle)
  BY <1>3, NewCallOk DEF TaskOk
<1>5. /\ lost' = lost \cup {inbox[w][i] : i \in DOMAIN inbox[w]} \cup ({task[w].ev} \ {NoEvent})
      /\ inbox' = [inbox EXCEPT ![w] = <<>>]
      /\ UNCHANGED <<db, handler, pushed, behind, writes>>
      /\ older' \in [Workers -> SUBSET Workers] /\ late' \subseteq Workers
      /\ overtaken' \subseteq Users
  BY <1>1, ReleaseTyped DEF Crash, TypeOK
<1>6. /\ inbox' \in [Workers -> Seq(Event)]
      /\ \A v \in Workers \ {w} : inbox'[v] = inbox[v]
      /\ \A e : InSeq(inbox[w], e) => e \in lost'
  BY <1>1, <1>5 DEF InSeq
<1>7. Waits
  BY <1>5, <1>6 DEF Waits, Waiting
<1>8. lost \subseteq lost' /\ lost' \subseteq Event \cup {PushEvent(u) : u \in Users}
  <2>1. {inbox[w][i] : i \in DOMAIN inbox[w]} \subseteq Event
    BY <1>1
  <2>2. task[w].ev \in Event \cup {NoEvent}
    BY <1>1, TaskFields
  <2>3. QED
    BY <1>1, <1>5, <2>1, <2>2 DEF TypeOK
<1>9. task[w].stage # "idle" => task[w].ev \in lost'
  BY <1>1, <1>5, EventAssumption DEF TaskOk
<1>10. Keeps(w)
  BY <1>5, <1>9, DroppedKeeps
<1>11. lost' # {}
  <2>1. CASE task[w].stage # "idle"
    BY <1>9, <2>1
  <2>2. CASE inbox[w] # <<>>
    <3>1. 1 \in DOMAIN inbox[w]
      BY <1>1, <2>2, EmptySeq
    <3>2. QED
      BY <1>6, <3>1 DEF InSeq
  <2>3. QED
    BY <2>1, <2>2 DEF Crash
<1>12. QED
  BY <1>2, <1>3, <1>4, <1>5, <1>6, <1>7, <1>8, <1>10, <1>11, NewCallOk, UpdaterKeeps
     DEF Undisturbed

\* A reload fails: the event is dropped, or one of its feeds is.
LEMMA NoResultKeeps ==
    ASSUME IInv, NEW w \in Workers, NoSubs(w) \/ NoFeed(w)
    PROVE  IInv'
<1>1. /\ TypeOK /\ w \in Procs /\ TaskOk(task[w], call[w]) /\ inbox \in [Workers -> Seq(Event)]
      /\ task[w].stage \in {"subs", "feed"} /\ task[w].ev \in Event
  BY FeedAssumption DEF IInv, Base, TypeOK, Tasks, TaskOk, NoSubs, NoFeed
<1>2. /\ lost' = lost \cup {task[w].ev}
      /\ UNCHANGED <<store, lock, stolen, faults, db, handler, inbox, pushed, behind, writes>>
      /\ Reset(w)
      /\ older' \in [Workers -> SUBSET Workers] /\ late' \subseteq Workers
      /\ overtaken' \subseteq Users
  BY <1>1, ReleaseTyped DEF NoSubs, NoFeed, TypeOK, sendVars
<1>3. /\ LockInv' /\ OnlyCall(w, Idle)
      /\ stolen \subseteq stolen' /\ \A k \in Keys : store'[k] \in {store[k], NoValue}
  BY <1>1, <1>2, TakeResult
<1> DEFINE t == task'[w]
<1>4. OnlyTask(w, t) /\ t.stage \in {"idle", "fan"} /\ (t.stage # "idle" => t.ev \in Event)
  <2>1. CASE NoSubs(w)
    BY <1>1, <2>1, TaskSet, TaskFields DEF NoSubs, OnlyTask
  <2>2. CASE NoFeed(w)
    BY <1>1, <2>2, TaskServed DEF NoFeed
  <2>3. QED
    BY <2>1, <2>2
<1>5. TaskOk(t, Idle)
  BY <1>4, NewCallOk DEF TaskOk
<1>6. Waits
  BY <1>2, SameWaiting
<1>7. Keeps(w)
  BY <1>2, DroppedKeeps
<1>8. /\ lost \subseteq lost' /\ lost' \subseteq Event \cup {PushEvent(u) : u \in Users}
      /\ lost' # {} /\ inbox' \in [Workers -> Seq(Event)]
  BY <1>1, <1>2 DEF TypeOK
<1>9. QED
  BY <1>2, <1>3, <1>4, <1>5, <1>6, <1>7, <1>8, NewCallOk, UpdaterKeeps DEF Undisturbed

\* The feed was reloaded; the rest of the fan-out is still to come.
LEMMA ServedKeeps ==
    ASSUME NEW w \in Workers, db'[Master] = db[Master],
           task[w].stage = "feed", call[w].val # NoValue, call[w].pc = "return",
           task'[w].stage = "fan", task'[w].ev = task[w].ev, task'[w].todo = task[w].todo
    PROVE  Keeps(w)
<1> SUFFICES ASSUME NEW u \in Users
             PROVE  KeepsFeed(w, u) /\ \A f \in Users : KeepsSubs(w, u, f)
  BY DEF Keeps
<1>1. ASSUME NEW e \in NewsOf(u), ReadsFeed(task[w], call[w], e, u)
      PROVE  FeedReason(u)'
  <2>1. ReadsFeed(task'[w], call'[w], e, u)
    BY <1>1 DEF ReadsFeed, WillServe, Serves
  <2>2. e \in NewsOf(u)'
    BY SameFeed
  <2>3. QED
    BY <2>1, <2>2 DEF FeedReason, FeedDue
<1>2. QED
  BY <1>1 DEF KeepsFeed, AddsFeed, KeepsSubs, ReadsSubs, AddsSubs

\* The feed was reloaded and could not be sent.
LEMMA SendFailsKeeps ==
    ASSUME IInv, NEW w \in Workers, SendFails(w)
    PROVE  IInv'
<1>1. /\ TypeOK /\ w \in Procs /\ TaskOk(task[w], call[w]) /\ inbox \in [Workers -> Seq(Event)]
      /\ task[w].ev \in Event
  BY FeedAssumption DEF IInv, Base, TypeOK, Tasks, TaskOk, SendFails
<1>2. /\ task[w].stage = "feed" /\ call[w].val # NoValue /\ call[w].pc = "return"
      /\ lost' = lost \cup {PushEvent(u) : u \in task[w].to}
      /\ UNCHANGED <<store, lock, stolen, db, handler, inbox, pushed, behind, writes>>
      /\ Reset(w) /\ Fault
      /\ task' = [task EXCEPT ![w].stage = "fan", ![w].to = {}]
      /\ older' \in [Workers -> SUBSET Workers] /\ late' \subseteq Workers
      /\ overtaken' \subseteq Users
  BY <1>1, ReleaseTyped DEF SendFails, TypeOK
<1>3. /\ LockInv' /\ OnlyCall(w, Idle)
      /\ stolen \subseteq stolen' /\ \A k \in Keys : store'[k] \in {store[k], NoValue}
  BY <1>1, <1>2, TakeResult
<1> DEFINE t == task'[w]
<1>4. /\ OnlyTask(w, t) /\ t.stage = "fan" /\ t.ev = task[w].ev /\ t.todo = task[w].todo
  BY <1>1, <1>2, TaskServed
<1>5. TaskOk(t, Idle)
  BY <1>1, <1>4, NewCallOk DEF TaskOk
<1>6. Waits
  BY <1>2, SameWaiting
<1>7. Keeps(w)
  BY <1>2, <1>4, ServedKeeps
<1>8. /\ lost \subseteq lost' /\ lost' \subseteq Event \cup {PushEvent(u) : u \in Users}
      /\ lost' # {} /\ inbox' \in [Workers -> Seq(Event)]
  <2>1. PICK u \in Users : task[w].to = {u}
    BY <1>1, <1>2 DEF TaskOk
  <2>2. PushEvent(u) \in {PushEvent(v) : v \in Users} /\ lost' = lost \cup {PushEvent(u)}
    BY <1>2, <2>1
  <2>3. QED
    BY <1>1, <1>2, <2>2 DEF TypeOK
<1>9. QED
  BY <1>2, <1>3, <1>4, <1>5, <1>6, <1>7, <1>8, NewCallOk, UpdaterKeeps DEF Undisturbed

\* An updater goes on with its event: what it had to serve it will still serve,
\* and the feed it serves it has yet to read.
LEMMA ServingGoesOn ==
    ASSUME IInv, NEW w \in Workers, db'[Master] = db[Master],
           task[w].stage = "subs" => call[w].val # NoValue,
           task[w].stage \in {"subs", "fan"}, call[w].pc # "add",
           task'[w].stage = "feed" => call'[w].val = NoValue,
           \A u \in Users : \A e \in NewsOf(u) :
              WillServe(task[w], call[w], e, u) => ReadsFeed(task'[w], call'[w], e, u)
    PROVE  Keeps(w) /\ SendsOn(w)
<1>1. ASSUME NEW u \in Users, NEW e \in NewsOf(u), WillServe(task[w], call[w], e, u)
      PROVE  /\ FeedReason(u)'
             /\ PushDue(u)' \/ (Has(task'[w], u) /\ call'[w].val = NoValue)
  <2>1. ReadsFeed(task'[w], call'[w], e, u)
    BY <1>1
  <2>2. e \in NewsOf(u)'
    BY SameFeed
  <2>3. FeedReason(u)'
    BY <2>1, <2>2 DEF FeedReason, FeedDue
  <2>4. QED
    BY <2>1, <2>2, <2>3 DEF PushDue, ReadsFeed, Serves, Has
<1>2. Keeps(w)
  BY <1>1 DEF Keeps, KeepsFeed, KeepsSubs, ReadsFeed, AddsFeed, Serves, ReadsSubs, AddsSubs
<1>3. SendsOn(w)
  BY <1>1 DEF SendsOn, Has
<1>4. QED
  BY <1>2, <1>3

\* The subscribers are known.
LEMMA GotSubsKeeps ==
    ASSUME IInv, NEW w \in Workers, GotSubs(w)
    PROVE  IInv'
<1> DEFINE e == task[w].ev
           users == IF e[1] = "friend" THEN {e[2]} ELSE call[w].val
<1>1. /\ TypeOK /\ w \in Procs /\ TaskOk(task[w], call[w]) /\ inbox \in [Workers -> Seq(Event)]
      /\ e \in Event /\ CallOk(call[w])
  BY FeedAssumption DEF IInv, Base, TypeOK, Tasks, TaskOk, GotSubs, Calls
<1>2. /\ task[w].stage = "subs" /\ call[w].val # NoValue /\ call[w].pc = "return"
      /\ UNCHANGED <<store, lock, stolen, faults, db, handler, inbox, pushed, lost, behind,
                     writes, sendVars>>
      /\ Reset(w)
      /\ task' = [task EXCEPT ![w].stage = "fan", ![w].todo = users]
  BY DEF GotSubs
<1>3. /\ users \subseteq Users
      /\ \A u \in Users : \A x \in NewsOf(u) : WillServe(task[w], call[w], x, u) => u \in users
  <2>1. CASE \E q \in Pairs : e = FriendEvent(q[1], q[2])
    <3>1. PICK q \in Pairs : e = FriendEvent(q[1], q[2])
      BY <2>1
    <3>2. users = {q[1]} /\ q[1] \in Users
      BY <3>1, FeedAssumption DEF FriendEvent
    <3>3. ASSUME NEW u \in Users, NEW x \in NewsOf(u), e = x
          PROVE  u = q[1]
      BY <3>1, <3>3, NewsKinds DEF FriendEvent, PostEvent
    <3>4. QED
      BY <3>2, <3>3 DEF WillServe
  <2>2. CASE \E a \in Authors : e = PostEvent(a)
    <3>1. PICK a \in Authors : e = PostEvent(a)
      BY <2>2
    <3>2. users = call[w].val /\ \A u, f : e # FriendEvent(u, f)
      BY <3>1, EventsDiffer DEF PostEvent
    <3>3. call[w].key[1] = subs
      BY <1>1, <1>2 DEF TaskOk
    <3>4. users \subseteq Users
      BY <1>1, <1>2, <3>2, <3>3 DEF CallOk, Holds
    <3>5. QED
      BY <1>2, <3>2, <3>4 DEF WillServe
  <2>3. QED
    BY <1>1, <1>2, <2>1, <2>2 DEF TaskOk
<1> HIDE DEF users
<1> DEFINE t == task'[w]
<1>4. OnlyTask(w, t) /\ t.stage = "fan" /\ t.ev = e /\ t.todo = users
  <2>1. task \in [Workers -> TaskType] /\ task[w] \in TaskType
    BY <1>1 DEF TypeOK, TaskType
  <2>2. /\ t \in TaskType /\ t.stage = "fan" /\ t.ev = task[w].ev /\ t.todo = users
        /\ \A v \in Workers \ {w} : task'[v] = task[v]
    BY <1>2, <1>3, <2>1 DEF TaskType, Stages
  <2>3. task' \in [Workers -> TaskType]
    BY <1>2, <2>1, <2>2
  <2>4. QED
    BY <2>2, <2>3 DEF OnlyTask
<1> HIDE DEF e
<1>5. /\ LockInv' /\ OnlyCall(w, Idle)
      /\ stolen \subseteq stolen' /\ \A k \in Keys : store'[k] \in {store[k], NoValue}
  BY <1>1, <1>2, TakeResult
<1>6. TaskOk(t, Idle)
  BY <1>1, <1>4, NewCallOk DEF TaskOk
<1>7. Keeps(w) /\ SendsOn(w)
  <2>1. \A u \in Users : \A x \in NewsOf(u) :
            WillServe(task[w], call[w], x, u) => ReadsFeed(t, call'[w], x, u)
    BY <1>3, <1>4 DEF WillServe, ReadsFeed, e
  <2>2. QED
    BY <1>2, <1>4, <2>1, ServingGoesOn
<1>8. Waits
  BY <1>2, SameWaiting
<1>9. /\ lost \subseteq lost' /\ lost' \subseteq Event \cup {PushEvent(u) : u \in Users}
      /\ inbox' \in [Workers -> Seq(Event)]
      /\ older' \in [Workers -> SUBSET Workers] /\ late' \subseteq Workers
      /\ overtaken' \subseteq Users
  BY <1>1, <1>2 DEF TypeOK, sendVars
<1>10. QED
  BY <1>2, <1>4, <1>5, <1>6, <1>7, <1>8, <1>9, NewCallOk, UpdaterKeeps

\* The next feed of the fan-out is to be reloaded.
LEMMA LoadNextKeeps ==
    ASSUME IInv, NEW w \in Workers, LoadNext(w)
    PROVE  IInv'
<1>1. /\ TypeOK /\ LockInv /\ w \in Procs /\ TaskOk(task[w], call[w])
      /\ inbox \in [Workers -> Seq(Event)] /\ call \in [Procs -> CallType]
      /\ task[w].ev \in Event /\ task[w].todo \subseteq Users /\ task[w] \in TaskType
  BY FeedAssumption, TaskFields DEF IInv, Base, TypeOK, LockInv, CacheTypeOK, Tasks, TaskOk, LoadNext
<1>2. PICK u \in task[w].todo :
         /\ StartLoad(w, <<feed, u>>)
         /\ task' = [task EXCEPT ![w].stage = "feed", ![w].to = {u}, ![w].todo = @ \ {u}]
  BY DEF LoadNext
<1>3. /\ task[w].stage = "fan" /\ u \in Users /\ <<feed, u>> \in Keys
      /\ UNCHANGED <<store, lock, stolen, faults, db, handler, inbox, pushed, lost, behind,
                     writes, sendVars>>
  BY <1>1, <1>2, KeysDiffer DEF LoadNext
<1> DEFINE t == task'[w]
           c == NewCall("lock", <<feed, u>>)
<1>4. /\ OnlyTask(w, t) /\ t.stage = "feed" /\ t.ev = task[w].ev
      /\ t.to = {u} /\ t.todo = task[w].todo \ {u}
  <2>1. task \in [Workers -> TaskType]
    BY <1>1 DEF TypeOK, TaskType
  <2>2. /\ t \in TaskType /\ t.stage = "feed" /\ t.ev = task[w].ev
        /\ t.to = {u} /\ t.todo = task[w].todo \ {u}
        /\ \A v \in Workers \ {w} : task'[v] = task[v]
    BY <1>1, <1>2, <1>3, <2>1 DEF TaskType, Stages
  <2>3. task' \in [Workers -> TaskType]
    BY <1>2, <2>1, <2>2
  <2>4. QED
    BY <2>2, <2>3 DEF OnlyTask
<1>5. /\ LockInv' /\ OnlyCall(w, c)
  BY <1>1, <1>2, <1>3, StartStep, StartCall DEF StartLoad, CallPc
<1>6. CallOk(c) /\ c.pc = "lock" /\ c.key = <<feed, u>> /\ c.val = NoValue
  BY <1>3, NewCallOk
<1> HIDE DEF c
<1>7. TaskOk(t, c)
  BY <1>1, <1>3, <1>4, <1>6 DEF TaskOk
<1>8. Keeps(w) /\ SendsOn(w)
  <2>1. call'[w] = c /\ call[w].pc = "idle"
    BY <1>1, <1>3, <1>5 DEF OnlyCall, TaskOk
  <2>2. \A v \in Users : \A x \in NewsOf(v) :
            WillServe(task[w], call[w], x, v) => ReadsFeed(t, call'[w], x, v)
    BY <1>3, <1>4, <1>6, <2>1 DEF WillServe, Serves, ReadsFeed
  <2>3. QED
    BY <1>3, <1>4, <1>6, <2>1, <2>2, ServingGoesOn
<1>9. Waits
  BY <1>3, SameWaiting
<1>10. /\ lost \subseteq lost' /\ lost' \subseteq Event \cup {PushEvent(v) : v \in Users}
       /\ inbox' \in [Workers -> Seq(Event)]
       /\ older' \in [Workers -> SUBSET Workers] /\ late' \subseteq Workers
       /\ overtaken' \subseteq Users
  BY <1>1, <1>3 DEF TypeOK, sendVars
<1>11. stolen \subseteq stolen' /\ \A k \in Keys : store'[k] \in {store[k], NoValue}
  BY <1>3
<1>12. QED
  BY <1>3, <1>4, <1>5, <1>6, <1>7, <1>8, <1>9, <1>10, <1>11, UpdaterKeeps

\* A reloaded feed is sent: it is the user's feed, or the user's feed is yet to
\* come, or this one was overtaken.
LEMMA SendKeeps ==
    ASSUME IInv, NEW w \in Workers, Send(w)
    PROVE  IInv'
<1>1. /\ TypeOK /\ w \in Procs /\ TaskOk(task[w], call[w]) /\ inbox \in [Workers -> Seq(Event)]
      /\ task[w].ev \in Event /\ call[w].val \in Values
  BY FeedAssumption DEF IInv, Base, TypeOK, CacheTypeOK, CallType, Tasks, TaskOk, Send
<1>2. /\ task[w].stage = "feed" /\ call[w].val # NoValue /\ call[w].pc = "return"
      /\ pushed' = [u \in Users |-> IF u \in task[w].to THEN call[w].val ELSE pushed[u]]
      /\ UNCHANGED <<store, lock, stolen, faults, db, handler, inbox, lost, behind, writes>>
      /\ Reset(w)
      /\ task' = [task EXCEPT ![w].stage = "fan", ![w].to = {}]
      /\ overtaken' = IF w \in late THEN overtaken \cup task[w].to ELSE overtaken \ task[w].to
      /\ late' = (late \cup older[w]) \ {w}
      /\ older' = [q \in Workers |-> IF q = w THEN {} ELSE older[q] \ {w}]
  BY DEF Send, Release
<1>3. /\ LockInv' /\ OnlyCall(w, Idle)
      /\ stolen \subseteq stolen' /\ \A k \in Keys : store'[k] \in {store[k], NoValue}
  BY <1>1, <1>2, TakeResult
<1> DEFINE t == task'[w]
<1>4. /\ OnlyTask(w, t) /\ t.stage = "fan" /\ t.ev = task[w].ev /\ t.todo = task[w].todo
  BY <1>1, <1>2, TaskServed
<1>5. TaskOk(t, Idle)
  BY <1>1, <1>4, NewCallOk DEF TaskOk
<1>6. Base' /\ \A v \in Workers \ {w} : Still(v)
  <2>1. /\ pushed' \in [Users -> Values \cup {NoValue}] /\ inbox' \in [Workers -> Seq(Event)]
        /\ lost' \subseteq Event \cup {PushEvent(u) : u \in Users} /\ behind' \subseteq Keys
        /\ older' \in [Workers -> SUBSET Workers] /\ late' \subseteq Workers
        /\ overtaken' \subseteq Users
    BY <1>1, <1>2, TaskFields DEF TypeOK
  <2>2. QED
    BY <1>2, <1>3, <1>4, <1>5, <2>1, NewCallOk, UpdaterBase
<1>7. stolen' = {} => Explained'
  <2>1. Goes
    BY <1>2, SameWaiting, WaitsGoes
  <2>2. \A k \in Keys : CalmFor(k)
    BY <1>1, <1>3, NewCallOk, OthersCalm
  <2>3. Keeps(w)
    BY <1>2, <1>4, ServedKeeps
  <2>4. \A v \in Workers : Keeps(v)
    BY <1>2, <1>6, <2>3, StillKeeps
  <2>5. QED
    BY <1>3, <2>1, <2>2, <2>4, CalmStep DEF IInv
<1>8. ASSUME Undisturbed'
      PROVE  Sent'
  <2> SUFFICES ASSUME NEW u \in Users
               PROVE  PushFine(u)'
    BY DEF Sent
  <2>1. PushFine(u)
    BY <1>2, <1>8 DEF IInv, Sent, Undisturbed
  <2>2. /\ NewsOf(u)' = NewsOf(u) /\ FeedOf(Master, u)' = FeedOf(Master, u)
        /\ \A e : Waiting(e) => Waiting(e)'
    BY <1>2, SameFeed, SameWaiting
  <2>3. PushDue(u) => PushDue(u)'
    <3>1. ASSUME NEW v \in Workers, NEW e, WillServe(task[v], call[v], e, u)
          PROVE  WillServe(task'[v], call'[v], e, u)
      BY <1>2, <1>4, <1>6, <3>1 DEF WillServe, Still
    <3>2. QED
      BY <2>2, <3>1 DEF PushDue
  <2>4. ~Has(task'[w], u) /\ late \subseteq late' \cup {w}
    BY <1>2, <1>4 DEF Has
  <2>5. ASSUME NEW v \in Workers, v # w
        PROVE  /\ task'[v] = task[v] /\ call'[v] = call[v]
               /\ Brings(task[v], call[v], u) => Brings(task[v], call[v], u)'
               /\ \A q \in Workers \ {w} : Follows(v, q, u) => Follows(v, q, u)'
    BY <1>2, <1>6, <2>2, <2>5 DEF Still, Brings, Follows
  <2>6. CASE Has(task[w], u)
    <3>1. pushed'[u] = call[w].val /\ (w \in late => u \in overtaken')
      BY <1>2, <2>6 DEF Has
    <3>2. \/ call[w].val = FeedOf(Master, u)
          \/ PushDue(u) \/ w \in late
          \/ \E v \in Workers : Follows(v, w, u)
      BY <1>2, <2>1, <2>6 DEF PushFine
    <3>3. ASSUME NEW v \in Workers, Follows(v, w, u)
          PROVE  \/ call[w].val = FeedOf(Master, u)
                 \/ \E q \in Workers : Brings(task[q], call[q], u)'
      BY <1>2, <2>5, <3>3 DEF Follows, Brings
    <3>4. \/ pushed'[u] \in {NoValue, FeedOf(Master, u)'}
          \/ PushDue(u)' \/ u \in overtaken'
          \/ \E v \in Workers : Brings(task[v], call[v], u)'
      BY <2>2, <2>3, <2>4, <3>1, <3>2, <3>3
    <3>5. ASSUME NEW q \in Workers, Has(task'[q], u), call'[q].val # NoValue
          PROVE  \/ call'[q].val = FeedOf(Master, u)'
                 \/ PushDue(u)' \/ q \in late'
                 \/ \E v \in Workers : Follows(v, q, u)'
      <4>1. q # w /\ task'[q] = task[q] /\ call'[q] = call[q]
        BY <2>4, <2>5, <3>5
      <4>2. \/ call[q].val = FeedOf(Master, u)
            \/ PushDue(u) \/ q \in late
            \/ \E v \in Workers : Follows(v, q, u)
        BY <2>1, <3>5, <4>1 DEF PushFine
      <4>3. ASSUME NEW v \in Workers, Follows(v, q, u)
            PROVE  q \in late' \/ Follows(v, q, u)'
        BY <1>2, <2>5, <4>1, <4>3 DEF Follows
      <4>4. QED
        BY <2>2, <2>3, <2>4, <4>1, <4>2, <4>3
    <3>6. QED
      BY <3>4, <3>5 DEF PushFine
  <2>7. CASE ~Has(task[w], u)
    <3>1. pushed'[u] = pushed[u] /\ (u \in overtaken => u \in overtaken')
      BY <1>2, <2>7 DEF Has
    <3>2. \A v \in Workers :
             /\ Brings(task[v], call[v], u) => Brings(task[v], call[v], u)'
             /\ \A q \in Workers \ {w} : Follows(v, q, u) => Follows(v, q, u)'
      BY <2>5, <2>7 DEF Brings, Follows
    <3>3. \/ pushed'[u] \in {NoValue, FeedOf(Master, u)'}
          \/ PushDue(u)' \/ u \in overtaken'
          \/ \E v \in Workers : Brings(task[v], call[v], u)'
      BY <2>1, <2>2, <2>3, <2>4, <3>1, <3>2 DEF PushFine
    <3>4. ASSUME NEW q \in Workers, Has(task'[q], u), call'[q].val # NoValue
          PROVE  \/ call'[q].val = FeedOf(Master, u)'
                 \/ PushDue(u)' \/ q \in late'
                 \/ \E v \in Workers : Follows(v, q, u)'
      <4>1. q # w /\ task'[q] = task[q] /\ call'[q] = call[q]
        BY <2>4, <2>5, <3>4
      <4>2. \/ call[q].val = FeedOf(Master, u)
            \/ PushDue(u) \/ q \in late
            \/ \E v \in Workers : Follows(v, q, u)
        BY <2>1, <3>4, <4>1 DEF PushFine
      <4>3. QED
        BY <2>2, <2>3, <2>4, <3>2, <4>1, <4>2
    <3>5. QED
      BY <3>3, <3>4 DEF PushFine
  <2>8. QED
    BY <2>6, <2>7
<1>9. QED
  BY <1>6, <1>7, <1>8 DEF IInv

\* What the first call, or none, and the task are after a message was taken.
LEMMA TakeStarts ==
    ASSUME IInv, NEW w \in Workers, Take(w)
    PROVE  LET e == Head(inbox[w]) IN
           /\ task[w].stage = "idle" /\ call[w].pc = "idle" /\ LockInv'
           /\ e \in Event /\ OnlyTask(w, task'[w]) /\ task'[w].ev = e
           /\ \E c : OnlyCall(w, c) /\ CallOk(c) /\ c.val = NoValue /\ c.pc # "add"
                        /\ TaskOk(task'[w], c)
           /\ \/ task'[w].stage = "subs"
              \/ task'[w].stage = "flushSubs" /\ e = InvalidateEvent
<1> DEFINE e == Head(inbox[w])
<1>1. /\ TypeOK /\ LockInv /\ w \in Procs /\ TaskOk(task[w], call[w])
      /\ inbox[w] \in Seq(Event) /\ inbox[w] # <<>> /\ call \in [Procs -> CallType]
      /\ task[w].stage = "idle"
      /\ UNCHANGED <<store, lock, stolen, faults, db, handler, pushed, lost, behind, writes>>
  BY FeedAssumption DEF IInv, Base, TypeOK, LockInv, CacheTypeOK, Tasks, Take
<1>2. e \in Event /\ call[w].pc = "idle"
  BY <1>1, TailSeq DEF TaskOk
<1> HIDE DEF e
<1>3. CASE CallSubs(w, e) /\ task' = [task EXCEPT ![w] = [NoTask EXCEPT !.stage = "subs", !.ev = e]]
  <2> DEFINE t == [NoTask EXCEPT !.stage = "subs", !.ev = e]
  <2>1. t \in TaskType /\ t.stage = "subs" /\ t.ev = e
    BY <1>2 DEF NoTask, TaskType, Stages
  <2> HIDE DEF t
  <2>2. OnlyTask(w, t)
    BY <1>1, <1>3, <2>1, TaskSet DEF t
  <2>3. PICK k \in Keys, pc \in {"get", "lock"} :
           /\ StartLoad(w, k) \/ StartGetOrLoad(w, k)
           /\ call' = [call EXCEPT ![w] = NewCall(pc, k)]
           /\ \/ pc = "lock" /\ \E q \in Pairs : e = FriendEvent(q[1], q[2]) /\ k = <<subs, q[2]>>
              \/ \E a \in Authors : e = PostEvent(a) /\ k = <<subs, a>>
    <3>1. CASE e[1] = "friend" /\ StartLoad(w, <<subs, e[3]>>)
      <4>1. PICK q \in Pairs : e = FriendEvent(q[1], q[2]) /\ q[2] \in Users /\ e[3] = q[2]
        BY <1>2, <3>1, Kinds
      <4>2. <<subs, q[2]>> \in Keys
        BY <4>1, KeysDiffer
      <4>3. QED
        BY <3>1, <4>1, <4>2 DEF StartLoad
    <3>2. CASE e[1] = "post" /\ StartGetOrLoad(w, <<subs, e[2]>>)
      <4>1. PICK a \in Authors : e = PostEvent(a) /\ a \in Users /\ e[2] = a
        BY <1>2, <3>2, Kinds
      <4>2. <<subs, a>> \in Keys
        BY <4>1, KeysDiffer
      <4>3. QED
        BY <3>2, <4>1, <4>2 DEF StartGetOrLoad
    <3>3. QED
      BY <1>3, <3>1, <3>2 DEF CallSubs
  <2> DEFINE c == NewCall(pc, k)
  <2>4. CallOk(c) /\ c.pc = pc /\ c.key = k /\ c.val = NoValue
    BY NewCallOk
  <2>5. LockInv' /\ OnlyCall(w, c)
    BY <1>1, <2>3, StartStep, StartCall DEF CallPc
  <2> HIDE DEF c
  <2>6. TaskOk(t, c)
    BY <1>2, <2>1, <2>3, <2>4 DEF TaskOk
  <2>7. task'[w] = t /\ c.pc # "add"
    BY <2>2, <2>4 DEF OnlyTask
  <2>8. QED
    BY <1>1, <1>2, <2>1, <2>2, <2>4, <2>5, <2>6, <2>7 DEF e
<1>4. CASE /\ e[1] = "invalidate" /\ UNCHANGED call
           /\ task' = [task EXCEPT ![w] = [NoTask EXCEPT !.stage = "flushSubs", !.ev = e]]
  <2> DEFINE t == [NoTask EXCEPT !.stage = "flushSubs", !.ev = e]
             c == call[w]
  <2>1. t \in TaskType /\ t.stage = "flushSubs" /\ t.ev = e
    BY <1>2 DEF NoTask, TaskType, Stages
  <2> HIDE DEF t
  <2>2. OnlyTask(w, t) /\ task'[w] = t
    BY <1>1, <1>4, <2>1, TaskSet DEF t, OnlyTask
  <2>3. e = InvalidateEvent
    BY <1>2, <1>4, Kinds
  <2>4. CallOk(c) /\ c.val = NoValue /\ c.pc # "add" /\ OnlyCall(w, c)
    BY <1>1, <1>2, <1>4 DEF IInv, Base, Calls, CallOk, OnlyCall
  <2>5. TaskOk(t, c)
    BY <1>2, <2>1 DEF TaskOk
  <2>6. LockInv'
    BY <1>1, <1>4, LockSame DEF cacheVars
  <2>7. QED
    BY <1>1, <1>2, <2>1, <2>2, <2>3, <2>4, <2>5, <2>6 DEF e
<1>5. QED
  BY <1>3, <1>4 DEF Take, e

\* An updater takes a message: it now has to do what the news waited for.
LEMMA TakeKeeps ==
    ASSUME IInv, NEW w \in Workers, Take(w)
    PROVE  IInv'
<1> DEFINE e == Head(inbox[w])
           t == task'[w]
<1>1. /\ task[w].stage = "idle" /\ call[w].pc = "idle" /\ LockInv'
      /\ e \in Event /\ OnlyTask(w, t) /\ t.ev = e
      /\ \/ t.stage = "subs"
         \/ t.stage = "flushSubs" /\ e = InvalidateEvent
  BY TakeStarts
<1>2. PICK c : OnlyCall(w, c) /\ CallOk(c) /\ c.val = NoValue /\ c.pc # "add" /\ TaskOk(t, c)
  BY TakeStarts
<1>3. /\ inbox \in [Workers -> Seq(Event)] /\ inbox[w] # <<>> /\ w \in Procs /\ TypeOK
      /\ inbox' = [inbox EXCEPT ![w] = Tail(inbox[w])]
      /\ UNCHANGED <<store, lock, stolen, faults, db, handler, pushed, lost, behind, writes,
                     older, late, overtaken>>
  BY FeedAssumption DEF Take, IInv, Base, TypeOK, sendVars
<1>4. /\ Tail(inbox[w]) \in Seq(Event)
      /\ \A x : InSeq(inbox[w], x) => x = e \/ InSeq(Tail(inbox[w]), x)
  BY <1>3, TailSeq
<1> HIDE DEF e
<1>5. inbox'[w] = Tail(inbox[w]) /\ \A v \in Workers \ {w} : inbox'[v] = inbox[v]
  BY <1>3
<1>6. call'[w] = c
  BY <1>2 DEF OnlyCall
<1>7. \A x : Waiting(x) => Waiting(x)' \/ x = e
  BY <1>3, <1>4, <1>5 DEF Waiting
<1>8. e # InvalidateEvent => ReadsSubs(task'[w], call'[w], e)
  BY <1>1, <1>2, <1>6 DEF ReadsSubs
<1>9. Goes
  BY <1>3, <1>7, <1>8 DEF Goes, SubsDue
<1>10. Base' /\ \A v \in Workers \ {w} : Still(v)
  <2>1. /\ pushed' \in [Users -> Values \cup {NoValue}] /\ inbox' \in [Workers -> Seq(Event)]
        /\ lost' \subseteq Event \cup {PushEvent(u) : u \in Users} /\ behind' \subseteq Keys
        /\ older' \in [Workers -> SUBSET Workers] /\ late' \subseteq Workers
        /\ overtaken' \subseteq Users
    BY <1>3, <1>4 DEF TypeOK
  <2>2. QED
    BY <1>1, <1>2, <1>3, <2>1, UpdaterBase
<1>11. stolen' = {} => Explained'
  <2>1. \A k \in Keys : CalmFor(k)
    BY <1>2, <1>3, OthersCalm
  <2>2. Keeps(w)
    BY <1>1 DEF Keeps, KeepsSubs, KeepsFeed, ReadsSubs, AddsSubs, ReadsFeed, AddsFeed, WillServe,
                Serves
  <2>3. \A v \in Workers : Keeps(v)
    BY <1>3, <1>10, <2>2, StillKeeps
  <2>4. QED
    BY <1>3, <1>9, <2>1, <2>3, CalmStep DEF IInv
<1>12. ASSUME Undisturbed'
       PROVE  Sent'
  <2> SUFFICES ASSUME NEW u \in Users
               PROVE  PushFine(u)'
    BY DEF Sent
  <2>1. PushFine(u)
    BY <1>3, <1>12 DEF IInv, Sent, Undisturbed
  <2>2. NewsOf(u)' = NewsOf(u) /\ FeedOf(Master, u)' = FeedOf(Master, u)
    BY <1>3, SameFeed
  <2>3. /\ ~Has(task[w], u) /\ ~Has(task'[w], u)
        /\ \A e0 : ~WillServe(task[w], call[w], e0, u)
    BY <1>1 DEF Has, WillServe
  <2>4. ASSUME NEW x \in NewsOf(u), Waiting(x)
        PROVE  PushDue(u)'
    <3>1. CASE Waiting(x)'
      BY <2>2, <3>1 DEF PushDue
    <3>2. CASE x = e
      <4>1. ReadsSubs(task'[w], call'[w], x)
        BY <1>8, <3>2, NewsNotAll
      <4>2. QED
        BY <2>2, <4>1 DEF PushDue, WillServe, ReadsSubs
    <3>3. QED
      BY <1>7, <2>4, <3>1, <3>2
  <2>5. \A v \in Workers \ {w} : task'[v] = task[v] /\ call'[v] = call[v]
    BY <1>10 DEF Still
  <2>6. PushDue(u) => PushDue(u)'
    <3>1. ASSUME NEW x \in NewsOf(u), NEW v \in Workers, WillServe(task[v], call[v], x, u)
          PROVE  PushDue(u)'
      BY <2>2, <2>3, <2>5, <3>1 DEF PushDue
    <3>2. QED
      BY <2>4, <3>1 DEF PushDue
  <2>7. \A v \in Workers :
           /\ Brings(task[v], call[v], u) => Brings(task[v], call[v], u)'
           /\ \A q \in Workers : Follows(v, q, u) => Follows(v, q, u)'
    BY <1>3, <2>2, <2>3, <2>5 DEF Brings, Follows
  <2>8. \A q \in Workers : Has(task'[q], u) => Has(task[q], u) /\ call'[q] = call[q]
    BY <2>3, <2>5
  <2>9. QED
    BY <1>3, <2>1, <2>2, <2>6, <2>7, <2>8 DEF PushFine
<1>13. QED
  BY <1>10, <1>11, <1>12 DEF IInv

-----------------------------------------------------------------------------
(* The round trips of a call, but for the read and the SET.                  *)

\* Every round trip keeps the lock.
LEMMA TripLock ==
    ASSUME LockInv, NEW p \in Procs, CallStep(p)
    PROVE  LockInv'
<1>1. {} \in Values
  BY FeedAssumption
<1>2. CASE ReadFails(p)
  BY <1>1, <1>2, ReadStep
<1>3. QED
  BY <1>2, GetStep, AcquireStep, BusyStep, AddStep, UnlockStep DEF CallStep

\* The call of p goes on as c, for the same key.
TripTo(p, c) ==
    /\ OnlyCall(p, c) /\ CallOk(c)
    /\ c.key = call[p].key /\ c.pc \in {"lock", "load", "unlock", "return"}

LEMMA TripTos ==
    ASSUME TypeOK, NEW p \in Procs, NEW pc \in {"lock", "load", "unlock", "return"},
           NEW v \in Values \cup {NoValue},
           \/ Goto(p, pc) /\ v = call[p].val
           \/ GotoWith(p, pc, v),
           Holds(call[p].key, v), pc \in {"lock", "load"} => v = NoValue
    PROVE  \E c : TripTo(p, c) /\ c.val = v /\ c.pc = pc
<1> DEFINE c == [pc |-> pc, key |-> call[p].key, tries |-> call[p].tries, val |-> v]
<1>1. call \in [Procs -> CallType] /\ pc \in CallPc
  BY DEF TypeOK, CacheTypeOK, CallPc
<1>2. OnlyCall(p, c)
  BY <1>1, GotoCall, GotoWithCall
<1>3. CallOk(c) /\ c.key = call[p].key /\ c.pc = pc /\ c.val = v
  BY DEF CallOk
<1> HIDE DEF c
<1>4. QED
  BY <1>2, <1>3 DEF TripTo

\* A try more.
LEMMA TryTo ==
    ASSUME IInv, NEW p \in Procs, call[p].pc = "lock", TryAgain(p)
    PROVE  \E c : TripTo(p, c) /\ c.val = NoValue
<1>1. call \in [Procs -> CallType] /\ CallOk(call[p]) /\ TypeOK /\ call[p].val = NoValue
  BY DEF IInv, Base, TypeOK, CacheTypeOK, Calls, CallOk
<1>2. CASE call[p].tries > 1
  <2> DEFINE c == [pc |-> call[p].pc, key |-> call[p].key,
                   tries |-> call[p].tries - 1, val |-> call[p].val]
  <2>1. OnlyCall(p, c)
    BY <1>1, <1>2, RetryCall DEF TryAgain
  <2>2. CallOk(c) /\ c.key = call[p].key /\ c.pc = "lock" /\ c.val = NoValue
    BY <1>1 DEF CallOk
  <2> HIDE DEF c
  <2>3. QED
    BY <2>1, <2>2 DEF TripTo
<1>3. CASE ~(call[p].tries > 1)
  <2>1. Holds(call[p].key, NoValue)
    BY DEF Holds
  <2>2. GotoWith(p, "return", NoValue)
    BY <1>3 DEF TryAgain, Finish
  <2>3. QED
    BY <1>1, <2>1, <2>2, TripTos
<1>4. QED
  BY <1>2, <1>3

\* A round trip that is no hit and no SET leaves the call with its value or
\* with none, and a value that could not be stored is dropped.
LEMMA FadingTrip ==
    ASSUME IInv, NEW p \in Procs, CallStep(p), ~Add(p),
           call[p].pc = "get" => store[call[p].key] = NoValue \/ GetFails(p)
    PROVE  /\ \E c : /\ TripTo(p, c) /\ c.val \in {call[p].val, NoValue}
                     /\ call[p].pc = "add" => c.val = NoValue
           /\ UNCHANGED <<store, stolen>>
<1>1. /\ CallOk(call[p]) /\ TypeOK /\ call[p].val \in Values \cup {NoValue}
      /\ \A k : Holds(k, NoValue)
  BY DEF IInv, Base, TypeOK, CacheTypeOK, CallType, Calls, Holds
<1>2. CASE GetFails(p)
  <2>1. GotoWith(p, "return", NoValue) /\ UNCHANGED <<store, stolen>>
    BY <1>2 DEF GetFails, Finish
  <2>2. QED
    BY <1>1, <1>2, <2>1, TripTos DEF GetFails
<1>3. CASE Get(p) /\ ~GetFails(p)
  <2>1. call[p].pc = "get" /\ Goto(p, "lock") /\ call[p].val = NoValue /\ UNCHANGED <<store, stolen>>
    BY <1>1, <1>3 DEF Get, CallOk
  <2>2. QED
    BY <1>1, <2>1, TripTos
<1>4. CASE Acquire(p)
  <2>1. call[p].pc = "lock" /\ Goto(p, "load") /\ call[p].val = NoValue /\ UNCHANGED <<store, stolen>>
    BY <1>1, <1>4 DEF Acquire, CallOk
  <2>2. QED
    BY <1>1, <2>1, TripTos
<1>5. CASE AcquireBusy(p) \/ AcquireFails(p)
  BY <1>5, TryTo DEF AcquireBusy, AcquireFails
<1>6. CASE ReadFails(p)
  <2>1. call[p].pc = "load" /\ Goto(p, "unlock") /\ call[p].val = NoValue /\ UNCHANGED <<store, stolen>>
    BY <1>1, <1>6 DEF ReadFails, CallOk
  <2>2. QED
    BY <1>1, <2>1, TripTos
<1>7. CASE AddFails(p)
  <2>1. GotoWith(p, "unlock", NoValue) /\ UNCHANGED <<store, stolen>>
    BY <1>7 DEF AddFails
  <2>2. QED
    BY <1>1, <2>1, TripTos
<1>8. CASE Unlock(p) \/ UnlockFails(p)
  <2>1. call[p].pc = "unlock" /\ Goto(p, "return") /\ UNCHANGED <<store, stolen>>
    BY <1>8 DEF Unlock, UnlockFails
  <2>2. Holds(call[p].key, call[p].val)
    BY <1>1, <2>1 DEF CallOk
  <2>3. QED
    BY <1>1, <2>1, <2>2, TripTos
<1>9. QED
  BY <1>2, <1>3, <1>4, <1>5, <1>6, <1>7, <1>8 DEF CallStep

\* A hit brings the cached value.
LEMMA HitTrip ==
    ASSUME IInv, NEW p \in Procs, Get(p), store[call[p].key] # NoValue
    PROVE  /\ \E c : TripTo(p, c) /\ c.val = store[call[p].key] /\ c.pc = "return"
           /\ UNCHANGED <<store, stolen>> /\ call[p].key \in Keys /\ call[p].pc = "get"
<1>1. /\ TypeOK /\ call[p].key \in Keys
      /\ store[call[p].key] \in Values \cup {NoValue}
      /\ Holds(call[p].key, store[call[p].key])
      /\ GotoWith(p, "return", store[call[p].key])
      /\ UNCHANGED <<store, stolen>> /\ call[p].pc = "get"
  BY DEF IInv, Base, TypeOK, CacheTypeOK, Cached, Get, Finish
<1>2. QED
  BY <1>1, TripTos

\* What an updater has to do outlives the loss of a value.
LEMMA FadingKeeps ==
    ASSUME NEW w \in Workers, db'[Master] = db[Master], task'[w] = task[w],
           call'[w].val \in {call[w].val, NoValue},
           call[w].pc = "add" => call'[w].val = NoValue
    PROVE  Keeps(w) /\ SendsOn(w)
<1>1. \A e : \A u \in Users :
          /\ ReadsSubs(task[w], call[w], e) => ReadsSubs(task'[w], call'[w], e)
          /\ AddsSubs(task[w], call[w], e) => ReadsSubs(task'[w], call'[w], e)
          /\ WillServe(task[w], call[w], e, u) => WillServe(task'[w], call'[w], e, u)
          /\ Serves(task[w], e, u) => Serves(task'[w], e, u)
  BY DEF ReadsSubs, AddsSubs, WillServe, Serves
<1>2. \A e : \A u \in Users :
          /\ ReadsFeed(task[w], call[w], e, u) => ReadsFeed(task'[w], call'[w], e, u)
          /\ AddsFeed(task[w], call[w], e, u) => ReadsFeed(task'[w], call'[w], e, u)
  BY <1>1 DEF ReadsFeed, AddsFeed
<1>3. ASSUME NEW u \in Users
      PROVE  KeepsFeed(w, u) /\ \A f \in Users : KeepsSubs(w, u, f)
  <2>1. NewsOf(u)' = NewsOf(u)
    BY SameFeed
  <2>2. KeepsFeed(w, u)
    BY <1>2, <2>1 DEF KeepsFeed, FeedReason, FeedDue
  <2>3. QED
    BY <1>1, <2>2 DEF KeepsSubs, SubsReason, SubsDue
<1>4. SendsOn(w)
  <2>1. \A u \in Users : \A e \in NewsOf(u) : WillServe(task[w], call[w], e, u) => PushDue(u)'
    BY <1>1, SameFeed DEF PushDue
  <2>2. QED
    BY <2>1 DEF SendsOn
<1>5. QED
  BY <1>3, <1>4 DEF Keeps

\* The call of a reader goes on.
LEMMA ReaderTripKeeps ==
    ASSUME IInv, NEW r \in Readers, Trip(r), ~Add(r)
    PROVE  IInv'
<1>1. r \in Procs /\ LockInv /\ CallStep(r) /\ UNCHANGED feedVars
  BY FeedAssumption DEF IInv, Base, TypeOK, LockInv, Trip
<1>2. LockInv'
  BY <1>1, TripLock
<1>3. (\E c : TripTo(r, c)) /\ UNCHANGED <<store, stolen>>
  <2>1. CASE Get(r) /\ store[call[r].key] # NoValue
    BY <1>1, <2>1, HitTrip
  <2>2. CASE ~(Get(r) /\ store[call[r].key] # NoValue)
    <3>1. call[r].pc = "get" => store[call[r].key] = NoValue \/ GetFails(r)
      BY <1>1, <2>2 DEF CallStep, Acquire, AcquireBusy, AcquireFails, ReadFails, Add, AddFails,
                        Unlock, UnlockFails
    <3>2. QED
      BY <1>1, <3>1, FadingTrip
  <2>3. QED
    BY <2>1, <2>2
<1>4. PICK c : TripTo(r, c)
  BY <1>3
<1>5. QED
  BY <1>1, <1>2, <1>3, <1>4, ReaderKeeps DEF TripTo

\* So does the call of an updater, if it keeps what it has to do.
LEMMA UpdaterTripKeeps ==
    ASSUME IInv, NEW w \in Workers, Trip(w), NEW c, TripTo(w, c), UNCHANGED <<store, stolen>>,
           stolen' = {} => Keeps(w),
           Undisturbed' => SendsOn(w)
    PROVE  IInv'
<1>1. /\ w \in Procs /\ LockInv /\ CallStep(w) /\ TypeOK /\ TaskOk(task[w], call[w])
      /\ UNCHANGED <<db, handler, inbox, task, pushed, lost, behind, writes, sendVars>>
  BY FeedAssumption DEF IInv, Base, TypeOK, LockInv, Trip, feedVars, Tasks
<1>2. LockInv'
  BY <1>1, TripLock
<1>3. OnlyTask(w, task[w])
  BY <1>1 DEF OnlyTask, TypeOK, TaskType
<1>4. call[w].pc # "idle"
  BY <1>1 DEF CallStep, Get, GetFails, Acquire, AcquireBusy, AcquireFails, ReadFails, Add,
              AddFails, Unlock, UnlockFails
<1>5. TaskOk(task[w], c)
  BY <1>1, <1>4 DEF TaskOk, TripTo
<1>6. Waits
  BY <1>1, SameWaiting
<1>7. /\ inbox' \in [Workers -> Seq(Event)]
      /\ lost \subseteq lost' /\ lost' \subseteq Event \cup {PushEvent(u) : u \in Users}
      /\ older' \in [Workers -> SUBSET Workers] /\ late' \subseteq Workers
      /\ overtaken' \subseteq Users
  BY <1>1 DEF TypeOK, sendVars
<1>8. QED
  BY <1>1, <1>2, <1>3, <1>5, <1>6, <1>7, UpdaterKeeps DEF TripTo

\* An updater finds the subscribers of the author cached.  A subscriber that is
\* missing there is one whose own news is still due, or lost.
LEMMA HitKeeps ==
    ASSUME IInv, NEW w \in Workers, Trip(w), Get(w), store[call[w].key] # NoValue
    PROVE  IInv'
<1>1. /\ w \in Procs /\ TaskOk(task[w], call[w]) /\ CallOk(call[w])
      /\ UNCHANGED <<db, handler, inbox, task, pushed, lost, behind, writes>>
  BY FeedAssumption DEF IInv, Base, Trip, feedVars, Tasks, Calls
<1>2. /\ UNCHANGED <<store, stolen>> /\ call[w].key \in Keys /\ call[w].pc = "get"
      /\ call[w].val = NoValue
  BY <1>1, HitTrip DEF CallOk
<1>3. PICK c : TripTo(w, c) /\ c.val = store[call[w].key] /\ c.pc = "return"
  BY <1>1, HitTrip
<1>4. task[w].stage = "subs"
      /\ \E f \in Authors : task[w].ev = PostEvent(f) /\ call[w].key = <<subs, f>>
  BY <1>1, <1>2 DEF TaskOk
<1>5. PICK f \in Authors : task[w].ev = PostEvent(f) /\ call[w].key = <<subs, f>>
  BY <1>4
<1>6. f \in Users /\ call'[w] = c /\ task'[w] = task[w]
  BY <1>1, <1>3, FeedAssumption DEF TripTo, OnlyCall
<1>7. ASSUME stolen = {}, NEW u \in Users, f \in Friends(Master, u), u \notin c.val
      PROVE  \/ <<subs, f>> \in behind \/ FriendEvent(u, f) \in lost
             \/ Waiting(FriendEvent(u, f))
             \/ \E v \in Workers : task[v].ev = FriendEvent(u, f) /\ task[v].stage = "subs"
  <2>1. store[<<subs, f>>] # NoValue /\ ~RightAbout(store[<<subs, f>>], u, f)
    BY <1>3, <1>5, <1>7 DEF RightAbout, Friends
  <2>2. SubsReason(u, f) \/ SubsComing(u, f)
    BY <1>6, <1>7, <2>1 DEF IInv, Explained, SubsFine
  <2>3. QED
    BY <2>2 DEF SubsReason, SubsDue, SubsComing, ReadsSubs, AddsSubs
<1>8. ASSUME NEW v \in Workers, NEW u, task[v].ev = FriendEvent(u, f)
      PROVE  v # w
  BY <1>5, <1>8, EventsDiffer
<1>9. \A v \in Workers \ {w} : Still(v)
  BY <1>1, <1>3, FeedAssumption DEF Still, TripTo, OnlyCall
<1>10. ASSUME NEW u \in Users, NEW e \in NewsOf(u), WillServe(task[w], call[w], e, u)
       PROVE  e = PostEvent(f) /\ f \in Friends(Master, u)
  <2>1. e = PostEvent(f)
    BY <1>4, <1>5, <1>10 DEF WillServe
  <2>2. e \in {PostEvent(g) : g \in Friends(Master, u)}
    BY <2>1, EventsDiffer DEF NewsOf
  <2>3. PICK g \in Friends(Master, u) : e = PostEvent(g)
    BY <2>2
  <2>4. QED
    BY <2>1, <2>3, EventsDiffer
<1>11. ASSUME NEW u \in Users, f \in Friends(Master, u), u \in c.val
       PROVE  WillServe(task'[w], call'[w], PostEvent(f), u)
  BY <1>4, <1>5, <1>6, <1>11 DEF WillServe
<1>12. ASSUME NEW u \in Users, NEW v \in Workers, v # w,
              task[v].ev = FriendEvent(u, f), task[v].stage = "subs"
       PROVE  WillServe(task'[v], call'[v], FriendEvent(u, f), u)
  BY <1>6, <1>9, <1>12 DEF WillServe, Still
<1>13. ASSUME NEW u \in Users, f \in Friends(Master, u)
       PROVE  /\ PostEvent(f) \in NewsOf(u)' /\ FriendEvent(u, f) \in NewsOf(u)'
              /\ f \in Friends(Master, u)'
              /\ \A e : Waiting(e) => Waiting(e)'
  BY <1>1, <1>6, <1>13, SameWaiting, SameFeed DEF NewsOf
<1>14. ASSUME stolen = {}, NEW u \in Users, f \in Friends(Master, u)
       PROVE  FeedReason(u)' /\ (Undisturbed => PushDue(u)')
  <2>1. CASE u \in c.val
    BY <1>11, <1>13, <1>14, <2>1 DEF FeedReason, FeedDue, ReadsFeed, PushDue
  <2>2. CASE <<subs, f>> \in behind
    BY <1>1, <1>13, <1>14, <2>2 DEF FeedReason, Undisturbed
  <2>3. CASE FriendEvent(u, f) \in lost
    BY <1>1, <1>13, <1>14, <2>3 DEF FeedReason, Undisturbed
  <2>4. CASE Waiting(FriendEvent(u, f))
    BY <1>13, <1>14, <2>4 DEF FeedReason, FeedDue, PushDue
  <2>5. CASE \E v \in Workers : task[v].ev = FriendEvent(u, f) /\ task[v].stage = "subs"
    BY <1>8, <1>12, <1>13, <1>14, <2>5 DEF FeedReason, FeedDue, ReadsFeed, PushDue
  <2>6. QED
    BY <1>7, <1>14, <2>1, <2>2, <2>3, <2>4, <2>5
<1>15. stolen' = {} => Keeps(w)
  <2> SUFFICES ASSUME stolen = {}, NEW u \in Users
               PROVE  KeepsFeed(w, u) /\ \A g \in Users : KeepsSubs(w, u, g)
    BY <1>2 DEF Keeps
  <2>1. KeepsFeed(w, u)
    BY <1>4, <1>10, <1>14 DEF KeepsFeed, ReadsFeed, AddsFeed, Serves
  <2>2. ASSUME NEW g \in Users
        PROVE  KeepsSubs(w, u, g)
    BY <1>5, EventsDiffer DEF KeepsSubs, ReadsSubs, AddsSubs
  <2>3. QED
    BY <2>1, <2>2
<1>16. Undisturbed' => SendsOn(w)
  <2> SUFFICES ASSUME Undisturbed
               PROVE  SendsOn(w)
    BY <1>1, <1>2 DEF Undisturbed
  <2>1. ASSUME NEW u \in Users, NEW e \in NewsOf(u), WillServe(task[w], call[w], e, u)
        PROVE  PushDue(u)'
    BY <1>10, <1>14, <2>1 DEF Undisturbed
  <2>2. QED
    BY <1>4, <1>6, <2>1 DEF SendsOn, Has
<1>17. QED
  BY <1>2, <1>3, <1>15, <1>16, UpdaterTripKeeps

\* Every other round trip of an updater but the SET.
LEMMA FadesKeeps ==
    ASSUME IInv, NEW w \in Workers, Trip(w), ~Add(w),
           ~(Get(w) /\ store[call[w].key] # NoValue)
    PROVE  IInv'
<1>1. w \in Procs /\ CallStep(w) /\ UNCHANGED <<db, task>>
  BY FeedAssumption DEF Trip, feedVars
<1>2. call[w].pc = "get" => store[call[w].key] = NoValue \/ GetFails(w)
  BY <1>1 DEF CallStep, Acquire, AcquireBusy, AcquireFails, ReadFails, Add, AddFails,
              Unlock, UnlockFails
<1>3. UNCHANGED <<store, stolen>>
  BY <1>1, <1>2, FadingTrip
<1>4. PICK c : /\ TripTo(w, c) /\ c.val \in {call[w].val, NoValue}
               /\ call[w].pc = "add" => c.val = NoValue
  BY <1>1, <1>2, FadingTrip
<1>5. Keeps(w) /\ SendsOn(w)
  BY <1>1, <1>4, FadingKeeps DEF TripTo, OnlyCall
<1>6. QED
  BY <1>3, <1>4, <1>5, UpdaterTripKeeps

-----------------------------------------------------------------------------
(* The SET and the read: one key changes.                                    *)

\* What an updater is to store belongs to the key of its call.
LEMMA AddsItsKey ==
    ASSUME NEW t, NEW c, TaskOk(t, c), NEW u, NEW f
    PROVE  /\ t.ev = FriendEvent(u, f) /\ t.stage = "subs" => c.key = <<subs, f>>
           /\ t.stage = "feed" /\ u \in t.to => c.key = <<feed, u>>
<1>1. ASSUME t.ev = FriendEvent(u, f), t.stage = "subs"
      PROVE  c.key = <<subs, f>>
  <2>1. PICK q \in Pairs : t.ev = FriendEvent(q[1], q[2]) /\ c.key = <<subs, q[2]>>
    BY <1>1, EventsDiffer DEF TaskOk
  <2>2. FriendEvent(q[1], q[2]) = FriendEvent(u, f)
    BY <1>1, <2>1
  <2>3. q[2] = f
    BY <2>2 DEF FriendEvent
  <2>4. QED
    BY <2>1, <2>3
<1>2. t.stage = "feed" /\ u \in t.to => c.key = <<feed, u>>
  BY DEF TaskOk
<1>3. QED
  BY <1>1, <1>2

\* Only the values of k, stored or about to be, change.
LEMMA KeyStep ==
    ASSUME Explained, db'[Master] = db[Master], NEW k \in Keys,
           \A j \in Keys \ {k} : CalmFor(j),
           \A u \in Users : \A f \in Users :
              /\ k = <<subs, f>> => SubsFine(u, f)'
              /\ k # <<subs, f>> => SubsLasts(u, f),
           \A u \in Users :
              /\ k = <<feed, u>> => FeedFine(u)'
              /\ k # <<feed, u>> => FeedLasts(u)
    PROVE  Explained'
<1> SUFFICES ASSUME NEW u \in Users
             PROVE  FeedFine(u)' /\ \A f \in Users : SubsFine(u, f)'
  BY DEF Explained
<1>1. FeedFine(u)'
  <2>1. CASE k # <<feed, u>>
    <3>1. CalmFor(<<feed, u>>) /\ FeedLasts(u) /\ FeedFine(u)
      BY <2>1, KeysDiffer DEF Explained
    <3>2. QED
      BY <3>1, SameFeed, FeedCalm
  <2>2. QED
    BY <2>1
<1>2. ASSUME NEW f \in Users
      PROVE  SubsFine(u, f)'
  <2>1. CASE k # <<subs, f>>
    <3>1. CalmFor(<<subs, f>>) /\ SubsLasts(u, f) /\ SubsFine(u, f)
      BY <2>1, KeysDiffer DEF Explained
    <3>2. QED
      BY <3>1, SubsCalm
  <2>2. QED
    BY <2>1
<1>3. QED
  BY <1>1, <1>2

\* Nobody else loads the key of a load.
LEMMA LoadsAlone ==
    ASSUME LockInv, stolen = {}, NEW p \in Procs, NEW q \in Procs, p # q,
           call[p].pc \in {"load", "add"}, call[q].pc = "add", call[p].key \in Keys
    PROVE  call[q].key # call[p].key
<1>1. OneLoadUnlessStolen
  BY OneLoad DEF LockInv
<1>2. QED
  BY <1>1 DEF OneLoadUnlessStolen, Loading

\* The loaded value is stored.
LEMMA AddKeeps ==
    ASSUME IInv, NEW p \in Procs, Add(p), UNCHANGED feedVars
    PROVE  IInv'
<1> DEFINE k == call[p].key
           v == call[p].val
           c == [pc |-> "unlock", key |-> call[p].key, tries |-> call[p].tries, val |-> call[p].val]
<1>1. /\ LockInv /\ TypeOK /\ call \in [Procs -> CallType] /\ store \in [Keys -> Values \cup {NoValue}]
      /\ k \in Keys /\ CallOk(call[p]) /\ call[p].pc = "add"
      /\ UNCHANGED <<db, handler, inbox, task, pushed, lost, behind, writes, lock, stolen, faults,
                     sendVars>>
      /\ Workers \subseteq Procs
  BY FeedAssumption DEF IInv, Base, TypeOK, LockInv, CacheTypeOK, Calls, Add, feedVars
<1>2. v # NoValue /\ v \in Values /\ Holds(k, v)
  BY <1>1 DEF CallOk, CallType
<1>3. OnlyCall(p, c)
  BY <1>1, GotoCall DEF Add, CallPc
<1>4. CallOk(c) /\ c.key = k /\ c.val = v /\ c.pc = "unlock"
  BY <1>1 DEF CallOk
<1> HIDE DEF c
<1>5. store'[k] = v /\ \A j \in Keys \ {k} : store'[j] = store[j]
  BY <1>1 DEF Add
<1>6. LockInv'
  BY <1>1, AddStep
<1>7. call'[p] = c /\ \A q \in Procs \ {p} : call'[q] = call[q]
  BY <1>3 DEF OnlyCall
<1>8. Base'
  <2>1. TypeOK'
    BY <1>1, <1>6 DEF TypeOK, LockInv, sendVars
  <2>2. Versions'
    BY <1>1 DEF IInv, Base, Versions
  <2>3. ASSUME NEW w \in Workers
        PROVE  \/ task'[w] = task[w] /\ call'[w] = call[w]
               \/ TaskOk(task'[w], call'[w])
    <3>1. CASE w = p
      <4>1. TaskOk(task[w], call[w])
        BY DEF IInv, Base, Tasks
      <4>2. TaskOk(task[w], c)
        BY <1>1, <1>4, <3>1, <4>1 DEF TaskOk
      <4>3. QED
        BY <1>1, <1>7, <3>1, <4>2
    <3>2. CASE w # p
      BY <1>1, <1>7, <3>2
    <3>3. QED
      BY <3>1, <3>2
  <2>4. \A q \in Procs : call'[q] = call[q] \/ CallOk(call'[q])
    BY <1>4, <1>7
  <2>5. \A j \in Keys : store'[j] = store[j] \/ Holds(j, store'[j])
    BY <1>2, <1>5
  <2>6. QED
    BY <1>6, <2>1, <2>2, <2>3, <2>4, <2>5, BaseNext DEF IInv
<1> HIDE DEF k, v
<1>9. \A w \in Workers : task'[w] = task[w] /\ call'[w].val = call[w].val
                           /\ (w # p => call'[w] = call[w])
  BY <1>1, <1>4, <1>7 DEF v
<1>10. \A w \in Workers : \A e : \A u \in Users :
          /\ ReadsSubs(task[w], call[w], e) => ReadsSubs(task'[w], call'[w], e)
          /\ WillServe(task[w], call[w], e, u) => WillServe(task'[w], call'[w], e, u)
          /\ Serves(task[w], e, u) => Serves(task'[w], e, u)
  BY <1>9 DEF ReadsSubs, WillServe, Serves
<1>11. \A w \in Workers : \A e : \A u \in Users :
          ReadsFeed(task[w], call[w], e, u) => ReadsFeed(task'[w], call'[w], e, u)
  BY <1>9, <1>10 DEF ReadsFeed
<1>12. /\ Waits /\ \A e : Waiting(e) => Waiting(e)'
       /\ \A u : /\ FeedOf(Master, u)' = FeedOf(Master, u)
                 /\ Friends(Master, u)' = Friends(Master, u) /\ NewsOf(u)' = NewsOf(u)
  BY <1>1, SameWaiting, SameFeed
<1>13. \A u \in Users : /\ \A f \in Users : SubsReason(u, f) => SubsReason(u, f)'
                        /\ FeedReason(u) => FeedReason(u)'
  BY <1>1, <1>10, <1>11, <1>12 DEF SubsReason, SubsDue, FeedReason, FeedDue
<1>14. stolen' = {} => Explained'
  <2> SUFFICES ASSUME stolen = {}
               PROVE  Explained'
    BY <1>1
  <2>1. ASSUME NEW q \in Procs, call'[q].pc = "add"
        PROVE  call'[q] = call[q] /\ call'[q].key # k
    BY <1>1, <1>4, <1>7, <2>1, LoadsAlone DEF k
  <2>2. \A j \in Keys \ {k} : CalmFor(j)
    BY <1>5, <2>1 DEF CalmFor
  <2>3. ASSUME NEW w \in Workers, call[w].pc = "add", call[w].key # k
        PROVE  task'[w] = task[w] /\ call'[w] = call[w]
    BY <1>9, <2>3 DEF k
  <2>4. ASSUME NEW u \in Users, NEW f \in Users
        PROVE  /\ k = <<subs, f>> => SubsFine(u, f)'
               /\ k # <<subs, f>> => SubsLasts(u, f)
    <3>1. SubsFine(u, f)
      BY DEF IInv, Explained
    <3>2. CASE k = <<subs, f>>
      <4>1. RightAbout(v, u, f) \/ SubsReason(u, f)
        BY <1>1, <3>1, <3>2 DEF SubsFine, k, v
      <4>2. RightAbout(store[<<subs, f>>], u, f)' \/ SubsReason(u, f)'
        BY <1>1, <1>5, <1>13, <3>2, <4>1 DEF RightAbout
      <4>3. QED
        BY <2>1, <3>2, <4>2 DEF SubsFine
    <3>3. CASE k # <<subs, f>>
      <4>1. ASSUME NEW w \in Workers, AddsSubs(task[w], call[w], FriendEvent(u, f))
            PROVE  AddsSubs(task'[w], call'[w], FriendEvent(u, f))
        <5>1. TaskOk(task[w], call[w])
          BY DEF IInv, Base, Tasks
        <5>2. call[w].key = <<subs, f>> /\ call[w].pc = "add"
          BY <4>1, <5>1, AddsItsKey DEF AddsSubs
        <5>3. QED
          BY <2>3, <3>3, <4>1, <5>2
      <4>2. QED
        BY <1>13, <3>3, <4>1 DEF SubsLasts, SubsComing
    <3>4. QED
      BY <3>2, <3>3
  <2>5. ASSUME NEW u \in Users
        PROVE  /\ k = <<feed, u>> => FeedFine(u)'
               /\ k # <<feed, u>> => FeedLasts(u)
    <3>1. FeedFine(u)
      BY DEF IInv, Explained
    <3>2. CASE k = <<feed, u>>
      <4>1. v = FeedOf(Master, u) \/ FeedReason(u)
        BY <1>1, <3>1, <3>2 DEF FeedFine, k, v
      <4>2. store'[<<feed, u>>] = FeedOf(Master, u)' \/ FeedReason(u)'
        BY <1>5, <1>12, <1>13, <3>2, <4>1
      <4>3. QED
        BY <2>1, <3>2, <4>2 DEF FeedFine
    <3>3. CASE k # <<feed, u>>
      <4>1. ASSUME NEW w \in Workers, NEW e, AddsFeed(task[w], call[w], e, u)
            PROVE  AddsFeed(task'[w], call'[w], e, u)
        <5>1. TaskOk(task[w], call[w])
          BY DEF IInv, Base, Tasks
        <5>2. call[w].key = <<feed, u>> /\ call[w].pc = "add"
          BY <4>1, <5>1, AddsItsKey DEF AddsFeed, Serves
        <5>3. QED
          BY <2>3, <3>3, <4>1, <5>2
      <4>2. QED
        BY <1>12, <1>13, <3>3, <4>1 DEF FeedLasts, FeedComing
    <3>4. QED
      BY <3>2, <3>3
  <2>6. k \in Keys /\ Explained
    BY <1>1 DEF IInv, k
  <2>7. QED
    BY <1>1, <2>2, <2>4, <2>5, <2>6, KeyStep
<1>15. ASSUME Undisturbed'
       PROVE  Sent'
  <2>1. Sent /\ lost' = {}
    BY <1>1, <1>15 DEF IInv, Undisturbed
  <2>2. ASSUME NEW w \in Workers
        PROVE  SendsOn(w)
    <3>1. \A u \in Users : \A e \in NewsOf(u) : WillServe(task[w], call[w], e, u) => PushDue(u)'
      BY <1>10, <1>12 DEF PushDue
    <3>2. QED
      BY <1>9, <3>1 DEF SendsOn
  <2>3. QED
    BY <1>1, <1>12, <2>1, <2>2, PushCalm DEF Sent
<1>16. QED
  BY <1>8, <1>14, <1>15 DEF IInv

\* p has read rows for k: what the master holds, unless that is on record.
HasRead(p, k, rows) ==
    /\ call[p].pc = "load" /\ call[p].key = k
    /\ GotoWith(p, "add", rows)
    /\ rows \in Values /\ Holds(k, rows) /\ rows # NoValue
    /\ rows = Source(Master, k) \/ k \in behind'
    /\ behind' \in {behind, behind \cup {k}}
    /\ faults' \in 0..MaxFaults
    /\ ReadsAfter(p)
    /\ UNCHANGED <<store, lock, stolen, db, handler, inbox, task, pushed, lost, writes, late,
                   overtaken>>

LEMMA ReadsHasRead ==
    ASSUME IInv, NEW p \in Procs, Read(p) \/ ReadCut(p)
    PROVE  LET k == call[p].key IN k \in Keys /\ \E rows : HasRead(p, k, rows)
<1> DEFINE k == call[p].key
<1>1. /\ TypeOK /\ CacheTypeOK /\ ReadNodes \subseteq Nodes
      /\ db \in [Nodes -> [friends: SUBSET Pairs, posts: [Users -> 0..MaxWrites + 1]]]
      /\ faults \in 0..MaxFaults
  BY DEF IInv, Base, TypeOK, CacheTypeOK, ReadNodes, Nodes
<1>2. call[p].pc = "load" /\ k \in Keys
  BY <1>1 DEF Read, ReadCut, ReadSource, CacheTypeOK
<1>3. CASE Read(p)
  <2>1. PICK n \in ReadNodes :
           /\ ReadSource(p, Source(n, k))
           /\ behind' = IF Source(n, k) = Source(Master, k) THEN behind ELSE behind \cup {k}
    BY <1>3 DEF Read
  <2>2. Source(n, k) \in Values /\ Holds(k, Source(n, k)) /\ Source(n, k) # NoValue
    BY <1>1, <1>2, SourceValue
  <2>3. /\ UNCHANGED <<db, handler, inbox, task, pushed, lost, writes, late, overtaken>>
        /\ ReadsAfter(p)
    BY <1>3 DEF Read
  <2>4. HasRead(p, k, Source(n, k))
    BY <1>1, <1>2, <2>1, <2>2, <2>3 DEF HasRead, ReadSource
  <2>5. QED
    BY <1>2, <2>4
<1>4. CASE ReadCut(p)
  <2>1. PICK n \in ReadNodes : \E rows \in (SUBSET Source(n, k)) \ {Source(n, k)} :
           GotoWith(p, "add", rows)
    BY <1>4 DEF ReadCut
  <2>2. PICK rows \in SUBSET Source(n, k) : GotoWith(p, "add", rows)
    BY <2>1
  <2>3. rows \in Values /\ Holds(k, rows) /\ rows # NoValue
    BY <1>1, <1>2, SourceValue
  <2>4. /\ UNCHANGED <<store, lock, stolen, db, handler, inbox, task, pushed, lost, writes,
                       late, overtaken>>
        /\ behind' = behind \cup {k} /\ Fault /\ ReadsAfter(p)
    BY <1>4 DEF ReadCut
  <2>5. faults' \in 0..MaxFaults
    BY <1>1, <2>4, FaultBound
  <2>6. HasRead(p, k, rows)
    BY <1>2, <2>2, <2>3, <2>4, <2>5 DEF HasRead
  <2>7. QED
    BY <1>2, <2>6
<1>5. QED
  BY <1>3, <1>4

\* The call that has read.
LEMMA ReadCall ==
    ASSUME IInv, NEW p \in Procs, NEW k \in Keys, NEW rows, HasRead(p, k, rows)
    PROVE  /\ call'[p].pc = "add" /\ call'[p].key = k /\ call'[p].val = rows
           /\ \A q \in Procs \ {p} : call'[q] = call[q]
           /\ LockInv' /\ Base' /\ call[p].val = NoValue
<1> DEFINE c == [pc |-> "add", key |-> k, tries |-> call[p].tries, val |-> rows]
<1>1. /\ LockInv /\ TypeOK /\ call \in [Procs -> CallType]
      /\ store \in [Keys -> Values \cup {NoValue}]
      /\ CallOk(call[p]) /\ rows \in Values \cup {NoValue}
      /\ UNCHANGED <<db, handler, inbox, task, pushed, lost, writes, lock, stolen, store, late,
                     overtaken>>
      /\ older' \in [Workers -> SUBSET Workers]
      /\ call[p].pc = "load" /\ call[p].key = k /\ GotoWith(p, "add", rows)
      /\ rows # NoValue /\ Holds(k, rows) /\ faults' \in 0..MaxFaults
      /\ behind' \subseteq Keys
  BY DEF IInv, Base, TypeOK, LockInv, CacheTypeOK, Calls, HasRead, ReadsAfter
<1>2. OnlyCall(p, c)
  BY <1>1, GotoWithCall DEF CallPc
<1>3. CallOk(c) /\ c.key = k /\ c.val = rows /\ c.pc = "add"
  BY <1>1 DEF CallOk
<1> HIDE DEF c
<1>4. call'[p] = c /\ \A q \in Procs \ {p} : call'[q] = call[q]
  BY <1>2 DEF OnlyCall
<1>5. LockInv'
  BY <1>1, MoveStep DEF CallPc
<1>6. Base'
  <2>1. TypeOK'
    BY <1>1, <1>5 DEF TypeOK, LockInv
  <2>2. Versions'
    BY <1>1 DEF IInv, Base, Versions
  <2>3. ASSUME NEW w \in Workers
        PROVE  \/ task'[w] = task[w] /\ call'[w] = call[w]
               \/ TaskOk(task'[w], call'[w])
    <3>1. CASE w = p
      <4>1. TaskOk(task[w], call[w])
        BY DEF IInv, Base, Tasks
      <4>2. TaskOk(task[w], c)
        BY <1>1, <1>3, <3>1, <4>1 DEF TaskOk
      <4>3. QED
        BY <1>1, <1>4, <3>1, <4>2
    <3>2. CASE w # p
      BY <1>1, <1>4, <3>2, FeedAssumption
    <3>3. QED
      BY <3>1, <3>2
  <2>4. \A q \in Procs : call'[q] = call[q] \/ CallOk(call'[q])
    BY <1>3, <1>4
  <2>5. \A j \in Keys : store'[j] = store[j] \/ Holds(j, store'[j])
    BY <1>1
  <2>6. QED
    BY <1>5, <2>1, <2>2, <2>3, <2>4, <2>5, BaseNext DEF IInv
<1>7. call[p].val = NoValue
  BY <1>1 DEF CallOk
<1>8. QED
  BY <1>3, <1>4, <1>5, <1>6, <1>7

\* An updater that has read whom the news concerns will come to every friend of
\* the author, unless the read was bad.
LEMMA ReadServes ==
    ASSUME IInv, NEW p \in Workers, NEW k \in Keys, NEW rows, HasRead(p, k, rows),
           NEW u \in Users, NEW e \in NewsOf(u), WillServe(task[p], call[p], e, u)
    PROVE  \/ WillServe(task'[p], call'[p], e, u)
           \/ \E f \in Friends(Master, u) : <<subs, f>> \in behind'
<1>1. /\ call'[p].val = rows /\ task'[p] = task[p] /\ call[p].pc = "load" /\ call[p].key = k
      /\ TaskOk(task[p], call[p]) /\ (rows = Source(Master, k) \/ k \in behind')
      /\ task[p].ev = e
  BY ReadCall, FeedAssumption DEF HasRead, IInv, Base, Tasks, WillServe
<1>2. CASE task[p].stage \in {"fan", "feed"}
  BY <1>1, <1>2 DEF WillServe
<1>3. CASE task[p].stage = "subs" /\ \E f \in Users : e = FriendEvent(u, f)
  BY <1>1, <1>3 DEF WillServe
<1>4. CASE task[p].stage = "subs" /\ ~\E f \in Users : e = FriendEvent(u, f)
  <2>1. e \in {PostEvent(f) : f \in Friends(Master, u)}
    BY <1>4 DEF NewsOf
  <2>2. PICK f \in Friends(Master, u) : e = PostEvent(f)
    BY <2>1
  <2>3. PICK a \in Authors : e = PostEvent(a) /\ k = <<subs, a>>
    BY <1>1, <1>4, <2>2, EventsDiffer DEF TaskOk
  <2>4. k = <<subs, f>>
    BY <2>2, <2>3, EventsDiffer
  <2>5. CASE k \in behind'
    BY <2>2, <2>4, <2>5
  <2>6. CASE rows = Source(Master, k)
    <3>1. u \in rows
      BY <2>2, <2>4, <2>6 DEF Source, Subscribers, Friends
    <3>2. QED
      BY <1>1, <1>4, <3>1 DEF WillServe
  <2>7. QED
    BY <1>1, <2>5, <2>6
<1>5. QED
  BY <1>2, <1>3, <1>4 DEF WillServe

\* What else there is to do after a read.
LEMMA ReadGoesOn ==
    ASSUME IInv, NEW p \in Procs, NEW k \in Keys, NEW rows, HasRead(p, k, rows)
    PROVE  /\ \A w \in Workers : task'[w] = task[w] /\ (w # p => call'[w] = call[w])
           /\ db'[Master] = db[Master] /\ lost' = lost /\ behind \subseteq behind'
           /\ Waits /\ \A e : Waiting(e) => Waiting(e)'
           /\ \A u : /\ FeedOf(Master, u)' = FeedOf(Master, u)
                     /\ Friends(Master, u)' = Friends(Master, u) /\ NewsOf(u)' = NewsOf(u)
<1>1. UNCHANGED <<db, handler, inbox, task, lost>> /\ behind \subseteq behind'
  BY DEF HasRead
<1>2. \A w \in Workers : w # p => call'[w] = call[w]
  BY ReadCall, FeedAssumption
<1>3. QED
  BY <1>1, <1>2, SameWaiting, SameFeed

\* The subscribers of f, after a read.
LEMMA ReadSubs ==
    ASSUME IInv, stolen = {}, NEW p \in Procs, NEW k \in Keys, NEW rows, HasRead(p, k, rows),
           NEW u \in Users, NEW f \in Users
    PROVE  /\ k = <<subs, f>> => SubsFine(u, f)'
           /\ k # <<subs, f>> => SubsLasts(u, f)
<1> DEFINE x == FriendEvent(u, f)
<1>1. /\ SubsFine(u, f)
      /\ \A w \in Workers : TaskOk(task[w], call[w])
      /\ \A w \in Workers : task'[w] = task[w] /\ (w # p => call'[w] = call[w])
      /\ db'[Master] = db[Master] /\ lost' = lost /\ behind \subseteq behind'
      /\ \A e : Waiting(e) => Waiting(e)'
      /\ call[p].pc = "load" /\ call[p].key = k /\ LockInv
      /\ call'[p].pc = "add" /\ call'[p].key = k /\ call'[p].val = rows
      /\ \A q \in Procs \ {p} : call'[q] = call[q]
      /\ store' = store /\ (rows = Source(Master, k) \/ k \in behind')
  BY ReadGoesOn, ReadCall DEF IInv, Explained, Base, TypeOK, LockInv, Tasks, HasRead
<1>2. ASSUME NEW w \in Workers, ReadsSubs(task[w], call[w], x)
      PROVE  \/ SubsReason(u, f)'
             \/ k = <<subs, f>> /\ SubsComing(u, f)'
  <2>1. CASE w # p
    BY <1>1, <1>2, <2>1 DEF SubsReason, SubsDue
  <2>2. CASE w = p
    <3> DEFINE t == task[w]
               c == call[w]
    <3>0. TaskOk(t, c) /\ t.ev = FriendEvent(u, f) /\ t.stage = "subs" /\ c.key = k
      BY <1>1, <1>2, <2>2 DEF ReadsSubs
    <3> HIDE DEF t, c
    <3>1. k = <<subs, f>>
      BY <3>0, AddsItsKey
    <3>2. AddsSubs(task'[w], call'[w], x)
      BY <1>1, <1>2, <2>2 DEF ReadsSubs, AddsSubs
    <3>3. QED
      BY <3>1, <3>2 DEF SubsComing
  <2>3. QED
    BY <2>1, <2>2
<1>3. ASSUME NEW w \in Workers, AddsSubs(task[w], call[w], x)
      PROVE  SubsComing(u, f)'
  <2>1. w # p
    BY <1>1, <1>3 DEF AddsSubs
  <2>2. QED
    BY <1>1, <1>3, <2>1 DEF SubsComing
<1>4. SubsComing(u, f) => SubsComing(u, f)'
  BY <1>3 DEF SubsComing
<1>5. SubsReason(u, f) => SubsReason(u, f)' \/ (k = <<subs, f>> /\ SubsComing(u, f)')
  <2>1. SubsDue(x) => SubsReason(u, f)' \/ (k = <<subs, f>> /\ SubsComing(u, f)')
    BY <1>1, <1>2 DEF SubsDue, SubsReason
  <2>2. QED
    BY <1>1, <2>1 DEF SubsReason
<1> HIDE DEF x
<1>6. CASE k # <<subs, f>>
  BY <1>4, <1>5, <1>6 DEF SubsLasts
<1>7. CASE k = <<subs, f>>
  <2>1. RightAbout(rows, u, f)' \/ SubsReason(u, f)'
    BY <1>1, <1>7 DEF RightAbout, Source, Subscribers, SubsReason
  <2>2. ASSUME NEW q \in Procs, call'[q].pc = "add", call'[q].key = <<subs, f>>
        PROVE  q = p
    BY <1>1, <1>7, <2>2, LoadsAlone
  <2>3. (store[k] # NoValue => RightAbout(store[k], u, f) \/ SubsReason(u, f) \/ SubsComing(u, f))'
    <3>1. store[k] # NoValue => RightAbout(store[k], u, f) \/ SubsReason(u, f) \/ SubsComing(u, f)
      BY <1>1, <1>7 DEF SubsFine
    <3>2. RightAbout(store[k], u, f)' <=> RightAbout(store[k], u, f)
      BY <1>1 DEF RightAbout
    <3>3. QED
      BY <1>1, <1>4, <1>5, <3>1, <3>2
  <2>4. ASSUME NEW q \in Procs, call'[q].pc = "add", call'[q].key = <<subs, f>>
        PROVE  RightAbout(call[q].val, u, f)' \/ SubsReason(u, f)'
    BY <1>1, <2>1, <2>2, <2>4 DEF RightAbout
  <2>5. QED
    BY <1>7, <2>3, <2>4 DEF SubsFine
<1>8. QED
  BY <1>6, <1>7

\* The feed of u, after a read.
LEMMA ReadFeed ==
    ASSUME IInv, stolen = {}, NEW p \in Procs, NEW k \in Keys, NEW rows, HasRead(p, k, rows),
           NEW u \in Users
    PROVE  /\ k = <<feed, u>> => FeedFine(u)'
           /\ k # <<feed, u>> => FeedLasts(u)
<1>1. /\ FeedFine(u)
      /\ \A w \in Workers : TaskOk(task[w], call[w])
      /\ \A w \in Workers : task'[w] = task[w] /\ (w # p => call'[w] = call[w])
      /\ db'[Master] = db[Master] /\ lost' = lost /\ behind \subseteq behind'
      /\ \A e : Waiting(e) => Waiting(e)'
      /\ call[p].pc = "load" /\ call[p].key = k /\ LockInv
      /\ call'[p].pc = "add" /\ call'[p].key = k /\ call'[p].val = rows
      /\ \A q \in Procs \ {p} : call'[q] = call[q]
      /\ store' = store /\ (rows = Source(Master, k) \/ k \in behind')
      /\ FeedOf(Master, u)' = FeedOf(Master, u) /\ NewsOf(u)' = NewsOf(u)
      /\ Friends(Master, u)' = Friends(Master, u)
  BY ReadGoesOn, ReadCall DEF IInv, Explained, Base, TypeOK, LockInv, Tasks, HasRead
<1>2. ASSUME NEW e \in NewsOf(u), NEW w \in Workers, ReadsFeed(task[w], call[w], e, u)
      PROVE  \/ FeedReason(u)'
             \/ k = <<feed, u>> /\ FeedComing(u)'
  <2>1. CASE w # p
    BY <1>1, <1>2, <2>1 DEF FeedReason, FeedDue
  <2>2. CASE w = p /\ WillServe(task[w], call[w], e, u)
    <3>1. CASE WillServe(task'[w], call'[w], e, u)
      BY <1>1, <3>1 DEF FeedReason, FeedDue, ReadsFeed
    <3>2. CASE \E f \in Friends(Master, u) : <<subs, f>> \in behind'
      BY <1>1, <3>2 DEF FeedReason
    <3>3. QED
      BY <2>2, <3>1, <3>2, ReadServes
  <2>3. CASE w = p /\ Serves(task[w], e, u)
    <3>1. k = <<feed, u>>
      BY <1>1, <2>3, AddsItsKey DEF Serves
    <3>2. AddsFeed(task'[w], call'[w], e, u)
      BY <1>1, <2>3 DEF AddsFeed, Serves
    <3>3. QED
      BY <1>1, <3>1, <3>2 DEF FeedComing
  <2>4. QED
    BY <1>2, <2>1, <2>2, <2>3 DEF ReadsFeed
<1>3. ASSUME NEW e \in NewsOf(u), NEW w \in Workers, AddsFeed(task[w], call[w], e, u)
      PROVE  FeedComing(u)'
  <2>1. w # p
    BY <1>1, <1>3 DEF AddsFeed
  <2>2. QED
    BY <1>1, <1>3, <2>1 DEF FeedComing
<1>4. FeedComing(u) => FeedComing(u)'
  BY <1>3 DEF FeedComing
<1>5. FeedReason(u) => FeedReason(u)' \/ (k = <<feed, u>> /\ FeedComing(u)')
  <2>1. ASSUME NEW e \in NewsOf(u), FeedDue(e, u)
        PROVE  FeedReason(u)' \/ (k = <<feed, u>> /\ FeedComing(u)')
    <3>1. CASE Waiting(e)
      BY <1>1, <3>1 DEF FeedReason, FeedDue
    <3>2. CASE \E w \in Workers : ReadsFeed(task[w], call[w], e, u)
      BY <1>2, <3>2
    <3>3. QED
      BY <2>1, <3>1, <3>2 DEF FeedDue
  <2>2. QED
    BY <1>1, <2>1 DEF FeedReason
<1>6. CASE k # <<feed, u>>
  BY <1>4, <1>5, <1>6 DEF FeedLasts
<1>7. CASE k = <<feed, u>>
  <2>1. rows = FeedOf(Master, u)' \/ FeedReason(u)'
    BY <1>1, <1>7, FeedAssumption DEF Source, FeedReason
  <2>2. ASSUME NEW q \in Procs, call'[q].pc = "add", call'[q].key = <<feed, u>>
        PROVE  q = p
    BY <1>1, <1>7, <2>2, LoadsAlone
  <2>3. store'[k] # NoValue =>
           store'[k] = FeedOf(Master, u)' \/ FeedReason(u)' \/ FeedComing(u)'
    BY <1>1, <1>4, <1>5, <1>7 DEF FeedFine
  <2>4. QED
    BY <1>1, <1>7, <2>1, <2>2, <2>3 DEF FeedFine
<1>8. QED
  BY <1>6, <1>7

\* A feed that is read while nobody lost a lock is read after all those of its
\* user that updaters have in hand.
LEMMA ReadFollows ==
    ASSUME IInv, stolen = {}, NEW p \in Workers, NEW k \in Keys, NEW rows, HasRead(p, k, rows),
           NEW u, Has(task[p], u), NEW w \in Workers, w # p, Has(task[w], u),
           call[w].val # NoValue
    PROVE  w \in older'[p]
<1>1. /\ TaskOk(task[w], call[w]) /\ TaskOk(task[p], call[p]) /\ CallOk(call[w])
      /\ call[w].pc \in CallPc /\ p \in Procs /\ w \in Procs /\ HolderLocks
  BY FeedAssumption DEF IInv, Base, Tasks, Calls, TypeOK, CacheTypeOK, CallType
<1>2. call[w].key = <<feed, u>> /\ call[p].key = <<feed, u>>
  BY <1>1, AddsItsKey DEF Has
<1>3. call[p].pc = "load" /\ call[p].key = k
  BY DEF HasRead
<1>4. ~Loading(w, k)
  BY <1>1, <1>3, OneLoad DEF OneLoadUnlessStolen, Loading
<1>5. call[w].pc = "return"
  <2>1. call[w].pc \notin {"idle", "get", "lock", "load"}
    BY <1>1 DEF CallOk
  <2>2. call[w].pc \notin {"load", "add", "unlock"}
    BY <1>2, <1>3, <1>4 DEF Loading
  <2>3. QED
    BY <1>1, <2>1, <2>2 DEF CallPc
<1>6. QED
  BY <1>2, <1>5 DEF HasRead, ReadsAfter, Has

\* What is sent to u, after a read.
LEMMA ReadPush ==
    ASSUME IInv, Undisturbed', NEW p \in Procs, NEW k \in Keys, NEW rows,
           HasRead(p, k, rows), NEW u \in Users
    PROVE  PushFine(u)'
<1>1. /\ \A w \in Workers : TaskOk(task[w], call[w])
      /\ \A w \in Workers : task'[w] = task[w] /\ (w # p => call'[w] = call[w])
      /\ behind' = {} /\ Undisturbed /\ stolen = {}
      /\ \A e : Waiting(e) => Waiting(e)'
      /\ call[p].pc = "load" /\ call[p].key = k
      /\ call'[p].val = rows /\ call[p].val = NoValue
      /\ UNCHANGED <<pushed, late, overtaken>> /\ rows = Source(Master, k)
      /\ FeedOf(Master, u)' = FeedOf(Master, u) /\ NewsOf(u)' = NewsOf(u)
  BY ReadGoesOn, ReadCall DEF IInv, Base, Tasks, HasRead, Undisturbed
<1>2. PushFine(u)
  BY <1>1 DEF IInv, Sent
<1>3. \A w \in Workers \ {p} : older'[w] = older[w]
  BY DEF HasRead, ReadsAfter
<1>4. PushDue(u) => PushDue(u)'
  <2>1. ASSUME NEW e \in NewsOf(u), NEW w \in Workers, WillServe(task[w], call[w], e, u)
        PROVE  WillServe(task'[w], call'[w], e, u)
    <3>1. CASE w # p
      BY <1>1, <2>1, <3>1
    <3>2. CASE w = p
      BY <1>1, <2>1, <3>2, ReadServes
    <3>3. QED
      BY <3>1, <3>2
  <2>2. QED
    BY <1>1, <2>1 DEF PushDue
<1>5. \A v \in Workers \ {p} :
         /\ Brings(task[v], call[v], u) => Brings(task[v], call[v], u)'
         /\ \A w \in Workers : Follows(v, w, u) => Follows(v, w, u)'
  BY <1>1, <1>3 DEF Brings, Follows
<1>6. CASE p \in Workers /\ Has(task[p], u)
  <2>1. call'[p].val = FeedOf(Master, u)' /\ Has(task'[p], u)
    <3>1. TaskOk(task[p], call[p]) /\ task[p].stage = "feed" /\ u \in task[p].to
      BY <1>1, <1>6 DEF Has
    <3>2. k = <<feed, u>>
      BY <1>1, <3>1, AddsItsKey
    <3>3. QED
      BY <1>1, <1>6, <3>2, FeedAssumption DEF Source
  <2>2. Brings(task[p], call[p], u)'
    BY <2>1 DEF Brings
  <2>3. ASSUME NEW w \in Workers, Has(task'[w], u), call'[w].val # NoValue, w # p
        PROVE  Follows(p, w, u)'
    BY <1>1, <1>6, <2>2, <2>3, ReadFollows DEF Follows
  <2>4. QED
    BY <1>6, <2>1, <2>2, <2>3 DEF PushFine
<1>7. CASE ~(p \in Workers /\ Has(task[p], u))
  <2>1. \A v \in Workers :
           /\ Brings(task[v], call[v], u) => Brings(task[v], call[v], u)'
           /\ \A w \in Workers : Follows(v, w, u) => Follows(v, w, u)'
    BY <1>5, <1>7 DEF Brings, Follows
  <2>2. \A w \in Workers : Has(task'[w], u) => Has(task[w], u) /\ call'[w] = call[w]
    BY <1>1, <1>7
  <2>3. QED
    BY <1>1, <1>2, <1>4, <2>1, <2>2 DEF PushFine
<1>8. QED
  BY <1>6, <1>7

\* The database is read.
LEMMA ReadKeeps ==
    ASSUME IInv, NEW p \in Procs, Read(p) \/ ReadCut(p)
    PROVE  IInv'
<1>1. PICK k \in Keys, rows \in Values : HasRead(p, k, rows)
  BY ReadsHasRead DEF HasRead
<1>2. Base' /\ UNCHANGED <<store, stolen>>
  BY <1>1, ReadCall DEF HasRead
<1>3. stolen' = {} => Explained'
  <2> SUFFICES ASSUME stolen = {}
               PROVE  Explained'
    BY <1>2
  <2>1. Explained /\ db'[Master] = db[Master]
    BY <1>1, ReadGoesOn DEF IInv
  <2>2. \A j \in Keys \ {k} : CalmFor(j)
    BY <1>1, <1>2, ReadCall DEF CalmFor
  <2>3. \A u \in Users : \A f \in Users : /\ k = <<subs, f>> => SubsFine(u, f)'
                                          /\ k # <<subs, f>> => SubsLasts(u, f)
    BY <1>1, ReadSubs
  <2>4. \A u \in Users : /\ k = <<feed, u>> => FeedFine(u)'
                         /\ k # <<feed, u>> => FeedLasts(u)
    BY <1>1, ReadFeed
  <2>5. QED
    BY <2>1, <2>2, <2>3, <2>4, KeyStep
<1>4. Undisturbed' => Sent'
  BY <1>1, ReadPush DEF Sent
<1>5. QED
  BY <1>2, <1>3, <1>4 DEF IInv

-----------------------------------------------------------------------------
(* All steps. *)

LEMMA HandlerKeeps ==
    ASSUME IInv, NEW h \in Handlers,
           \/ \E q \in Pairs : AddFriend(h, q[1], q[2]) \/ DeleteFriend(h, q[1], q[2])
           \/ \E a \in Authors : ChangePost(h, a)
           \/ RequestInvalidation(h)
           \/ HandlerStep(h)
    PROVE  IInv'
BY FriendKeeps, PostKeeps, InvalidationKeeps, PublishKeeps, PublishFailsKeeps DEF HandlerStep

LEMMA WorkerKeeps ==
    ASSUME IInv, NEW w \in Workers, WorkerStep(w) \/ Crash(w)
    PROVE  IInv'
<1>1. w \in Procs
  BY FeedAssumption
<1>2. CASE Trip(w)
  <2>1. CASE Add(w)
    BY <1>1, <1>2, <2>1, AddKeeps DEF Trip
  <2>2. CASE ~Add(w)
    BY <1>2, <2>2, HitKeeps, FadesKeeps
  <2>3. QED
    BY <2>1, <2>2
<1>3. CASE Read(w) \/ ReadCut(w)
  BY <1>1, <1>3, ReadKeeps
<1>4. CASE Take(w) \/ GotSubs(w) \/ NoSubs(w) \/ LoadNext(w) \/ Send(w)
  BY <1>4, TakeKeeps, GotSubsKeeps, NoResultKeeps, LoadNextKeeps, SendKeeps
<1>5. CASE \/ SendFails(w) \/ NoFeed(w) \/ Done(w)
           \/ FlushSubs(w) \/ FlushFeed(w) \/ FlushFails(w) \/ Crash(w)
  BY <1>5, SendFailsKeeps, NoResultKeeps, DoneKeeps, FlushKeeps, CrashKeeps
<1>6. QED
  BY <1>2, <1>3, <1>4, <1>5 DEF WorkerStep

LEMMA ReaderStepKeeps ==
    ASSUME IInv, NEW r \in Readers, ReaderStep(r) \/ \E q \in Pairs : Ask(r, q[1])
    PROVE  IInv'
<1>1. r \in Procs
  BY FeedAssumption
<1>2. CASE Trip(r)
  <2>1. CASE Add(r)
    BY <1>1, <1>2, <2>1, AddKeeps DEF Trip
  <2>2. CASE ~Add(r)
    BY <1>2, <2>2, ReaderTripKeeps
  <2>3. QED
    BY <2>1, <2>2
<1>3. CASE Read(r) \/ ReadCut(r)
  BY <1>1, <1>3, ReadKeeps
<1>4. CASE Answer(r)
  <2>1. PICK u \in Users : TRUE
    <3>1. call[r].key \in Keys
      BY <1>1, <1>4 DEF Answer, IInv, Base, TypeOK, CacheTypeOK
    <3>2. QED
      BY <3>1, KeysDiffer
  <2>2. QED
    BY <1>4, <2>1, AskKeeps
<1>5. CASE \E q \in Pairs : Ask(r, q[1])
  <2>1. PICK q \in Pairs : Ask(r, q[1])
    BY <1>5
  <2>2. q[1] \in Users
    BY FeedAssumption
  <2>3. QED
    BY <2>1, <2>2, AskKeeps
<1>6. QED
  BY <1>2, <1>3, <1>4, <1>5 DEF ReaderStep

LEMMA IInvStep == IInv /\ [Next]_vars => IInv'
<1> SUFFICES ASSUME IInv, [Next]_vars
             PROVE  IInv'
  OBVIOUS
<1>1. ASSUME NEW h \in Handlers,
             \/ \E q \in Pairs : AddFriend(h, q[1], q[2]) \/ DeleteFriend(h, q[1], q[2])
             \/ \E a \in Authors : ChangePost(h, a)
             \/ RequestInvalidation(h)
             \/ HandlerStep(h)
      PROVE  IInv'
  BY <1>1, HandlerKeeps
<1>2. ASSUME NEW n \in Replicas, Replicate(n)
      PROVE  IInv'
  BY <1>2, ReplicateKeeps
<1>3. ASSUME NEW w \in Workers, WorkerStep(w) \/ Crash(w)
      PROVE  IInv'
  BY <1>3, WorkerKeeps
<1>4. ASSUME NEW r \in Readers, ReaderStep(r) \/ \E q \in Pairs : Ask(r, q[1])
      PROVE  IInv'
  BY <1>4, ReaderStepKeeps
<1>5. ASSUME NEW k \in Keys, Expire(k)
      PROVE  IInv'
  BY <1>5, ExpireKeeps
<1>6. CASE UNCHANGED vars
  <2>1. UNCHANGED <<store, lock, call, stolen, faults, db, handler, inbox, task, pushed, lost,
                    behind, writes, sendVars>>
    BY <1>6 DEF vars, feedVars
  <2>2. Base' /\ \A w \in Workers : Still(w)
    <3>1. LockInv'
      BY <2>1, LockSame DEF IInv, Base, TypeOK, LockInv, cacheVars
    <3>2. TypeOK'
      BY <2>1, <3>1 DEF IInv, Base, TypeOK, LockInv, sendVars
    <3>3. Versions'
      BY <2>1 DEF IInv, Base, Versions
    <3>4. QED
      BY <2>1, <3>1, <3>2, <3>3, BaseNext DEF IInv, Still
  <2>3. \A k \in Keys : CalmFor(k)
    BY <2>1, QuietRedis
  <2>4. Waits /\ Goes
    BY <2>1, SameWaiting, WaitsGoes
  <2>5. QED
    BY <2>1, <2>2, <2>3, <2>4, IInvStill
<1>7. QED
  BY <1>1, <1>2, <1>3, <1>4, <1>5, <1>6 DEF Next

-----------------------------------------------------------------------------
(* The theorems. *)

\* The invariant holds in every state of every execution.
THEOREM Invariance == Spec => []IInv
BY IInvInit, IInvStep, PTL DEF Spec

\* Variables, events, tasks and calls are what they are said to be; the
\* versions of posts never outgrow the requests that made them.
THEOREM TypeCorrect == Spec => []TypeOK
<1>1. IInv => TypeOK
  BY DEF IInv, Base
<1>2. QED
  BY <1>1, Invariance, PTL

\* Whatever fails and however the replicas lag: a cached feed, or cached
\* subscribers, that are stale once nothing is under way are the trace of a lost
\* notification or of a bad read that concerns just them, as long as no lock of
\* a load was lost.
THEOREM StalenessExplained == Spec => []StaleIsExplained
BY IInvExplains, Invariance, PTL

\* Without losses, lost locks and bad reads the caches are fresh once all
\* notifications have been handled, with any number of updaters and readers.
THEOREM QuietIsFresh == Spec => []QuiescentFresh
BY IInvExplains, ExplainedIsFresh, Invariance, PTL

\* Between updaters and readers no two load a key at a time, unless its lock
\* was lost to a FLUSHDB.
THEOREM LoadsExclude == Spec => []OneLoadUnlessStolen
<1>1. IInv => OneLoadUnlessStolen
  BY OneLoad DEF IInv, Base
<1>2. QED
  BY <1>1, Invariance, PTL

\* However many updaters there are: when nothing was disturbed, the feed that
\* was sent last to a user is the user's feed once all notifications have been
\* handled, unless an updater sent an older one after another had read and sent
\* a newer.
THEOREM LastSentIsCurrent == Spec => []PushedIsCurrent
BY IInvSends, Invariance, PTL
=============================================================================
