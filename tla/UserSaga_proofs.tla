--------------------------- MODULE UserSaga_proofs ---------------------------
(***************************************************************************)
(* Proofs about UserSaga for any users, instances and bounds: a user has   *)
(* at most one event, which is somewhere exactly while the user is pending *)
(* and has lost nothing; and UserSaga implements Registration, so a        *)
(* status is decided once, by the verifier, for ever.                      *)
(***************************************************************************)
EXTENDS UserSaga, TLAPS

\* What kind of event a place holds.
TypesAt(p) ==
    IF p = Queue("verifier-status") \/ \E s \in Socials : p = Inbox(s)
    THEN Verdicts ELSE {"UserCreated"}

Sorted == \A p \in Places : \A e \in events[p] : e.type \in TypesAt(p)

Judged ==
    \A p \in Places : \A e \in events[p] :
       verdict[e.user] = IF e.type \in Verdicts THEN e.type ELSE NoVerdict

Rows ==
    \A u \in Users :
       /\ status[u] = NoRow => verdict[u] = NoVerdict /\ u \notin lost
       /\ status[u] \notin {NoRow, UserPendingVerification} =>
             verdict[u] \in Verdicts /\ status[u] = UserStatus(verdict[u])

IInv == TypeOK /\ OneEventEach /\ Sorted /\ Judged /\ Rows

-----------------------------------------------------------------------------
(* Places. *)

\* A handler, a queue and an inbox are different places, and inboxes of
\* different instances too.
LEMMA PlacesApart ==
    /\ \A a, b : Handler(a) # Queue(b) /\ Handler(a) # Inbox(b) /\ Queue(a) # Inbox(b)
    /\ \A a, b : Inbox(a) = Inbox(b) => a = b
    /\ \A a, b : Queue(a) = Queue(b) => a = b
<1>1. \A a, b : <<"handler", a>> # <<"queue", b>>
  OBVIOUS
<1>2. \A a, b : <<"handler", a>> # <<"inbox", b>>
  OBVIOUS
<1>3. \A a, b : <<"queue", a>> # <<"inbox", b>>
  OBVIOUS
<1>4. \A a, b : <<"inbox", a>> = <<"inbox", b>> => a = b
  OBVIOUS
<1>5. \A a, b : <<"queue", a>> = <<"queue", b>> => a = b
  OBVIOUS
<1>6. QED
  BY <1>1, <1>2, <1>3, <1>4, <1>5 DEF Handler, Queue, Inbox

\* Every place an action names is a place.
LEMMA PlacesAre ==
    /\ \A s \in Socials : Handler(s) \in Places
    /\ \A key \in Keys : Queue(key) \in Places
    /\ \A i \in Instances : Inbox(i) \in Places /\ KeyOf(i) \in Keys
    /\ "user-created" \in Keys /\ "verifier-status" \in Keys
BY DEF Places, Keys, KeyOf

\* Which places hold created events and which hold verdicts.
LEMMA Kinds ==
    /\ \A s \in Socials : TypesAt(Handler(s)) = {"UserCreated"}
    /\ TypesAt(Queue("user-created")) = {"UserCreated"}
    /\ TypesAt(Queue("verifier-status")) = Verdicts
    /\ \A v \in Verifiers : TypesAt(Inbox(v)) = {"UserCreated"}
    /\ \A s \in Socials : TypesAt(Inbox(s)) = Verdicts
    /\ \A i \in Instances : TypesAt(Queue(KeyOf(i))) = TypesAt(Inbox(i))
<1>1. \A s \in Socials : TypesAt(Handler(s)) = {"UserCreated"}
  BY PlacesApart DEF TypesAt
<1>2. TypesAt(Queue("user-created")) = {"UserCreated"}
  BY PlacesApart DEF TypesAt
<1>3. TypesAt(Queue("verifier-status")) = Verdicts
  BY DEF TypesAt
<1>4. \A v \in Verifiers : TypesAt(Inbox(v)) = {"UserCreated"}
  BY PlacesApart, SagaAssumption DEF TypesAt
<1>5. \A s \in Socials : TypesAt(Inbox(s)) = Verdicts
  BY DEF TypesAt
<1>6. \A i \in Instances : TypesAt(Queue(KeyOf(i))) = TypesAt(Inbox(i))
  BY <1>2, <1>3, <1>4, <1>5, SagaAssumption DEF KeyOf, Instances
<1>7. QED
  BY <1>1, <1>2, <1>3, <1>4, <1>5, <1>6

-----------------------------------------------------------------------------
(* What a step does to events, whichever action takes it. *)

Rest == OneEventEach /\ Sorted /\ Judged /\ Rows

\* Events of the users in G go away.  Each of these users has lost an event, or
\* has got the status that the verdict says.
LEMMA EventsGone ==
    ASSUME IInv, NEW G \in SUBSET Users,
           events' \in [Places -> SUBSET Event],
           \A p \in Places : events'[p] \subseteq events[p],
           \A u \in Users : u \in G <=>
              \E p \in Places : \E e \in events[p] : e.user = u /\ e \notin events'[p],
           \A u \in Users \ G : verdict'[u] = verdict[u],
           \/ status' = status /\ lost' = lost \cup G
           \/ /\ lost' = lost
              /\ \A u \in Users \ G : status'[u] = status[u]
              /\ \A u \in G : verdict'[u] \in Verdicts /\ status'[u] = UserStatus(verdict'[u])
    PROVE  Rest'
<1>1. AtMostOneEvent'
  BY DEF IInv, OneEventEach, AtMostOneEvent
<1>2. ASSUME NEW u \in Users
      PROVE  OnItsWay(u)' <=> OnItsWay(u) /\ u \notin G
  <2>1. ASSUME OnItsWay(u)' PROVE OnItsWay(u)
    BY <2>1 DEF OnItsWay, At
  <2>2. ASSUME OnItsWay(u)', u \in G PROVE FALSE
    <3>1. PICK p \in Places : \E e \in events'[p] : e.user = u
      BY <2>2 DEF OnItsWay, At
    <3>2. PICK e \in events'[p] : e.user = u
      BY <3>1
    <3>3. PICK q \in Places : \E f \in events[q] : f.user = u /\ f \notin events'[q]
      BY <2>2
    <3>4. PICK f \in events[q] : f.user = u /\ f \notin events'[q]
      BY <3>3
    <3>5. e \in events[p]
      OBVIOUS
    <3>6. p = q /\ e = f
      BY <3>2, <3>4, <3>5 DEF IInv, OneEventEach, AtMostOneEvent
    <3>7. QED
      BY <3>4, <3>6
  <2>3. ASSUME OnItsWay(u), u \notin G PROVE OnItsWay(u)'
    BY <2>3 DEF OnItsWay, At
  <2>4. QED
    BY <2>1, <2>2, <2>3
<1>3. \A u \in G : status[u] = UserPendingVerification /\ u \notin lost
  BY DEF IInv, OneEventEach, OnItsWay, At, Pending
<1>4. \A u \in Users : Pending(u)' /\ u \notin lost' <=> Pending(u) /\ u \notin lost /\ u \notin G
  BY <1>3 DEF Pending, UserStatus, UserPendingVerification, UserVerificationFailed,
              UserVerificationSucceeded
<1>5. OneEventEach'
  BY <1>1, <1>2, <1>4 DEF IInv, OneEventEach
<1>6. Sorted'
  BY DEF IInv, Sorted, TypesAt
<1>7. Judged'
  <2>1. SUFFICES ASSUME NEW p \in Places, NEW e \in events'[p]
                 PROVE  verdict'[e.user] = IF e.type \in Verdicts THEN e.type ELSE NoVerdict
    BY DEF Judged
  <2>2. e \in events[p] /\ e.user \in Users
    BY DEF Event
  <2>3. OnItsWay(e.user)'
    BY DEF OnItsWay, At
  <2>4. e.user \notin G
    BY <1>2, <2>2, <2>3
  <2>5. QED
    BY <2>2, <2>4 DEF IInv, Judged
<1>8. Rows'
  <2>1. SUFFICES ASSUME NEW u \in Users
                 PROVE  /\ status'[u] = NoRow => verdict'[u] = NoVerdict /\ u \notin lost'
                        /\ status'[u] \notin {NoRow, UserPendingVerification} =>
                              verdict'[u] \in Verdicts /\ status'[u] = UserStatus(verdict'[u])
    BY DEF Rows
  <2>2. CASE u \in G
    BY <1>3, <2>2, SagaAssumption DEF UserStatus, UserPendingVerification,
       UserVerificationFailed, UserVerificationSucceeded
  <2>3. CASE u \notin G
    BY <2>3 DEF IInv, Rows
  <2>4. QED
    BY <2>2, <2>3
<1>9. QED
  BY <1>5, <1>6, <1>7, <1>8 DEF Rest

\* One event goes away.
LEMMA OneGone ==
    ASSUME IInv, NEW p \in Places, NEW e \in events[p],
           events' = [events EXCEPT ![p] = @ \ {e}],
           \A u \in Users \ {e.user} : verdict'[u] = verdict[u],
           \/ status' = status /\ Drop({e})
           \/ /\ lost' = lost
              /\ \A u \in Users \ {e.user} : status'[u] = status[u]
              /\ verdict'[e.user] \in Verdicts
              /\ status'[e.user] = UserStatus(verdict'[e.user])
    PROVE  Rest'
<1>1. events \in [Places -> SUBSET Event] /\ e \in Event /\ e.user \in Users
  BY DEF IInv, TypeOK, Event
<1>2. events' \in [Places -> SUBSET Event] /\ \A q \in Places : events'[q] \subseteq events[q]
  BY <1>1
<1>3. \A u \in Users : u \in {e.user} <=>
         \E q \in Places : \E f \in events[q] : f.user = u /\ f \notin events'[q]
  BY <1>1
<1>4. {f.user : f \in {e}} = {e.user}
  OBVIOUS
<1>5. \/ status' = status /\ lost' = lost \cup {e.user}
      \/ /\ lost' = lost
         /\ \A u \in Users \ {e.user} : status'[u] = status[u]
         /\ \A u \in {e.user} : verdict'[u] \in Verdicts /\ status'[u] = UserStatus(verdict'[u])
  BY <1>4 DEF Drop
<1>6. {e.user} \in SUBSET Users
  BY <1>1
<1>7. QED
  BY <1>2, <1>3, <1>5, <1>6, EventsGone

\* An event moves, possibly becoming another one of the same user that fits
\* the place it moves to.
LEMMA EventMoved ==
    ASSUME IInv, NEW from \in Places, NEW to \in Places, from # to,
           NEW e \in events[from], NEW m \in Event, m.user = e.user, m.type \in TypesAt(to),
           events' = [events EXCEPT ![from] = @ \ {e}, ![to] = @ \cup {m}],
           status' = status, lost' = lost,
           \A u \in Users \ {e.user} : verdict'[u] = verdict[u],
           verdict'[e.user] = IF m.type \in Verdicts THEN m.type ELSE NoVerdict
    PROVE  Rest'
<1>1. /\ events \in [Places -> SUBSET Event] /\ e \in Event /\ e.user \in Users
      /\ AtMostOneEvent
  BY DEF IInv, TypeOK, Event, OneEventEach
<1>2. /\ events'[from] = events[from] \ {e}
      /\ events'[to] = events[to] \cup {m}
      /\ \A p \in Places \ {from, to} : events'[p] = events[p]
  BY <1>1
<1>3. \A p \in Places : \A f \in events'[p] :
         (f \in events[p] /\ f.user # e.user) \/ (p = to /\ f = m)
  BY <1>1, <1>2 DEF AtMostOneEvent
<1>4. \A p \in Places : \A f \in events[p] : f.user # e.user => f \in events'[p]
  BY <1>2
<1>5. AtMostOneEvent'
  BY <1>1, <1>3 DEF AtMostOneEvent
<1>6. ASSUME NEW u \in Users
      PROVE  OnItsWay(u)' <=> OnItsWay(u)
  <2>1. CASE u = e.user
    <3>1. m \in events'[to]
      BY <1>2
    <3>2. OnItsWay(u)'
      BY <2>1, <3>1 DEF OnItsWay, At
    <3>3. OnItsWay(u)
      BY <2>1 DEF OnItsWay, At
    <3>4. QED
      BY <3>2, <3>3
  <2>2. CASE u # e.user
    <3>1. ASSUME NEW p \in Places PROVE At(u, p)' <=> At(u, p)
      BY <2>2, <1>3, <1>4 DEF At
    <3>2. QED
      BY <3>1 DEF OnItsWay
  <2>3. QED
    BY <2>1, <2>2
<1>7. OneEventEach'
  BY <1>5, <1>6 DEF IInv, OneEventEach, Pending
<1>8. Sorted'
  BY <1>3 DEF IInv, Sorted, TypesAt
<1>9. Judged'
  BY <1>1, <1>3 DEF IInv, Judged, TypeOK, Event
<1>10. Rows'
  <2>1. status[e.user] = UserPendingVerification
    BY <1>1 DEF IInv, OneEventEach, OnItsWay, At, Pending
  <2>2. QED
    BY <2>1, SagaAssumption DEF IInv, Rows, UserPendingVerification
<1>11. QED
  BY <1>7, <1>8, <1>9, <1>10 DEF Rest

\* SendData moves its message to the queue, or loses it.
LEMMA SendDataKeeps ==
    ASSUME IInv, NEW from \in Places, NEW key \in Keys, from # Queue(key),
           NEW e \in events[from], NEW m \in Event,
           m.user = e.user, m.type \in TypesAt(Queue(key)),
           SendData(from, e, key, m), status' = status,
           \A u \in Users \ {e.user} : verdict'[u] = verdict[u],
           verdict'[e.user] = IF m.type \in Verdicts THEN m.type ELSE NoVerdict
    PROVE  Rest'
<1>1. CASE key \in bound
  BY <1>1, PlacesAre, EventMoved DEF SendData
<1>2. CASE key \notin bound
  BY <1>2, OneGone DEF SendData
<1>3. QED
  BY <1>1, <1>2

-----------------------------------------------------------------------------
(* Types. *)

\* SendData keeps the types of what it changes.
LEMMA SendDataTypes ==
    ASSUME TypeOK, NEW from \in Places, NEW key \in Keys, NEW e \in Event, NEW m \in Event,
           SendData(from, e, key, m)
    PROVE  events' \in [Places -> SUBSET Event] /\ lost' \subseteq Users
BY PlacesAre DEF TypeOK, SendData, Drop, Event

\* An update stores one of the three statuses.
LEMMA UpdateTypes ==
    ASSUME TypeOK, NEW u \in Users, NEW type, UpdateUserStatus(u, UserStatus(type))
    PROVE  status' \in [Users -> {NoRow, UserPendingVerification,
                                  UserVerificationFailed, UserVerificationSucceeded}]
BY DEF TypeOK, UpdateUserStatus, UserStatus

\* Who has lost an event is a user, and faults stay within their bound.
LEMMA LossTypes ==
    ASSUME TypeOK, NEW gone \in SUBSET Event, Drop(gone)
    PROVE  lost' \subseteq Users
BY DEF TypeOK, Drop, Event

LEMMA FaultTypes == TypeOK /\ Fault => faults' \in 0..MaxFaults
BY SagaAssumption DEF TypeOK, Fault

LEMMA PublishTypes == ASSUME TypeOK, NEW i, PublishFails(i) PROVE faults' \in 0..MaxFaults
BY FaultTypes DEF PublishFails, TypeOK

\* A cut drops some events of the inbox and nothing else.
LEMMA CutDrops ==
    ASSUME TypeOK, NEW i \in Instances, Cut(i)
    PROVE  /\ events' \in [Places -> SUBSET Event] /\ lost' \subseteq Users
           /\ \E gone \in SUBSET Event :
                 /\ Drop(gone)
                 /\ \A p \in Places : events'[p] \subseteq events[p]
                 /\ \A e \in Event : e \in gone <=>
                       \E p \in Places : e \in events[p] /\ e \notin events'[p]
<1>1. PICK kept \in SUBSET events[Inbox(i)] :
         /\ events' = [events EXCEPT ![Inbox(i)] = kept]
         /\ Drop(events[Inbox(i)] \ kept)
  BY DEF Cut
<1>2. Inbox(i) \in Places /\ events \in [Places -> SUBSET Event]
  BY PlacesAre DEF TypeOK
<1>3. (events[Inbox(i)] \ kept) \in SUBSET Event
  BY <1>2
<1>4. /\ events' \in [Places -> SUBSET Event]
      /\ \A p \in Places : events'[p] \subseteq events[p]
      /\ \A e \in Event : e \in events[Inbox(i)] \ kept <=>
            \E p \in Places : e \in events[p] /\ e \notin events'[p]
  BY <1>1, <1>2
<1>5. lost' \subseteq Users
  BY <1>1, <1>3, LossTypes
<1>6. QED
  BY <1>1, <1>3, <1>4, <1>5

\* Every step keeps the types.
LEMMA TypeStep == TypeOK /\ [Next]_vars => TypeOK'
<1> SUFFICES ASSUME TypeOK, [Next]_vars
             PROVE  TypeOK'
  OBVIOUS
<1>1. CASE UNCHANGED vars
  BY <1>1 DEF vars, connVars, TypeOK
<1>2. ASSUME NEW v \in Verifiers, VerifierStep(v)
      PROVE  TypeOK'
  <2>1. PICK e \in Event : (\E type \in Verdicts : ProcessEvent(v, e, type))
                             \/ ProcessEventFails(v, e)
    BY <1>2 DEF VerifierStep
  <2>2. ASSUME NEW type \in Verdicts, ProcessEvent(v, e, type) PROVE TypeOK'
    <3>1. [user |-> e.user, type |-> type] \in Event /\ e.user \in Users
      BY DEF Event
    <3>2. v \in Instances /\ Inbox(v) \in Places
      BY PlacesAre DEF Instances
    <3>3. events' \in [Places -> SUBSET Event] /\ lost' \subseteq Users
      BY <2>2, <3>1, <3>2, PlacesAre, SendDataTypes DEF ProcessEvent
    <3>4. verdict' \in [Users -> Verdicts \cup {NoVerdict}]
      BY <2>2, <3>1 DEF ProcessEvent, connVars, TypeOK
    <3>5. QED
      BY <2>2, <3>3, <3>4 DEF ProcessEvent, connVars, TypeOK
  <2>3. CASE ProcessEventFails(v, e)
    <3>1. lost' \subseteq Users /\ faults' \in 0..MaxFaults
      BY <2>3, LossTypes, PublishTypes DEF ProcessEventFails
    <3>2. QED
      BY <2>3, <3>1 DEF ProcessEventFails, connVars, TypeOK
  <2>4. QED
    BY <2>1, <2>2, <2>3
<1>3. ASSUME NEW s \in Socials, SocialStep(s)
      PROVE  TypeOK'
  <2> Handler(s) \in Places
    BY PlacesAre
  <2>1. ASSUME NEW u \in Users, RegisterUser(s, u) PROVE TypeOK'
    <3>1. [user |-> u, type |-> "UserCreated"] \in Event
      BY DEF Event
    <3>2. events' \in [Places -> SUBSET Event]
      BY <2>1, <3>1 DEF RegisterUser, CreateUser, connVars, TypeOK
    <3>3. QED
      BY <2>1, <3>2 DEF RegisterUser, CreateUser, connVars, TypeOK
  <2>2. ASSUME NEW u \in Users, RegisterUserFails(s, u) PROVE TypeOK'
    BY <2>2, FaultTypes DEF RegisterUserFails, CreateUser, connVars, TypeOK
  <2>3. ASSUME NEW e \in Event, SendUserCreated(s, e) PROVE TypeOK'
    <3>1. events' \in [Places -> SUBSET Event] /\ lost' \subseteq Users
      BY <2>3, PlacesAre, SendDataTypes DEF SendUserCreated
    <3>2. QED
      BY <2>3, <3>1 DEF SendUserCreated, connVars, TypeOK
  <2>4. ASSUME NEW e \in Event, SendUserCreatedFails(s, e) PROVE TypeOK'
    <3>1. lost' \subseteq Users /\ faults' \in 0..MaxFaults
      BY <2>4, LossTypes, PublishTypes DEF SendUserCreatedFails
    <3>2. QED
      BY <2>4, <3>1 DEF SendUserCreatedFails, connVars, TypeOK
  <2>5. ASSUME NEW e \in Event, SetStatus(s, e) PROVE TypeOK'
    <3>1. e.user \in Users
      BY DEF Event
    <3>2. QED
      BY <2>5, <3>1, UpdateTypes DEF SetStatus, connVars, TypeOK
  <2>6. ASSUME NEW e \in Event, SetStatusFails(s, e) PROVE TypeOK'
    <3>1. e.user \in Users
      BY DEF Event
    <3>2. status' \in [Users -> {NoRow, UserPendingVerification,
                                 UserVerificationFailed, UserVerificationSucceeded}]
      BY <2>6, <3>1, UpdateTypes DEF SetStatusFails, connVars, TypeOK
    <3>3. lost' \subseteq Users
      BY <2>6, <3>1 DEF SetStatusFails, Drop, connVars, TypeOK
    <3>4. QED
      BY <2>6, <3>2, <3>3, FaultTypes DEF SetStatusFails, connVars, TypeOK
  <2>7. ASSUME NEW e \in Event, SetStatusCancelled(s, e) PROVE TypeOK'
    BY <2>7 DEF SetStatusCancelled, Drop, Event, connVars, TypeOK
  <2>8. QED
    BY <1>3, <2>1, <2>2, <2>3, <2>4, <2>5, <2>6, <2>7 DEF SocialStep
<1>4. ASSUME NEW i \in Instances, InstanceStep(i)
      PROVE  TypeOK'
  <2>1. ASSUME NEW e \in Event, Deliver(i, e) PROVE TypeOK'
    <3>1. events' \in [Places -> SUBSET Event]
      BY <2>1 DEF Deliver, connVars, TypeOK
    <3>2. QED
      BY <2>1, <3>1 DEF Deliver, connVars, TypeOK
  <2>2. CASE Start(i)
    BY <2>2, PlacesAre DEF Start, connVars, TypeOK
  <2>3. CASE Signal(i)
    BY <2>3, SagaAssumption DEF Signal, connVars, TypeOK
  <2>4. CASE StopConsumer(i)
    <3>1. CASE i \in deaf
      BY <2>4, <3>1 DEF StopConsumer, connVars, TypeOK
    <3>2. CASE i \notin deaf
      BY <2>4, <3>2, CutDrops DEF StopConsumer, connVars, TypeOK
    <3>3. QED
      BY <3>1, <3>2
  <2>5. CASE Exit(i)
    <3>1. events[Handler(i)] \subseteq Event
      BY <2>5, PlacesAre DEF Exit, connVars, TypeOK
    <3>2. events' \in [Places -> SUBSET Event] /\ lost' \subseteq Users
      BY <2>5, <3>1 DEF Exit, Drop, Event, connVars, TypeOK
    <3>3. QED
      BY <2>5, <3>2 DEF Exit, Over, TypeOK
  <2>6. CASE Crash(i)
    <3> DEFINE gone == {Inbox(i)} \cup (IF i \in Socials THEN {Handler(i)} ELSE {})
    <3>1. gone \subseteq Places
      BY PlacesAre
    <3>2. (UNION {events[p] : p \in gone}) \subseteq Event
      BY <3>1 DEF TypeOK
    <3>3. Drop(UNION {events[p] : p \in gone})
          /\ events' = [p \in Places |-> IF p \in gone THEN {} ELSE events[p]]
      BY <2>6 DEF Crash
    <3>4. lost' \subseteq Users
      BY <3>2, <3>3 DEF Drop, Event, connVars, TypeOK
    <3>5. events' \in [Places -> SUBSET Event]
      BY <3>3 DEF TypeOK
    <3>6. QED
      BY <2>6, <3>4, <3>5, FaultTypes DEF Crash, Over, TypeOK
  <2>7. CASE BreakConsuming(i)
    BY <2>7, CutDrops, FaultTypes DEF BreakConsuming, TypeOK
  <2>8. CASE BreakPublishing(i)
    BY <2>8, FaultTypes DEF BreakPublishing, TypeOK
  <2>9. QED
    BY <1>4, <2>1, <2>2, <2>3, <2>4, <2>5, <2>6, <2>7, <2>8 DEF InstanceStep
<1>5. QED
  BY <1>1, <1>2, <1>3, <1>4 DEF Next

-----------------------------------------------------------------------------
(* The invariant. *)

LEMMA IInvInit == Init => IInv
<1> SUFFICES ASSUME Init
             PROVE  IInv
  OBVIOUS
<1>1. TypeOK
  BY SagaAssumption DEF Init, TypeOK
<1>2. OneEventEach /\ Sorted /\ Judged
  BY SagaAssumption DEF Init, OneEventEach, AtMostOneEvent, OnItsWay, At, Pending, Sorted,
     Judged, UserPendingVerification
<1>3. Rows
  BY DEF Init, Rows
<1>4. QED
  BY <1>1, <1>2, <1>3 DEF IInv

\* A step that leaves status, events, verdict and lost alone.
LEMMA Elsewhere ==
    ASSUME IInv, UNCHANGED <<status, events, verdict, lost>>
    PROVE  Rest'
BY DEF IInv, Rest, OneEventEach, AtMostOneEvent, OnItsWay, At, Pending, Sorted, TypesAt,
   Judged, Rows

\* The steps of a verifier: a verdict replaces the created event or is lost.
LEMMA VerifierKeeps ==
    ASSUME IInv, NEW v \in Verifiers, VerifierStep(v)
    PROVE  Rest'
<1> PICK e \in Event : \/ \E type \in Verdicts : ProcessEvent(v, e, type)
                       \/ ProcessEventFails(v, e)
  BY DEF VerifierStep
<1>1. Inbox(v) \in Places /\ Inbox(v) # Queue("verifier-status")
  BY PlacesAre, PlacesApart DEF Instances
<1>2. ASSUME NEW type \in Verdicts, ProcessEvent(v, e, type) PROVE Rest'
  <2> DEFINE m == [user |-> e.user, type |-> type]
  <2>1. m \in Event /\ m.user = e.user /\ m.type = type /\ e.user \in Users
    BY DEF Event
  <2>2. m.type \in TypesAt(Queue("verifier-status"))
    BY <2>1, Kinds
  <2>3. verdict'[e.user] = type /\ \A u \in Users \ {e.user} : verdict'[u] = verdict[u]
    BY <1>2, <2>1 DEF ProcessEvent, IInv, TypeOK
  <2>4. SendData(Inbox(v), e, "verifier-status", m) /\ e \in events[Inbox(v)]
        /\ status' = status
    BY <1>2 DEF ProcessEvent
  <2> HIDE DEF m
  <2>5. QED
    BY <1>1, <2>1, <2>2, <2>3, <2>4, PlacesAre, SendDataKeeps
<1>3. CASE ProcessEventFails(v, e)
  BY <1>1, <1>3, OneGone DEF ProcessEventFails
<1>4. QED
  BY <1>2, <1>3

\* A registration gives its user, who had none, an event.
LEMMA RegisterUserKeeps ==
    ASSUME IInv, NEW s \in Socials, NEW u \in Users, RegisterUser(s, u)
    PROVE  Rest'
<1> DEFINE e == [user |-> u, type |-> "UserCreated"]
<1>1. /\ e \in Event /\ e.user = u /\ e.type = "UserCreated"
      /\ Handler(s) \in Places /\ TypesAt(Handler(s)) = {"UserCreated"}
  BY PlacesAre, Kinds DEF Event
<1>2. status[u] = NoRow /\ status' = [status EXCEPT ![u] = UserPendingVerification]
      /\ events' = [events EXCEPT ![Handler(s)] = @ \cup {e}]
      /\ verdict' = verdict /\ lost' = lost
  BY DEF RegisterUser, CreateUser
<1> HIDE DEF e
<1>3. /\ events \in [Places -> SUBSET Event]
      /\ status \in [Users -> {NoRow, UserPendingVerification,
                                UserVerificationFailed, UserVerificationSucceeded}]
      /\ verdict[u] = NoVerdict /\ u \notin lost
  BY <1>2 DEF IInv, TypeOK, Rows
<1>4. ~Pending(u)
  BY <1>2, SagaAssumption DEF Pending, UserPendingVerification
<1>5. \A p \in Places : \A f \in events[p] : f.user # u
  BY <1>4 DEF IInv, OneEventEach, OnItsWay, At
<1>6. \A p \in Places : \A f \in events'[p] : f \in events[p] \/ (p = Handler(s) /\ f = e)
  BY <1>1, <1>2, <1>3
<1>7. /\ \A p \in Places : events[p] \subseteq events'[p]
      /\ e \in events'[Handler(s)]
  BY <1>1, <1>2, <1>3
<1>8. AtMostOneEvent'
  BY <1>1, <1>5, <1>6 DEF IInv, OneEventEach, AtMostOneEvent
<1>9. \A w \in Users : OnItsWay(w)' <=> OnItsWay(w) \/ w = u
  BY <1>1, <1>6, <1>7 DEF OnItsWay, At
<1>10. \A w \in Users : Pending(w)' <=> Pending(w) \/ w = u
  BY <1>2, <1>3 DEF Pending
<1>11. OneEventEach'
  BY <1>2, <1>3, <1>8, <1>9, <1>10 DEF IInv, OneEventEach
<1>12. Sorted'
  BY <1>1, <1>6 DEF IInv, Sorted, TypesAt
<1>13. Judged'
  BY <1>1, <1>2, <1>3, <1>6 DEF IInv, Judged, Verdicts
<1>14. Rows'
  BY <1>2, <1>3, SagaAssumption DEF IInv, Rows, UserPendingVerification
<1>15. QED
  BY <1>11, <1>12, <1>13, <1>14 DEF Rest

\* A row whose event is never sent.
LEMMA RegisterUserFailsKeeps ==
    ASSUME IInv, NEW s \in Socials, NEW u \in Users, RegisterUserFails(s, u)
    PROVE  Rest'
<1>1. /\ status[u] = NoRow /\ status' = [status EXCEPT ![u] = UserPendingVerification]
      /\ events' = events /\ verdict' = verdict /\ lost' = lost \cup {u}
  BY DEF RegisterUserFails, CreateUser
<1>2. status \in [Users -> {NoRow, UserPendingVerification,
                            UserVerificationFailed, UserVerificationSucceeded}]
  BY DEF IInv, TypeOK
<1>3. ~Pending(u)
  BY <1>1, SagaAssumption DEF Pending, UserPendingVerification
<1>4. AtMostOneEvent' /\ \A w \in Users : OnItsWay(w)' <=> OnItsWay(w)
  BY <1>1 DEF IInv, OneEventEach, AtMostOneEvent, OnItsWay, At
<1>5. OneEventEach'
  BY <1>1, <1>2, <1>3, <1>4 DEF IInv, OneEventEach, Pending
<1>6. Sorted' /\ Judged'
  BY <1>1 DEF IInv, Sorted, TypesAt, Judged
<1>7. Rows'
  BY <1>1, <1>2, SagaAssumption DEF IInv, Rows, UserPendingVerification
<1>8. QED
  BY <1>5, <1>6, <1>7 DEF Rest

\* The update of a user whose verdict arrives takes effect, and stores what the
\* verdict says.
LEMMA UpdateStores ==
    ASSUME IInv, NEW s \in Socials, NEW e \in events[Inbox(s)],
           UpdateUserStatus(e.user, UserStatus(e.type))
    PROVE  /\ e \in Event /\ e.user \in Users
           /\ status[e.user] = UserPendingVerification
           /\ e.type \in Verdicts /\ verdict[e.user] = e.type
           /\ status' = [status EXCEPT ![e.user] = UserStatus(e.type)]
<1>1. Inbox(s) \in Places /\ TypesAt(Inbox(s)) = Verdicts
  BY PlacesAre, Kinds DEF Instances
<1>2. e \in Event /\ e.user \in Users
  BY <1>1 DEF IInv, TypeOK, Event
<1>3. status[e.user] = UserPendingVerification
  BY <1>1, <1>2 DEF IInv, OneEventEach, OnItsWay, At, Pending
<1>4. e.type \in Verdicts /\ verdict[e.user] = e.type
  BY <1>1 DEF IInv, Sorted, Judged
<1>5. status' = [status EXCEPT ![e.user] = UserStatus(e.type)]
  BY <1>3, SagaAssumption DEF UpdateUserStatus, UserStatus, UserPendingVerification,
     UserVerificationFailed, UserVerificationSucceeded
<1>6. QED
  BY <1>2, <1>3, <1>4, <1>5

\* The handled verdict is gone and its user has the status it says.
LEMMA UpdateKeeps ==
    ASSUME IInv, NEW s \in Socials, NEW e \in events[Inbox(s)],
           events' = [events EXCEPT ![Inbox(s)] = @ \ {e}],
           UpdateUserStatus(e.user, UserStatus(e.type)), verdict' = verdict, lost' = lost
    PROVE  Rest'
<1>1. Inbox(s) \in Places
  BY PlacesAre DEF Instances
<1>2. /\ e.user \in Users /\ verdict'[e.user] \in Verdicts
      /\ status' = [status EXCEPT ![e.user] = UserStatus(verdict'[e.user])]
  BY UpdateStores
<1>3. /\ status'[e.user] = UserStatus(verdict'[e.user])
      /\ \A u \in Users \ {e.user} : status'[u] = status[u]
  BY <1>2 DEF IInv, TypeOK
<1>4. QED
  BY <1>1, <1>2, <1>3, OneGone

\* The steps of a social instance.
LEMMA SocialKeeps ==
    ASSUME IInv, NEW s \in Socials, SocialStep(s)
    PROVE  Rest'
<1>1. /\ Handler(s) \in Places /\ Handler(s) # Queue("user-created")
      /\ Inbox(s) \in Places
  BY PlacesAre, PlacesApart DEF Instances
<1>2. ASSUME NEW u \in Users, RegisterUser(s, u) PROVE Rest'
  BY <1>2, RegisterUserKeeps
<1>3. ASSUME NEW u \in Users, RegisterUserFails(s, u) PROVE Rest'
  BY <1>3, RegisterUserFailsKeeps
<1>4. ASSUME NEW e \in Event, SendUserCreated(s, e) PROVE Rest'
  <2>1. e \in events[Handler(s)] /\ SendData(Handler(s), e, "user-created", e)
        /\ status' = status /\ verdict' = verdict
    BY <1>4 DEF SendUserCreated
  <2>2. e.type = "UserCreated" /\ verdict[e.user] = NoVerdict
    BY <1>1, <2>1, Kinds DEF IInv, Sorted, Judged, Verdicts
  <2>3. e.type \in TypesAt(Queue("user-created")) /\ e.type \notin Verdicts
    BY <2>2, Kinds DEF Verdicts
  <2>4. QED
    BY <1>1, <2>1, <2>2, <2>3, PlacesAre, SendDataKeeps
<1>5. ASSUME NEW e \in Event, SendUserCreatedFails(s, e) PROVE Rest'
  BY <1>1, <1>5, OneGone DEF SendUserCreatedFails
<1>6. ASSUME NEW e \in Event, SetStatus(s, e) PROVE Rest'
  BY <1>6, UpdateKeeps DEF SetStatus
<1>7. ASSUME NEW e \in Event, SetStatusFails(s, e) PROVE Rest'
  <2>1. CASE UpdateUserStatus(e.user, UserStatus(e.type)) /\ UNCHANGED lost
    BY <1>7, <2>1, UpdateKeeps DEF SetStatusFails
  <2>2. CASE UNCHANGED status /\ Drop({e})
    BY <1>1, <1>7, <2>2, OneGone DEF SetStatusFails
  <2>3. QED
    BY <1>7, <2>1, <2>2 DEF SetStatusFails
<1>8. ASSUME NEW e \in Event, SetStatusCancelled(s, e) PROVE Rest'
  BY <1>1, <1>8, OneGone DEF SetStatusCancelled
<1>9. QED
  BY <1>2, <1>3, <1>4, <1>5, <1>6, <1>7, <1>8 DEF SocialStep

\* A set of events goes away, and their users have lost them.
LEMMA BatchGone ==
    ASSUME IInv, NEW gone \in SUBSET Event,
           events' \in [Places -> SUBSET Event],
           \A p \in Places : events'[p] \subseteq events[p],
           \A e \in Event : e \in gone <=>
              \E p \in Places : e \in events[p] /\ e \notin events'[p],
           Drop(gone), status' = status, verdict' = verdict
    PROVE  Rest'
<1> DEFINE G == {e.user : e \in gone}
<1>1. G \in SUBSET Users
  BY DEF Event
<1>2. \A p \in Places : events[p] \subseteq Event
  BY DEF IInv, TypeOK
<1>3. \A u \in Users : u \in G <=>
         \E p \in Places : \E e \in events[p] : e.user = u /\ e \notin events'[p]
  BY <1>2
<1>4. lost' = lost \cup G
  BY DEF Drop
<1> HIDE DEF G
<1>5. QED
  BY <1>1, <1>3, <1>4, EventsGone

\* The broker's deliveries, and starts, stops and crashes of processes.
LEMMA InstanceKeeps ==
    ASSUME IInv, NEW i \in Instances, InstanceStep(i)
    PROVE  Rest'
<1>1. Inbox(i) \in Places /\ Queue(KeyOf(i)) \in Places /\ Queue(KeyOf(i)) # Inbox(i)
  BY PlacesAre, PlacesApart
<1>2. events \in [Places -> SUBSET Event]
  BY DEF IInv, TypeOK
<1>3. ASSUME NEW e \in Event, Deliver(i, e) PROVE Rest'
  <2>1. /\ e \in events[Queue(KeyOf(i))] /\ status' = status /\ lost' = lost
        /\ verdict' = verdict
        /\ events' = [events EXCEPT ![Queue(KeyOf(i))] = @ \ {e}, ![Inbox(i)] = @ \cup {e}]
    BY <1>3 DEF Deliver
  <2>2. e.type \in TypesAt(Inbox(i))
    BY <1>1, <2>1, Kinds DEF IInv, Sorted
  <2>3. verdict[e.user] = IF e.type \in Verdicts THEN e.type ELSE NoVerdict
    BY <1>1, <2>1 DEF IInv, Judged
  <2>4. QED
    BY <1>1, <2>1, <2>2, <2>3, EventMoved
<1>4. CASE Start(i)
  BY <1>4, Elsewhere DEF Start
<1>5. CASE Signal(i)
  BY <1>5, Elsewhere DEF Signal
<1>6. ASSUME Cut(i), status' = status, verdict' = verdict PROVE Rest'
  <2>1. PICK gone \in SUBSET Event :
           /\ Drop(gone) /\ events' \in [Places -> SUBSET Event]
           /\ \A p \in Places : events'[p] \subseteq events[p]
           /\ \A e \in Event : e \in gone <=>
                 \E p \in Places : e \in events[p] /\ e \notin events'[p]
    BY <1>6, CutDrops DEF IInv
  <2>2. QED
    BY <1>6, <2>1, BatchGone
<1>7. CASE Exit(i)
  <2>1. Handler(i) \in Places
    BY <1>7, PlacesAre DEF Exit
  <2>2. /\ events' = [events EXCEPT ![Handler(i)] = {}]
        /\ Drop(events[Handler(i)]) /\ status' = status /\ verdict' = verdict
    BY <1>7 DEF Exit
  <2>3. /\ events[Handler(i)] \in SUBSET Event
        /\ events' \in [Places -> SUBSET Event]
        /\ \A p \in Places : events'[p] \subseteq events[p]
        /\ \A e \in Event : e \in events[Handler(i)] <=>
              \E p \in Places : e \in events[p] /\ e \notin events'[p]
    BY <1>2, <2>1, <2>2
  <2>4. QED
    BY <2>2, <2>3, BatchGone
<1>8. CASE Crash(i)
  <2> DEFINE places == {Inbox(i)} \cup (IF i \in Socials THEN {Handler(i)} ELSE {})
             gone == UNION {events[p] : p \in places}
  <2>1. places \subseteq Places
    BY PlacesAre
  <2>2. /\ events' = [p \in Places |-> IF p \in places THEN {} ELSE events[p]]
        /\ Drop(gone) /\ status' = status /\ verdict' = verdict
    BY <1>8 DEF Crash
  <2> HIDE DEF places
  <2>3. /\ gone \in SUBSET Event
        /\ events' \in [Places -> SUBSET Event]
        /\ \A p \in Places : events'[p] \subseteq events[p]
    BY <1>2, <2>1, <2>2
  <2>4. \A e \in Event : e \in gone <=>
           \E p \in Places : e \in events[p] /\ e \notin events'[p]
    BY <1>2, <2>1, <2>2
  <2> HIDE DEF gone
  <2>5. QED
    BY <2>2, <2>3, <2>4, BatchGone
<1>9. CASE StopConsumer(i)
  <2>1. CASE i \in deaf
    BY <1>9, <2>1, Elsewhere DEF StopConsumer
  <2>2. CASE i \notin deaf
    BY <1>6, <1>9, <2>2 DEF StopConsumer
  <2>3. QED
    BY <2>1, <2>2
<1>10. CASE BreakConsuming(i)
  BY <1>6, <1>10 DEF BreakConsuming
<1>11. CASE BreakPublishing(i)
  BY <1>11, Elsewhere DEF BreakPublishing
<1>12. QED
  BY <1>3, <1>4, <1>5, <1>7, <1>8, <1>9, <1>10, <1>11 DEF InstanceStep

-----------------------------------------------------------------------------
(* Theorems. *)

\* The invariant behind the theorems below holds in every reachable state.
THEOREM Invariance == Spec => []IInv
<1>1. IInv /\ [Next]_vars => IInv'
  <2> SUFFICES ASSUME IInv, [Next]_vars
               PROVE  IInv'
    OBVIOUS
  <2>1. TypeOK'
    BY TypeStep DEF IInv
  <2>2. Rest'
    <3>1. CASE UNCHANGED vars
      BY <3>1, Elsewhere DEF vars
    <3>2. CASE Next
      BY <3>2, VerifierKeeps, SocialKeeps, InstanceKeeps DEF Next
    <3>3. QED
      BY <3>1, <3>2
  <2>3. QED
    BY <2>1, <2>2 DEF IInv, Rest
<1>2. QED
  BY <1>1, IInvInit, PTL DEF Spec

\* Every variable keeps its type.
THEOREM TypeCorrect == Spec => []TypeOK
<1>1. IInv => TypeOK
  BY DEF IInv
<1>2. QED
  BY <1>1, Invariance, PTL

\* A user has at most one event anywhere, and has it exactly while pending and
\* without a loss: nothing is handled twice, nothing vanishes unnoticed, however
\* instances come and go.
THEOREM EventsAccounted == Spec => []OneEventEach
<1>1. IInv => OneEventEach
  BY DEF IInv
<1>2. QED
  BY <1>1, Invariance, PTL

\* A step of the saga is a step of Registration, or leaves its variables alone.
LEMMA StepRefines == IInv /\ [Next]_vars => [Promise!Next]_(Promise!vars)
<1> SUFFICES ASSUME IInv, [Next]_vars
             PROVE  Promise!Next \/ UNCHANGED <<status, verdict>>
  BY DEF Promise!vars
<1>1. CASE UNCHANGED vars
  BY <1>1 DEF vars
<1>2. ASSUME NEW v \in Verifiers, NEW e \in Event, NEW type \in Verdicts,
             ProcessEvent(v, e, type)
      PROVE  Promise!Next
  <2>1. Inbox(v) \in Places /\ e \in events[Inbox(v)] /\ e.user \in Users
    BY <1>2, PlacesAre DEF ProcessEvent, Instances, Event
  <2>2. status[e.user] = UserPendingVerification
    BY <2>1 DEF IInv, OneEventEach, OnItsWay, At, Pending
  <2>3. verdict[e.user] = NoVerdict
    BY <2>1, Kinds DEF IInv, Sorted, Judged, Verdicts
  <2>4. Promise!Judge(e.user)
    BY <1>2, <2>2, <2>3 DEF ProcessEvent, Promise!Judge, Promise!Verdicts, Verdicts,
       Promise!UserPendingVerification, UserPendingVerification
  <2>5. QED
    BY <2>1, <2>4 DEF Promise!Next
<1>3. ASSUME NEW u \in Users, NEW s \in Socials, RegisterUser(s, u) \/ RegisterUserFails(s, u)
      PROVE  Promise!Next
  BY <1>3 DEF RegisterUser, RegisterUserFails, CreateUser, Promise!Register, Promise!Next,
     Promise!UserPendingVerification, UserPendingVerification
<1>4. ASSUME NEW s \in Socials, NEW e \in events[Inbox(s)],
             UpdateUserStatus(e.user, UserStatus(e.type)), verdict' = verdict
      PROVE  Promise!Next
  <2>1. /\ e.user \in Users /\ status[e.user] = UserPendingVerification
        /\ e.type \in Verdicts /\ verdict[e.user] = e.type
        /\ status' = [status EXCEPT ![e.user] = UserStatus(e.type)]
    BY <1>4, UpdateStores
  <2>2. Promise!Settle(e.user)
    BY <1>4, <2>1 DEF Promise!Settle, Promise!Verdicts, Verdicts, Promise!StatusOf, UserStatus,
       Promise!UserPendingVerification, UserPendingVerification,
       Promise!UserVerificationFailed, UserVerificationFailed,
       Promise!UserVerificationSucceeded, UserVerificationSucceeded
  <2>3. QED
    BY <2>1, <2>2 DEF Promise!Next
<1>5. ASSUME NEW v \in Verifiers, VerifierStep(v)
      PROVE  Promise!Next \/ UNCHANGED <<status, verdict>>
  BY <1>2, <1>5 DEF VerifierStep, ProcessEventFails
<1>6. ASSUME NEW s \in Socials, SocialStep(s)
      PROVE  Promise!Next \/ UNCHANGED <<status, verdict>>
  <2>1. ASSUME NEW e \in Event, SendUserCreated(s, e) \/ SendUserCreatedFails(s, e)
                                \/ SetStatusCancelled(s, e)
        PROVE  UNCHANGED <<status, verdict>>
    BY <2>1 DEF SendUserCreated, SendUserCreatedFails, SetStatusCancelled
  <2>2. ASSUME NEW e \in Event, SetStatus(s, e) \/ SetStatusFails(s, e)
        PROVE  Promise!Next \/ UNCHANGED <<status, verdict>>
    BY <1>4, <2>2 DEF SetStatus, SetStatusFails
  <2>3. QED
    BY <1>3, <1>6, <2>1, <2>2 DEF SocialStep
<1>7. ASSUME NEW i \in Instances, InstanceStep(i)
      PROVE  UNCHANGED <<status, verdict>>
  BY <1>7 DEF InstanceStep, Deliver, BreakConsuming, BreakPublishing, Start, Signal,
     StopConsumer, Exit, Crash
<1>8. QED
  BY <1>1, <1>5, <1>6, <1>7 DEF Next

\* The saga implements Registration: the row appears pending, the verifier gives
\* at most one verdict, and the status then becomes what it says, for ever.
THEOREM Implements == Spec => RefinesRegistration
<1>1. Init => Promise!Init
  BY DEF Init, Promise!Init
<1>2. QED
  BY <1>1, StepRefines, Invariance, PTL DEF Spec, RefinesRegistration, Promise!Spec
==============================================================================
