------------------------------ MODULE UserSaga ------------------------------
(***************************************************************************)
(* The registration of a user as a choreographed saga: the social service  *)
(* inserts the row and publishes "user created" (user_service.go), a       *)
(* verifier publishes a verdict (verifier.go, verifier_processor.go) and a *)
(* social instance sets the status (user_status_service.go).  Both event   *)
(* queues are durable and shared by the instances that consume from them;  *)
(* instances start, stop and crash (rabbit/consumer.go, the two main.go),  *)
(* and a connection to the broker, dialled once (rabbit/queue.go), may go. *)
(*                                                                         *)
(* An event is in one of the places below.  Places are sets: events of     *)
(* different users commute, and a user's events cannot overtake each       *)
(* other, since the second is made from the first.  Receiving a message    *)
(* and handling it are one action, because between the two the message     *)
(* can only be lost with the inbox it came from.                           *)
(***************************************************************************)
EXTENDS Naturals, FiniteSets

CONSTANTS
    Users,
    Verifiers,   \* instances of the verifier service
    Socials,     \* instances of the social service
    NoRow, NoVerdict,
    MaxFaults,   \* bound: failed calls, crashes and lost connections
    MaxStops     \* bound: instances told to stop

Instances == Verifiers \cup Socials

ASSUME SagaAssumption ==
    /\ Verifiers \cap Socials = {}
    /\ NoRow \notin Nat
    /\ NoVerdict \notin {"UserVerifiedEvent", "UserVerificationFailedEvent"}
    /\ MaxFaults \in Nat /\ MaxStops \in Nat

VARIABLES
    status,    \* [Users -> users.user_status, or NoRow]
    life,      \* [Instances -> where the process is]
    bound,     \* routing keys whose queue is bound to the exchange
    deaf,      \* instances whose connection for consuming is gone
    mute,      \* instances whose connection for publishing is gone
    events,    \* [Places -> events that are there]
    verdict,   \* history: the verdict published for each user
    lost,      \* history: users with an event lost
    faults, stops

connVars == <<deaf, mute>>
vars == <<status, life, bound, connVars, events, verdict, lost, faults, stops>>

UserPendingVerification == 0
UserVerificationFailed == 10
UserVerificationSucceeded == 100

Verdicts == {"UserVerifiedEvent", "UserVerificationFailedEvent"}
Event == [user: Users, type: {"UserCreated"} \cup Verdicts]

Keys == {"user-created", "verifier-status"}

KeyOf(i) == IF i \in Verifiers THEN "user-created" ELSE "verifier-status"

Handler(s) == <<"handler", s>>  \* goroutines of RegisterUser, row inserted
Queue(key) == <<"queue", key>>  \* the broker's queue
Inbox(i) == <<"inbox", i>>      \* pushed to i: client buffer, relay, message in hand

Places == {Handler(s) : s \in Socials} \cup {Queue(key) : key \in Keys}
              \cup {Inbox(i) : i \in Instances}

TypeOK ==
    /\ status \in [Users -> {NoRow, UserPendingVerification,
                             UserVerificationFailed, UserVerificationSucceeded}]
    /\ life \in [Instances -> {"down", "up", "stopping", "draining"}]
    /\ bound \subseteq Keys
    /\ deaf \subseteq Instances /\ mute \subseteq Instances
    /\ events \in [Places -> SUBSET Event]
    /\ verdict \in [Users -> Verdicts \cup {NoVerdict}]
    /\ lost \subseteq Users
    /\ faults \in 0..MaxFaults
    /\ stops \in 0..MaxStops

Init ==
    /\ status = [u \in Users |-> NoRow]
    /\ life = [i \in Instances |-> "down"]
    /\ bound = {}
    /\ deaf = {} /\ mute = {}
    /\ events = [p \in Places |-> {}]
    /\ verdict = [u \in Users |-> NoVerdict]
    /\ lost = {}
    /\ faults = 0 /\ stops = 0

Fault == faults < MaxFaults /\ faults' = faults + 1

(***************************************************************************)
(* The rabbit wrapper.  mandatory is false, so the broker silently drops   *)
(* what is published under a key without a binding.                        *)
(***************************************************************************)
Drop(gone) ==
    lost' = lost \cup {e.user : e \in gone}

\* A slip: the message stays where it came from, to be sent again.
SendAndKeep(from, e, key, m) ==
    /\ events' = [events EXCEPT ![Queue(key)] = @ \cup {m}]
    /\ UNCHANGED lost

\* The message e at from becomes the message m in the queue of key.
SendData(from, e, key, m) ==
    IF key \in bound
    THEN /\ events' = [events EXCEPT ![from] = @ \ {e}, ![Queue(key)] = @ \cup {m}]
         /\ UNCHANGED lost
    ELSE /\ events' = [events EXCEPT ![from] = @ \ {e}]
         /\ Drop({e})

\* noAck and no prefetch limit: the broker pushes and forgets.
Deliver(i, e) ==
    /\ life[i] \in {"up", "stopping"} /\ i \notin deaf
    /\ e \in events[Queue(KeyOf(i))]
    /\ events' = [events EXCEPT ![Queue(KeyOf(i))] = @ \ {e},
                                ![Inbox(i)] = @ \cup {e}]
    /\ UNCHANGED <<status, life, bound, connVars, verdict, lost, faults, stops>>

\* What the client has buffered for i is dropped: it stops between any two
\* messages.
Cut(i) ==
    \E kept \in SUBSET events[Inbox(i)] :
       /\ events' = [events EXCEPT ![Inbox(i)] = kept]
       /\ Drop(events[Inbox(i)] \ kept)

\* The connection that i consumes over goes, and nobody dials again: the loop of
\* the consumer ends, the process stays.  A social instance publishes over the
\* same connection, a verifier over another one.
BreakConsuming(i) ==
    /\ Fault
    /\ life[i] \in {"up", "stopping"} /\ i \notin deaf
    /\ deaf' = deaf \cup {i}
    /\ mute' = IF i \in Socials THEN mute \cup {i} ELSE mute
    /\ Cut(i)
    /\ UNCHANGED <<status, life, bound, verdict, stops>>

BreakPublishing(i) ==
    /\ Fault
    /\ \/ i \in Verifiers /\ life[i] # "down"
       \/ i \in Socials /\ life[i] = "draining"
    /\ i \notin mute
    /\ mute' = mute \cup {i}
    /\ UNCHANGED <<status, life, bound, deaf, events, verdict, lost, stops>>

\* A publication fails: without the connection always, with it by a fault.
PublishFails(i) == IF i \in mute THEN UNCHANGED faults ELSE Fault

(***************************************************************************)
(* RegisterUser: the row, then the event.  A failed CreateUser matters     *)
(* only if the row was committed after all: nobody publishes its event.    *)
(* The id is a new uuid, so a row is inserted once.                        *)
(***************************************************************************)
CreateUser(u) ==
    /\ status[u] = NoRow
    /\ status' = [status EXCEPT ![u] = UserPendingVerification]

RegisterUser(s, u) ==
    /\ life[s] # "down"
    /\ CreateUser(u)
    /\ events' = [events EXCEPT
                      ![Handler(s)] = @ \cup {[user |-> u, type |-> "UserCreated"]}]
    /\ UNCHANGED <<life, bound, connVars, verdict, lost, faults, stops>>

RegisterUserFails(s, u) ==
    /\ Fault
    /\ life[s] # "down"
    /\ CreateUser(u)
    /\ lost' = lost \cup {u}
    /\ UNCHANGED <<life, bound, connVars, events, verdict, stops>>

SendUserCreated(s, e) ==
    /\ life[s] # "down" /\ s \notin mute
    /\ e \in events[Handler(s)]
    /\ SendData(Handler(s), e, "user-created", e)
    /\ UNCHANGED <<status, life, bound, connVars, verdict, faults, stops>>

\* The error is logged and the id returned all the same.  (An error after the
\* broker has taken the message differs from success in the log only.)
SendUserCreatedFails(s, e) ==
    /\ PublishFails(s)
    /\ life[s] # "down"
    /\ e \in events[Handler(s)]
    /\ events' = [events EXCEPT ![Handler(s)] = @ \ {e}]
    /\ Drop({e})
    /\ UNCHANGED <<status, life, bound, connVars, verdict, stops>>

(***************************************************************************)
(* The verifier.  The verdict depends on the parity of the clock's second. *)
(* Its answer to an unreadable event is left out: only SendUserCreated     *)
(* publishes under the key.                                                *)
(* The AMQP client does not heed the context, so publishing works while it *)
(* drains its inbox after the signal.                                      *)
(***************************************************************************)
\* A slip: the received event is passed on with the type it had.
PassOn(v, e, type) ==
    /\ life[v] # "down" /\ v \notin mute
    /\ e \in events[Inbox(v)]
    /\ SendData(Inbox(v), e, "verifier-status", e)
    /\ verdict' = [verdict EXCEPT ![e.user] = e.type]
    /\ UNCHANGED <<status, life, bound, connVars, faults, stops>>

ProcessEvent(v, e, type) ==
    /\ life[v] # "down" /\ v \notin mute
    /\ e \in events[Inbox(v)]
    /\ SendData(Inbox(v), e, "verifier-status", [user |-> e.user, type |-> type])
    /\ verdict' = [verdict EXCEPT ![e.user] = type]
    /\ UNCHANGED <<status, life, bound, connVars, faults, stops>>

ProcessEventFails(v, e) ==
    /\ PublishFails(v)
    /\ life[v] # "down"
    /\ e \in events[Inbox(v)]
    /\ events' = [events EXCEPT ![Inbox(v)] = @ \ {e}]
    /\ Drop({e})
    /\ UNCHANGED <<status, life, bound, connVars, verdict, stops>>

(***************************************************************************)
(* UserStatusService.  The context of an update derives from the one that  *)
(* the signal cancels: from then on every update fails, and the message is *)
(* gone.                                                                   *)
(***************************************************************************)
\* A slip: the two types swapped.
UserStatusSwapped(type) ==
    IF type = "UserVerifiedEvent" THEN UserVerificationFailed
                                  ELSE UserVerificationSucceeded

UserStatus(type) ==
    IF type = "UserVerifiedEvent" THEN UserVerificationSucceeded
                                  ELSE UserVerificationFailed

\* A slip: the comparison the wrong way round.
UpdateIfGreater(u, new) ==
    status' = IF status[u] # NoRow /\ status[u] > new
              THEN [status EXCEPT ![u] = new] ELSE status

\* UPDATE users SET user_status = new WHERE id = u AND user_status < new
UpdateUserStatus(u, new) ==
    status' = IF status[u] # NoRow /\ status[u] < new
              THEN [status EXCEPT ![u] = new] ELSE status

SetStatus(s, e) ==
    /\ life[s] = "up"
    /\ e \in events[Inbox(s)]
    /\ events' = [events EXCEPT ![Inbox(s)] = @ \ {e}]
    /\ UpdateUserStatus(e.user, UserStatus(e.type))
    /\ UNCHANGED <<life, bound, connVars, verdict, lost, faults, stops>>

SetStatusFails(s, e) ==
    /\ Fault
    /\ life[s] = "up"
    /\ e \in events[Inbox(s)]
    /\ events' = [events EXCEPT ![Inbox(s)] = @ \ {e}]
    /\ \/ UpdateUserStatus(e.user, UserStatus(e.type)) /\ UNCHANGED lost
       \/ UNCHANGED status /\ Drop({e})
    /\ UNCHANGED <<life, bound, connVars, verdict, stops>>

SetStatusCancelled(s, e) ==
    /\ life[s] \in {"stopping", "draining"}
    /\ e \in events[Inbox(s)]
    /\ events' = [events EXCEPT ![Inbox(s)] = @ \ {e}]
    /\ Drop({e})
    /\ UNCHANGED <<status, life, bound, connVars, verdict, faults, stops>>

(***************************************************************************)
(* Processes.                                                              *)
(***************************************************************************)
\* Consumer.Start declares and binds the shared queue, ReceiveData consumes.
Start(i) ==
    /\ life[i] = "down"
    /\ life' = [life EXCEPT ![i] = "up"]
    /\ bound' = bound \cup {KeyOf(i)}
    /\ UNCHANGED <<status, connVars, events, verdict, lost, faults, stops>>

Signal(i) ==
    /\ stops < MaxStops /\ stops' = stops + 1
    /\ life[i] = "up"
    /\ life' = [life EXCEPT ![i] = "stopping"]
    /\ UNCHANGED <<status, bound, connVars, events, verdict, lost, faults>>

\* Consumer.Stop: unbind the queue, cancel, close the channel.  Without the
\* connection the first of them fails, and Stop returns.
StopConsumer(i) ==
    /\ life[i] = "stopping"
    /\ life' = [life EXCEPT ![i] = "draining"]
    /\ IF i \in deaf THEN UNCHANGED <<bound, events, lost>>
                     ELSE bound' = bound \ {KeyOf(i)} /\ Cut(i)
    /\ UNCHANGED <<status, connVars, verdict, faults, stops>>

\* The process is over.
Over(i) ==
    /\ life' = [life EXCEPT ![i] = "down"]
    /\ deaf' = deaf \ {i} /\ mute' = mute \ {i}

\* Requests in progress do not hold the process: ListenAndServe returns when
\* Shutdown begins.  A verifier has no such step, see Crash.
Exit(s) ==
    /\ s \in Socials
    /\ life[s] = "draining"
    /\ events[Inbox(s)] = {}
    /\ Over(s)
    /\ events' = [events EXCEPT ![Handler(s)] = {}]
    /\ Drop(events[Handler(s)])
    /\ UNCHANGED <<status, bound, verdict, faults, stops>>

\* Also the only end of a verifier: verifierProcessorService.Stop waits for a
\* channel that nobody closes, until the process is killed.
Crash(i) ==
    /\ Fault
    /\ life[i] # "down"
    /\ Over(i)
    /\ LET gone == {Inbox(i)} \cup (IF i \in Socials THEN {Handler(i)} ELSE {})
       IN  /\ events' = [p \in Places |-> IF p \in gone THEN {} ELSE events[p]]
           /\ Drop(UNION {events[p] : p \in gone})
    /\ UNCHANGED <<status, bound, verdict, stops>>

VerifierStep(v) ==
    \E e \in Event :
       \/ \E type \in Verdicts : ProcessEvent(v, e, type)
       \/ ProcessEventFails(v, e)

SocialStep(s) ==
    \/ \E u \in Users : RegisterUser(s, u) \/ RegisterUserFails(s, u)
    \/ \E e \in Event :
          \/ SendUserCreated(s, e) \/ SendUserCreatedFails(s, e)
          \/ SetStatus(s, e) \/ SetStatusFails(s, e) \/ SetStatusCancelled(s, e)

InstanceStep(i) ==
    \/ \E e \in Event : Deliver(i, e)
    \/ BreakConsuming(i) \/ BreakPublishing(i)
    \/ Start(i) \/ Signal(i) \/ StopConsumer(i) \/ Exit(i) \/ Crash(i)

Next ==
    \/ \E v \in Verifiers : VerifierStep(v)
    \/ \E s \in Socials : SocialStep(s)
    \/ \E i \in Instances : InstanceStep(i)

Spec == Init /\ [][Next]_vars

(***************************************************************************)
(* The broker pushes what it has to somebody; a running process goes on,   *)
(* with a publication that succeeds or fails.  Nobody owes a registration, *)
(* a start, a signal, a failure of a call or a connection, or a crash.     *)
(***************************************************************************)
Fairness ==
    /\ WF_vars(\E i \in Verifiers, e \in Event : Deliver(i, e))
    /\ WF_vars(\E i \in Socials, e \in Event : Deliver(i, e))
    /\ \A v \in Verifiers :
          WF_vars(VerifierStep(v))
    /\ \A s \in Socials :
          /\ WF_vars(\E e \in Event : SendUserCreated(s, e) \/ SendUserCreatedFails(s, e))
          /\ WF_vars(\E e \in Event : SetStatus(s, e) \/ SetStatusCancelled(s, e))
          /\ WF_vars(Exit(s))
    /\ \A i \in Instances : WF_vars(StopConsumer(i))

FairSpec == Spec /\ Fairness

-----------------------------------------------------------------------------
(***************************************************************************)
(* Properties                                                              *)
(***************************************************************************)
Pending(u) == status[u] = UserPendingVerification

\* An event of u is at p.
At(u, p) == \E e \in events[p] : e.user = u

AtMostOneEvent ==
    \A p, q \in Places : \A e \in events[p], f \in events[q] :
       e.user = f.user => p = q /\ e = f

OnItsWay(u) == \E p \in Places : At(u, p)

\* A user who is pending and has lost nothing has exactly one event on its
\* way, whatever has crashed, stopped or been started again; and the status
\* is settled only when that event has been used up (user_service.go:66-70
\* inserts before it publishes).
OneEventEach ==
    /\ AtMostOneEvent
    /\ \A u \in Users : OnItsWay(u) <=> (Pending(u) /\ u \notin lost)

\* Nobody but the verifier decides, and only once: user_status is that of the
\* verdict given, and final (UPDATE ... user_status < $2 in user_storage.go:38-42,
\* src/distrubuted-transactions/report.md:17).
Promise == INSTANCE Registration WITH status <- status, verdict <- verdict

RefinesRegistration == Promise!Spec

\* One of the instances is up and consumes.
Running(instances) == \E i \in instances : life[i] = "up" /\ i \notin deaf

\* While a verifier and a social instance consume, every registered user is
\* decided at last, or an event of it was lost: retries exist nowhere in the
\* saga, so nothing else may hold it up (no deadlock of queues, stops, restarts
\* and instances that have lost their connection).
EventuallyDecided ==
    <>[](Running(Verifiers) /\ Running(Socials)) =>
       \A u \in Users : Pending(u) ~> (~Pending(u) \/ u \in lost)

\* What is published while an instance consumes the queue is put into that
\* queue: "one queue" for all instances, of which one "must receive and
\* process" an event (src/queues/report.md:18).
ReceivedByAnInstance ==
    [][\A e \in Event :
         /\ \A s \in Socials :
               SendUserCreated(s, e) /\ Running(Verifiers)
                  => At(e.user, Queue("user-created"))'
         /\ \A v \in Verifiers, type \in Verdicts :
               ProcessEvent(v, e, type) /\ Running(Socials)
                  => At(e.user, Queue("verifier-status"))']_vars
=============================================================================
