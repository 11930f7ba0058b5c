---------------------------- MODULE SocialInstance ----------------------------
(***************************************************************************)
(* The life of the instances of the social service (social/cmd/server):    *)
(* start, work and orderly stop of the feed updater, with the requests     *)
(* that keep publishing meanwhile.  All instances take the notifications   *)
(* from one queue, and each of them binds and unbinds it for all.          *)
(*                                                                         *)
(* What a notification leads to is in FeedPipeline, the sessions of the    *)
(* web sockets are in FeedSubscriber, the saga's consumer is in UserSaga:  *)
(* here a notification is applied or lost.                                 *)
(***************************************************************************)
EXTENDS Naturals, Sequences, SequencesExt

CONSTANTS
    Instances,
    Changes,    \* requests that change something and notify the updaters
    MaxStarts,  \* bound: starts of instances
    MaxFaults,  \* bound: failed starts, crashes, broken connections
    None

ASSUME InstanceAssumption ==
    /\ None \notin Changes
    /\ MaxStarts \in Nat /\ MaxFaults \in Nat

VARIABLES
    main,       \* [Instances -> where main is]
    signalled,  \* instances whose context is done
    broken,     \* instances whose connection to the broker is gone
    bound,      \* whether the queue is bound to the exchange
    queue,      \* notifications the broker keeps
    consuming,  \* instances the broker pushes to
    inbox,      \* [Instances -> notifications pushed and not yet taken]
    updater,    \* [Instances -> "none", "runs" or "ended": its goroutine]
    hand,       \* [Instances -> the notification the goroutine has, or None]
    open,       \* [Instances -> changes committed and not yet published]
    applied,    \* changes that the caches have been told of
    lost,       \* history: those they never will
    disturbed,  \* history: changes under way while something was not in order
    starts, faults

brokerVars == <<bound, queue, consuming>>
updaterVars == <<inbox, updater, hand>>
historyVars == <<applied, lost, disturbed>>
vars == <<main, signalled, broken, brokerVars, updaterVars, open, historyVars,
          starts, faults>>

Starting == {"bind", "consume"}
Stopping == {"unbind", "cancel", "close", "wait", "queues"}
Stages == {"off", "serve"} \cup Starting \cup Stopping

TypeOK ==
    /\ main \in [Instances -> Stages]
    /\ signalled \subseteq {i \in Instances : main[i] # "off"}
    /\ broken \subseteq {i \in Instances : main[i] # "off"}
    /\ bound \in BOOLEAN
    /\ queue \in Seq(Changes)
    /\ consuming \subseteq {i \in Instances \ broken : updater[i] = "runs"}
    /\ inbox \in [Instances -> Seq(Changes)]
    /\ updater \in [Instances -> {"none", "runs", "ended"}]
    /\ hand \in [Instances -> Changes \cup {None}]
    /\ open \in [Instances -> SUBSET Changes]
    /\ applied \subseteq Changes /\ lost \subseteq Changes
    /\ disturbed \subseteq Changes
    /\ starts \in 0..MaxStarts
    /\ faults \in 0..MaxFaults

Init ==
    /\ main = [i \in Instances |-> "off"]
    /\ signalled = {} /\ broken = {}
    /\ bound = FALSE /\ queue = <<>> /\ consuming = {}
    /\ inbox = [i \in Instances |-> <<>>]
    /\ updater = [i \in Instances |-> "none"]
    /\ hand = [i \in Instances |-> None]
    /\ open = [i \in Instances |-> {}]
    /\ applied = {} /\ lost = {} /\ disturbed = {}
    /\ starts = 0 /\ faults = 0

\* What an instance loses when it is no more.
Holds(i) == ToSet(inbox[i]) \cup ({hand[i]} \ {None}) \cup open[i]

UnderWay == ToSet(queue) \cup UNION {Holds(i) : i \in Instances}

\* Nothing stops, nothing is broken, and the queue is bound.
InOrder == signalled = {} /\ broken = {} /\ bound

To(i, stage) == main' = [main EXCEPT ![i] = stage]

Fault == faults < MaxFaults /\ faults' = faults + 1 /\ disturbed' = disturbed \cup UnderWay

(***************************************************************************)
(* Start.                                                                  *)
(***************************************************************************)
\* The databases, the connection to the broker and the publishers.
Start(i) ==
    /\ main[i] = "off"
    /\ starts < MaxStarts /\ starts' = starts + 1
    /\ To(i, "bind")
    /\ updater' = [updater EXCEPT ![i] = "none"]
    /\ UNCHANGED <<signalled, broken, brokerVars, inbox, hand, open, historyVars, faults>>

\* Consumer.Start
Bind(i) ==
    /\ main[i] = "bind" /\ i \notin broken
    /\ bound' = TRUE
    /\ To(i, "consume")
    /\ UNCHANGED <<signalled, broken, queue, consuming, updaterVars, open, historyVars,
                   starts, faults>>

\* Consumer.ReceiveData, and the goroutine; then the server listens.
Consume(i) ==
    /\ main[i] = "consume" /\ i \notin broken
    /\ consuming' = consuming \cup {i}
    /\ updater' = [updater EXCEPT ![i] = "runs"]
    /\ To(i, "serve")
    /\ UNCHANGED <<signalled, broken, bound, queue, inbox, hand, open, historyVars,
                   starts, faults>>

\* The process is over, and with it its goroutines and what they had.
Gone(i) ==
    /\ To(i, "off")
    /\ signalled' = signalled \ {i} /\ broken' = broken \ {i}
    /\ consuming' = consuming \ {i}
    /\ lost' = lost \cup Holds(i)
    /\ inbox' = [inbox EXCEPT ![i] = <<>>]
    /\ hand' = [hand EXCEPT ![i] = None]
    /\ updater' = [updater EXCEPT ![i] = "none"]
    /\ open' = [open EXCEPT ![i] = {}]

\* A slip: what was started is stopped.
StartFailsUnbinding(i) ==
    /\ main[i] \in Starting /\ faults < MaxFaults
    /\ faults' = faults + 1
    /\ Gone(i)
    /\ bound' = FALSE
    /\ UNCHANGED <<queue, applied, disturbed, starts>>

\* main returns: nothing is stopped.
StartFails(i) ==
    /\ main[i] \in Starting /\ faults < MaxFaults
    /\ faults' = faults + 1
    /\ Gone(i)
    /\ UNCHANGED <<bound, queue, applied, disturbed, starts>>

(***************************************************************************)
(* Requests.                                                               *)
(***************************************************************************)
\* The change is committed; the server listens until Shutdown begins.
Commit(i, c) ==
    /\ main[i] = "serve"
    /\ c \notin applied \cup lost \cup UnderWay
    /\ open' = [open EXCEPT ![i] = @ \cup {c}]
    /\ disturbed' = IF InOrder THEN disturbed ELSE disturbed \cup {c}
    /\ UNCHANGED <<main, signalled, broken, brokerVars, updaterVars, applied, lost,
                   starts, faults>>

\* The handler publishes, even while main stops the parts; a message no queue
\* is bound for is dropped.
Publish(i, c) ==
    /\ c \in open[i]
    /\ open' = [open EXCEPT ![i] = @ \ {c}]
    /\ IF i \notin broken /\ bound
       THEN queue' = Append(queue, c) /\ UNCHANGED lost
       ELSE lost' = lost \cup {c} /\ UNCHANGED queue
    /\ UNCHANGED <<main, signalled, broken, bound, consuming, updaterVars, applied,
                   disturbed, starts, faults>>

(***************************************************************************)
(* The broker and the goroutine of the updater.                            *)
(***************************************************************************)
Deliver(i) ==
    /\ i \in consuming /\ queue # <<>>
    /\ inbox' = [inbox EXCEPT ![i] = Append(@, Head(queue))]
    /\ queue' = Tail(queue)
    /\ UNCHANGED <<main, signalled, broken, bound, consuming, updater, hand, open,
                   historyVars, starts, faults>>

Take(i) ==
    /\ updater[i] = "runs" /\ hand[i] = None /\ inbox[i] # <<>>
    /\ hand' = [hand EXCEPT ![i] = Head(inbox[i])]
    /\ inbox' = [inbox EXCEPT ![i] = Tail(@)]
    /\ UNCHANGED <<main, signalled, broken, brokerVars, updater, open, historyVars,
                   starts, faults>>

\* A slip: return for continue.
ApplyAndReturn(i) ==
    /\ hand[i] # None /\ i \notin signalled
    /\ hand' = [hand EXCEPT ![i] = None]
    /\ applied' = applied \cup {hand[i]}
    /\ updater' = [updater EXCEPT ![i] = "ended"]
    /\ UNCHANGED <<main, signalled, broken, brokerVars, inbox, open, lost, disturbed,
                   starts, faults>>

Apply(i) ==
    /\ hand[i] # None /\ i \notin signalled
    /\ hand' = [hand EXCEPT ![i] = None]
    /\ applied' = applied \cup {hand[i]}
    /\ UNCHANGED <<main, signalled, broken, brokerVars, inbox, updater, open, lost,
                   disturbed, starts, faults>>

\* The context of a notification is that of the process: once it is done, the
\* calls of the caches fail, and the error is only logged.
Reject(i) ==
    /\ hand[i] # None /\ i \in signalled
    /\ hand' = [hand EXCEPT ![i] = None]
    /\ lost' = lost \cup {hand[i]}
    /\ UNCHANGED <<main, signalled, broken, brokerVars, inbox, updater, open, applied,
                   disturbed, starts, faults>>

\* The channel to the broker is closed: what the client has buffered is dropped.
Drop(i) ==
    /\ i \in broken \/ main[i] \in {"wait", "queues"}
    /\ inbox[i] # <<>>
    /\ lost' = lost \cup ToSet(inbox[i])
    /\ inbox' = [inbox EXCEPT ![i] = <<>>]
    /\ UNCHANGED <<main, signalled, broken, brokerVars, updater, hand, open, applied,
                   disturbed, starts, faults>>

\* The consumer is cancelled or its channel closed: the loop ends.
End(i) ==
    /\ updater[i] = "runs" /\ i \notin consuming
    /\ hand[i] = None /\ inbox[i] = <<>>
    /\ updater' = [updater EXCEPT ![i] = "ended"]
    /\ UNCHANGED <<main, signalled, broken, brokerVars, inbox, hand, open, historyVars,
                   starts, faults>>

Work(i) == Take(i) \/ Apply(i) \/ Reject(i) \/ Drop(i) \/ End(i)

(***************************************************************************)
(* Stop.                                                                   *)
(***************************************************************************)
\* A signal to the process, or the server cannot listen.
Signal(i) ==
    /\ main[i] # "off" /\ i \notin signalled
    /\ signalled' = signalled \cup {i}
    /\ disturbed' = disturbed \cup UnderWay
    /\ UNCHANGED <<main, broken, brokerVars, updaterVars, open, applied, lost, starts,
                   faults>>

\* A step of the stop that only goes on.
Pass(i, from, to) ==
    /\ main[i] = from
    /\ To(i, to)
    /\ UNCHANGED <<signalled, broken, brokerVars, updaterVars, open, historyVars, starts,
                   faults>>

\* Shutdown begins, and ListenAndServe returns; the requests go on.  The saga's
\* consumer and the updater's own publisher stop.
Leave(i) == i \in signalled /\ Pass(i, "serve", "unbind")

\* A slip: Stop waits before it has cancelled the consumer.
UnbindOnly(i) ==
    /\ main[i] = "unbind" /\ i \notin broken
    /\ bound' = FALSE
    /\ To(i, "wait")
    /\ UNCHANGED <<signalled, broken, queue, consuming, updaterVars, open, historyVars,
                   starts, faults>>

\* Consumer.Stop
Unbind(i) ==
    /\ main[i] = "unbind" /\ i \notin broken
    /\ bound' = FALSE
    /\ To(i, "cancel")
    /\ UNCHANGED <<signalled, broken, queue, consuming, updaterVars, open, historyVars,
                   starts, faults>>

Cancel(i) ==
    /\ main[i] = "cancel" /\ i \notin broken
    /\ consuming' = consuming \ {i}
    /\ To(i, "close")
    /\ UNCHANGED <<signalled, broken, bound, queue, updaterVars, open, historyVars,
                   starts, faults>>

CloseChannel(i) == i \notin broken /\ Pass(i, "close", "wait")

\* The first of the three steps that fails is the last.
StopFails(i) ==
    i \in broken /\ \E stage \in {"unbind", "cancel", "close"} : Pass(i, stage, "wait")

StopConsumer(i) == Unbind(i) \/ Cancel(i) \/ CloseChannel(i) \/ StopFails(i)

\* <-s.done
Joined(i) == i \in signalled /\ updater[i] = "ended" /\ Pass(i, "wait", "queues")

\* The publishers, the connection, the database: and main returns.
Exit(i) ==
    /\ main[i] = "queues"
    /\ Gone(i)
    /\ UNCHANGED <<bound, queue, applied, disturbed, starts, faults>>

Stop(i) == Leave(i) \/ StopConsumer(i) \/ Joined(i) \/ Exit(i)

(***************************************************************************)
(* Failures.                                                               *)
(***************************************************************************)
Crash(i) ==
    /\ main[i] # "off" /\ Fault
    /\ Gone(i)
    /\ UNCHANGED <<bound, queue, applied, starts>>

\* A slip: the consumer is told nothing.
BreakUnnoticed(i) ==
    /\ main[i] # "off" /\ i \notin broken /\ Fault
    /\ broken' = broken \cup {i}
    /\ UNCHANGED <<main, signalled, brokerVars, updaterVars, open, applied, lost, starts>>

\* The connection is never opened again.
Break(i) ==
    /\ main[i] # "off" /\ i \notin broken /\ Fault
    /\ broken' = broken \cup {i}
    /\ consuming' = consuming \ {i}
    /\ UNCHANGED <<main, signalled, bound, queue, updaterVars, open, applied, lost, starts>>

\* A start that meets a broken connection fails.
GiveUp(i) ==
    /\ main[i] \in Starting /\ i \in broken
    /\ Gone(i)
    /\ UNCHANGED <<bound, queue, applied, disturbed, starts, faults>>

Next ==
    \/ \E i \in Instances :
         \/ Start(i) \/ Bind(i) \/ Consume(i) \/ StartFails(i) \/ GiveUp(i)
         \/ Deliver(i) \/ Work(i) \/ Signal(i) \/ Stop(i) \/ Crash(i) \/ Break(i)
         \/ \E c \in Changes : Commit(i, c) \/ Publish(i, c)

Spec == Init /\ [][Next]_vars

\* A goroutine that can go on does: main once it has begun to start or to stop,
\* a handler, an updater; the broker pushes.  Nobody owes a start, a request, a
\* signal or a failure.
FairSpec ==
    /\ Spec
    /\ \A i \in Instances :
         /\ WF_vars(Bind(i) \/ Consume(i) \/ GiveUp(i))
         /\ WF_vars(Work(i)) /\ WF_vars(Stop(i))
         /\ \A c \in Changes : WF_vars(Publish(i, c))
    /\ WF_vars(\E i \in Instances : Deliver(i))

(***************************************************************************)
(* Properties.                                                             *)
(***************************************************************************)
\* A change is lost for the caches only if, between its commit and the end of
\* its notification, an instance stopped or failed or the queue was unbound:
\* what a stop or a failed start breaks is whole again with the next start
\* (consumer.go:68-93, main.go:117-238).
LossIsExplained == lost \subseteq disturbed

\* A signalled instance ends, whatever part of its stop fails: the wait for the
\* updater's goroutine is never in vain (post_feed_updater.go:80-98).
StopEnds == \A i \in Instances : i \in signalled ~> main[i] = "off"

\* Every committed change is applied or lost in the end, unless the broker keeps
\* its notification while nobody consumes.
EventuallySettled ==
    \A c \in Changes : c \in UnderWay ~> c \in applied \cup lost \/ consuming = {}
===============================================================================
