------------------------ MODULE SocialInstance_proofs ------------------------
(***************************************************************************)
(* Whatever starts, stops, crashes or breaks, for any instances, changes   *)
(* and bounds: a notification is lost only if it was under way while       *)
(* something was not in order.                                             *)
(***************************************************************************)
EXTENDS SocialInstance, SequenceTheorems, TLAPS

-----------------------------------------------------------------------------
(* The strengthening. *)

\* An instance that is off or still starting has nothing and is sent nothing.
Resting ==
    \A i \in Instances : main[i] \in Starting \cup {"off"} =>
        /\ i \notin consuming
        /\ inbox[i] = <<>> /\ hand[i] = None /\ open[i] = {}

\* Only a signal makes main stop, and the process stays signalled to its end.
StopIsSignalled ==
    \A i \in Instances : main[i] \in Stopping => i \in signalled

\* While something is not in order, whatever is under way counts as disturbed.
Explained == InOrder \/ UnderWay \subseteq disturbed

IInv == TypeOK /\ Resting /\ StopIsSignalled /\ Explained /\ LossIsExplained

-----------------------------------------------------------------------------
(* Sequences of notifications, and what is under way. *)

LEMMA HeadAndTail ==
    ASSUME NEW S, NEW s \in Seq(S), s # <<>>
    PROVE  /\ Head(s) \in S /\ Tail(s) \in Seq(S)
           /\ Head(s) \in ToSet(s) /\ ToSet(Tail(s)) \subseteq ToSet(s)
<1>1. Len(s) \in Nat \ {0} /\ DOMAIN s = 1..Len(s)
  BY EmptySeq
<1>2. Head(s) = s[1] /\ Head(s) \in S /\ Head(s) \in ToSet(s)
  BY <1>1, HeadTailProperties DEF ToSet
<1>3. /\ Tail(s) \in Seq(S) /\ Len(Tail(s)) = Len(s) - 1
      /\ \A n \in 1..Len(Tail(s)) : Tail(s)[n] = s[n + 1]
  BY HeadTailProperties
<1>4. ASSUME NEW n \in DOMAIN Tail(s)
      PROVE  Tail(s)[n] \in ToSet(s)
  BY <1>1, <1>3, <1>4 DEF ToSet
<1> QED
  BY <1>2, <1>3, <1>4 DEF ToSet

LEMMA Appended ==
    ASSUME NEW S, NEW s \in Seq(S), NEW c \in S
    PROVE  /\ Append(s, c) \in Seq(S)
           /\ ToSet(Append(s, c)) \subseteq ToSet(s) \cup {c}
<1>1. /\ Append(s, c) \in Seq(S) /\ Len(Append(s, c)) = Len(s) + 1
      /\ \A n \in 1..Len(s) : Append(s, c)[n] = s[n]
      /\ Append(s, c)[Len(s) + 1] = c
  BY AppendProperties
<1>2. DOMAIN s = 1..Len(s) /\ Len(s) \in Nat
  OBVIOUS
<1>3. DOMAIN Append(s, c) = 1..(Len(s) + 1)
  BY <1>1
<1>4. ASSUME NEW n \in DOMAIN Append(s, c)
      PROVE  Append(s, c)[n] \in ToSet(s) \cup {c}
  BY <1>1, <1>2, <1>3, <1>4 DEF ToSet
<1> QED
  BY <1>1, <1>4 DEF ToSet

LEMMA NothingInEmpty == ToSet(<<>>) = {}
BY DEF ToSet

\* Nothing comes under way that was not.
LEMMA Within ==
    ASSUME ToSet(queue)' \subseteq UnderWay,
           \A i \in Instances : Holds(i)' \subseteq UnderWay
    PROVE  UnderWay' \subseteq UnderWay
BY DEF UnderWay

LEMMA Parts == /\ ToSet(queue) \subseteq UnderWay
               /\ \A i \in Instances : Holds(i) \subseteq UnderWay
BY DEF UnderWay

\* Less is under way, and nothing is put out of order.
LEMMA StaysExplained ==
    ASSUME Explained, UnderWay' \subseteq UnderWay, InOrder => InOrder',
           disturbed \subseteq disturbed'
    PROVE  Explained'
BY DEF Explained

LEMMA SameHolds ==
    ASSUME UNCHANGED <<inbox, hand, open>>
    PROVE  \A i \in Instances : Holds(i)' = Holds(i)
BY DEF Holds

LEMMA SameUnderWay ==
    ASSUME UNCHANGED <<queue, inbox, hand, open>>
    PROVE  UnderWay' = UnderWay
BY SameHolds DEF UnderWay

LEMMA UnderWayType == ASSUME TypeOK PROVE UnderWay \subseteq Changes
<1>1. ToSet(queue) \subseteq Changes
  BY DEF TypeOK, ToSet
<1>2. ASSUME NEW i \in Instances
      PROVE  Holds(i) \subseteq Changes
  <2>1. inbox[i] \in Seq(Changes) /\ hand[i] \in Changes \cup {None} /\ open[i] \subseteq Changes
    BY DEF TypeOK
  <2>2. ToSet(inbox[i]) \subseteq Changes
    BY <2>1 DEF ToSet
  <2> QED
    BY <2>1, <2>2 DEF Holds
<1> QED
  BY <1>1, <1>2 DEF UnderWay

-----------------------------------------------------------------------------
(* Start. *)

LEMMA InitHolds == Init => IInv
<1> SUFFICES ASSUME Init
             PROVE  IInv
  OBVIOUS
<1>1. TypeOK
  <2>1. <<>> \in Seq(Changes)
    OBVIOUS
  <2>2. 0 \in 0..MaxStarts /\ 0 \in 0..MaxFaults
    BY InstanceAssumption
  <2> QED
    BY <2>1, <2>2 DEF Init, TypeOK, Stages
<1>2. Resting /\ StopIsSignalled /\ LossIsExplained
  BY DEF Init, Resting, StopIsSignalled, LossIsExplained, Stopping
<1>3. Explained
  BY NothingInEmpty DEF Init, Explained, UnderWay, Holds
<1> QED
  BY <1>1, <1>2, <1>3 DEF IInv

\* Nothing of what is under way is touched while an instance starts.
LEMMA StartKeeps ==
    ASSUME IInv, NEW i \in Instances, Start(i) \/ Bind(i) \/ Consume(i)
    PROVE  IInv'
<1> USE DEF IInv
<1>1. CASE Start(i)
  <2>1. i \notin consuming
    BY <1>1 DEF Start, Resting
  <2>2. TypeOK'
    BY <1>1, <2>1, InstanceAssumption DEF Start, To, TypeOK, Stages, Starting, brokerVars, historyVars
  <2>3. Resting' /\ StopIsSignalled' /\ LossIsExplained'
    BY <1>1 DEF Start, To, TypeOK, Resting, StopIsSignalled, LossIsExplained, Starting,
                Stopping, brokerVars, historyVars
  <2>4. Explained'
    BY <1>1, SameUnderWay, StaysExplained DEF Start, InOrder, brokerVars, historyVars
  <2> QED
    BY <2>2, <2>3, <2>4
<1>2. CASE Bind(i)
  <2>1. TypeOK'
    BY <1>2 DEF Bind, To, TypeOK, Stages, Starting, updaterVars, historyVars
  <2>2. Resting' /\ StopIsSignalled' /\ LossIsExplained'
    BY <1>2 DEF Bind, To, TypeOK, Resting, StopIsSignalled, LossIsExplained, Starting,
                Stopping, updaterVars, historyVars
  <2>3. Explained'
    BY <1>2, SameUnderWay, StaysExplained DEF Bind, InOrder, updaterVars, historyVars
  <2> QED
    BY <2>1, <2>2, <2>3
<1>3. CASE Consume(i)
  <2>1. TypeOK'
    BY <1>3 DEF Consume, To, TypeOK, Stages, Starting, historyVars
  <2>2. Resting' /\ StopIsSignalled' /\ LossIsExplained'
    BY <1>3 DEF Consume, To, TypeOK, Resting, StopIsSignalled, LossIsExplained, Starting,
                Stopping, historyVars
  <2>3. Explained'
    BY <1>3, SameUnderWay, StaysExplained DEF Consume, InOrder, historyVars
  <2> QED
    BY <2>1, <2>2, <2>3
<1> QED
  BY <1>1, <1>2, <1>3

-----------------------------------------------------------------------------
(* The end of a process. *)

LEMMA GoneKeeps ==
    ASSUME IInv, NEW i \in Instances, Gone(i), UNCHANGED <<bound, queue, applied, starts>>,
           faults' \in 0..MaxFaults, disturbed \subseteq disturbed', disturbed' \subseteq Changes,
           Holds(i) \subseteq disturbed'
    PROVE  IInv'
<1> USE DEF IInv
<1>1. TypeOK'
  <2>1. <<>> \in Seq(Changes)
    OBVIOUS
  <2>2. Holds(i) \subseteq Changes
    BY UnderWayType, Parts
  <2> QED
    BY <2>1, <2>2 DEF Gone, To, TypeOK, Stages
<1>2. Resting' /\ StopIsSignalled' /\ LossIsExplained'
  BY DEF Gone, To, TypeOK, Resting, StopIsSignalled, LossIsExplained, Stopping
<1>3. \A j \in Instances : Holds(j)' \subseteq Holds(j)
  BY NothingInEmpty DEF Gone, TypeOK, Holds
<1>4. UnderWay' \subseteq UnderWay
  BY <1>3, Parts, Within
<1>5. Explained'
  BY <1>4, StaysExplained DEF Gone, InOrder
<1> QED
  BY <1>1, <1>2, <1>5

\* What a process holds while something is not in order is explained.
LEMMA HeldIsExplained ==
    ASSUME Explained, ~InOrder, NEW i \in Instances
    PROVE  Holds(i) \subseteq disturbed
BY Parts DEF Explained

LEMMA RestingHoldsNothing ==
    ASSUME Resting, NEW i \in Instances, main[i] \in Starting \cup {"off"}
    PROVE  Holds(i) = {}
BY NothingInEmpty DEF Resting, Holds

LEMMA EndKeeps ==
    ASSUME IInv, NEW i \in Instances, StartFails(i) \/ GiveUp(i) \/ Exit(i) \/ Crash(i)
    PROVE  IInv'
<1> USE DEF IInv
<1>1. CASE StartFails(i)
  <2>1. Holds(i) = {}
    BY <1>1, RestingHoldsNothing DEF StartFails
  <2>2. faults' \in 0..MaxFaults
    BY <1>1, InstanceAssumption DEF StartFails, TypeOK
  <2> QED
    BY <1>1, <2>1, <2>2, GoneKeeps DEF StartFails, TypeOK
<1>2. CASE GiveUp(i)
  <2>1. Holds(i) = {}
    BY <1>2, RestingHoldsNothing DEF GiveUp
  <2> QED
    BY <1>2, <2>1, GoneKeeps DEF GiveUp, TypeOK
<1>3. CASE Exit(i)
  <2>1. i \in signalled
    BY <1>3 DEF Exit, StopIsSignalled, Stopping
  <2>2. Holds(i) \subseteq disturbed
    BY <2>1, HeldIsExplained DEF InOrder
  <2> QED
    BY <1>3, <2>2, GoneKeeps DEF Exit, TypeOK
<1>4. CASE Crash(i)
  <2>1. Holds(i) \subseteq disturbed' /\ disturbed \subseteq disturbed'
    BY <1>4, Parts DEF Crash, Fault
  <2>2. faults' \in 0..MaxFaults /\ disturbed' \subseteq Changes
    BY <1>4, UnderWayType, InstanceAssumption DEF Crash, Fault, TypeOK
  <2> QED
    BY <1>4, <2>1, <2>2, GoneKeeps DEF Crash
<1> QED
  BY <1>1, <1>2, <1>3, <1>4

-----------------------------------------------------------------------------
(* What is put out of order explains all that is under way. *)

LEMMA DisturbanceKeeps ==
    ASSUME IInv, NEW i \in Instances, Signal(i) \/ Break(i)
    PROVE  IInv'
<1> USE DEF IInv
<1>1. CASE Signal(i)
  <2>1. TypeOK'
    BY <1>1, UnderWayType DEF Signal, TypeOK, brokerVars, updaterVars
  <2>2. Resting' /\ StopIsSignalled' /\ LossIsExplained'
    BY <1>1 DEF Signal, Resting, StopIsSignalled, LossIsExplained, brokerVars, updaterVars
  <2>3. Explained'
    BY <1>1, SameUnderWay DEF Signal, Explained, brokerVars, updaterVars
  <2> QED
    BY <2>1, <2>2, <2>3
<1>2. CASE Break(i)
  <2>1. TypeOK'
    BY <1>2, UnderWayType, InstanceAssumption DEF Break, Fault, TypeOK, updaterVars
  <2>2. Resting' /\ StopIsSignalled' /\ LossIsExplained'
    BY <1>2 DEF Break, Fault, Resting, StopIsSignalled, LossIsExplained, updaterVars
  <2>3. Explained'
    BY <1>2, SameUnderWay DEF Break, Fault, Explained, updaterVars
  <2> QED
    BY <2>1, <2>2, <2>3
<1> QED
  BY <1>1, <1>2

-----------------------------------------------------------------------------
(* Requests. *)

LEMMA CommitKeeps ==
    ASSUME IInv, NEW i \in Instances, NEW c \in Changes, Commit(i, c)
    PROVE  IInv'
<1> USE DEF IInv
<1>1. TypeOK'
  BY DEF Commit, TypeOK, brokerVars, updaterVars
<1>2. Resting' /\ StopIsSignalled' /\ LossIsExplained'
  BY DEF Commit, TypeOK, Resting, StopIsSignalled, LossIsExplained, Starting, brokerVars,
         updaterVars
<1>3. \A j \in Instances : Holds(j)' \subseteq Holds(j) \cup {c}
  BY DEF Commit, TypeOK, Holds, updaterVars
<1>4. UnderWay' \subseteq UnderWay \cup {c}
  BY <1>3 DEF Commit, UnderWay, brokerVars
<1>5. Explained'
  BY <1>4 DEF Commit, Explained, InOrder, brokerVars
<1> QED
  BY <1>1, <1>2, <1>5

LEMMA PublishKeeps ==
    ASSUME IInv, NEW i \in Instances, NEW c \in Changes, Publish(i, c)
    PROVE  IInv'
<1> USE DEF IInv
<1>1. queue' \in Seq(Changes) /\ ToSet(queue)' \subseteq ToSet(queue) \cup {c}
  <2>1. /\ queue \in Seq(Changes) /\ Append(queue, c) \in Seq(Changes)
        /\ ToSet(Append(queue, c)) \subseteq ToSet(queue) \cup {c}
    BY Appended DEF TypeOK
  <2>2. queue' = Append(queue, c) \/ queue' = queue
    BY DEF Publish
  <2> QED
    BY <2>1, <2>2
<1>2. TypeOK'
  BY <1>1 DEF Publish, TypeOK, updaterVars
<1>3. Resting' /\ StopIsSignalled'
  BY DEF Publish, TypeOK, Resting, StopIsSignalled, updaterVars
<1>4. c \in Holds(i) /\ c \in UnderWay
  BY Parts DEF Publish, Holds
<1>5. LossIsExplained'
  <2>1. CASE i \notin broken /\ bound
    BY <2>1 DEF Publish, LossIsExplained
  <2>2. CASE ~(i \notin broken /\ bound)
    <3>1. c \in disturbed
      BY <2>2, <1>4, HeldIsExplained DEF InOrder
    <3> QED
      BY <2>2, <3>1 DEF Publish, LossIsExplained
  <2> QED
    BY <2>1, <2>2
<1>6. \A j \in Instances : Holds(j)' \subseteq Holds(j)
  BY DEF Publish, TypeOK, Holds, updaterVars
<1>7. UnderWay' \subseteq UnderWay
  BY <1>1, <1>4, <1>6, Parts, Within
<1>8. Explained'
  BY <1>7, StaysExplained DEF Publish, InOrder
<1> QED
  BY <1>2, <1>3, <1>5, <1>8

-----------------------------------------------------------------------------
(* The broker and the updater's goroutine. *)

LEMMA DeliverKeeps ==
    ASSUME IInv, NEW i \in Instances, Deliver(i)
    PROVE  IInv'
<1> USE DEF IInv
<1> DEFINE c == Head(queue)
<1>1. /\ c \in Changes /\ c \in ToSet(queue)
      /\ queue' \in Seq(Changes) /\ ToSet(queue)' \subseteq ToSet(queue)
  BY HeadAndTail DEF Deliver, TypeOK
<1>2. /\ inbox'[i] \in Seq(Changes) /\ ToSet(inbox'[i]) \subseteq ToSet(inbox[i]) \cup {c}
  BY <1>1, Appended DEF Deliver, TypeOK
<1>3. \A j \in Instances \ {i} : inbox'[j] = inbox[j]
  BY DEF Deliver, TypeOK
<1>4. TypeOK'
  <2>1. inbox' \in [Instances -> Seq(Changes)]
    BY <1>2, <1>3 DEF Deliver, TypeOK
  <2> QED
    BY <1>1, <2>1 DEF Deliver, TypeOK, historyVars
<1>5. Resting' /\ StopIsSignalled' /\ LossIsExplained'
  BY <1>3 DEF Deliver, Resting, StopIsSignalled, LossIsExplained, historyVars
<1>6. \A j \in Instances : Holds(j)' \subseteq Holds(j) \cup {c}
  BY <1>2, <1>3 DEF Deliver, Holds
<1>7. UnderWay' \subseteq UnderWay
  BY <1>1, <1>6, Parts, Within
<1>8. Explained'
  BY <1>7, StaysExplained DEF Deliver, InOrder, historyVars
<1> QED
  BY <1>4, <1>5, <1>8

\* Of what the goroutine has, at most the part S goes away, as lost or applied.
LEMMA LessHeld ==
    ASSUME IInv, NEW i \in Instances, UNCHANGED <<queue, open>>,
           \A j \in Instances \ {i} : inbox'[j] = inbox[j] /\ hand'[j] = hand[j],
           ToSet(inbox'[i]) \cup ({hand'[i]} \ {None})
              \subseteq ToSet(inbox[i]) \cup ({hand[i]} \ {None})
    PROVE  UnderWay' \subseteq UnderWay
<1>1. \A j \in Instances : Holds(j)' \subseteq Holds(j)
  BY DEF Holds
<1> QED
  BY <1>1, Parts, Within

LEMMA TakeKeeps ==
    ASSUME IInv, NEW i \in Instances, Take(i)
    PROVE  IInv'
<1> USE DEF IInv
<1>1. /\ Head(inbox[i]) \in Changes /\ Tail(inbox[i]) \in Seq(Changes)
      /\ Head(inbox[i]) \in ToSet(inbox[i]) /\ ToSet(Tail(inbox[i])) \subseteq ToSet(inbox[i])
  <2>1. inbox[i] \in Seq(Changes) /\ inbox[i] # <<>>
    BY DEF Take, TypeOK
  <2> QED
    BY <2>1, HeadAndTail
<1>2. TypeOK'
  BY <1>1 DEF Take, TypeOK, brokerVars, historyVars
<1>3. Resting' /\ StopIsSignalled' /\ LossIsExplained'
  BY DEF Take, TypeOK, Resting, StopIsSignalled, LossIsExplained, brokerVars, historyVars
<1>4. UnderWay' \subseteq UnderWay
  <2>1. /\ hand' = [hand EXCEPT ![i] = Head(inbox[i])]
        /\ inbox' = [inbox EXCEPT ![i] = Tail(inbox[i])]
        /\ UNCHANGED <<queue, open>>
    BY DEF Take, brokerVars
  <2>2. hand'[i] = Head(inbox[i]) /\ inbox'[i] = Tail(inbox[i])
    BY <2>1 DEF TypeOK
  <2>3. \A j \in Instances \ {i} : inbox'[j] = inbox[j] /\ hand'[j] = hand[j]
    BY <2>1 DEF TypeOK
  <2>4. ToSet(inbox'[i]) \cup ({hand'[i]} \ {None})
           \subseteq ToSet(inbox[i]) \cup ({hand[i]} \ {None})
    BY <1>1, <2>2
  <2> QED
    BY <2>1, <2>3, <2>4, LessHeld
<1>5. Explained'
  BY <1>4, StaysExplained DEF Take, InOrder, brokerVars, historyVars
<1> QED
  BY <1>2, <1>3, <1>5

\* The notification in hand is done with.
LEMMA HandKeeps ==
    ASSUME IInv, NEW i \in Instances, Apply(i) \/ Reject(i)
    PROVE  IInv'
<1> USE DEF IInv
<1>1. /\ hand[i] \in Changes /\ hand[i] \in Holds(i)
  BY DEF Apply, Reject, TypeOK, Holds
<1>2. TypeOK'
  BY <1>1 DEF Apply, Reject, TypeOK, brokerVars
<1>3. Resting' /\ StopIsSignalled'
  BY DEF Apply, Reject, TypeOK, Resting, StopIsSignalled, brokerVars
<1>4. LossIsExplained'
  <2>1. CASE Apply(i)
    BY <2>1 DEF Apply, LossIsExplained
  <2>2. CASE Reject(i)
    <3>1. hand[i] \in disturbed
      BY <1>1, <2>2, HeldIsExplained DEF Reject, InOrder
    <3> QED
      BY <2>2, <3>1 DEF Reject, LossIsExplained
  <2> QED
    BY <2>1, <2>2
<1>5. UnderWay' \subseteq UnderWay
  BY LessHeld DEF Apply, Reject, TypeOK, brokerVars
<1>6. Explained'
  BY <1>5, StaysExplained DEF Apply, Reject, InOrder, brokerVars
<1> QED
  BY <1>2, <1>3, <1>4, <1>6

LEMMA DropKeeps ==
    ASSUME IInv, NEW i \in Instances, Drop(i)
    PROVE  IInv'
<1> USE DEF IInv
<1>1. ~InOrder
  BY DEF Drop, StopIsSignalled, Stopping, InOrder
<1>2. ToSet(inbox[i]) \subseteq Holds(i) /\ ToSet(inbox[i]) \subseteq disturbed
  BY <1>1, HeldIsExplained DEF Holds
<1>3. ToSet(inbox[i]) \subseteq Changes
  BY <1>2, UnderWayType, Parts
<1>4. TypeOK'
  <2>1. <<>> \in Seq(Changes)
    OBVIOUS
  <2> QED
    BY <1>3, <2>1 DEF Drop, TypeOK, brokerVars
<1>5. Resting' /\ StopIsSignalled' /\ LossIsExplained'
  BY <1>2 DEF Drop, TypeOK, Resting, StopIsSignalled, LossIsExplained, brokerVars
<1>6. UnderWay' \subseteq UnderWay
  BY NothingInEmpty, LessHeld DEF Drop, TypeOK, brokerVars
<1>7. Explained'
  BY <1>6, StaysExplained DEF Drop, InOrder, brokerVars
<1> QED
  BY <1>4, <1>5, <1>7

LEMMA LoopEndKeeps ==
    ASSUME IInv, NEW i \in Instances, End(i)
    PROVE  IInv'
<1> USE DEF IInv
<1>1. TypeOK'
  BY DEF End, TypeOK, brokerVars, historyVars
<1>2. Resting' /\ StopIsSignalled' /\ LossIsExplained'
  BY DEF End, Resting, StopIsSignalled, LossIsExplained, brokerVars, historyVars
<1>3. Explained'
  BY SameUnderWay, StaysExplained DEF End, InOrder, brokerVars, historyVars
<1> QED
  BY <1>1, <1>2, <1>3

-----------------------------------------------------------------------------
(* Stop. *)

LEMMA PassKeeps ==
    ASSUME IInv, NEW i \in Instances, i \in signalled, NEW from, NEW to \in Stopping,
           Pass(i, from, to)
    PROVE  IInv'
<1> USE DEF IInv
<1>1. TypeOK'
  BY DEF Pass, To, TypeOK, Stages, Stopping, brokerVars, updaterVars, historyVars
<1>2. Resting' /\ StopIsSignalled' /\ LossIsExplained'
  BY DEF Pass, To, TypeOK, Resting, StopIsSignalled, LossIsExplained, Starting, Stopping,
         brokerVars, updaterVars, historyVars
<1>3. Explained'
  BY SameUnderWay, StaysExplained DEF Pass, InOrder, brokerVars, updaterVars, historyVars
<1> QED
  BY <1>1, <1>2, <1>3

\* The two steps that tell the broker.
LEMMA BrokerToldKeeps ==
    ASSUME IInv, NEW i \in Instances, Unbind(i) \/ Cancel(i)
    PROVE  IInv'
<1> USE DEF IInv
<1>1. i \in signalled
  BY DEF Unbind, Cancel, StopIsSignalled, Stopping
<1>2. TypeOK'
  BY DEF Unbind, Cancel, To, TypeOK, Stages, Stopping, updaterVars, historyVars
<1>3. Resting' /\ StopIsSignalled' /\ LossIsExplained'
  BY <1>1 DEF Unbind, Cancel, To, TypeOK, Resting, StopIsSignalled, LossIsExplained, Starting,
              Stopping, updaterVars, historyVars
<1>4. Explained'
  BY <1>1, SameUnderWay, StaysExplained DEF Unbind, Cancel, InOrder, updaterVars, historyVars
<1> QED
  BY <1>2, <1>3, <1>4

LEMMA StopKeeps ==
    ASSUME IInv, NEW i \in Instances, Stop(i)
    PROVE  IInv'
<1>1. CASE Leave(i)
  BY <1>1, PassKeeps DEF Leave, Stopping
<1>2. CASE Unbind(i) \/ Cancel(i)
  BY <1>2, BrokerToldKeeps
<1>3. CASE CloseChannel(i) \/ StopFails(i)
  <2>1. PICK from \in {"unbind", "cancel", "close"} : Pass(i, from, "wait")
    BY <1>3 DEF CloseChannel, StopFails
  <2>2. i \in signalled
    BY <2>1 DEF Pass, IInv, StopIsSignalled, Stopping
  <2> QED
    BY <2>1, <2>2, PassKeeps DEF Stopping
<1>4. CASE Joined(i)
  BY <1>4, PassKeeps DEF Joined, Stopping
<1>5. CASE Exit(i)
  BY <1>5, EndKeeps
<1> QED
  BY <1>1, <1>2, <1>3, <1>4, <1>5 DEF Stop, StopConsumer

-----------------------------------------------------------------------------
(* Every step. *)

LEMMA StutterKeeps == ASSUME IInv, UNCHANGED vars PROVE IInv'
<1> USE DEF IInv, vars, brokerVars, updaterVars, historyVars
<1>1. TypeOK'
  BY DEF TypeOK
<1>2. Resting' /\ StopIsSignalled' /\ LossIsExplained'
  BY DEF Resting, StopIsSignalled, LossIsExplained
<1>3. Explained'
  BY SameUnderWay, StaysExplained DEF InOrder
<1> QED
  BY <1>1, <1>2, <1>3

LEMMA NextKeeps == IInv /\ [Next]_vars => IInv'
<1> SUFFICES ASSUME IInv, [Next]_vars
             PROVE  IInv'
  OBVIOUS
<1>1. CASE UNCHANGED vars
  BY <1>1, StutterKeeps
<1>2. ASSUME NEW i \in Instances, Start(i) \/ Bind(i) \/ Consume(i)
      PROVE  IInv'
  BY <1>2, StartKeeps
<1>3. ASSUME NEW i \in Instances, StartFails(i) \/ GiveUp(i) \/ Crash(i)
      PROVE  IInv'
  BY <1>3, EndKeeps
<1>4. ASSUME NEW i \in Instances, Signal(i) \/ Break(i)
      PROVE  IInv'
  BY <1>4, DisturbanceKeeps
<1>5. ASSUME NEW i \in Instances, Deliver(i) \/ Work(i)
      PROVE  IInv'
  BY <1>5, DeliverKeeps, TakeKeeps, HandKeeps, DropKeeps, LoopEndKeeps DEF Work
<1>6. ASSUME NEW i \in Instances, Stop(i)
      PROVE  IInv'
  BY <1>6, StopKeeps
<1>7. ASSUME NEW i \in Instances, NEW c \in Changes, Commit(i, c) \/ Publish(i, c)
      PROVE  IInv'
  BY <1>7, CommitKeeps, PublishKeeps
<1> QED
  BY <1>1, <1>2, <1>3, <1>4, <1>5, <1>6, <1>7 DEF Next

LEMMA Invariant == Spec => []IInv
BY InitHolds, NextKeeps, PTL DEF Spec

-----------------------------------------------------------------------------
(* The theorems. *)

\* Types of the instances, the broker and the histories, whatever happens.
THEOREM TypeCorrect == Spec => []TypeOK
<1>1. IInv => TypeOK
  BY DEF IInv
<1> QED
  BY <1>1, Invariant, PTL

\* A change is lost for the caches only if it was under way while an instance
\* stopped or failed or the queue was unbound (consumer.go:68-93).
THEOREM LossesExplained == Spec => []LossIsExplained
<1>1. IInv => LossIsExplained
  BY DEF IInv
<1> QED
  BY <1>1, Invariant, PTL
==============================================================================
