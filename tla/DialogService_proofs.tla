------------------------- MODULE DialogService_proofs -------------------------
(***************************************************************************)
(* What holds of Tarantool and of the dialogs for any messages, lists,     *)
(* users, instances, clocks, crashes and faults: the start script ends     *)
(* with a database that serves exactly if no crash left a box.once or the  *)
(* migration half done; the dialog service keeps what it acknowledged,     *)
(* shows it in order and in full, and implements Dialog.                   *)
(***************************************************************************)
EXTENDS DialogService, SequenceTheorems, FiniteSetTheorems, FunctionTheorems, TLAPS

-----------------------------------------------------------------------------
(* Tarantool: what its log holds at each statement of the start script. *)

\* Half done and left behind: the key of a box.once without what it is to do,
\* or the lock of a process that is no more.
LockLeftHalf == "once_lock" \in disk /\ pc \notin {"lock_space", "lock_index"}
                    /\ "lock_index" \notin disk
UserLeftHalf == "once_user" \in disk /\ pc \notin {"user", "grant"}
                    /\ ~({"user", "grant"} \subseteq disk)
LockLeft == "lock" \in disk /\ pc \notin {"space", "index", "functions", "release"}

\* The keys are there from their statements on, and before what they guard.
Keys == /\ pc \notin {"down", "once_lock"} => "once_lock" \in disk
        /\ pc \notin {"down", "once_lock", "lock_space", "lock_index", "once_user"}
              => "once_user" \in disk
        /\ "lock_index" \in disk => "once_lock" \in disk
        /\ "grant" \in disk => "once_user" \in disk

\* Inside a box.once, its last effect is not there yet.
Inside == /\ pc \in {"lock_space", "lock_index"} => "lock_index" \notin disk
          /\ pc \in {"user", "grant"} => "grant" \notin disk
          /\ pc = "grant" => "user" \in disk

\* Inside the migration the lock is held, and a space without its index is
\* only there under the lock.
Migration ==
    /\ pc \in {"space", "index", "functions", "release"} => {"lock", "lock_index"} \subseteq disk
    /\ pc \in {"functions", "release"} => "index" \in disk
    /\ "space" \in disk /\ "index" \notin disk => "lock" \in disk /\ pc # "space"

\* The functions are there after the migration, in the process that ran it.
FunctionsThere ==
    /\ functions => /\ pc \in {"release", "ready"}
                    /\ {"index", "lock_index"} \subseteq disk
                    /\ pc = "ready" => "lock" \notin disk
    /\ pc = "release" => functions
    /\ pc = "ready" /\ ~functions => "lock_index" \notin disk \/ "lock" \in disk

Damage == damaged <=> LockLeftHalf \/ UserLeftHalf \/ LockLeft

TntInv == TntTypeOK /\ Keys /\ Inside /\ Migration /\ FunctionsThere /\ Damage

LEMMA TntInvReady == TntInv => ReadyIffUndamaged
BY DEF TntInv, TntTypeOK, Keys, FunctionsThere, Damage, LockLeftHalf, UserLeftHalf,
       LockLeft, ReadyIffUndamaged, CanInsert, CanCall

-----------------------------------------------------------------------------
(* Tarantool: induction. *)

\* The process is down and the log is empty.
LEMMA TntInvInit == TntInit => TntInv
<1> SUFFICES ASSUME TntInit
             PROVE  TntInv
  OBVIOUS
<1> USE DEF TntInit
<1>1. ~functions /\ ~damaged /\ functions \in BOOLEAN /\ damaged \in BOOLEAN
  BY Zenon
<1>2. TntTypeOK
  BY <1>1, TarantoolAssumption DEF TntTypeOK, Statements, Writes
<1>3. Keys /\ Inside /\ Migration /\ FunctionsThere
  BY <1>1 DEF Keys, Inside, Migration, FunctionsThere
<1>4. Damage
  BY <1>1 DEF Damage, LockLeftHalf, UserLeftHalf, LockLeft
<1> QED
  BY <1>2, <1>3, <1>4 DEF TntInv

\* The types, one step.
LEMMA TntTypeStep == TntTypeOK /\ [TntNext]_tntVars => TntTypeOK'
<1> SUFFICES ASSUME TntTypeOK, [TntNext]_tntVars
             PROVE  TntTypeOK'
  OBVIOUS
<1> USE TarantoolAssumption DEF TntTypeOK, Statements, Writes
<1>1. CASE Start
  BY <1>1 DEF Start
<1>2. CASE OnceLock
  BY <1>2 DEF OnceLock, Once, Write, Go
<1>3. CASE OnceUser
  BY <1>3 DEF OnceUser, Once, Write, Go
<1>4. CASE AcquireLock
  BY <1>4 DEF AcquireLock, Write, Go
<1>5. CASE CreateSpace
  BY <1>5 DEF CreateSpace, Write, Go
<1>6. CASE DefineFunctions
  BY <1>6 DEF DefineFunctions
<1>7. CASE ReleaseLock
  BY <1>7 DEF ReleaseLock, Go
<1>8. CASE Crash
  <2>1. damaged' \in BOOLEAN /\ functions' \in BOOLEAN
    BY <1>8, Zenon DEF Crash
  <2>2. pc' = "down" /\ crashes < MaxCrashes /\ crashes' = crashes + 1
           /\ disk' = disk /\ tuples' = tuples
    BY <1>8, Zenon DEF Crash
  <2> QED
    BY <2>1, <2>2
<1>9. CASE \E m \in Messages : Insert(m)
  BY <1>9 DEF Insert
<1>10. CASE UNCHANGED tntVars
  BY <1>10 DEF tntVars
<1> QED
  BY <1>1, <1>2, <1>3, <1>4, <1>5, <1>6, <1>7, <1>8, <1>9, <1>10 DEF TntNext, Script

\* Every step keeps the invariant.
LEMMA TntInvStep == TntInv /\ [TntNext]_tntVars => TntInv'
<1> SUFFICES ASSUME TntInv, [TntNext]_tntVars
             PROVE  (Keys /\ Inside /\ Migration /\ FunctionsThere /\ Damage)'
  BY TntTypeStep DEF TntInv
<1> USE DEF TntInv, TntTypeOK, Keys, Inside, Migration, FunctionsThere, Damage,
            LockLeftHalf, UserLeftHalf, LockLeft
<1>1. CASE Start
  BY <1>1 DEF Start
<1>2. CASE OnceLock
  <2> USE DEF Go, Write
  <2>1. CASE "once_lock" \notin disk /\ Write("once_lock", "lock_space")
    BY <2>1
  <2>2. CASE "once_lock" \in disk /\ Go("once_lock", "once_user") /\ UNCHANGED disk
    BY <2>2
  <2>3. CASE Write("lock_space", "lock_index")
    BY <2>3
  <2>4. CASE Write("lock_index", "once_user")
    BY <2>4
  <2> QED
    BY <1>2, <2>1, <2>2, <2>3, <2>4 DEF OnceLock, Once
<1>3. CASE OnceUser
  <2> USE DEF Go, Write
  <2>1. CASE "once_user" \notin disk /\ Write("once_user", "user")
    BY <2>1
  <2>2. CASE "once_user" \in disk /\ Go("once_user", "lock") /\ UNCHANGED disk
    BY <2>2
  <2>3. CASE Write("user", "grant")
    BY <2>3
  <2>4. CASE Write("grant", "lock")
    BY <2>4
  <2> QED
    BY <1>3, <2>1, <2>2, <2>3, <2>4 DEF OnceUser, Once
<1>4. CASE AcquireLock
  BY <1>4 DEF AcquireLock, Write, Go
<1>5. CASE CreateSpace
  BY <1>5 DEF CreateSpace, Write, Go
<1>6. CASE DefineFunctions
  BY <1>6 DEF DefineFunctions
<1>7. CASE ReleaseLock
  BY <1>7 DEF ReleaseLock, Go
<1>8. CASE Crash
  <2>1. damaged' <=> damaged \/ pc \in HalfDone
    BY <1>8, Zenon DEF Crash
  <2>2. pc \in HalfDone => (LockLeftHalf \/ UserLeftHalf \/ LockLeft)'
    <3>1. pc' = "down" /\ disk' = disk
      BY <1>8 DEF Crash
    <3>2. CASE pc \in {"lock_space", "lock_index"}
      BY <3>1, <3>2
    <3>3. CASE pc \in {"user", "grant"}
      BY <3>1, <3>3
    <3>4. CASE pc \in {"space", "index", "functions", "release"}
      BY <3>1, <3>4
    <3> QED
      BY <3>2, <3>3, <3>4 DEF HalfDone
  <2>3. pc \notin HalfDone =>
           /\ LockLeftHalf' <=> LockLeftHalf
           /\ UserLeftHalf' <=> UserLeftHalf
           /\ LockLeft' <=> LockLeft
    BY <1>8 DEF Crash, HalfDone
  <2>4. Damage'
    BY <2>1, <2>2, <2>3
  <2>5. (Keys /\ Inside /\ Migration)'
    BY <1>8 DEF Crash
  <2>6. FunctionsThere'
    <3>1. ~functions'
      BY <1>8, Zenon DEF Crash
    <3> QED
      BY <1>8, <3>1 DEF Crash
  <2> QED
    BY <2>4, <2>5, <2>6
<1>9. CASE \E m \in Messages : Insert(m)
  BY <1>9 DEF Insert
<1>10. CASE UNCHANGED tntVars
  BY <1>10 DEF tntVars
<1> QED
  BY <1>1, <1>2, <1>3, <1>4, <1>5, <1>6, <1>7, <1>8, <1>9, <1>10 DEF TntNext, Script

LEMMA TntInvariance == TntSpec => []TntInv
BY TntInvInit, TntInvStep, PTL DEF TntSpec

-----------------------------------------------------------------------------

\* The types hold whatever the messages and the number of crashes
\* (schema.lua:1-65).
THEOREM TntTypeCorrect == TntSpec => []TntTypeOK
<1>1. TntInv => TntTypeOK
  BY DEF TntInv
<1> QED
  BY <1>1, TntInvariance, PTL

\* After the script the dialogs are served if and only if Tarantool never died
\* inside a box.once or under the migration lock (schema.lua:15-63).
THEOREM ReadyServes == TntSpec => []ReadyIffUndamaged
BY TntInvReady, TntInvariance, PTL

-----------------------------------------------------------------------------
(* Sequences of rows. *)

Distinct(s) == \A j, k \in DOMAIN s : s[j] = s[k] => j = k

\* Rows as their storage sorts them.
InOrder(s) ==
    \A j, k \in DOMAIN s : j < k =>
       IF Memory THEN stamp[s[j]] <= stamp[s[k]] ELSE stamp[s[j]] >= stamp[s[k]]

LEMMA AppendSet ==
  ASSUME NEW S, NEW s \in Seq(S), NEW e \in S
  PROVE  Append(s, e) \in Seq(S) /\ ToSet(Append(s, e)) = ToSet(s) \cup {e}
<1>1. /\ Append(s, e) \in Seq(S) /\ DOMAIN Append(s, e) = 1..(Len(s) + 1)
      /\ \A i \in 1..Len(s) : Append(s, e)[i] = s[i]
      /\ Append(s, e)[Len(s) + 1] = e
      /\ Len(s) \in Nat /\ DOMAIN s = 1..Len(s)
  BY AppendProperties, LenProperties
<1>2. ToSet(Append(s, e)) \subseteq ToSet(s) \cup {e}
  BY <1>1 DEF ToSet
<1>3. ToSet(s) \subseteq ToSet(Append(s, e)) /\ e \in ToSet(Append(s, e))
  BY <1>1 DEF ToSet
<1> QED
  BY <1>1, <1>2, <1>3

\* A copy of the log.
LEMMA PrefixSet ==
  ASSUME NEW S, NEW s \in Seq(S), NEW n \in 0..Len(s)
  PROVE  /\ SubSeq(s, 1, n) \in Seq(S) /\ ToSet(SubSeq(s, 1, n)) \subseteq ToSet(s)
         /\ n = Len(s) => ToSet(SubSeq(s, 1, n)) = ToSet(s)
<1>1. /\ Len(s) \in Nat /\ DOMAIN s = 1..Len(s) /\ SubSeq(s, 1, n) \in Seq(S)
      /\ DOMAIN SubSeq(s, 1, n) = 1..n /\ \A i \in 1..n : SubSeq(s, 1, n)[i] = s[i]
  BY SubSeqProperties, LenProperties
<1>2. ToSet(SubSeq(s, 1, n)) \subseteq ToSet(s)
  BY <1>1 DEF ToSet
<1>3. n = Len(s) => ToSet(s) \subseteq ToSet(SubSeq(s, 1, n))
  BY <1>1 DEF ToSet
<1> QED
  BY <1>1, <1>2, <1>3

\* Rows that broke off.
LEMMA PrefixRows ==
  ASSUME NEW S, NEW s \in Seq(S), NEW k \in 0..Len(s), Distinct(s), InOrder(s)
  PROVE  Distinct(SubSeq(s, 1, k)) /\ InOrder(SubSeq(s, 1, k))
<1>1. /\ Len(s) \in Nat /\ DOMAIN s = 1..Len(s) /\ 1..k \subseteq DOMAIN s
      /\ DOMAIN SubSeq(s, 1, k) = 1..k /\ \A i \in 1..k : SubSeq(s, 1, k)[i] = s[i]
  BY SubSeqProperties, LenProperties
<1> QED
  BY <1>1 DEF Distinct, InOrder

\* An order of rows has each of them once.
LEMMA OrdersDistinct ==
  ASSUME NEW S, IsFiniteSet(S), NEW s \in Orders(S)
  PROVE  s \in Seq(S) /\ ToSet(s) = S /\ Distinct(s) /\ Len(s) = Cardinality(S)
<1>1. Cardinality(S) \in Nat
  BY FS_CardinalityType
<1>2. s \in [1..Cardinality(S) -> S] /\ ToSet(s) = S
  BY DEF Orders
<1>3. s \in Surjection(1..Cardinality(S), S)
  BY <1>2 DEF ToSet, Surjection
<1>4. IsFiniteSet(1..Cardinality(S)) /\ Cardinality(1..Cardinality(S)) = Cardinality(S)
  BY <1>1, FS_Interval
<1>5. s \in Injection(1..Cardinality(S), S)
  BY <1>3, <1>4, FS_SurjSameCardinalityImpliesInj
<1>6. Distinct(s)
  BY <1>2, <1>5 DEF Injection, IsInjective, Distinct
<1> QED
  BY <1>1, <1>2, <1>6

\* And the other way round.
LEMMA DistinctOrders ==
  ASSUME NEW S, NEW s \in Seq(S), Distinct(s)
  PROVE  s \in [1..Cardinality(ToSet(s)) -> ToSet(s)]
<1>1. Len(s) \in Nat /\ s \in [1..Len(s) -> ToSet(s)]
  BY LenProperties DEF ToSet
<1>2. s \in Bijection(1..Len(s), ToSet(s))
  BY <1>1 DEF Bijection, Surjection, Injection, IsInjective, ToSet, Distinct
<1>3. IsFiniteSet(1..Len(s)) /\ Cardinality(1..Len(s)) = Len(s)
  BY <1>1, FS_Interval
<1>4. Cardinality(ToSet(s)) = Len(s)
  BY <1>2, <1>3, FS_Bijection DEF ExistsBijection
<1> QED
  BY <1>1, <1>4

-----------------------------------------------------------------------------
(* The inductive invariant of the dialogs. *)

\* How far a request is, and what it knows of the others.
Lives ==
    \A r \in Requests :
       /\ phase[r] = "idle" => parties[r] = <<>>
       /\ phase[r] = "over" <=> answer[r] # "none"
       /\ phase[r] \in {"working", "done"} \/ answer[r] = "ok" => parties[r] # <<>>
       /\ parties[r] = <<>> => heard[r] = {}
       /\ heard[r] \subseteq {m \in Messages : answer[m] = "ok"}

\* What was acknowledged is kept, and nothing is that nobody sent.
Inserted ==
    /\ \A m \in flying \cup Kept : parties[m] # <<>>
    /\ \A m \in Messages : phase[m] = "done" \/ answer[m] = "ok" => m \in Kept

\* Stamps are given in the order of the sends, up to a clock that runs ahead.
Sent == {m \in Messages : parties[m] # <<>>}
Ahead(i) == IF Memory /\ i \in Fast THEN Cardinality(Messages) ELSE 0

Stamped ==
    /\ issued = Cardinality(Sent)
    /\ \A m \in Sent : stamp[m] <= issued + Ahead(at[m])
    /\ \A n \in Messages : \A m \in heard[n] :
          (Memory => at[m] = at[n]) => stamp[m] < stamp[n]

\* Rows that were read are kept messages of the dialog, each once, sorted; and
\* all that were acknowledged before, unless the list is in partial.
Shown ==
    \A l \in Lists :
       /\ parties[l] = <<>> => result[l] = <<>>
       /\ Distinct(result[l]) /\ InOrder(result[l])
       /\ ToSet(result[l]) \subseteq DialogOf(l, Kept)
       /\ (phase[l] = "done" \/ answer[l] = "ok") /\ l \notin partial
             => DialogOf(l, heard[l]) \subseteq ToSet(result[l])

IInv == TypeOK /\ TntInv /\ Lives /\ Inserted /\ Stamped /\ Shown

\* A sorted list shows a message on the right side of those its sender knew of.
LEMMA ImpliesFollow == IInv => RepliesFollow
<1> SUFFICES ASSUME IInv, NEW l \in Lists, NEW n \in ToSet(result[l]),
                    NEW m \in heard[n] \cap ToSet(result[l]), Memory => at[n] = at[m]
             PROVE  IF Memory THEN Before(result[l], m, n) ELSE Before(result[l], n, m)
  BY DEF RepliesFollow
<1> DEFINE s == result[l]
<1>1. s \in Seq(Messages) /\ InOrder(s) /\ stamp \in [Messages -> Nat]
  BY DEF IInv, TypeOK, Shown
<1>2. DOMAIN s = 1..Len(s) /\ Len(s) \in Nat /\ \A i \in DOMAIN s : s[i] \in Messages
  BY <1>1, LenProperties
<1>3. PICK j \in DOMAIN s : s[j] = m
  BY DEF ToSet
<1>4. PICK k \in DOMAIN s : s[k] = n
  BY DEF ToSet
<1>5. stamp[m] < stamp[n]
  BY <1>2, <1>4 DEF IInv, Stamped
<1>6. stamp[m] \in Nat /\ stamp[n] \in Nat /\ j \in Nat /\ k \in Nat
  BY <1>1, <1>2, <1>3, <1>4
<1>7. j # k
  BY <1>3, <1>4, <1>5, <1>6
<1>8. IF Memory THEN j < k ELSE k < j
  BY <1>1, <1>3, <1>4, <1>5, <1>6, <1>7 DEF InOrder
<1> QED
  BY <1>3, <1>4, <1>8 DEF Before

LEMMA ImpliesComplete == IInv => ListIsComplete
<1> SUFFICES ASSUME IInv, NEW l \in Lists, answer[l] = "ok", l \notin partial
             PROVE  {m \in heard[l] : ToSet(parties[m]) = ToSet(parties[l])}
                       \subseteq ToSet(result[l])
  BY DEF ListIsComplete
<1> QED
  BY DEF IInv, Shown, DialogOf, ObtainDialogId

LEMMA IInvInit == Init => IInv
<1> SUFFICES ASSUME Init
             PROVE  IInv
  OBVIOUS
<1> USE DEF Init
<1>1. TntInv
  BY TntInvInit
<1>2. Cardinality(Messages) \in Nat
  BY DialogAssumption, FS_CardinalityType
<1>3. TypeOK
  <2>1. <<>> \in Seq(Messages)
    BY EmptySeq
  <2> QED
    BY <1>1, <1>2, <2>1, DialogAssumption DEF TypeOK, TntInv, Requests
<1>4. Kept = {}
  BY DEF Kept, TntInit, ToSet
<1>5. Lives /\ Inserted
  BY <1>4 DEF Lives, Inserted, Requests
<1>6. Stamped
  <2>1. Sent = {} /\ Cardinality({}) = 0
    BY FS_EmptySet DEF Sent, Requests
  <2> QED
    BY <2>1 DEF Stamped, Requests
<1>7. Shown
  BY DEF Shown, Distinct, InOrder, ToSet, Requests, DialogOf
<1> QED
  BY <1>1, <1>3, <1>5, <1>6, <1>7 DEF IInv

-----------------------------------------------------------------------------
(* The dialogs do to Tarantool what TntNext allows. *)

LEMMA TarantoolSteps == [Next]_vars => [TntNext]_tntVars
<1> SUFFICES ASSUME [Next]_vars
             PROVE  [TntNext]_tntVars
  OBVIOUS
<1>1. ASSUME TarantoolStep
      PROVE  TntNext
  BY <1>1 DEF TarantoolStep, TntNext
<1>2. ASSUME CrashTarantool
      PROVE  TntNext
  BY <1>2 DEF CrashTarantool, TntNext
<1>3. ASSUME NEW i \in Instances, StartInstance(i) \/ CrashInstance(i)
      PROVE  UNCHANGED tntVars
  BY <1>3 DEF StartInstance, CrashInstance, tntVars
<1>4. ASSUME NEW m \in Messages, Send(m)
      PROVE  UNCHANGED tntVars
  BY <1>4 DEF Send, CreateMessage, Ask, tntVars
<1>5. ASSUME NEW l \in Lists, List(l) \/ SelectCut(l)
      PROVE  UNCHANGED tntVars
  BY <1>5 DEF List, GetMessagesBetween, Ask, SelectCut, Read, tntVars
<1>6. ASSUME NEW r \in Requests, Refuse(r) \/ Reply(r) \/ LoseReply(r)
      PROVE  UNCHANGED tntVars
  BY <1>6 DEF Refuse, Reply, LoseReply, tntVars
<1>7. ASSUME NEW m \in Messages, InsertSQL(m) \/ InsertMemory(m) \/ RefuseInsert(m)
      PROVE  TntNext \/ UNCHANGED tntVars
  BY <1>7 DEF InsertSQL, InsertMemory, RefuseInsert, TntNext, tntVars
<1>8. ASSUME NEW l \in Lists, SelectSQL(l) \/ SelectMemory(l) \/ RefuseSelect(l)
      PROVE  UNCHANGED tntVars
  BY <1>8 DEF SelectSQL, SelectMemory, RefuseSelect, Read, tntVars
<1>9. ASSUME UNCHANGED vars
      PROVE  UNCHANGED tntVars
  BY <1>9 DEF vars
<1> QED
  BY <1>1, <1>2, <1>3, <1>4, <1>5, <1>6, <1>7, <1>8, <1>9 DEF Next, Handle

LEMMA TntInvOfDialogs == TntInv /\ [Next]_vars => TntInv'
BY TarantoolSteps, TntInvStep

-----------------------------------------------------------------------------
(* The kinds of steps. *)

Same == UNCHANGED <<kind, log, tuples, at, parties, stamp, issued, result, heard, partial>>

\* The requests S are answered with status, and nothing else is different to
\* the others.
Ends(S, status) ==
    /\ \A r \in S : answer[r] = "none" /\ (status = "ok" => phase[r] = "done")
    /\ phase' = [r \in Requests |-> IF r \in S THEN "over" ELSE phase[r]]
    /\ answer' = [r \in Requests |-> IF r \in S THEN status ELSE answer[r]]
    /\ flying' \subseteq flying
    /\ Same

\* So end requests that an instance had.
Fails(S) == Ends(S, "failed") /\ \A r \in S : parties[r] # <<>>

\* The row of a message is there.
Inserts(m) ==
    /\ m \in flying /\ flying' \subseteq flying
    /\ Kept' = Kept \cup {m}
    /\ phase' = IF phase[m] = "working" THEN [phase EXCEPT ![m] = "done"] ELSE phase
    /\ UNCHANGED <<kind, at, parties, stamp, issued, result, answer, heard, partial>>

\* A list has its rows; in full, unless it is in partial.
Reads(l, rows) ==
    /\ phase[l] = "working" /\ phase' = [phase EXCEPT ![l] = "done"]
    /\ rows \in Seq(Messages) /\ Distinct(rows) /\ InOrder(rows)
    /\ ToSet(rows) \subseteq DialogOf(l, Kept)
    /\ partial \subseteq partial' /\ partial' \subseteq partial \cup {l}
    /\ l \notin partial' => DialogOf(l, Kept) \subseteq ToSet(rows)
    /\ result' = [result EXCEPT ![l] = rows]
    /\ UNCHANGED <<kind, log, tuples, at, parties, flying, stamp, issued, answer, heard>>

LEMMA SameStorage == Same => Kept' = Kept /\ kind' = kind
BY DEF Same, Kept, Memory

\* Nothing of the dialogs is different.
LEMMA QuietSteps ==
  ASSUME IInv,
         \/ TarantoolStep \/ UNCHANGED vars
         \/ \E i \in Instances : StartInstance(i)
  PROVE  Fails({})
<1>1. phase' = phase /\ answer' = answer /\ flying' = flying /\ Same
  <2>1. ASSUME TarantoolStep
        PROVE  tuples' = tuples
    BY <2>1 DEF TarantoolStep, Start, Script, OnceLock, OnceUser, AcquireLock, CreateSpace,
                DefineFunctions, ReleaseLock, Once, Write, Go
  <2> QED
    BY <2>1 DEF TarantoolStep, StartInstance, vars, tntVars, dlgVars, Same
<1>2. phase \in [Requests -> {"idle", "working", "done", "over"}]
         /\ answer \in [Requests -> {"none", "ok", "failed"}]
  BY DEF IInv, TypeOK
<1> QED
  BY <1>1, <1>2 DEF Fails, Ends

\* What an instance or Tarantool had is answered 500 when it crashes.
LEMMA CrashSteps ==
  ASSUME IInv, CrashTarantool \/ \E i \in Instances : CrashInstance(i)
  PROVE  \E S \in SUBSET Requests : Fails(S)
<1>1. ASSUME CrashTarantool
      PROVE  Fails({r \in Requests : phase[r] = "working"})
  BY <1>1 DEF IInv, Lives, TypeOK, CrashTarantool, Crash, Fails, Ends, Same
<1>2. ASSUME NEW i \in Instances, CrashInstance(i)
      PROVE  Fails({r \in Requests : at[r] = i /\ phase[r] \in {"working", "done"}})
  BY <1>2 DEF IInv, Lives, TypeOK, CrashInstance, Fails, Ends, Same, tntVars
<1> QED
  BY <1>1, <1>2

\* A refused statement and a response that is lost end one request.
LEMMA FailSteps ==
  ASSUME IInv,
         \/ \E m \in Messages : RefuseInsert(m)
         \/ \E l \in Lists : RefuseSelect(l)
         \/ \E r \in Requests : LoseReply(r)
  PROVE  \E S \in SUBSET Requests : Fails(S)
<1> USE DEF IInv, Lives, TypeOK, Over, Fails, Ends, Same, tntVars
<1>1. ASSUME NEW m \in Messages, RefuseInsert(m), phase[m] = "working"
      PROVE  Fails({m})
  BY <1>1 DEF RefuseInsert, Requests
<1>2. ASSUME NEW m \in Messages, RefuseInsert(m), phase[m] # "working"
      PROVE  Fails({})
  BY <1>2 DEF RefuseInsert
<1>3. ASSUME NEW l \in Lists, RefuseSelect(l)
      PROVE  Fails({l})
  BY <1>3 DEF RefuseSelect, Requests
<1>4. ASSUME NEW r \in Requests, LoseReply(r)
      PROVE  Fails({r})
  BY <1>4 DEF LoseReply
<1> HIDE DEF IInv, Lives, TypeOK, Over, Fails, Ends, Same, tntVars
<1>5. /\ {} \in SUBSET Requests /\ \A r \in Requests : {r} \in SUBSET Requests
      /\ Messages \subseteq Requests /\ Lists \subseteq Requests
  BY DEF Requests
<1>6. ASSUME NEW m \in Messages, RefuseInsert(m)
      PROVE  \E S \in SUBSET Requests : Fails(S)
  BY <1>1, <1>2, <1>5, <1>6
<1> QED
  BY <1>3, <1>4, <1>5, <1>6

LEMMA RefuseSteps ==
  ASSUME IInv, NEW r \in Requests, Refuse(r)
  PROVE  Ends({r}, "failed") /\ flying' = flying
BY DEF IInv, Lives, TypeOK, Refuse, Over, Ends, Same, tntVars

LEMMA ReplySteps ==
  ASSUME IInv, NEW r \in Requests, Reply(r)
  PROVE  Ends({r}, "ok")
BY DEF IInv, Lives, TypeOK, Reply, Over, Ends, Same, tntVars

\* A message is in the storage that was on its way there.
LEMMA InsertSteps ==
  ASSUME IInv, NEW m \in Messages, InsertSQL(m) \/ InsertMemory(m)
  PROVE  Inserts(m)
<1>1. ASSUME InsertSQL(m)
      PROVE  Inserts(m)
  <2>1. log \in Seq(Messages) /\ ToSet(log') = ToSet(log) \cup {m}
    BY <1>1, AppendSet DEF IInv, TypeOK, InsertSQL
  <2> QED
    BY <1>1, <2>1 DEF InsertSQL, Done, Inserts, Kept, Memory
<1>2. ASSUME InsertMemory(m)
      PROVE  Inserts(m)
  BY <1>2 DEF InsertMemory, Insert, Done, Inserts, Kept, Memory
<1> QED
  BY <1>1, <1>2

\* What a storage sorts are rows in order, each once.
LEMMA SortedRows ==
  ASSUME IInv, NEW S \in SUBSET Messages, NEW rows,
         IF Memory THEN rows \in OldestFirst(S) ELSE rows \in NewestFirst(S)
  PROVE  rows \in Seq(Messages) /\ ToSet(rows) = S /\ Distinct(rows) /\ InOrder(rows)
<1>1. IsFiniteSet(S)
  BY DialogAssumption, FS_Subset
<1>2. rows \in Orders(S)
  BY DEF OldestFirst, NewestFirst
<1>3. rows \in Seq(S) /\ ToSet(rows) = S /\ Distinct(rows)
  BY <1>1, <1>2, OrdersDistinct
<1>4. InOrder(rows)
  BY DEF InOrder, OldestFirst, NewestFirst
<1> QED
  BY <1>3, <1>4, SeqMonotonic

\* A select reads the whole dialog, or the list is in partial from now on.
LEMMA SelectSteps ==
  ASSUME IInv, NEW l \in Lists, SelectSQL(l) \/ SelectMemory(l) \/ SelectCut(l)
  PROVE  \E rows : Reads(l, rows)
<1> USE DEF Same
<1>1. log \in Seq(Messages) /\ tuples \subseteq Messages /\ Len(log) \in Nat
  BY LenProperties DEF IInv, TypeOK, TntTypeOK
<1>2. ASSUME NEW n \in 0..Len(log)
      PROVE  /\ DialogOf(l, ToSet(SubSeq(log, 1, n))) \subseteq DialogOf(l, ToSet(log))
             /\ n = Len(log)
                  => DialogOf(l, ToSet(SubSeq(log, 1, n))) = DialogOf(l, ToSet(log))
             /\ DialogOf(l, ToSet(SubSeq(log, 1, n))) \in SUBSET Messages
  <2>1. ToSet(log) \subseteq Messages
    BY <1>1, LenProperties DEF ToSet
  <2> QED
    BY <1>1, <2>1, PrefixSet DEF DialogOf
<1>3. CASE SelectSQL(l)
  <2>1. PICK n \in 0..Len(log) :
           \E rows \in NewestFirst(DialogOf(l, ToSet(SubSeq(log, 1, n)))) :
              Read(l, rows, n = Len(log))
    BY <1>3 DEF SelectSQL, Copies
  <2>2. PICK rows \in NewestFirst(DialogOf(l, ToSet(SubSeq(log, 1, n)))) :
           Read(l, rows, n = Len(log))
    BY <2>1
  <2>3. ~Memory /\ Kept = ToSet(log)
    BY <1>3 DEF SelectSQL, Kept
  <2>4. /\ rows \in Seq(Messages) /\ Distinct(rows) /\ InOrder(rows)
        /\ ToSet(rows) = DialogOf(l, ToSet(SubSeq(log, 1, n)))
    BY <1>2, <2>2, <2>3, SortedRows
  <2>5. /\ partial \subseteq partial' /\ partial' \subseteq partial \cup {l}
        /\ l \notin partial' => n = Len(log)
    BY <2>2 DEF Read
  <2>6. Reads(l, rows)
    BY <1>2, <2>2, <2>3, <2>4, <2>5 DEF Read, Reads, tntVars
  <2> QED
    BY <2>6
<1>4. CASE SelectMemory(l)
  <2>1. PICK rows \in OldestFirst(DialogOf(l, tuples)) : Read(l, rows, TRUE)
    BY <1>4 DEF SelectMemory
  <2>2. Memory /\ Kept = tuples
    BY <1>4 DEF SelectMemory, Kept
  <2>3. DialogOf(l, tuples) \in SUBSET Messages
    BY <1>1 DEF DialogOf
  <2>4. /\ rows \in Seq(Messages) /\ Distinct(rows) /\ InOrder(rows)
        /\ ToSet(rows) = DialogOf(l, tuples)
    BY <2>1, <2>2, <2>3, SortedRows
  <2>5. Reads(l, rows)
    BY <2>1, <2>2, <2>4 DEF Read, Reads, tntVars
  <2> QED
    BY <2>5
<1>5. CASE SelectCut(l)
  <2>1. PICK n \in 0..Len(log) :
           \E rows \in NewestFirst(DialogOf(l, ToSet(SubSeq(log, 1, n)))) :
              \E k \in 0..(Len(rows) - 1) : Read(l, SubSeq(rows, 1, k), FALSE)
    BY <1>5 DEF SelectCut, Copies
  <2>2. PICK rows \in NewestFirst(DialogOf(l, ToSet(SubSeq(log, 1, n)))) :
           \E k \in 0..(Len(rows) - 1) : Read(l, SubSeq(rows, 1, k), FALSE)
    BY <2>1
  <2>3. PICK k \in 0..(Len(rows) - 1) : Read(l, SubSeq(rows, 1, k), FALSE)
    BY <2>2
  <2>4. ~Memory /\ Kept = ToSet(log)
    BY <1>5 DEF SelectCut, Kept
  <2>5. /\ rows \in Seq(Messages) /\ Distinct(rows) /\ InOrder(rows)
        /\ ToSet(rows) = DialogOf(l, ToSet(SubSeq(log, 1, n)))
    BY <1>2, <2>2, <2>4, SortedRows
  <2>6. k \in 0..Len(rows)
    BY <2>3, <2>5, LenProperties
  <2>7. /\ SubSeq(rows, 1, k) \in Seq(Messages)
        /\ ToSet(SubSeq(rows, 1, k)) \subseteq ToSet(rows)
        /\ Distinct(SubSeq(rows, 1, k)) /\ InOrder(SubSeq(rows, 1, k))
    BY <2>5, <2>6, PrefixSet, PrefixRows
  <2>8. partial' = partial \cup {l}
    BY <2>3 DEF Read
  <2>9. Reads(l, SubSeq(rows, 1, k))
    BY <1>2, <2>3, <2>4, <2>5, <2>7, <2>8 DEF Read, Reads, tntVars
  <2> QED
    BY <2>9
<1> QED
  BY <1>3, <1>4, <1>5

-----------------------------------------------------------------------------
(* Every kind of step keeps the invariant. *)

Dialogs == Lives /\ Inserted /\ Stamped /\ Shown

\* The rows of the lists stay what they are while their messages, their
\* dialogs and what was heard before them do.
LEMMA ShownStays ==
  ASSUME IInv, NEW l \in Lists,
         kind' = kind, result'[l] = result[l], parties'[l] = parties[l],
         heard'[l] = heard[l], partial \subseteq partial', Kept \subseteq Kept',
         \A m \in Kept : parties'[m] = parties[m] /\ stamp'[m] = stamp[m],
         phase'[l] = "done" \/ answer'[l] = "ok" => phase[l] = "done" \/ answer[l] = "ok"
  PROVE  /\ parties'[l] = <<>> => result'[l] = <<>>
         /\ Distinct(result'[l]) /\ InOrder(result[l])'
         /\ ToSet(result'[l]) \subseteq DialogOf(l, Kept)'
         /\ (phase'[l] = "done" \/ answer'[l] = "ok") /\ l \notin partial'
               => DialogOf(l, heard[l])' \subseteq ToSet(result'[l])
<1> DEFINE s == result[l]
<1>1. /\ parties[l] = <<>> => s = <<>>
      /\ Distinct(s) /\ InOrder(s)
      /\ ToSet(s) \subseteq DialogOf(l, Kept)
      /\ (phase[l] = "done" \/ answer[l] = "ok") /\ l \notin partial
            => DialogOf(l, heard[l]) \subseteq ToSet(s)
  BY DEF IInv, Shown
<1>2. \A j \in DOMAIN s : s[j] \in Kept
  BY <1>1 DEF DialogOf, ToSet
<1>3. InOrder(result[l])'
  BY <1>1, <1>2 DEF InOrder, Memory
<1>4. DialogOf(l, Kept) \subseteq DialogOf(l, Kept)'
  BY DEF DialogOf, ObtainDialogId
<1>5. heard[l] \subseteq Kept
  BY DEF IInv, Lives, Inserted, Requests
<1>6. DialogOf(l, heard[l])' = DialogOf(l, heard[l])
  BY <1>5 DEF DialogOf, ObtainDialogId
<1> QED
  BY <1>1, <1>3, <1>4, <1>6

LEMMA EndsKeeps ==
  ASSUME IInv, NEW S \in SUBSET Requests, NEW status \in {"ok", "failed"}, Ends(S, status)
  PROVE  Dialogs'
<1>1. Kept' = Kept /\ kind' = kind
  BY SameStorage DEF Ends
<1>2. Lives'
  <2> SUFFICES ASSUME NEW r \in Requests
               PROVE  /\ phase'[r] = "idle" => parties'[r] = <<>>
                      /\ phase'[r] = "over" <=> answer'[r] # "none"
                      /\ phase'[r] \in {"working", "done"} \/ answer'[r] = "ok"
                            => parties'[r] # <<>>
                      /\ parties'[r] = <<>> => heard'[r] = {}
                      /\ heard'[r] \subseteq {m \in Messages : answer'[m] = "ok"}
    BY DEF Lives
  <2>1. heard' = heard /\ parties' = parties
    BY DEF Ends, Same
  <2>2. /\ phase'[r] = IF r \in S THEN "over" ELSE phase[r]
        /\ answer'[r] = IF r \in S THEN status ELSE answer[r]
        /\ r \in S /\ status = "ok" => phase[r] = "done"
    BY DEF Ends
  <2>3. \A m \in Messages : answer[m] = "ok" => answer'[m] = "ok"
    BY DEF Ends, Requests
  <2> QED
    BY <2>1, <2>2, <2>3 DEF IInv, Lives
<1>3. Inserted'
  BY <1>1 DEF IInv, Inserted, TypeOK, Ends, Same, Requests
<1>4. Stamped'
  BY <1>1 DEF IInv, Stamped, Ends, Same, Ahead, Memory, Sent
<1>5. Shown'
  <2> SUFFICES ASSUME NEW l \in Lists
               PROVE  /\ parties'[l] = <<>> => result'[l] = <<>>
                      /\ Distinct(result'[l]) /\ InOrder(result[l])'
                      /\ ToSet(result'[l]) \subseteq DialogOf(l, Kept)'
                      /\ (phase'[l] = "done" \/ answer'[l] = "ok") /\ l \notin partial'
                            => DialogOf(l, heard[l])' \subseteq ToSet(result'[l])
    BY DEF Shown, Distinct
  <2>1. phase'[l] = "done" \/ answer'[l] = "ok" => phase[l] = "done" \/ answer[l] = "ok"
    BY DEF Ends, Requests, IInv, TypeOK
  <2> QED
    BY <1>1, <2>1, ShownStays DEF Ends, Same
<1> QED
  BY <1>2, <1>3, <1>4, <1>5 DEF Dialogs

LEMMA InsertsKeeps ==
  ASSUME IInv, NEW m \in Messages, Inserts(m)
  PROVE  Dialogs'
<1>1. Lives'
  BY DEF IInv, Lives, TypeOK, Inserts, Requests
<1>2. Inserted'
  BY DEF IInv, Inserted, TypeOK, Inserts, Requests
<1>3. Stamped'
  BY DEF IInv, Stamped, Inserts, Ahead, Memory, Sent
<1>4. Shown'
  <2> SUFFICES ASSUME NEW l \in Lists
               PROVE  /\ parties'[l] = <<>> => result'[l] = <<>>
                      /\ Distinct(result'[l]) /\ InOrder(result[l])'
                      /\ ToSet(result'[l]) \subseteq DialogOf(l, Kept)'
                      /\ (phase'[l] = "done" \/ answer'[l] = "ok") /\ l \notin partial'
                            => DialogOf(l, heard[l])' \subseteq ToSet(result'[l])
    BY DEF Shown, Distinct
  <2>1. l # m
    BY DialogAssumption
  <2>2. phase'[l] = phase[l] /\ answer' = answer
    BY <2>1 DEF Inserts, IInv, TypeOK, Requests
  <2> QED
    BY <2>2, ShownStays DEF Inserts
<1> QED
  BY <1>1, <1>2, <1>3, <1>4 DEF Dialogs

LEMMA ReadsKeeps ==
  ASSUME IInv, NEW l \in Lists, NEW rows, Reads(l, rows)
  PROVE  Dialogs'
<1>1. Kept' = Kept /\ kind' = kind
  BY DEF Reads, Kept, Memory
<1>2. Lives'
  BY DEF IInv, Lives, TypeOK, Reads, Requests
<1>3. Inserted'
  BY <1>1, DialogAssumption DEF IInv, Inserted, TypeOK, Reads, Requests
<1>4. Stamped'
  BY DEF IInv, Stamped, Reads, Ahead, Memory, Sent
<1>5. Shown'
  <2> SUFFICES ASSUME NEW x \in Lists
               PROVE  /\ parties'[x] = <<>> => result'[x] = <<>>
                      /\ Distinct(result'[x]) /\ InOrder(result[x])'
                      /\ ToSet(result'[x]) \subseteq DialogOf(x, Kept)'
                      /\ (phase'[x] = "done" \/ answer'[x] = "ok") /\ x \notin partial'
                            => DialogOf(x, heard[x])' \subseteq ToSet(result'[x])
    BY DEF Shown, Distinct
  <2>1. CASE x = l
    <3>1. result'[l] = rows /\ parties'[l] = parties[l] /\ heard'[l] = heard[l]
      BY DEF Reads, IInv, TypeOK
    <3>2. parties[l] # <<>>
      BY DEF Reads, IInv, Lives, Requests
    <3>3. Distinct(rows) /\ InOrder(rows)'
      BY DEF Reads, InOrder, Memory
    <3>4. DialogOf(l, Kept)' = DialogOf(l, Kept)
      BY <1>1 DEF DialogOf, ObtainDialogId, Reads
    <3>5. heard[l] \subseteq Kept
      BY DEF IInv, Lives, Inserted, Requests
    <3>6. DialogOf(l, heard[l])' \subseteq DialogOf(l, Kept)
      BY <3>1, <3>5 DEF DialogOf, ObtainDialogId, Reads
    <3>7. /\ ToSet(rows) \subseteq DialogOf(l, Kept)
          /\ l \notin partial' => DialogOf(l, Kept) \subseteq ToSet(rows)
      BY DEF Reads
    <3>8. InOrder(result[l])'
      BY <3>1, <3>3 DEF InOrder
    <3> QED
      BY <2>1, <3>1, <3>2, <3>3, <3>4, <3>6, <3>7, <3>8
  <2>2. CASE x # l
    <3>1. /\ result'[x] = result[x] /\ phase'[x] = phase[x] /\ answer' = answer
          /\ x \in partial' <=> x \in partial
      BY <2>2 DEF Reads, IInv, TypeOK, Requests
    <3> QED
      BY <1>1, <2>2, <3>1, ShownStays DEF Reads
  <2> QED
    BY <2>1, <2>2
<1> QED
  BY <1>2, <1>3, <1>4, <1>5 DEF Dialogs

\* A request that is asked was idle: nobody knows of it.
LEMMA AskFacts ==
  ASSUME IInv, NEW r \in Requests, NEW i \in Instances, Ask(r, i)
  PROVE  /\ parties[r] = <<>> /\ answer[r] = "none" /\ r \notin Kept /\ r \notin flying
         /\ \A n \in Requests : r \notin heard[n]
         /\ parties' = [parties EXCEPT ![r] = parties'[r]] /\ parties'[r] \in Users \X Users
         /\ parties'[r] # <<>>
         /\ Kept' = Kept /\ kind' = kind
<1>1. parties[r] = <<>> /\ answer[r] = "none"
  BY DEF Ask, IInv, Lives, TypeOK
<1>2. r \notin Kept /\ r \notin flying /\ \A n \in Requests : r \notin heard[n]
  BY <1>1 DEF IInv, Inserted, Lives
<1>3. PICK who \in Talk[r] : parties' = [parties EXCEPT ![r] = who]
  BY DEF Ask
<1>4. who \in Users \X Users /\ parties'[r] = who
  BY <1>3, DialogAssumption DEF IInv, TypeOK
<1>5. who # <<>>
  BY <1>4
<1>6. Kept' = Kept /\ kind' = kind
  BY DEF Ask, Kept, Memory, tntVars
<1> QED
  BY <1>1, <1>2, <1>3, <1>4, <1>5, <1>6

LEMMA AskLives ==
  ASSUME IInv, NEW r \in Requests, NEW i \in Instances, Ask(r, i)
  PROVE  Lives'
<1> SUFFICES ASSUME NEW x \in Requests
             PROVE  /\ phase'[x] = "idle" => parties'[x] = <<>>
                    /\ phase'[x] = "over" <=> answer'[x] # "none"
                    /\ phase'[x] \in {"working", "done"} \/ answer'[x] = "ok"
                          => parties'[x] # <<>>
                    /\ parties'[x] = <<>> => heard'[x] = {}
                    /\ heard'[x] \subseteq {m \in Messages : answer'[m] = "ok"}
  BY DEF Lives
<1>1. CASE x = r
  BY <1>1, AskFacts DEF Ask, IInv, TypeOK
<1>2. CASE x # r
  <2>1. /\ phase'[x] = phase[x] /\ answer' = answer /\ heard'[x] = heard[x]
        /\ parties'[x] = parties[x]
    BY <1>2, AskFacts DEF Ask, IInv, TypeOK
  <2> QED
    BY <2>1 DEF IInv, Lives
<1> QED
  BY <1>1, <1>2

LEMMA AskShown ==
  ASSUME IInv, NEW r \in Requests, NEW i \in Instances, Ask(r, i),
         \A m \in Messages : m # r => stamp'[m] = stamp[m]
  PROVE  Shown'
<1> SUFFICES ASSUME NEW l \in Lists
             PROVE  /\ parties'[l] = <<>> => result'[l] = <<>>
                    /\ Distinct(result'[l]) /\ InOrder(result[l])'
                    /\ ToSet(result'[l]) \subseteq DialogOf(l, Kept)'
                    /\ (phase'[l] = "done" \/ answer'[l] = "ok") /\ l \notin partial'
                          => DialogOf(l, heard[l])' \subseteq ToSet(result'[l])
  BY DEF Shown, Distinct
<1>1. /\ parties[r] = <<>> /\ answer[r] = "none" /\ r \notin Kept
      /\ parties' = [parties EXCEPT ![r] = parties'[r]] /\ Kept' = Kept /\ kind' = kind
  BY AskFacts
<1>2. CASE l = r
  <2>1. result'[l] = <<>>
    BY <1>1, <1>2 DEF Ask, IInv, Shown
  <2>2. phase'[l] = "working" /\ answer'[l] = "none"
    BY <1>1, <1>2 DEF Ask, IInv, TypeOK
  <2>3. Distinct(<<>>) /\ InOrder(result[l])' /\ ToSet(<<>>) = {}
    BY <2>1 DEF Distinct, InOrder, ToSet
  <2> QED
    BY <2>1, <2>2, <2>3
<1>3. CASE l # r
  <2>1. /\ result'[l] = result[l] /\ parties'[l] = parties[l] /\ heard'[l] = heard[l]
        /\ partial' = partial /\ phase'[l] = phase[l] /\ answer' = answer
    BY <1>1, <1>3 DEF Ask, IInv, TypeOK, Requests
  <2>2. Kept \subseteq Messages
    BY LenProperties DEF IInv, TypeOK, TntTypeOK, Kept, ToSet
  <2>3. \A m \in Kept : parties'[m] = parties[m] /\ stamp'[m] = stamp[m]
    BY <1>1, <2>2 DEF IInv, TypeOK, Requests
  <2> QED
    BY <1>1, <2>1, <2>3, ShownStays
<1> QED
  BY <1>2, <1>3

\* A send takes the next stamp, which is above those of all that it knows of.
LEMMA CreateKeeps ==
  ASSUME IInv, NEW m \in Messages, NEW i \in Instances, CreateMessage(m, i)
  PROVE  Dialogs' /\ issued' \in 0..Cardinality(Messages)
<1>1. m \in Requests /\ Ask(m, i)
  BY DEF CreateMessage, Requests
<1>2. /\ parties[m] = <<>> /\ answer[m] = "none" /\ m \notin Kept /\ m \notin flying
      /\ \A n \in Requests : m \notin heard[n]
      /\ parties' = [parties EXCEPT ![m] = parties'[m]] /\ parties'[m] # <<>>
      /\ Kept' = Kept /\ kind' = kind
  BY <1>1, AskFacts
<1>3. \A x \in Requests : x # m => parties'[x] = parties[x] /\ at'[x] = at[x]
  BY <1>1, <1>2 DEF Ask, IInv, TypeOK
<1>4. \A x \in Messages : x # m => stamp'[x] = stamp[x]
  BY DEF CreateMessage, IInv, TypeOK
<1>5. Inserted'
  BY <1>1, <1>2, <1>3 DEF CreateMessage, Ask, IInv, TypeOK, Inserted, Requests
<1>6. Sent' = Sent \cup {m} /\ m \notin Sent
  BY <1>2, <1>3 DEF Sent, Requests
<1>7. IsFiniteSet(Sent) /\ Cardinality(Sent') = Cardinality(Sent) + 1
         /\ Cardinality(Sent) \in Nat
  <2>1. IsFiniteSet(Sent)
    BY DialogAssumption, FS_Subset DEF Sent
  <2> QED
    BY <1>6, <2>1, FS_AddElement, FS_CardinalityType
<1>8. issued' = Cardinality(Sent')
  BY <1>7 DEF CreateMessage, IInv, Stamped
<1>9. Cardinality(Sent') <= Cardinality(Messages) /\ Cardinality(Messages) \in Nat
  <2>1. Sent' \in SUBSET Messages
    BY DEF Sent
  <2> QED
    BY <2>1, DialogAssumption, FS_Subset, FS_CardinalityType
<1>10. /\ stamp'[m] = issued + 1 + Ahead(i) /\ at'[m] = i /\ issued' = issued + 1
       /\ \A j : Ahead(j)' = Ahead(j) /\ Ahead(j) \in Nat
       /\ issued \in Nat /\ stamp \in [Messages -> Nat]
  BY <1>1, <1>2, <1>9 DEF CreateMessage, Ask, NewStamp, Ahead, Memory, IInv, TypeOK
<1>11. \A x \in Sent' : stamp'[x] <= issued' + Ahead(at[x])'
  <2> SUFFICES ASSUME NEW x \in Sent'
               PROVE  stamp'[x] <= issued' + Ahead(at'[x])
    BY <1>10 DEF Ahead, Memory
  <2>1. CASE x = m
    BY <2>1, <1>10
  <2>2. CASE x # m
    <3>1. x \in Sent /\ x \in Messages /\ stamp'[x] = stamp[x] /\ at'[x] = at[x]
      BY <2>2, <1>3, <1>4, <1>6 DEF Sent, Requests
    <3>2. stamp[x] <= issued + Ahead(at[x])
      BY <3>1 DEF IInv, Stamped
    <3> QED
      BY <3>1, <3>2, <1>10
  <2> QED
    BY <2>1, <2>2
<1>12. ASSUME NEW n \in Messages, NEW x \in heard'[n], Memory' => at'[x] = at'[n]
       PROVE  stamp'[x] < stamp'[n]
  <2>1. CASE n = m
    <3>1. x \in Messages /\ answer[x] = "ok"
      BY <2>1, <1>1, <1>12 DEF Ask, IInv, TypeOK
    <3>2. x # m /\ x \in Sent
      BY <3>1, <1>2 DEF IInv, Lives, Sent, Requests
    <3>3. stamp[x] <= issued + Ahead(at[x]) /\ stamp'[x] = stamp[x] /\ at'[x] = at[x]
      BY <3>1, <3>2, <1>3, <1>4 DEF IInv, Stamped, Requests
    <3>4. Ahead(at[x]) = Ahead(i)
      BY <2>1, <3>3, <1>2, <1>10, <1>12 DEF Ahead, Memory
    <3> QED
      BY <2>1, <3>1, <3>3, <3>4, <1>10
  <2>2. CASE n # m
    <3>1. x \in heard[n] /\ n \in Requests
      BY <2>2, <1>1, <1>12 DEF Ask, IInv, TypeOK, Requests
    <3>2. x # m /\ x \in Messages
      BY <3>1, <1>2 DEF IInv, TypeOK
    <3> QED
      BY <2>2, <3>1, <3>2, <1>2, <1>3, <1>4, <1>12 DEF IInv, Stamped, Requests, Memory
  <2> QED
    BY <2>1, <2>2
<1>13. Stamped'
  BY <1>8, <1>11, <1>12 DEF Stamped
<1>14. Lives' /\ Shown'
  BY <1>1, <1>4, AskLives, AskShown
<1> QED
  BY <1>5, <1>7, <1>8, <1>9, <1>13, <1>14 DEF Dialogs

LEMMA ListKeeps ==
  ASSUME IInv, NEW l \in Lists, NEW i \in Instances, GetMessagesBetween(l, i)
  PROVE  Dialogs'
<1>1. l \in Requests /\ Ask(l, i) /\ l \notin Messages
  BY DialogAssumption DEF GetMessagesBetween, Requests
<1>2. /\ parties' = [parties EXCEPT ![l] = parties'[l]] /\ parties'[l] # <<>>
      /\ Kept' = Kept /\ kind' = kind
  BY <1>1, AskFacts
<1>3. \A x \in Messages : parties'[x] = parties[x] /\ at'[x] = at[x] /\ phase'[x] = phase[x]
                             /\ heard'[x] = heard[x]
  BY <1>1, <1>2 DEF Ask, IInv, TypeOK, Requests
<1>4. stamp' = stamp /\ issued' = issued /\ flying' = flying /\ answer' = answer
  BY <1>1 DEF GetMessagesBetween, Ask
<1>5. flying \subseteq Messages /\ Kept \subseteq Messages
         /\ \A n \in Messages : heard[n] \subseteq Messages
  BY LenProperties DEF IInv, TypeOK, TntTypeOK, Kept, ToSet, Requests
<1>6. Inserted'
  BY <1>2, <1>3, <1>4, <1>5 DEF IInv, Inserted
<1>7. Sent' = Sent
  BY <1>3 DEF Sent
<1>8. Stamped'
  BY <1>2, <1>3, <1>4, <1>5, <1>7 DEF IInv, Stamped, Ahead, Memory, Sent
<1>9. Lives' /\ Shown'
  BY <1>1, <1>4, AskLives, AskShown
<1> QED
  BY <1>6, <1>8, <1>9 DEF Dialogs

\* The types, one step; Tarantool's are in TntInv.
LEMMA TypeStep ==
  ASSUME IInv, [Next]_vars
  PROVE  TypeOK'
<1>1. TntTypeOK'
  BY TntInvOfDialogs DEF IInv, TntInv
<1> DEFINE Types ==
              /\ kind \in {"sql", "memory"}
              /\ log \in Seq(Messages)
              /\ up \subseteq Instances /\ conn \subseteq up
              /\ phase \in [Requests -> {"idle", "working", "done", "over"}]
              /\ at \in [Requests -> Instances \cup {NoInstance}]
              /\ parties \in [Requests -> {<<>>} \cup (Users \X Users)]
              /\ flying \subseteq Messages
              /\ stamp \in [Messages -> Nat] /\ issued \in 0..Cardinality(Messages)
              /\ result \in [Lists -> Seq(Messages)]
              /\ answer \in [Requests -> {"none", "ok", "failed"}]
              /\ heard \in [Requests -> SUBSET Messages]
              /\ partial \subseteq Lists
              /\ faults \in 0..MaxFaults
<1>2. Types
  BY DEF IInv, TypeOK
<1>3. MaxFaults \in Nat /\ Messages \subseteq Requests /\ Lists \subseteq Requests
  BY DialogAssumption DEF Requests
<1>4. ASSUME TarantoolStep \/ UNCHANGED vars
      PROVE  Types'
  BY <1>2, <1>4 DEF TarantoolStep, vars, dlgVars
<1>5. ASSUME CrashTarantool
      PROVE  Types'
  BY <1>2, <1>3, <1>5 DEF CrashTarantool
<1>6. ASSUME NEW i \in Instances, StartInstance(i)
      PROVE  Types'
  BY <1>2, <1>6 DEF StartInstance
<1>7. ASSUME NEW i \in Instances, CrashInstance(i)
      PROVE  Types'
  BY <1>2, <1>3, <1>7 DEF CrashInstance
<1>8. ASSUME NEW r \in Requests, Refuse(r) \/ Reply(r) \/ LoseReply(r)
      PROVE  Types'
  <2>1. UNCHANGED <<kind, log, up, conn, at, parties, flying, stamp, issued, result,
                    heard, partial>> /\ faults' \in 0..MaxFaults
    BY <1>2, <1>3, <1>8 DEF Refuse, Reply, LoseReply
  <2>2. Over(r, "ok") \/ Over(r, "failed")
    BY <1>8 DEF Refuse, Reply, LoseReply
  <2>3. phase' \in [Requests -> {"idle", "working", "done", "over"}]
           /\ answer' \in [Requests -> {"none", "ok", "failed"}]
    BY <1>2, <2>2 DEF Over
  <2> QED
    BY <1>2, <2>1, <2>3
<1>9. ASSUME NEW r \in Requests, NEW i \in Instances, Ask(r, i)
      PROVE  /\ parties' \in [Requests -> {<<>>} \cup (Users \X Users)]
             /\ heard' \in [Requests -> SUBSET Messages]
             /\ phase' \in [Requests -> {"idle", "working", "done", "over"}]
             /\ at' \in [Requests -> Instances \cup {NoInstance}]
             /\ UNCHANGED <<kind, log, up, conn, result, answer, partial, faults>>
  <2>1. \A who \in Talk[r] : who \in Users \X Users
    BY DialogAssumption
  <2> QED
    BY <1>2, <1>9, <2>1 DEF Ask
<1>10. ASSUME NEW m \in Messages, NEW i \in Instances, CreateMessage(m, i)
       PROVE  Types'
  <2>1. issued' \in 0..Cardinality(Messages)
    BY <1>10, CreateKeeps
  <2>2. Cardinality(Messages) \in Nat
    BY DialogAssumption, FS_CardinalityType
  <2>3. stamp' \in [Messages -> Nat] /\ flying' \subseteq Messages
    BY <1>2, <1>10, <2>2 DEF CreateMessage, NewStamp
  <2>4. Ask(m, i) /\ m \in Requests
    BY <1>3, <1>10 DEF CreateMessage
  <2> QED
    BY <1>2, <1>9, <2>1, <2>3, <2>4
<1>11. ASSUME NEW l \in Lists, NEW i \in Instances, GetMessagesBetween(l, i)
       PROVE  Types'
  <2>1. Ask(l, i) /\ l \in Requests /\ UNCHANGED <<flying, stamp, issued>>
    BY <1>3, <1>11 DEF GetMessagesBetween
  <2> QED
    BY <1>2, <1>9, <2>1
<1>12. ASSUME NEW m \in Messages, InsertSQL(m) \/ InsertMemory(m)
       PROVE  Types'
  <2>1. InsertSQL(m) => log' \in Seq(Messages)
    BY <1>2, AppendSet DEF InsertSQL
  <2>2. InsertMemory(m) => log' = log
    BY DEF InsertMemory
  <2> QED
    BY <1>2, <1>3, <1>12, <2>1, <2>2 DEF InsertSQL, InsertMemory, Done
<1>13. ASSUME NEW m \in Messages, RefuseInsert(m)
       PROVE  Types'
  BY <1>2, <1>3, <1>13 DEF RefuseInsert, Over
<1>14. ASSUME NEW l \in Lists, RefuseSelect(l)
       PROVE  Types'
  BY <1>2, <1>3, <1>14 DEF RefuseSelect, Over
<1>15. ASSUME NEW l \in Lists, SelectSQL(l) \/ SelectMemory(l) \/ SelectCut(l)
       PROVE  Types'
  <2>1. PICK rows : Reads(l, rows)
    BY <1>15, SelectSteps
  <2>2. UNCHANGED <<up, conn>> /\ faults' \in 0..MaxFaults
    BY <1>2, <1>3, <1>15 DEF SelectSQL, SelectMemory, SelectCut, Read
  <2> QED
    BY <1>2, <1>3, <2>1, <2>2 DEF Reads, Same
<1>16. Types'
  <2> HIDE DEF Types
  <2> QED
    BY <1>4, <1>5, <1>6, <1>7, <1>8, <1>10, <1>11, <1>12, <1>13, <1>14, <1>15
       DEF Next, Send, List, Handle
<1> QED
  BY <1>1, <1>16 DEF TypeOK

\* Every step is of one of the kinds, or asks.
LEMMA Kinds ==
  ASSUME IInv, [Next]_vars
  PROVE  \/ \E S \in SUBSET Requests : Fails(S)
         \/ \E r \in Requests : Refuse(r) \/ Reply(r)
         \/ \E m \in Messages : Inserts(m)
         \/ \E l \in Lists : \E rows : Reads(l, rows)
         \/ \E i \in Instances :
               \/ \E m \in Messages : CreateMessage(m, i)
               \/ \E l \in Lists : GetMessagesBetween(l, i)
<1>1. {} \in SUBSET Requests
  OBVIOUS
<1> QED
  BY <1>1, QuietSteps, CrashSteps, FailSteps, InsertSteps, SelectSteps
     DEF Next, Send, List, Handle

LEMMA IInvStep == IInv /\ [Next]_vars => IInv'
<1> SUFFICES ASSUME IInv, [Next]_vars
             PROVE  IInv'
  OBVIOUS
<1>1. Dialogs'
  <2>1. ASSUME NEW S \in SUBSET Requests, Fails(S)
        PROVE  Dialogs'
    BY <2>1, EndsKeeps DEF Fails
  <2>2. ASSUME NEW r \in Requests, Refuse(r) \/ Reply(r)
        PROVE  Dialogs'
    <3>1. {r} \in SUBSET Requests
      OBVIOUS
    <3> QED
      BY <2>2, <3>1, EndsKeeps, RefuseSteps, ReplySteps
  <2> QED
    BY <2>1, <2>2, Kinds, InsertsKeeps, ReadsKeeps, CreateKeeps, ListKeeps
<1>2. TntInv'
  BY TntInvOfDialogs DEF IInv
<1> QED
  BY <1>1, <1>2, TypeStep DEF IInv, Dialogs

LEMMA Invariance == Spec => []IInv
BY IInvInit, IInvStep, PTL DEF Spec

-----------------------------------------------------------------------------
(* The results. *)

\* The types hold whatever the messages, users, instances, crashes and faults
\* (dialog_storage.go, dialog_service.go, schema.lua).
THEOREM TypeCorrect == Spec => []TypeOK
<1>1. IInv => TypeOK
  BY DEF IInv
<1> QED
  BY <1>1, Invariance, PTL

\* Beside the dialog service, too, the script ends with a database that serves
\* if and only if no crash left it half done (schema.lua:15-63).
THEOREM DialogsFindItReady == Spec => []ReadyIffUndamaged
<1>1. IInv => ReadyIffUndamaged
  BY TntInvReady DEF IInv
<1> QED
  BY <1>1, Invariance, PTL

\* A list misses no message that was acknowledged before it was asked for,
\* unless a replica lagged or the result broke off (dialog_storage.go:40-64).
THEOREM NothingMissing == Spec => []ListIsComplete
BY ImpliesComplete, Invariance, PTL

\* A message is shown on the right side of those acknowledged before it was
\* sent; in Tarantool, of those from the same instance
\* (dialog_storage.go:22-38, dialog_in_memory_storage.go:31-60).
THEOREM RepliesInPlace == Spec => []RepliesFollow
BY ImpliesFollow, Invariance, PTL

-----------------------------------------------------------------------------
(* Step by step, the dialogs do what Dialog allows. *)

PromiseShown == [l \in Lists |-> IF answer[l] = "ok" THEN result[l] ELSE <<>>]
PromisePair == [r \in Requests |-> ToSet(parties[r])]

LEMMA PairEmpty ==
  ASSUME IInv, NEW r \in Requests
  PROVE  ToSet(parties[r]) = {} <=> parties[r] = <<>>
<1>1. ToSet(<<>>) = {}
  BY DEF ToSet
<1>2. ASSUME NEW p \in Users \X Users
      PROVE  ToSet(p) # {}
  BY <1>2 DEF ToSet
<1> QED
  BY <1>1, <1>2 DEF IInv, TypeOK

LEMMA PromiseInit == Init => Promise!Init
<1> SUFFICES ASSUME Init
             PROVE  Promise!Init
  OBVIOUS
<1>1. ToSet(<<>>) = {}
  BY DEF ToSet
<1> QED
  BY <1>1 DEF Init, TntInit, Kept, Promise!Init, Promise!Requests, Requests

\* Dialog counts as DialogService does.
LEMMA PromiseCardinality == \A S : Promise!Cardinality(S) = Cardinality(S)
BY DEF Cardinality, Promise!Cardinality

\* Requests that fail together.
LEMMA PromiseFails ==
  ASSUME IInv, NEW S \in SUBSET Requests, Fails(S)
  PROVE  Promise!Next
<1>1. Kept' = Kept
  BY SameStorage DEF Fails, Ends
<1>2. PromisePair' = PromisePair
  BY DEF Fails, Ends, Same, PromisePair
<1>3. PromiseShown' = PromiseShown
  BY DEF Fails, Ends, Same, PromiseShown, Requests
<1>4. \A r \in S : ToSet(parties[r]) # {} /\ answer[r] = "none"
  BY PairEmpty DEF Fails, Ends
<1>5. Promise!Fail(S)
  BY <1>1, <1>2, <1>3, <1>4
     DEF Fails, Ends, PromisePair, PromiseShown, Promise!Fail, Promise!Open,
         Promise!Requests, Requests
<1> QED
  BY <1>5 DEF Promise!Next, Promise!Requests, Requests

\* A request that no instance took.
LEMMA PromiseRefuse ==
  ASSUME IInv, NEW r \in Requests, Refuse(r)
  PROVE  Promise!Next
<1>1. Ends({r}, "failed")
  BY RefuseSteps
<1>2. Kept' = Kept
  BY <1>1, SameStorage DEF Ends
<1>3. PromisePair' = PromisePair
  BY <1>1 DEF Ends, Same, PromisePair
<1>4. PromiseShown' = PromiseShown
  BY <1>1 DEF Ends, Same, PromiseShown, Requests
<1>5. PromisePair[r] = {} /\ answer[r] = "none"
  BY <1>1, PairEmpty DEF Ends, Refuse, IInv, Lives, PromisePair
<1>6. answer' = [answer EXCEPT ![r] = "failed"]
  BY DEF Refuse, Over
<1>7. Promise!Refuse(r)
  BY <1>2, <1>3, <1>4, <1>5, <1>6 DEF PromisePair, PromiseShown, Promise!Refuse
<1> QED
  BY <1>7 DEF Promise!Next, Promise!Requests, Requests

\* A request that an instance takes.
LEMMA PromiseAsk ==
  ASSUME IInv, NEW r \in Requests, NEW i \in Instances, Ask(r, i)
  PROVE  Promise!Next
<1>1. /\ parties[r] = <<>> /\ answer[r] = "none" /\ Kept' = Kept
      /\ parties' = [parties EXCEPT ![r] = parties'[r]] /\ parties'[r] \in Users \X Users
  BY AskFacts
<1>2. PICK u, v \in Users : parties'[r] = <<u, v>>
  BY <1>1
<1>3. ToSet(<<u, v>>) = {u, v}
  BY DEF ToSet
<1>4. PromisePair' = [PromisePair EXCEPT ![r] = {u, v}]
  BY <1>1, <1>2, <1>3 DEF PromisePair, IInv, TypeOK
<1>5. PromiseShown' = PromiseShown
  BY DEF Ask, PromiseShown
<1>6. PromisePair[r] = {} /\ answer' = answer
  BY <1>1, PairEmpty DEF Ask, PromisePair
<1>7. Promise!Ask(r)
  BY <1>1, <1>4, <1>5, <1>6 DEF PromisePair, PromiseShown, Promise!Ask
<1> QED
  BY <1>7 DEF Promise!Next, Promise!Requests, Requests

\* A row that is there.
LEMMA PromiseKeep ==
  ASSUME IInv, NEW m \in Messages, Inserts(m)
  PROVE  Promise!Next
<1>1. parties[m] # <<>> /\ m \in Requests
  BY DEF Inserts, IInv, Inserted, Requests
<1>2. PromisePair[m] # {}
  BY <1>1, PairEmpty DEF PromisePair
<1>3. Kept' = Kept \cup {m} /\ answer' = answer
  BY DEF Inserts
<1>4. PromisePair' = PromisePair /\ PromiseShown' = PromiseShown
  BY DEF Inserts, PromisePair, PromiseShown
<1>5. Promise!Keep(m)
  BY <1>2, <1>3, <1>4 DEF PromisePair, PromiseShown, Promise!Keep
<1> QED
  BY <1>5 DEF Promise!Next

\* Rows that were read are not shown yet.
LEMMA PromiseRead ==
  ASSUME IInv, NEW l \in Lists, NEW rows, Reads(l, rows)
  PROVE  UNCHANGED Promise!vars
<1>1. Kept' = Kept /\ answer' = answer
  BY DEF Reads, Kept, Memory
<1>2. PromisePair' = PromisePair
  BY DEF Reads, PromisePair
<1>3. answer[l] # "ok"
  BY DEF Reads, IInv, Lives, Requests
<1>4. PromiseShown' = PromiseShown
  BY <1>1, <1>3 DEF Reads, PromiseShown, IInv, TypeOK
<1> QED
  BY <1>1, <1>2, <1>4 DEF PromisePair, PromiseShown, Promise!vars

\* A response reaches the client.
LEMMA PromiseReply ==
  ASSUME IInv, NEW r \in Requests, Reply(r)
  PROVE  Promise!Next
<1>1. Ends({r}, "ok")
  BY ReplySteps
<1>2. Kept' = Kept
  BY <1>1, SameStorage DEF Ends
<1>3. PromisePair' = PromisePair
  BY <1>1 DEF Ends, Same, PromisePair
<1>4. PromisePair[r] # {} /\ answer[r] = "none"
  BY <1>1, PairEmpty DEF Ends, Reply, IInv, Lives, PromisePair
<1>5. answer' = [answer EXCEPT ![r] = "ok"]
  BY DEF Reply, Over
<1>6. CASE r \in Messages
  <2>1. r \in Kept
    BY <1>6 DEF Reply, IInv, Inserted
  <2>2. PromiseShown' = PromiseShown
    BY <1>1, <1>6, DialogAssumption DEF Ends, Same, PromiseShown, Requests
  <2>3. Promise!Accept(r)
    BY <1>2, <1>3, <1>4, <1>5, <2>1, <2>2
       DEF PromisePair, PromiseShown, Promise!Accept, Promise!Open
  <2> QED
    BY <1>6, <2>3 DEF Promise!Next
<1>7. CASE r \in Lists
  <2> DEFINE s == result[r]
             S == ToSet(result[r])
  <2>1. s \in Seq(Messages) /\ Distinct(s) /\ S \subseteq DialogOf(r, Kept)
    BY <1>7 DEF IInv, TypeOK, Shown
  <2>2. s \in [1..Promise!Cardinality(S) -> S]
    BY <2>1, DistinctOrders, PromiseCardinality
  <2>3. S = {s[n] : n \in DOMAIN s}
    BY DEF ToSet
  <2>4. Kept \subseteq Requests
    BY LenProperties DEF IInv, TypeOK, TntTypeOK, Kept, ToSet, Requests
  <2>5. S \in SUBSET {m \in Kept : PromisePair[m] = PromisePair[r]}
    BY <2>1, <2>4 DEF DialogOf, ObtainDialogId, PromisePair
  <2>6. PromiseShown' = [PromiseShown EXCEPT ![r] = s]
    BY <1>1, <1>5, <1>7 DEF Ends, Same, PromiseShown, IInv, TypeOK, Requests
  <2>7. Promise!Show(r)
    <3> HIDE DEF s, S
    <3>1. \E T \in SUBSET {m \in Kept : PromisePair[m] = PromisePair[r]} :
             \E t \in [1..Promise!Cardinality(T) -> T] :
                T = {t[n] : n \in DOMAIN t} /\ PromiseShown' = [PromiseShown EXCEPT ![r] = t]
      BY <2>2, <2>3, <2>5, <2>6
    <3>2. Promise!Open(r)
      BY <1>4 DEF PromisePair, Promise!Open
    <3>3. UNCHANGED <<PromisePair, Kept>>
      BY <1>2, <1>3
    <3> QED
      BY <1>5, <3>1, <3>2, <3>3, Zenon DEF PromisePair, PromiseShown, Promise!Show
  <2> QED
    BY <1>7, <2>7 DEF Promise!Next
<1> QED
  BY <1>6, <1>7 DEF Requests

LEMMA PromiseStep == IInv /\ [Next]_vars => [Promise!Next]_Promise!vars
<1> SUFFICES ASSUME IInv, [Next]_vars
             PROVE  Promise!Next \/ UNCHANGED Promise!vars
  OBVIOUS
<1>1. ASSUME NEW m \in Messages, NEW i \in Instances, CreateMessage(m, i)
      PROVE  Promise!Next
  BY <1>1, PromiseAsk DEF CreateMessage, Requests
<1>2. ASSUME NEW l \in Lists, NEW i \in Instances, GetMessagesBetween(l, i)
      PROVE  Promise!Next
  BY <1>2, PromiseAsk DEF GetMessagesBetween, Requests
<1> QED
  BY <1>1, <1>2, Kinds, PromiseFails, PromiseRefuse, PromiseReply, PromiseKeep, PromiseRead

\* Whatever the users, instances, crashes and faults, the dialogs are what
\* Dialog promises: a message answered 200 is kept for good, and a list shows
\* kept messages of that dialog only, each once (dialog_service.go:28-55).
THEOREM KeepsItsPromise == Spec => RefinesDialog
BY PromiseInit, PromiseStep, Invariance, PTL DEF RefinesDialog, Spec, Promise!Spec
=============================================================================
