------------------------- MODULE CachedSource_proofs -------------------------
(***************************************************************************)
(* What holds of CachedSource for any number of callers, caches, keys,     *)
(* tries, faults and writes: its types, the mutual exclusion of loads, the *)
(* recency of what a load stores, and that it implements FreshCache.       *)
(***************************************************************************)
EXTENDS CachedSource, RedisCache_proofs

\* LockInv says who holds the lock; Versions orders the versions the nodes have
\* and had; Loaded says of a value about to be stored that one node has it and,
\* while the lock was never lost, had nothing newer at the last fill.  It is
\* inductive only with both: it survives the SET of another load of the same
\* key only because there is none unless the lock was lost, and it starts out
\* right because no node falls behind what it had.
Versions ==
    /\ db \in [Nodes -> [Keys -> Values]]
    /\ had \in [Keys -> [ReadNodes -> Values]]
    /\ \A k \in Keys, n \in ReadNodes : had[k][n] <= db[n][k]

\* What one node has shown: v, for k.
Shown(k, n, v) == v <= db[n][k] /\ (k \notin stolen => had[k][n] <= v)

Loaded ==
    \A p \in Procs : call[p].pc = "add" =>
        /\ call[p].val \in Values
        /\ \E n \in ReadNodes : Shown(call[p].key, n, call[p].val)

IInv == LockInv /\ Versions /\ Loaded

\* The parts of IInv the runs check.
LEMMA IInvGives ==
    ASSUME IInv
    PROVE  TypeOK /\ OneLoadUnlessStolen /\ LoadedIsRecent
BY OneLoad DEF IInv, LockInv, Versions, TypeOK, Loaded, Shown, LoadedIsRecent

\* Loads read nodes of the database.
LEMMA ReadsNodes == ReadNodes \subseteq Nodes
BY DEF ReadNodes, Nodes

\* The initial state: empty caches, no calls, version 0 everywhere.
LEMMA IInvInit == Init => IInv
<1> SUFFICES ASSUME Init
             PROVE  IInv
  OBVIOUS
<1>1. LockInv
  BY LockInit DEF Init
<1>2. Versions
  BY SourceAssumption, ReadsNodes DEF Init, CacheInit, Versions
<1>3. Loaded
  BY DEF Init, CacheInit, Loaded, Idle, NewCall
<1>4. QED
  BY <1>1, <1>2, <1>3 DEF IInv

-----------------------------------------------------------------------------
(* Steps that bring no call to "add". *)

\* Every round trip but the read of the database.
LEMMA TripNoAdd ==
    ASSUME CacheTypeOK, NEW p \in Procs, Trip(p)
    PROVE  NoNewAdd
<1>1. /\ call \in [Procs -> CallType]
      /\ call[p].pc # "idle" => store[call[p].key] \in Values \cup {NoValue}
  BY DEF CacheTypeOK
<1>2. CASE AcquireBusy(p) \/ AcquireFails(p)
  <2>1. CASE call[p].tries > 1
    BY <1>1, <1>2, <2>1, RetryCall DEF AcquireBusy, AcquireFails, TryAgain, NoNewAdd, OnlyCall
  <2>2. CASE ~(call[p].tries > 1)
    BY <1>1, <1>2, <2>2, MoveNoAdd DEF AcquireBusy, AcquireFails, TryAgain, Finish, CallPc
  <2>3. QED
    BY <2>1, <2>2
<1>3. CASE Get(p)
  BY <1>1, <1>3, MoveNoAdd DEF Get, Finish, CallPc
<1>4. CASE GetFails(p)
  BY <1>1, <1>4, MoveNoAdd DEF GetFails, Finish, CallPc
<1>5. CASE Acquire(p)
  BY <1>1, <1>5, MoveNoAdd DEF Acquire, CallPc
<1>6. CASE ReadFails(p)
  BY <1>1, <1>6, MoveNoAdd DEF ReadFails, CallPc
<1>7. CASE AddFails(p)
  BY <1>1, <1>7, MoveNoAdd DEF AddFails, CallPc
<1>8. CASE Unlock(p) \/ UnlockFails(p)
  BY <1>1, <1>8, MoveNoAdd DEF Unlock, UnlockFails, CallPc
<1>9. QED
  BY <1>2, <1>3, <1>4, <1>5, <1>6, <1>7, <1>8 DEF Trip

\* A step that brings no call to "add", fills no key, gives back no lost lock
\* and takes nothing back from a node keeps the versions in order.
LEMMA CalmStep ==
    ASSUME IInv, NoNewAdd, UNCHANGED had, stolen \subseteq stolen',
           db' \in [Nodes -> [Keys -> Values]],
           \A n \in Nodes, k \in Keys : db[n][k] <= db'[n][k]
    PROVE  Versions' /\ Loaded'
<1>1. /\ db \in [Nodes -> [Keys -> Nat]] /\ db' \in [Nodes -> [Keys -> Nat]]
      /\ had \in [Keys -> [ReadNodes -> Nat]]
      /\ \A n \in ReadNodes, k \in Keys : db[n][k] <= db'[n][k]
  BY SourceAssumption, ReadsNodes DEF IInv, Versions
<1>2. Versions'
  <2>1. ASSUME NEW k \in Keys, NEW n \in ReadNodes
        PROVE  had'[k][n] <= db'[n][k]
    <3>1. had[k][n] <= db[n][k] /\ db[n][k] <= db'[n][k]
      BY <1>1 DEF IInv, Versions
    <3>2. had[k][n] \in Nat /\ db[n][k] \in Nat /\ db'[n][k] \in Nat
      BY <1>1, ReadsNodes
    <3>3. QED
      BY <3>1, <3>2
  <2>2. QED
    BY <2>1 DEF IInv, Versions
<1>3. Loaded'
  <2> SUFFICES ASSUME NEW p \in Procs, call'[p].pc = "add"
               PROVE  /\ call'[p].val \in Values
                      /\ \E n \in ReadNodes : Shown(call[p].key, n, call[p].val)'
    BY DEF Loaded, NoNewAdd
  <2>1. call'[p] = call[p] /\ call[p].key \in Keys
    BY DEF NoNewAdd, IInv, LockInv, CacheTypeOK
  <2>2. /\ call[p].val \in Values
        /\ \E n \in ReadNodes : Shown(call[p].key, n, call[p].val)
    BY <2>1 DEF IInv, Loaded
  <2>3. PICK n \in ReadNodes : Shown(call[p].key, n, call[p].val)
    BY <2>2
  <2>4. /\ db[n][call[p].key] \in Nat /\ db'[n][call[p].key] \in Nat /\ call[p].val \in Nat
        /\ db[n][call[p].key] <= db'[n][call[p].key]
    BY <1>1, <2>1, <2>2, ReadsNodes, SourceAssumption
  <2>5. Shown(call[p].key, n, call[p].val)'
    BY <2>1, <2>3, <2>4 DEF Shown
  <2>6. QED
    BY <2>1, <2>2, <2>5
<1>4. QED
  BY <1>2, <1>3

-----------------------------------------------------------------------------
(* The steps of CachedSource. *)

\* A node moves ahead: the master by a write, a replica after it.
LEMMA AdvanceStep ==
    ASSUME IInv, NEW k \in Keys,
           Write(k) \/ \E r \in Replicas : Replicate(r, k)
    PROVE  IInv'
<1>1. LockInv'
  BY DEF IInv, Write, Replicate, cacheVars, LockInv, CacheTypeOK, HolderLocks, Loading
<1>2. /\ db' \in [Nodes -> [Keys -> Values]]
      /\ \A n \in Nodes, j \in Keys : db[n][j] <= db'[n][j]
  <2>1. PICK m \in Nodes : /\ db[m][k] < MaxVersion
                           /\ db' = [db EXCEPT ![m][k] = @ + 1]
    <3>1. db \in [Nodes -> [Keys -> 0..MaxVersion]] /\ Master \in Nodes
      BY SourceAssumption DEF IInv, Versions, Nodes
    <3>2. CASE Write(k)
      BY <3>1, <3>2 DEF Write
    <3>3. ASSUME NEW r \in Replicas, Replicate(r, k)
          PROVE  \E m \in Nodes : /\ db[m][k] < MaxVersion
                                  /\ db' = [db EXCEPT ![m][k] = @ + 1]
      <4>1. r \in Nodes
        BY DEF Nodes
      <4>2. db[r][k] \in 0..MaxVersion /\ db[Master][k] \in 0..MaxVersion
        BY <3>1, <4>1
      <4>3. db[r][k] < MaxVersion
        BY <3>3, <4>2, SourceAssumption DEF Replicate
      <4>4. QED
        BY <3>3, <4>1, <4>3 DEF Replicate
    <3>4. QED
      BY <3>2, <3>3
  <2>2. db \in [Nodes -> [Keys -> 0..MaxVersion]] /\ MaxVersion \in Nat
    BY SourceAssumption DEF IInv, Versions
  <2>3. db[m][k] + 1 \in 0..MaxVersion
    BY <2>1, <2>2
  <2>4. db' = [db EXCEPT ![m] = [db[m] EXCEPT ![k] = db[m][k] + 1]]
    BY <2>1
  <2>5. db' \in [Nodes -> [Keys -> 0..MaxVersion]]
    BY <2>2, <2>3, <2>4
  <2>6. \A n \in Nodes, j \in Keys : db[n][j] <= db'[n][j]
    BY <2>2, <2>4
  <2>7. QED
    BY <2>5, <2>6, SourceAssumption
<1>3. NoNewAdd /\ UNCHANGED <<had, stolen>>
  BY DEF NoNewAdd, Write, Replicate, cacheVars
<1>4. Versions' /\ Loaded'
  BY <1>2, <1>3, CalmStep
<1>5. QED
  BY <1>1, <1>4 DEF IInv

\* Steps that leave the database and the history alone are calm if they bring
\* no call to "add".
LEMMA CalmCacheStep ==
    ASSUME IInv, LockInv', NoNewAdd, UNCHANGED sourceVars, stolen \subseteq stolen'
    PROVE  IInv'
<1>1. /\ db' \in [Nodes -> [Keys -> Values]] /\ UNCHANGED had
      /\ \A n \in Nodes, k \in Keys : db[n][k] <= db'[n][k]
  BY SourceAssumption DEF IInv, Versions, sourceVars
<1>2. Versions' /\ Loaded'
  BY <1>1, CalmStep
<1>3. QED
  BY <1>2 DEF IInv

\* A client calls.
LEMMA BeginStep ==
    ASSUME IInv, NEW p \in Procs, NEW k \in Keys, Begin(p, k)
    PROVE  IInv'
<1>1. LockInv'
  BY StartStep DEF IInv, Begin
<1>2. NoNewAdd
  BY StartNoAdd DEF IInv, LockInv, Begin
<1>3. QED
  BY <1>1, <1>2, CalmCacheStep DEF Begin

\* A round trip that neither reads the database nor stores a value.
LEMMA TripStep ==
    ASSUME IInv, NEW p \in Procs, Trip(p)
    PROVE  IInv'
<1>1. LockInv'
  <2>1. CASE Get(p) \/ GetFails(p)
    BY <2>1, GetStep DEF IInv
  <2>2. CASE Acquire(p) \/ AcquireBusy(p) \/ AcquireFails(p)
    BY <2>2, AcquireStep, BusyStep DEF IInv
  <2>3. CASE ReadFails(p)
    <3>1. 0 \in Values
      BY SourceAssumption
    <3>2. QED
      BY <2>3, <3>1, ReadStep DEF IInv
  <2>4. CASE AddFails(p)
    BY <2>4, AddStep DEF IInv
  <2>5. CASE Unlock(p) \/ UnlockFails(p)
    BY <2>5, UnlockStep DEF IInv
  <2>6. QED
    BY <2>1, <2>2, <2>3, <2>4, <2>5 DEF Trip
<1>2. NoNewAdd
  BY TripNoAdd DEF IInv, LockInv
<1>3. UNCHANGED <<store, stolen, sourceVars>>
  BY DEF Trip, Get, GetFails, Acquire, AcquireBusy, AcquireFails, ReadFails, AddFails,
         Unlock, UnlockFails
<1>4. QED
  BY <1>1, <1>2, <1>3, CalmCacheStep

\* A call ends.
LEMMA ReturnStep ==
    ASSUME IInv, NEW p \in Procs, Return(p) \/ Crash(p)
    PROVE  IInv'
<1>1. LockInv'
  <2>1. faults \in 0..MaxFaults
    BY DEF IInv, LockInv, CacheTypeOK
  <2>2. CASE Return(p)
    BY <2>1, <2>2, ResetStep DEF IInv, Return
  <2>3. CASE Crash(p)
    BY <2>3, DieStep DEF IInv, Crash
  <2>4. QED
    BY <2>2, <2>3
<1>2. NoNewAdd
  BY ResetNoAdd DEF IInv, LockInv, Return, Crash, Die
<1>3. UNCHANGED <<store, stolen, sourceVars>>
  BY DEF Return, Crash, Die
<1>4. QED
  BY <1>1, <1>2, <1>3, CalmCacheStep

\* Values or locks vanish from Redis.
LEMMA LossStep ==
    ASSUME IInv,
           \/ \E k \in Keys : Expire(k)
           \/ \E c \in Caches : InvalidateAll(c)
    PROVE  IInv'
<1>1. LockInv'
  BY ExpireStep, FlushStep DEF IInv, Expire, InvalidateAll
<1>2. NoNewAdd /\ UNCHANGED sourceVars
  BY DEF NoNewAdd, Expire, ExpireValue, ExpireLock, InvalidateAll, FlushDB
<1>3. stolen \subseteq stolen'
  BY DEF Expire, ExpireValue, ExpireLock, InvalidateAll, FlushDB
<1>4. QED
  BY <1>1, <1>2, <1>3, CalmCacheStep

\* The value read becomes the call's: the node it came from has it, hence had
\* nothing newer at the last fill.
LEMMA ReadSourceStep ==
    ASSUME IInv, NEW p \in Procs, Read(p)
    PROVE  IInv'
<1>1. PICK n \in ReadNodes : ReadSource(p, db[n][call[p].key])
  BY DEF Read
<1> DEFINE k == call[p].key
           v == db[n][k]
           r == [pc |-> "add", key |-> k, tries |-> call[p].tries, val |-> v]
<1>2. /\ call \in [Procs -> CallType] /\ k \in Keys /\ v \in Values
      /\ had[k][n] <= v /\ v <= db[n][k]
      /\ UNCHANGED <<store, lock, stolen, faults, db, had>>
  <2>1. /\ call \in [Procs -> CallType] /\ k \in Keys
        /\ UNCHANGED <<store, lock, stolen, faults, db, had>>
    BY <1>1 DEF IInv, LockInv, CacheTypeOK, Read, ReadSource, sourceVars
  <2>2. v \in Values /\ had[k][n] <= v
    BY <2>1, ReadsNodes DEF IInv, Versions
  <2>3. QED
    BY <2>1, <2>2, SourceAssumption
<1>3. LockInv'
  BY <1>1, <1>2, ReadStep DEF IInv
<1>4. OnlyCall(p, r)
  BY <1>1, <1>2, GotoWithCall DEF ReadSource, CallPc
<1>5. Versions'
  BY <1>2 DEF IInv, Versions
<1>6. Loaded'
  <2>1. /\ call'[p].val \in Values
        /\ \E m \in ReadNodes : Shown(call[p].key, m, call[p].val)'
    <3>1. call'[p].key = k /\ call'[p].val = v
      BY <1>4 DEF OnlyCall
    <3>2. Shown(call[p].key, n, call[p].val)'
      BY <1>2, <3>1 DEF Shown
    <3>3. QED
      BY <1>2, <3>1, <3>2
  <2>2. ASSUME NEW q \in Procs, q # p, call'[q].pc = "add"
        PROVE  /\ call'[q].val \in Values
               /\ \E m \in ReadNodes : Shown(call[q].key, m, call[q].val)'
    <3>1. call'[q] = call[q]
      BY <1>4, <2>2 DEF OnlyCall
    <3>2. call[q].val \in Values
      BY <2>2, <3>1 DEF IInv, Loaded
    <3>3. PICK m \in ReadNodes : Shown(call[q].key, m, call[q].val)
      BY <2>2, <3>1 DEF IInv, Loaded
    <3>4. Shown(call[q].key, m, call[q].val)'
      BY <1>2, <3>1, <3>3 DEF Shown
    <3>5. QED
      BY <3>1, <3>2, <3>4
  <2>3. QED
    BY <2>1, <2>2 DEF Loaded
<1>7. QED
  BY <1>3, <1>5, <1>6 DEF IInv

\* The SET: no other call is about to store a version of the key unless the
\* key's lock was lost.
LEMMA SaveStep ==
    ASSUME IInv, NEW p \in Procs, Save(p)
    PROVE  IInv'
<1> DEFINE k == call[p].key
           now == [n \in ReadNodes |-> db[n][k]]
<1>1. /\ call[p].pc = "add" /\ k \in Keys
      /\ call \in [Procs -> CallType]
      /\ had' = [had EXCEPT ![k] = now]
      /\ UNCHANGED <<db, stolen>>
  BY DEF IInv, LockInv, CacheTypeOK, Save, Add
<1>2. LockInv'
  <2>1. call[p].val \in Values
    BY <1>1 DEF IInv, Loaded
  <2>2. QED
    BY <2>1, AddStep DEF IInv, Save
<1>3. NoNewAdd
  BY <1>1, MoveNoAdd DEF Save, Add, CallPc
<1>4. ~(call'[p].pc = "add")
  <2>1. OnlyCall(p, [pc |-> "unlock", key |-> k, tries |-> call[p].tries, val |-> call[p].val])
    BY <1>1, GotoCall DEF Save, Add, CallPc
  <2>2. QED
    BY <2>1 DEF OnlyCall
<1>5. Versions'
  <2>1. now \in [ReadNodes -> Values]
    BY <1>1, ReadsNodes DEF IInv, Versions
  <2>2. \A n \in ReadNodes : now[n] <= db[n][k]
    BY <1>1, ReadsNodes, SourceAssumption DEF IInv, Versions
  <2> HIDE DEF now, k
  <2>3. QED
    BY <1>1, <2>1, <2>2 DEF IInv, Versions
<1>6. Loaded'
  <2> SUFFICES ASSUME NEW q \in Procs, call'[q].pc = "add"
               PROVE  /\ call'[q].val \in Values
                      /\ \E n \in ReadNodes : Shown(call[q].key, n, call[q].val)'
    BY DEF Loaded, NoNewAdd
  <2>1. call'[q] = call[q] /\ q # p /\ call[q].key \in Keys
    BY <1>3, <1>4 DEF NoNewAdd, IInv, LockInv, CacheTypeOK
  <2>2. call[q].val \in Values
    BY <2>1 DEF IInv, Loaded
  <2>3. PICK n \in ReadNodes : Shown(call[q].key, n, call[q].val)
    BY <2>1 DEF IInv, Loaded
  <2>4. call[q].key = k => k \in stolen
    BY <1>1, <2>1, OneLoad DEF IInv, LockInv, OneLoadUnlessStolen, Loading
  <2>5. call[q].key # k => had'[call[q].key] = had[call[q].key]
    BY <1>1, <2>1 DEF IInv, Versions
  <2>6. Shown(call[q].key, n, call[q].val)'
    BY <1>1, <2>1, <2>3, <2>4, <2>5 DEF Shown
  <2>7. QED
    BY <2>1, <2>2, <2>6
<1>7. QED
  BY <1>2, <1>5, <1>6 DEF IInv

\* Every step keeps the invariant.
LEMMA IInvStep == IInv /\ [Next]_vars => IInv'
<1> SUFFICES ASSUME IInv, [Next]_vars
             PROVE  IInv'
  OBVIOUS
<1>1. ASSUME NEW k \in Keys, Write(k) \/ \E r \in Replicas : Replicate(r, k)
      PROVE  IInv'
  BY <1>1, AdvanceStep
<1>2. ASSUME NEW p \in Procs, NEW k \in Keys, Begin(p, k)
      PROVE  IInv'
  BY <1>2, BeginStep
<1>3. ASSUME NEW p \in Procs, Read(p) \/ Save(p)
      PROVE  IInv'
  BY <1>3, ReadSourceStep, SaveStep
<1>4. ASSUME NEW p \in Procs, Trip(p)
      PROVE  IInv'
  BY <1>4, TripStep
<1>5. ASSUME NEW p \in Procs, Return(p) \/ Crash(p)
      PROVE  IInv'
  BY <1>5, ReturnStep
<1>6. CASE \/ \E k \in Keys : Expire(k)
           \/ \E c \in Caches : InvalidateAll(c)
  BY <1>6, LossStep
<1>7. CASE UNCHANGED vars
  BY <1>7 DEF vars, IInv, LockInv, CacheTypeOK, HolderLocks, Loading, Versions, Loaded,
              Shown
<1>8. QED
  BY <1>1, <1>2, <1>3, <1>4, <1>5, <1>6, <1>7 DEF Next

\* The invariant holds of every behaviour.
THEOREM Invariance == Spec => []IInv
BY IInvInit, IInvStep, PTL DEF Spec

\* Every variable of the cache, the calls and the database keeps its type.
THEOREM TypeCorrect == Spec => []TypeOK
<1>1. IInv => TypeOK
  BY IInvGives
<1>2. QED
  BY <1>1, Invariance, PTL

\* Redis.Load: two loads of one key never overlap unless the key's lock was
\* lost under a load, to its expiry or to FlushDB.
THEOREM LoadsExclude == Spec => []OneLoadUnlessStolen
<1>1. IInv => OneLoadUnlessStolen
  BY IInvGives
<1>2. QED
  BY <1>1, Invariance, PTL

\* Redis.Load: what a load is about to store is no older than what the node it
\* came from had when the key was last filled, unless the key's lock was lost
\* under a load; for any number of replicas, however they lag.
THEOREM LoadsAreRecent == Spec => []LoadedIsRecent
<1>1. IInv => LoadedIsRecent
  BY IInvGives
<1>2. QED
  BY <1>1, Invariance, PTL

-----------------------------------------------------------------------------
(* CachedSource implements FreshCache: its copies are the nodes that loads   *)
(* read; calls, locks, faults and a master that is not read are stutters.    *)

\* Every step is a step of FreshCache or changes nothing it sees.
LEMMA StepRefines ==
    ASSUME IInv, [Next]_vars
    PROVE  [Abstract!Next]_(Abstract!freshVars)
<1> USE DEF Abstract!freshVars
<1> DEFINE copy == [n \in ReadNodes |-> db[n]]
<1>1. ASSUME NEW k \in Keys, Write(k) \/ \E r \in Replicas : Replicate(r, k)
      PROVE  Abstract!Next \/ UNCHANGED <<store, copy, had, stolen>>
  <2>1. PICK m \in Nodes : db' = [db EXCEPT ![m][k] = @ + 1]
    BY <1>1 DEF Write, Replicate, Nodes
  <2>2. UNCHANGED <<store, had, stolen>> /\ db \in [Nodes -> [Keys -> Values]]
    BY <1>1 DEF Write, Replicate, cacheVars, IInv, Versions
  <2>3. CASE m \in ReadNodes
    <3>1. copy' = [copy EXCEPT ![m][k] = @ + 1]
      BY <2>1, <2>2, <2>3, ReadsNodes
    <3>2. Abstract!Advance(m, k)
      BY <2>2, <3>1 DEF Abstract!Advance
    <3>3. QED
      BY <2>3, <3>2 DEF Abstract!Next
  <2>4. CASE m \notin ReadNodes
    <3>1. copy' = copy
      BY <2>1, <2>2, <2>4, ReadsNodes
    <3>2. QED
      BY <2>2, <3>1
  <2>5. QED
    BY <2>3, <2>4
<1>2. ASSUME NEW p \in Procs, Save(p)
      PROVE  Abstract!Next
  <2> DEFINE k == call[p].key
             v == call[p].val
  <2>1. call[p].pc = "add" /\ k \in Keys /\ v \in Values
    BY <1>2 DEF IInv, LockInv, CacheTypeOK, Loaded, Save, Add
  <2>2. PICK n \in ReadNodes : Shown(k, n, v)
    BY <1>2, <2>1 DEF IInv, Loaded
  <2>3. k \in stolen \/ had[k][n] <= v
    BY <2>2 DEF Shown
  <2>4. v \in 0..copy[n][k]
    <3>1. copy[n][k] = db[n][k] /\ db[n][k] \in Nat
      BY <2>1, ReadsNodes, SourceAssumption DEF IInv, Versions
    <3>2. QED
      BY <2>1, <2>2, <3>1, SourceAssumption DEF Shown
  <2>5. [m \in ReadNodes |-> copy[m][k]] = [m \in ReadNodes |-> db[m][k]]
    OBVIOUS
  <2>6. Abstract!Fill(k, n, v)
    BY <1>2, <2>3, <2>5 DEF Save, Add, Abstract!Fill
  <2>7. QED
    BY <2>1, <2>2, <2>4, <2>6 DEF Abstract!Next
<1>3. ASSUME NEW k \in Keys, ExpireValue(k), UNCHANGED sourceVars
      PROVE  Abstract!Next
  <2>1. Abstract!Lose({k}, {})
    BY <1>3 DEF ExpireValue, sourceVars, Abstract!Lose, IInv, LockInv, CacheTypeOK
  <2>2. {k} \in SUBSET Keys /\ {} \in SUBSET Keys
    OBVIOUS
  <2>3. QED
    BY <2>1, <2>2 DEF Abstract!Next
<1>4. ASSUME NEW k \in Keys, ExpireLock(k), UNCHANGED sourceVars
      PROVE  Abstract!Next
  <2> DEFINE S == IF Loading(lock[k], k) THEN {k} ELSE {}
  <2>1. Abstract!Lose({}, S)
    BY <1>4 DEF ExpireLock, sourceVars, Abstract!Lose, IInv, LockInv, CacheTypeOK
  <2>2. S \in SUBSET Keys /\ {} \in SUBSET Keys
    OBVIOUS
  <2>3. QED
    BY <2>1, <2>2 DEF Abstract!Next
<1>5. ASSUME NEW c \in Caches, InvalidateAll(c)
      PROVE  Abstract!Next
  <2> DEFINE D == {k \in Keys : k[1] = c}
             S == {k \in Keys : k[1] = c /\ \E p \in Procs : Loading(p, k)}
  <2>1. Abstract!Lose(D, S)
    BY <1>5 DEF InvalidateAll, FlushDB, sourceVars, Abstract!Lose
  <2>2. D \in SUBSET Keys /\ S \in SUBSET Keys
    OBVIOUS
  <2>3. QED
    BY <2>1, <2>2 DEF Abstract!Next
<1>6. ASSUME NEW p \in Procs, NEW k \in Keys,
             Begin(p, k)
      PROVE  UNCHANGED <<store, copy, had, stolen>>
  BY <1>6 DEF Begin, sourceVars
<1>7. CASE UNCHANGED vars
  BY <1>7 DEF vars
<1>8. ASSUME NEW p \in Procs, Read(p) \/ Trip(p) \/ Return(p) \/ Crash(p)
      PROVE  UNCHANGED <<store, copy, had, stolen>>
  BY <1>8 DEF Read, ReadSource, Trip, Return, Crash, Die, Get, GetFails, Acquire,
              AcquireBusy, AcquireFails, ReadFails, AddFails, Unlock, UnlockFails, sourceVars
<1>9. QED
  BY <1>1, <1>2, <1>3, <1>4, <1>5, <1>6, <1>7, <1>8 DEF Next, Expire

\* The cache implements its abstract specification: filled only with versions a
\* node had, and while its lock holds with none older than that node had at the
\* fill before.
THEOREM Implements == Spec => RefinesFreshCache
<1>1. Init => Abstract!Init
  BY ReadsNodes DEF Init, CacheInit, Abstract!Init
<1>2. IInv /\ [Next]_vars => [Abstract!Next]_(Abstract!freshVars)
  BY StepRefines
<1>3. QED
  BY <1>1, <1>2, Invariance, PTL DEF Spec, RefinesFreshCache
=============================================================================
