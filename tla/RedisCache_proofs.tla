-------------------------- MODULE RedisCache_proofs -------------------------
(***************************************************************************)
(* Facts about the steps of RedisCache, for every module that extends it:  *)
(* each step keeps the types, and each step keeps HolderLocks, the         *)
(* invariant behind the mutual exclusion of loads.  Every lemma is about   *)
(* one step; the modules that compose the steps cite it.                   *)
(***************************************************************************)
EXTENDS RedisCache, TLAPS

\* The inductive invariant of the lock.
LockInv == CacheTypeOK /\ HolderLocks

\* The initial state satisfies it.
LEMMA LockInit == CacheInit => LockInv
BY CacheAssumption DEF CacheInit, LockInv, CacheTypeOK, HolderLocks, Loading, Idle, NewCall,
     CallType, CallPc, Keys

\* While the lock invariant holds, a key whose lock was never lost has at most
\* one load in progress: two loaders would both be the holder.
LEMMA OneLoad == HolderLocks => OneLoadUnlessStolen
BY DEF HolderLocks, OneLoadUnlessStolen

-----------------------------------------------------------------------------
(* What moving a call does to call. *)

\* The call of p is r and the other calls are as they were.
OnlyCall(p, r) ==
    /\ call' \in [Procs -> CallType]
    /\ call'[p] = r
    /\ \A q \in Procs \ {p} : call'[q] = call[q]

\* Moving a call changes its place only.
LEMMA GotoCall ==
    ASSUME call \in [Procs -> CallType], NEW p \in Procs, NEW pc \in CallPc, Goto(p, pc)
    PROVE  OnlyCall(p, [pc |-> pc, key |-> call[p].key,
                        tries |-> call[p].tries, val |-> call[p].val])
BY DEF Goto, OnlyCall, CallType

\* Moving a call with a value changes its place and value only.
LEMMA GotoWithCall ==
    ASSUME call \in [Procs -> CallType], NEW p \in Procs, NEW pc \in CallPc,
           NEW v \in Values \cup {NoValue}, GotoWith(p, pc, v)
    PROVE  OnlyCall(p, [pc |-> pc, key |-> call[p].key,
                        tries |-> call[p].tries, val |-> v])
BY DEF GotoWith, OnlyCall, CallType

\* One try less, and still at least one.
LEMMA RetryCall ==
    ASSUME call \in [Procs -> CallType], NEW p \in Procs, call[p].tries > 1,
           call' = [call EXCEPT ![p].tries = @ - 1]
    PROVE  OnlyCall(p, [pc |-> call[p].pc, key |-> call[p].key,
                        tries |-> call[p].tries - 1, val |-> call[p].val])
<1> DEFINE t == call[p].tries
<1>1. t - 1 \in 1..Tries
  BY CacheAssumption DEF CallType
<1>2. call' = [call EXCEPT ![p].tries = t - 1]
  OBVIOUS
<1> HIDE DEF t
<1>3. OnlyCall(p, [pc |-> call[p].pc, key |-> call[p].key,
                   tries |-> t - 1, val |-> call[p].val])
  BY <1>1, <1>2 DEF OnlyCall, CallType
<1>4. QED
  BY <1>3 DEF t

\* A new call replaces the old one.
LEMMA StartCall ==
    ASSUME call \in [Procs -> CallType], NEW p \in Procs, NEW k \in Keys,
           NEW pc \in CallPc, call' = [call EXCEPT ![p] = NewCall(pc, k)]
    PROVE  OnlyCall(p, NewCall(pc, k))
BY CacheAssumption DEF OnlyCall, CallType, NewCall

\* No call replaces the old one.
LEMMA ResetCall ==
    ASSUME call \in [Procs -> CallType], NEW p \in Procs, Reset(p)
    PROVE  OnlyCall(p, Idle)
BY CacheAssumption DEF OnlyCall, CallType, NewCall, Idle, CallPc, Reset

-----------------------------------------------------------------------------
(* The steps. *)

\* A step that leaves the lock alone and at most moves the call of one process
\* keeps the invariant, unless it brings that process into a load.
LEMMA QuietStep ==
    ASSUME LockInv, NEW p \in Procs, NEW r \in CallType, OnlyCall(p, r),
           r.pc # "idle" => r.key \in Keys,
           r.pc \in {"load", "add", "unlock"} => Loading(p, r.key),
           UNCHANGED <<lock, stolen>>,
           store' \in [Keys -> Values \cup {NoValue}],
           faults' \in 0..MaxFaults
    PROVE  LockInv'
<1>1. CacheTypeOK'
  <2>1. \A q \in Procs : call'[q].pc # "idle" => call'[q].key \in Keys
    BY DEF OnlyCall, LockInv, CacheTypeOK
  <2>2. QED
    BY <2>1 DEF OnlyCall, LockInv, CacheTypeOK
<1>2. HolderLocks'
  <2> SUFFICES ASSUME NEW q \in Procs, NEW k \in Keys, Loading(q, k)', k \notin stolen'
               PROVE  lock'[k] = q
    BY DEF HolderLocks
  <2>1. Loading(q, k)
    BY DEF OnlyCall, Loading
  <2>2. QED
    BY <2>1 DEF LockInv, HolderLocks
<1>3. QED
  BY <1>1, <1>2 DEF LockInv

\* A fault keeps the counter within its bound.
LEMMA FaultBound == CacheTypeOK /\ Fault => faults' \in 0..MaxFaults
BY CacheAssumption DEF CacheTypeOK, Fault

\* A call starts.
LEMMA StartStep ==
    ASSUME LockInv, NEW p \in Procs, NEW k \in Keys,
           StartLoad(p, k) \/ StartGetOrLoad(p, k), UNCHANGED <<store, lock, stolen, faults>>
    PROVE  LockInv'
<1> DEFINE Kept == /\ UNCHANGED <<lock, stolen>>
                   /\ store' \in [Keys -> Values \cup {NoValue}]
                   /\ faults' \in 0..MaxFaults
<1>0. Kept /\ call \in [Procs -> CallType]
  BY DEF LockInv, CacheTypeOK
<1> HIDE DEF Kept
<1>1. \A pc \in {"lock", "get"} : NewCall(pc, k) \in CallType
  BY CacheAssumption DEF NewCall, CallType, CallPc
<1>2. CASE StartLoad(p, k)
  <2>1. OnlyCall(p, NewCall("lock", k))
    BY <1>0, <1>2, StartCall DEF StartLoad, CallPc
  <2>2. QED
    BY <1>0, <1>1, <2>1, QuietStep DEF Kept, NewCall
<1>3. CASE StartGetOrLoad(p, k)
  <2>1. OnlyCall(p, NewCall("get", k))
    BY <1>0, <1>3, StartCall DEF StartGetOrLoad, CallPc
  <2>2. QED
    BY <1>0, <1>1, <2>1, QuietStep DEF Kept, NewCall
<1>4. QED
  BY <1>2, <1>3

\* The call of p goes on to pc, with or without a new value, and enters no load.
LEMMA MoveStep ==
    ASSUME LockInv, NEW p \in Procs, NEW pc \in CallPc, NEW v \in Values \cup {NoValue},
           Goto(p, pc) \/ GotoWith(p, pc, v),
           call[p].pc # "idle",
           pc \in {"load", "add", "unlock"} => call[p].pc \in {"load", "add", "unlock"},
           UNCHANGED <<lock, stolen>>,
           store' \in [Keys -> Values \cup {NoValue}],
           faults' \in 0..MaxFaults
    PROVE  LockInv'
<1> DEFINE c == call[p]
           Moved(x) == [pc |-> pc, key |-> c.key, tries |-> c.tries, val |-> x]
<1>1. call \in [Procs -> CallType] /\ c \in CallType /\ c.key \in Keys
  BY DEF LockInv, CacheTypeOK
<1>2. /\ c.val \in Values \cup {NoValue}
      /\ \A x \in Values \cup {NoValue} :
           /\ Moved(x) \in CallType
           /\ Moved(x).pc = pc
           /\ Moved(x).key = c.key
  BY <1>1 DEF CallType
<1>3. pc \in {"load", "add", "unlock"} => Loading(p, c.key)
  BY DEF Loading
<1>4. \E x \in Values \cup {NoValue} : OnlyCall(p, Moved(x))
  BY <1>1, <1>2, GotoCall, GotoWithCall
<1>5. PICK x \in Values \cup {NoValue} : OnlyCall(p, Moved(x))
  BY <1>4
<1> HIDE DEF Moved, c
<1>6. QED
  BY <1>1, <1>2, <1>3, <1>5, QuietStep

\* Looking a value up.
LEMMA GetStep ==
    ASSUME LockInv, NEW p \in Procs, Get(p) \/ GetFails(p)
    PROVE  LockInv'
<1>1. /\ store \in [Keys -> Values \cup {NoValue}]
      /\ faults \in 0..MaxFaults
      /\ store[call[p].key] \in Values \cup {NoValue}
  BY DEF LockInv, CacheTypeOK, Get, GetFails
<1>2. CASE Get(p)
  BY <1>1, <1>2, MoveStep DEF Get, Finish, CallPc
<1>3. CASE GetFails(p)
  <2>1. faults' \in 0..MaxFaults
    BY <1>3, FaultBound DEF GetFails, LockInv
  <2>2. QED
    BY <1>1, <1>3, <2>1, MoveStep DEF GetFails, Finish, CallPc
<1>4. QED
  BY <1>2, <1>3

\* Reading the database, or failing to.
LEMMA ReadStep ==
    ASSUME LockInv, NEW p \in Procs, NEW v \in Values, ReadSource(p, v) \/ ReadFails(p)
    PROVE  LockInv'
<1>1. store \in [Keys -> Values \cup {NoValue}] /\ faults \in 0..MaxFaults
  BY DEF LockInv, CacheTypeOK
<1>2. CASE ReadSource(p, v)
  BY <1>1, <1>2, MoveStep DEF ReadSource, CallPc
<1>3. CASE ReadFails(p)
  <2>1. faults' \in 0..MaxFaults
    BY <1>3, FaultBound DEF ReadFails, LockInv
  <2>2. QED
    BY <1>1, <1>3, <2>1, MoveStep DEF ReadFails, CallPc
<1>4. QED
  BY <1>2, <1>3

\* Storing the loaded value, or failing to.
LEMMA AddStep ==
    ASSUME LockInv, NEW p \in Procs, Add(p) \/ AddFails(p)
    PROVE  LockInv'
<1>1. /\ store \in [Keys -> Values \cup {NoValue}]
      /\ faults \in 0..MaxFaults
      /\ call[p] \in CallType
  BY DEF LockInv, CacheTypeOK
<1>2. call[p].val \in Values \cup {NoValue}
  BY <1>1 DEF CallType
<1>3. CASE Add(p)
  <2>1. store' \in [Keys -> Values \cup {NoValue}]
    BY <1>1, <1>2, <1>3 DEF Add
  <2>2. QED
    BY <1>1, <1>2, <1>3, <2>1, MoveStep DEF Add, CallPc
<1>4. CASE AddFails(p)
  <2>1. faults' \in 0..MaxFaults
    BY <1>4, FaultBound DEF AddFails, LockInv
  <2>2. QED
    BY <1>1, <1>4, <2>1, MoveStep DEF AddFails, CallPc
<1>5. QED
  BY <1>3, <1>4

\* Taking the lock: nobody else was loading the key, or its lock was lost.
LEMMA AcquireStep ==
    ASSUME LockInv, NEW p \in Procs, Acquire(p)
    PROVE  LockInv'
<1> DEFINE k == call[p].key
           r == [pc |-> "load", key |-> k, tries |-> call[p].tries, val |-> call[p].val]
<1>1. call \in [Procs -> CallType] /\ call[p] \in CallType /\ k \in Keys
  BY DEF LockInv, CacheTypeOK, Acquire
<1>2. OnlyCall(p, r)
  BY <1>1, GotoCall DEF Acquire, CallPc
<1>3. /\ lock \in [Keys -> Procs \cup {NoProc}]
      /\ lock[k] = NoProc
      /\ lock' = [lock EXCEPT ![k] = p]
      /\ UNCHANGED <<store, stolen, faults>>
  BY DEF LockInv, CacheTypeOK, Acquire
<1> HIDE DEF k
<1>4. CacheTypeOK'
  <2>1. \A q \in Procs : call'[q].pc # "idle" => call'[q].key \in Keys
    BY <1>1, <1>2 DEF OnlyCall, LockInv, CacheTypeOK
  <2>2. lock' \in [Keys -> Procs \cup {NoProc}]
    BY <1>1, <1>3
  <2>3. QED
    BY <1>2, <1>3, <2>1, <2>2 DEF OnlyCall, LockInv, CacheTypeOK
<1>5. HolderLocks'
  <2> SUFFICES ASSUME NEW q \in Procs, NEW j \in Keys, Loading(q, j)', j \notin stolen'
               PROVE  lock'[j] = q
    BY DEF HolderLocks
  <2>1. CASE q = p
    <3>1. j = k
      BY <1>2, <2>1 DEF OnlyCall, Loading
    <3>2. QED
      BY <1>1, <1>3, <2>1, <3>1
  <2>2. CASE q # p
    <3>1. Loading(q, j)
      BY <1>2, <2>2 DEF OnlyCall, Loading
    <3>2. lock[j] = q
      BY <1>3, <3>1 DEF LockInv, HolderLocks
    <3>3. j # k
      BY <1>3, <3>2, CacheAssumption
    <3>4. QED
      BY <1>1, <1>3, <3>2, <3>3
  <2>3. QED
    BY <2>1, <2>2
<1>6. QED
  BY <1>4, <1>5 DEF LockInv

\* A try that did not get the lock.
LEMMA TryStep ==
    ASSUME LockInv, NEW p \in Procs, call[p].pc = "lock", TryAgain(p),
           UNCHANGED <<store, lock, stolen>>, faults' \in 0..MaxFaults
    PROVE  LockInv'
<1>1. /\ call \in [Procs -> CallType] /\ call[p] \in CallType
      /\ store \in [Keys -> Values \cup {NoValue}]
      /\ call[p].key \in Keys
  BY DEF LockInv, CacheTypeOK
<1>2. CASE call[p].tries > 1
  <2> DEFINE r == [pc |-> call[p].pc, key |-> call[p].key,
                   tries |-> call[p].tries - 1, val |-> call[p].val]
  <2>1. OnlyCall(p, r)
    BY <1>1, <1>2, RetryCall DEF TryAgain
  <2>2. /\ r.pc = "lock" /\ r.key \in Keys /\ r \in CallType
    BY <1>1, <2>1 DEF OnlyCall
  <2> HIDE DEF r
  <2>3. QED
    BY <1>1, <2>1, <2>2, QuietStep
<1>3. CASE ~(call[p].tries > 1)
  BY <1>1, <1>3, MoveStep DEF TryAgain, Finish, CallPc
<1>4. QED
  BY <1>2, <1>3

\* The lock is taken, or asking for it fails.
LEMMA BusyStep ==
    ASSUME LockInv, NEW p \in Procs, AcquireBusy(p) \/ AcquireFails(p)
    PROVE  LockInv'
<1>1. faults' \in 0..MaxFaults
  BY FaultBound DEF LockInv, CacheTypeOK, AcquireBusy, AcquireFails
<1>2. QED
  BY <1>1, TryStep DEF AcquireBusy, AcquireFails

\* Releasing the lock: only its holder's token deletes it.
LEMMA UnlockStep ==
    ASSUME LockInv, NEW p \in Procs, Unlock(p) \/ UnlockFails(p)
    PROVE  LockInv'
<1> DEFINE k == call[p].key
           r == [pc |-> "return", key |-> k, tries |-> call[p].tries, val |-> call[p].val]
<1>1. /\ call \in [Procs -> CallType] /\ call[p] \in CallType /\ k \in Keys
      /\ store \in [Keys -> Values \cup {NoValue}]
      /\ faults \in 0..MaxFaults
      /\ lock \in [Keys -> Procs \cup {NoProc}]
  BY DEF LockInv, CacheTypeOK, Unlock, UnlockFails
<1>2. CASE UnlockFails(p)
  <2>1. faults' \in 0..MaxFaults
    BY <1>2, FaultBound DEF UnlockFails, LockInv
  <2>2. QED
    BY <1>1, <1>2, <2>1, MoveStep DEF UnlockFails, CallPc
<1>3. CASE Unlock(p)
  <2>1. OnlyCall(p, r)
    BY <1>1, <1>3, GotoCall DEF Unlock, CallPc
  <2>2. /\ lock' = IF lock[k] = p THEN [lock EXCEPT ![k] = NoProc] ELSE lock
        /\ UNCHANGED <<store, stolen, faults>>
    BY <1>3 DEF Unlock
  <2> HIDE DEF k
  <2>3. CacheTypeOK'
    <3>1. \A q \in Procs : call'[q].pc # "idle" => call'[q].key \in Keys
      BY <1>1, <2>1 DEF OnlyCall, LockInv, CacheTypeOK
    <3>2. lock' \in [Keys -> Procs \cup {NoProc}]
      BY <1>1, <2>2
    <3>3. QED
      BY <2>1, <2>2, <3>1, <3>2 DEF OnlyCall, LockInv, CacheTypeOK
  <2>4. HolderLocks'
    <3> SUFFICES ASSUME NEW q \in Procs, NEW j \in Keys, Loading(q, j)', j \notin stolen'
                 PROVE  lock'[j] = q
      BY DEF HolderLocks
    <3>1. q # p
      BY <2>1 DEF OnlyCall, Loading
    <3>2. Loading(q, j)
      BY <2>1, <3>1 DEF OnlyCall, Loading
    <3>3. lock[j] = q
      BY <2>2, <3>2 DEF LockInv, HolderLocks
    <3>4. QED
      BY <1>1, <2>2, <3>1, <3>3
  <2>5. QED
    BY <2>3, <2>4 DEF LockInv
<1>4. QED
  BY <1>2, <1>3

\* A call is forgotten, because its caller has the result or has died.
LEMMA ResetStep ==
    ASSUME LockInv, NEW p \in Procs, Reset(p),
           UNCHANGED <<store, lock, stolen>>, faults' \in 0..MaxFaults
    PROVE  LockInv'
<1>1. call \in [Procs -> CallType] /\ store' \in [Keys -> Values \cup {NoValue}]
  BY DEF LockInv, CacheTypeOK
<1>2. OnlyCall(p, Idle)
  BY <1>1, ResetCall
<1>3. Idle \in CallType /\ Idle.pc = "idle"
  BY <1>2 DEF OnlyCall, Idle, NewCall
<1>4. QED
  BY <1>1, <1>2, <1>3, QuietStep

\* The caller dies in the middle of a call.
LEMMA DieStep ==
    ASSUME LockInv, NEW p \in Procs, Die(p)
    PROVE  LockInv'
<1>1. faults' \in 0..MaxFaults
  BY FaultBound DEF Die, LockInv
<1>2. QED
  BY <1>1, ResetStep DEF Die

\* A value or a lock expires.
LEMMA ExpireStep ==
    ASSUME LockInv, NEW k \in Keys, ExpireValue(k) \/ ExpireLock(k)
    PROVE  LockInv'
BY CacheAssumption DEF LockInv, CacheTypeOK, HolderLocks, Loading, ExpireValue, ExpireLock

\* A cache is emptied, with its locks.
LEMMA FlushStep ==
    ASSUME LockInv, NEW c \in Caches, FlushDB(c)
    PROVE  LockInv'
BY CacheAssumption DEF LockInv, CacheTypeOK, HolderLocks, Loading, FlushDB

-----------------------------------------------------------------------------
(* Steps that bring no call to "add". *)

NoNewAdd == \A q \in Procs : call'[q].pc = "add" => call'[q] = call[q]

\* A call that moves elsewhere.
LEMMA MoveNoAdd ==
    ASSUME call \in [Procs -> CallType], NEW p \in Procs, NEW pc \in CallPc,
           NEW v \in Values \cup {NoValue}, pc # "add",
           Goto(p, pc) \/ GotoWith(p, pc, v)
    PROVE  NoNewAdd
<1>1. CASE Goto(p, pc)
  <2>1. OnlyCall(p, [pc |-> pc, key |-> call[p].key,
                     tries |-> call[p].tries, val |-> call[p].val])
    BY <1>1, GotoCall
  <2>2. QED
    BY <2>1 DEF NoNewAdd, OnlyCall
<1>2. CASE GotoWith(p, pc, v)
  <2>1. OnlyCall(p, [pc |-> pc, key |-> call[p].key,
                     tries |-> call[p].tries, val |-> v])
    BY <1>2, GotoWithCall
  <2>2. QED
    BY <2>1 DEF NoNewAdd, OnlyCall
<1>3. QED
  BY <1>1, <1>2

\* A call that starts.
LEMMA StartNoAdd ==
    ASSUME CacheTypeOK, NEW p \in Procs, NEW k \in Keys,
           StartLoad(p, k) \/ StartGetOrLoad(p, k)
    PROVE  NoNewAdd
<1>1. PICK pc \in {"lock", "get"} : call' = [call EXCEPT ![p] = NewCall(pc, k)]
  BY DEF StartLoad, StartGetOrLoad
<1>2. call \in [Procs -> CallType] /\ pc \in CallPc
  BY DEF CacheTypeOK, CallPc
<1>3. OnlyCall(p, NewCall(pc, k))
  BY <1>1, <1>2, StartCall
<1>4. QED
  BY <1>3 DEF NoNewAdd, OnlyCall, NewCall

\* A call that is forgotten.
LEMMA ResetNoAdd ==
    ASSUME CacheTypeOK, NEW p \in Procs, Reset(p)
    PROVE  NoNewAdd
BY ResetCall DEF CacheTypeOK, NoNewAdd, OnlyCall, Idle, NewCall
=============================================================================
