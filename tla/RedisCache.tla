----------------------------- MODULE RedisCache -----------------------------
(***************************************************************************)
(* The cache of social/internal/service/cache/redis/redis.go: values kept  *)
(* in Redis under a TTL, filled from a database by Load under a redsync    *)
(* lock, read by GetOrLoad.  Every Redis or database round trip of a call  *)
(* is one action, so the calls of several goroutines and of several        *)
(* instances of the service interleave between round trips.                *)
(*                                                                         *)
(* The service builds two RedisCache objects, each with a Redis database   *)
(* of its own (feeds and subscribers).  A key here is therefore a pair     *)
(* <<cache, id>>; FlushDB empties one cache.  What is loaded (the value    *)
(* loadFunc returns) is a parameter of ReadSource: the modules that extend *)
(* this one say where it comes from.                                       *)
(***************************************************************************)
EXTENDS Naturals, FiniteSets

CONSTANTS
    Procs,      \* goroutines that call the cache, over all service instances
    Caches,     \* the RedisCache objects, one Redis database each
    Ids,        \* the keys used within a cache (user ids)
    Values,     \* what loadFunc may return
    Tries,      \* redsync.WithTries
    MaxFaults,  \* bound: how many round trips fail or processes crash
    NoProc, NoKey, NoValue

Keys == Caches \X Ids

ASSUME CacheAssumption ==
    /\ NoProc \notin Procs
    /\ NoKey \notin Keys
    /\ NoValue \notin Values
    /\ Tries \in Nat \ {0}
    /\ MaxFaults \in Nat

VARIABLES
    store,   \* [Keys -> value or NoValue]: the cached values
    lock,    \* [Keys -> process or NoProc]: who set "<key>-lock"
    call,    \* [Procs -> the call the goroutine is executing]
    stolen,  \* history: keys whose lock vanished under a holder still using it
    faults   \* number of failures so far

cacheVars == <<store, lock, call, stolen, faults>>

\* A call on k that has done nothing yet and starts at pc.
NewCall(pc, k) == [pc |-> pc, key |-> k, tries |-> Tries, val |-> NoValue]

Idle == NewCall("idle", NoKey)

CallPc == {"idle", "get", "lock", "load", "add", "unlock", "return"}

CallType ==
    [pc: CallPc,
     key: Keys \cup {NoKey},
     tries: 1..Tries,
     val: Values \cup {NoValue}]

CacheTypeOK ==
    /\ store \in [Keys -> Values \cup {NoValue}]
    /\ lock \in [Keys -> Procs \cup {NoProc}]
    /\ call \in [Procs -> CallType]
    /\ \A p \in Procs : call[p].pc # "idle" => call[p].key \in Keys
    /\ stolen \subseteq Keys
    /\ faults \in 0..MaxFaults

CacheInit ==
    /\ store = [k \in Keys |-> NoValue]
    /\ lock = [k \in Keys |-> NoProc]
    /\ call = [p \in Procs |-> Idle]
    /\ stolen = {}
    /\ faults = 0

\* p is between LockContext and UnlockContext of a Load of k.
Loading(p, k) == call[p].pc \in {"load", "add", "unlock"} /\ call[p].key = k

\* A round trip fails, within the bound.
Fault == faults < MaxFaults /\ faults' = faults + 1

Goto(p, pc) == call' = [call EXCEPT ![p].pc = pc]

GotoWith(p, pc, v) == call' = [call EXCEPT ![p].pc = pc, ![p].val = v]

\* The call ends with value v; NoValue stands for an error.
Finish(p, v) == GotoWith(p, "return", v)

-----------------------------------------------------------------------------
(* The calls. *)

StartLoad(p, k) ==
    /\ call[p].pc = "idle"
    /\ call' = [call EXCEPT ![p] = NewCall("lock", k)]

StartGetOrLoad(p, k) ==
    /\ call[p].pc = "idle"
    /\ call' = [call EXCEPT ![p] = NewCall("get", k)]

\* GET: a hit returns the value, a miss goes on to Load.
Get(p) ==
    LET k == call[p].key IN
    /\ call[p].pc = "get"
    /\ IF store[k] # NoValue THEN Finish(p, store[k]) ELSE Goto(p, "lock")
    /\ UNCHANGED <<store, lock, stolen, faults>>

\* GET fails, or the value cannot be parsed: the error is returned.
GetFails(p) ==
    /\ call[p].pc = "get"
    /\ Fault
    /\ Finish(p, NoValue)
    /\ UNCHANGED <<store, lock, stolen>>

\* A slip: SET without NX.
AcquireAnyway(p) ==
    LET k == call[p].key IN
    /\ call[p].pc = "lock"
    /\ lock' = [lock EXCEPT ![k] = p]
    /\ Goto(p, "load")
    /\ UNCHANGED <<store, stolen, faults>>

\* LockContext: SET NX of "<key>-lock" succeeds.
Acquire(p) ==
    LET k == call[p].key IN
    /\ call[p].pc = "lock"
    /\ lock[k] = NoProc
    /\ lock' = [lock EXCEPT ![k] = p]
    /\ Goto(p, "load")
    /\ UNCHANGED <<store, stolen, faults>>

\* Slips: one try too many; trying for ever; loading after the last try.
TryOnceMore(p) ==
    IF call[p].tries > 0
      THEN call' = [call EXCEPT ![p].tries = @ - 1]
      ELSE Finish(p, NoValue)

TryForever(p) == UNCHANGED call

TryThenLoad(p) ==
    IF call[p].tries > 1
      THEN call' = [call EXCEPT ![p].tries = @ - 1]
      ELSE Goto(p, "load")

\* Try again after the delay, give up after the last try.
TryAgain(p) ==
    IF call[p].tries > 1
      THEN call' = [call EXCEPT ![p].tries = @ - 1]
      ELSE Finish(p, NoValue)

\* The lock is taken.
AcquireBusy(p) ==
    /\ call[p].pc = "lock"
    /\ lock[call[p].key] # NoProc
    /\ TryAgain(p)
    /\ UNCHANGED <<store, lock, stolen, faults>>

\* SET NX fails: redsync counts it as a try.
AcquireFails(p) ==
    /\ call[p].pc = "lock"
    /\ Fault
    /\ TryAgain(p)
    /\ UNCHANGED <<store, lock, stolen>>

\* A slip: the lock is released once the database has answered.
ReadThenUnlock(p, v) ==
    LET k == call[p].key IN
    /\ call[p].pc = "load"
    /\ lock' = IF lock[k] = p THEN [lock EXCEPT ![k] = NoProc] ELSE lock
    /\ GotoWith(p, "add", v)
    /\ UNCHANGED <<store, stolen, faults>>

\* loadFunc reads v from the database.
ReadSource(p, v) ==
    /\ call[p].pc = "load"
    /\ GotoWith(p, "add", v)
    /\ UNCHANGED <<store, lock, stolen, faults>>

\* loadFunc fails: the deferred unlock runs and the error is returned.
ReadFails(p) ==
    /\ call[p].pc = "load"
    /\ Fault
    /\ Goto(p, "unlock")
    /\ UNCHANGED <<store, lock, stolen>>

\* SET of the loaded value, with a new TTL.
Add(p) ==
    /\ call[p].pc = "add"
    /\ store' = [store EXCEPT ![call[p].key] = call[p].val]
    /\ Goto(p, "unlock")
    /\ UNCHANGED <<lock, stolen, faults>>

\* SET fails: Load returns an error beside the value, and the cachers that
\* wrap it drop the value.
AddFails(p) ==
    /\ call[p].pc = "add"
    /\ Fault
    /\ GotoWith(p, "unlock", NoValue)
    /\ UNCHANGED <<store, lock, stolen>>

\* UnlockContext deletes the lock only while it still holds p's token.
Unlock(p) ==
    LET k == call[p].key IN
    /\ call[p].pc = "unlock"
    /\ lock' = IF lock[k] = p THEN [lock EXCEPT ![k] = NoProc] ELSE lock
    /\ Goto(p, "return")
    /\ UNCHANGED <<store, stolen, faults>>

\* UnlockContext fails: logged only, the lock stays until it expires.
UnlockFails(p) ==
    /\ call[p].pc = "unlock"
    /\ Fault
    /\ Goto(p, "return")
    /\ UNCHANGED <<store, lock, stolen>>

\* The result has been taken by the caller.
Reset(p) == call' = [call EXCEPT ![p] = Idle]

\* The process that runs p dies in the middle of a call.
Die(p) ==
    /\ call[p].pc # "idle"
    /\ Fault
    /\ Reset(p)
    /\ UNCHANGED <<store, lock, stolen>>

-----------------------------------------------------------------------------
(* What Redis does by itself, and FlushDB. *)

\* A value reaches its TTL.
ExpireValue(k) ==
    /\ store[k] # NoValue
    /\ store' = [store EXCEPT ![k] = NoValue]
    /\ UNCHANGED <<lock, call, stolen, faults>>

\* "<key>-lock" reaches its expiry of five seconds, whoever still uses it.
ExpireLock(k) ==
    /\ lock[k] # NoProc
    /\ lock' = [lock EXCEPT ![k] = NoProc]
    /\ stolen' = IF Loading(lock[k], k) THEN stolen \cup {k} ELSE stolen
    /\ UNCHANGED <<store, call, faults>>

\* FlushDB empties the database of cache c; the locks live there too.
FlushDB(c) ==
    /\ store' = [k \in Keys |-> IF k[1] = c THEN NoValue ELSE store[k]]
    /\ lock' = [k \in Keys |-> IF k[1] = c THEN NoProc ELSE lock[k]]
    /\ stolen' = stolen \cup {k \in Keys : k[1] = c /\ \E p \in Procs : Loading(p, k)}
    /\ UNCHANGED <<call, faults>>

-----------------------------------------------------------------------------

\* The steps of the call p is executing, once started and until it returns,
\* apart from ReadSource, which the extending modules give its value.
CallStep(p) ==
    \/ Get(p) \/ GetFails(p)
    \/ Acquire(p) \/ AcquireBusy(p) \/ AcquireFails(p)
    \/ ReadFails(p)
    \/ Add(p) \/ AddFails(p)
    \/ Unlock(p) \/ UnlockFails(p)

-----------------------------------------------------------------------------
(* Safety of the lock. *)

\* While the lock of a key has never been lost, whoever loads the key holds it.
HolderLocks ==
    \A p \in Procs, k \in Keys :
        Loading(p, k) /\ k \notin stolen => lock[k] = p

\* "The key is locked against simultaneous update requests"
\* (caching/report.md): two loads of a key overlap only after its lock was
\* lost to its expiry or to FlushDB.
OneLoadUnlessStolen ==
    \A p, q \in Procs, k \in Keys :
        Loading(p, k) /\ Loading(q, k) /\ p # q => k \in stolen
=============================================================================
