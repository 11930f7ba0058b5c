---------------------------- MODULE CachedSource ----------------------------
(***************************************************************************)
(* RedisCache over a replicated database (replicated_db.go) whose value    *)
(* for each key is a version number, growing with each write (the feed of  *)
(* a user, or the subscribers of a user, as its rows change).  It is the   *)
(* cache on its own: clients call Load and GetOrLoad in any order, every   *)
(* load asks any of the replicas, which lag behind the master at will,     *)
(* values and locks expire, FlushDB runs at any moment, round trips fail   *)
(* and callers die.                                                        *)
(***************************************************************************)
EXTENDS RedisCache

CONSTANTS
    Master, Replicas,  \* database nodes; without replicas the master is read
    MaxVersion         \* bound: writes per key

ASSUME SourceAssumption ==
    /\ Master \notin Replicas
    /\ MaxVersion \in Nat
    /\ Values = 0..MaxVersion

Nodes == {Master} \cup Replicas
ReadNodes == IF Replicas = {} THEN {Master} ELSE Replicas

VARIABLES
    db,   \* [Nodes -> [Keys -> version]]: what loadFunc would return there
    had   \* history: [Keys -> what each node had when the key was last filled]

sourceVars == <<db, had>>
vars == <<store, lock, call, stolen, faults, db, had>>

Init ==
    /\ CacheInit
    /\ db = [n \in Nodes |-> [k \in Keys |-> 0]]
    /\ had = [k \in Keys |-> [n \in ReadNodes |-> 0]]

TypeOK ==
    /\ CacheTypeOK
    /\ db \in [Nodes -> [Keys -> Values]]
    /\ had \in [Keys -> [ReadNodes -> Values]]

\* A transaction changes the rows the value of k is computed from.
Write(k) ==
    /\ db[Master][k] < MaxVersion
    /\ db' = [db EXCEPT ![Master][k] = @ + 1]
    /\ UNCHANGED <<cacheVars, had>>

\* Asynchronous replication: a replica applies the next change of k.
Replicate(r, k) ==
    /\ db[r][k] < db[Master][k]
    /\ db' = [db EXCEPT ![r][k] = @ + 1]
    /\ UNCHANGED <<cacheVars, had>>

Begin(p, k) ==
    /\ StartLoad(p, k) \/ StartGetOrLoad(p, k)
    /\ UNCHANGED <<store, lock, stolen, faults, sourceVars>>

\* loadFunc: one SELECT, on a node that connRead picks at random.
Read(p) ==
    /\ \E n \in ReadNodes : ReadSource(p, db[n][call[p].key])
    /\ UNCHANGED sourceVars

\* SET, and the history of what could have been read at that moment.
Save(p) ==
    /\ Add(p)
    /\ had' = [had EXCEPT ![call[p].key] = [n \in ReadNodes |-> db[n][call[p].key]]]
    /\ UNCHANGED db

\* Every other round trip of p's call.
Trip(p) ==
    /\ \/ Get(p) \/ GetFails(p)
       \/ Acquire(p) \/ AcquireBusy(p) \/ AcquireFails(p)
       \/ ReadFails(p) \/ AddFails(p)
       \/ Unlock(p) \/ UnlockFails(p)
    /\ UNCHANGED sourceVars

\* The caller takes the result.
Return(p) ==
    /\ call[p].pc = "return"
    /\ Reset(p)
    /\ UNCHANGED <<store, lock, stolen, faults, sourceVars>>

Crash(p) == Die(p) /\ UNCHANGED sourceVars

Expire(k) == (ExpireValue(k) \/ ExpireLock(k)) /\ UNCHANGED sourceVars

InvalidateAll(c) == FlushDB(c) /\ UNCHANGED sourceVars

Next ==
    \/ \E k \in Keys : Write(k) \/ Expire(k)
    \/ \E r \in Replicas, k \in Keys : Replicate(r, k)
    \/ \E p \in Procs, k \in Keys : Begin(p, k)
    \/ \E p \in Procs : Read(p) \/ Save(p) \/ Trip(p) \/ Return(p) \/ Crash(p)
    \/ \E c \in Caches : InvalidateAll(c)

Spec == Init /\ [][Next]_vars

\* A goroutine in a call keeps running: every round trip is answered, with
\* a result or an error.  Nothing is assumed of writers, replicas, callers or
\* expiry.
Progress(p) == Read(p) \/ Save(p) \/ Trip(p) \/ Return(p)

FairSpec == Spec /\ \A p \in Procs : WF_vars(Progress(p))

-----------------------------------------------------------------------------

\* A load whose key never lost its lock is about to store a version no older
\* than the node it came from had when the key was last filled.  The lock is
\* taken before the database is read and released after the SET, so the read
\* follows every earlier fill; a node only moves ahead.  With one node to read
\* from, the key never goes back to a version older than one it has held; with
\* several replicas it may, when one of them is behind the one read before.
LoadedIsRecent ==
    \A p \in Procs :
        call[p].pc = "add" /\ call[p].key \notin stolen =>
            \E n \in ReadNodes : had[call[p].key][n] <= call[p].val

\* The cache behaves as FreshCache promises, for the copies of the database
\* that loads read.
Abstract == INSTANCE FreshCache WITH Copies <- ReadNodes,
                                    copy <- [n \in ReadNodes |-> db[n]]
RefinesFreshCache == Abstract!Init /\ [][Abstract!Next]_(Abstract!freshVars)

\* Every call returns to its caller, with a value or an error, however the
\* lock is contended, lost or left behind by a caller that died.
CallsReturn ==
    \A p \in Procs : call[p].pc # "idle" ~> call[p].pc = "idle"
=============================================================================
