------------------------------ MODULE Tarantool ------------------------------
(***************************************************************************)
(* The in-memory database of the dialog service as its start script makes  *)
(* it: schema.lua runs on every start of the process, statement by         *)
(* statement, and 001_create_messages_space.lua is its only migration.     *)
(* What a statement writes is on disk (the write-ahead log) when the next  *)
(* one begins; Lua functions are in memory only.  box.cfg listens before   *)
(* the script ends, so calls arrive while it runs.                         *)
(*                                                                         *)
(* pc names the next statement, and disk holds the statements whose effect *)
(* is in the log.                                                          *)
(***************************************************************************)
EXTENDS Naturals, FiniteSets

CONSTANTS
    Messages,    \* primary keys (dialog_id, message_id) of the space "messages"
    MaxCrashes   \* bound: crashes of the process

ASSUME TarantoolAssumption == MaxCrashes \in Nat

VARIABLES
    pc,          \* the statement of schema.lua that comes next
    disk,        \* statements done, and "lock": the tuple migration_in_progress
    tuples,      \* rows of the space "messages", on disk too
    functions,   \* whether the Lua functions are defined in this process
    damaged,     \* history: the process died with an effect half on disk
    crashes

tntVars == <<pc, disk, tuples, functions, damaged, crashes>>

\* The statements that write, in the order of the script.
Writes == {"once_lock", "lock_space", "lock_index", "once_user", "user", "grant",
           "lock", "space", "index"}
Statements == Writes \cup {"functions", "release"}

TntTypeOK ==
    /\ pc \in Statements \cup {"down", "ready"}
    /\ disk \subseteq Writes
    /\ tuples \subseteq Messages
    /\ functions \in BOOLEAN
    /\ damaged \in BOOLEAN
    /\ crashes \in 0..MaxCrashes

TntInit ==
    /\ pc = "down"
    /\ disk = {}
    /\ tuples = {}
    /\ functions = FALSE
    /\ damaged = FALSE
    /\ crashes = 0

\* box.cfg recovers the log and listens.
Start ==
    /\ pc = "down"
    /\ pc' = "once_lock"
    /\ UNCHANGED <<disk, tuples, functions, damaged, crashes>>

Go(from, to) ==
    /\ pc = from
    /\ pc' = to
    /\ UNCHANGED <<tuples, functions, damaged, crashes>>

Write(statement, next) ==
    Go(statement, next) /\ disk' = disk \cup {statement}

\* box.once(key, f): the key is written first, then f runs; never again.
Once(key, body, next) ==
    \/ key \notin disk /\ Write(key, body)
    \/ key \in disk /\ Go(key, next) /\ UNCHANGED disk

OnceLock ==
    \/ Once("once_lock", "lock_space", "once_user")
    \/ Write("lock_space", "lock_index")
    \/ Write("lock_index", "once_user")

OnceUser ==
    \/ Once("once_user", "user", "lock")
    \/ Write("user", "grant")
    \/ Write("grant", "lock")

\* acquire_lock inserts one tuple: it fails without the space or its index and
\* when the tuple is there.  Then the script only prints, and is over.
AcquireLock ==
    \/ "lock_index" \in disk /\ "lock" \notin disk /\ Write("lock", "space")
    \/ /\ "lock_index" \notin disk \/ "lock" \in disk
       /\ Go("lock", "ready")
       /\ UNCHANGED disk

\* migration.up: the space and its index, if there is no space.
CreateSpace ==
    \/ "space" \notin disk /\ Write("space", "index")
    \/ "space" \in disk /\ Go("space", "functions") /\ UNCHANGED disk
    \/ Write("index", "functions")

DefineFunctions ==
    /\ pc = "functions"
    /\ pc' = "release"
    /\ functions' = TRUE
    /\ UNCHANGED <<disk, tuples, damaged, crashes>>

\* A slip: the lock stays.
KeepLock == Go("release", "ready") /\ UNCHANGED disk

ReleaseLock == Go("release", "ready") /\ disk' = disk \ {"lock"}

\* What follows a statement must still run for its effect to be whole.
HalfDone == {"lock_space", "lock_index", "user", "grant",
             "space", "index", "functions", "release"}

\* A slip: rows are only in memory.
CrashLosingRows ==
    /\ pc # "down" /\ crashes < MaxCrashes
    /\ pc' = "down" /\ functions' = FALSE
    /\ tuples' = {}
    /\ damaged' = (damaged \/ pc \in HalfDone)
    /\ crashes' = crashes + 1
    /\ UNCHANGED disk

Crash ==
    /\ pc # "down" /\ crashes < MaxCrashes
    /\ pc' = "down" /\ functions' = FALSE
    /\ damaged' = (damaged \/ pc \in HalfDone)
    /\ crashes' = crashes + 1
    /\ UNCHANGED <<disk, tuples>>

Script == OnceLock \/ OnceUser \/ AcquireLock \/ CreateSpace \/ DefineFunctions
             \/ ReleaseLock

(***************************************************************************)
(* Calls of the dialog service, as the user of schema.lua.                 *)
(***************************************************************************)
CanCall == pc # "down" /\ functions /\ {"user", "grant"} \subseteq disk

CanInsert == CanCall /\ "index" \in disk

\* insert_message
Insert(m) ==
    /\ CanInsert
    /\ m \notin tuples
    /\ tuples' = tuples \cup {m}
    /\ UNCHANGED <<pc, disk, functions, damaged, crashes>>

TntNext == Start \/ Script \/ Crash \/ \E m \in Messages : Insert(m)

TntSpec == TntInit /\ [][TntNext]_tntVars
TntFairSpec == TntSpec /\ WF_tntVars(Start) /\ WF_tntVars(Script)

(***************************************************************************)
(* Properties.                                                             *)
(***************************************************************************)
\* What the script leaves when it is over depends on nothing but where the
\* process died before: it serves, unless it once died inside a box.once or
\* while it held the lock, and then it never serves again (schema.lua:15-63).
ReadyIffUndamaged == pc = "ready" => (CanInsert <=> ~damaged)

\* The report on the in-memory database (src/inmemory/report.md) says that the
\* start applies the schema migrations: spaces, functions, indexes.
MigratedOnceStarted == pc = "ready" => CanInsert
==============================================================================
