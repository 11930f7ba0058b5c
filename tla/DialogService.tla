---------------------------- MODULE DialogService ----------------------------
(***************************************************************************)
(* The dialogs: a social instance forwards a send or a list to an instance *)
(* of the dialog service (social/internal/service/dialog), which keeps the *)
(* messages in Postgres or in Tarantool (dialog/internal).  It is composed *)
(* here with the start script and the crashes of Tarantool.                *)
(*                                                                         *)
(* A request is one call and is never sent again.  Whatever goes wrong on  *)
(* its way back is status 500, so "failed" says nothing of its effect.     *)
(***************************************************************************)
EXTENDS Tarantool, SequencesExt

CONSTANTS
    Lists,       \* requests for a list; the messages are the requests to send
    Users,
    Talk,        \* bound: [Requests -> the pairs of users each may be about]
    Instances,   \* of the dialog service
    Fast,        \* instances whose clock runs ahead of the others'
    MaxFaults    \* bound: crashes of any process, results lost or cut short

Requests == Messages \cup Lists

ASSUME DialogAssumption ==
    /\ IsFiniteSet(Messages) /\ Messages \cap Lists = {}
    /\ Talk \in [Requests -> SUBSET (Users \X Users)]
    /\ Fast \subseteq Instances
    /\ MaxFaults \in Nat

VARIABLES
    kind,     \* where the messages are: "sql" or "memory"
    log,      \* Postgres: the committed messages, in the order of commits
    up,       \* instances that run
    conn,     \* those of them whose connection to Tarantool is alive
    phase,    \* [Requests -> how far the request is]
    at,       \* [Requests -> the instance that has it, or NoInstance]
    parties,  \* [Requests -> <<user of the token, user of the path>>, or <<>>]
    flying,   \* messages whose insert is on its way to the storage
    stamp,    \* [Messages -> what a dialog is sorted by, 0 for none]
    issued,   \* stamps given so far
    result,   \* [Lists -> the rows that were read]
    answer,   \* [Requests -> "none", "ok" or "failed"]
    heard,    \* history: [Requests -> messages answered "ok" before it]
    partial,  \* history: lists read from a replica that lags, or cut short
    faults

dlgVars == <<kind, log, up, conn, phase, at, parties, flying, stamp, issued,
             result, answer, heard, partial, faults>>
vars == <<tntVars, dlgVars>>

NoInstance == "none"

TypeOK ==
    /\ TntTypeOK
    /\ kind \in {"sql", "memory"}
    /\ log \in Seq(Messages)
    /\ up \subseteq Instances /\ conn \subseteq up
    /\ phase \in [Requests -> {"idle", "working", "done", "over"}]
    /\ at \in [Requests -> Instances \cup {NoInstance}]
    /\ parties \in [Requests -> {<<>>} \cup (Users \X Users)]
    /\ flying \subseteq Messages
    /\ stamp \in [Messages -> Nat] /\ issued \in 0..Cardinality(Messages)
    /\ result \in [Lists -> Seq(Messages)]
    /\ answer \in [Requests -> {"none", "ok", "failed"}]
    /\ heard \in [Requests -> SUBSET Messages]
    /\ partial \subseteq Lists
    /\ faults \in 0..MaxFaults

Init ==
    /\ TntInit
    /\ kind \in {"sql", "memory"}
    /\ log = <<>>
    /\ up = {} /\ conn = {}
    /\ phase = [r \in Requests |-> "idle"]
    /\ at = [r \in Requests |-> NoInstance]
    /\ parties = [r \in Requests |-> <<>>]
    /\ flying = {}
    /\ stamp = [m \in Messages |-> 0] /\ issued = 0
    /\ result = [l \in Lists |-> <<>>]
    /\ answer = [r \in Requests |-> "none"]
    /\ heard = [r \in Requests |-> {}]
    /\ partial = {}
    /\ faults = 0

Memory == kind = "memory"

\* What the storage keeps.
Kept == IF Memory THEN tuples ELSE ToSet(log)

(***************************************************************************)
(* Processes.                                                              *)
(***************************************************************************)
\* tarantool.Connect needs a listening process and the user of the script.  An
\* instance without its connection may be restarted by hand.
StartInstance(i) ==
    /\ i \notin up \/ (Memory /\ i \notin conn)
    /\ Memory => pc # "down" /\ "user" \in disk
    /\ up' = up \cup {i}
    /\ conn' = IF Memory THEN conn \cup {i} ELSE conn
    /\ UNCHANGED <<tntVars, kind, log, phase, at, parties, flying, stamp, issued,
                   result, answer, heard, partial, faults>>

\* A slip: its connections are not closed.
CrashInstanceOnly(i) ==
    /\ i \in up /\ faults < MaxFaults
    /\ up' = up \ {i}
    /\ faults' = faults + 1
    /\ UNCHANGED <<tntVars, kind, log, conn, phase, at, parties, flying, stamp, issued,
                   result, answer, heard, partial>>

\* A request that an instance had gets no response; a statement it has sent
\* still reaches the storage.
CrashInstance(i) ==
    LET held == {r \in Requests : at[r] = i /\ phase[r] \in {"working", "done"}}
    IN  /\ i \in up /\ faults < MaxFaults
        /\ up' = up \ {i} /\ conn' = conn \ {i}
        /\ phase' = [r \in Requests |-> IF r \in held THEN "over" ELSE phase[r]]
        /\ answer' = [r \in Requests |-> IF r \in held THEN "failed" ELSE answer[r]]
        /\ faults' = faults + 1
        /\ UNCHANGED <<tntVars, kind, log, at, parties, flying, stamp, issued,
                       result, heard, partial>>

\* Opts.Reconnect is not set: every connection is dead from now on, and the
\* calls that had no response yet fail.
CrashTarantool ==
    LET open == {r \in Requests : phase[r] = "working"}
    IN  /\ Memory /\ Crash /\ faults < MaxFaults
        /\ faults' = faults + 1
        /\ conn' = {}
        /\ flying' = {}
        /\ phase' = [r \in Requests |-> IF r \in open THEN "over" ELSE phase[r]]
        /\ answer' = [r \in Requests |-> IF r \in open THEN "failed" ELSE answer[r]]
        /\ UNCHANGED <<kind, log, up, at, parties, stamp, issued, result, heard, partial>>

TarantoolStep ==
    /\ Memory /\ (Start \/ Script)
    /\ UNCHANGED dlgVars

(***************************************************************************)
(* The two operations of the API, up to the storage.                       *)
(***************************************************************************)
Over(r, status) ==
    /\ phase' = [phase EXCEPT ![r] = "over"]
    /\ answer' = [answer EXCEPT ![r] = status]

\* Bound: nobody asks before the script has made the space for the first time,
\* when every request is refused.
Opened == Memory => "index" \in disk

\* The call is refused by an instance that does not run, or by its storage
\* without a connection: an error on the way, 500 for the client.
Refuse(r) ==
    /\ phase[r] = "idle" /\ Opened
    /\ \E i \in Instances : i \notin up \/ (Memory /\ i \notin conn)
    /\ Over(r, "failed")
    /\ UNCHANGED <<tntVars, kind, log, up, conn, at, parties, flying, stamp, issued,
                   result, heard, partial, faults>>

\* The token gives one user, the path the other.
Ask(r, i) ==
    /\ phase[r] = "idle" /\ Opened
    /\ phase' = [phase EXCEPT ![r] = "working"]
    /\ \E who \in Talk[r] : parties' = [parties EXCEPT ![r] = who]
    /\ heard' = [heard EXCEPT ![r] = {m \in Messages : answer[m] = "ok"}]
    /\ at' = [at EXCEPT ![r] = i]
    /\ UNCHANGED <<tntVars, kind, log, up, conn, result, answer, partial, faults>>

Accepts(i) == i \in up /\ (Memory => i \in conn)

\* A slip: message ids are random, so they sort as they please.
RandomStamp(i) == Cardinality(Messages) - issued

\* A row is sorted by its time on the master, which has one clock, or by its
\* message_id, which starts with the time on the instance that made it.
NewStamp(i) ==
    issued + 1 + IF Memory /\ i \in Fast THEN Cardinality(Messages) ELSE 0

CreateMessage(m, i) ==
    /\ Accepts(i)
    /\ Ask(m, i)
    /\ flying' = flying \cup {m}
    /\ issued' = issued + 1
    /\ stamp' = [stamp EXCEPT ![m] = NewStamp(i)]

GetMessagesBetween(l, i) ==
    /\ Accepts(i)
    /\ Ask(l, i)
    /\ UNCHANGED <<flying, stamp, issued>>

(***************************************************************************)
(* The storages.                                                           *)
(***************************************************************************)
\* The response of a statement reaches an instance that still waits for it.
Done(r) ==
    phase' = IF phase[r] = "working" THEN [phase EXCEPT ![r] = "done"] ELSE phase

InsertSQL(m) ==
    /\ ~Memory /\ m \in flying
    /\ log' = Append(log, m)
    /\ flying' = flying \ {m}
    /\ Done(m)
    /\ UNCHANGED <<tntVars, kind, up, conn, at, parties, stamp, issued, result,
                   answer, heard, partial, faults>>

InsertMemory(m) ==
    /\ Memory /\ m \in flying
    /\ Insert(m)
    /\ flying' = flying \ {m}
    /\ Done(m)
    /\ UNCHANGED <<kind, log, up, conn, at, parties, stamp, issued, result,
                   answer, heard, partial, faults>>

\* A function that is not there yet, or that the user may not call.
RefuseInsert(m) ==
    /\ Memory /\ m \in flying /\ ~CanInsert /\ pc # "down"
    /\ flying' = flying \ {m}
    /\ IF phase[m] = "working" THEN Over(m, "failed") ELSE UNCHANGED <<phase, answer>>
    /\ UNCHANGED <<tntVars, kind, log, up, conn, at, parties, stamp, issued, result,
                   heard, partial, faults>>

\* A slip: the ids are joined without being ordered.
DirectedId(r) == parties[r]

\* ObtainDialogId: the two ids in order, hashed.
ObtainDialogId(r) == ToSet(parties[r])

DialogOf(l, S) == {m \in S : ObtainDialogId(m) = ObtainDialogId(l)}

\* The orders in which a statement may return the rows S.
Orders(S) == {s \in [1..Cardinality(S) -> S] : ToSet(s) = S}

NewestFirst(S) ==
    {s \in Orders(S) : \A j, k \in DOMAIN s : j < k => stamp[s[j]] >= stamp[s[k]]}
OldestFirst(S) ==
    {s \in Orders(S) : \A j, k \in DOMAIN s : j < k => stamp[s[j]] <= stamp[s[k]]}

\* connRead: a replica, or the master without one, has some beginning of the
\* master's log.
Copies == 0..Len(log)

Read(l, rows, whole) ==
    /\ phase[l] = "working"
    /\ phase' = [phase EXCEPT ![l] = "done"]
    /\ result' = [result EXCEPT ![l] = rows]
    /\ partial' = IF whole THEN partial ELSE partial \cup {l}
    /\ UNCHANGED <<tntVars, kind, log, up, conn, at, parties, flying, stamp, issued,
                   answer, heard>>

SelectSQL(l) ==
    /\ ~Memory
    /\ \E n \in Copies :
         \E rows \in NewestFirst(DialogOf(l, ToSet(SubSeq(log, 1, n)))) :
            Read(l, rows, n = Len(log))
    /\ UNCHANGED faults

\* rows.Err is not looked at: a connection that breaks ends the rows early.
SelectCut(l) ==
    /\ ~Memory /\ faults < MaxFaults
    /\ \E n \in Copies :
         \E rows \in NewestFirst(DialogOf(l, ToSet(SubSeq(log, 1, n)))) :
            \E k \in 0..(Len(rows) - 1) : Read(l, SubSeq(rows, 1, k), FALSE)
    /\ faults' = faults + 1

SelectMemory(l) ==
    /\ Memory /\ CanInsert
    /\ \E rows \in OldestFirst(DialogOf(l, tuples)) : Read(l, rows, TRUE)
    /\ UNCHANGED faults

\* A slip: the error is not passed on.
SwallowError(l) ==
    /\ Memory /\ ~CanInsert /\ pc # "down" /\ phase[l] = "working"
    /\ UNCHANGED vars

RefuseSelect(l) ==
    /\ Memory /\ ~CanInsert /\ pc # "down"
    /\ phase[l] = "working"
    /\ Over(l, "failed")
    /\ UNCHANGED <<tntVars, kind, log, up, conn, at, parties, flying, stamp, issued,
                   result, heard, partial, faults>>

(***************************************************************************)
(* Back to the client, through the social instance.                        *)
(***************************************************************************)
Reply(r) ==
    /\ phase[r] = "done"
    /\ Over(r, "ok")
    /\ UNCHANGED <<tntVars, kind, log, up, conn, at, parties, flying, stamp, issued,
                   result, heard, partial, faults>>

\* The response is lost between the instances, or with the connection.
LoseReply(r) ==
    /\ phase[r] = "done" /\ faults < MaxFaults
    /\ Over(r, "failed")
    /\ faults' = faults + 1
    /\ UNCHANGED <<tntVars, kind, log, up, conn, at, parties, flying, stamp, issued,
                   result, heard, partial>>

Send(m) == \E i \in Instances : CreateMessage(m, i)
List(l) == \E i \in Instances : GetMessagesBetween(l, i)

Handle(r) ==
    \/ r \in Messages /\ (InsertSQL(r) \/ InsertMemory(r) \/ RefuseInsert(r))
    \/ r \in Lists /\ (SelectSQL(r) \/ SelectMemory(r) \/ RefuseSelect(r))
    \/ Reply(r)

Next ==
    \/ TarantoolStep \/ CrashTarantool
    \/ \E i \in Instances : StartInstance(i) \/ CrashInstance(i)
    \/ \E m \in Messages : Send(m)
    \/ \E l \in Lists : List(l) \/ SelectCut(l)
    \/ \E r \in Requests : Refuse(r) \/ Handle(r) \/ LoseReply(r)

Spec == Init /\ [][Next]_vars

\* The goroutine of a request runs, and so does the script; instances are not
\* obliged to start.
FairSpec ==
    /\ Spec
    /\ WF_vars(TarantoolStep)
    /\ \A r \in Requests : WF_vars(Handle(r))

(***************************************************************************)
(* Properties.                                                             *)
(***************************************************************************)
Promise == INSTANCE Dialog WITH
              pair <- [r \in Requests |-> ToSet(parties[r])],
              kept <- Kept,
              answer <- answer,
              shown <- [l \in Lists |-> IF answer[l] = "ok" THEN result[l] ELSE <<>>]

\* A message answered 200 is kept for good, through every crash of Tarantool
\* and of the instances, and a list shows kept messages of that dialog only,
\* each once (dialog_service.go:28-55).
RefinesDialog == Promise!Spec

\* A list that was answered lacks a message acknowledged before it was asked
\* for only if a replica lagged or the result broke off (dialog_storage.go:55).
ListIsComplete ==
    \A l \in Lists : answer[l] = "ok" /\ l \notin partial =>
        {m \in heard[l] : ToSet(parties[m]) = ToSet(parties[l])} \subseteq ToSet(result[l])

Before(s, m, n) ==
    \E j, k \in DOMAIN s : j < k /\ s[j] = m /\ s[k] = n

\* A message sent after another was acknowledged is shown on the right side of
\* it: newer first from Postgres, newer last from Tarantool.  In Tarantool
\* that takes one instance, or clocks that agree.
RepliesFollow ==
    \A l \in Lists : \A n \in ToSet(result[l]) : \A m \in heard[n] \cap ToSet(result[l]) :
        IF Memory
        THEN at[n] = at[m] => Before(result[l], m, n)
        ELSE Before(result[l], n, m)

\* Every request that reaches an instance is answered, whatever crashes: again
\* and again nobody waits (a request is made once, so nobody waits in the end).
Answered ==
    []<>(\A r \in Requests : phase[r] \notin {"working", "done"})
==============================================================================
