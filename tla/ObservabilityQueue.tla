-------------------------- MODULE ObservabilityQueue --------------------------
(***************************************************************************)
(* The write-behind queue of PrismaExecutionLogger and of                  *)
(* PrismaIncidentService: records are chained and queued synchronously and *)
(* written to the database in batches, by a flush that schedules itself    *)
(* and by flushes that callers ask for, one at a time under AsyncMutex.    *)
(*                                                                         *)
(* The two classes are the same queue; service says which one runs.  A     *)
(* step is the code between two awaits.  A record's hash is its identity   *)
(* <<key, sequence, life>>: within one process life a sequence number is   *)
(* used once per key, and after a restart the contents (the timestamp)     *)
(* differ.  Its id is the table's primary key: what an idFactory returns   *)
(* is unique, the default made of time and number may repeat between keys. *)
(***************************************************************************)
EXTENDS Naturals, Sequences, FiniteSets, Functions

CONSTANTS
    Keys,        \* projectId:runId, or projectId:incidentId
    Callers,     \* callers of flush()
    AutoFlush,   \* the flush that scheduleFlush starts
    BatchSize,   \* options.batchSize
    MaxRetries,  \* options.maxRetries
    NoHash,      \* null
    EmptyHash,   \* ''
    Times,       \* the milliseconds the clock may show
    MaxSequence, \* bound: records per key
    MaxRecords,  \* bound: records stored and queued
    MaxLives     \* bound: process starts

Flushers == Callers \union {AutoFlush}
Nobody == "nobody"    \* the mutex is free
Services == {"logger", "incidents"}
IncidentStates == {"OPEN", "MITIGATED", "RESOLVED"}
Hashes == Keys \X (1 .. MaxSequence) \X (1 .. MaxLives)

ASSUME QueueConstants ==
    /\ BatchSize \in Nat \ {0} /\ MaxRetries \in Nat
    /\ MaxSequence \in Nat /\ MaxRecords \in Nat /\ MaxLives \in Nat \ {0}
    /\ AutoFlush \notin Callers /\ Nobody \notin Flushers
    /\ NoHash \notin Hashes /\ EmptyHash \notin Hashes

Ids == Hashes \union (Times \X (1 .. MaxSequence))

Record == [id : Ids,
           key : Keys, sequence : 1 .. MaxSequence, life : 1 .. MaxLives,
           previousHash : Hashes \union {NoHash, EmptyHash},
           state : IncidentStates \union {"LOG"}]
Hash(r) == <<r.key, r.sequence, r.life>>

VARIABLES
    service,
    hasIdFactory, \* the constructor was given an idFactory
    rows,        \* the database table
    queue,       \* logQueue / queue
    seqs,        \* Map key -> sequence
    lastHashes,  \* Map key -> hash
    eventsProj,  \* incidents: the latest state known in memory, per key
    scheduledFlushActive,
    lastError,   \* an error is kept
    holder,      \* AsyncMutex: who holds it (locked iff somebody does)
    waiters,     \* AsyncMutex.queue
    pc,          \* where each flush is
    batch, attempt,
    life,        \* process starts so far
    cleared      \* history: an error was cleared over a non-empty queue

memory == <<queue, seqs, lastHashes, eventsProj, life>>
mutex  == <<holder, waiters>>
flush  == <<pc, batch, attempt>>
flags  == <<scheduledFlushActive, lastError, cleared>>
options == <<service, hasIdFactory>>
vars   == <<options, rows, memory, mutex, flush, flags>>

isLocked == holder # Nobody

Init ==
    /\ service \in Services /\ hasIdFactory \in BOOLEAN
    /\ rows = {} /\ queue = <<>>
    /\ seqs = [k \in Keys |-> 0]
    \* initialize() of a logger leaves '' where a fresh map has null
    /\ \/ lastHashes = [k \in Keys |-> NoHash]
       \/ service = "logger" /\ lastHashes = [k \in Keys |-> EmptyHash]
    /\ eventsProj = [k \in Keys |-> "none"]
    /\ scheduledFlushActive = FALSE /\ lastError = FALSE /\ cleared = FALSE
    /\ holder = Nobody /\ waiters = <<>>
    /\ pc = [f \in Flushers |-> "idle"]
    /\ batch = [f \in Flushers |-> <<>>] /\ attempt = [f \in Flushers |-> 0]
    /\ life = 1

------------------------------------------------------------------------------
(* Appending                                                               *)

\* scheduleFlush, with the queue and the error as they are at the call.
ScheduleFlush(q, err) ==
    IF scheduledFlushActive \/ q = <<>> \/ err
    THEN UNCHANGED <<scheduledFlushActive, pc, cleared>>
    ELSE /\ scheduledFlushActive' = TRUE
         /\ pc' = [pc EXCEPT ![AutoFlush] = "start"]
         /\ cleared' = FALSE

\* idFactory() or `log-${time}-${seq}`, which does not name the key.
NewIds(k) ==
    IF hasIdFactory THEN {<<k, seqs[k] + 1, life>>}
                    ELSE {<<t, seqs[k] + 1>> : t \in Times}

NewRecord(k, s, id) ==
    [id |-> id, key |-> k, sequence |-> seqs[k] + 1, life |-> life,
     previousHash |-> lastHashes[k], state |-> s]

\* Number, chain and queue a record, then schedule a flush.
AppendRecord(k, s) ==
    \E id \in NewIds(k) :
        /\ seqs[k] < MaxSequence
        /\ Cardinality(rows) + Len(queue) < MaxRecords
        /\ seqs' = [seqs EXCEPT ![k] = @ + 1]
        /\ lastHashes' = [lastHashes EXCEPT ![k] = Hash(NewRecord(k, s, id))]
        /\ queue' = Append(queue, NewRecord(k, s, id))
        /\ ScheduleFlush(queue', lastError)

LoggerLog(k) ==
    /\ service = "logger"
    /\ AppendRecord(k, "LOG")
    /\ UNCHANGED <<options, rows, mutex, batch, attempt, lastError, eventsProj,
                   life>>

IncidentAppendEvent(k, s) ==
    /\ AppendRecord(k, s)
    /\ eventsProj' = [eventsProj EXCEPT ![k] = s]
    /\ UNCHANGED <<options, rows, mutex, batch, attempt, lastError, life>>

\* The id comes from a factory, which may name an incident that exists.
OpenIncident(k) ==
    /\ service = "incidents"
    /\ IncidentAppendEvent(k, "OPEN")

\* A mutant: a resolved incident can be mitigated again.
MayFollow_Any(from, to) == from # to

MayFollow(from, to) ==
    \/ from = "OPEN" /\ to \in {"MITIGATED", "RESOLVED"}
    \/ from = "MITIGATED" /\ to = "RESOLVED"

TransitionIncident(k, s) ==
    /\ service = "incidents"
    /\ eventsProj[k] # "none"
    /\ MayFollow(eventsProj[k], s)
    /\ IncidentAppendEvent(k, s)

------------------------------------------------------------------------------
(* AsyncMutex and flush                                                    *)

\* A mutant: nobody ever waits.
Acquire_Unlocked(f) ==
    /\ holder' = f
    /\ pc' = [pc EXCEPT ![f] = "drain"]
    /\ UNCHANGED waiters

\* acquire: take the free mutex or queue up behind the holder.
Acquire(f) ==
    IF ~isLocked
    THEN /\ holder' = f
         /\ pc' = [pc EXCEPT ![f] = "drain"]
         /\ UNCHANGED waiters
    ELSE /\ waiters' = Append(waiters, f)
         /\ pc' = [pc EXCEPT ![f] = "waiting"]
         /\ UNCHANGED holder

\* A mutant: release frees the mutex without waking the next in line.
Release_NoWakeup(f, end) ==
    /\ holder' = Nobody
    /\ pc' = [pc EXCEPT ![f] = end]
    /\ UNCHANGED waiters

\* release: hand the mutex to the first waiter, or free it.
Release(f, end) ==
    IF waiters = <<>>
    THEN /\ holder' = Nobody
         /\ pc' = [pc EXCEPT ![f] = end]
         /\ UNCHANGED waiters
    ELSE /\ holder' = Head(waiters)
         /\ waiters' = Tail(waiters)
         /\ pc' = [pc EXCEPT ![f] = end, ![Head(waiters)] = "drain"]

\* A caller starts a flush, the scheduled one starts in its microtask.
StartFlush(f) ==
    /\ \/ f \in Callers /\ pc[f] = "idle"
       \/ f = AutoFlush /\ pc[f] = "start"
    /\ Acquire(f)
    /\ UNCHANGED <<options, rows, memory, batch, attempt, flags>>

\* flush() returns or throws to its caller; the scheduled one looks at it.
Ended(f, outcome) == IF f = AutoFlush THEN outcome ELSE "idle"

\* The head of the drain loop: take the next batch, or leave.
NextBatch(f) ==
    /\ pc[f] = "drain"
    /\ \/ /\ queue # <<>>
          /\ batch' = [batch EXCEPT
                 ![f] = SubSeq(queue, 1, IF Len(queue) < BatchSize
                                         THEN Len(queue) ELSE BatchSize)]
          /\ pc' = [pc EXCEPT ![f] = "writing"]
          /\ UNCHANGED mutex
       \/ /\ queue = <<>>
          /\ Release(f, Ended(f, "done"))
          /\ UNCHANGED batch
    /\ UNCHANGED <<options, rows, memory, attempt, flags>>

\* The database answers in a task of the event loop: every promise that is
\* already settled has run its continuation before.
MicrotasksDone ==
    \A f \in Flushers : pc[f] \in {"idle", "waiting", "writing"}

\* createMany with skipDuplicates: one statement (ON CONFLICT DO NOTHING); a
\* record is skipped when its id is in the table or earlier in the batch.
Insert(b) ==
    rows \union {b[i] : i \in {i \in DOMAIN b :
                      /\ \A x \in rows : x.id # b[i].id
                      /\ \A j \in 1 .. i - 1 : b[j].id # b[i].id}}

\* createMany succeeds: only now the batch leaves the queue.
WriteSucceeds(f) ==
    /\ pc[f] = "writing" /\ MicrotasksDone
    /\ rows' = Insert(batch[f])
    /\ queue' = SubSeq(queue, Len(batch[f]) + 1, Len(queue))
    /\ lastError' = FALSE
    /\ pc' = [pc EXCEPT ![f] = "drain"]
    /\ batch' = [batch EXCEPT ![f] = <<>>]
    /\ attempt' = [attempt EXCEPT ![f] = 0]
    /\ cleared' = (cleared /\ queue' # <<>>)
    /\ UNCHANGED <<options, seqs, lastHashes, eventsProj, life, mutex,
                   scheduledFlushActive>>

\* createMany throws; the statement may have been applied all the same.
\* The batch is tried again, or the error kept and the flush ended.
WriteFails(f, lands) ==
    /\ pc[f] = "writing" /\ MicrotasksDone
    /\ rows' = IF lands THEN Insert(batch[f]) ELSE rows
    /\ \/ /\ attempt[f] < MaxRetries
          /\ attempt' = [attempt EXCEPT ![f] = @ + 1]
          /\ UNCHANGED <<mutex, pc, batch, lastError>>
       \/ /\ attempt[f] = MaxRetries
          /\ lastError' = TRUE
          /\ attempt' = [attempt EXCEPT ![f] = 0]
          /\ batch' = [batch EXCEPT ![f] = <<>>]
          /\ Release(f, Ended(f, "failed"))
    /\ UNCHANGED <<options, memory, scheduledFlushActive, cleared>>

\* A mutant: the flush does not look at the queue again.
AutoFinishes_NoLook ==
    /\ pc[AutoFlush] \in {"done", "failed"}
    /\ scheduledFlushActive' = FALSE
    /\ pc' = [pc EXCEPT ![AutoFlush] = "idle"]
    /\ UNCHANGED <<options, rows, memory, mutex, batch, attempt, lastError,
                   cleared>>

\* The finally block of scheduleFlush: what was queued since the drain
\* ended is scheduled again, unless somebody else is draining.
AutoFinishes ==
    /\ pc[AutoFlush] \in {"done", "failed"}
    /\ IF pc[AutoFlush] = "done" /\ queue # <<>> /\ ~isLocked /\ ~lastError
       THEN /\ pc' = [pc EXCEPT ![AutoFlush] = "start"]
            /\ cleared' = FALSE
            /\ UNCHANGED scheduledFlushActive
       ELSE /\ pc' = [pc EXCEPT ![AutoFlush] = "idle"]
            /\ scheduledFlushActive' = FALSE
            /\ UNCHANGED cleared
    /\ UNCHANGED <<options, rows, memory, mutex, batch, attempt, lastError>>

ClearLastError ==
    /\ lastError
    /\ lastError' = FALSE
    /\ cleared' = (queue # <<>>)
    /\ UNCHANGED <<options, rows, memory, mutex, flush, scheduledFlushActive>>

------------------------------------------------------------------------------
(* Restart                                                                 *)

RowsOf(t, k) == {r \in t : r.key = k}

\* The row findFirst returns, and the last one the loop over findMany meets.
LatestRow(t, k) ==
    CHOOSE r \in RowsOf(t, k) : \A x \in RowsOf(t, k) : x.sequence <= r.sequence

\* initialize(projectId, runId) of the logger, for every key.
LoggerInitialize(t) ==
    /\ seqs' = [k \in Keys |-> IF RowsOf(t, k) = {} THEN 0
                               ELSE LatestRow(t, k).sequence]
    /\ lastHashes' = [k \in Keys |-> IF RowsOf(t, k) = {} THEN EmptyHash
                                     ELSE Hash(LatestRow(t, k))]
    /\ eventsProj' = [k \in Keys |-> "none"]

\* initialize(projectId) of the incident service.
IncidentInitialize(t) ==
    /\ seqs' = [k \in Keys |-> IF RowsOf(t, k) = {} THEN 0
                               ELSE LatestRow(t, k).sequence]
    /\ lastHashes' = [k \in Keys |-> IF RowsOf(t, k) = {} THEN NoHash
                                     ELSE Hash(LatestRow(t, k))]
    /\ eventsProj' = [k \in Keys |-> IF RowsOf(t, k) = {} THEN "none"
                                     ELSE LatestRow(t, k).state]

\* The process dies, a statement under way is applied or not, and a new
\* process initializes itself from the table.
Restart(lands) ==
    /\ life < MaxLives
    /\ life' = life + 1
    /\ rows' = IF lands /\ isLocked THEN Insert(batch[holder]) ELSE rows
    /\ queue' = <<>>
    /\ \/ service = "logger" /\ LoggerInitialize(rows')
       \/ service = "incidents" /\ IncidentInitialize(rows')
    /\ scheduledFlushActive' = FALSE /\ lastError' = FALSE /\ cleared' = FALSE
    /\ holder' = Nobody /\ waiters' = <<>>
    /\ pc' = [f \in Flushers |-> "idle"]
    /\ batch' = [f \in Flushers |-> <<>>]
    /\ attempt' = [f \in Flushers |-> 0]
    /\ UNCHANGED options

------------------------------------------------------------------------------
\* flush(), from the acquired mutex to its end.
Flush(f) ==
    \/ NextBatch(f) \/ WriteSucceeds(f)
    \/ \E lands \in BOOLEAN : WriteFails(f, lands)

\* The flush that scheduleFlush started, and its finally block.
Scheduled == StartFlush(AutoFlush) \/ AutoFinishes

LoggerScheduleFlush == service = "logger" /\ Scheduled
LoggerFlush(f) == service = "logger" /\ Flush(f)
IncidentScheduleFlush == service = "incidents" /\ Scheduled
IncidentFlush(f) == service = "incidents" /\ Flush(f)

Next ==
    \/ \E k \in Keys : LoggerLog(k) \/ OpenIncident(k)
    \/ \E k \in Keys, s \in {"MITIGATED", "RESOLVED"} : TransitionIncident(k, s)
    \/ LoggerScheduleFlush \/ IncidentScheduleFlush
    \/ \E f \in Flushers : LoggerFlush(f) \/ IncidentFlush(f)
    \/ \E f \in Callers : StartFlush(f)
    \/ ClearLastError
    \/ \E lands \in BOOLEAN : Restart(lands)

\* Promises settle and the database answers, with a result or an error.
Fairness == WF_vars(Scheduled) /\ \A f \in Flushers : WF_vars(Flush(f))

Spec == Init /\ [][Next]_vars /\ Fairness

------------------------------------------------------------------------------
TypeOK ==
    /\ service \in Services /\ hasIdFactory \in BOOLEAN
    /\ rows \subseteq Record
    /\ queue \in Seq(Record)
    /\ seqs \in [Keys -> 0 .. MaxSequence]
    /\ lastHashes \in [Keys -> Hashes \union {NoHash, EmptyHash}]
    /\ eventsProj \in [Keys -> IncidentStates \union {"none"}]
    /\ scheduledFlushActive \in BOOLEAN /\ lastError \in BOOLEAN
    /\ cleared \in BOOLEAN
    /\ holder \in Flushers \union {Nobody} /\ waiters \in Seq(Flushers)
    /\ pc \in [Flushers -> {"idle", "start", "waiting", "drain", "writing",
                            "done", "failed"}]
    /\ batch \in [Flushers -> Seq(Record)]
    /\ attempt \in [Flushers -> 0 .. MaxRetries]
    /\ life \in 1 .. MaxLives

\* No wakeup is lost: a queued record has a flush coming or an error kept,
\* although scheduleFlush returns early while a flush is under way and the
\* finally block does nothing when somebody else drains.  The one exception
\* is a clearLastError, which does not schedule.
NoRecordForgotten ==
    queue # <<>> => scheduledFlushActive \/ isLocked \/ lastError \/ cleared

\* The stored events of an incident follow transitionIncident's rules across
\* flushes and restarts: the first one opens it, and one that does not open
\* it again goes on from the event stored before it, never from RESOLVED and
\* never to the same state.
StoredTransitionsAreLegal ==
    service = "incidents" =>
        \A x \in rows :
            x.state # "OPEN" =>
                /\ x.sequence # 1
                /\ \A r \in rows :
                      (r.key = x.key /\ r.sequence + 1 = x.sequence) =>
                          r.state # "RESOLVED" /\ r.state # x.state

\* What a queue with a scheduled flush holds is written, unless an error is
\* kept, or cleared before the next record.
QueueDrains ==
    (queue # <<>> /\ scheduledFlushActive)
        ~> (queue = <<>> \/ lastError \/ cleared)

------------------------------------------------------------------------------
(* Refinement: both services are durable logs.                             *)

AsEntry(r) == [hash |-> Hash(r), prev |-> r.previousHash]

Numbered(t, k, n) == {r \in t : r.key = k /\ r.sequence = n}

\* The records of t under one key, at the positions their numbers say.
ChainOf(t, k) ==
    [n \in {m \in 1 .. MaxSequence : Numbered(t, k, m) # {}} |->
        AsEntry(CHOOSE r \in Numbered(t, k, n) : TRUE)]

Abstract == INSTANCE DurableLog WITH
    Roots   <- {NoHash, EmptyHash},
    log     <- [k \in Keys |-> ChainOf(rows \union Range(queue), k)],
    durable <- [k \in Keys |-> {r.sequence : r \in RowsOf(rows, k)}]

\* With an idFactory, batches, retries of writes that may have been applied,
\* concurrent flushes and restarts leave an unbroken chain per run and
\* incident, from which a restart loses at most the end.  (Abstract!Spec,
\* for the services that have one.)
ImplementsDurableLog ==
    /\ hasIdFactory => Abstract!Init
    /\ [][hasIdFactory => Abstract!Next]_(Abstract!vars)

==============================================================================
