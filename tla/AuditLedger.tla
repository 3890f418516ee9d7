----------------------------- MODULE AuditLedger -----------------------------
(***************************************************************************)
(* The audit trail of tool executions: concurrent GovernedToolGateway      *)
(* calls that share one PrismaActionAuditLedger, which numbers the events  *)
(* of an attempt in memory and appends them to the PrismaEventLedger.      *)
(*                                                                         *)
(* A step of JavaScript ends at an await.  A statement takes effect in the *)
(* database at one moment and its promise settles at a later one, so a     *)
(* read and an append are two steps each: the database's and the code's.   *)
(***************************************************************************)
EXTENDS Naturals, FiniteSetsExt

CONSTANTS
    Calls,      \* gateway calls, named by their actionId
    Unread,     \* revision is null
    MaxLives,   \* bound: process starts
    MaxFailures \* bound: failures of the database

ASSUME UnreadAssumption == Unread \notin Nat

Null == 0       \* no revision allotted; revisions start at 1

VARIABLES
    events,     \* ProjectEvents of the attempt: set of [revision, type, call]
    outbox,     \* their OutboxEvents
    revision,   \* PrismaActionAuditLedger.revision
    entries,    \* memoryEntries: what is known of each call
    pc,         \* where each call is
    allotted,   \* the revision the call is about to use
    found,      \* what its getEvents returned
    result,     \* the tool's result
    answer,     \* what the gateway returned
    life, failures,
    overlap     \* history: two calls have read the ledger for this instance

memory == <<revision, entries, pc, allotted, found, result, answer>>
vars == <<events, outbox, memory, life, failures, overlap>>

EventTypes == {"HOST_ACTION_PROPOSED", "HOST_ACTION_POLICY_DECIDED",
               "HOST_ACTION_EXECUTION_COMPLETED",
               "HOST_ACTION_RECONCILIATION_REQUIRED"}
\* SUCCEEDED stands for every status that is recorded as a completion.
ToolResults == {"SUCCEEDED", "UNKNOWN"}

On(c, type) == \E e \in events : e.call = c /\ e.type = type

Init ==
    /\ events = {} /\ outbox = {}
    /\ revision = Unread /\ entries = [c \in Calls |-> "none"]
    /\ pc = [c \in Calls |-> "new"]
    /\ allotted = [c \in Calls |-> Null] /\ found = [c \in Calls |-> Null]
    /\ result = [c \in Calls |-> "none"] /\ answer = [c \in Calls |-> "none"]
    /\ life = 1 /\ failures = 0 /\ overlap = FALSE

------------------------------------------------------------------------------
(* getNextRevision                                                         *)

\* The rest of getNextRevision, with the revision it starts from.
Allot(c, from, next) ==
    /\ revision' = from + 1
    /\ allotted' = [allotted EXCEPT ![c] = from + 1]
    /\ pc' = [pc EXCEPT ![c] = next]

\* recordProposed begins: with a revision in memory the first append is
\* under way at once, otherwise the ledger is read.
RecordProposed(c) ==
    /\ pc[c] = "new"
    /\ \/ /\ revision # Unread
          /\ Allot(c, revision, "proposing")
          /\ UNCHANGED overlap
       \/ /\ revision = Unread
          /\ pc' = [pc EXCEPT ![c] = "reading"]
          /\ overlap' = (overlap \/ \E d \in Calls : pc[d] \in {"reading", "read"})
          /\ UNCHANGED <<revision, allotted>>
    /\ UNCHANGED <<events, outbox, entries, found, result, answer, life,
                   failures>>

\* A mutant: the events are counted.
Latest_Count == Cardinality(events)

\* The highest revision on the ledger; a failed append leaves a gap below.
Latest == Max({e.revision : e \in events} \union {0})

\* getEvents, in the database.
GetEvents(c) ==
    /\ pc[c] = "reading"
    /\ found' = [found EXCEPT ![c] = Latest]
    /\ pc' = [pc EXCEPT ![c] = "read"]
    /\ UNCHANGED <<events, outbox, revision, entries, allotted, result, answer,
                   life, failures, overlap>>

\* getEvents has answered: whatever another call has allotted since is
\* overwritten.
UseEvents(c) ==
    /\ pc[c] = "read"
    /\ Allot(c, found[c], "proposing")
    /\ found' = [found EXCEPT ![c] = Null]
    /\ UNCHANGED <<events, outbox, entries, result, answer, life,
                   failures, overlap>>

------------------------------------------------------------------------------
(* PrismaEventLedger.append                                                *)

TypeOf(c) ==
    CASE pc[c] = "proposing" -> "HOST_ACTION_PROPOSED"
      [] pc[c] = "deciding"  -> "HOST_ACTION_POLICY_DECIDED"
      [] pc[c] = "recording" ->
            IF result[c] = "UNKNOWN" THEN "HOST_ACTION_RECONCILIATION_REQUIRED"
                                     ELSE "HOST_ACTION_EXECUTION_COMPLETED"

Appending(c) == pc[c] \in {"proposing", "deciding", "recording"}
Taken(c) == \E e \in events : e.revision = allotted[c]

\* The event and its outbox entry, in one transaction.
Write(c) ==
    LET e == [revision |-> allotted[c], type |-> TypeOf(c), call |-> c]
    IN  events' = events \union {e} /\ outbox' = outbox \union {e}

After(c, ok) ==
    [pc EXCEPT ![c] = CASE @ = "proposing" -> IF ok THEN "proposed" ELSE "refused"
                        [] @ = "deciding"  -> IF ok THEN "decided" ELSE "refused"
                        [] @ = "recording" -> IF ok THEN "recorded" ELSE "unrecorded"]

Append(c) ==
    /\ Appending(c) /\ ~Taken(c)
    /\ Write(c)
    /\ pc' = After(c, TRUE)
    /\ UNCHANGED <<revision, entries, allotted, found, result, answer, life,
                   failures, overlap>>

\* The unique index on aggregateId and aggregateRevision refuses the event.
AppendCollides(c) ==
    /\ Appending(c) /\ Taken(c)
    /\ pc' = After(c, FALSE)
    /\ UNCHANGED <<events, outbox, revision, entries, allotted, found, result,
                   answer, life,
                   failures, overlap>>

\* The database fails, before the commit or after it.
AppendFails(c, lands) ==
    /\ Appending(c)
    /\ failures < MaxFailures /\ failures' = failures + 1
    /\ \/ lands /\ ~Taken(c) /\ Write(c)
       \/ ~lands /\ UNCHANGED <<events, outbox>>
    /\ pc' = After(c, FALSE)
    /\ UNCHANGED <<revision, entries, allotted, found, result, answer, life, overlap>>

------------------------------------------------------------------------------
(* The gateway call                                                        *)

\* The proposal is on the ledger: the decision gets the next revision.
RecordDecided(c) ==
    /\ pc[c] = "proposed"
    /\ Allot(c, revision, "deciding")
    /\ UNCHANGED <<events, outbox, entries, found, result, answer, life,
                   failures, overlap>>

Returns(c, status) ==
    /\ answer' = [answer EXCEPT ![c] = status]
    /\ pc' = [pc EXCEPT ![c] = "done"]
    /\ allotted' = [allotted EXCEPT ![c] = Null]

\* recordProposed has returned: a denied call ends, another one runs.
AfterRecordProposed(c, allow) ==
    /\ pc[c] = "decided"
    /\ entries' = [entries EXCEPT ![c] = IF allow THEN "proposed" ELSE "NOT_EXECUTED"]
    /\ \/ /\ allow
          /\ pc' = [pc EXCEPT ![c] = "running"]
          /\ UNCHANGED <<allotted, answer>>
       \/ ~allow /\ Returns(c, "DENIED")
    /\ UNCHANGED <<events, outbox, revision, found, result, life, failures,
                   overlap>>

\* recordProposed has thrown: FAILED, and the tool does not run.
PreExecutionAuditFailed(c) ==
    /\ pc[c] = "refused"
    /\ Returns(c, "FAILED")
    /\ UNCHANGED <<events, outbox, revision, entries, found, result, life, failures,
                   overlap>>

\* The tool answers and recordExecuted gets its revision.
ToolAnswers(c, r) ==
    /\ pc[c] = "running"
    /\ result' = [result EXCEPT ![c] = r]
    /\ Allot(c, revision, "recording")
    /\ UNCHANGED <<events, outbox, entries, found, answer, life,
                   failures, overlap>>

\* executeAuthorized throws: so does the call, and nothing is recorded.
ToolThrows(c) ==
    /\ pc[c] = "running"
    /\ Returns(c, "THROWN")
    /\ UNCHANGED <<events, outbox, revision, entries, found, result, life, failures,
                   overlap>>

AfterRecordExecuted(c) ==
    /\ pc[c] = "recorded"
    /\ entries' = [entries EXCEPT ![c] = result[c]]
    /\ Returns(c, result[c])
    /\ UNCHANGED <<events, outbox, revision, found, result, life, failures,
                   overlap>>

\* A mutant: the tool's result is returned all the same.
AuditPersistenceFailed_Returns(c) ==
    /\ pc[c] = "unrecorded"
    /\ Returns(c, result[c])
    /\ UNCHANGED <<events, outbox, revision, entries, found, result, life, failures,
                   overlap>>

\* recordExecuted has thrown: the result is UNKNOWN and must be reconciled.
AuditPersistenceFailed(c) ==
    /\ pc[c] = "unrecorded"
    /\ Returns(c, "UNKNOWN")
    /\ UNCHANGED <<events, outbox, revision, entries, found, result, life, failures,
                   overlap>>

\* The process dies; the attempt is continued with a new ledger instance.
Restart ==
    /\ life < MaxLives
    /\ life' = life + 1
    /\ revision' = Unread /\ overlap' = FALSE
    /\ entries' = [c \in Calls |-> "none"]
    /\ pc' = [c \in Calls |-> IF pc[c] \in {"new", "done"} THEN pc[c] ELSE "lost"]
    /\ allotted' = [c \in Calls |-> Null] /\ found' = [c \in Calls |-> Null]
    /\ UNCHANGED <<events, outbox, result, answer, failures>>

Gateway(c) ==
    \/ RecordProposed(c) \/ GetEvents(c) \/ UseEvents(c)
    \/ Append(c) \/ AppendCollides(c)
    \/ \E lands \in BOOLEAN : AppendFails(c, lands)
    \/ RecordDecided(c)
    \/ \E allow \in BOOLEAN : AfterRecordProposed(c, allow)
    \/ PreExecutionAuditFailed(c)
    \/ \E r \in ToolResults : ToolAnswers(c, r)
    \/ ToolThrows(c)
    \/ AfterRecordExecuted(c) \/ AuditPersistenceFailed(c)

Next == Restart \/ \E c \in Calls : Gateway(c)

Spec == Init /\ [][Next]_vars

------------------------------------------------------------------------------
\* What the gateway does and says is on the ledger, although concurrent calls
\* take each other's revisions, appends fail and processes die: a tool runs
\* only after its proposal and the decision, and its success is reported only
\* with its completion.
ReportedIsRecorded ==
    \A c \in Calls :
        /\ (pc[c] = "running" \/ result[c] # "none") =>
              /\ On(c, "HOST_ACTION_PROPOSED")
              /\ On(c, "HOST_ACTION_POLICY_DECIDED")
        /\ answer[c] = "SUCCEEDED" =>
              On(c, "HOST_ACTION_EXECUTION_COMPLETED")
        /\ entries[c] \in ToolResults => answer[c] = entries[c]

\* The read of the ledger is not atomic with the use of what it returned.
\* Calls take each other's revisions only when two of them have read the
\* ledger for the same instance: otherwise memory is never behind the ledger,
\* across gaps that failed appends leave and across restarts.
CollisionNeedsOverlap ==
    ~overlap =>
        /\ \A c \in Calls : Appending(c) => ~Taken(c)
        /\ revision # Unread => revision >= Latest

TypeOK ==
    /\ \A e \in events : e.type \in EventTypes /\ e.call \in Calls
    /\ outbox = events
    /\ revision = Unread \/ revision \in Nat
    /\ entries \in [Calls -> ToolResults \union {"none", "proposed", "NOT_EXECUTED"}]
    /\ allotted \in [Calls -> Nat] /\ found \in [Calls -> Nat]
    /\ result \in [Calls -> ToolResults \union {"none"}]
    /\ answer \in [Calls -> ToolResults \union {"none", "DENIED", "FAILED", "THROWN"}]

==============================================================================
