--------------------------- MODULE RunCoordinator ---------------------------
(* packages/workflow/src/run-coordinator.ts for one workflow run: execute,   *)
(* which dispatches an agent, has the result reviewed and repairs, goes on,  *)
(* waits or stops; and the two ways to continue a run that waits, which      *)
(* rebuild its state by replaying the event ledger. Every append and every   *)
(* bridge call is an await: several calls for the same run may interleave at *)
(* each of them, and the process may die there.                              *)
(*                                                                           *)
(* The ledger is PrismaEventLedger: an append is refused when the aggregate  *)
(* already has an event of that revision, so an event's revision is its      *)
(* index. The bridge is AntigravityPythonBridge, reduced to what the         *)
(* coordinator sees of it; it names a child process by the workflow run.     *)
EXTENDS Integers, Sequences, FiniteSetsExt

CONSTANTS
    Calls,              \* concurrent calls of execute and the resume methods
    Decisions,          \* what the reviewer may answer for a completed result
    Asks,               \* owner decisions: (action, gate, authority type)
    NoAsk,              \* no owner decision is pending
    MaxRepairAttempts,  \* options.maxRepairAttempts
    MaxEvents,          \* bound: no new round begins on a ledger this long
    MaxFaults           \* bound: crashes and failing calls

AllDecisions == {"PASS", "PASS_WITHOUT_NEXT", "FAIL_REPAIRABLE", "NEEDS_EVIDENCE",
                 "OWNER_DECISION_REQUIRED", "AMBIGUOUS_SIDE_EFFECT", "BLOCKED",
                 "COMPLETE"}

ASSUME CoordinatorConstants ==
    /\ Decisions \subseteq AllDecisions
    /\ NoAsk \notin Asks
    /\ MaxRepairAttempts \in Nat /\ MaxEvents \in Nat /\ MaxFaults \in Nat

VARIABLES
    log,      \* the run's events in the ledger
    call,     \* where each call is, and its local variables
    bridge,   \* the bridge's record of this run
    faults

vars == <<log, call, bridge, faults>>

EventTypes ==
    {"RUN_STARTED", "RUN_REPAIR_STARTED", "RUN_DISPATCHED", "RUN_COMPLETED",
     "EVALUATION_FAILED_REPAIRABLE", "EVALUATION_NEEDS_EVIDENCE",
     "EVALUATION_AMBIGUOUS_SIDE_EFFECT", "EVALUATION_OWNER_DECISION_REQUIRED",
     "EVALUATION_PASSED", "RUN_CLOSED", "RUN_BLOCKED", "RUN_RESUMED",
     "RECONCILIATION_OUTCOME"}

\* The part of the payloads that a replay or a property looks at.
Event == [type : EventTypes, repairs : Nat, ask : Asks \cup {NoAsk}, safe : BOOLEAN]

PlainEvent(type) == [type |-> type, repairs |-> 0, ask |-> NoAsk, safe |-> FALSE]

\* pc names the next await; revision is that of the next event; to is STARTING
\* or REPAIRING; decision is the review's; safe the reconciliation's.
Call == [pc : {"idle", "start", "dispatch", "dispatched", "poll", "completed",
               "evaluate", "resumed", "outcome", "block"},
         revision : Nat, repairs : Nat, ask : Asks \cup {NoAsk},
         to : {"STARTING", "REPAIRING"}, decision : AllDecisions, safe : BOOLEAN]

Idle == [pc |-> "idle", revision |-> 1, repairs |-> 0, ask |-> NoAsk,
         to |-> "STARTING", decision |-> "BLOCKED", safe |-> FALSE]

NoChild == [cancelled |-> FALSE, child |-> "NONE"]

\* Events, calls and the bridge's record keep their shape.
TypeOK ==
    /\ log \in Seq(Event)
    /\ call \in [Calls -> Call]
    /\ bridge \in [cancelled : BOOLEAN,
                   child : {"NONE", "RUNNING", "COMPLETED", "FAILED", "CANCELLED"}]
    /\ faults \in 0..MaxFaults

Init ==
    /\ log = <<>>
    /\ call = [c \in Calls |-> Idle]
    /\ bridge = NoChild
    /\ faults = 0
-----------------------------------------------------------------------------
(* Replaying the ledger.                                                      *)
\* The state that a replay is in after an event; RUN_RESUMED,
\* RECONCILIATION_OUTCOME, EVALUATION_NEEDS_EVIDENCE and EVALUATION_PASSED are
\* not looked at.
StateAfter ==
    [t \in EventTypes \ {"RUN_RESUMED", "RECONCILIATION_OUTCOME",
                         "EVALUATION_NEEDS_EVIDENCE", "EVALUATION_PASSED"} |->
        CASE t \in {"RUN_STARTED", "RUN_REPAIR_STARTED", "RUN_DISPATCHED"} -> "RUNNING"
          [] t = "RUN_COMPLETED" -> "EVALUATING"
          [] t = "EVALUATION_FAILED_REPAIRABLE" -> "REPAIRING"
          [] t = "EVALUATION_AMBIGUOUS_SIDE_EFFECT" -> "RECONCILING"
          [] t = "EVALUATION_OWNER_DECISION_REQUIRED" -> "WAITING_FOR_OWNER"
          [] t = "RUN_CLOSED" -> "CLOSED"
          [] t = "RUN_BLOCKED" -> "BLOCKED"]

\* The last event of one of the given types, if there is one.
Positions(types) == {k \in DOMAIN log : log[k].type \in types}
LastOf(types)    == log[Max(Positions(types))]

ReplayedState ==
    IF Positions(DOMAIN StateAfter) = {} THEN "STARTING"
    ELSE StateAfter[LastOf(DOMAIN StateAfter).type]

AskingEvents == {"RUN_STARTED", "RUN_REPAIR_STARTED", "EVALUATION_OWNER_DECISION_REQUIRED"}

ReplayedAsk ==
    IF Positions(AskingEvents) = {} THEN NoAsk ELSE LastOf(AskingEvents).ask

ReplayedRepairs_Forgotten == 0

ReplayedRepairs ==
    IF Positions({"EVALUATION_FAILED_REPAIRABLE"}) = {} THEN 0
    ELSE LastOf({"EVALUATION_FAILED_REPAIRABLE"}).repairs
-----------------------------------------------------------------------------
Emit_Anywhere(c, event) == log' = Append(log, event)

Emit_DecisionAsType(c, event) ==
    /\ call[c].revision = Len(log) + 1
    /\ log' = Append(log, [event EXCEPT !.type = call[c].decision])

\* ledger.append at the revision the call has reached.
Emit(c, event) ==
    /\ call[c].revision = Len(log) + 1
    /\ log' = Append(log, event)

\* The call goes on after an append, at the next revision.
Goto(c, pc) == call' = [call EXCEPT ![c].pc = pc, ![c].revision = @ + 1]
Return(c)   == call' = [call EXCEPT ![c] = Idle]

AppendRefused_Retried(c) ==
    /\ call[c].pc \notin {"idle", "dispatch", "poll"}
    /\ call[c].revision <= Len(log)
    /\ UNCHANGED vars

\* The unique index refuses the append: another call has written that revision.
AppendRefused(c) ==
    /\ call[c].pc \notin {"idle", "dispatch", "poll"}
    /\ call[c].revision <= Len(log)
    /\ Return(c)
    /\ UNCHANGED <<log, bridge, faults>>
-----------------------------------------------------------------------------
(* execute.                                                                   *)
BeginExecute(c) ==
    /\ call[c].pc = "idle"
    /\ Len(log) < MaxEvents
    /\ call' = [call EXCEPT ![c].pc = "start"]
    /\ UNCHANGED <<log, bridge, faults>>

Start(c) ==
    /\ call[c].pc = "start"
    /\ Emit(c, [PlainEvent(IF call[c].to = "STARTING" THEN "RUN_STARTED"
                           ELSE "RUN_REPAIR_STARTED") EXCEPT !.ask = call[c].ask])
    /\ Goto(c, "dispatch")
    /\ UNCHANGED <<bridge, faults>>

\* bridge.dispatch: a new child under the same run id. What the bridge has noted
\* about cancelling that run id stays.
Dispatch(c) ==
    /\ call[c].pc = "dispatch"
    /\ bridge' = [bridge EXCEPT !.child = "RUNNING"]
    /\ call' = [call EXCEPT ![c].pc = "dispatched"]
    /\ UNCHANGED <<log, faults>>

Dispatched(c) ==
    /\ call[c].pc = "dispatched"
    /\ Emit(c, PlainEvent("RUN_DISPATCHED"))
    /\ Goto(c, "poll")
    /\ UNCHANGED <<bridge, faults>>

\* The child process closes and reports its own status (INTERRUPTED counts as
\* CANCELLED, malformed output as FAILED). Under a run id that was cancelled it
\* reports CANCELLED, or FAILED when it could not be spawned.
ChildCloses ==
    /\ bridge.child = "RUNNING"
    /\ \E status \in {"COMPLETED", "FAILED", "CANCELLED"} :
          /\ bridge.cancelled => status # "COMPLETED"
          /\ bridge' = [bridge EXCEPT !.child = status]
    /\ UNCHANGED <<log, call, faults>>

Reviewed(c, decision) ==
    call' = [call EXCEPT ![c].pc = "completed", ![c].decision = decision]

\* The child has closed: getStatus is terminal and getResult answers. A reviewer
\* that throws counts as ambiguous. Bound: PASS starts a new round only on a
\* short ledger.
TakeResult(c) ==
    /\ call[c].pc = "poll"
    /\ bridge.child \in {"COMPLETED", "FAILED", "CANCELLED"}
    /\ CASE bridge.child = "CANCELLED" -> Reviewed(c, "AMBIGUOUS_SIDE_EFFECT")
         [] bridge.child = "FAILED" -> Reviewed(c, "FAIL_REPAIRABLE")
         [] OTHER -> \E decision \in Decisions \cup {"AMBIGUOUS_SIDE_EFFECT"} :
                        /\ decision = "PASS" => Len(log) < MaxEvents
                        /\ Reviewed(c, decision)
    /\ UNCHANGED <<log, bridge, faults>>

\* The wait policy runs out: the run is cancelled and taken for ambiguous. With
\* a cancelled run id getStatus is CANCELLED at once and getResult waits for the
\* child instead, with no limit.
Timeout(c) ==
    /\ call[c].pc = "poll"
    /\ bridge.child = "RUNNING"
    /\ ~bridge.cancelled
    /\ bridge' = [bridge EXCEPT !.cancelled = TRUE]
    /\ Reviewed(c, "AMBIGUOUS_SIDE_EFFECT")
    /\ UNCHANGED <<log, faults>>

Completed(c) ==
    /\ call[c].pc = "completed"
    /\ Emit(c, PlainEvent("RUN_COMPLETED"))
    /\ Goto(c, "evaluate")
    /\ UNCHANGED <<bridge, faults>>

RepairEvent ==
    [d \in {"FAIL_REPAIRABLE", "NEEDS_EVIDENCE"} |->
        IF d = "FAIL_REPAIRABLE" THEN "EVALUATION_FAILED_REPAIRABLE"
        ELSE "EVALUATION_NEEDS_EVIDENCE"]

Repair(c) ==
    /\ call[c].pc = "evaluate"
    /\ call[c].decision \in DOMAIN RepairEvent
    /\ call[c].repairs < MaxRepairAttempts
    /\ Emit(c, [PlainEvent(RepairEvent[call[c].decision])
                  EXCEPT !.repairs = call[c].repairs + 1])
    /\ call' = [call EXCEPT ![c].pc = "start", ![c].to = "REPAIRING",
                            ![c].repairs = @ + 1, ![c].revision = @ + 1]
    /\ UNCHANGED <<bridge, faults>>

\* EVALUATION_PASSED is written before the missing continuation plan throws.
GoOn(c) ==
    /\ call[c].pc = "evaluate"
    /\ call[c].decision \in {"PASS", "PASS_WITHOUT_NEXT"}
    /\ Emit(c, PlainEvent("EVALUATION_PASSED"))
    /\ IF call[c].decision = "PASS"
       THEN call' = [call EXCEPT ![c].pc = "start", ![c].to = "STARTING",
                                 ![c].revision = @ + 1]
       ELSE Return(c)
    /\ UNCHANGED <<bridge, faults>>

\* The decisions that end execute: waiting, closed or blocked.
Stop(c) ==
    /\ call[c].pc = "evaluate"
    /\ \/ /\ call[c].decision = "AMBIGUOUS_SIDE_EFFECT"
          /\ Emit(c, PlainEvent("EVALUATION_AMBIGUOUS_SIDE_EFFECT"))
       \/ /\ call[c].decision = "OWNER_DECISION_REQUIRED"
          /\ \E ask \in Asks :
                Emit(c, [PlainEvent("EVALUATION_OWNER_DECISION_REQUIRED") EXCEPT !.ask = ask])
       \/ /\ call[c].decision = "COMPLETE"
          /\ Emit(c, PlainEvent("RUN_CLOSED"))
       \/ /\ \/ call[c].decision = "BLOCKED"
             \/ /\ call[c].decision \in DOMAIN RepairEvent
                /\ call[c].repairs >= MaxRepairAttempts
          /\ Emit(c, PlainEvent("RUN_BLOCKED"))
    /\ Return(c)
    /\ UNCHANGED <<bridge, faults>>
-----------------------------------------------------------------------------
(* resumeWithAuthority: the sealed owner event must match what is pending.    *)
BeginResume(c, ask) ==
    /\ call[c].pc = "idle"
    /\ Len(log) < MaxEvents
    /\ ReplayedState = "WAITING_FOR_OWNER"
    /\ ask = ReplayedAsk
    /\ call' = [call EXCEPT ![c] = [Idle EXCEPT !.pc = "resumed",
                   !.revision = Len(log) + 1, !.repairs = ReplayedRepairs, !.ask = ask]]
    /\ UNCHANGED <<log, bridge, faults>>

Resumed(c) ==
    /\ call[c].pc = "resumed"
    /\ Emit(c, PlainEvent("RUN_RESUMED"))
    /\ Goto(c, "start")
    /\ UNCHANGED <<bridge, faults>>

(* resumeFromReconciliation, as ReconciliationProcess and                     *)
(* RuntimeRecoveryTrigger call it.                                            *)
BeginReconcile_AnyState(c, safe) ==
    /\ call[c].pc = "idle"
    /\ Len(log) < MaxEvents
    /\ log # <<>>
    /\ call' = [call EXCEPT ![c] = [Idle EXCEPT !.pc = "outcome", !.to = "REPAIRING",
                   !.revision = Len(log) + 1, !.repairs = ReplayedRepairs, !.safe = safe]]
    /\ UNCHANGED <<log, bridge, faults>>

BeginReconcile(c, safe) ==
    /\ call[c].pc = "idle"
    /\ Len(log) < MaxEvents
    /\ ReplayedState = "RECONCILING"
    /\ call' = [call EXCEPT ![c] = [Idle EXCEPT !.pc = "outcome", !.to = "REPAIRING",
                   !.revision = Len(log) + 1, !.repairs = ReplayedRepairs, !.safe = safe]]
    /\ UNCHANGED <<log, bridge, faults>>

Outcome(c) ==
    /\ call[c].pc = "outcome"
    /\ Emit(c, [PlainEvent("RECONCILIATION_OUTCOME") EXCEPT !.safe = call[c].safe])
    /\ Goto(c, IF call[c].safe THEN "start" ELSE "block")
    /\ UNCHANGED <<bridge, faults>>

Block(c) ==
    /\ call[c].pc = "block"
    /\ Emit(c, PlainEvent("RUN_BLOCKED"))
    /\ Return(c)
    /\ UNCHANGED <<bridge, faults>>
-----------------------------------------------------------------------------
\* A ledger or bridge call throws out of the coordinator.
CallFails(c) ==
    /\ call[c].pc # "idle"
    /\ faults < MaxFaults
    /\ faults' = faults + 1
    /\ Return(c)
    /\ UNCHANGED <<log, bridge>>

\* The orchestrator process dies: calls and the bridge's maps are gone.
Crash ==
    /\ faults < MaxFaults
    /\ faults' = faults + 1
    /\ call' = [c \in Calls |-> Idle]
    /\ bridge' = NoChild
    /\ UNCHANGED log

CallStep(c) ==
    \/ Start(c) \/ Dispatch(c) \/ Dispatched(c) \/ TakeResult(c) \/ Timeout(c)
    \/ Completed(c) \/ Repair(c) \/ GoOn(c) \/ Stop(c)
    \/ Resumed(c) \/ Outcome(c) \/ Block(c) \/ AppendRefused(c)

Begin(c) ==
    \/ BeginExecute(c)
    \/ \E ask \in Asks : BeginResume(c, ask)
    \/ \E safe \in BOOLEAN : BeginReconcile(c, safe)

Next ==
    \/ \E c \in Calls : CallStep(c) \/ Begin(c) \/ CallFails(c)
    \/ ChildCloses
    \/ Crash

\* The event loop runs every call on, its timers included. Nothing is assumed of
\* a child process: it may run for ever.
Spec ==
    /\ Init /\ [][Next]_vars
    /\ \A c \in Calls : WF_vars(CallStep(c))
-----------------------------------------------------------------------------
\* Events that each call appends while it is the run's only driver.
Driving(c) == call[c].pc \in {"dispatch", "dispatched", "poll", "completed", "evaluate"}

\* At most one call drives the run: of several calls that resume or reconcile
\* it, or execute it again, the ledger's revisions let one through.
OneDriver == \A c, d \in Calls : Driving(c) /\ Driving(d) => c = d

Count(types) == Cardinality(Positions(types))

Starts == {"RUN_STARTED", "RUN_REPAIR_STARTED"}

\* What a start after the first one answers.
CauseOf ==
    [t \in Starts |->
        IF t = "RUN_STARTED"
        THEN {"EVALUATION_PASSED", "EVALUATION_OWNER_DECISION_REQUIRED"}
        ELSE {"EVALUATION_FAILED_REPAIRABLE", "EVALUATION_NEEDS_EVIDENCE",
              "EVALUATION_AMBIGUOUS_SIDE_EFFECT"}]

\* Between the events at k and l there is one of the given types.
Between(k, l, types) == \E m \in (k + 1)..(l - 1) : log[m].type \in types

\* Nothing runs without a cause of its own: the run starts once, and between two
\* starts lies the evaluation that the second one answers, so the answer to an
\* owner's wait or to a reconciliation is not used twice, whoever retries it or
\* dies in between. Each start is dispatched at most once.
EveryStartHasItsCause ==
    /\ log # <<>> => log[1].type = "RUN_STARTED"
    /\ \A k, l \in Positions(Starts) : k < l => Between(k, l, CauseOf[log[l].type])
    /\ \A k, l \in Positions({"RUN_DISPATCHED"}) : k < l => Between(k, l, Starts)

\* A closed or blocked run stays that way: no late call writes after it.
FinalStaysFinal ==
    [][(ReplayedState \in {"CLOSED", "BLOCKED"}) => UNCHANGED log]_vars

\* Repairs of failed rounds are bounded over the whole life of the run, across
\* the waits and restarts that rebuild the counter from the ledger.
FailedRepairsBounded ==
    Count({"EVALUATION_FAILED_REPAIRABLE"}) <= MaxRepairAttempts

\* A call that dispatched again under a run id whose earlier child timed out, and
\* whose new child still runs: getStatus answers CANCELLED at once, and getResult
\* awaits the child with no limit and no kill.
Stranded(c) ==
    call[c].pc = "poll" /\ bridge.cancelled /\ bridge.child = "RUNNING"

\* Every call ends, even if no child process ever does: the repair loop cannot go
\* on for ever, no call waits for another one, and the wait policy bounds every
\* wait for a child but the one of a retry under a cancelled run id.
CallsEnd ==
    \A c \in Calls : (call[c].pc # "idle") ~> (call[c].pc = "idle" \/ Stranded(c))
-----------------------------------------------------------------------------
\* run-coordinator.ts: "outcome.safeToRetry === false -> BLOCKED, no redispatch".
UnsafeOutcomeBlocks ==
    \A k \in Positions({"RECONCILIATION_OUTCOME"}), l \in Positions({"RUN_DISPATCHED"}) :
        k < l => log[k].safe
=============================================================================
