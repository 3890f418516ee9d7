--------------------------- MODULE WorkExecution ----------------------------
(* How a work item is executed: the worker hosts (apps/worker/src/worker.ts) *)
(* that poll for READY items and drive each through MinimalWorkflowEngine,   *)
(* the ResumeCoordinator that picks up a provider run after a restart, the   *)
(* EvidenceVerificationService that decides about the result, and the owner. *)
(* They share the store alone: every store call is a transaction and a step  *)
(* of its own (AtomicWorkStore; WorkStore shows that this is what the real   *)
(* transactions amount to), and between two of its steps a process may be    *)
(* overtaken by any other or die.                                            *)
EXTENDS AtomicWorkStore

CONSTANTS
    Hosts,          \* worker processes
    Resumers,       \* processes that call ResumeCoordinator.resume
    Verifiers,      \* callers of recordVerificationAndResolve
    PollBatchSize,  \* POLL_BATCH_SIZE
    MaxFaults,      \* bound: how many crashes and failing store calls happen
    MaxVerdicts     \* bound: no verification begins once so many are stored

ASSUME ExecutionBounds == PollBatchSize \in Nat \ {0} /\ MaxFaults \in Nat /\ MaxVerdicts \in Nat

VARIABLES
    run,        \* the provider's run for each attempt, and whether its
                \* result holds evidence
    evidence,   \* attempts whose evidence records are stored
    verdicts,   \* stored verification records
    proc,       \* where each host and each resumer is, and what it remembers
    batch,      \* items each host has polled and not yet processed
    check,      \* the verification each verifier is carrying out
    faults      \* crashes and failures so far

vars == <<items, attempts, run, evidence, verdicts, proc, batch, check, faults>>

Writers == Hosts \cup Resumers

RunStatuses == {"NONE", "WAITING_FOR_INPUT", "COMPLETED", "FAILED",
                "INTERRUPTED", "UNKNOWN"}

\* pc names the next call. revision is the work item revision the process holds;
\* toAttempt and toItem are what it is about to write; keep says that the result
\* of the run is there to be persisted.
Quiet == [pc |-> "idle", item |-> None, revision |-> 0, attempt |-> None,
          toAttempt |-> "FAILED", toItem |-> "RECOVERY_REQUIRED", keep |-> FALSE]

EnginePCs == {"claim", "starting", "running", "itemRunning", "dispatch", "bind",
              "collect", "settleAttempt", "settleItem", "persist"}

Process == [pc : {"idle", "batch", "resume"} \cup EnginePCs,
            item : Items \cup {None}, revision : Nat,
            attempt : Attempts \cup {None}, toAttempt : AttemptStates,
            toItem : ItemStates, keep : BOOLEAN]

VerificationStatuses == {"PASS", "FAIL", "INCONCLUSIVE"}

\* A stored verification. Its attemptId is optional, written as the caller gives
\* it and read by nothing, so it is left out. seen is history, kept for the
\* properties: the newest attempt of the item when the caller read the item.
Verdict == [item : Items, seen : Attempts, status : VerificationStatuses,
            evidence : SUBSET Attempts]
NoCheck == [pc |-> "idle"]
Check   == {NoCheck} \cup [pc : {"save", "resolve"}, revision : Nat, verdict : Verdict]

\* Every table and every process keeps the shape the code gives it.
TypeOK ==
    /\ StoreTypeOK
    /\ run \in [Attempts -> [status : RunStatuses, evidence : BOOLEAN]]
    /\ evidence \subseteq Attempts
    /\ verdicts \subseteq Verdict
    /\ proc \in [Writers -> Process]
    /\ batch \in [Hosts -> SUBSET [item : Items, revision : Nat]]
    /\ check \in [Verifiers -> Check]
    /\ faults \in 0..MaxFaults

Init ==
    /\ StoreInit
    /\ run = [a \in Attempts |-> [status |-> "NONE", evidence |-> FALSE]]
    /\ evidence = {} /\ verdicts = {}
    /\ proc = [w \in Writers |-> Quiet]
    /\ batch = [h \in Hosts |-> {}]
    /\ check = [v \in Verifiers |-> NoCheck]
    /\ faults = 0

\* The process goes on with another step of what it is doing.
Goto(w, pc) == proc' = [proc EXCEPT ![w].pc = pc]

\* execute or resume has returned, or thrown into its caller's catch clause: a
\* host goes on with the next item of its batch, then polls again.
Return(w) ==
    proc' = [proc EXCEPT ![w] =
        IF w \in Hosts /\ batch[w] # {} THEN [Quiet EXCEPT !.pc = "batch"] ELSE Quiet]

\* What is left alone by a step that only talks to the store or the adapter.
records == <<evidence, verdicts, batch, check>>
-----------------------------------------------------------------------------
(* The owner.                                                                *)
Create(i) ==
    /\ CreateWorkItem(i)
    /\ UNCHANGED <<run, proc, records, faults>>

\* POST /api/work-items/:id/start. The handler's read and its conditional UPDATE
\* are one step: the revision it read is the one it updates.
Start(i) ==
    /\ items[i].state = "DRAFT"
    /\ TransitionWorkItem(i, items[i].revision, "READY")
    /\ UNCHANGED <<run, proc, records, faults>>

\* An operator puts an item back after repair, recovery or input.
\* Bound: only while another attempt is left.
Requeue(i) ==
    /\ items[i].state \in {"WAITING", "REPAIR_REQUIRED", "RECOVERY_REQUIRED"}
    /\ \E a \in Attempts : ~AttemptExists(a)
    /\ TransitionWorkItem(i, items[i].revision, "READY")
    /\ UNCHANGED <<run, proc, records, faults>>
-----------------------------------------------------------------------------
(* The poll loop of a worker host.                                           *)
Poll_QueuedOnly(h) ==
    LET ready == {i \in Items : items[i].state = "QUEUED" /\ items[i].current = None}
    IN  /\ proc[h].pc = "idle"
        /\ ready # {}
        /\ batch' = [batch EXCEPT ![h] =
              {[item |-> i, revision |-> items[i].revision] : i \in ready}]
        /\ Goto(h, "batch")
        /\ UNCHANGED <<store, run, evidence, verdicts, check, faults>>

Poll(h) ==
    LET ready == {i \in Items : /\ items[i].state \in {"READY", "QUEUED"}
                                /\ items[i].current = None}
    IN  /\ proc[h].pc = "idle"
        /\ ready # {}
        /\ \E chosen \in SUBSET ready :
             /\ Cardinality(chosen) = Min({Cardinality(ready), PollBatchSize})
             /\ batch' = [batch EXCEPT ![h] =
                   {[item |-> i, revision |-> items[i].revision] : i \in chosen}]
        /\ Goto(h, "batch")
        /\ UNCHANGED <<store, run, evidence, verdicts, check, faults>>

\* processItem for the next polled item, with the revision it had at the poll.
ProcessItem(h) ==
    /\ proc[h].pc = "batch"
    /\ \E next \in batch[h] :
         /\ proc' = [proc EXCEPT ![h] = [Quiet EXCEPT !.pc = "claim",
                        !.item = next.item, !.revision = next.revision]]
         /\ batch' = [batch EXCEPT ![h] = @ \ {next}]
    /\ UNCHANGED <<store, run, evidence, verdicts, check, faults>>
-----------------------------------------------------------------------------
(* MinimalWorkflowEngine.execute.                                            *)
Claim(h) ==
    /\ proc[h].pc = "claim"
    /\ \E a \in Attempts :
         /\ StartAttempt(proc[h].item, proc[h].revision, a)
         /\ proc' = [proc EXCEPT ![h].pc = "starting", ![h].attempt = a,
                                 ![h].revision = @ + 1]
    /\ UNCHANGED <<run, records, faults>>

\* startAttempt throws: the worker logs that it skipped the item.
ClaimRefused(h) ==
    /\ proc[h].pc = "claim"
    /\ \/ items[proc[h].item].revision # proc[h].revision
       \/ ~WorkItemMayMove(items[proc[h].item].state, "ASSIGNED")
       \/ ActiveOf(proc[h].item) # {}
    /\ Return(h)
    /\ UNCHANGED <<store, run, records, faults>>

MarkStarting(h) ==
    /\ proc[h].pc = "starting"
    /\ TransitionAttempt(proc[h].attempt, "STARTING")
    /\ Goto(h, "running")
    /\ UNCHANGED <<run, records, faults>>

MarkRunning(h) ==
    /\ proc[h].pc = "running"
    /\ TransitionAttempt(proc[h].attempt, "RUNNING")
    /\ Goto(h, "itemRunning")
    /\ UNCHANGED <<run, records, faults>>

MarkItemRunning(h) ==
    /\ proc[h].pc = "itemRunning"
    /\ TransitionWorkItem(proc[h].item, proc[h].revision, "RUNNING")
    /\ proc' = [proc EXCEPT ![h].pc = "dispatch", ![h].revision = @ + 1]
    /\ UNCHANGED <<run, records, faults>>

\* What adapter.execute may report: MockAgentAdapter, the adapter the worker is
\* wired with, has a scenario for each. (The LLM adapters answer FAILED here: the
\* engine gives them no secretRefs.)
ExecuteReturns == {"COMPLETED", "FAILED", "INTERRUPTED", "WAITING_FOR_INPUT", "UNKNOWN"}

Dispatch(h) ==
    /\ proc[h].pc = "dispatch"
    /\ \E s \in ExecuteReturns :
          run' = [run EXCEPT ![proc[h].attempt] =
                     [status |-> s, evidence |-> s = "COMPLETED"]]
    /\ Goto(h, "bind")
    /\ UNCHANGED <<store, records, faults>>

\* Where the process is going to move its attempt, and then its work item.
Settle(w, outcome, keep) ==
    proc' = [proc EXCEPT ![w].pc = "settleAttempt", ![w].toAttempt = outcome.attempt,
                         ![w].toItem = outcome.item, ![w].keep = keep]

Broken  == [attempt |-> "FAILED", item |-> "RECOVERY_REQUIRED"]
Paused  == [attempt |-> "INTERRUPTED", item |-> "WAITING"]
Unclear == [attempt |-> "UNKNOWN", item |-> "RECOVERY_REQUIRED"]

\* adapter.execute throws: no run was started.
DispatchFails(h) ==
    /\ proc[h].pc = "dispatch"
    /\ Settle(h, Broken, FALSE)
    /\ UNCHANGED <<store, run, records, faults>>

\* The branch on the status of the handle that execute returned. (Until the run
\* is bound nobody else can resume it, so the two waiting states stay.)
AfterBind_Requeues(h, status) ==
    CASE status = "WAITING_FOR_INPUT" ->
            Settle(h, [attempt |-> "INTERRUPTED", item |-> "READY"], FALSE)
      [] status = "UNKNOWN" -> Settle(h, Unclear, FALSE)
      [] OTHER -> Goto(h, "collect")

AfterBind(h, status) ==
    CASE status = "WAITING_FOR_INPUT" -> Settle(h, Paused, FALSE)
      [] status = "UNKNOWN" -> Settle(h, Unclear, FALSE)
      [] OTHER -> Goto(h, "collect")

Bind(h) ==
    /\ proc[h].pc = "bind"
    /\ BindAgentRun(proc[h].attempt)
    /\ AfterBind(h, run[proc[h].attempt].status)
    /\ UNCHANGED <<run, records, faults>>

\* bindAgentRun is inside the same try block as execute.
BindFails(h) ==
    /\ proc[h].pc = "bind"
    /\ faults < MaxFaults
    /\ faults' = faults + 1
    /\ Settle(h, Broken, FALSE)
    /\ UNCHANGED <<store, run, records>>

MapResult_Optimistic(status) ==
    IF status \in {"FAILED", "CANCELLED"}
    THEN [attempt |-> "FAILED", item |-> "REPAIR_REQUIRED"]
    ELSE [attempt |-> IF status = "COMPLETED" THEN "SUCCEEDED" ELSE "INTERRUPTED",
          item |-> "VERIFICATION_REQUIRED"]

MapResult_Swapped(status) ==
    [attempt |-> IF status = "COMPLETED" THEN "VERIFICATION_REQUIRED" ELSE "REPAIR_REQUIRED",
     item |-> IF status = "COMPLETED" THEN "SUCCEEDED" ELSE "FAILED"]

\* mapResult: every status it does not list is taken for a failure.
MapResult(status) ==
    CASE status = "COMPLETED" ->
            [attempt |-> "SUCCEEDED", item |-> "VERIFICATION_REQUIRED"]
      [] status \in {"INTERRUPTED", "CANCELLED"} ->
            [attempt |-> status, item |-> "RECOVERY_REQUIRED"]
      [] OTHER -> [attempt |-> "FAILED", item |-> "REPAIR_REQUIRED"]

\* getStatus, getArtifacts, getEvidence and getUsage of a host or a resumer.
Collect(w) ==
    /\ proc[w].pc = "collect"
    /\ Settle(w, MapResult(run[proc[w].attempt].status), TRUE)
    /\ UNCHANGED <<store, run, records, faults>>

\* One of them throws, as the mock's malformed results do.
CollectFails(w) ==
    /\ proc[w].pc = "collect"
    /\ run[proc[w].attempt].status = "FAILED"
    /\ Settle(w, Broken, FALSE)
    /\ UNCHANGED <<store, run, records, faults>>

\* The attempt is settled in one transaction ...
SettleAttempt(w) ==
    /\ proc[w].pc = "settleAttempt"
    /\ TransitionAttempt(proc[w].attempt, proc[w].toAttempt)
    /\ Goto(w, "settleItem")
    /\ UNCHANGED <<run, records, faults>>

\* ... and the work item in the next, at the revision the process remembers.
SettleItem(w) ==
    /\ proc[w].pc = "settleItem"
    /\ TransitionWorkItem(proc[w].item, proc[w].revision, proc[w].toItem)
    /\ IF proc[w].keep /\ w \in Hosts THEN Goto(w, "persist") ELSE Return(w)
    /\ UNCHANGED <<run, records, faults>>

\* Either call throws: the attempt or the item is no longer where it can make
\* that move, or the revision is another one.
SettleRefused(w) ==
    /\ \/ /\ proc[w].pc = "settleAttempt"
          /\ ~AttemptMayMove(attempts[proc[w].attempt].state, proc[w].toAttempt)
       \/ /\ proc[w].pc = "settleItem"
          /\ \/ items[proc[w].item].revision # proc[w].revision
             \/ ~WorkItemMayMove(items[proc[w].item].state, proc[w].toItem)
    /\ Return(w)
    /\ UNCHANGED <<store, run, records, faults>>

\* The worker stores the evidence of the result after the item has moved on.
Persist(h) ==
    LET a == proc[h].attempt
    IN  /\ proc[h].pc = "persist"
        /\ evidence' = IF run[a].evidence THEN evidence \cup {a} ELSE evidence
        /\ Return(h)
        /\ UNCHANGED <<store, run, verdicts, batch, check, faults>>
-----------------------------------------------------------------------------
(* Failures. A store call that throws ends execute or resume where it stands; *)
(* a dead process also forgets its batch.                                     *)
StoreFails(w) ==
    /\ proc[w].pc \in EnginePCs \ {"dispatch", "bind", "collect"}
    /\ faults < MaxFaults
    /\ faults' = faults + 1
    /\ Return(w)
    /\ UNCHANGED <<store, run, records>>

Crash(h) ==
    /\ proc[h].pc # "idle"
    /\ faults < MaxFaults
    /\ faults' = faults + 1
    /\ proc' = [proc EXCEPT ![h] = Quiet]
    /\ batch' = [batch EXCEPT ![h] = {}]
    /\ UNCHANGED <<store, run, evidence, verdicts, check>>
-----------------------------------------------------------------------------
(* ResumeCoordinator.resume: the caller passes the rows it read, of any       *)
(* attempt that is bound to a provider run.                                   *)
ReadForResume(r) ==
    /\ proc[r].pc = "idle"
    /\ \E a \in Attempts :
         /\ attempts[a].bound
         /\ proc' = [proc EXCEPT ![r] = [Quiet EXCEPT !.pc = "resume",
                        !.item = attempts[a].item, !.attempt = a,
                        !.revision = items[attempts[a].item].revision]]
    /\ UNCHANGED <<store, run, records, faults>>

\* adapter.resume: the mock completes a run that has not ended, without evidence;
\* the AgentAdapter contract lets a provider leave it waiting.
ResumeReturns(status) ==
    IF status \in {"COMPLETED", "FAILED"} THEN {status} ELSE {"COMPLETED", status}

Resume(r) ==
    LET a == proc[r].attempt
    IN  /\ proc[r].pc = "resume"
        /\ \E s \in ResumeReturns(run[a].status) :
             /\ run' = [run EXCEPT ![a].status = s]
             /\ IF s \in {"WAITING_FOR_INPUT", "INTERRUPTED"}
                THEN Settle(r, Paused, FALSE) ELSE Goto(r, "collect")
        /\ UNCHANGED <<store, records, faults>>

\* adapter.resume throws: not supported, or a registry without this run.
ResumeFails(r) ==
    /\ proc[r].pc = "resume"
    /\ Settle(r, Broken, FALSE)
    /\ UNCHANGED <<store, run, records, faults>>
-----------------------------------------------------------------------------
(* EvidenceVerificationService.recordVerificationAndResolve.                  *)
IsNewest(a) == \A b \in AttemptsOf(attempts[a].item) : attempts[b].number <= attempts[a].number
NewestOf(i) == {a \in AttemptsOf(i) : IsNewest(a)}

\* The caller decides about an item it read as VERIFICATION_REQUIRED, naming any
\* evidence (ids are deterministic: it may name what is not stored yet, and what
\* belongs to an earlier attempt or to another item). Only a PASS looks at them.
BeginVerification(v) ==
    /\ check[v].pc = "idle"
    /\ Cardinality(verdicts) < MaxVerdicts
    /\ \E i \in Items, status \in VerificationStatuses, relied \in SUBSET Attempts :
         \E seen \in NewestOf(i) :
           /\ items[i].state = "VERIFICATION_REQUIRED"
           /\ status # "PASS" => relied = {}
           /\ check' = [check EXCEPT ![v] =
                 [pc |-> "save", revision |-> items[i].revision,
                  verdict |-> [item |-> i, seen |-> seen, status |-> status,
                               evidence |-> relied]]]
    /\ UNCHANGED <<store, run, evidence, verdicts, proc, batch, faults>>

SaveVerification(v) ==
    /\ check[v].pc = "save"
    /\ verdicts' = verdicts \cup {check[v].verdict}
    /\ check' = [check EXCEPT ![v].pc = "resolve"]
    /\ UNCHANGED <<store, run, evidence, proc, batch, faults>>

\* assertVerificationCanCompleteWorkItem over listEvidenceForWorkItem.
CanComplete(verdict) ==
    verdict.status = "PASS" =>
        /\ verdict.evidence # {}
        /\ verdict.evidence \subseteq evidence \cap AttemptsOf(verdict.item)

ResolvedState(status) ==
    CASE status = "PASS" -> "COMPLETED"
      [] status = "FAIL" -> "REPAIR_REQUIRED"
      [] OTHER -> "RECOVERY_REQUIRED"

Resolve(v) ==
    /\ check[v].pc = "resolve"
    /\ CanComplete(check[v].verdict)
    /\ TransitionWorkItem(check[v].verdict.item, check[v].revision,
                          ResolvedState(check[v].verdict.status))
    /\ check' = [check EXCEPT ![v] = NoCheck]
    /\ UNCHANGED <<run, evidence, verdicts, proc, batch, faults>>

\* The assertion fails, the item has moved on, or the verifier dies: the saved
\* verification stays.
ResolveFails(v) ==
    /\ check[v].pc = "resolve"
    /\ check' = [check EXCEPT ![v] = NoCheck]
    /\ UNCHANGED <<store, run, evidence, verdicts, proc, batch, faults>>
-----------------------------------------------------------------------------
OwnerStep == \E i \in Items : Create(i) \/ Start(i) \/ Requeue(i)

SettleStep(w) ==
    Collect(w) \/ CollectFails(w) \/ SettleAttempt(w) \/ SettleItem(w) \/ SettleRefused(w)

HostStep(h) ==
    \/ Poll(h) \/ ProcessItem(h) \/ Claim(h) \/ ClaimRefused(h)
    \/ MarkStarting(h) \/ MarkRunning(h) \/ MarkItemRunning(h)
    \/ Dispatch(h) \/ DispatchFails(h) \/ Bind(h) \/ Persist(h) \/ SettleStep(h)

ResumerStep(r) == Resume(r) \/ ResumeFails(r) \/ SettleStep(r)

VerifierStep(v) ==
    BeginVerification(v) \/ SaveVerification(v) \/ Resolve(v) \/ ResolveFails(v)

Faults ==
    \/ \E h \in Hosts : BindFails(h) \/ Crash(h)
    \/ \E w \in Writers : StoreFails(w)

Next ==
    \/ OwnerStep
    \/ \E h \in Hosts : HostStep(h)
    \/ \E r \in Resumers : ReadForResume(r) \/ ResumerStep(r)
    \/ \E v \in Verifiers : VerifierStep(v)
    \/ Faults

Spec == Init /\ [][Next]_vars

\* A host's event loop keeps running and the adapter's calls return; a resumer
\* finishes the call it has begun, and nothing makes anyone begin one.
FairSpec ==
    /\ Spec
    /\ \A h \in Hosts : WF_vars(HostStep(h))
    /\ \A r \in Resumers : WF_vars(ResumerStep(r))
-----------------------------------------------------------------------------
\* An item waits for verification only when its newest attempt succeeded: no
\* race between an engine, a resume and a replacement attempt, and no crash
\* between the two settling transactions, presents other work as done.
VerificationNeedsSuccess ==
    \A a \in Attempts :
        /\ AttemptExists(a)
        /\ IsNewest(a)
        /\ items[attempts[a].item].state \in {"VERIFICATION_REQUIRED", "COMPLETED"}
        => attempts[a].state = "SUCCEEDED"

\* A completed item has a PASS verification that relies on stored evidence of
\* this item (records.ts: "PASS verification must reference at least one
\* EvidenceRecord") and whose caller read the item after its last attempt had
\* begun: a verification is saved before it is checked, and a late one of an
\* earlier round cannot complete what was redone since (expectedRevision).
CompletedIsVerified ==
    \A i \in Items : items[i].state = "COMPLETED" =>
        \E d \in verdicts :
            /\ d.item = i /\ d.status = "PASS"
            /\ d.evidence # {} /\ d.evidence \subseteq evidence \cap AttemptsOf(i)
            /\ IsNewest(d.seen)

\* A process whose attempt has been replaced in the meantime never settles the
\* work item: a late engine or a late resume cannot undo the newer attempt.
LateWriterCannotSettle ==
    [][\A w \in Writers :
         proc[w].pc = "settleItem" /\ proc'[w] # proc[w] /\ items' # items
         => IsNewest(proc[w].attempt)]_vars

\* Without faults every claimed item leaves ASSIGNED and RUNNING again, whatever
\* the adapter answers and whoever resumes the same run meanwhile.
InFlightSettles ==
    \A i \in Items : (items[i].state \in {"ASSIGNED", "RUNNING"}) ~>
                     (items[i].state \notin {"ASSIGNED", "RUNNING"})

\* Every READY item that has no active attempt is picked up by some host.
ReadyIsPickedUp ==
    \A i \in Items : (items[i].state = "READY" /\ items[i].current = None) ~>
                     (items[i].state # "READY")
-----------------------------------------------------------------------------
\* BOOT-010: a restart "does not silently duplicate semantic work": no attempt
\* is started for an item whose newest attempt succeeded, unless a verification
\* of the item as that attempt left it said otherwise.
SucceededWorkIsNotRedone ==
    [][\A a \in Attempts :
         /\ AttemptExists(a) /\ IsNewest(a)
         /\ attempts[a].state = "SUCCEEDED"
         /\ ~IsNewest(a)'
         => \E d \in verdicts : d.seen = a /\ d.status # "PASS"]_vars

=============================================================================
