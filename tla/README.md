# Formal model of constructie-orchestrator

TLA+ modules, TLC configurations and TLAPS proofs for the parts of the
orchestrator whose correctness depends on interleavings, failures and order:
the work store, the execution of work items, the provider adapters, the run
coordinator, the classification and governance of tool calls and their audit,
approvals, the completion decision and the observability queues. `PROJECT.json`
lists components, runs, the source lines behind every definition, findings,
hazards and theorems.

## 1. The system

| Part | State it keeps | Operations | Talks to |
|---|---|---|---|
| Work item / attempt state machines (`packages/domain`) | transition tables | assert functions | used by the store |
| Work store (`packages/persistence/src/work`) | tables `work_items`, `attempts` | create, transition item, start attempt, transition attempt, bind run | PostgreSQL, READ COMMITTED |
| Worker host (`apps/worker`) | polled batch | poll, processItem, persist evidence | engine, evidence store |
| Workflow engine, resume coordinator (`packages/workflow`) | locals of one call | execute, resume | work store, agent adapter |
| Evidence service and store (`packages/evidence`, `packages/persistence/src/evidence`) | evidence, verification records | record verification and resolve, register | work store |
| Run coordinator (`packages/workflow`) | nothing of its own: replays the event ledger | execute, resumeWithAuthority, resumeFromReconciliation | event ledger, agent bridge, reviewer |
| Antigravity bridge (`packages/agents/src/antigravity`) | child processes, cancelled run ids | dispatch, status, result, cancel | child process, IPC, gateway |
| Recovery (`packages/recovery`) | none | reconcile, handleAmbiguousState | run coordinator |
| Owner event processor, policy engine (`packages/policy`) | gate, file scope, grants | apply event, move gate, set scope, revoke; reserve, consume, release, reconcile; evaluate | gateway |
| Governed tool gateway (`packages/tools`) | locals of one call | execute | policy, audit ledger, tool adapters |
| HTTP API (`apps/api`) | sessions; approvals and work items in the database | work items, approvals | work store, database |
| Provider adapters (`packages/agents/src/{codex,anthropic,google}`) | a map of run states, one timer per run | execute, cancel, the four getters | provider client, gateway, engine |
| Action classifier and guards (`packages/policy`) | none | classify, evaluate | policy engine |
| Action audit ledger (`packages/persistence`, used by the gateway) | next revision and entries in memory | append proposal, decision, result | event ledger |
| Project store | `projects` with a revision, events | create, rename, getById | database |
| Reconciliation and completion engines (`packages/reconciliation`, `packages/completion`) | snapshots, decisions | reconcile, evaluate | evidence store, project store |
| Execution logger, incident service (`packages/persistence/src/observability`) | queue, sequences, last hashes, a mutex | log, open and move incidents, flush, initialize | database |

What is hard in it: several workers, resumers and verifiers share nothing but
the database, and every operation reads, checks and writes in separate
statements or separate transactions; a process may die between two of them; the
run coordinator's calls interleave at every `await`, and a restart rebuilds the
state from the ledger; gateway calls decide first and reserve the owner's grant
later, while the owner revokes and other calls spend; a provider run is cancelled
or times out while it waits for the provider, for a retry or for a tool; audit
revisions are numbered in memory across awaits; log records are chained before
they are written, in batches that may fail or be applied without an answer; an
assessment reads four tables one after the other while they change.
`PROJECT.json` lists these hazards by line.

What makes each part correct:

- *Work store*: one active attempt per item, exact `currentAttemptId`, unique
  and increasing attempt numbers, terminal attempts stay terminal, and each
  operation behaves as if it were one step.
- *Execution*: only a successful newest attempt is presented for verification;
  late writers cannot undo newer work; a completed item rests on a PASS with
  stored evidence; claimed items settle and ready items are picked up.
- *Run coordinator*: one driver per run, every start has a cause of its own,
  bounded repairs, closed stays closed, calls end.
- *Provider adapters*: a retry never repeats a tool call, COMPLETED means that
  everything was done and is read whole, an aborted run asks for nothing more,
  every run ends.
- *Approvals*: an approval is used once, in time, for the gate and scope that were
  approved; its end is final and its audit trail tells how it got there.
- *Governance*: one owner approval, one sensitive action; no sensitive action
  without an approval bound to it; a git operation is decided alike however it is
  spelled.
- *Audit*: nothing runs unrecorded, nothing is reported as more than was recorded,
  and collisions of revisions need two overlapping first reads.
- *Completion*: a known failure blocks; a COMPLETE decision stays backed by the
  create-only records it names; the two engines together decide what the
  requirement says.
- *Observability*: per run or incident an unbroken hash chain that loses at most its
  end; no queued record is left behind without an error; stored incident
  histories are legal.

## 2. Modules and how they correspond to the code

`WorkItemStates` holds the two transition tables of `work-item.ts`.

`AtomicWorkStore` is the **abstract specification** of the store: each operation
is one step. Rows are records keyed by id; `ABSENT` stands for a missing row,
`None` for SQL NULL. `bound` says that `agentRunId` is set.

`WorkStore` is the store **as written**. `tx[c]` is what the open transaction of
client `c` has read. `ReadForTransition`/`CommitTransition`, `ReadForStart`/
`CheckNoActiveAttempt`/`CommitStart` and `ReadForAttempt`/`CommitAttempt` are the
statements up to and from the conditional `updateMany`; `Conflict` is the count
of 0 that makes the code throw, `LoseConnection` a rollback. From the conditional
UPDATE to the commit is one step because the UPDATE holds the row lock and
everything after it touches rows only reachable through that row. The unique
indexes are deliberately not guards: the model shows they are never hit.

`WorkExecution` extends `AtomicWorkStore` with the processes: `proc[w]` is the
next call of a worker host or resumer and the locals it needs (the remembered
revision above all), `batch[h]` the polled items, `run[a]` the provider run of an
attempt, `evidence` and `verdicts` the stored records, `check[v]` a verification
under way. One action per store or adapter call of `MinimalWorkflowEngine.execute`
and `ResumeCoordinator.resume`; every catch clause is an action (`DispatchFails`,
`BindFails`, `CollectFails`, `ResumeFails`, `ClaimRefused`, `SettleRefused`).
The adapter is `MockAgentAdapter` with all its scenarios, the adapter the worker
is wired with; LLM adapters answer FAILED here because the engine passes
`secretRefs: []`. Three things are more general than that adapter: `execute` may
answer UNKNOWN, to which `initialStatus` falls back though no value of
`MockAgentScenario` leads there (`mock-agent-adapter.ts:29-35,190`) and which the engine
handles; a resume may leave a run waiting; and a resume may not find the run (a fresh
registry). A verification names any evidence. Its `attemptId` is optional, is stored as
the caller gives it and read by nothing (`service.ts:46,63`), so the model leaves it out;
`seen` is history and says which attempt was the newest when the caller read the item.
`Requeue` stands for whoever puts an item back to READY; the repository does it
only through the store in its tests.

`RunCoordinator` models one workflow run: `log` is its part of the event ledger
(the index is the revision, which is what the unique index enforces), `call[c]`
a concurrent call, `bridge` what the bridge knows of the run id. A child under a
cancelled run id closes as CANCELLED, or FAILED when it could not be spawned; nothing
makes a child close. `StateAfter` and
the `Replayed...` operators are the replay loops. Work packages, attempt ids and
findings are data and left out; the pending (action, gate, authority type) triple
is a model value.

`Governance` models one task: `gate`, `scope`, `grants` of the owner event
processor and `call[c]` for every gateway call. A grant's id is its position;
`Propose` is policy evaluation, `Reserve` reservation and start of the tool,
`Tool...` its answer with the settlement of the grant, `Recorded`/`RecordFails`
the audit of the result: the three places where the code suspends lie between
them. A request carries its classes; one that a guard rejects, or a blanket
`git add`, is `barred`.

`ActionClassifier` (extends `Governance`) says how it gets them:
`BridgeToActionRequest`, one operator per method of the classifier, one per guard,
and `Classified`, which is what `Propose` receives in the instances. A text is the
set of marks that some condition or pattern finds in it, so the patterns
themselves are abstracted to whether they match. What the policy engine compares with
whole arguments ("broad") and what it searches in the command line ("broadly") are
different marks. `GitTool` and `GitCommand` are the two spellings of one git operation,
whose arguments contain no blanks.

`ProviderAdapter` models one run of the Codex, Anthropic or Gemini adapter; runs
share nothing. The variables are the run state record, the locals of
`performExecution` (`pc`, `attempt`, `content`, `runStatus`, `notes`), the timer and
the engine's four reads. A step is the code between two `await`s: `ProviderAnswers`,
`ProviderRefuses` (429 and 5xx), `ProviderFails`, `GatewayReturns`, `GatewayThrows`,
`NextAttempt`. The three classes differ in the provider call: Gemini does not hand
the abort signal to its client, so it has no `ProviderAborts`. `lastError` is the name
of the last error: one called AbortError returns silently, whoever caused it. `Accepted`
and `Malformed` are the strict parser. Errors of the gateway are assumed to carry no HTTP
status; the catch clause would retry one that does (`codex-adapter.ts:274-307`). A fenced
response with an invalid proposal has no proposals in the model, as in the parser, which
falls back to an empty list: such a run completes without a tool call.

`AuditLedger` composes concurrent gateway calls with `PrismaActionAuditLedger` and
`PrismaEventLedger`. A statement takes effect at one moment and its promise settles
at a later one, so reads and appends are two steps each. An append adds the event
and its outbox row or, if the revision is taken, fails as the unique index makes it.

`DurableLog` is the **abstract specification** of a log: per key the accepted chain
`log` and the positions of it that are `durable`; `Accept` continues the chain,
`Persist` makes more of it durable without gaps, `Lose` is a crash that keeps at least
what is durable. `ObservabilityQueue` is the code of both services (`service` says
which, `hasIdFactory` whether its constructor was given one): the synchronous
`log`/`chain` step, `scheduleFlush`, the mutex with its
waiting list, `flushInternal` with batches and retries, writes that fail or are
applied without an answer, `clearLastError`, and a restart with `initialize`. The
refinement mapping (`Abstract == INSTANCE DurableLog WITH ...`) puts
every record that is stored or queued at the position its sequence number says, and
takes the stored numbers as `durable`; batching, retries, locking and duplicates
skipped by the database stutter. A row is recognised by its id alone, as the primary key
does. An id from the factory is unique; a default one is a moment and a sequence number,
so that records of two keys may share it (`Times` holds the moments) and the later one
is skipped. The refinement is therefore claimed for services with an `idFactory`; both
kinds are in the run, and the other properties hold for both. `openIncident` appends
whatever the state is, so an incident id may be opened again.

`Completion` models one assessment (`GetById`, `ReadWorkItem`, `List...`, then
`Reconcile`, optionally a second reading, and `Evaluate` with its saved decision)
among concurrent renames, item moves and saved records. Rows are `[record, sound]`:
`sound` says whether the stored digest matches. The project is created by `POST
/api/projects`, which refuses an empty name and numbers its event 1; `ProjectStore.create`
itself checks neither. A rename may empty the name, and an item may have no objective
(`hasObjective`): the route refuses that too, the store does not. `ReconciliationState` is
`ReconciliationEngineV0.reconcile`, `CompletionState` `CompletionEngineV0.evaluate`;
`EnginesAgree` compares both with `Complete`, a definition that says once what the
two spread over their filters and early returns.

`Approvals` models the approvals of the API. `request[q]` is an HTTP request in
flight: `Find` is the read, `Judge` everything decided in memory from it and from
`new Date()`, then one conditional UPDATE with what follows it up to the commit
(`Expire`, `Decide`, `Consume`) or its count of 0 (`Conflict`). `verify` has two
separate writes, `AttachVerification` and `RecordVerification`; `Fail` is a 500
between any two statements. Scopes keep what `isScopeEqual` tells apart: the kind,
the paths as a list, and the other fields. `Tick` is one clock for all requests.

## 3. Runs

| Run | Instance | What it shows |
|---|---|---|
| `work_store` | 1 item, 2 attempts, 2 clients, revisions to 6 | store invariants and refinement of `AtomicWorkStore` |
| `work_execution` | 1 item, 2 attempts, 1 host, 1 resumer, 2 verifiers, 1 fault, revisions to 11 | what reaches verification; completion needs a PASS of this round with stored evidence |
| `work_liveness` | 1 item, 2 attempts, 2 hosts, 1 resumer, no faults, revisions to 11 | late writers are shut out, claimed items settle, ready items are picked up |
| `run_coordinator` | 2 calls, 1 ask, all decisions, 1 repair, ledger bound 9, 1 fault | single driver, causes, bounded failed repairs, finality, termination but for one wait |
| `governance` | 2 calls, 8 requests classified by the model, 3 kinds of grant, 3 grants | single use, backing, every git operation decided alike in the shell |
| `approvals` | 1 approval, 3 requests, 2 gates, 4 scopes, 2 moments | single use for what was approved, timeliness, final ends, audit trail |
| `provider_adapter` | 3 adapters, 10 contents, 3 attempts | tool calls not retried, meaning of COMPLETED, aborts, termination |
| `observability` | both services, 2 keys, 1 caller and the scheduled flush, 3 records, batches of 2, 1 retry, 1 restart, with and without an `idFactory` | refinement of `DurableLog`, nothing forgotten, legal histories, queues drain |
| `completion` | 2 work items, 2 revisions, 1 unsound row | failures block, COMPLETE stays backed, engines against the reference |
| `audit_ledger` | 3 calls, 1 failure, 1 restart | records precede results, when revisions collide |

Runs that end in a counterexample, each against a line of the repository:

- `resumed_success`: `BOOT-010` promises no duplicated semantic work. Resuming
  the UNKNOWN attempt of an item in RECOVERY_REQUIRED makes the attempt SUCCEEDED
  and then throws on the item; put back to READY, the item is executed again.
- `unsafe_outcome` (one call at a time, one fault): the unsafe outcome and `RUN_BLOCKED`
  are two appends. The second fails, the run still replays to RECONCILING, and a second
  reconciliation with a safe outcome redispatches it. With two concurrent
  reconciliations no failure is needed: one may append between the other's two appends.

**Bounds.** Two actors per role and two attempts are what the races need: one
that reads and one that overtakes it, one attempt and its replacement. Revision
bounds leave room for two complete attempts (`MaxRevision = 11`; 6 in the store model,
where transitions are unconstrained), so that a verification of the first round can come
after the second. `MaxVerdicts = 1` counts stored verifications when one begins: the two
verifiers can still both be under way. `MaxEvents` stops new rounds, not rounds under way,
so a ledger can hold a failed round, a wait, a resume and a second round. One fault
suffices for every window between two adjacent steps. `MaxGrants = 3` allows two
grants of one kind next to another. Three requests are what an approval needs for a
decision and two that race for it; `MaxTime = 1` puts every step before or after an
expiry, or without one. `MaxRetries = 3` of the provider is the code's own number.
Three log records fill one batch and begin another, and one restart
(`MaxLives = 2`) puts old and new records into one chain. Three gateway calls let
two collide while a third is past its first read. Two revisions of project and item
make a snapshot stale once, which is all the engines compare.
Deadlock checking is off because bounded systems stop: attempts, events and calls
run out.

**Symmetry** is used only in runs without liveness properties, over ids that no
definition tells apart.

**Fairness.** `work_liveness`: weak fairness of each host's step (the poll loop
and the `await`s of one event loop) and of a resume already begun; nothing makes
a resume begin. `run_coordinator`: weak fairness of each call; nothing makes a child
process close, the wait policy ends the wait for it. `provider_adapter`: weak fairness of
`performExecution` (clients have a request timeout of their own, the gateway answers, a
backoff timer fires) and of the timer of a time budget; nothing makes a user cancel or
the engine read. `observability`: weak
fairness of the scheduled flush and of every flush under way (the event loop runs,
the database answers or fails); nothing makes a caller flush.

## 4. Proofs

`WorkStoreProofs` (for any sets of items, attempts and clients). The inductive
invariant `WorkStore!Inv` is TypeOK, foreign keys (`RowsLinked`), `currentAttemptId`
= the active attempt, existence of a newest attempt, and `ReadsStillHold`: as long
as the revision a transaction read is current, everything it checked still holds.
The last is the heart of it: every change of lifecycle state and every new attempt
increments the revision, so a successful conditional UPDATE revalidates the
earlier reads. From it follow at most one active attempt, accepted inserts, final
terminal attempts, increasing numbers, and the step simulation behind
`TransactionsAreAtomic` (`Spec => StoreSpec`; the refinement mapping is the
identity on the tables, reads and conflicts stutter).

`ToolCallProofs`, first part (for any calls, requests, offers and scopes). `GrantUsedOnce`
is not inductive by itself: `Governance!Inv` adds that results appear only after
the tool ran, that an ACTIVE grant has no action that may have acted, and that a
call past the policy engine with a consuming class names a grant bound to that
class. Each gateway step touches one call and at most one grant; the lemmas about
that frame carry the case analysis. `GitSpellingsAreEqual` holds in every state: the
two ways through the classifier yield the same classes and files, and differ in what
bars them, in the two cases section 5 describes (`GitClassifiedAlike`).

`RunCoordinatorProofs` (for any calls, reviewers and bounds). None of the properties is
inductive, because a call keeps locals that the ledger may have left behind. `IInv`
divides calls into fresh ones, whose next append the ledger would accept, and stale
ones, about which nothing needs to be known: a fresh call stands where the last event
and the replayed state say (`Stands`), and has counted at least the failed rounds on
the ledger. The ledger accepts one append per revision, so an append makes all other
calls stale (`AppenderIsAlone`). `Waits` keeps the evaluation that a resumption will
answer; `Counted` says that the replayed repair counter misses no failed round.

`WorkExecutionProofs` (for any items, attempts, hosts, resumers and verifiers, crashes
and faults included). The argument is the revision's. What every store operation
leaves true (`Grows`) is what a process may rely on: revisions do not go back, settled
attempts stay settled, and while an item keeps a revision it keeps its state and its
newest attempt. `IInv` adds that only the newest attempt of an item is active
(`ActiveIsNewest`) and what a process or a verification knows at its place
(`ProcessSound`, `CheckSound`): between the two settling transactions the attempt is
settled, and is the newest as long as the remembered revision is current. A verification
knows the same of `seen`, whence a PASS of an earlier round cannot complete the item. Each action
answers for its own process; the others follow from `Grows` (lemma `Step`).

`AuditLedgerProofs` (for any calls, failures and restarts). `Trail` says which events
are on the ledger at each place of a call; they are never taken away.
`CollisionNeedsOverlap` needs `Numbering`: as long as no two calls have read the ledger
for one instance, the revision in memory is ahead of the ledger and of every append
under way, and those are distinct.

`CompletionProofs` (for any records, work items, names and bounds). The tables forget no
record, also when a row is damaged, so what an assessment has read stays in them
(`ReadIsStored`); the snapshot and the decision are functions of the input it still
holds (`Judged`). `EnginesAgree` is then a statement about the operators alone, proved
in both directions (`EnginesAreSound`, `EnginesAreComplete`); it rests on the listing
being scoped to the assessed item and on every verification having one of the three
statuses. It is about one reading; what a second reading between the engines may bring
is `FailureBlocksCompletion`.

`ApprovalsProofs` (for any approvals, requests, gates, scopes and moments). `IInv`
adds to the properties what a request knows: the row it read exists, the status it
saw may be stale but only in one direction (`SeenBefore`), and one that is about to
write has compared gate, scope and time (`WriterChecked`). Rows only move forwards
(`Forward`), so requests that a step leaves alone stay sound, and each action has
to answer only for the request and the row it moves (`StepKeeps`). The single use
follows because a use starts from APPROVED and every earlier use left USED. A second
layer (`StoryInv`) gives the trail for each status: a status and its event are written
in one step, and a verification still to be recorded is one of a use (`AuditsAUse`),
which nothing changes any more.

`ToolCallProofs`, second part (for any response contents and any number of attempts).
`AdapterInv` says what is known at each place of `performExecution`: before a response
nothing was called and nothing completed (`Untouched`), in the tool loop the calls are
a prefix of one response's proposals and one answer behind (`InTheLoop`), and once
COMPLETED was written or seen the results are there and stay (`ResultsAreThere`);
`NotYetAborted` is what makes aborts final for `execute`. All safety properties of
the run follow.

`ObservabilityProofs` (for any runs or incidents, callers of `flush`, batch size,
retries and restarts). The invariant has two layers. `ControlInv` says who drains: the
mutex has the holder its program counter says and waiters only behind a holder
(`MutexSound`), `scheduledFlushActive` says where the scheduled flush is
(`ScheduleSound`), and the batch being written is still the front of the queue
(`BatchSound`), since only the holder removes records and `log` appends at the end.
`NoRecordForgotten` needs all three, and that the `finally` block of a failed scheduled
flush runs before the next macrotask (`MicrotasksDone`): otherwise a caller could empty
the queue and a new record arrive while the flag still promises a flush. `DataInv` is
about what is known under a key, stored or queued: numbers without repetitions
up to the one in memory, every record linked to its predecessor and memory to the last,
the queue in the order of the numbers, the stored ones before all others. A gap in the
numbers is a clash of default ids: a row of another key has the missing number
(`Clash`, with `Blocking` the rows that can do that, none with an `idFactory`). Hence a
write stores the front of a key's unstored records but for clashes (`InsertIsFront`),
whole or in a batch that was applied without an answer and is then repeated. The legal
histories follow for any ids; the whole chains with the clash as the one exception; the
refinement with an `idFactory`. Every step is an append, a
turn of a flush, a restart or quiet (`StepKinds`); the first three are `Accept`,
`Persist` and `Lose` of `DurableLog` (`AppendsAccepts`, `TurnsPersist`,
`RestartLoses`), which gives `QueueIsADurableLog`. A restart keeps the invariant because
what it reads back is the last stored record and the stored ones come first.

Assumptions: `NoneIsNoId`, `MaxRevisionIsNat`, `GovernanceConstants`,
`ApprovalConstants`, `ContentsAssumption`, `MaxRetriesAssumption`,
`CoordinatorConstants`, `ExecutionBounds`, `UnreadAssumption`, `CompletionConstants`,
`QueueConstants`; all are evaluated by TLC in the runs. Bounds appear in guards only: no proof uses more
of them than that they are numbers. The inductive invariants of `RunCoordinator`,
`WorkExecution`, `AuditLedger`, `Completion` and `ObservabilityQueue` were checked by TLC on the instances of
the runs before they were proved.

The proofs also cover properties that no run repeats: accepted inserts, final
terminal attempts and increasing numbers of the store, reservations and reasons for
spending of the grants, that a verified approval was used, the types of
`Completion` and of the queues, and that the stored chains have no gap but a clash of
default ids.

Only model-checked: liveness (`InFlightSettles`, `ReadyIsPickedUp`, `CallsEnd`,
`RunEnds`, `QueueDrains`), which rests on fairness and ENABLED.

## 5. Observations

What the modelling made visible beside the two runs above; where a line of the
repository bears on it, it is quoted:

- A crash between the two settling transactions of an attempt and its item leaves
  the item RUNNING with a terminal attempt; every later resume is refused.
- The replay ignores the counter in `EVALUATION_NEEDS_EVIDENCE`, so each wait for the
  owner opens a new repair budget. Repairs after *failures* are bounded
  (`FailedRepairsBounded`).
- Releasing a grant does not look at its status: one that was revoked while its
  action ran becomes ACTIVE again. `policy/src/types.ts:147-151` describes the operation as
  "Transitions RESERVED → ACTIVE.", which leaves a revoked grant out. `GrantUsedOnce` holds
  all the same.
- A retry under a run id whose earlier child timed out reads CANCELLED from the bridge at
  once and then awaits its new child without limit or kill (`run-coordinator.ts:211`,
  bridge lines 154 and 171): the one wait that `CallsEnd` excepts (`Stranded`).
- A verification stores whatever attempt id its caller gives. What keeps a PASS of an
  earlier round from completing the item is the item's revision alone.
- `WorkPackageSchema.parse` stands outside the `try` of `processItem`
  (`worker.ts:121-132`): an item it rejects makes `poll()` reject and ends the loop of
  `start()`. The model has only items it accepts.
- A provider run's last writer wins: a late answer overwrites CANCELLED, and the
  timer, which nothing clears, overwrites COMPLETED with FAILED. The properties of
  `ProviderAdapter` are those that survive this.
- An error named AbortError returns with the comment "Timeout or cancellation - state
  already set by abort handler" (`codex-adapter.ts:309`, and in both siblings) also when
  the run's own signal was not aborted. Without a time budget the run then stays RUNNING:
  the exception in `RunEnds`.
- `initialize()` leaves `''` as the last hash of an empty log where a fresh map has
  `null` (`prisma-logger.ts:49`). Both are roots of a chain in `DurableLog`; `verifyLogs`
  expects `null` and rejects a first record with `''` (`observability/src/logs.ts:39-44`),
  so "chain" here means the links between records, not that verdict.
- The default ids `log-<ms>-<seq>` and `inc-evt-<ms>-<seq>` do not contain the run or
  incident. Two runs may share one; `skipDuplicates` then leaves the second record out
  although it is taken off the queue as persisted, and its successor points to a hash that
  is not stored.
- Incident ids may be opened again: `openIncident` does not look at the state, so RESOLVED
  is followed by OPEN under one id if the caller's factory repeats itself.
- `clearLastError` does not schedule a flush.
- A record that is INCONCLUSIVE or STALE and saved between reconciling and
  evaluating does not prevent COMPLETE; outcome criteria accept evidence of any scope.
- A slow first `getEvents` sets the shared audit revision backwards; the collision is
  reported as UNKNOWN although the tool succeeded, never the other way round.
- `git add ./path` and `git add -Av x` are allowed as git tool calls, whose arguments are
  compared as a whole, and refused as command lines, which are searched for `git add .` and
  `git add -A`. A git tool call whose first argument is `env` or `printenv` is taken for
  an environment dump and refused; `git add env` as a command line is not. These are the two
  exceptions of `GitIsGitInTheShell`; in both one spelling is always refused.
- `npx prisma` is never recognised; DELETE over the http tool is destructive and over
  `curl` is not.

## 6. Not modelled

Regular expressions of the classifier and guards, provider HTTP, child process IPC,
tool adapters and the web client are I/O or text. The legacy `StaticToolPolicy`
branch of the gateway, output redaction, the time budget of the bridge (the run
coordinator, its caller, never sets one), its IPC server, graceful
shutdown of the worker, artifacts of the evidence store (they follow the same
create-only pattern), sessions, the authority issuer (it brands objects) and the
blueprint runner (stateless) are left out. The autoFlush option of the queues is
assumed to be on, as it is by default. Damage to a row that moves it out of the `where`
clause of a read (another work item, another project) is not covered by `DamageRow`: no
digest is compared for a row that is not read. A failed read in `getNextRevision` of the
audit ledger is not modelled; it throws before anything is numbered. Provider adapters are not wired to the
worker; their composition with the engine is the reader in `ProviderAdapter`.

## 7. Plan

1. The bridge's IPC server per attempt, composed with `RunCoordinator`.
2. Structured git and sandbox adapters behind the gateway.
