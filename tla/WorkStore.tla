----------------------------- MODULE WorkStore ------------------------------
(* packages/persistence/src/work/work-store.ts as it runs: each operation is *)
(* a READ COMMITTED transaction of several statements, and the transactions  *)
(* of different clients (worker hosts, the API, the resume coordinator, the  *)
(* verification service) interleave between statements. A client holds what  *)
(* its transaction has read so far in tx. The conditional UPDATE takes the   *)
(* row's lock and re-evaluates its WHERE clause, and nothing the rest of the *)
(* transaction touches can change before it commits, so the UPDATE and what  *)
(* follows it up to the commit are one step. Clients pass any arguments.     *)
(*                                                                           *)
(* The unique indexes of the attempts table (one active attempt per work     *)
(* item, one row per work item and number) are NOT a guard here: the model   *)
(* shows that the transactions alone never make an insert that they reject.  *)
EXTENDS AtomicWorkStore

CONSTANT Clients

VARIABLE tx        \* what each client's open transaction has read

vars == <<items, attempts, tx>>

Idle == [op |-> "idle"]

\* op "start" has read the work item; "startChecked" has also looked for an
\* active attempt. expected is the revision, from the attempt state, that the
\* UPDATE's WHERE clause will ask for.
Transaction ==
         {Idle}
    \cup [op : {"transition"}, item : Items, expected : Nat, to : ItemStates]
    \cup [op : {"start", "startChecked"}, item : Items, expected : Nat]
    \cup [op : {"attempt"}, attempt : Attempts,
          from : AttemptStates, to : AttemptStates]

\* Every row and every open transaction has the shape the schema gives it.
TypeOK == StoreTypeOK /\ tx \in [Clients -> Transaction]

Init == StoreInit /\ tx = [c \in Clients |-> Idle]
-----------------------------------------------------------------------------
\* transitionWorkItem, up to its UPDATE. A revision that is not the current one
\* and an illegal transition throw, and leave nothing behind.
ReadForTransition(c, i, to) ==
    /\ tx[c].op = "idle"
    /\ ItemExists(i)
    /\ items[i].revision < MaxRevision
    /\ WorkItemMayMove(items[i].state, to)
    /\ tx' = [tx EXCEPT ![c] = [op |-> "transition", item |-> i,
                                expected |-> items[i].revision, to |-> to]]
    /\ UNCHANGED store

CommitTransition_NoRevision(c) ==
    LET t == tx[c] IN
    /\ t.op = "transition"
    /\ items' = [items EXCEPT ![t.item].state = t.to,
                              ![t.item].revision = t.expected + 1]
    /\ tx' = [tx EXCEPT ![c] = Idle]
    /\ UNCHANGED attempts

CommitTransition_NoIncrement(c) ==
    LET t == tx[c] IN
    /\ t.op = "transition"
    /\ items[t.item].revision = t.expected
    /\ items' = [items EXCEPT ![t.item].state = t.to]
    /\ tx' = [tx EXCEPT ![c] = Idle]
    /\ UNCHANGED attempts

CommitTransition_Decrement(c) ==
    LET t == tx[c] IN
    /\ t.op = "transition"
    /\ items[t.item].revision = t.expected
    /\ items' = [items EXCEPT ![t.item].state = t.to, ![t.item].revision = @ - 1]
    /\ tx' = [tx EXCEPT ![c] = Idle]
    /\ UNCHANGED attempts

\* UPDATE ... SET lifecycleState = to, revision = revision + 1
\* WHERE id = item AND revision = expected.
CommitTransition(c) ==
    LET t == tx[c] IN
    /\ t.op = "transition"
    /\ items[t.item].revision = t.expected
    /\ items' = [items EXCEPT ![t.item].state = t.to, ![t.item].revision = @ + 1]
    /\ tx' = [tx EXCEPT ![c] = Idle]
    /\ UNCHANGED attempts
-----------------------------------------------------------------------------
\* startAttempt: the work item is read and checked ...
ReadForStart(c, i) ==
    /\ tx[c].op = "idle"
    /\ ItemExists(i)
    /\ items[i].revision < MaxRevision
    /\ WorkItemMayMove(items[i].state, "ASSIGNED")
    /\ tx' = [tx EXCEPT ![c] = [op |-> "start", item |-> i,
                                expected |-> items[i].revision]]
    /\ UNCHANGED store

\* ... then, in a statement of its own, the active attempts are looked up: one
\* found throws ActiveAttemptExistsError ...
CheckNoActiveAttempt(c) ==
    /\ tx[c].op = "start"
    /\ tx' = [tx EXCEPT ![c] = IF ActiveOf(tx[c].item) = {}
                               THEN [@ EXCEPT !.op = "startChecked"] ELSE Idle]
    /\ UNCHANGED store

\* ... and the UPDATE claims the item at the expected revision, with the new
\* attempt inserted under the next number.
CommitStartWith(c, a, claimable, number) ==
    LET t == tx[c] IN
    /\ t.op = "startChecked"
    /\ claimable
    /\ ~AttemptExists(a)
    /\ items' = [items EXCEPT ![t.item].state = "ASSIGNED",
                              ![t.item].revision = @ + 1,
                              ![t.item].current = a]
    /\ attempts' = [attempts EXCEPT ![a] =
                      [state |-> "NOT_STARTED", item |-> t.item, number |-> number,
                       active |-> TRUE, bound |-> FALSE]]
    /\ tx' = [tx EXCEPT ![c] = Idle]

CommitStart_NoRevision(c, a) ==
    CommitStartWith(c, a, TRUE, NextAttemptNumber(tx[c].item))

CommitStart(c, a) ==
    CommitStartWith(c, a, items[tx[c].item].revision = tx[c].expected,
                    NextAttemptNumber(tx[c].item))
-----------------------------------------------------------------------------
\* transitionAttempt, up to its UPDATE.
ReadForAttempt(c, a, to) ==
    /\ tx[c].op = "idle"
    /\ AttemptExists(a)
    /\ AttemptMayMove(attempts[a].state, to)
    /\ tx' = [tx EXCEPT ![c] = [op |-> "attempt", attempt |-> a,
                                from |-> attempts[a].state, to |-> to]]
    /\ UNCHANGED store

\* The state column and the active column move together, and a terminal state
\* clears the current attempt of the item it is current for.
MoveAttempt(c) ==
    LET t == tx[c]
        i == attempts[t.attempt].item
    IN  /\ attempts' = [attempts EXCEPT ![t.attempt].state = t.to,
                                        ![t.attempt].active = IsActiveAttemptState(t.to)]
        /\ items' = IF ~IsActiveAttemptState(t.to) /\ items[i].current = t.attempt
                    THEN [items EXCEPT ![i].current = None]
                    ELSE items
        /\ tx' = [tx EXCEPT ![c] = Idle]

CommitAttempt_KeepsCurrent(c) ==
    /\ tx[c].op = "attempt"
    /\ attempts[tx[c].attempt].state = tx[c].from
    /\ attempts' = [attempts EXCEPT
                      ![tx[c].attempt].state = tx[c].to,
                      ![tx[c].attempt].active = IsActiveAttemptState(tx[c].to)]
    /\ tx' = [tx EXCEPT ![c] = Idle]
    /\ UNCHANGED items

\* UPDATE ... WHERE id = attempt AND state = from.
CommitAttempt(c) ==
    /\ tx[c].op = "attempt"
    /\ attempts[tx[c].attempt].state = tx[c].from
    /\ MoveAttempt(c)
-----------------------------------------------------------------------------
\* The UPDATE matches no row: WorkItemRevisionConflictError or
\* AttemptStateConflictError, and the transaction is rolled back.
Conflict(c) ==
    /\ \/ /\ tx[c].op \in {"transition", "startChecked"}
          /\ items[tx[c].item].revision # tx[c].expected
       \/ /\ tx[c].op = "attempt"
          /\ attempts[tx[c].attempt].state # tx[c].from
    /\ tx' = [tx EXCEPT ![c] = Idle]
    /\ UNCHANGED store

\* The client's process or its connection is lost before the commit.
LoseConnection(c) ==
    /\ tx[c].op # "idle"
    /\ tx' = [tx EXCEPT ![c] = Idle]
    /\ UNCHANGED store

\* createWorkItem and bindAgentRun are single statements.
Create(i) == CreateWorkItem(i) /\ UNCHANGED tx
Bind(a)   == BindAgentRun(a) /\ UNCHANGED tx

ClientStep(c) ==
    \/ \E i \in Items, to \in ItemStates : ReadForTransition(c, i, to)
    \/ CommitTransition(c)
    \/ \E i \in Items : ReadForStart(c, i)
    \/ CheckNoActiveAttempt(c)
    \/ \E a \in Attempts : CommitStart(c, a)
    \/ \E a \in Attempts, to \in AttemptStates : ReadForAttempt(c, a, to)
    \/ CommitAttempt(c)
    \/ Conflict(c)
    \/ LoseConnection(c)

Next ==
    \/ \E i \in Items : Create(i)
    \/ \E a \in Attempts : Bind(a)
    \/ \E c \in Clients : ClientStep(c)

Spec == Init /\ [][Next]_vars
-----------------------------------------------------------------------------
\* At most one attempt of a work item is active, whatever the clients race for
\* (worker.ts: ONE_ACTIVE_SEMANTIC_EXECUTION_PER_WORK_PACKAGE).
OneActiveAttempt ==
    \A a, b \in Attempts :
        /\ attempts[a].active
        /\ attempts[b].active
        /\ attempts[a].item = attempts[b].item
        => a = b

\* The active column says what the state column says, and current_attempt_id
\* names the active attempt of its item and nothing else: the worker's poll,
\* which asks for current_attempt_id IS NULL, skips exactly the items that
\* startAttempt would refuse.
CurrentIsTheActiveAttempt ==
    /\ \A a \in Attempts :
          /\ attempts[a].active <=> attempts[a].state \in ActiveAttemptStates
          /\ attempts[a].active => items[attempts[a].item].current = a
    /\ \A i \in Items : items[i].current # None =>
          /\ attempts[items[i].current].active
          /\ attempts[items[i].current].item = i

\* An insert that is about to commit hits neither unique index of the attempts
\* table, so a caller never sees a constraint error the worker does not handle.
InsertHitsNoUniqueIndex ==
    \A c \in Clients :
        /\ tx[c].op = "startChecked"
        /\ items[tx[c].item].revision = tx[c].expected
        => /\ ActiveOf(tx[c].item) = {}
           /\ \A a \in AttemptsOf(tx[c].item) :
                 attempts[a].number < NextAttemptNumber(tx[c].item)

\* What an open transaction read and checked still holds at every moment its
\* UPDATE would match the row: the revision moves with every change of the
\* lifecycle state and with every new attempt, so it stands for both.
ReadsStillHold ==
    \A c \in Clients :
        LET t == tx[c] IN
        /\ t.op \in {"transition", "start", "startChecked"} =>
              /\ ItemExists(t.item)
              /\ t.expected <= items[t.item].revision
              /\ t.expected < MaxRevision
        /\ t.op = "transition" /\ items[t.item].revision = t.expected =>
              WorkItemMayMove(items[t.item].state, t.to)
        /\ t.op \in {"start", "startChecked"} /\ items[t.item].revision = t.expected =>
              WorkItemMayMove(items[t.item].state, "ASSIGNED")
        /\ t.op = "startChecked" /\ items[t.item].revision = t.expected =>
              ActiveOf(t.item) = {}
        /\ t.op = "attempt" =>
              AttemptExists(t.attempt) /\ AttemptMayMove(t.from, t.to)

\* Attempts of a work item are numbered in the order they were created, with no
\* number used twice, across retries and concurrent starts (F-011).
AttemptNumbersIncrease ==
    [][\A a, b \in Attempts :
         /\ AttemptExists(a)
         /\ ~AttemptExists(b)
         /\ AttemptExists(b)'
         /\ attempts[a].item = attempts[b].item'
         => attempts[a].number < attempts[b].number']_vars

\* A terminal attempt never changes state again, even when a second writer read
\* it while it was still active (F-014).
TerminalAttemptsStay ==
    [][\A a \in Attempts :
         attempts[a].state \in TerminalAttemptStates
         => attempts[a].state' = attempts[a].state]_vars

\* The transactions implement the atomic store: whatever a commit rests on, read
\* statements earlier, still holds when it takes effect, so every legal-transition
\* check, revision check and active-attempt check is a check of the state written.
ImplementsAtomicStore == StoreSpec
-----------------------------------------------------------------------------
\* The rest of the inductive invariant (see WorkStoreProofs): foreign keys are
\* kept and absent rows are blank, and among the attempts of an item one has the
\* greatest number.
RowsLinked ==
    /\ \A a \in Attempts :
          /\ ~AttemptExists(a) => attempts[a].item = None /\ ~attempts[a].active
          /\ AttemptExists(a) => /\ attempts[a].item \in Items
                                /\ ItemExists(attempts[a].item)
    /\ \A i \in Items : ~ItemExists(i) => items[i].current = None

NewestAttemptExists ==
    \A i \in Items : AttemptsOf(i) # {} =>
        \E m \in AttemptsOf(i) : \A a \in AttemptsOf(i) :
            attempts[a].number <= attempts[m].number

Inv ==
    /\ TypeOK
    /\ RowsLinked
    /\ CurrentIsTheActiveAttempt
    /\ NewestAttemptExists
    /\ ReadsStillHold
=============================================================================
