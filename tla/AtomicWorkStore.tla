-------------------------- MODULE AtomicWorkStore ---------------------------
(* What WorkStore promises its callers: the tables work_items and attempts,  *)
(* with every operation of the store as ONE step whose conditions hold at    *)
(* the moment it takes effect. The module WorkStore shows that the real      *)
(* transactions, which read, check and write in separate statements under    *)
(* READ COMMITTED, implement this; the execution model is built on it.       *)
(* Absent rows have the state "ABSENT".                                      *)
EXTENDS Integers, FiniteSetsExt, WorkItemStates

CONSTANTS
    Items,        \* ids of work items
    Attempts,     \* ids of attempts: the fresh UUIDs the engine may draw
    None,         \* SQL NULL
    MaxRevision   \* bound: writes stop when a work item reaches this revision

ASSUME NoneIsNoId == None \notin Items /\ None \notin Attempts
ASSUME MaxRevisionIsNat == MaxRevision \in Nat

VARIABLES
    items,        \* table work_items
    attempts      \* table attempts

store == <<items, attempts>>

AbsentItem    == [state |-> "ABSENT", revision |-> 0, current |-> None]
AbsentAttempt == [state |-> "ABSENT", item |-> None, number |-> 0,
                  active |-> FALSE, bound |-> FALSE]

ItemRow    == [state : ItemStates \cup {"ABSENT"}, revision : Nat,
               current : Attempts \cup {None}]
\* bound: agent_run_id is set.
AttemptRow == [state : AttemptStates \cup {"ABSENT"}, item : Items \cup {None},
               number : Nat, active : BOOLEAN, bound : BOOLEAN]

StoreTypeOK ==
    /\ items \in [Items -> ItemRow]
    /\ attempts \in [Attempts -> AttemptRow]

StoreInit ==
    /\ items = [i \in Items |-> AbsentItem]
    /\ attempts = [a \in Attempts |-> AbsentAttempt]
-----------------------------------------------------------------------------
ItemExists(i)    == items[i].state # "ABSENT"
AttemptExists(a) == attempts[a].state # "ABSENT"
AttemptsOf(i)    == {a \in Attempts : attempts[a].item = i}
ActiveOf(i)      == {a \in AttemptsOf(i) : attempts[a].active}

\* MAX(attempt_number) + 1 over the attempts of the work item, 1 for the first.
NextAttemptNumber(i) ==
    IF AttemptsOf(i) = {} THEN 1
    ELSE Max({attempts[a].number : a \in AttemptsOf(i)}) + 1

CreateWorkItem(i) ==
    /\ ~ItemExists(i)
    /\ MaxRevision >= 1
    /\ items' = [items EXCEPT ![i] =
                    [state |-> "DRAFT", revision |-> 1, current |-> None]]
    /\ UNCHANGED attempts

TransitionWorkItem_NoRevision(i, expected, to) ==
    /\ ItemExists(i)
    /\ items[i].revision < MaxRevision
    /\ WorkItemMayMove(items[i].state, to)
    /\ items' = [items EXCEPT ![i].state = to, ![i].revision = @ + 1]
    /\ UNCHANGED attempts

TransitionWorkItem(i, expected, to) ==
    /\ ItemExists(i)
    /\ items[i].revision = expected
    /\ expected < MaxRevision
    /\ WorkItemMayMove(items[i].state, to)
    /\ items' = [items EXCEPT ![i].state = to, ![i].revision = expected + 1]
    /\ UNCHANGED attempts

StartAttempt(i, expected, a) ==
    /\ ItemExists(i)
    /\ items[i].revision = expected
    /\ expected < MaxRevision
    /\ WorkItemMayMove(items[i].state, "ASSIGNED")
    /\ ActiveOf(i) = {}
    /\ ~AttemptExists(a)
    /\ items' = [items EXCEPT ![i] =
                    [state |-> "ASSIGNED", revision |-> expected + 1, current |-> a]]
    /\ attempts' = [attempts EXCEPT ![a] =
                    [state |-> "NOT_STARTED", item |-> i,
                     number |-> NextAttemptNumber(i), active |-> TRUE,
                     bound |-> FALSE]]

\* A terminal attempt is released by its work item; the item's revision stays.
TransitionAttempt(a, to) ==
    /\ AttemptExists(a)
    /\ AttemptMayMove(attempts[a].state, to)
    /\ attempts' = [attempts EXCEPT ![a].state = to,
                                    ![a].active = IsActiveAttemptState(to)]
    /\ items' = IF ~IsActiveAttemptState(to) /\ items[attempts[a].item].current = a
                THEN [items EXCEPT ![attempts[a].item].current = None]
                ELSE items

BindAgentRun(a) ==
    /\ AttemptExists(a)
    /\ attempts' = [attempts EXCEPT ![a].bound = TRUE]
    /\ UNCHANGED items

StoreNext ==
    \/ \E i \in Items : CreateWorkItem(i)
    \/ \E i \in Items, to \in ItemStates :
          TransitionWorkItem(i, items[i].revision, to)
    \/ \E i \in Items, a \in Attempts : StartAttempt(i, items[i].revision, a)
    \/ \E a \in Attempts, to \in AttemptStates : TransitionAttempt(a, to)
    \/ \E a \in Attempts : BindAgentRun(a)

StoreSpec == StoreInit /\ [][StoreNext]_store
=============================================================================
