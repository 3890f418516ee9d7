-------------------------- MODULE WorkStoreProofs ---------------------------
(* Proofs about WorkStore for every set of work items, attempts and clients  *)
(* and every bound on revisions. The inductive invariant Inv says what the   *)
(* revision column protects: while the revision a transaction read is still  *)
(* the current one, everything it checked before its UPDATE still holds.     *)
EXTENDS WorkStore, TLAPS

(* assertAttemptTransition lets only active attempts move, and only to       *)
(* attempt states: terminal states have no successors in the table.          *)
LEMMA OnlyActiveAttemptsMove ==
    ASSUME NEW s, NEW t, AttemptMayMove(s, t)
    PROVE  s \in ActiveAttemptStates /\ t \in AttemptStates
BY DEF AttemptMayMove, AttemptTransitions, ActiveAttemptStates,
       TerminalAttemptStates, AttemptStates

(* Only existing work items move: "ABSENT" is not a state of the table.      *)
LEMMA ActiveStatesAreStates ==
    /\ "ABSENT" \notin AttemptStates
    /\ "ABSENT" \notin ActiveAttemptStates
    /\ "ABSENT" \notin TerminalAttemptStates
    /\ "ABSENT" \notin ItemStates
    /\ "NOT_STARTED" \in ActiveAttemptStates
    /\ "ASSIGNED" \in ItemStates
    /\ "DRAFT" \in ItemStates
    /\ ActiveAttemptStates \subseteq AttemptStates
    /\ TerminalAttemptStates \cap ActiveAttemptStates = {}
    /\ \A s \in AttemptStates : s \notin ActiveAttemptStates => s \in TerminalAttemptStates
BY DEF AttemptStates, ActiveAttemptStates, TerminalAttemptStates, ItemStates

(* The number startAttempt allocates is above the number of every attempt    *)
(* the work item already has (MAX(attempt_number) + 1, work-store.ts 92-98). *)
LEMMA NextNumberIsFresh ==
    ASSUME TypeOK, NewestAttemptExists, NEW i \in Items
    PROVE  /\ NextAttemptNumber(i) \in Nat
           /\ \A a \in AttemptsOf(i) : attempts[a].number < NextAttemptNumber(i)
<1> DEFINE Numbers == {attempts[a].number : a \in AttemptsOf(i)}
<1>1. CASE AttemptsOf(i) = {}
  BY <1>1 DEF NextAttemptNumber
<1>2. CASE AttemptsOf(i) # {}
  <2>1. Numbers \subseteq Nat
    BY DEF TypeOK, StoreTypeOK, AttemptRow, AttemptsOf
  <2>2. \E x \in Numbers : \A y \in Numbers : x >= y
    <3>1. PICK m \in AttemptsOf(i) :
             \A a \in AttemptsOf(i) : attempts[a].number <= attempts[m].number
      BY <1>2 DEF NewestAttemptExists
    <3>2. attempts[m].number \in Numbers
      OBVIOUS
    <3>3. \A y \in Numbers : attempts[m].number >= y
      BY <3>1, <2>1, <3>2
    <3> QED BY <3>2, <3>3
  <2>3. Max(Numbers) \in Numbers /\ \A y \in Numbers : Max(Numbers) >= y
    BY <2>2 DEF Max
  <2>4. NextAttemptNumber(i) = Max(Numbers) + 1
    BY <1>2 DEF NextAttemptNumber
  <2>5. Max(Numbers) \in Nat
    BY <2>1, <2>3
  <2>6. \A a \in AttemptsOf(i) : attempts[a].number \in Numbers
    OBVIOUS
  <2>7. ASSUME NEW a \in AttemptsOf(i)
        PROVE  attempts[a].number < NextAttemptNumber(i)
    <3>1. attempts[a].number \in Nat /\ Max(Numbers) >= attempts[a].number
      BY <2>1, <2>3, <2>6
    <3> QED BY <3>1, <2>4, <2>5
  <2> QED BY <2>4, <2>5, <2>7
<1> QED BY <1>1, <1>2

(* A transaction record of a given kind has the fields of that kind.         *)
LEMMA TransactionFields ==
    ASSUME TypeOK, NEW c \in Clients
    PROVE  /\ tx[c].op \in {"transition", "start", "startChecked"} =>
                 tx[c].item \in Items /\ tx[c].expected \in Nat
           /\ tx[c].op = "transition" => tx[c].to \in ItemStates
           /\ tx[c].op = "attempt" => /\ tx[c].attempt \in Attempts
                                      /\ tx[c].from \in AttemptStates
                                      /\ tx[c].to \in AttemptStates
BY DEF TypeOK, Transaction, Idle

(* The store starts empty and no transaction is open.                        *)
LEMMA InvInit == Init => Inv
<1> SUFFICES ASSUME Init PROVE Inv
  OBVIOUS
<1> USE DEF Init, StoreInit, AbsentItem, AbsentAttempt
<1>1. TypeOK
  BY DEF TypeOK, StoreTypeOK, ItemRow, AttemptRow, Transaction, Idle
<1>2. RowsLinked
  BY DEF RowsLinked, AttemptExists, ItemExists
<1>3. CurrentIsTheActiveAttempt
  BY ActiveStatesAreStates DEF CurrentIsTheActiveAttempt
<1>4. NewestAttemptExists
  BY NoneIsNoId DEF NewestAttemptExists, AttemptsOf
<1>5. ReadsStillHold
  BY DEF ReadsStillHold, Idle
<1> QED BY <1>1, <1>2, <1>3, <1>4, <1>5 DEF Inv

(* A step that leaves both tables alone and changes one transaction keeps    *)
(* the invariant when the transaction it leaves behind does.                 *)
LEMMA InvTxOnly ==
    ASSUME Inv, UNCHANGED store, NEW c \in Clients, NEW t \in Transaction,
           tx' = [tx EXCEPT ![c] = t],
           t.op \in {"transition", "start", "startChecked"} =>
              /\ ItemExists(t.item)
              /\ t.expected <= items[t.item].revision
              /\ t.expected < MaxRevision,
           t.op = "transition" /\ items[t.item].revision = t.expected =>
              WorkItemMayMove(items[t.item].state, t.to),
           t.op \in {"start", "startChecked"} /\ items[t.item].revision = t.expected =>
              WorkItemMayMove(items[t.item].state, "ASSIGNED"),
           t.op = "startChecked" /\ items[t.item].revision = t.expected =>
              ActiveOf(t.item) = {},
           t.op = "attempt" =>
              AttemptExists(t.attempt) /\ AttemptMayMove(t.from, t.to)
    PROVE  Inv'
<1> USE DEF Inv, store
<1>1. TypeOK'
  BY DEF TypeOK, StoreTypeOK
<1>2. RowsLinked'
  BY DEF RowsLinked, AttemptExists, ItemExists
<1>3. CurrentIsTheActiveAttempt'
  BY DEF CurrentIsTheActiveAttempt
<1>4. NewestAttemptExists'
  BY DEF NewestAttemptExists, AttemptsOf
<1>5. ReadsStillHold'
  BY DEF ReadsStillHold, ActiveOf, AttemptsOf, AttemptExists, ItemExists, TypeOK
<1> QED BY <1>1, <1>2, <1>3, <1>4, <1>5

(* The reading steps, and the rollbacks, of a client's transaction.          *)
LEMMA InvReads ==
    ASSUME Inv, NEW c \in Clients,
           \/ \E i \in Items, to \in ItemStates : ReadForTransition(c, i, to)
           \/ \E i \in Items : ReadForStart(c, i)
           \/ CheckNoActiveAttempt(c)
           \/ \E a \in Attempts, to \in AttemptStates : ReadForAttempt(c, a, to)
           \/ Conflict(c)
           \/ LoseConnection(c)
    PROVE  Inv'
<1>0. TypeOK /\ Idle \in Transaction /\ Idle.op = "idle"
  BY DEF Inv, Transaction, Idle
<1>1. ASSUME NEW i \in Items, NEW to \in ItemStates, ReadForTransition(c, i, to)
      PROVE  Inv'
  <2> DEFINE t == [op |-> "transition", item |-> i,
                   expected |-> items[i].revision, to |-> to]
  <2>1. items[i].revision \in Nat
    BY <1>0 DEF TypeOK, StoreTypeOK, ItemRow
  <2>2. t \in Transaction
    BY <2>1 DEF Transaction
  <2>3. /\ ItemExists(i) /\ items[i].revision < MaxRevision
        /\ WorkItemMayMove(items[i].state, to)
        /\ tx' = [tx EXCEPT ![c] = t] /\ UNCHANGED store
    BY <1>1 DEF ReadForTransition
  <2>4. /\ t.op = "transition" /\ t.item = i
        /\ t.expected = items[i].revision /\ t.to = to
    OBVIOUS
  <2>5. t.expected <= items[i].revision
    BY <2>1, <2>4
  <2> HIDE DEF t
  <2> QED BY <2>2, <2>3, <2>4, <2>5, InvTxOnly
<1>2. ASSUME NEW i \in Items, ReadForStart(c, i)
      PROVE  Inv'
  <2> DEFINE t == [op |-> "start", item |-> i, expected |-> items[i].revision]
  <2>1. items[i].revision \in Nat
    BY <1>0 DEF TypeOK, StoreTypeOK, ItemRow
  <2>2. t \in Transaction
    BY <2>1 DEF Transaction
  <2>3. /\ ItemExists(i) /\ items[i].revision < MaxRevision
        /\ WorkItemMayMove(items[i].state, "ASSIGNED")
        /\ tx' = [tx EXCEPT ![c] = t] /\ UNCHANGED store
    BY <1>2 DEF ReadForStart
  <2>4. t.op = "start" /\ t.item = i /\ t.expected = items[i].revision
    OBVIOUS
  <2>5. t.expected <= items[i].revision
    BY <2>1, <2>4
  <2> HIDE DEF t
  <2> QED BY <2>2, <2>3, <2>4, <2>5, InvTxOnly
<1>3. ASSUME CheckNoActiveAttempt(c), ActiveOf(tx[c].item) = {}
      PROVE  Inv'
  <2> DEFINE t == [tx[c] EXCEPT !.op = "startChecked"]
  <2>1. tx[c].op = "start" /\ tx' = [tx EXCEPT ![c] = t] /\ UNCHANGED store
    BY <1>3, <1>0 DEF CheckNoActiveAttempt, TypeOK
  <2>2. /\ t \in Transaction /\ t.op = "startChecked"
        /\ t.item = tx[c].item /\ t.expected = tx[c].expected
    BY <2>1, <1>0 DEF TypeOK, Transaction, Idle
  <2>3. /\ ItemExists(t.item) /\ t.expected <= items[t.item].revision
        /\ t.expected < MaxRevision
        /\ items[t.item].revision = t.expected =>
              WorkItemMayMove(items[t.item].state, "ASSIGNED")
    BY <2>1, <2>2 DEF Inv, ReadsStillHold
  <2> HIDE DEF t
  <2> QED BY <2>1, <2>2, <2>3, <1>3, InvTxOnly
<1>4. ASSUME tx' = [tx EXCEPT ![c] = Idle], UNCHANGED store
      PROVE  Inv'
  BY <1>0, <1>4, InvTxOnly
<1>5. ASSUME NEW a \in Attempts, NEW to \in AttemptStates, ReadForAttempt(c, a, to)
      PROVE  Inv'
  <2> DEFINE t == [op |-> "attempt", attempt |-> a,
                   from |-> attempts[a].state, to |-> to]
  <2>1. /\ AttemptExists(a) /\ AttemptMayMove(attempts[a].state, to)
        /\ tx' = [tx EXCEPT ![c] = t] /\ UNCHANGED store
    BY <1>5 DEF ReadForAttempt
  <2>2. attempts[a].state \in AttemptStates
    BY <2>1, OnlyActiveAttemptsMove, ActiveStatesAreStates
  <2>3. t \in Transaction
    BY <2>2 DEF Transaction
  <2> QED BY <2>1, <2>3, InvTxOnly
<1>6. CheckNoActiveAttempt(c) /\ ActiveOf(tx[c].item) # {} =>
         tx' = [tx EXCEPT ![c] = Idle] /\ UNCHANGED store
  BY DEF CheckNoActiveAttempt
<1>7. Conflict(c) \/ LoseConnection(c) =>
         tx' = [tx EXCEPT ![c] = Idle] /\ UNCHANGED store
  BY DEF Conflict, LoseConnection
<1> QED BY <1>1, <1>2, <1>3, <1>4, <1>5, <1>6, <1>7

(* createWorkItem: the new row has no attempts and no open transaction.      *)
LEMMA InvCreate ==
    ASSUME Inv, NEW i \in Items, Create(i)
    PROVE  Inv'
<1> USE DEF Inv, Create, CreateWorkItem
<1>1. TypeOK'
  BY ActiveStatesAreStates DEF TypeOK, StoreTypeOK, ItemRow
<1>2. RowsLinked'
  BY DEF RowsLinked, AttemptExists, ItemExists, TypeOK, StoreTypeOK
<1>3. CurrentIsTheActiveAttempt'
  <2>1. ASSUME NEW a \in Attempts, attempts[a].active
        PROVE  attempts[a].item \in Items /\ attempts[a].item # i
    BY <2>1 DEF RowsLinked
  <2> QED BY <2>1 DEF CurrentIsTheActiveAttempt, TypeOK, StoreTypeOK
<1>4. NewestAttemptExists'
  BY DEF NewestAttemptExists, AttemptsOf
<1>5. ReadsStillHold'
  <2>1. ASSUME NEW c \in Clients, tx[c].op \in {"transition", "start", "startChecked"}
        PROVE  tx[c].item \in Items /\ tx[c].item # i
    BY <2>1, TransactionFields DEF ReadsStillHold
  <2>2. \A j \in Items : j # i => items'[j] = items[j]
    BY DEF TypeOK, StoreTypeOK
  <2> QED BY <2>1, <2>2 DEF ReadsStillHold, ActiveOf, AttemptsOf, AttemptExists, ItemExists
<1> QED BY <1>1, <1>2, <1>3, <1>4, <1>5

(* bindAgentRun writes no column that another statement reads.               *)
LEMMA InvBind ==
    ASSUME Inv, NEW a \in Attempts, Bind(a)
    PROVE  Inv'
<1> USE DEF Inv, Bind, BindAgentRun
<1>0. \A b \in Attempts : /\ attempts'[b].state = attempts[b].state
                          /\ attempts'[b].item = attempts[b].item
                          /\ attempts'[b].number = attempts[b].number
                          /\ attempts'[b].active = attempts[b].active
  BY DEF TypeOK, StoreTypeOK, AttemptRow
<1>1. TypeOK'
  BY DEF TypeOK, StoreTypeOK, AttemptRow
<1>2. RowsLinked'
  BY <1>0 DEF RowsLinked, AttemptExists, ItemExists
<1>3. CurrentIsTheActiveAttempt'
  BY <1>0 DEF CurrentIsTheActiveAttempt, TypeOK, StoreTypeOK, ItemRow
<1>4. \A i \in Items : AttemptsOf(i)' = AttemptsOf(i) /\ ActiveOf(i)' = ActiveOf(i)
  BY <1>0 DEF AttemptsOf, ActiveOf
<1>5. NewestAttemptExists'
  BY <1>0, <1>4 DEF NewestAttemptExists, AttemptsOf
<1>6. ReadsStillHold'
  BY <1>0, <1>4, TransactionFields DEF ReadsStillHold, AttemptExists, ItemExists
<1> QED BY <1>1, <1>2, <1>3, <1>5, <1>6

(* A commit cannot invalidate what another open transaction rests on: it     *)
(* either bumps the revision of an item or leaves the item's lifecycle state *)
(* alone and activates none of its attempts.                                 *)
LEMMA ReadsSurvive ==
    ASSUME TypeOK, ReadsStillHold, TypeOK', NEW c \in Clients,
           tx' = [tx EXCEPT ![c] = Idle],
           \A j \in Items : ItemExists(j) => ItemExists(j)',
           \A a \in Attempts : AttemptExists(a) => AttemptExists(a)',
           \A j \in Items :
              \/ items'[j].revision > items[j].revision
              \/ /\ items'[j].revision = items[j].revision
                 /\ items'[j].state = items[j].state
                 /\ ActiveOf(j) = {} => ActiveOf(j)' = {}
    PROVE  ReadsStillHold'
<1> SUFFICES ASSUME NEW d \in Clients PROVE ReadsStillHold!(d)'
  BY DEF ReadsStillHold
<1>1. CASE d = c
  BY <1>1 DEF Idle, TypeOK
<1>2. CASE d # c
  <2>1. tx'[d] = tx[d]
    BY <1>2 DEF TypeOK
  <2>2. ReadsStillHold!(d)
    BY DEF ReadsStillHold
  <2>3. \A j \in Items : items[j].revision \in Nat /\ items'[j].revision \in Nat
    BY DEF TypeOK, StoreTypeOK, ItemRow
  <2>4. CASE tx[d].op \in {"transition", "start", "startChecked"}
    <3>1. PICK i \in Items, e \in Nat : i = tx[d].item /\ e = tx[d].expected
      BY <2>4, TransactionFields
    <3>2. ItemExists(i) /\ e < MaxRevision /\ e <= items[i].revision
      BY <2>2, <2>4, <3>1
    <3>3. /\ ItemExists(i)'
          /\ e <= items'[i].revision
          /\ items'[i].revision = e =>
                /\ items[i].revision = e
                /\ items'[i].state = items[i].state
                /\ ActiveOf(i) = {} => ActiveOf(i)' = {}
      BY <3>2, <2>3
    <3>4. tx'[d].item = i /\ tx'[d].expected = e /\ tx'[d].op # "attempt"
      BY <2>1, <2>4, <3>1
    <3> QED BY <2>1, <2>2, <2>4, <3>1, <3>2, <3>3, <3>4
  <2>5. CASE tx[d].op = "attempt"
    BY <2>1, <2>2, <2>5, TransactionFields
  <2>6. tx[d].op \in {"idle", "transition", "start", "startChecked", "attempt"}
    BY DEF TypeOK, Transaction, Idle
  <2>7. CASE tx[d].op = "idle"
    BY <2>1, <2>7
  <2> QED BY <2>4, <2>5, <2>6, <2>7
<1> QED BY <1>1, <1>2

(* The UPDATE of transitionWorkItem: the revision moves with the state, so   *)
(* every other transaction that read the old revision no longer matches.     *)
LEMMA InvCommitTransition ==
    ASSUME Inv, NEW c \in Clients, CommitTransition(c)
    PROVE  Inv'
<1>0. PICK i \in Items :
      /\ i = tx[c].item
      /\ tx[c].to \in ItemStates /\ tx[c].op = "transition"
      /\ items[i].revision = tx[c].expected /\ items[i].revision \in Nat
      /\ ItemExists(i)
  BY TransactionFields DEF Inv, CommitTransition, ReadsStillHold, TypeOK, StoreTypeOK, ItemRow
<1>a. /\ items' = [items EXCEPT ![i].state = tx[c].to, ![i].revision = @ + 1]
      /\ tx' = [tx EXCEPT ![c] = Idle]
      /\ UNCHANGED attempts
  BY <1>0 DEF CommitTransition
<1>b. /\ items'[i].state = tx[c].to /\ items'[i].revision = items[i].revision + 1
      /\ items'[i].current = items[i].current
      /\ \A j \in Items : j # i => items'[j] = items[j]
      /\ \A j \in Items : items'[j].current = items[j].current
  BY <1>a, <1>0 DEF Inv, TypeOK, StoreTypeOK, ItemRow
<1> USE DEF Inv
<1>1. TypeOK'
  BY <1>0, <1>a DEF TypeOK, StoreTypeOK, ItemRow, Transaction, Idle
<1>2. RowsLinked'
  <2>1. \A j \in Items : ItemExists(j)' <=> ItemExists(j)
    BY <1>0, <1>b, ActiveStatesAreStates DEF ItemExists
  <2>2. \A a \in Attempts : AttemptExists(a)' <=> AttemptExists(a)
    BY <1>a DEF AttemptExists
  <2> QED BY <1>a, <1>b, <2>1, <2>2 DEF RowsLinked
<1>3. CurrentIsTheActiveAttempt'
  <2>1. \A a \in Attempts : attempts[a].active => attempts[a].item \in Items
    BY DEF RowsLinked
  <2> QED BY <2>1, <1>a, <1>b DEF CurrentIsTheActiveAttempt
<1>4. NewestAttemptExists'
  BY <1>a DEF NewestAttemptExists, AttemptsOf
<1>5. ReadsStillHold'
  <2>1. \A j \in Items : ActiveOf(j)' = ActiveOf(j)
    BY <1>a DEF ActiveOf, AttemptsOf
  <2>2. \A j \in Items : ItemExists(j) => ItemExists(j)'
    BY <1>0, <1>b, ActiveStatesAreStates DEF ItemExists
  <2>3. \A a \in Attempts : AttemptExists(a) => AttemptExists(a)'
    BY <1>a DEF AttemptExists
  <2>4. \A j \in Items : \/ items'[j].revision > items[j].revision
                         \/ items'[j] = items[j]
    BY <1>0, <1>b
  <2> QED BY <1>a, <1>1, <2>1, <2>2, <2>3, <2>4, ReadsSurvive
<1> QED BY <1>1, <1>2, <1>3, <1>4, <1>5

(* What the committing step of startAttempt does, in terms of the rows.      *)
LEMMA CommitStartEffect ==
    ASSUME Inv, NEW c \in Clients, NEW a \in Attempts, CommitStart(c, a),
           NEW i, i = tx[c].item
    PROVE  /\ i \in Items /\ ItemExists(i) /\ tx[c].op = "startChecked"
           /\ items[i].revision = tx[c].expected /\ items[i].revision \in Nat
           /\ tx[c].expected < MaxRevision
           /\ WorkItemMayMove(items[i].state, "ASSIGNED")
           /\ ActiveOf(i) = {} /\ ~AttemptExists(a)
           /\ NextAttemptNumber(i) \in Nat
           /\ \A b \in AttemptsOf(i) : attempts[b].number < NextAttemptNumber(i)
           /\ items' = [items EXCEPT ![i] =
                 [state |-> "ASSIGNED", revision |-> items[i].revision + 1, current |-> a]]
           /\ attempts' = [attempts EXCEPT ![a] =
                 [state |-> "NOT_STARTED", item |-> i, number |-> NextAttemptNumber(i),
                  active |-> TRUE, bound |-> FALSE]]
           /\ tx' = [tx EXCEPT ![c] = Idle]
<1>1. /\ tx[c].op = "startChecked" /\ items[i].revision = tx[c].expected
      /\ ~AttemptExists(a)
      /\ tx' = [tx EXCEPT ![c] = Idle]
      /\ attempts' = [attempts EXCEPT ![a] =
            [state |-> "NOT_STARTED", item |-> i, number |-> NextAttemptNumber(i),
             active |-> TRUE, bound |-> FALSE]]
      /\ items' = [items EXCEPT ![i].state = "ASSIGNED", ![i].revision = @ + 1,
                                ![i].current = a]
  BY DEF CommitStart, CommitStartWith
<1>2. i \in Items
  BY <1>1, TransactionFields DEF Inv
<1>3. /\ ItemExists(i) /\ tx[c].expected < MaxRevision /\ ActiveOf(i) = {}
      /\ WorkItemMayMove(items[i].state, "ASSIGNED")
  BY <1>1 DEF Inv, ReadsStillHold
<1>4. items[i] \in ItemRow
  BY <1>2 DEF Inv, TypeOK, StoreTypeOK
<1>5. items' = [items EXCEPT ![i] =
         [state |-> "ASSIGNED", revision |-> items[i].revision + 1, current |-> a]]
  BY <1>1, <1>2, <1>4, SMTT(40) DEF Inv, TypeOK, StoreTypeOK, ItemRow
<1>6. /\ NextAttemptNumber(i) \in Nat
      /\ \A b \in AttemptsOf(i) : attempts[b].number < NextAttemptNumber(i)
  BY <1>2, NextNumberIsFresh DEF Inv
<1> QED BY <1>1, <1>2, <1>3, <1>4, <1>5, <1>6 DEF ItemRow

(* The UPDATE and INSERT of startAttempt: the item had no active attempt, and *)
(* the revision moves, so no other start that looked earlier can commit.      *)
LEMMA InvCommitStart ==
    ASSUME Inv, NEW c \in Clients, NEW a \in Attempts, CommitStart(c, a)
    PROVE  Inv'
<1>0. PICK i \in Items, n \in Nat :
      /\ ItemExists(i) /\ items[i].revision \in Nat
      /\ ActiveOf(i) = {} /\ ~AttemptExists(a)
      /\ \A b \in AttemptsOf(i) : attempts[b].number < n
      /\ items' = [items EXCEPT ![i] =
            [state |-> "ASSIGNED", revision |-> items[i].revision + 1, current |-> a]]
      /\ attempts' = [attempts EXCEPT ![a] =
            [state |-> "NOT_STARTED", item |-> i, number |-> n,
             active |-> TRUE, bound |-> FALSE]]
      /\ tx' = [tx EXCEPT ![c] = Idle]
  BY CommitStartEffect
<1> USE DEF Inv
<1>a. /\ items'[i] = [state |-> "ASSIGNED", revision |-> items[i].revision + 1, current |-> a]
      /\ \A j \in Items : j # i => items'[j] = items[j]
      /\ attempts'[a] = [state |-> "NOT_STARTED", item |-> i, number |-> n,
                         active |-> TRUE, bound |-> FALSE]
      /\ \A b \in Attempts : b # a => attempts'[b] = attempts[b]
  BY <1>0 DEF TypeOK, StoreTypeOK
<1>b. /\ attempts[a].item = None /\ ~attempts[a].active
      /\ \A b \in Attempts : attempts[b].active => attempts[b].item \in Items
      /\ \A b \in Attempts : attempts[b].active => attempts[b].item # i
  BY <1>0 DEF RowsLinked, ActiveOf, AttemptsOf
<1>1. TypeOK'
  <2>1. items' \in [Items -> ItemRow]
    BY <1>0, ActiveStatesAreStates DEF TypeOK, StoreTypeOK, ItemRow
  <2>2. attempts' \in [Attempts -> AttemptRow]
    BY <1>0, ActiveStatesAreStates DEF TypeOK, StoreTypeOK, AttemptRow
  <2>3. tx' \in [Clients -> Transaction]
    BY <1>0 DEF TypeOK, Transaction, Idle
  <2> QED BY <2>1, <2>2, <2>3 DEF TypeOK, StoreTypeOK
<1>2. /\ \A j \in Items : ItemExists(j) => ItemExists(j)'
      /\ \A b \in Attempts : AttemptExists(b) => AttemptExists(b)'
      /\ AttemptExists(a)' /\ ItemExists(i)'
  BY <1>0, <1>a DEF ItemExists, AttemptExists
<1>3. RowsLinked'
  <2>1. ASSUME NEW b \in Attempts
        PROVE  /\ ~AttemptExists(b)' => attempts'[b].item = None /\ ~attempts'[b].active
               /\ AttemptExists(b)' => /\ attempts'[b].item \in Items
                                       /\ items'[attempts'[b].item].state # "ABSENT"
    <3>1. CASE b = a
      BY <3>1, <1>0, <1>a, <1>2
    <3>2. CASE b # a
      BY <3>2, <1>a, <1>2 DEF RowsLinked, AttemptExists, ItemExists
    <3> QED BY <3>1, <3>2
  <2>2. \A j \in Items : ~ItemExists(j)' => items'[j].current = None
    BY <1>a DEF RowsLinked, ItemExists
  <2> QED BY <2>1, <2>2 DEF RowsLinked, ItemExists
<1>4. CurrentIsTheActiveAttempt'
  <2>1. ASSUME NEW b \in Attempts
        PROVE  /\ attempts'[b].active <=> attempts'[b].state \in ActiveAttemptStates
               /\ attempts'[b].active => items'[attempts'[b].item].current = b
    <3>1. CASE b = a
      BY <3>1, <1>a, ActiveStatesAreStates
    <3>2. CASE b # a
      BY <3>2, <1>a, <1>b DEF CurrentIsTheActiveAttempt
    <3> QED BY <3>1, <3>2
  <2>2. ASSUME NEW j \in Items, items'[j].current # None
        PROVE  /\ attempts'[items'[j].current].active
               /\ attempts'[items'[j].current].item = j
    <3>1. CASE j = i
      BY <3>1, <1>a
    <3>2. CASE j # i
      <4>1. items'[j] = items[j] /\ items[j].current \in Attempts
        BY <3>2, <2>2, <1>a DEF TypeOK, StoreTypeOK, ItemRow
      <4>2. items[j].current # a
        BY <4>1, <2>2, <1>b DEF CurrentIsTheActiveAttempt
      <4> QED BY <4>1, <4>2, <2>2, <1>a DEF CurrentIsTheActiveAttempt
    <3> QED BY <3>1, <3>2
  <2> QED BY <2>1, <2>2 DEF CurrentIsTheActiveAttempt
<1>5. NewestAttemptExists'
  <2> SUFFICES ASSUME NEW j \in Items, (AttemptsOf(j) # {})'
               PROVE  \E m \in AttemptsOf(j)' : \A b \in AttemptsOf(j)' :
                         attempts'[b].number <= attempts'[m].number
    BY DEF NewestAttemptExists
  <2>1. CASE j = i
    <3>1. AttemptsOf(i)' = AttemptsOf(i) \cup {a}
      BY <1>a, <1>b, <1>0 DEF AttemptsOf
    <3>2. \A b \in AttemptsOf(i) : b # a /\ b \in Attempts /\ attempts[b].number \in Nat
      BY <1>0, <1>b, NoneIsNoId DEF AttemptsOf, TypeOK, StoreTypeOK, AttemptRow
    <3>3. \A b \in AttemptsOf(i)' : attempts'[b].number <= attempts'[a].number
      BY <3>1, <3>2, <1>0, <1>a
    <3> QED BY <2>1, <3>1, <3>3
  <2>2. CASE j # i
    <3>1. AttemptsOf(j)' = AttemptsOf(j)
      BY <2>2, <1>a, <1>b, NoneIsNoId DEF AttemptsOf
    <3>2. \A b \in AttemptsOf(j) : attempts'[b] = attempts[b]
      BY <1>a, <1>b, NoneIsNoId DEF AttemptsOf
    <3> QED BY <3>1, <3>2 DEF NewestAttemptExists
  <2> QED BY <2>1, <2>2
<1>6. ReadsStillHold'
  <2>1. \A j \in Items : \/ items'[j].revision > items[j].revision
                         \/ /\ items'[j] = items[j]
                            /\ ActiveOf(j) = {} => ActiveOf(j)' = {}
    BY <1>0, <1>a DEF ActiveOf, AttemptsOf
  <2> QED BY <1>0, <1>1, <1>2, <2>1, ReadsSurvive
<1> QED BY <1>1, <1>3, <1>4, <1>5, <1>6

(* What the committing step of transitionAttempt does. The attempt it moves  *)
(* is active, hence current for its item: terminal attempts cannot move.     *)
LEMMA CommitAttemptEffect ==
    ASSUME Inv, NEW c \in Clients, CommitAttempt(c)
    PROVE  \E a \in Attempts, i \in Items, to \in AttemptStates :
              /\ AttemptExists(a) /\ AttemptMayMove(attempts[a].state, to)
              /\ attempts[a].item = i /\ attempts[a].active
              /\ items[i].current = a
              /\ attempts' = [attempts EXCEPT ![a].state = to,
                                              ![a].active = IsActiveAttemptState(to)]
              /\ items' = IF IsActiveAttemptState(to) THEN items
                          ELSE [items EXCEPT ![i].current = None]
              /\ tx' = [tx EXCEPT ![c] = Idle]
<1>1. PICK a \in Attempts, to \in AttemptStates :
        /\ a = tx[c].attempt /\ to = tx[c].to
        /\ AttemptExists(a) /\ AttemptMayMove(attempts[a].state, to)
  BY TransactionFields DEF Inv, CommitAttempt, ReadsStillHold
<1>2. attempts[a].state \in ActiveAttemptStates
  BY <1>1, OnlyActiveAttemptsMove
<1>3. attempts[a].item \in Items /\ attempts[a].active
      /\ items[attempts[a].item].current = a
  BY <1>1, <1>2 DEF Inv, RowsLinked, CurrentIsTheActiveAttempt
<1>4. /\ attempts' = [attempts EXCEPT ![a].state = to,
                                      ![a].active = IsActiveAttemptState(to)]
      /\ items' = IF ~IsActiveAttemptState(to) /\ items[attempts[a].item].current = a
                  THEN [items EXCEPT ![attempts[a].item].current = None]
                  ELSE items
      /\ tx' = [tx EXCEPT ![c] = Idle]
  BY <1>1 DEF CommitAttempt, MoveAttempt
<1> QED BY <1>1, <1>3, <1>4

\* transitionAttempt keeps the invariant: it moves the active attempt of its item.
LEMMA InvCommitAttempt ==
    ASSUME Inv, NEW c \in Clients, CommitAttempt(c)
    PROVE  Inv'
<1>0. PICK a \in Attempts, i \in Items, to \in AttemptStates :
        /\ AttemptExists(a) /\ attempts[a].item = i /\ attempts[a].active
        /\ items[i].current = a
        /\ attempts' = [attempts EXCEPT ![a].state = to,
                                        ![a].active = IsActiveAttemptState(to)]
        /\ items' = IF IsActiveAttemptState(to) THEN items
                    ELSE [items EXCEPT ![i].current = None]
        /\ tx' = [tx EXCEPT ![c] = Idle]
  BY CommitAttemptEffect
<1> USE DEF Inv
<1>a. /\ attempts'[a].state = to /\ attempts'[a].active = IsActiveAttemptState(to)
      /\ \A b \in Attempts : b # a => attempts'[b] = attempts[b]
      /\ \A b \in Attempts : attempts'[b].item = attempts[b].item
      /\ \A b \in Attempts : attempts'[b].number = attempts[b].number
  BY <1>0 DEF TypeOK, StoreTypeOK, AttemptRow
<1>b. /\ \A j \in Items : j # i => items'[j] = items[j]
      /\ \A j \in Items : items'[j].state = items[j].state
      /\ \A j \in Items : items'[j].revision = items[j].revision
      /\ items'[i].current = IF IsActiveAttemptState(to) THEN a ELSE None
  BY <1>0 DEF TypeOK, StoreTypeOK, ItemRow
<1>c. \A b \in Attempts : attempts[b].active /\ attempts[b].item = i => b = a
  BY <1>0 DEF CurrentIsTheActiveAttempt
<1>1. TypeOK'
  <2>1. items' \in [Items -> ItemRow]
    BY <1>0 DEF TypeOK, StoreTypeOK, ItemRow
  <2>2. IsActiveAttemptState(to) \in BOOLEAN
    BY DEF IsActiveAttemptState
  <2>3. attempts' \in [Attempts -> AttemptRow]
    <3>1. PICK x \in BOOLEAN : x = IsActiveAttemptState(to)
      BY <2>2
    <3>2. attempts' = [attempts EXCEPT ![a] =
             [attempts[a] EXCEPT !.state = to, !.active = x]]
      BY <1>0, <3>1 DEF TypeOK, StoreTypeOK, AttemptRow
    <3>3. attempts[a] \in AttemptRow
      BY DEF TypeOK, StoreTypeOK
    <3>4. [attempts[a] EXCEPT !.state = to, !.active = x] \in AttemptRow
      BY <3>3 DEF AttemptRow
    <3> QED BY <3>2, <3>4 DEF TypeOK, StoreTypeOK
  <2>4. tx' \in [Clients -> Transaction]
    BY <1>0 DEF TypeOK, Transaction, Idle
  <2> QED BY <2>1, <2>3, <2>4 DEF TypeOK, StoreTypeOK
<1>2. /\ \A j \in Items : ItemExists(j)' <=> ItemExists(j)
      /\ \A b \in Attempts : AttemptExists(b)' <=> AttemptExists(b)
  <2>1. \A j \in Items : ItemExists(j)' <=> ItemExists(j)
    BY <1>b DEF ItemExists
  <2>2. AttemptExists(a) /\ AttemptExists(a)'
    BY <1>0, <1>a, ActiveStatesAreStates DEF AttemptExists
  <2>3. \A b \in Attempts : b # a => (AttemptExists(b)' <=> AttemptExists(b))
    BY <1>a DEF AttemptExists
  <2> QED BY <2>1, <2>2, <2>3
<1>3. RowsLinked'
  <2>1. \A b \in Attempts : ~AttemptExists(b) => b # a
    BY <1>0
  <2> QED BY <1>a, <1>b, <1>2, <2>1, <1>0, ZenonT(60) DEF RowsLinked
<1>4. CurrentIsTheActiveAttempt'
  <2>1. ASSUME NEW b \in Attempts
        PROVE  /\ attempts'[b].active <=> attempts'[b].state \in ActiveAttemptStates
               /\ attempts'[b].active => items'[attempts'[b].item].current = b
    <3>1. CASE b = a
      BY <3>1, <1>0, <1>a, <1>b DEF IsActiveAttemptState
    <3>2. CASE b # a
      <4>1. attempts[b].active => attempts[b].item \in Items /\ attempts[b].item # i
        BY <3>2, <1>c DEF RowsLinked
      <4> QED BY <3>2, <4>1, <1>a, <1>b DEF CurrentIsTheActiveAttempt
    <3> QED BY <3>1, <3>2
  <2>2. ASSUME NEW j \in Items, items'[j].current # None
        PROVE  /\ attempts'[items'[j].current].active
               /\ attempts'[items'[j].current].item = j
    <3>1. CASE j = i
      BY <3>1, <2>2, <1>0, <1>a, <1>b
    <3>2. CASE j # i
      <4>1. items'[j] = items[j] /\ items[j].current \in Attempts
        BY <3>2, <2>2, <1>b DEF TypeOK, StoreTypeOK, ItemRow
      <4>2. items[j].current # a
        BY <4>1, <2>2, <3>2, <1>0 DEF CurrentIsTheActiveAttempt
      <4> QED BY <4>1, <4>2, <2>2, <1>a DEF CurrentIsTheActiveAttempt
    <3> QED BY <3>1, <3>2
  <2> QED BY <2>1, <2>2 DEF CurrentIsTheActiveAttempt
<1>5. \A j \in Items : AttemptsOf(j)' = AttemptsOf(j)
  BY <1>a DEF AttemptsOf
<1>6. NewestAttemptExists'
  BY <1>5, <1>a DEF NewestAttemptExists, AttemptsOf
<1>7. ReadsStillHold'
  <2>1. \A j \in Items : ActiveOf(j) = {} => ActiveOf(j)' = {}
    BY <1>0, <1>a, <1>5 DEF ActiveOf, AttemptsOf
  <2> QED BY <1>0, <1>1, <1>2, <1>b, <2>1, ReadsSurvive
<1> QED BY <1>1, <1>3, <1>4, <1>6, <1>7

(* Every step of the store keeps the invariant.                              *)
LEMMA InvNext == Inv /\ [Next]_vars => Inv'
<1> SUFFICES ASSUME Inv, [Next]_vars PROVE Inv'
  OBVIOUS
<1>1. ASSUME NEW i \in Items, Create(i) PROVE Inv'
  BY <1>1, InvCreate
<1>2. ASSUME NEW a \in Attempts, Bind(a) PROVE Inv'
  BY <1>2, InvBind
<1>3. ASSUME NEW c \in Clients, ClientStep(c) PROVE Inv'
  <2>1. ASSUME CommitTransition(c) PROVE Inv'
    BY <2>1, InvCommitTransition
  <2>2. ASSUME NEW a \in Attempts, CommitStart(c, a) PROVE Inv'
    BY <2>2, InvCommitStart
  <2>3. ASSUME CommitAttempt(c) PROVE Inv'
    BY <2>3, InvCommitAttempt
  <2> QED BY <1>3, <2>1, <2>2, <2>3, InvReads DEF ClientStep
<1>4. ASSUME UNCHANGED vars PROVE Inv'
  BY <1>4 DEF vars, Inv, TypeOK, StoreTypeOK, RowsLinked, CurrentIsTheActiveAttempt,
              NewestAttemptExists, ReadsStillHold, ActiveOf, AttemptsOf,
              AttemptExists, ItemExists
<1> QED BY <1>1, <1>2, <1>3, <1>4 DEF Next
-----------------------------------------------------------------------------
(* The inductive invariant holds in every reachable state of the store.      *)
THEOREM InvariantHolds == Spec => []Inv
BY InvInit, InvNext, PTL DEF Spec

(* Type correctness: every row and every open transaction of the store keeps *)
(* the shape the schema gives it.                                            *)
THEOREM TypeCorrect == Spec => []TypeOK
<1>1. Inv => TypeOK
  BY DEF Inv
<1> QED BY <1>1, InvariantHolds, PTL

(* No two attempts of a work item are ever active together, with no help     *)
(* from the partial unique index attempts_one_active_per_work_item.          *)
THEOREM AtMostOneActiveAttempt == Spec => []OneActiveAttempt
<1>1. Inv => OneActiveAttempt
  BY DEF Inv, OneActiveAttempt, CurrentIsTheActiveAttempt
<1> QED BY <1>1, InvariantHolds, PTL

(* current_attempt_id and the active column always agree (work-store.ts      *)
(* 158-168): what the worker polls for is what startAttempt checks.          *)
THEOREM CurrentAttemptIsExact == Spec => []CurrentIsTheActiveAttempt
<1>1. Inv => CurrentIsTheActiveAttempt
  BY DEF Inv
<1> QED BY <1>1, InvariantHolds, PTL

(* The insert of startAttempt never meets a unique index violation.          *)
THEOREM InsertsAreAccepted == Spec => []InsertHitsNoUniqueIndex
<1>1. Inv => InsertHitsNoUniqueIndex
  <2> SUFFICES ASSUME Inv, NEW c \in Clients, tx[c].op = "startChecked",
                      items[tx[c].item].revision = tx[c].expected
               PROVE  /\ ActiveOf(tx[c].item) = {}
                      /\ \A a \in AttemptsOf(tx[c].item) :
                            attempts[a].number < NextAttemptNumber(tx[c].item)
    BY DEF InsertHitsNoUniqueIndex
  <2>1. tx[c].item \in Items
    BY TransactionFields DEF Inv
  <2>2. ActiveOf(tx[c].item) = {}
    BY DEF Inv, ReadsStillHold
  <2> QED BY <2>1, <2>2, NextNumberIsFresh DEF Inv
<1> QED BY <1>1, InvariantHolds, PTL

(* What a transaction checked holds at the moment its UPDATE matches.        *)
THEOREM ChecksHoldAtCommit == Spec => []ReadsStillHold
<1>1. Inv => ReadsStillHold
  BY DEF Inv
<1> QED BY <1>1, InvariantHolds, PTL
-----------------------------------------------------------------------------
(* Every step of the transactions is a step of the atomic store or leaves    *)
(* both tables alone.                                                        *)
LEMMA StepRefines ==
    ASSUME Inv, Next
    PROVE  [StoreNext]_store
<1>1. ASSUME NEW i \in Items, Create(i) PROVE StoreNext
  BY <1>1 DEF Create, StoreNext
<1>2. ASSUME NEW a \in Attempts, Bind(a) PROVE StoreNext
  BY <1>2 DEF Bind, StoreNext
<1>3. ASSUME NEW c \in Clients, CommitTransition(c) PROVE StoreNext
  <2>1. PICK i \in Items, to \in ItemStates :
          /\ i = tx[c].item /\ to = tx[c].to
          /\ tx[c].op = "transition" /\ items[i].revision = tx[c].expected
    BY <1>3, TransactionFields DEF Inv, CommitTransition
  <2>2. /\ ItemExists(i) /\ items[i].revision < MaxRevision
        /\ WorkItemMayMove(items[i].state, to)
    BY <2>1 DEF Inv, ReadsStillHold
  <2>3. items' = [items EXCEPT ![i].state = to, ![i].revision = items[i].revision + 1]
    <3>1. items' = [items EXCEPT ![i].state = to, ![i].revision = @ + 1]
      BY <1>3, <2>1 DEF CommitTransition
    <3> QED BY <3>1 DEF Inv, TypeOK, StoreTypeOK, ItemRow
  <2>4. UNCHANGED attempts
    BY <1>3 DEF CommitTransition
  <2>5. TransitionWorkItem(i, items[i].revision, to)
    BY <2>2, <2>3, <2>4 DEF TransitionWorkItem
  <2> QED BY <2>5 DEF StoreNext
<1>4. ASSUME NEW c \in Clients, NEW a \in Attempts, CommitStart(c, a) PROVE StoreNext
  <2>1. PICK i : i = tx[c].item
    OBVIOUS
  <2>2. i \in Items /\ StartAttempt(i, items[i].revision, a)
    BY <1>4, <2>1, CommitStartEffect DEF StartAttempt
  <2> QED BY <2>2 DEF StoreNext
<1>5. ASSUME NEW c \in Clients, CommitAttempt(c) PROVE StoreNext
  <2>1. PICK a \in Attempts, i \in Items, to \in AttemptStates :
          /\ AttemptExists(a) /\ AttemptMayMove(attempts[a].state, to)
          /\ attempts[a].item = i /\ items[i].current = a
          /\ attempts' = [attempts EXCEPT ![a].state = to,
                                          ![a].active = IsActiveAttemptState(to)]
          /\ items' = IF IsActiveAttemptState(to) THEN items
                      ELSE [items EXCEPT ![i].current = None]
    BY <1>5, CommitAttemptEffect
  <2>2. items' = IF ~IsActiveAttemptState(to) /\ items[attempts[a].item].current = a
                 THEN [items EXCEPT ![attempts[a].item].current = None]
                 ELSE items
    BY <2>1
  <2>3. TransitionAttempt(a, to)
    BY <2>1, <2>2 DEF TransitionAttempt
  <2> QED BY <2>3 DEF StoreNext
<1>6. ASSUME NEW c \in Clients, ClientStep(c) PROVE StoreNext \/ UNCHANGED store
  BY <1>6, <1>3, <1>4, <1>5 DEF ClientStep, ReadForTransition, ReadForStart,
       CheckNoActiveAttempt, ReadForAttempt, Conflict, LoseConnection
<1> QED BY <1>1, <1>2, <1>6 DEF Next

(* The READ COMMITTED transactions of work-store.ts implement the store with *)
(* atomic operations: for every number of clients, whatever they interleave, *)
(* callers cannot tell the two apart from the tables.                        *)
THEOREM TransactionsAreAtomic == Spec => ImplementsAtomicStore
<1>1. Init => StoreInit
  BY DEF Init
<1>2. Inv /\ [Next]_vars => [StoreNext]_store
  BY StepRefines DEF vars, store
<1> QED BY <1>1, <1>2, InvariantHolds, PTL DEF Spec, StoreSpec, ImplementsAtomicStore
-----------------------------------------------------------------------------
(* Steps of the atomic store do not move a terminal attempt.                 *)
LEMMA StoreKeepsTerminal ==
    ASSUME StoreTypeOK, [StoreNext]_store, NEW a \in Attempts,
           attempts[a].state \in TerminalAttemptStates
    PROVE  attempts'[a].state = attempts[a].state
<1>1. AttemptExists(a)
  BY ActiveStatesAreStates DEF AttemptExists
<1>2. ASSUME NEW b \in Attempts, NEW to \in AttemptStates, TransitionAttempt(b, to)
      PROVE  attempts'[a].state = attempts[a].state
  <2>1. b # a
    BY <1>2, OnlyActiveAttemptsMove, ActiveStatesAreStates DEF TransitionAttempt
  <2> QED BY <1>2, <2>1 DEF TransitionAttempt, StoreTypeOK
<1>3. ASSUME NEW i \in Items, NEW b \in Attempts, StartAttempt(i, items[i].revision, b)
      PROVE  attempts'[a].state = attempts[a].state
  BY <1>1, <1>3 DEF StartAttempt, StoreTypeOK
<1>4. ASSUME NEW b \in Attempts, BindAgentRun(b)
      PROVE  attempts'[a].state = attempts[a].state
  BY <1>4 DEF BindAgentRun, StoreTypeOK, AttemptRow
<1> QED BY <1>2, <1>3, <1>4 DEF StoreNext, store, CreateWorkItem, TransitionWorkItem

(* A terminal attempt is never restarted (F-014): a second writer that read  *)
(* it while active fails on the state its UPDATE asks for.                   *)
THEOREM TerminalIsFinal == Spec => TerminalAttemptsStay
<1>1. ASSUME Inv, [Next]_vars, NEW a \in Attempts,
             attempts[a].state \in TerminalAttemptStates
      PROVE  attempts'[a].state = attempts[a].state
  <2>1. [StoreNext]_store /\ StoreTypeOK
    BY <1>1, StepRefines DEF vars, store, Inv, TypeOK
  <2> QED BY <1>1, <2>1, StoreKeepsTerminal
<1>2. Inv /\ [Next]_vars =>
        [\A a \in Attempts : attempts[a].state \in TerminalAttemptStates
            => attempts[a].state' = attempts[a].state]_vars
  BY <1>1
<1> QED BY <1>2, InvariantHolds, PTL DEF Spec, TerminalAttemptsStay

(* A new attempt is numbered above all earlier attempts of its work item.    *)
THEOREM NumbersIncrease == Spec => AttemptNumbersIncrease
<1>1. ASSUME Inv, [Next]_vars, NEW a \in Attempts, NEW b \in Attempts,
             AttemptExists(a), ~AttemptExists(b), AttemptExists(b)',
             attempts[a].item = attempts'[b].item
      PROVE  attempts[a].number < attempts'[b].number
  <2>0. attempts \in [Attempts -> AttemptRow]
    BY <1>1 DEF Inv, TypeOK, StoreTypeOK
  <2>1. PICK c \in Clients : \E d \in Attempts : CommitStart(c, d)
    <3>1. ASSUME NEW c \in Clients, CommitAttempt(c) PROVE FALSE
      <4>1. PICK d \in Attempts : AttemptExists(d) /\
               \A e \in Attempts : e # d => attempts'[e] = attempts[e]
        BY <1>1, <2>0, <3>1, CommitAttemptEffect, ZenonT(60)
      <4> QED BY <1>1, <4>1 DEF AttemptExists
    <3>2. ASSUME NEW d \in Attempts, Bind(d) PROVE FALSE
      BY <1>1, <2>0, <3>2 DEF Bind, BindAgentRun, AttemptExists, AttemptRow
    <3>3. UNCHANGED attempts => FALSE
      BY <1>1 DEF AttemptExists
    <3> QED BY <1>1, <3>1, <3>2, <3>3 DEF Next, vars, store, ClientStep, Create,
              CreateWorkItem, ReadForTransition, ReadForStart, CheckNoActiveAttempt,
              ReadForAttempt, Conflict, LoseConnection, CommitTransition
  <2>2. PICK d \in Attempts : CommitStart(c, d)
    BY <2>1
  <2>3. PICK i \in Items, n \in Nat :
          /\ \A e \in AttemptsOf(i) : attempts[e].number < n
          /\ attempts' = [attempts EXCEPT ![d] =
                [state |-> "NOT_STARTED", item |-> i, number |-> n,
                 active |-> TRUE, bound |-> FALSE]]
    BY <1>1, <2>2, CommitStartEffect
  <2>4. d = b
    BY <1>1, <2>0, <2>3 DEF AttemptExists
  <2>5. attempts'[b].item = i /\ attempts'[b].number = n
    BY <2>0, <2>3, <2>4
  <2>6. a \in AttemptsOf(i)
    BY <1>1, <2>5 DEF AttemptsOf
  <2> QED BY <2>3, <2>5, <2>6
<1>2. Inv /\ [Next]_vars =>
        [\A a, b \in Attempts :
           /\ AttemptExists(a)
           /\ ~AttemptExists(b)
           /\ AttemptExists(b)'
           /\ attempts[a].item = attempts[b].item'
           => attempts[a].number < attempts[b].number']_vars
  BY <1>1
<1> QED BY <1>2, InvariantHolds, PTL DEF Spec, AttemptNumbersIncrease
=============================================================================
