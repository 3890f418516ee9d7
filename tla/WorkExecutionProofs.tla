------------------------ MODULE WorkExecutionProofs -------------------------
(* What holds of the execution of work items for any number of hosts,        *)
(* resumers, verifiers, items and attempts, and any bounds. The argument is  *)
(* the revision's: a process remembers a work item at a revision, and while  *)
(* the item still has that revision its state is the one that was read and   *)
(* its attempts are the ones that existed (Grows). An attempt that can still *)
(* move is the newest one of its item, so whoever settles an attempt and     *)
(* then finds the revision unchanged settles the newest (ProcessSound).      *)
EXTENDS WorkExecution, TLAPS

\* Absent rows are blank and an attempt belongs to a work item; the active
\* column says what the state column says.
Linked ==
    /\ \A a \in Attempts :
          /\ ~AttemptExists(a) =>
                attempts[a].item = None /\ ~attempts[a].active /\ ~attempts[a].bound
          /\ AttemptExists(a) => attempts[a].item \in Items
          /\ attempts[a].active <=> attempts[a].state \in ActiveAttemptStates
    /\ \A i \in Items : ~ItemExists(i) => items[i].revision = 0

\* The attempts of an item have numbers of their own, one of them the greatest.
Numbered ==
    /\ \A a, b \in Attempts :
          /\ AttemptExists(a) /\ AttemptExists(b)
          /\ attempts[a].item = attempts[b].item /\ attempts[a].number = attempts[b].number
          => a = b
    /\ \A i \in Items : AttemptsOf(i) # {} =>
          \E m \in AttemptsOf(i) : \A a \in AttemptsOf(i) :
             attempts[a].number <= attempts[m].number

\* Only the newest attempt of an item can be active.
ActiveIsNewest ==
    \A a \in Attempts : attempts[a].state \in ActiveAttemptStates => IsNewest(a)

StoreSound == StoreTypeOK /\ Linked /\ Numbered /\ ActiveIsNewest

\* What an engine or a resume may set out to write.
Outcomes ==
    {<<"FAILED", "RECOVERY_REQUIRED">>, <<"INTERRUPTED", "WAITING">>,
     <<"UNKNOWN", "RECOVERY_REQUIRED">>, <<"SUCCEEDED", "VERIFICATION_REQUIRED">>,
     <<"INTERRUPTED", "RECOVERY_REQUIRED">>, <<"CANCELLED", "RECOVERY_REQUIRED">>,
     <<"FAILED", "REPAIR_REQUIRED">>}

\* A process works on an attempt of its item, at a revision the item has had. In
\* between its two settling transactions the attempt is settled, and is the
\* newest one as long as the revision has not moved.
ProcessSound(w) ==
    /\ proc[w].pc \notin {"idle", "batch"} => proc[w].item \in Items
    /\ proc[w].pc \notin {"idle", "batch", "claim"} =>
          /\ proc[w].attempt \in Attempts /\ AttemptExists(proc[w].attempt)
          /\ attempts[proc[w].attempt].item = proc[w].item
          /\ proc[w].revision <= items[proc[w].item].revision
    /\ proc[w].pc \in {"settleAttempt", "settleItem"} =>
          <<proc[w].toAttempt, proc[w].toItem>> \in Outcomes
    /\ proc[w].pc = "settleItem" =>
          /\ proc[w].toAttempt \in TerminalAttemptStates =>
                attempts[proc[w].attempt].state = proc[w].toAttempt
          /\ items[proc[w].item].revision = proc[w].revision => IsNewest(proc[w].attempt)

\* What the caller saw as the newest attempt is an attempt of the item.
VerdictSound(d) == AttemptExists(d.seen) /\ attempts[d.seen].item = d.item

\* A verification is about what the item was at the revision it was read at.
CheckSound(v) ==
    /\ check[v].pc # "idle" =>
          /\ VerdictSound(check[v].verdict)
          /\ check[v].revision <= items[check[v].verdict.item].revision
          /\ items[check[v].verdict.item].revision = check[v].revision =>
                /\ items[check[v].verdict.item].state = "VERIFICATION_REQUIRED"
                /\ IsNewest(check[v].verdict.seen)
    /\ check[v].pc = "resolve" => check[v].verdict \in verdicts

IInv ==
    /\ TypeOK /\ StoreSound
    /\ \A w \in Writers : ProcessSound(w)
    /\ \A v \in Verifiers : CheckSound(v)
    /\ \A d \in verdicts : VerdictSound(d)
    /\ VerificationNeedsSuccess /\ CompletedIsVerified
-----------------------------------------------------------------------------
(* The tables: what every operation of the store leaves true.                 *)
\* Revisions only grow, and move whenever the state of an item or the set of its
\* attempts does; attempts keep their item and number; terminal ones stay.
Grows ==
    /\ \A i \in Items :
          /\ items'[i].revision >= items[i].revision
          /\ items'[i].revision = items[i].revision =>
                items'[i].state = items[i].state /\ AttemptsOf(i)' = AttemptsOf(i)
    /\ \A a \in Attempts : AttemptExists(a) =>
          /\ AttemptExists(a)'
          /\ attempts'[a].item = attempts[a].item
          /\ attempts'[a].number = attempts[a].number
          /\ attempts[a].state \in TerminalAttemptStates =>
                attempts'[a].state = attempts[a].state

LEMMA StatesApart ==
    /\ "ABSENT" \notin AttemptStates /\ "ABSENT" \notin ItemStates
    /\ "NOT_STARTED" \in ActiveAttemptStates
    /\ {"ASSIGNED", "DRAFT", "READY", "RUNNING"} \subseteq ItemStates
    /\ ActiveAttemptStates \subseteq AttemptStates
    /\ \A s \in TerminalAttemptStates : s \notin ActiveAttemptStates /\ s \in AttemptStates
    /\ \A s, t : AttemptMayMove(s, t) => s \in ActiveAttemptStates /\ t \in AttemptStates
BY DEF AttemptStates, ActiveAttemptStates, TerminalAttemptStates, ItemStates,
       AttemptMayMove, AttemptTransitions

LEMMA RowTypes ==
    ASSUME StoreTypeOK
    PROVE  /\ \A i \in Items : /\ items[i] \in ItemRow /\ items[i].revision \in Nat
                               /\ items[i].state \in ItemStates \cup {"ABSENT"}
           /\ \A a \in Attempts : /\ attempts[a] \in AttemptRow /\ attempts[a].number \in Nat
                                  /\ attempts[a].state \in AttemptStates \cup {"ABSENT"}
BY DEF StoreTypeOK, ItemRow, AttemptRow

\* The newest attempt stays newest while its item gets no other.
LEMMA NewestKept ==
    ASSUME Grows, Linked, NEW a \in Attempts, AttemptExists(a), IsNewest(a),
           NEW i \in Items, attempts[a].item = i, AttemptsOf(i)' = AttemptsOf(i)
    PROVE  IsNewest(a)'
<1>1. attempts'[a].item = i /\ attempts'[a].number = attempts[a].number
    BY DEF Grows
<1>2. \A b \in AttemptsOf(i) : b \in Attempts /\ AttemptExists(b)
    BY NoneIsNoId DEF AttemptsOf, Linked
<1>3. \A b \in AttemptsOf(i) : attempts'[b].number <= attempts'[a].number
    BY <1>1, <1>2 DEF Grows, IsNewest
<1> QED
    BY <1>1, <1>3 DEF IsNewest

\* An item has one newest attempt.
LEMMA NewestIsUnique ==
    ASSUME StoreSound, NEW a \in Attempts, NEW b \in Attempts, AttemptExists(a), AttemptExists(b),
           attempts[a].item = attempts[b].item, IsNewest(a), IsNewest(b)
    PROVE  a = b
<1>1. attempts[a].number \in Nat /\ attempts[b].number \in Nat
    BY RowTypes DEF StoreSound
<1>2. a \in AttemptsOf(attempts[b].item) /\ b \in AttemptsOf(attempts[a].item)
    BY DEF AttemptsOf
<1>3. attempts[a].number = attempts[b].number
    BY <1>1, <1>2 DEF IsNewest
<1> QED
    BY <1>3 DEF StoreSound, Numbered

LEMMA SameAttempts ==
    ASSUME UNCHANGED attempts
    PROVE  /\ \A i : AttemptsOf(i)' = AttemptsOf(i)
           /\ \A a : IsNewest(a)' <=> IsNewest(a)
           /\ \A a : AttemptExists(a)' <=> AttemptExists(a)
           /\ \A d : VerdictSound(d)' <=> VerdictSound(d)
           /\ Numbered => Numbered'
           /\ ActiveIsNewest => ActiveIsNewest'
<1>1. /\ \A i : AttemptsOf(i)' = AttemptsOf(i)
      /\ \A a : AttemptExists(a)' <=> AttemptExists(a)
    BY DEF AttemptsOf, AttemptExists
<1>2. \A a : IsNewest(a)' <=> IsNewest(a)
    BY <1>1 DEF IsNewest
<1>3. \A d : VerdictSound(d)' <=> VerdictSound(d)
    BY <1>1 DEF VerdictSound
<1>4. Numbered => Numbered'
    BY <1>1 DEF Numbered
<1>5. ActiveIsNewest => ActiveIsNewest'
    BY <1>2 DEF ActiveIsNewest
<1> QED
    BY <1>1, <1>2, <1>3, <1>4, <1>5

LEMMA Untouched ==
    ASSUME StoreSound, UNCHANGED store
    PROVE  Grows /\ StoreSound'
<1>1. UNCHANGED items /\ UNCHANGED attempts
    BY DEF store
<1>2. Grows
    BY <1>1, SameAttempts, RowTypes DEF Grows, StoreSound
<1>3. StoreTypeOK' /\ Linked'
    BY <1>1, SameAttempts DEF StoreSound, StoreTypeOK, Linked, ItemExists
<1> QED
    BY <1>1, <1>2, <1>3, SameAttempts DEF StoreSound

LEMMA Created ==
    ASSUME StoreSound, NEW i \in Items, CreateWorkItem(i)
    PROVE  /\ Grows /\ StoreSound' /\ UNCHANGED attempts
           /\ items'[i].state = "DRAFT" /\ \A j \in Items : j # i => items'[j] = items[j]
<1>1. /\ UNCHANGED attempts /\ items[i].revision = 0 /\ items'[i].revision = 1
      /\ items'[i].state = "DRAFT" /\ \A j \in Items : j # i => items'[j] = items[j]
    BY DEF CreateWorkItem, StoreSound, StoreTypeOK, Linked
<1>2. items' \in [Items -> ItemRow]
    BY StatesApart DEF CreateWorkItem, StoreSound, StoreTypeOK, ItemRow
<1>3. Grows
    BY <1>1, SameAttempts, RowTypes DEF Grows, StoreSound
<1>4. StoreTypeOK'
    BY <1>1, <1>2 DEF StoreTypeOK, StoreSound
<1>5. Linked'
    BY <1>1, SameAttempts DEF StoreSound, Linked, ItemExists
<1> QED
    BY <1>1, <1>3, <1>4, <1>5, SameAttempts DEF StoreSound

LEMMA Transitioned ==
    ASSUME StoreSound, NEW i \in Items, NEW r, NEW to \in ItemStates, TransitionWorkItem(i, r, to)
    PROVE  /\ Grows /\ StoreSound' /\ UNCHANGED attempts
           /\ items[i].revision = r /\ r \in Nat /\ items'[i].state = to
           /\ items'[i].revision = r + 1
           /\ \A j \in Items : j # i => items'[j] = items[j]
<1>1. items[i] \in ItemRow /\ r \in Nat /\ items[i].revision = r
    BY RowTypes DEF StoreSound, TransitionWorkItem
<1>2. /\ UNCHANGED attempts /\ items'[i].revision = r + 1
      /\ items'[i].state = to /\ \A j \in Items : j # i => items'[j] = items[j]
    BY <1>1 DEF TransitionWorkItem, StoreSound, StoreTypeOK, ItemRow
<1>3. items' \in [Items -> ItemRow]
    BY <1>1 DEF TransitionWorkItem, StoreSound, StoreTypeOK, ItemRow
<1>4. Grows
    BY <1>1, <1>2, SameAttempts, RowTypes DEF Grows, StoreSound
<1>5. StoreTypeOK'
    BY <1>2, <1>3 DEF StoreTypeOK, StoreSound
<1>6. Linked'
    BY <1>2, SameAttempts, StatesApart DEF StoreSound, Linked, ItemExists
<1> QED
    BY <1>1, <1>2, <1>4, <1>5, <1>6, SameAttempts DEF StoreSound

LEMMA BoundRun ==
    ASSUME StoreSound, NEW a \in Attempts, BindAgentRun(a)
    PROVE  Grows /\ StoreSound' /\ UNCHANGED items
<1>1. attempts[a] \in AttemptRow /\ UNCHANGED items
    BY DEF StoreSound, StoreTypeOK, BindAgentRun
<1>2. /\ \A b \in Attempts : /\ attempts'[b].state = attempts[b].state
                             /\ attempts'[b].item = attempts[b].item
                             /\ attempts'[b].number = attempts[b].number
                             /\ attempts'[b].active = attempts[b].active
      /\ \A b \in Attempts : b # a => attempts'[b].bound = attempts[b].bound
    BY <1>1 DEF StoreSound, StoreTypeOK, BindAgentRun, AttemptRow
<1>3. attempts' \in [Attempts -> AttemptRow]
    BY <1>1 DEF StoreSound, StoreTypeOK, BindAgentRun, AttemptRow
<1>4. /\ \A i : AttemptsOf(i)' = AttemptsOf(i)
      /\ \A b \in Attempts : AttemptExists(b)' <=> AttemptExists(b)
    BY <1>2 DEF AttemptsOf, AttemptExists
<1>5. \A b \in Attempts : IsNewest(b)' <=> IsNewest(b)
    BY <1>2, <1>4 DEF IsNewest, AttemptsOf
<1>6. Grows
    BY <1>1, <1>2, <1>4, RowTypes DEF Grows, StoreSound
<1>7. StoreTypeOK'
    BY <1>1, <1>3 DEF StoreTypeOK, StoreSound
<1>8. Linked'
    BY <1>1, <1>2, <1>4 DEF StoreSound, Linked, ItemExists, BindAgentRun
<1>9. Numbered'
    BY <1>2, <1>4 DEF StoreSound, Numbered, AttemptsOf
<1>10. ActiveIsNewest'
    BY <1>2, <1>5 DEF StoreSound, ActiveIsNewest
<1> QED
    BY <1>1, <1>6, <1>7, <1>8, <1>9, <1>10 DEF StoreSound

\* Only an attempt that is active, hence the newest of its item, moves.
LEMMA Moved ==
    ASSUME StoreSound, NEW a \in Attempts, NEW to, TransitionAttempt(a, to)
    PROVE  /\ Grows /\ StoreSound' /\ attempts'[a].state = to
           /\ IsNewest(a) /\ IsNewest(a)' /\ attempts[a].state \notin TerminalAttemptStates
           /\ \A i \in Items : /\ items'[i].state = items[i].state
                               /\ items'[i].revision = items[i].revision
<1>1. /\ attempts[a] \in AttemptRow /\ AttemptExists(a)
      /\ attempts[a].state \in ActiveAttemptStates /\ to \in AttemptStates
    BY StatesApart DEF StoreSound, StoreTypeOK, TransitionAttempt
<1>2. PICK x \in BOOLEAN : x = IsActiveAttemptState(to)
  <2>1. IsActiveAttemptState(to) \in BOOLEAN
    BY DEF IsActiveAttemptState
  <2> QED
    BY <2>1
<1>3. attempts' = [attempts EXCEPT ![a] = [attempts[a] EXCEPT !.state = to, !.active = x]]
    BY <1>1, <1>2 DEF TransitionAttempt, StoreSound, StoreTypeOK
<1>4. attempts' \in [Attempts -> AttemptRow]
  <2>1. [attempts[a] EXCEPT !.state = to, !.active = x] \in AttemptRow
    BY <1>1 DEF AttemptRow
  <2> QED
    BY <1>3, <2>1 DEF StoreSound, StoreTypeOK
<1>5. /\ attempts'[a].state = to /\ attempts'[a].active = x
      /\ \A b \in Attempts : b # a => attempts'[b] = attempts[b]
      /\ \A b \in Attempts : /\ attempts'[b].item = attempts[b].item
                             /\ attempts'[b].number = attempts[b].number
                             /\ attempts'[b].bound = attempts[b].bound
    BY <1>1, <1>3 DEF StoreSound, StoreTypeOK, AttemptRow
<1>6. /\ items' \in [Items -> ItemRow]
      /\ \A i \in Items : /\ items'[i].state = items[i].state
                          /\ items'[i].revision = items[i].revision
  <2>1. CASE items' = items
    BY <2>1 DEF StoreSound, StoreTypeOK
  <2>2. CASE items' = [items EXCEPT ![attempts[a].item].current = None]
    BY <2>2 DEF StoreSound, StoreTypeOK, ItemRow
  <2> QED
    BY <2>1, <2>2 DEF TransitionAttempt
<1>7. /\ \A i : AttemptsOf(i)' = AttemptsOf(i)
      /\ \A b \in Attempts : AttemptExists(b)' <=> AttemptExists(b)
    BY <1>1, <1>5, StatesApart DEF AttemptsOf, AttemptExists
<1>8. \A b \in Attempts : IsNewest(b)' <=> IsNewest(b)
    BY <1>5, <1>7 DEF IsNewest, AttemptsOf
<1>9. IsNewest(a)
    BY <1>1 DEF StoreSound, ActiveIsNewest
<1>10. attempts[a].state \notin TerminalAttemptStates
    BY <1>1, StatesApart
<1>11. Grows
    BY <1>5, <1>6, <1>7, <1>10, RowTypes DEF Grows, StoreSound
<1>12. StoreTypeOK'
    BY <1>4, <1>6 DEF StoreTypeOK
<1>13. Linked'
  <2>1. \A b \in Attempts :
           /\ ~AttemptExists(b)' =>
                 attempts'[b].item = None /\ ~attempts'[b].active /\ ~attempts'[b].bound
           /\ AttemptExists(b)' => attempts'[b].item \in Items
    BY <1>1, <1>5, <1>7 DEF StoreSound, Linked
  <2>2. \A b \in Attempts : attempts'[b].active <=> attempts'[b].state \in ActiveAttemptStates
    BY <1>2, <1>5 DEF StoreSound, Linked, IsActiveAttemptState
  <2>3. \A i \in Items : ~ItemExists(i)' => items'[i].revision = 0
    BY <1>6 DEF StoreSound, Linked, ItemExists
  <2> QED
    BY <2>1, <2>2, <2>3 DEF Linked
<1>14. Numbered'
    BY <1>5, <1>7 DEF StoreSound, Numbered, AttemptsOf
<1>15. ActiveIsNewest'
    BY <1>5, <1>8, <1>9 DEF StoreSound, ActiveIsNewest
<1> QED
    BY <1>5, <1>6, <1>8, <1>9, <1>10, <1>11, <1>12, <1>13, <1>14, <1>15 DEF StoreSound

\* MAX(attempt_number) + 1 is above every number of the item.
LEMMA NextNumberIsFresh ==
    ASSUME StoreSound, NEW i \in Items
    PROVE  /\ NextAttemptNumber(i) \in Nat
           /\ \A a \in AttemptsOf(i) : attempts[a].number < NextAttemptNumber(i)
<1> DEFINE Numbers == {attempts[a].number : a \in AttemptsOf(i)}
<1>1. CASE AttemptsOf(i) = {}
    BY <1>1 DEF NextAttemptNumber
<1>2. CASE AttemptsOf(i) # {}
  <2>1. Numbers \subseteq Nat
    BY RowTypes DEF StoreSound, AttemptsOf
  <2>2. PICK m \in AttemptsOf(i) : \A a \in AttemptsOf(i) : attempts[a].number <= attempts[m].number
    BY <1>2 DEF StoreSound, Numbered
  <2>3. attempts[m].number \in Numbers /\ \A y \in Numbers : attempts[m].number >= y
    BY <2>1, <2>2
  <2>4. Max(Numbers) \in Numbers /\ \A y \in Numbers : Max(Numbers) >= y
    BY <2>3 DEF Max
  <2>5. NextAttemptNumber(i) = Max(Numbers) + 1
    BY <1>2 DEF NextAttemptNumber
  <2>6. \A a \in AttemptsOf(i) : attempts[a].number \in Numbers
    OBVIOUS
  <2>7. Max(Numbers) \in Nat
    BY <2>1, <2>4
  <2>8. ASSUME NEW a \in AttemptsOf(i) PROVE attempts[a].number < NextAttemptNumber(i)
    <3>1. attempts[a].number \in Nat /\ Max(Numbers) >= attempts[a].number
      BY <2>1, <2>4, <2>6
    <3> QED
      BY <2>5, <2>7, <3>1
  <2> QED
    BY <2>5, <2>7, <2>8
<1> QED
    BY <1>1, <1>2

LEMMA StartedAttempt ==
    ASSUME StoreSound, NEW i \in Items, NEW r, NEW a \in Attempts, StartAttempt(i, r, a)
    PROVE  /\ Grows /\ StoreSound' /\ AttemptExists(a)' /\ attempts'[a].item = i
           /\ items[i].revision = r /\ r \in Nat /\ items'[i].revision = r + 1
           /\ items'[i].state = "ASSIGNED"
           /\ \A j \in Items : j # i => items'[j] = items[j]
<1>1. PICK n \in Nat : /\ n = NextAttemptNumber(i)
                       /\ \A b \in AttemptsOf(i) : attempts[b].number < n
    BY NextNumberIsFresh
<1>2. /\ ~AttemptExists(a) /\ ActiveOf(i) = {} /\ items[i].revision = r /\ r \in Nat
    BY RowTypes DEF StartAttempt, StoreSound
<1>3. /\ items'[i].revision = r + 1 /\ items'[i].state = "ASSIGNED"
      /\ \A j \in Items : j # i => items'[j] = items[j]
    BY DEF StartAttempt, StoreSound, StoreTypeOK
<1>4. /\ attempts'[a] = [state |-> "NOT_STARTED", item |-> i, number |-> n, active |-> TRUE,
                         bound |-> FALSE]
      /\ \A b \in Attempts : b # a => attempts'[b] = attempts[b]
    BY <1>1 DEF StartAttempt, StoreSound, StoreTypeOK
<1>5. StoreTypeOK'
  <2>1. items' \in [Items -> ItemRow]
    BY <1>2, StatesApart DEF StartAttempt, StoreSound, StoreTypeOK, ItemRow
  <2>2. attempts' \in [Attempts -> AttemptRow]
    BY <1>1, StatesApart DEF StartAttempt, StoreSound, StoreTypeOK, AttemptRow
  <2> QED
    BY <2>1, <2>2 DEF StoreTypeOK
<1>6. attempts[a].item = None /\ ~attempts[a].active
    BY <1>2 DEF StoreSound, Linked
<1>7. AttemptsOf(i)' = AttemptsOf(i) \cup {a} /\ a \notin AttemptsOf(i)
    BY <1>4, <1>6, NoneIsNoId DEF AttemptsOf
<1>8. \A j \in Items : j # i => AttemptsOf(j)' = AttemptsOf(j)
    BY <1>4, <1>6, NoneIsNoId DEF AttemptsOf
<1>9. /\ AttemptExists(a)'
      /\ \A b \in Attempts : b # a => (AttemptExists(b)' <=> AttemptExists(b))
    BY <1>4 DEF AttemptExists
<1>10. Grows
  <2>1. \A j \in Items :
           /\ items'[j].revision >= items[j].revision
           /\ items'[j].revision = items[j].revision =>
                 items'[j].state = items[j].state /\ AttemptsOf(j)' = AttemptsOf(j)
    BY <1>2, <1>3, <1>8, RowTypes DEF StoreSound
  <2> QED
    BY <1>2, <1>4, <1>9, <2>1 DEF Grows
<1>11. Linked'
  <2>1. \A b \in Attempts :
           /\ ~AttemptExists(b)' =>
                 attempts'[b].item = None /\ ~attempts'[b].active /\ ~attempts'[b].bound
           /\ AttemptExists(b)' => attempts'[b].item \in Items
           /\ attempts'[b].active <=> attempts'[b].state \in ActiveAttemptStates
    BY <1>4, <1>9, StatesApart DEF StoreSound, Linked
  <2>2. \A j \in Items : ~ItemExists(j)' => items'[j].revision = 0
    BY <1>3 DEF StoreSound, Linked, ItemExists
  <2> QED
    BY <2>1, <2>2 DEF Linked
<1>12. Numbered'
  <2>1. ASSUME NEW b \in Attempts, NEW c \in Attempts, AttemptExists(b)', AttemptExists(c)',
               attempts'[b].item = attempts'[c].item, attempts'[b].number = attempts'[c].number
        PROVE  b = c
    <3>1. \A x \in Attempts : x # a /\ attempts[x].item = i => attempts[x].number < n
      BY <1>1 DEF AttemptsOf
    <3>2. \A x \in Attempts : attempts[x].number \in Nat
      BY RowTypes DEF StoreSound
    <3>3. CASE b # a /\ c # a
      BY <1>4, <1>9, <2>1, <3>3 DEF StoreSound, Numbered
    <3>4. CASE b = a /\ c # a
      BY <1>1, <1>4, <2>1, <3>1, <3>2, <3>4
    <3>5. CASE b # a /\ c = a
      BY <1>1, <1>4, <2>1, <3>1, <3>2, <3>5
    <3> QED
      BY <3>3, <3>4, <3>5
  <2>2. ASSUME NEW j \in Items, AttemptsOf(j)' # {}
        PROVE  \E m \in AttemptsOf(j)' : \A b \in AttemptsOf(j)' :
                  attempts'[b].number <= attempts'[m].number
    <3>1. CASE j = i
      <4>1. \A b \in AttemptsOf(i) : b \in Attempts /\ b # a /\ attempts[b].number \in Nat
        BY <1>7, RowTypes DEF StoreSound, AttemptsOf
      <4>2. \A b \in AttemptsOf(i)' : attempts'[b].number <= attempts'[a].number
        BY <1>1, <1>4, <1>7, <4>1
      <4> QED
        BY <1>7, <3>1, <4>2
    <3>2. CASE j # i
      <4>1. \A b \in AttemptsOf(j) : b \in Attempts /\ b # a
        BY <1>6, NoneIsNoId DEF AttemptsOf
      <4> QED
        BY <1>4, <1>8, <2>2, <3>2, <4>1 DEF StoreSound, Numbered
    <3> QED
      BY <3>1, <3>2
  <2> QED
    BY <2>1, <2>2 DEF Numbered
<1>13. ActiveIsNewest'
  <2> SUFFICES ASSUME NEW b \in Attempts, attempts'[b].state \in ActiveAttemptStates
               PROVE  IsNewest(b)'
    BY DEF ActiveIsNewest
  <2>1. CASE b = a
    <3>1. \A c \in AttemptsOf(i) : c \in Attempts /\ c # a /\ attempts[c].number \in Nat
      BY <1>7, RowTypes DEF StoreSound, AttemptsOf
    <3>2. \A c \in AttemptsOf(i)' : attempts'[c].number <= attempts'[a].number
      BY <1>1, <1>4, <1>7, <3>1
    <3> QED
      BY <1>4, <2>1, <3>2 DEF IsNewest
  <2>2. CASE b # a
    <3>1. attempts[b].state \in ActiveAttemptStates /\ AttemptExists(b) /\ attempts[b].active
      BY <1>4, <2>2, StatesApart DEF AttemptExists, StoreSound, Linked
    <3>2. attempts[b].item \in Items /\ attempts[b].item # i /\ IsNewest(b)
      BY <1>2, <3>1 DEF ActiveOf, AttemptsOf, StoreSound, Linked, ActiveIsNewest
    <3> QED
      BY <1>8, <1>10, <3>1, <3>2, NewestKept DEF StoreSound
  <2> QED
    BY <2>1, <2>2
<1> QED
    BY <1>2, <1>3, <1>4, <1>5, <1>9, <1>10, <1>11, <1>12, <1>13 DEF StoreSound

-----------------------------------------------------------------------------
(* What the steps of others leave true of a process, a verification and the   *)
(* items that wait for verification or are completed.                         *)
RunRow == [status : RunStatuses, evidence : BOOLEAN]

LEMMA ProcessKept ==
    ASSUME IInv, Grows, StoreSound', NEW w \in Writers, proc'[w] = proc[w]
    PROVE  ProcessSound(w)'
<1>1. ProcessSound(w) /\ proc[w].revision \in Nat /\ StoreSound
    BY DEF IInv, TypeOK, Process
<1>2. proc[w].pc \notin {"idle", "batch"} => proc[w].item \in Items
    BY <1>1 DEF ProcessSound
<1>3. ASSUME proc[w].pc \notin {"idle", "batch", "claim"}
      PROVE  /\ proc[w].attempt \in Attempts /\ AttemptExists(proc[w].attempt)
             /\ AttemptExists(proc[w].attempt)'
             /\ attempts[proc[w].attempt].item = proc[w].item
             /\ attempts'[proc[w].attempt].item = proc[w].item
             /\ proc[w].revision <= items[proc[w].item].revision
             /\ proc[w].revision <= items'[proc[w].item].revision
             /\ items'[proc[w].item].revision = proc[w].revision =>
                   items[proc[w].item].revision = proc[w].revision
  <2>1. /\ proc[w].attempt \in Attempts /\ AttemptExists(proc[w].attempt)
        /\ attempts[proc[w].attempt].item = proc[w].item /\ proc[w].item \in Items
        /\ proc[w].revision <= items[proc[w].item].revision
    BY <1>1, <1>3 DEF ProcessSound
  <2>2. /\ items[proc[w].item].revision \in Nat /\ items'[proc[w].item].revision \in Nat
        /\ items'[proc[w].item].revision >= items[proc[w].item].revision
    BY <1>1, <2>1 DEF StoreSound, StoreTypeOK, ItemRow, Grows
  <2>3. AttemptExists(proc[w].attempt)' /\ attempts'[proc[w].attempt].item = proc[w].item
    BY <2>1 DEF Grows, AttemptExists
  <2> QED
    BY <1>1, <2>1, <2>2, <2>3
<1>4. ASSUME proc[w].pc = "settleItem"
      PROVE  /\ proc[w].toAttempt \in TerminalAttemptStates =>
                   attempts'[proc[w].attempt].state = proc[w].toAttempt
             /\ items'[proc[w].item].revision = proc[w].revision => IsNewest(proc[w].attempt)'
  <2>1. proc[w].item \in Items
    BY <1>2, <1>4
  <2>2. proc[w].toAttempt \in TerminalAttemptStates =>
           attempts'[proc[w].attempt].state = proc[w].toAttempt
    BY <1>1, <1>3, <1>4 DEF ProcessSound, Grows
  <2>3. ASSUME items'[proc[w].item].revision = proc[w].revision
        PROVE  IsNewest(proc[w].attempt)'
    <3> DEFINE a == proc[w].attempt
    <3>1. items[proc[w].item].revision = proc[w].revision
      BY <1>3, <1>4, <2>3
    <3>3. PICK i \in Items : i = proc[w].item
      BY <2>1
    <3>4. AttemptsOf(i)' = AttemptsOf(i)
      BY <2>3, <3>1, <3>3 DEF Grows
    <3>5. IsNewest(a) /\ a \in Attempts /\ AttemptExists(a) /\ attempts[a].item = i
      BY <1>1, <1>3, <1>4, <3>1, <3>3 DEF ProcessSound
    <3>6. \A b \in Attempts : AttemptExists(b) /\ IsNewest(b) /\ attempts[b].item = i => IsNewest(b)'
      BY <1>1, <3>4, NewestKept DEF StoreSound
    <3>7. PICK b \in Attempts : b = a
      BY <3>5
    <3>8. IsNewest(b)'
      BY <3>5, <3>6, <3>7
    <3> QED
      BY <3>7, <3>8 DEF IsNewest
  <2> QED
    BY <2>2, <2>3
<1>5. proc[w].pc \in {"settleAttempt", "settleItem"} =>
         <<proc[w].toAttempt, proc[w].toItem>> \in Outcomes
    BY <1>1 DEF ProcessSound
<1> QED
    BY <1>2, <1>3, <1>4, <1>5 DEF ProcessSound

LEMMA VerdictKept ==
    ASSUME Grows, NEW d \in Verdict, VerdictSound(d)
    PROVE  VerdictSound(d)'
BY DEF Grows, VerdictSound, Verdict

LEMMA CheckShape ==
    ASSUME TypeOK, NEW v \in Verifiers, check[v].pc # "idle"
    PROVE  /\ check[v].verdict \in Verdict /\ check[v].revision \in Nat
           /\ check[v].verdict.item \in Items /\ check[v].verdict.seen \in Attempts
           /\ check[v].verdict.status \in VerificationStatuses
           /\ check[v] \in [pc : {"save", "resolve"}, revision : Nat, verdict : Verdict]
BY DEF TypeOK, Check, NoCheck, Verdict

LEMMA CheckKept ==
    ASSUME IInv, Grows, StoreSound', NEW v \in Verifiers, check'[v] = check[v],
           verdicts \subseteq verdicts'
    PROVE  CheckSound(v)'
<1>1. CheckSound(v) /\ TypeOK /\ StoreSound
    BY DEF IInv
<1>2. check[v].pc = "resolve" => check[v].verdict \in verdicts'
    BY <1>1 DEF CheckSound
<1>3. CASE check[v].pc = "idle"
    BY <1>3 DEF CheckSound
<1>4. CASE check[v].pc # "idle"
  <2>1. PICK d \in Verdict, i \in Items, a \in Attempts, r \in Nat :
           d = check[v].verdict /\ i = d.item /\ a = d.seen /\ r = check[v].revision
    BY <1>1, <1>4, CheckShape
  <2>2. /\ VerdictSound(d) /\ r <= items[i].revision
        /\ items[i].revision = r => items[i].state = "VERIFICATION_REQUIRED" /\ IsNewest(a)
    BY <1>1, <1>4, <2>1 DEF CheckSound
  <2>3. VerdictSound(d)'
    BY <2>2, VerdictKept
  <2>4. /\ items[i].revision \in Nat /\ items'[i].revision \in Nat
        /\ items'[i].revision >= items[i].revision
    BY <1>1 DEF StoreSound, StoreTypeOK, ItemRow, Grows
  <2>5. r <= items'[i].revision /\ (items'[i].revision = r => items[i].revision = r)
    BY <2>2, <2>4
  <2>6. ASSUME items'[i].revision = r
        PROVE  items'[i].state = "VERIFICATION_REQUIRED" /\ IsNewest(a)'
    <3>1. items[i].revision = r /\ AttemptsOf(i)' = AttemptsOf(i) /\ items'[i].state = items[i].state
      BY <2>5, <2>6 DEF Grows
    <3>2. IsNewest(a) /\ AttemptExists(a) /\ attempts[a].item = i
      BY <2>1, <2>2, <3>1 DEF VerdictSound
    <3>3. IsNewest(a)'
      BY <1>1, <3>1, <3>2, NewestKept DEF StoreSound
    <3> QED
      BY <2>2, <3>1, <3>3
  <2>7. /\ check'[v].verdict = d /\ check'[v].verdict.item = i /\ check'[v].verdict.seen = a
        /\ check'[v].revision = r
    BY <2>1
  <2>8. VerdictSound(check[v].verdict)' /\ (IsNewest(a)' => IsNewest(check[v].verdict.seen)')
    BY <2>3, <2>7 DEF VerdictSound, AttemptExists, IsNewest
  <2> QED
    BY <1>2, <2>5, <2>6, <2>7, <2>8 DEF CheckSound
<1> QED
    BY <1>3, <1>4

\* No item comes to wait for verification, or to be completed.
NobodyPresents ==
    \A i \in Items : items'[i].state \in {"VERIFICATION_REQUIRED", "COMPLETED"} =>
                        items'[i].revision = items[i].revision

LEMMA VerifiedKept ==
    ASSUME IInv, Grows, StoreSound', NobodyPresents,
           evidence \subseteq evidence', verdicts \subseteq verdicts'
    PROVE  VerificationNeedsSuccess' /\ CompletedIsVerified'
<1>1. StoreSound /\ VerificationNeedsSuccess /\ CompletedIsVerified /\ TypeOK
    BY DEF IInv
<1>2. ASSUME NEW a \in Attempts, AttemptExists(a)', IsNewest(a)',
             items'[attempts'[a].item].state \in {"VERIFICATION_REQUIRED", "COMPLETED"}
      PROVE  attempts'[a].state = "SUCCEEDED"
  <2>1. PICK i \in Items : i = attempts'[a].item
    BY <1>2 DEF StoreSound, Linked
  <2>2. AttemptsOf(i)' = AttemptsOf(i) /\ items'[i].state = items[i].state
    BY <1>2, <2>1 DEF NobodyPresents, Grows
  <2>3. a \in AttemptsOf(i)
    BY <2>1, <2>2 DEF AttemptsOf
  <2>4. attempts[a].item = i /\ AttemptExists(a)
    BY <1>1, <2>3, NoneIsNoId DEF AttemptsOf, StoreSound, Linked
  <2>5. \A b \in AttemptsOf(i) : b \in Attempts /\ AttemptExists(b)
    BY <1>1, NoneIsNoId DEF AttemptsOf, StoreSound, Linked
  <2>6. IsNewest(a)
    BY <1>2, <2>1, <2>2, <2>3, <2>4, <2>5 DEF IsNewest, Grows
  <2>7. attempts[a].state = "SUCCEEDED"
    BY <1>1, <1>2, <2>1, <2>2, <2>4, <2>6 DEF VerificationNeedsSuccess
  <2> QED
    BY <2>4, <2>7 DEF Grows, TerminalAttemptStates
<1>3. ASSUME NEW i \in Items, items'[i].state = "COMPLETED"
      PROVE  \E d \in verdicts' : /\ d.item = i /\ d.status = "PASS"
                                  /\ d.evidence # {} /\ d.evidence \subseteq evidence' \cap AttemptsOf(i)'
                                  /\ IsNewest(d.seen)'
  <2>1. AttemptsOf(i)' = AttemptsOf(i) /\ items[i].state = "COMPLETED"
    BY <1>3 DEF NobodyPresents, Grows
  <2>2. PICK d \in verdicts : /\ d.item = i /\ d.status = "PASS"
                              /\ d.evidence # {} /\ d.evidence \subseteq evidence \cap AttemptsOf(i)
                              /\ IsNewest(d.seen)
    BY <1>1, <2>1 DEF CompletedIsVerified
  <2>3. /\ d.seen \in Attempts /\ AttemptExists(d.seen)
        /\ attempts[d.seen].item = i
    BY <1>1, <2>2 DEF IInv, TypeOK, Verdict, VerdictSound
  <2>4. IsNewest(d.seen)'
    BY <1>1, <2>1, <2>2, <2>3, NewestKept DEF StoreSound
  <2> QED
    BY <2>1, <2>2, <2>4
<1>4. VerificationNeedsSuccess'
    BY <1>2 DEF VerificationNeedsSuccess, AttemptExists
<1>5. CompletedIsVerified'
    BY <1>3 DEF CompletedIsVerified
<1> QED
    BY <1>4, <1>5

\* What is left to show of a step.
LEMMA Step ==
    ASSUME IInv, TypeOK', Grows, StoreSound',
           \A w \in Writers : proc'[w] = proc[w] \/ ProcessSound(w)',
           \A v \in Verifiers : check'[v] = check[v] \/ CheckSound(v)',
           verdicts \subseteq verdicts', \A d \in verdicts' : d \in verdicts \/ VerdictSound(d)',
           evidence \subseteq evidence',
           NobodyPresents \/ (VerificationNeedsSuccess' /\ CompletedIsVerified')
    PROVE  IInv'
<1>1. \A w \in Writers : ProcessSound(w)'
    BY ProcessKept
<1>2. \A v \in Verifiers : CheckSound(v)'
    BY CheckKept
<1>3. \A d \in verdicts' : VerdictSound(d)'
  <2> SUFFICES ASSUME NEW d \in verdicts', d \in verdicts PROVE VerdictSound(d)'
    OBVIOUS
  <2>1. d \in Verdict /\ VerdictSound(d)
    BY DEF IInv, TypeOK
  <2> QED
    BY <2>1, VerdictKept
<1>4. VerificationNeedsSuccess' /\ CompletedIsVerified'
    BY VerifiedKept
<1> QED
    BY <1>1, <1>2, <1>3, <1>4 DEF IInv

-----------------------------------------------------------------------------
(* How a process goes on.                                                     *)
LEMMA QuietIsAProcess ==
    /\ Quiet \in Process /\ [Quiet EXCEPT !.pc = "batch"] \in Process
    /\ \A i \in Items, r \in Nat :
          [Quiet EXCEPT !.pc = "claim", !.item = i, !.revision = r] \in Process
    /\ \A i \in Items, r \in Nat, a \in Attempts :
          [Quiet EXCEPT !.pc = "resume", !.item = i, !.attempt = a, !.revision = r] \in Process
<1>1. Quiet \in Process
    BY DEF Quiet, Process, AttemptStates, TerminalAttemptStates, ItemStates
<1>2. \A y \in Process :
         /\ [y EXCEPT !.pc = "batch"] \in Process
         /\ \A i \in Items, r \in Nat :
               [y EXCEPT !.pc = "claim", !.item = i, !.revision = r] \in Process
         /\ \A i \in Items, r \in Nat, a \in Attempts :
               [y EXCEPT !.pc = "resume", !.item = i, !.attempt = a, !.revision = r] \in Process
    BY ZenonT(60) DEF Process, EnginePCs
<1> QED
    BY <1>1, <1>2

\* A step of one process that leaves the records of evidence and verification
\* alone and presents nothing for verification.
LEMMA ProcessStep ==
    ASSUME IInv, NEW w \in Writers, NEW q \in Process, proc' = [proc EXCEPT ![w] = q],
           StoreSound', Grows, UNCHANGED <<evidence, verdicts, check>>,
           batch' \in [Hosts -> SUBSET [item : Items, revision : Nat]],
           run' \in [Attempts -> RunRow], faults' \in 0..MaxFaults,
           ProcessSound(w)', NobodyPresents
    PROVE  IInv'
<1>1. proc' \in [Writers -> Process] /\ \A u \in Writers : u # w => proc'[u] = proc[u]
    BY DEF IInv, TypeOK
<1>2. TypeOK'
    BY <1>1 DEF IInv, TypeOK, StoreSound, RunRow
<1> QED
    BY <1>1, <1>2, Step

\* Writing nothing or settling an attempt presents nothing for verification.
LEMMA SameStatesPresentNothing ==
    ASSUME \A i \in Items : items'[i].revision = items[i].revision
    PROVE  NobodyPresents
BY DEF NobodyPresents

LEMMA ReturnStep ==
    ASSUME IInv, NEW w \in Writers, Return(w), StoreSound', Grows,
           UNCHANGED <<evidence, verdicts, check, batch, run>>, faults' \in 0..MaxFaults,
           NobodyPresents
    PROVE  IInv'
<1> DEFINE q == IF w \in Hosts /\ batch[w] # {} THEN [Quiet EXCEPT !.pc = "batch"] ELSE Quiet
<1>1. q \in Process /\ q.pc \in {"idle", "batch"}
    BY QuietIsAProcess DEF Quiet
<1>2. proc' = [proc EXCEPT ![w] = q]
    BY DEF Return
<1> HIDE DEF q
<1>3. proc'[w] = q
    BY <1>2 DEF IInv, TypeOK
<1>4. ProcessSound(w)'
    BY <1>1, <1>3 DEF ProcessSound
<1>5. /\ batch' \in [Hosts -> SUBSET [item : Items, revision : Nat]]
      /\ run' \in [Attempts -> RunRow]
    BY DEF IInv, TypeOK, RunRow
<1> QED
    BY <1>1, <1>2, <1>4, <1>5, ProcessStep

\* A process that stays with its item and attempt, before it has settled them.
LEMMA WorkStep ==
    ASSUME IInv, NEW w \in Writers, NEW q \in Process, proc' = [proc EXCEPT ![w] = q],
           proc[w].pc \notin {"idle", "batch", "claim"},
           q.item = proc[w].item, q.attempt = proc[w].attempt,
           q.revision <= items'[proc[w].item].revision, q.pc # "settleItem",
           q.pc = "settleAttempt" => <<q.toAttempt, q.toItem>> \in Outcomes,
           StoreSound', Grows, UNCHANGED records,
           run' \in [Attempts -> RunRow], faults' \in 0..MaxFaults, NobodyPresents
    PROVE  IInv'
<1>1. ProcessSound(w) /\ proc'[w] = q
    BY DEF IInv, TypeOK
<1>2. /\ q.attempt \in Attempts /\ AttemptExists(q.attempt)
      /\ attempts[q.attempt].item = q.item /\ q.item \in Items
    BY <1>1 DEF ProcessSound
<1>3. AttemptExists(q.attempt)' /\ attempts'[q.attempt].item = q.item
    BY <1>2 DEF Grows, AttemptExists
<1>4. ProcessSound(w)'
    BY <1>1, <1>2, <1>3 DEF ProcessSound, AttemptExists
<1> QED
    BY <1>4, ProcessStep DEF records, IInv, TypeOK

\* The revision a process holds is one its item has had.
LEMMA RevisionHeld ==
    ASSUME IInv, Grows, StoreSound', NEW w \in Writers, proc[w].pc \notin {"idle", "batch", "claim"}
    PROVE  /\ proc[w].item \in Items /\ proc[w].attempt \in Attempts
           /\ proc[w] \in Process /\ proc[w].revision \in Nat
           /\ AttemptExists(proc[w].attempt) /\ attempts[proc[w].attempt].item = proc[w].item
           /\ proc[w].revision <= items'[proc[w].item].revision
<1>1. /\ proc[w].item \in Items /\ proc[w].attempt \in Attempts /\ proc[w] \in Process
      /\ AttemptExists(proc[w].attempt) /\ attempts[proc[w].attempt].item = proc[w].item
      /\ proc[w].revision <= items[proc[w].item].revision
    BY DEF IInv, ProcessSound, TypeOK
<1>2. proc[w].revision \in Nat
    BY <1>1 DEF Process
<1>3. /\ items[proc[w].item].revision \in Nat /\ items'[proc[w].item].revision \in Nat
      /\ items'[proc[w].item].revision >= items[proc[w].item].revision
    BY <1>1 DEF StoreSound, StoreTypeOK, ItemRow, Grows, IInv
<1> QED
    BY <1>1, <1>2, <1>3

LEMMA GoesOn ==
    ASSUME IInv, NEW w \in Writers, NEW pc, Goto(w, pc),
           pc \in {"running", "itemRunning", "bind", "collect"},
           proc[w].pc \notin {"idle", "batch", "claim"},
           StoreSound', Grows, UNCHANGED records,
           run' \in [Attempts -> RunRow], faults' \in 0..MaxFaults, NobodyPresents
    PROVE  IInv'
<1> DEFINE q == [proc[w] EXCEPT !.pc = pc]
<1>1. proc[w] \in Process /\ proc[w].revision <= items'[proc[w].item].revision
    BY RevisionHeld
<1>2. q \in Process /\ proc' = [proc EXCEPT ![w] = q]
    BY <1>1 DEF Goto, Process, EnginePCs
<1>3. /\ q.pc = pc /\ q.item = proc[w].item /\ q.attempt = proc[w].attempt
      /\ q.revision = proc[w].revision
    BY <1>1 DEF Process
<1> HIDE DEF q
<1> QED
    BY <1>1, <1>2, <1>3, WorkStep

LEMMA SetsOutToSettle ==
    ASSUME IInv, NEW w \in Writers, NEW outcome, NEW keep \in BOOLEAN, Settle(w, outcome, keep),
           <<outcome.attempt, outcome.item>> \in Outcomes,
           proc[w].pc \notin {"idle", "batch", "claim"},
           StoreSound', Grows, UNCHANGED records,
           run' \in [Attempts -> RunRow], faults' \in 0..MaxFaults, NobodyPresents
    PROVE  IInv'
<1> DEFINE q == [proc[w] EXCEPT !.pc = "settleAttempt", !.toAttempt = outcome.attempt,
                                !.toItem = outcome.item, !.keep = keep]
<1>1. proc[w] \in Process /\ proc[w].revision <= items'[proc[w].item].revision
    BY RevisionHeld
<1>2. outcome.attempt \in AttemptStates /\ outcome.item \in ItemStates
    BY DEF Outcomes, AttemptStates, ActiveAttemptStates, TerminalAttemptStates, ItemStates
<1>3. q \in Process
  <2>1. \A y \in Process, s \in AttemptStates, t \in ItemStates :
           [y EXCEPT !.pc = "settleAttempt", !.toAttempt = s, !.toItem = t, !.keep = keep] \in Process
    BY DEF Process, EnginePCs
  <2> QED
    BY <1>1, <1>2, <2>1
<1>4. proc' = [proc EXCEPT ![w] = q]
    BY DEF Settle
<1>5. /\ q.pc = "settleAttempt" /\ q.item = proc[w].item /\ q.attempt = proc[w].attempt
      /\ q.revision = proc[w].revision /\ q.toAttempt = outcome.attempt /\ q.toItem = outcome.item
    BY <1>1 DEF Process
<1> HIDE DEF q
<1> QED
    BY <1>1, <1>3, <1>4, <1>5, WorkStep

LEMMA OutcomesOfTheEngine ==
    /\ <<Broken.attempt, Broken.item>> \in Outcomes
    /\ <<Paused.attempt, Paused.item>> \in Outcomes
    /\ <<Unclear.attempt, Unclear.item>> \in Outcomes
    /\ \A s : <<MapResult(s).attempt, MapResult(s).item>> \in Outcomes
<1>1. /\ <<Broken.attempt, Broken.item>> \in Outcomes
      /\ <<Paused.attempt, Paused.item>> \in Outcomes
      /\ <<Unclear.attempt, Unclear.item>> \in Outcomes
    BY DEF Broken, Paused, Unclear, Outcomes
<1>2. ASSUME NEW s PROVE <<MapResult(s).attempt, MapResult(s).item>> \in Outcomes
  <2>1. CASE s = "COMPLETED"
    BY <2>1 DEF MapResult, Outcomes
  <2>2. CASE s \in {"INTERRUPTED", "CANCELLED"}
    BY <2>2 DEF MapResult, Outcomes
  <2>3. CASE s \notin {"COMPLETED", "INTERRUPTED", "CANCELLED"}
    BY <2>3 DEF MapResult, Outcomes
  <2> QED
    BY <2>1, <2>2, <2>3
<1> QED
    BY <1>1, <1>2

-----------------------------------------------------------------------------
(* The steps.                                                                 *)
LEMMA InitHolds == Init => IInv
<1> SUFFICES ASSUME Init PROVE IInv
    OBVIOUS
<1> USE DEF Init, StoreInit, AbsentItem, AbsentAttempt
<1>1. StoreTypeOK
    BY DEF StoreTypeOK, ItemRow, AttemptRow
<1>2. TypeOK
  <2>1. run \in [Attempts -> [status : RunStatuses, evidence : BOOLEAN]]
    BY DEF RunStatuses
  <2>2. proc \in [Writers -> Process]
    BY QuietIsAProcess
  <2>3. check \in [Verifiers -> Check] /\ batch \in [Hosts -> SUBSET [item : Items, revision : Nat]]
    BY DEF Check
  <2>4. faults \in 0..MaxFaults
    BY ExecutionBounds
  <2> QED
    BY <1>1, <2>1, <2>2, <2>3, <2>4 DEF TypeOK
<1>3. \A a \in Attempts : ~AttemptExists(a) /\ attempts[a].state \notin ActiveAttemptStates
    BY StatesApart DEF AttemptExists
<1>4. Linked
    BY <1>3 DEF Linked, ItemExists
<1>5. \A i \in Items : AttemptsOf(i) = {}
    BY NoneIsNoId DEF AttemptsOf
<1>6. Numbered /\ ActiveIsNewest
    BY <1>3, <1>5 DEF Numbered, ActiveIsNewest
<1>7. \A w \in Writers : ProcessSound(w)
    BY DEF ProcessSound, Quiet
<1>8. \A v \in Verifiers : CheckSound(v)
    BY DEF CheckSound, NoCheck
<1>9. VerificationNeedsSuccess
    BY <1>3 DEF VerificationNeedsSuccess
<1>10. CompletedIsVerified
    BY DEF CompletedIsVerified
<1> QED
    BY <1>1, <1>2, <1>4, <1>6, <1>7, <1>8, <1>9, <1>10 DEF IInv, StoreSound

LEMMA Calm ==
    ASSUME IInv, UNCHANGED store
    PROVE  StoreSound' /\ Grows /\ NobodyPresents
<1>1. StoreSound' /\ Grows
    BY Untouched DEF IInv
<1>2. NobodyPresents
    BY DEF store, NobodyPresents
<1> QED
    BY <1>1, <1>2

LEMMA Typed ==
    ASSUME IInv
    PROVE  /\ run \in [Attempts -> RunRow] /\ faults \in 0..MaxFaults
           /\ faults < MaxFaults => faults + 1 \in 0..MaxFaults
           /\ batch \in [Hosts -> SUBSET [item : Items, revision : Nat]]
           /\ \A h \in Hosts : h \in Writers
           /\ StoreSound
BY ExecutionBounds DEF IInv, TypeOK, RunRow, Writers

\* A move of an item to a state that presents nothing.
LEMMA PlainMove ==
    ASSUME IInv, NEW i \in Items, NEW r, NEW to \in ItemStates \ {"VERIFICATION_REQUIRED", "COMPLETED"},
           TransitionWorkItem(i, r, to)
    PROVE  /\ StoreSound' /\ Grows /\ NobodyPresents
           /\ items[i].revision = r /\ r \in Nat /\ items'[i].revision = r + 1
<1>1. /\ StoreSound' /\ Grows /\ items'[i].state = to
      /\ items[i].revision = r /\ r \in Nat /\ items'[i].revision = r + 1
      /\ \A j \in Items : j # i => items'[j] = items[j]
    BY Transitioned DEF IInv
<1>2. NobodyPresents
    BY <1>1 DEF NobodyPresents
<1> QED
    BY <1>1, <1>2

LEMMA OwnerHolds == ASSUME IInv, OwnerStep PROVE IInv'
<1>1. PICK i \in Items : Create(i) \/ Start(i) \/ Requeue(i)
    BY DEF OwnerStep
<1>2. UNCHANGED <<run, proc, evidence, verdicts, batch, check, faults>>
    BY <1>1 DEF Create, Start, Requeue, records
<1>3. StoreSound' /\ Grows /\ NobodyPresents
  <2>1. CASE Create(i)
    <3>1. /\ StoreSound' /\ Grows /\ items'[i].state = "DRAFT"
          /\ \A j \in Items : j # i => items'[j] = items[j]
      BY <2>1, Created DEF Create, IInv
    <3> QED
      BY <3>1 DEF NobodyPresents
  <2>2. CASE Start(i) \/ Requeue(i)
    <3>1. TransitionWorkItem(i, items[i].revision, "READY")
      BY <2>2 DEF Start, Requeue
    <3>2. "READY" \in ItemStates \ {"VERIFICATION_REQUIRED", "COMPLETED"}
      BY DEF ItemStates
    <3> QED
      BY <3>1, <3>2, PlainMove
  <2> QED
    BY <1>1, <2>1, <2>2
<1>4. TypeOK'
    BY <1>2, <1>3 DEF IInv, TypeOK, StoreSound
<1> QED
    BY <1>2, <1>3, <1>4, Step

LEMMA PollHolds == ASSUME IInv, NEW h \in Hosts, Poll(h) PROVE IInv'
<1> DEFINE q == [proc[h] EXCEPT !.pc = "batch"]
<1>1. h \in Writers /\ proc[h] \in Process
    BY DEF Writers, IInv, TypeOK
<1>2. q \in Process /\ proc' = [proc EXCEPT ![h] = q] /\ q.pc = "batch"
    BY <1>1 DEF Poll, Goto, Process
<1> HIDE DEF q
<1>3. PICK chosen \in SUBSET Items :
         batch' = [batch EXCEPT ![h] =
                     {[item |-> i, revision |-> items[i].revision] : i \in chosen}]
    BY DEF Poll
<1>4. {[item |-> i, revision |-> items[i].revision] : i \in chosen}
         \subseteq [item : Items, revision : Nat]
    BY RowTypes DEF IInv, StoreSound
<1>5. batch' \in [Hosts -> SUBSET [item : Items, revision : Nat]]
    BY <1>3, <1>4, Typed
<1>6. proc'[h] = q
    BY <1>1, <1>2 DEF IInv, TypeOK
<1>7. ProcessSound(h)'
    BY <1>2, <1>6 DEF ProcessSound
<1>8. UNCHANGED <<store, run, evidence, verdicts, check, faults>>
    BY DEF Poll
<1> QED
    BY <1>1, <1>2, <1>5, <1>7, <1>8, Calm, Typed, ProcessStep

LEMMA ProcessItemHolds == ASSUME IInv, NEW h \in Hosts, ProcessItem(h) PROVE IInv'
<1>1. PICK next \in batch[h] :
         /\ proc' = [proc EXCEPT ![h] = [Quiet EXCEPT !.pc = "claim",
                        !.item = next.item, !.revision = next.revision]]
         /\ batch' = [batch EXCEPT ![h] = @ \ {next}]
    BY DEF ProcessItem
<1> DEFINE q == [Quiet EXCEPT !.pc = "claim", !.item = next.item, !.revision = next.revision]
<1>2. h \in Writers /\ next.item \in Items /\ next.revision \in Nat
    BY Typed
<1>3. q \in Process /\ q.pc = "claim" /\ q.item \in Items
    BY <1>2, QuietIsAProcess DEF Quiet
<1>4. proc' = [proc EXCEPT ![h] = q]
    BY <1>1
<1> HIDE DEF q
<1>5. batch' \in [Hosts -> SUBSET [item : Items, revision : Nat]]
    BY <1>1, Typed
<1>6. proc'[h] = q
    BY <1>2, <1>4 DEF IInv, TypeOK
<1>7. ProcessSound(h)'
    BY <1>3, <1>6 DEF ProcessSound
<1>8. UNCHANGED <<store, run, evidence, verdicts, check, faults>>
    BY DEF ProcessItem
<1> QED
    BY <1>2, <1>3, <1>4, <1>5, <1>7, <1>8, Calm, Typed, ProcessStep

LEMMA ClaimHolds == ASSUME IInv, NEW h \in Hosts, Claim(h) PROVE IInv'
<1>1. PICK a \in Attempts :
         /\ StartAttempt(proc[h].item, proc[h].revision, a)
         /\ proc' = [proc EXCEPT ![h].pc = "starting", ![h].attempt = a, ![h].revision = @ + 1]
    BY DEF Claim
<1> DEFINE q == [proc[h] EXCEPT !.pc = "starting", !.attempt = a, !.revision = proc[h].revision + 1]
<1>2. /\ h \in Writers /\ proc[h] \in Process /\ proc[h].item \in Items
      /\ proc[h].revision \in Nat /\ proc[h].pc = "claim"
    BY DEF Writers, IInv, TypeOK, Process, ProcessSound, Claim
<1>3. /\ StoreSound' /\ Grows /\ AttemptExists(a)' /\ attempts'[a].item = proc[h].item
      /\ items'[proc[h].item].revision = proc[h].revision + 1
      /\ items'[proc[h].item].state = "ASSIGNED"
      /\ \A j \in Items : j # proc[h].item => items'[j] = items[j]
    BY <1>1, <1>2, StartedAttempt, Typed
<1>4. NobodyPresents
    BY <1>3 DEF NobodyPresents
<1>5. q \in Process
  <2>1. \A y \in Process, n \in Nat :
           [y EXCEPT !.pc = "starting", !.attempt = a, !.revision = n] \in Process
    BY DEF Process, EnginePCs
  <2>2. proc[h].revision + 1 \in Nat
    BY <1>2
  <2> QED
    BY <1>2, <2>1, <2>2
<1>6. /\ q.pc = "starting" /\ q.attempt = a /\ q.item = proc[h].item
      /\ q.revision = proc[h].revision + 1
    BY <1>2 DEF Process
<1>7. proc' = [proc EXCEPT ![h] = q]
    BY <1>1, <1>2 DEF IInv, TypeOK
<1> HIDE DEF q
<1>8. proc'[h] = q
    BY <1>2, <1>7 DEF IInv, TypeOK
<1>9. ProcessSound(h)'
  <2>1. items'[q.item].revision \in Nat /\ q.item \in Items
    BY <1>2, <1>3, <1>6
  <2>2. q.revision <= items'[q.item].revision
    BY <1>2, <1>3, <1>6
  <2> QED
    BY <1>2, <1>3, <1>6, <1>8, <2>2 DEF ProcessSound, AttemptExists
<1>10. UNCHANGED <<run, evidence, verdicts, batch, check, faults>>
    BY DEF Claim, records
<1> QED
    BY <1>2, <1>3, <1>4, <1>5, <1>7, <1>9, <1>10, Typed, ProcessStep

LEMMA ClaimRefusedHolds == ASSUME IInv, NEW h \in Hosts, ClaimRefused(h) PROVE IInv'
BY Calm, Typed, ReturnStep DEF ClaimRefused, records

\* An attempt moves and its process goes on.
LEMMA AttemptMoves ==
    ASSUME IInv, NEW a \in Attempts, NEW to, TransitionAttempt(a, to)
    PROVE  StoreSound' /\ Grows /\ NobodyPresents
BY Moved, Typed, SameStatesPresentNothing

LEMMA MarksHold ==
    ASSUME IInv, NEW h \in Hosts, MarkStarting(h) \/ MarkRunning(h) PROVE IInv'
<1>1. /\ h \in Writers /\ proc[h].attempt \in Attempts
      /\ proc[h].pc \notin {"idle", "batch", "claim"}
    BY DEF Writers, IInv, ProcessSound, MarkStarting, MarkRunning
<1>2. StoreSound' /\ Grows /\ NobodyPresents
    BY <1>1, AttemptMoves DEF MarkStarting, MarkRunning
<1> QED
    BY <1>1, <1>2, Typed, GoesOn DEF MarkStarting, MarkRunning

LEMMA MarkItemRunningHolds == ASSUME IInv, NEW h \in Hosts, MarkItemRunning(h) PROVE IInv'
<1> DEFINE q == [proc[h] EXCEPT !.pc = "dispatch", !.revision = proc[h].revision + 1]
<1>1. /\ h \in Writers /\ proc[h] \in Process /\ proc[h].item \in Items
      /\ proc[h].pc = "itemRunning" /\ proc[h].revision \in Nat
    BY DEF Writers, IInv, TypeOK, Process, ProcessSound, MarkItemRunning
<1>2. "RUNNING" \in ItemStates \ {"VERIFICATION_REQUIRED", "COMPLETED"}
    BY DEF ItemStates
<1>3. /\ StoreSound' /\ Grows /\ NobodyPresents
      /\ items'[proc[h].item].revision = proc[h].revision + 1
    BY <1>1, <1>2, PlainMove DEF MarkItemRunning
<1>4. q \in Process
  <2>1. \A y \in Process, n \in Nat : [y EXCEPT !.pc = "dispatch", !.revision = n] \in Process
    BY DEF Process, EnginePCs
  <2>2. proc[h].revision + 1 \in Nat
    BY <1>1
  <2> QED
    BY <1>1, <2>1, <2>2
<1>5. /\ q.pc = "dispatch" /\ q.attempt = proc[h].attempt /\ q.item = proc[h].item
      /\ q.revision = proc[h].revision + 1
    BY <1>1 DEF Process
<1>6. proc' = [proc EXCEPT ![h] = q]
    BY <1>1 DEF MarkItemRunning, IInv, TypeOK
<1> HIDE DEF q
<1>7. q.revision <= items'[proc[h].item].revision
    BY <1>1, <1>3, <1>5
<1> QED
    BY <1>1, <1>3, <1>4, <1>5, <1>6, <1>7, Typed, WorkStep DEF MarkItemRunning

LEMMA DispatchHolds == ASSUME IInv, NEW h \in Hosts, Dispatch(h) PROVE IInv'
<1>1. h \in Writers /\ proc[h].pc = "dispatch"
    BY DEF Writers, Dispatch
<1>2. run' \in [Attempts -> RunRow]
  <2>1. PICK s \in ExecuteReturns :
           run' = [run EXCEPT ![proc[h].attempt] = [status |-> s, evidence |-> s = "COMPLETED"]]
    BY DEF Dispatch
  <2>2. s \in RunStatuses /\ (s = "COMPLETED") \in BOOLEAN
    BY DEF ExecuteReturns, RunStatuses
  <2>3. [status |-> s, evidence |-> s = "COMPLETED"] \in RunRow
    BY <2>2 DEF RunRow
  <2> QED
    BY <2>1, <2>3, Typed
<1> QED
    BY <1>1, <1>2, Calm, Typed, GoesOn DEF Dispatch

LEMMA DispatchFailsHolds == ASSUME IInv, NEW h \in Hosts, DispatchFails(h) PROVE IInv'
BY Calm, Typed, OutcomesOfTheEngine, SetsOutToSettle DEF DispatchFails

LEMMA BindHolds == ASSUME IInv, NEW h \in Hosts, Bind(h) PROVE IInv'
<1>1. h \in Writers /\ proc[h].pc = "bind" /\ proc[h].attempt \in Attempts
    BY DEF Writers, Bind, IInv, ProcessSound
<1>2. StoreSound' /\ Grows /\ UNCHANGED items
    BY <1>1, BoundRun, Typed DEF Bind
<1>3. NobodyPresents
    BY <1>2 DEF NobodyPresents
<1>4. \/ Settle(h, Paused, FALSE) \/ Settle(h, Unclear, FALSE) \/ Goto(h, "collect")
    BY DEF Bind, AfterBind
<1>5. run' \in [Attempts -> RunRow] /\ faults' \in 0..MaxFaults /\ UNCHANGED records
    BY Typed DEF Bind
<1>6. CASE Goto(h, "collect")
    BY <1>1, <1>2, <1>3, <1>5, <1>6, GoesOn
<1>7. CASE Settle(h, Paused, FALSE)
    BY <1>1, <1>2, <1>3, <1>5, <1>7, OutcomesOfTheEngine, SetsOutToSettle
<1>8. CASE Settle(h, Unclear, FALSE)
    BY <1>1, <1>2, <1>3, <1>5, <1>8, OutcomesOfTheEngine, SetsOutToSettle
<1> QED
    BY <1>4, <1>6, <1>7, <1>8

LEMMA BindFailsHolds == ASSUME IInv, NEW h \in Hosts, BindFails(h) PROVE IInv'
BY Calm, Typed, OutcomesOfTheEngine, SetsOutToSettle DEF BindFails

LEMMA CollectHolds == ASSUME IInv, NEW w \in Writers, Collect(w) PROVE IInv'
BY Calm, Typed, OutcomesOfTheEngine, SetsOutToSettle DEF Collect

LEMMA CollectFailsHolds == ASSUME IInv, NEW w \in Writers, CollectFails(w) PROVE IInv'
BY Calm, Typed, OutcomesOfTheEngine, SetsOutToSettle DEF CollectFails

\* The attempt is settled: it was active, so it is the newest of its item.
LEMMA SettleAttemptHolds == ASSUME IInv, NEW w \in Writers, SettleAttempt(w) PROVE IInv'
<1> DEFINE q == [proc[w] EXCEPT !.pc = "settleItem"]
<1>1. proc[w].pc = "settleAttempt" /\ ProcessSound(w) /\ proc[w] \in Process
    BY DEF SettleAttempt, IInv, TypeOK
<1>2. PICK a \in Attempts : a = proc[w].attempt
    BY <1>1 DEF ProcessSound
<1>3. TransitionAttempt(a, proc[w].toAttempt)
    BY <1>2 DEF SettleAttempt
<1>4. /\ StoreSound' /\ Grows /\ attempts'[a].state = proc[w].toAttempt /\ IsNewest(a)'
    BY <1>3, Moved, Typed
<1>5. NobodyPresents
    BY <1>3, AttemptMoves
<1>6. q \in Process /\ proc' = [proc EXCEPT ![w] = q]
    BY <1>1 DEF SettleAttempt, Goto, Process, EnginePCs
<1>7. /\ q.pc = "settleItem" /\ q.item = proc[w].item /\ q.attempt = a
      /\ q.revision = proc[w].revision /\ q.toAttempt = proc[w].toAttempt
      /\ q.toItem = proc[w].toItem
    BY <1>1, <1>2 DEF Process
<1> HIDE DEF q
<1>8. proc'[w] = q
    BY <1>6 DEF IInv, TypeOK
<1>9. /\ q.item \in Items /\ AttemptExists(a) /\ attempts[a].item = q.item
      /\ q.revision <= items'[q.item].revision
      /\ <<q.toAttempt, q.toItem>> \in Outcomes
    BY <1>1, <1>2, <1>4, <1>7, RevisionHeld DEF ProcessSound
<1>10. AttemptExists(a)' /\ attempts'[a].item = q.item
    BY <1>4, <1>9 DEF Grows
<1>11. ProcessSound(w)'
  <2>1. IsNewest(proc[w].attempt)' /\ AttemptExists(proc[w].attempt)'
    BY <1>4, <1>7, <1>8, <1>10 DEF IsNewest, AttemptExists
  <2> QED
    BY <1>4, <1>7, <1>8, <1>9, <1>10, <2>1 DEF ProcessSound
<1>12. UNCHANGED <<run, evidence, verdicts, batch, check, faults>>
    BY DEF SettleAttempt, records
<1> QED
    BY <1>4, <1>5, <1>6, <1>11, <1>12, Typed, ProcessStep

\* A process that settles its item at the revision it holds settles the item of
\* the newest attempt.
LEMMA SettlesTheNewest ==
    ASSUME IInv, NEW w \in Writers, SettleItem(w)
    PROVE  /\ proc[w].item \in Items /\ proc[w].attempt \in Attempts
           /\ AttemptExists(proc[w].attempt) /\ attempts[proc[w].attempt].item = proc[w].item
           /\ IsNewest(proc[w].attempt)
           /\ <<proc[w].toAttempt, proc[w].toItem>> \in Outcomes
           /\ proc[w].toItem \in ItemStates \ {"COMPLETED"}
           /\ proc[w].toItem = "VERIFICATION_REQUIRED" =>
                 attempts[proc[w].attempt].state = "SUCCEEDED"
<1>1. /\ proc[w].pc = "settleItem" /\ ProcessSound(w)
      /\ items[proc[w].item].revision = proc[w].revision
    BY DEF SettleItem, TransitionWorkItem, IInv
<1>2. <<proc[w].toAttempt, proc[w].toItem>> \in Outcomes
    BY <1>1 DEF ProcessSound
<1>3. /\ proc[w].toItem \in ItemStates \ {"COMPLETED"}
      /\ proc[w].toItem = "VERIFICATION_REQUIRED" => proc[w].toAttempt = "SUCCEEDED"
    BY <1>2 DEF Outcomes, ItemStates
<1> QED
    BY <1>1, <1>2, <1>3 DEF ProcessSound, TerminalAttemptStates

LEMMA SettleItemKeepsVerified ==
    ASSUME IInv, NEW w \in Writers, SettleItem(w)
    PROVE  /\ StoreSound' /\ Grows /\ VerificationNeedsSuccess' /\ CompletedIsVerified'
           /\ proc[w].item \in Items
<1>1. PICK i \in Items, a \in Attempts, to \in ItemStates \ {"COMPLETED"} :
         /\ i = proc[w].item /\ a = proc[w].attempt /\ to = proc[w].toItem
         /\ AttemptExists(a) /\ attempts[a].item = i /\ IsNewest(a)
         /\ to = "VERIFICATION_REQUIRED" => attempts[a].state = "SUCCEEDED"
    BY SettlesTheNewest
<1>2. /\ StoreSound' /\ Grows /\ UNCHANGED attempts /\ items'[i].state = to
      /\ \A j \in Items : j # i => items'[j] = items[j]
    BY <1>1, Transitioned, Typed DEF SettleItem
<1>3. UNCHANGED <<evidence, verdicts>>
    BY DEF SettleItem, records
<1>4. StoreSound /\ VerificationNeedsSuccess /\ CompletedIsVerified
    BY DEF IInv
<1>5. VerificationNeedsSuccess'
  <2> SUFFICES ASSUME NEW b \in Attempts, AttemptExists(b), IsNewest(b),
                      items'[attempts[b].item].state \in {"VERIFICATION_REQUIRED", "COMPLETED"}
               PROVE  attempts[b].state = "SUCCEEDED"
    BY <1>2, SameAttempts DEF VerificationNeedsSuccess
  <2>1. attempts[b].item \in Items
    BY <1>4 DEF StoreSound, Linked
  <2>2. CASE attempts[b].item = i
    <3>1. b = a
      BY <1>1, <1>4, <2>2, NewestIsUnique
    <3> QED
      BY <1>1, <1>2, <2>2, <3>1
  <2>3. CASE attempts[b].item # i
    BY <1>2, <1>4, <2>1, <2>3 DEF VerificationNeedsSuccess
  <2> QED
    BY <2>2, <2>3
<1>6. CompletedIsVerified'
  <2> SUFFICES ASSUME NEW j \in Items, items'[j].state = "COMPLETED"
               PROVE  \E d \in verdicts :
                         /\ d.item = j /\ d.status = "PASS"
                         /\ d.evidence # {} /\ d.evidence \subseteq evidence \cap AttemptsOf(j)
                         /\ IsNewest(d.seen)
    BY <1>2, <1>3, SameAttempts DEF CompletedIsVerified
  <2>1. items[j].state = "COMPLETED"
    BY <1>1, <1>2
  <2> QED
    BY <1>4, <2>1 DEF CompletedIsVerified
<1> QED
    BY <1>1, <1>2, <1>5, <1>6

LEMMA SettleItemHolds == ASSUME IInv, NEW w \in Writers, SettleItem(w) PROVE IInv'
<1>1. /\ StoreSound' /\ Grows /\ VerificationNeedsSuccess' /\ CompletedIsVerified'
    BY SettleItemKeepsVerified
<1>2. UNCHANGED <<run, evidence, verdicts, batch, check, faults>> /\ proc[w].pc = "settleItem"
    BY DEF SettleItem, records
<1>3. \E q \in Process : /\ proc' = [proc EXCEPT ![w] = q]
                         /\ q.pc \in {"idle", "batch"} \/ q = [proc[w] EXCEPT !.pc = "persist"]
  <2>1. CASE Goto(w, "persist")
    <3>1. proc[w] \in Process
      BY DEF IInv, TypeOK
    <3>2. [proc[w] EXCEPT !.pc = "persist"] \in Process
      BY <3>1 DEF Process, EnginePCs
    <3> QED
      BY <2>1, <3>2 DEF Goto
  <2>2. CASE Return(w)
    <3> DEFINE q == IF w \in Hosts /\ batch[w] # {} THEN [Quiet EXCEPT !.pc = "batch"] ELSE Quiet
    <3>1. q \in Process /\ q.pc \in {"idle", "batch"}
      BY QuietIsAProcess DEF Quiet
    <3>2. proc' = [proc EXCEPT ![w] = q]
      BY <2>2 DEF Return
    <3> QED
      BY <3>1, <3>2
  <2> QED
    BY <2>1, <2>2 DEF SettleItem
<1>4. PICK q \in Process : /\ proc' = [proc EXCEPT ![w] = q]
                           /\ q.pc \in {"idle", "batch"} \/ q = [proc[w] EXCEPT !.pc = "persist"]
    BY <1>3
<1>5. /\ proc'[w] = q /\ proc' \in [Writers -> Process]
      /\ \A u \in Writers : u # w => proc'[u] = proc[u]
    BY <1>4 DEF IInv, TypeOK
<1>6. ProcessSound(w)'
  <2>1. CASE q.pc \in {"idle", "batch"}
    BY <1>5, <2>1 DEF ProcessSound
  <2>2. CASE q = [proc[w] EXCEPT !.pc = "persist"]
    <3>1. /\ proc[w].item \in Items /\ proc[w].attempt \in Attempts /\ proc[w] \in Process
          /\ AttemptExists(proc[w].attempt) /\ attempts[proc[w].attempt].item = proc[w].item
          /\ proc[w].revision <= items'[proc[w].item].revision
      BY <1>1, <1>2, RevisionHeld
    <3>2. /\ q.pc = "persist" /\ q.item = proc[w].item /\ q.attempt = proc[w].attempt
          /\ q.revision = proc[w].revision
      BY <2>2, <3>1 DEF Process
    <3>3. attempts'[q.attempt].state # "ABSENT" /\ attempts'[q.attempt].item = q.item
      BY <1>1, <3>1, <3>2 DEF Grows, AttemptExists
    <3> QED
      BY <1>5, <3>1, <3>2, <3>3 DEF ProcessSound, AttemptExists
  <2> QED
    BY <1>4, <2>1, <2>2
<1>7. TypeOK'
    BY <1>1, <1>2, <1>5 DEF IInv, TypeOK, StoreSound
<1> QED
    BY <1>1, <1>2, <1>5, <1>6, <1>7, Step

LEMMA SettleRefusedHolds == ASSUME IInv, NEW w \in Writers, SettleRefused(w) PROVE IInv'
BY Calm, Typed, ReturnStep DEF SettleRefused, records

LEMMA SettleStepHolds == ASSUME IInv, NEW w \in Writers, SettleStep(w) PROVE IInv'
BY CollectHolds, CollectFailsHolds, SettleAttemptHolds, SettleItemHolds, SettleRefusedHolds
   DEF SettleStep

LEMMA PersistHolds == ASSUME IInv, NEW h \in Hosts, Persist(h) PROVE IInv'
<1> DEFINE q == IF h \in Hosts /\ batch[h] # {} THEN [Quiet EXCEPT !.pc = "batch"] ELSE Quiet
<1>1. q \in Process /\ q.pc \in {"idle", "batch"}
    BY QuietIsAProcess DEF Quiet
<1>2. proc' = [proc EXCEPT ![h] = q] /\ UNCHANGED <<store, run, verdicts, batch, check, faults>>
    BY DEF Persist, Return
<1> HIDE DEF q
<1>3. /\ h \in Writers /\ proc'[h] = q /\ proc' \in [Writers -> Process]
      /\ \A u \in Writers : u # h => proc'[u] = proc[u]
    BY <1>1, <1>2 DEF IInv, TypeOK, Writers
<1>4. ProcessSound(h)'
    BY <1>1, <1>3 DEF ProcessSound
<1>5. evidence \subseteq evidence' /\ evidence' \subseteq Attempts
  <2>1. proc[h].attempt \in Attempts
    BY <1>3 DEF IInv, ProcessSound, Persist
  <2> QED
    BY <2>1 DEF Persist, IInv, TypeOK
<1>6. StoreSound' /\ Grows /\ NobodyPresents
    BY <1>2, Calm
<1>7. TypeOK'
    BY <1>2, <1>3, <1>5, <1>6 DEF IInv, TypeOK, StoreSound
<1> QED
    BY <1>2, <1>3, <1>4, <1>5, <1>6, <1>7, Step

LEMMA StoreFailsHolds == ASSUME IInv, NEW w \in Writers, StoreFails(w) PROVE IInv'
BY Calm, Typed, ReturnStep DEF StoreFails, records

LEMMA CrashHolds == ASSUME IInv, NEW h \in Hosts, Crash(h) PROVE IInv'
<1>1. h \in Writers /\ proc' = [proc EXCEPT ![h] = Quiet] /\ Quiet \in Process
    BY QuietIsAProcess DEF Crash, Writers
<1>2. proc'[h] = Quiet
    BY <1>1 DEF IInv, TypeOK
<1>3. ProcessSound(h)'
    BY <1>2 DEF ProcessSound, Quiet
<1>4. batch' \in [Hosts -> SUBSET [item : Items, revision : Nat]]
    BY Typed DEF Crash
<1> QED
    BY <1>1, <1>3, <1>4, Calm, Typed, ProcessStep DEF Crash

LEMMA ReadForResumeHolds == ASSUME IInv, NEW r \in Resumers, ReadForResume(r) PROVE IInv'
<1>1. PICK a \in Attempts :
         /\ attempts[a].bound
         /\ proc' = [proc EXCEPT ![r] = [Quiet EXCEPT !.pc = "resume",
                        !.item = attempts[a].item, !.attempt = a,
                        !.revision = items[attempts[a].item].revision]]
    BY DEF ReadForResume
<1>2. r \in Writers /\ AttemptExists(a)
    BY <1>1, Typed DEF Writers, StoreSound, Linked
<1>3. PICK i \in Items, n \in Nat : i = attempts[a].item /\ n = items[i].revision
    BY <1>2, Typed, RowTypes DEF StoreSound, Linked
<1> DEFINE q == [Quiet EXCEPT !.pc = "resume", !.item = i, !.attempt = a, !.revision = n]
<1>4. q \in Process /\ proc' = [proc EXCEPT ![r] = q]
    BY <1>1, <1>3, QuietIsAProcess
<1>5. q.pc = "resume" /\ q.item = i /\ q.attempt = a /\ q.revision = n
    BY DEF Quiet
<1> HIDE DEF q
<1>6. proc'[r] = q /\ UNCHANGED <<items, attempts>>
    BY <1>2, <1>4 DEF IInv, TypeOK, ReadForResume, store
<1>7. ProcessSound(r)'
    BY <1>2, <1>3, <1>5, <1>6 DEF ProcessSound, AttemptExists
<1> QED
    BY <1>2, <1>4, <1>7, Calm, Typed, ProcessStep DEF ReadForResume, records

LEMMA ResumeHolds == ASSUME IInv, NEW r \in Resumers, Resume(r) PROVE IInv'
<1>1. r \in Writers /\ proc[r].pc = "resume" /\ proc[r].attempt \in Attempts
    BY DEF Writers, Resume, IInv, ProcessSound
<1>2. PICK s \in ResumeReturns(run[proc[r].attempt].status) :
         /\ run' = [run EXCEPT ![proc[r].attempt].status = s]
         /\ Settle(r, Paused, FALSE) \/ Goto(r, "collect")
    BY DEF Resume
<1>3. run' \in [Attempts -> RunRow]
  <2>1. run[proc[r].attempt] \in RunRow
    BY <1>1, Typed
  <2>2. s \in RunStatuses
    BY <1>2, <2>1 DEF ResumeReturns, RunStatuses, RunRow
  <2>3. [run[proc[r].attempt] EXCEPT !.status = s] \in RunRow
    BY <2>1, <2>2 DEF RunRow
  <2> QED
    BY <1>2, <2>3, Typed
<1>4. CASE Goto(r, "collect")
    BY <1>1, <1>3, <1>4, Calm, Typed, GoesOn DEF Resume
<1>5. CASE Settle(r, Paused, FALSE)
    BY <1>1, <1>3, <1>5, Calm, Typed, OutcomesOfTheEngine, SetsOutToSettle DEF Resume
<1> QED
    BY <1>2, <1>4, <1>5

LEMMA ResumeFailsHolds == ASSUME IInv, NEW r \in Resumers, ResumeFails(r) PROVE IInv'
<1>1. r \in Writers
    BY DEF Writers
<1> QED
    BY <1>1, Calm, Typed, OutcomesOfTheEngine, SetsOutToSettle DEF ResumeFails

-----------------------------------------------------------------------------
(* Verification.                                                              *)
LEMMA VerifierStepTypes ==
    ASSUME IInv, UNCHANGED <<run, evidence, proc, batch, faults>>, StoreSound',
           verdicts' \subseteq Verdict, NEW v \in Verifiers, NEW k \in Check,
           check' = [check EXCEPT ![v] = k]
    PROVE  /\ TypeOK' /\ check'[v] = k
           /\ \A u \in Verifiers : u # v => check'[u] = check[u]
BY DEF IInv, TypeOK, StoreSound

LEMMA BeginVerificationHolds ==
    ASSUME IInv, NEW v \in Verifiers, BeginVerification(v) PROVE IInv'
<1>1. PICK i \in Items, status \in VerificationStatuses, relied \in SUBSET Attempts :
         \E a \in AttemptsOf(i) :
           /\ items[i].state = "VERIFICATION_REQUIRED" /\ IsNewest(a)
           /\ check' = [check EXCEPT ![v] =
                 [pc |-> "save", revision |-> items[i].revision,
                  verdict |-> [item |-> i, seen |-> a, status |-> status,
                               evidence |-> relied]]]
    BY DEF BeginVerification, NewestOf
<1>2. PICK a \in AttemptsOf(i) :
           /\ items[i].state = "VERIFICATION_REQUIRED" /\ IsNewest(a)
           /\ check' = [check EXCEPT ![v] =
                 [pc |-> "save", revision |-> items[i].revision,
                  verdict |-> [item |-> i, seen |-> a, status |-> status,
                               evidence |-> relied]]]
    BY <1>1
<1> DEFINE d == [item |-> i, seen |-> a, status |-> status, evidence |-> relied]
           k == [pc |-> "save", revision |-> items[i].revision, verdict |-> d]
<1>3. UNCHANGED <<store, run, evidence, verdicts, proc, batch, faults>>
    BY DEF BeginVerification
<1>4. /\ a \in Attempts /\ relied \subseteq Attempts /\ attempts[a].item = i /\ AttemptExists(a)
      /\ items[i].revision \in Nat
    BY Typed, RowTypes, NoneIsNoId DEF AttemptsOf, StoreSound, Linked
<1>5. d \in Verdict /\ k \in Check
    BY <1>4 DEF Verdict, Check
<1>6. /\ k.pc = "save" /\ k.revision = items[i].revision /\ k.verdict = d
      /\ d.item = i /\ d.seen = a
    OBVIOUS
<1>7. check' = [check EXCEPT ![v] = k]
    BY <1>2
<1> HIDE DEF d, k
<1>8. StoreSound' /\ Grows /\ NobodyPresents
    BY <1>3, Calm
<1>9. TypeOK' /\ check'[v] = k /\ \A u \in Verifiers : u # v => check'[u] = check[u]
    BY <1>3, <1>5, <1>7, <1>8, VerifierStepTypes DEF IInv, TypeOK
<1>10. UNCHANGED items /\ UNCHANGED attempts
    BY <1>3 DEF store
<1>11. CheckSound(v)'
  <2>1. VerdictSound(check[v].verdict)'
    BY <1>4, <1>6, <1>9, <1>10 DEF VerdictSound, AttemptExists
  <2>2. IsNewest(check[v].verdict.seen)'
    BY <1>2, <1>6, <1>9, <1>10 DEF IsNewest, AttemptsOf
  <2> QED
    BY <1>2, <1>4, <1>6, <1>9, <1>10, <2>1, <2>2 DEF CheckSound
<1> QED
    BY <1>3, <1>8, <1>9, <1>11, Step

LEMMA SaveVerificationHolds ==
    ASSUME IInv, NEW v \in Verifiers, SaveVerification(v) PROVE IInv'
<1> DEFINE k == [check[v] EXCEPT !.pc = "resolve"]
<1>1. /\ check[v].pc = "save" /\ CheckSound(v) /\ check[v].verdict \in Verdict
      /\ check[v] \in [pc : {"save", "resolve"}, revision : Nat, verdict : Verdict]
    BY CheckShape DEF SaveVerification, IInv
<1>2. UNCHANGED <<store, run, evidence, proc, batch, faults>>
    BY DEF SaveVerification
<1>3. verdicts' = verdicts \cup {check[v].verdict} /\ check' = [check EXCEPT ![v] = k]
    BY DEF SaveVerification
<1>4. k \in Check /\ k.pc = "resolve" /\ k.revision = check[v].revision /\ k.verdict = check[v].verdict
    BY <1>1 DEF Check
<1> HIDE DEF k
<1>5. StoreSound' /\ Grows /\ NobodyPresents
    BY <1>2, Calm
<1>6. verdicts' \subseteq Verdict
    BY <1>1, <1>3 DEF IInv, TypeOK
<1>7. TypeOK' /\ check'[v] = k /\ \A u \in Verifiers : u # v => check'[u] = check[u]
    BY <1>2, <1>3, <1>4, <1>5, <1>6, VerifierStepTypes
<1>8. UNCHANGED items /\ UNCHANGED attempts
    BY <1>2 DEF store
<1>9. VerdictSound(check[v].verdict)
    BY <1>1 DEF CheckSound
<1>10. \A d \in verdicts' : d \in verdicts \/ VerdictSound(d)'
    BY <1>3, <1>8, <1>9, SameAttempts
<1>11. CheckSound(v)'
  <2>1. VerdictSound(check[v].verdict)'
    BY <1>4, <1>7, <1>8, <1>9 DEF VerdictSound, AttemptExists
  <2>2. IsNewest(check[v].verdict.seen) => IsNewest(check[v].verdict.seen)'
    BY <1>4, <1>7, <1>8 DEF IsNewest, AttemptsOf
  <2> QED
    BY <1>1, <1>3, <1>4, <1>7, <1>8, <2>1, <2>2 DEF CheckSound
<1> QED
    BY <1>2, <1>3, <1>5, <1>7, <1>10, <1>11, Step

\* A verification resolves the item as its caller read it, with no newer attempt
\* since, and completes it on the strength of stored evidence.
LEMMA ResolveHolds == ASSUME IInv, NEW v \in Verifiers, Resolve(v) PROVE IInv'
<1>1. PICK d \in verdicts, i \in Items, a \in Attempts, to \in ItemStates :
         /\ d = check[v].verdict /\ i = d.item /\ a = d.seen /\ to = ResolvedState(d.status)
         /\ TransitionWorkItem(i, check[v].revision, to)
         /\ CanComplete(d) /\ VerdictSound(d)
         /\ items[i].state = "VERIFICATION_REQUIRED" /\ IsNewest(a)
         /\ to # "VERIFICATION_REQUIRED" /\ (to = "COMPLETED" => d.status = "PASS")
  <2>1. check[v].pc = "resolve" /\ CheckSound(v)
    BY DEF Resolve, IInv
  <2>2. /\ check[v].verdict \in verdicts /\ check[v].verdict.item \in Items
        /\ check[v].verdict.seen \in Attempts /\ VerdictSound(check[v].verdict)
        /\ check[v].verdict.status \in VerificationStatuses
    BY <2>1, CheckShape DEF CheckSound, IInv
  <2>3. /\ ResolvedState(check[v].verdict.status) \in ItemStates \ {"VERIFICATION_REQUIRED"}
        /\ ResolvedState(check[v].verdict.status) = "COMPLETED" => check[v].verdict.status = "PASS"
    BY <2>2 DEF ResolvedState, VerificationStatuses, ItemStates
  <2>4. /\ CanComplete(check[v].verdict)
        /\ TransitionWorkItem(check[v].verdict.item, check[v].revision,
                              ResolvedState(check[v].verdict.status))
        /\ items[check[v].verdict.item].revision = check[v].revision
    BY DEF Resolve, TransitionWorkItem
  <2>5. /\ items[check[v].verdict.item].state = "VERIFICATION_REQUIRED"
        /\ IsNewest(check[v].verdict.seen)
    BY <2>1, <2>4 DEF CheckSound
  <2> QED
    BY <2>2, <2>3, <2>4, <2>5
<1>2. UNCHANGED <<run, evidence, verdicts, proc, batch, faults>>
    BY DEF Resolve
<1>3. /\ StoreSound' /\ Grows /\ UNCHANGED attempts /\ items'[i].state = to
      /\ \A j \in Items : j # i => items'[j] = items[j]
    BY <1>1, Transitioned, Typed
<1>4. NoCheck \in Check /\ check' = [check EXCEPT ![v] = NoCheck]
    BY DEF Check, Resolve
<1>5. TypeOK' /\ check'[v] = NoCheck /\ \A u \in Verifiers : u # v => check'[u] = check[u]
    BY <1>2, <1>3, <1>4, VerifierStepTypes DEF IInv, TypeOK
<1>6. CheckSound(v)'
    BY <1>5 DEF CheckSound, NoCheck
<1>7. StoreSound /\ VerificationNeedsSuccess /\ CompletedIsVerified
    BY DEF IInv
<1>8. VerificationNeedsSuccess'
  <2> SUFFICES ASSUME NEW b \in Attempts, AttemptExists(b), IsNewest(b),
                      items'[attempts[b].item].state \in {"VERIFICATION_REQUIRED", "COMPLETED"}
               PROVE  attempts[b].state = "SUCCEEDED"
    BY <1>3, SameAttempts DEF VerificationNeedsSuccess
  <2>1. attempts[b].item \in Items
    BY <1>7 DEF StoreSound, Linked
  <2>2. items[attempts[b].item].state \in {"VERIFICATION_REQUIRED", "COMPLETED"}
    BY <1>1, <1>3, <2>1
  <2> QED
    BY <1>7, <2>2 DEF VerificationNeedsSuccess
<1>9. CompletedIsVerified'
  <2> SUFFICES ASSUME NEW j \in Items, items'[j].state = "COMPLETED"
               PROVE  \E e \in verdicts :
                         /\ e.item = j /\ e.status = "PASS"
                         /\ e.evidence # {} /\ e.evidence \subseteq evidence \cap AttemptsOf(j)
                         /\ IsNewest(e.seen)
    BY <1>2, <1>3, SameAttempts DEF CompletedIsVerified
  <2>1. CASE j = i
    BY <1>1, <1>3, <2>1 DEF CanComplete
  <2>2. CASE j # i
    BY <1>3, <1>7, <2>2 DEF CompletedIsVerified
  <2> QED
    BY <2>1, <2>2
<1> QED
    BY <1>2, <1>3, <1>5, <1>6, <1>8, <1>9, Step

LEMMA ResolveFailsHolds == ASSUME IInv, NEW v \in Verifiers, ResolveFails(v) PROVE IInv'
<1>1. UNCHANGED <<store, run, evidence, verdicts, proc, batch, faults>>
    BY DEF ResolveFails
<1>2. NoCheck \in Check /\ check' = [check EXCEPT ![v] = NoCheck]
    BY DEF Check, ResolveFails
<1>3. StoreSound' /\ Grows /\ NobodyPresents
    BY <1>1, Calm
<1>4. TypeOK' /\ check'[v] = NoCheck /\ \A u \in Verifiers : u # v => check'[u] = check[u]
    BY <1>1, <1>2, <1>3, VerifierStepTypes DEF IInv, TypeOK
<1>5. CheckSound(v)'
    BY <1>4 DEF CheckSound, NoCheck
<1> QED
    BY <1>1, <1>3, <1>4, <1>5, Step

LEMMA NextHolds == IInv /\ [Next]_vars => IInv'
<1> SUFFICES ASSUME IInv, [Next]_vars PROVE IInv'
    OBVIOUS
<1>1. CASE OwnerStep
    BY <1>1, OwnerHolds
<1>2. ASSUME NEW h \in Hosts, HostStep(h) PROVE IInv'
    BY <1>2, Typed, PollHolds, ProcessItemHolds, ClaimHolds, ClaimRefusedHolds, MarksHold,
       MarkItemRunningHolds, DispatchHolds, DispatchFailsHolds, BindHolds, PersistHolds,
       SettleStepHolds DEF HostStep
<1>3. ASSUME NEW r \in Resumers, ReadForResume(r) \/ ResumerStep(r) PROVE IInv'
  <2>1. r \in Writers
    BY DEF Writers
  <2> QED
    BY <1>3, <2>1, ReadForResumeHolds, ResumeHolds, ResumeFailsHolds, SettleStepHolds
       DEF ResumerStep
<1>4. ASSUME NEW v \in Verifiers, VerifierStep(v) PROVE IInv'
    BY <1>4, BeginVerificationHolds, SaveVerificationHolds, ResolveHolds, ResolveFailsHolds
       DEF VerifierStep
<1>5. CASE Faults
    BY <1>5, BindFailsHolds, CrashHolds, StoreFailsHolds DEF Faults
<1>6. CASE UNCHANGED vars
  <2>1. UNCHANGED <<store, run, evidence, verdicts, proc, batch, check, faults>>
    BY <1>6 DEF vars, store
  <2>2. StoreSound' /\ Grows /\ NobodyPresents
    BY <2>1, Calm
  <2>3. TypeOK'
    BY <2>1, <2>2 DEF IInv, TypeOK, StoreSound
  <2> QED
    BY <2>1, <2>2, <2>3, Step
<1> QED
    BY <1>1, <1>2, <1>3, <1>4, <1>5, <1>6 DEF Next

-----------------------------------------------------------------------------
\* The inductive invariant holds in every state.
LEMMA Invariance == Spec => []IInv
<1>1. Init => IInv
    BY InitHolds
<1>2. IInv /\ [Next]_vars => IInv'
    BY NextHolds
<1> QED
    BY <1>1, <1>2, PTL DEF Spec

\* The tables and what every host, resumer and verifier remembers keep the shape
\* the code gives them.
THEOREM TypeCorrect == Spec => []TypeOK
<1>1. IInv => TypeOK
    BY DEF IInv
<1> QED
    BY <1>1, Invariance, PTL

\* An item waits for verification or is completed only when its newest attempt
\* succeeded, whatever engines, resumes and replacements race and wherever a
\* process dies between its two settling transactions.
THEOREM PresentedWorkSucceeded == Spec => []VerificationNeedsSuccess
<1>1. IInv => VerificationNeedsSuccess
    BY DEF IInv
<1> QED
    BY <1>1, Invariance, PTL

\* A completed item has a PASS verification that rests on stored evidence of the
\* item and was given when the item's last attempt had begun, although it is
\* saved before it is checked, names any evidence it likes, and the item is
\* resolved in a transaction of its own.
THEOREM CompletionIsEarned == Spec => []CompletedIsVerified
<1>1. IInv => CompletedIsVerified
    BY DEF IInv
<1> QED
    BY <1>1, Invariance, PTL

\* Only SettleItem both moves an item and moves on a process that is about to
\* settle one.
LEMMA OnlySettlingSettles ==
    ASSUME IInv, [Next]_vars, NEW w \in Writers, proc[w].pc = "settleItem",
           proc'[w] # proc[w], items' # items
    PROVE  SettleItem(w)
<1>1. Next
    BY DEF vars
<1>2. proc \in [Writers -> Process] /\ \A h \in Hosts : h \in Writers
    BY DEF IInv, TypeOK, Writers
<1>3. CASE OwnerStep
    BY <1>3 DEF OwnerStep, Create, Start, Requeue
<1>4. ASSUME NEW u \in Writers, SettleStep(u) PROVE SettleItem(w)
  <2>1. CASE Collect(u) \/ CollectFails(u) \/ SettleRefused(u)
    BY <2>1 DEF Collect, CollectFails, SettleRefused, store
  <2>2. CASE SettleAttempt(u)
    BY <1>2, <2>2 DEF SettleAttempt, Goto
  <2>3. CASE SettleItem(u)
    BY <1>2, <2>3 DEF SettleItem, Goto, Return
  <2> QED
    BY <1>4, <2>1, <2>2, <2>3 DEF SettleStep
<1>5. ASSUME NEW h \in Hosts, HostStep(h) PROVE SettleItem(w)
  <2>1. CASE Poll(h) \/ ProcessItem(h) \/ ClaimRefused(h) \/ Dispatch(h) \/ DispatchFails(h)
             \/ Persist(h)
    BY <2>1 DEF Poll, ProcessItem, ClaimRefused, Dispatch, DispatchFails, Persist, store
  <2>2. CASE Bind(h)
    BY <2>2 DEF Bind, BindAgentRun
  <2>3. CASE Claim(h) \/ MarkStarting(h) \/ MarkRunning(h) \/ MarkItemRunning(h)
    BY <1>2, <2>3 DEF Claim, MarkStarting, MarkRunning, MarkItemRunning, Goto
  <2>4. CASE SettleStep(h)
    BY <1>2, <1>4, <2>4
  <2> QED
    BY <1>5, <2>1, <2>2, <2>3, <2>4 DEF HostStep
<1>6. ASSUME NEW r \in Resumers, ReadForResume(r) \/ ResumerStep(r) PROVE SettleItem(w)
  <2>1. r \in Writers
    BY SMTT(40) DEF Writers
  <2>2. CASE ReadForResume(r) \/ Resume(r) \/ ResumeFails(r)
    BY <2>2 DEF ReadForResume, Resume, ResumeFails, store
  <2> QED
    BY <1>4, <1>6, <2>1, <2>2 DEF ResumerStep
<1>7. ASSUME NEW v \in Verifiers, VerifierStep(v) PROVE SettleItem(w)
    BY <1>7 DEF VerifierStep, BeginVerification, SaveVerification, Resolve, ResolveFails
<1>8. CASE Faults
    BY <1>8 DEF Faults, BindFails, Crash, StoreFails, store
<1> QED
    BY <1>1, <1>3, <1>5, <1>6, <1>7, <1>8 DEF Next

\* A late engine or a late resume, whose attempt has been replaced meanwhile,
\* never settles the work item.
THEOREM LateWritersAreRefused == Spec => LateWriterCannotSettle
<1>1. IInv /\ [Next]_vars =>
         [\A w \in Writers :
            proc[w].pc = "settleItem" /\ proc'[w] # proc[w] /\ items' # items
            => IsNewest(proc[w].attempt)]_vars
    BY OnlySettlingSettles, SettlesTheNewest
<1> QED
    BY <1>1, Invariance, PTL DEF Spec, LateWriterCannotSettle
=============================================================================
