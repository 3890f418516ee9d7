------------------------ MODULE RunCoordinatorProofs ------------------------
(* What holds of a workflow run for any number of concurrent calls, any      *)
(* reviewer and any bounds. The heart is Stands: a call whose next append    *)
(* the ledger would still accept stands at a place that fits the last event  *)
(* and the replayed state. The ledger accepts one append per revision, so    *)
(* whoever appends makes all others stale (AppenderIsAlone).                 *)
EXTENDS RunCoordinator, FiniteSetTheorems, TLAPS

LastType == IF log = <<>> THEN "none" ELSE log[Len(log)].type

FailedRounds == Count({"EVALUATION_FAILED_REPAIRABLE"})

\* The next append of the call would be accepted.
Fresh(c) == call[c].revision = Len(log) + 1

\* Where a fresh call is in its course, the ledger says so too.
Stands(c) ==
    /\ call[c].pc = "start" => <<LastType, ReplayedState, call[c].to>> \in
          {<<"none", "STARTING", "STARTING">>,
           <<"EVALUATION_PASSED", "EVALUATING", "STARTING">>,
           <<"RUN_RESUMED", "WAITING_FOR_OWNER", "STARTING">>,
           <<"EVALUATION_FAILED_REPAIRABLE", "REPAIRING", "REPAIRING">>,
           <<"EVALUATION_NEEDS_EVIDENCE", "EVALUATING", "REPAIRING">>,
           <<"RECONCILIATION_OUTCOME", "RECONCILING", "REPAIRING">>}
    /\ call[c].pc \in {"dispatch", "dispatched"} => LastType \in Starts
    /\ call[c].pc \in {"poll", "completed"} => LastType = "RUN_DISPATCHED"
    /\ call[c].pc = "evaluate" => LastType = "RUN_COMPLETED"
    /\ call[c].pc = "resumed" => /\ ReplayedState = "WAITING_FOR_OWNER"
                                 /\ call[c].to = "STARTING"
    /\ call[c].pc = "outcome" => /\ ReplayedState = "RECONCILING"
                                 /\ call[c].to = "REPAIRING"
    /\ call[c].pc = "block" => /\ LastType = "RECONCILIATION_OUTCOME"
                               /\ ReplayedState = "RECONCILING"
    /\ call[c].repairs >= FailedRounds

\* A call is idle, or it is at most as far as the ledger; a driver is as far.
Sound(c) ==
    /\ call[c].pc = "idle" => call[c] = Idle
    /\ call[c].pc # "idle" => /\ call[c].revision <= Len(log) + 1
                              /\ Driving(c) => Fresh(c)
                              /\ Fresh(c) => Stands(c)

\* There is an event of the type after which nothing has started.
Unanswered(type) ==
    \E p \in DOMAIN log : /\ log[p].type = type
                          /\ \A k \in DOMAIN log : k > p => log[k].type \notin Starts

Waits ==
    /\ ReplayedState = "WAITING_FOR_OWNER" => Unanswered("EVALUATION_OWNER_DECISION_REQUIRED")
    /\ ReplayedState = "RECONCILING" => Unanswered("EVALUATION_AMBIGUOUS_SIDE_EFFECT")

\* The replayed counter has counted every failed round.
Counted == ReplayedRepairs >= FailedRounds

\* The ledger has a last event of the types, if it has one: what Max chooses in
\* LastOf exists.
HasLast(types) ==
    Positions(types) # {} => \E m \in Positions(types) : \A k \in Positions(types) : m >= k

Failure == {"EVALUATION_FAILED_REPAIRABLE"}

IInv ==
    /\ TypeOK
    /\ HasLast(DOMAIN StateAfter) /\ HasLast(Failure)
    /\ \A c \in Calls : Sound(c)
    /\ OneDriver /\ Waits /\ Counted
    /\ EveryStartHasItsCause /\ FailedRepairsBounded
-----------------------------------------------------------------------------
(* What an append does to the ledger and to a replay of it.                   *)
LEMMA Appended ==
    ASSUME TypeOK, NEW e \in Event, log' = Append(log, e)
    PROVE  /\ log' \in Seq(Event)
           /\ Len(log) \in Nat /\ Len(log') = Len(log) + 1
           /\ DOMAIN log = 1..Len(log) /\ DOMAIN log' = 1..(Len(log) + 1)
           /\ log'[Len(log) + 1] = e
           /\ \A k \in DOMAIN log : log'[k] = log[k]
           /\ LastType' = e.type
<1>1. log \in Seq(Event)
    BY DEF TypeOK
<1>2. /\ log' \in Seq(Event)
      /\ Len(log) \in Nat /\ Len(log') = Len(log) + 1
      /\ DOMAIN log = 1..Len(log) /\ DOMAIN log' = 1..(Len(log) + 1)
      /\ log'[Len(log) + 1] = e
      /\ \A k \in DOMAIN log : log'[k] = log[k]
    BY <1>1
<1>3. log' # <<>>
    BY <1>2
<1> QED
    BY <1>2, <1>3 DEF LastType

LEMMA PositionsGrow ==
    ASSUME TypeOK, NEW e \in Event, log' = Append(log, e), NEW types
    PROVE  /\ Positions(types) \subseteq 1..Len(log)
           /\ Positions(types)' = IF e.type \in types THEN Positions(types) \cup {Len(log) + 1}
                                  ELSE Positions(types)
<1> USE Appended
<1>1. \A k : k \in Positions(types) <=> k \in 1..Len(log) /\ log[k].type \in types
    BY DEF Positions
<1>2. \A k : k \in Positions(types)' <=> k \in 1..(Len(log) + 1) /\ log'[k].type \in types
    BY DEF Positions
<1>3. \A k : k \in 1..(Len(log) + 1) <=> k \in 1..Len(log) \/ k = Len(log) + 1
    OBVIOUS
<1>4. \A k : k \in Positions(types)' <=>
                k \in Positions(types) \/ (k = Len(log) + 1 /\ e.type \in types)
    BY <1>1, <1>2, <1>3
<1>5. CASE e.type \in types
    BY <1>1, <1>4, <1>5
<1>6. CASE e.type \notin types
    BY <1>1, <1>4, <1>6
<1> QED
    BY <1>5, <1>6

LEMMA LastExists ==
    ASSUME TypeOK, NEW types, HasLast(types), Positions(types) # {}
    PROVE  /\ Max(Positions(types)) \in Positions(types)
           /\ \A k \in Positions(types) : Max(Positions(types)) >= k
BY DEF HasLast, Max

LEMMA LastGrows ==
    ASSUME TypeOK, NEW e \in Event, log' = Append(log, e), NEW types, HasLast(types)
    PROVE  /\ HasLast(types)'
           /\ e.type \in types => Positions(types)' # {} /\ LastOf(types)' = e
           /\ e.type \notin types => Positions(types)' = Positions(types)
           /\ e.type \notin types /\ Positions(types) # {} => LastOf(types)' = LastOf(types)
<1> USE Appended
<1>1. CASE e.type \in types
  <2>1. /\ Positions(types) \subseteq 1..Len(log)
        /\ Positions(types)' = Positions(types) \cup {Len(log) + 1}
    BY <1>1, PositionsGrow
  <2>2. \A m \in Positions(types)' : (\A k \in Positions(types)' : m >= k) <=> m = Len(log) + 1
    BY <2>1
  <2>3. Max(Positions(types)') = Len(log) + 1
    BY <2>1, <2>2 DEF Max
  <2>4. Positions(types)' # {} /\ HasLast(types)'
    BY <2>1, <2>2 DEF HasLast
  <2>5. LastOf(types)' = log'[Max(Positions(types)')]
    BY DEF LastOf
  <2> QED
    BY <1>1, <2>3, <2>4, <2>5
<1>2. CASE e.type \notin types
  <2>1. /\ Positions(types) \subseteq 1..Len(log)
        /\ Positions(types)' = Positions(types)
    BY <1>2, PositionsGrow
  <2>2. HasLast(types)'
    BY <2>1 DEF HasLast
  <2>3. ASSUME Positions(types) # {} PROVE LastOf(types)' = LastOf(types)
    <3>1. Max(Positions(types)) \in 1..Len(log)
      BY <2>1, <2>3, LastExists
    <3>2. LastOf(types)' = log'[Max(Positions(types)')]
      BY DEF LastOf
    <3>3. LastOf(types) = log[Max(Positions(types))]
      BY DEF LastOf
    <3> QED
      BY <2>1, <3>1, <3>2, <3>3
  <2> QED
    BY <1>2, <2>1, <2>2, <2>3
<1> QED
    BY <1>1, <1>2

LEMMA FailuresCounted ==
    ASSUME TypeOK
    PROVE  FailedRounds \in Nat /\ IsFiniteSet(Positions(Failure)) /\ (log = <<>> => FailedRounds = 0)
<1>1. log \in Seq(Event) /\ Len(log) \in Nat /\ DOMAIN log = 1..Len(log)
    BY DEF TypeOK
<1>2. IsFiniteSet(1..Len(log))
    BY <1>1, FS_Interval
<1>3. Positions(Failure) \in SUBSET (1..Len(log))
    BY <1>1 DEF Positions
<1>4. IsFiniteSet(Positions(Failure))
    BY <1>2, <1>3, FS_Subset
<1>5. FailedRounds = Cardinality(Positions(Failure))
    BY DEF FailedRounds, Count, Failure
<1>6. log = <<>> => Positions(Failure) = {}
    BY <1>1, <1>3
<1> QED
    BY <1>4, <1>5, <1>6, FS_CardinalityType, FS_EmptySet

\* A replay goes on from where it was: it looks at the new event or passes it by.
LEMMA AppendReplays ==
    ASSUME TypeOK, NEW e \in Event, log' = Append(log, e),
           HasLast(DOMAIN StateAfter), HasLast(Failure)
    PROVE  /\ HasLast(DOMAIN StateAfter)' /\ HasLast(Failure)'
           /\ e.type \in DOMAIN StateAfter => ReplayedState' = StateAfter[e.type]
           /\ e.type \notin DOMAIN StateAfter => ReplayedState' = ReplayedState
           /\ e.type \in Failure => /\ ReplayedRepairs' = e.repairs
                                    /\ FailedRounds' = FailedRounds + 1
           /\ e.type \notin Failure => /\ ReplayedRepairs' = ReplayedRepairs
                                       /\ FailedRounds' = FailedRounds
<1>1. /\ HasLast(DOMAIN StateAfter)'
      /\ e.type \in DOMAIN StateAfter => /\ Positions(DOMAIN StateAfter)' # {}
                                         /\ LastOf(DOMAIN StateAfter)' = e
      /\ e.type \notin DOMAIN StateAfter =>
            Positions(DOMAIN StateAfter)' = Positions(DOMAIN StateAfter)
      /\ e.type \notin DOMAIN StateAfter /\ Positions(DOMAIN StateAfter) # {} =>
            LastOf(DOMAIN StateAfter)' = LastOf(DOMAIN StateAfter)
    BY LastGrows
<1>2. /\ HasLast(Failure)'
      /\ e.type \in Failure => Positions(Failure)' # {} /\ LastOf(Failure)' = e
      /\ e.type \notin Failure => Positions(Failure)' = Positions(Failure)
      /\ e.type \notin Failure /\ Positions(Failure) # {} => LastOf(Failure)' = LastOf(Failure)
    BY LastGrows
<1>3. /\ e.type \in DOMAIN StateAfter => ReplayedState' = StateAfter[e.type]
      /\ e.type \notin DOMAIN StateAfter => ReplayedState' = ReplayedState
    BY <1>1 DEF ReplayedState
<1>4. /\ e.type \in Failure => ReplayedRepairs' = e.repairs
      /\ e.type \notin Failure => ReplayedRepairs' = ReplayedRepairs
    BY <1>2 DEF ReplayedRepairs, Failure
<1>5. FailedRounds = Cardinality(Positions(Failure))
    BY DEF FailedRounds, Count, Failure
<1>6. FailedRounds' = Cardinality(Positions(Failure)')
    BY DEF FailedRounds, Count, Failure
<1>7. e.type \in Failure => FailedRounds' = FailedRounds + 1
  <2>1. ASSUME e.type \in Failure PROVE FailedRounds' = FailedRounds + 1
    <3>1. Positions(Failure) \subseteq 1..Len(log) /\ Len(log) \in Nat
      BY PositionsGrow, Appended
    <3>2. Positions(Failure)' = Positions(Failure) \cup {Len(log) + 1}
      BY <2>1, PositionsGrow
    <3>3. Len(log) + 1 \notin Positions(Failure)
      BY <3>1
    <3> QED
      BY <1>5, <1>6, <3>2, <3>3, FailuresCounted, FS_AddElement
  <2> QED
    BY <2>1
<1>8. e.type \notin Failure => FailedRounds' = FailedRounds
    BY <1>2, <1>5, <1>6
<1> QED
    BY <1>1, <1>2, <1>3, <1>4, <1>7, <1>8

\* When the last event is one that a replay looks at, it tells the state.
LEMMA LastTells ==
    ASSUME TypeOK, HasLast(DOMAIN StateAfter)
    PROVE  /\ LastType \in DOMAIN StateAfter => ReplayedState = StateAfter[LastType]
           /\ log = <<>> => ReplayedState = "STARTING"
<1>1. log \in Seq(Event) /\ Len(log) \in Nat /\ DOMAIN log = 1..Len(log)
    BY DEF TypeOK
<1>2. log = <<>> => Positions(DOMAIN StateAfter) = {}
    BY <1>1 DEF Positions
<1>3. ASSUME LastType \in DOMAIN StateAfter PROVE ReplayedState = StateAfter[LastType]
  <2>1. log # <<>> /\ LastType = log[Len(log)].type
    BY <1>3 DEF LastType, StateAfter, EventTypes
  <2>2. Len(log) \in Positions(DOMAIN StateAfter)
    BY <1>1, <1>3, <2>1 DEF Positions
  <2>3. Positions(DOMAIN StateAfter) \subseteq 1..Len(log)
    BY <1>1 DEF Positions
  <2>4. /\ Max(Positions(DOMAIN StateAfter)) \in Positions(DOMAIN StateAfter)
        /\ Max(Positions(DOMAIN StateAfter)) >= Len(log)
    BY <2>2, LastExists
  <2>5. Max(Positions(DOMAIN StateAfter)) = Len(log)
    BY <1>1, <2>3, <2>4
  <2> QED
    BY <2>1, <2>2, <2>5 DEF ReplayedState, LastOf
<1> QED
    BY <1>2, <1>3 DEF ReplayedState

LEMMA StateTable ==
    /\ DOMAIN StateAfter = EventTypes \ {"RUN_RESUMED", "RECONCILIATION_OUTCOME",
                                         "EVALUATION_NEEDS_EVIDENCE", "EVALUATION_PASSED"}
    /\ StateAfter["RUN_STARTED"] = "RUNNING"
    /\ StateAfter["RUN_REPAIR_STARTED"] = "RUNNING"
    /\ StateAfter["RUN_DISPATCHED"] = "RUNNING"
    /\ StateAfter["RUN_COMPLETED"] = "EVALUATING"
    /\ StateAfter["EVALUATION_FAILED_REPAIRABLE"] = "REPAIRING"
    /\ StateAfter["EVALUATION_AMBIGUOUS_SIDE_EFFECT"] = "RECONCILING"
    /\ StateAfter["EVALUATION_OWNER_DECISION_REQUIRED"] = "WAITING_FOR_OWNER"
    /\ StateAfter["RUN_CLOSED"] = "CLOSED"
    /\ StateAfter["RUN_BLOCKED"] = "BLOCKED"
BY DEF StateAfter, EventTypes

-----------------------------------------------------------------------------
(* A fresh call, and what its append does to the others.                      *)
\* The ledger replays to the state that the place of a fresh call expects; in
\* particular never to CLOSED or BLOCKED.
LEMMA FreshCallFits ==
    ASSUME IInv, NEW c \in Calls, call[c].pc # "idle", Fresh(c)
    PROVE  /\ Stands(c)
           /\ call[c].pc \in {"dispatch", "dispatched", "poll", "completed"} =>
                 ReplayedState = "RUNNING"
           /\ call[c].pc = "evaluate" => ReplayedState = "EVALUATING"
           /\ ReplayedState \notin {"CLOSED", "BLOCKED"}
           /\ log = <<>> => /\ call[c].pc = "start" /\ call[c].to = "STARTING"
                            /\ LastType = "none"
<1>1. TypeOK /\ HasLast(DOMAIN StateAfter) /\ Sound(c)
    BY DEF IInv
<1>2. Stands(c)
    BY <1>1 DEF Sound
<1>3. call[c].pc \in {"start", "dispatch", "dispatched", "poll", "completed", "evaluate",
                      "resumed", "outcome", "block"}
    BY <1>1 DEF TypeOK, Call
<1>4. /\ LastType \in DOMAIN StateAfter => ReplayedState = StateAfter[LastType]
      /\ log = <<>> => ReplayedState = "STARTING" /\ LastType = "none"
    BY <1>1, LastTells DEF LastType
<1>5. call[c].pc \in {"dispatch", "dispatched", "poll", "completed"} =>
         ReplayedState = "RUNNING" /\ LastType # "none"
    BY <1>2, <1>4, StateTable DEF Stands, Starts, EventTypes
<1>6. call[c].pc = "evaluate" => ReplayedState = "EVALUATING" /\ LastType # "none"
    BY <1>2, <1>4, StateTable DEF Stands, EventTypes
<1>7. call[c].pc \in {"resumed", "outcome", "block"} =>
         ReplayedState \in {"WAITING_FOR_OWNER", "RECONCILING"}
    BY <1>2 DEF Stands
<1>8. call[c].pc = "start" =>
         /\ ReplayedState \in {"STARTING", "EVALUATING", "WAITING_FOR_OWNER", "REPAIRING",
                               "RECONCILING"}
         /\ LastType = "none" => call[c].to = "STARTING"
    BY <1>2 DEF Stands
<1> QED
    BY <1>2, <1>3, <1>4, <1>5, <1>6, <1>7, <1>8

\* Nobody else drives the run when a call's append is accepted.
LEMMA AppenderIsAlone ==
    ASSUME IInv, NEW c \in Calls, call[c].pc # "idle", Fresh(c),
           NEW d \in Calls, d # c
    PROVE  ~Driving(d)
<1> SUFFICES ASSUME Driving(d) PROVE FALSE
    OBVIOUS
<1>1. OneDriver /\ TypeOK /\ Sound(d)
    BY DEF IInv
<1>2. call[d].pc # "idle" /\ Fresh(d)
    BY <1>1 DEF Driving, Sound
<1>3. Stands(d) /\ ReplayedState \in {"RUNNING", "EVALUATING"}
    BY <1>2, FreshCallFits DEF Driving
<1>4. LastType \in Starts \cup {"RUN_DISPATCHED", "RUN_COMPLETED"}
    BY <1>3 DEF Stands, Driving
<1>5. ~Driving(c)
    BY <1>1 DEF OneDriver
<1>6. call[c].pc \in {"start", "resumed", "outcome", "block"}
    BY <1>1, <1>5 DEF TypeOK, Call, Driving
<1>7. Stands(c)
    BY FreshCallFits
<1>8. CASE call[c].pc = "start"
    BY <1>4, <1>7, <1>8 DEF Stands, Starts
<1>9. CASE call[c].pc \in {"resumed", "outcome", "block"}
    BY <1>3, <1>7, <1>9 DEF Stands
<1> QED
    BY <1>6, <1>8, <1>9

\* An accepted append leaves the others at most stale, and not driving.
LEMMA AppendLeavesOthers ==
    ASSUME IInv, NEW c \in Calls, call[c].pc # "idle", Fresh(c),
           NEW e \in Event, log' = Append(log, e),
           \A d \in Calls \ {c} : call'[d] = call[d]
    PROVE  \A d \in Calls \ {c} : Sound(d)' /\ ~Driving(d)'
<1> SUFFICES ASSUME NEW d \in Calls, d # c PROVE Sound(d)' /\ ~Driving(d)'
    OBVIOUS
<1>1. TypeOK /\ Sound(d) /\ call[d].revision \in Nat
    BY DEF IInv, TypeOK, Call
<1>2. ~Driving(d)'
    BY AppenderIsAlone DEF Driving
<1>3. Len(log) \in Nat /\ Len(log') = Len(log) + 1
    BY <1>1, Appended
<1>4. call'[d] = call[d]
    OBVIOUS
<1>5. call[d].pc # "idle" => call[d].revision <= Len(log) + 1
    BY <1>1 DEF Sound
<1>6. call[d].pc # "idle" => ~Fresh(d)'
    BY <1>1, <1>3, <1>4, <1>5 DEF Fresh
<1>7. call[d].pc = "idle" => call[d] = Idle
    BY <1>1 DEF Sound
<1>8. call[d].pc # "idle" => call'[d].revision <= Len(log') + 1
    BY <1>1, <1>3, <1>4, <1>5
<1> QED
    BY <1>2, <1>4, <1>6, <1>7, <1>8 DEF Sound

\* One driver at most, when only one call may have changed.
LEMMA StillOneDriver ==
    ASSUME NEW c \in Calls, \A d \in Calls \ {c} : ~Driving(d)'
    PROVE  OneDriver'
BY DEF OneDriver

\* What the ledger says stays as it is without an append.
LEMMA LedgerStays ==
    ASSUME UNCHANGED log
    PROVE  /\ LastType' = LastType /\ ReplayedState' = ReplayedState
           /\ FailedRounds' = FailedRounds
           /\ HasLast(DOMAIN StateAfter) => HasLast(DOMAIN StateAfter)'
           /\ HasLast(Failure) => HasLast(Failure)'
           /\ Waits => Waits'
           /\ Counted => Counted'
           /\ EveryStartHasItsCause => EveryStartHasItsCause'
           /\ FailedRepairsBounded => FailedRepairsBounded'
<1>1. \A types : Positions(types)' = Positions(types) /\ LastOf(types)' = LastOf(types)
    BY DEF Positions, LastOf
<1>2. LastType' = LastType
    BY DEF LastType
<1>3. ReplayedState' = ReplayedState /\ ReplayedRepairs' = ReplayedRepairs
    BY <1>1 DEF ReplayedState, ReplayedRepairs
<1>4. FailedRounds' = FailedRounds
    BY <1>1 DEF FailedRounds, Count
<1>5. /\ HasLast(DOMAIN StateAfter) => HasLast(DOMAIN StateAfter)'
      /\ HasLast(Failure) => HasLast(Failure)'
    BY <1>1 DEF HasLast
<1>6. Waits => Waits'
    BY <1>3 DEF Waits, Unanswered
<1>7. Counted => Counted'
    BY <1>3, <1>4 DEF Counted
<1>8. EveryStartHasItsCause => EveryStartHasItsCause'
    BY <1>1 DEF EveryStartHasItsCause, Between
<1>9. FailedRepairsBounded => FailedRepairsBounded'
    BY <1>1 DEF FailedRepairsBounded, Count
<1> QED
    BY <1>2, <1>3, <1>4, <1>5, <1>6, <1>7, <1>8, <1>9

LEMMA OthersStay ==
    ASSUME NEW d \in Calls, UNCHANGED log, call'[d] = call[d], Sound(d)
    PROVE  Sound(d)' /\ (Driving(d)' <=> Driving(d))
<1>1. /\ LastType' = LastType /\ ReplayedState' = ReplayedState
      /\ FailedRounds' = FailedRounds
    BY LedgerStays
<1>2. Stands(d)' <=> Stands(d)
    BY <1>1 DEF Stands
<1> QED
    BY <1>2 DEF Sound, Driving, Fresh

-----------------------------------------------------------------------------
(* What an append must bring along to keep the ledger's own properties.       *)
LEMMA UnansweredStays ==
    ASSUME TypeOK, NEW e \in Event, log' = Append(log, e), NEW type
    PROVE  /\ e.type \notin Starts /\ Unanswered(type) => Unanswered(type)'
           /\ e.type = type => Unanswered(type)'
<1> USE Appended
<1>1. ASSUME e.type \notin Starts, Unanswered(type) PROVE Unanswered(type)'
  <2>1. PICK p \in DOMAIN log : /\ log[p].type = type
                                /\ \A k \in DOMAIN log : k > p => log[k].type \notin Starts
    BY <1>1 DEF Unanswered
  <2>2. p \in DOMAIN log' /\ log'[p].type = type
    BY <2>1
  <2>3. \A k \in DOMAIN log' : k > p => log'[k].type \notin Starts
    BY <1>1, <2>1
  <2> QED
    BY <2>2, <2>3 DEF Unanswered
<1>2. ASSUME e.type = type PROVE Unanswered(type)'
  <2>1. Len(log) + 1 \in DOMAIN log' /\ log'[Len(log) + 1].type = type
    BY <1>2
  <2>2. \A k \in DOMAIN log' : ~(k > Len(log) + 1)
    OBVIOUS
  <2> QED
    BY <2>1, <2>2 DEF Unanswered
<1> QED
    BY <1>1, <1>2

LEMMA AppendWaits ==
    ASSUME IInv, NEW e \in Event, log' = Append(log, e)
    PROVE  Waits'
<1>1. TypeOK /\ HasLast(DOMAIN StateAfter) /\ HasLast(Failure) /\ Waits
    BY DEF IInv
<1>2. /\ e.type \in DOMAIN StateAfter => ReplayedState' = StateAfter[e.type]
      /\ e.type \notin DOMAIN StateAfter => ReplayedState' = ReplayedState
    BY <1>1, AppendReplays
<1>3. e.type \in EventTypes
    BY DEF Event
<1>4. e.type \notin DOMAIN StateAfter => e.type \notin Starts
    BY StateTable DEF Starts, EventTypes
<1>5. ReplayedState' = "WAITING_FOR_OWNER" => Unanswered("EVALUATION_OWNER_DECISION_REQUIRED")'
  <2>1. CASE e.type = "EVALUATION_OWNER_DECISION_REQUIRED"
    BY <1>1, <2>1, UnansweredStays
  <2>2. CASE e.type \notin DOMAIN StateAfter
    BY <1>1, <1>2, <1>4, <2>2, UnansweredStays DEF Waits
  <2>3. CASE e.type # "EVALUATION_OWNER_DECISION_REQUIRED" /\ e.type \in DOMAIN StateAfter
    BY <1>2, <1>3, <2>3, StateTable DEF EventTypes
  <2> QED
    BY <2>1, <2>2, <2>3
<1>6. ReplayedState' = "RECONCILING" => Unanswered("EVALUATION_AMBIGUOUS_SIDE_EFFECT")'
  <2>1. CASE e.type = "EVALUATION_AMBIGUOUS_SIDE_EFFECT"
    BY <1>1, <2>1, UnansweredStays
  <2>2. CASE e.type \notin DOMAIN StateAfter
    BY <1>1, <1>2, <1>4, <2>2, UnansweredStays DEF Waits
  <2>3. CASE e.type # "EVALUATION_AMBIGUOUS_SIDE_EFFECT" /\ e.type \in DOMAIN StateAfter
    BY <1>2, <1>3, <2>3, StateTable DEF EventTypes
  <2> QED
    BY <2>1, <2>2, <2>3
<1> QED
    BY <1>5, <1>6 DEF Waits

\* A failed round that is written carries its number and is within the limit.
LEMMA AppendCounts ==
    ASSUME IInv, NEW e \in Event, log' = Append(log, e),
           e.type \in Failure => /\ e.repairs >= FailedRounds + 1
                                 /\ FailedRounds + 1 <= MaxRepairAttempts
    PROVE  Counted' /\ FailedRepairsBounded'
<1>1. /\ TypeOK /\ HasLast(DOMAIN StateAfter) /\ HasLast(Failure) /\ Counted
      /\ FailedRepairsBounded
    BY DEF IInv
<1>2. /\ e.type \in Failure => /\ ReplayedRepairs' = e.repairs
                               /\ FailedRounds' = FailedRounds + 1
      /\ e.type \notin Failure => /\ ReplayedRepairs' = ReplayedRepairs
                                  /\ FailedRounds' = FailedRounds
    BY <1>1, AppendReplays
<1>3. Counted'
    BY <1>1, <1>2 DEF Counted
<1>4. FailedRounds' <= MaxRepairAttempts
    BY <1>1, <1>2 DEF FailedRepairsBounded, FailedRounds
<1> QED
    BY <1>3, <1>4 DEF FailedRepairsBounded, FailedRounds

\* A start that is written answers something that nothing has answered yet, and
\* a dispatch directly follows its start.
LEMMA AppendIsCaused ==
    ASSUME IInv, NEW e \in Event, log' = Append(log, e),
           log = <<>> => e.type = "RUN_STARTED",
           e.type \in Starts /\ log # <<>> => \E type \in CauseOf[e.type] : Unanswered(type),
           e.type = "RUN_DISPATCHED" => LastType \in Starts
    PROVE  EveryStartHasItsCause'
<1> USE Appended
<1>1. TypeOK /\ EveryStartHasItsCause
    BY DEF IInv
<1>2. log' # <<>> => log'[1].type = "RUN_STARTED"
  <2>1. CASE log = <<>>
    BY <1>1, <2>1
  <2>2. CASE log # <<>>
    <3>1. 1 \in DOMAIN log
      BY <1>1, <2>2 DEF TypeOK
    <3> QED
      BY <1>1, <2>2, <3>1 DEF EveryStartHasItsCause
  <2> QED
    BY <2>1, <2>2
<1>3. ASSUME NEW types, NEW k \in DOMAIN log, NEW l \in DOMAIN log, Between(k, l, types)
      PROVE  Between(k, l, types)'
  <2>1. PICK m \in (k + 1)..(l - 1) : log[m].type \in types
    BY <1>3 DEF Between
  <2>2. m \in DOMAIN log
    BY <1>1, <2>1
  <2> QED
    BY <1>1, <2>1, <2>2 DEF Between
<1>4. \A types : \A k \in Positions(types)' :
         \/ k \in Positions(types) /\ k \in DOMAIN log /\ log'[k] = log[k] /\ k < Len(log) + 1
         \/ k = Len(log) + 1 /\ e.type \in types /\ log'[k] = e
    BY <1>1 DEF Positions
<1>5. ASSUME NEW k \in Positions(Starts)', NEW l \in Positions(Starts)', k < l
      PROVE  Between(k, l, CauseOf[log[l].type])'
  <2>1. k \in Positions(Starts) /\ k \in DOMAIN log /\ log'[k] = log[k] /\ k < Len(log) + 1
    BY <1>1, <1>4, <1>5
  <2>2. CASE l \in Positions(Starts) /\ l \in DOMAIN log /\ log'[l] = log[l]
    BY <1>1, <1>3, <1>5, <2>1, <2>2 DEF EveryStartHasItsCause
  <2>3. CASE l = Len(log) + 1 /\ e.type \in Starts /\ log'[l] = e
    <3>1. log # <<>>
      BY <1>1, <2>1
    <3>2. PICK type \in CauseOf[e.type] : Unanswered(type)
      BY <2>3, <3>1
    <3>3. PICK p \in DOMAIN log : /\ log[p].type = type
                                  /\ \A q \in DOMAIN log : q > p => log[q].type \notin Starts
      BY <3>2 DEF Unanswered
    <3>4. type \notin Starts
      BY <2>3, <3>2 DEF CauseOf, Starts
    <3>5. log[k].type \in Starts
      BY <2>1 DEF Positions
    <3>6. p \in (k + 1)..(l - 1)
      BY <1>1, <2>1, <2>3, <3>3, <3>4, <3>5
    <3>7. log'[p].type \in CauseOf[log'[l].type]
      BY <1>1, <2>3, <3>2, <3>3
    <3> QED
      BY <3>6, <3>7 DEF Between
  <2> QED
    BY <1>4, <2>2, <2>3
<1>6. ASSUME NEW k \in Positions({"RUN_DISPATCHED"})', NEW l \in Positions({"RUN_DISPATCHED"})',
             k < l
      PROVE  Between(k, l, Starts)'
  <2>1. /\ k \in Positions({"RUN_DISPATCHED"}) /\ k \in DOMAIN log /\ log'[k] = log[k]
        /\ k < Len(log) + 1
    BY <1>1, <1>4, <1>6
  <2>2. CASE l \in Positions({"RUN_DISPATCHED"}) /\ l \in DOMAIN log /\ log'[l] = log[l]
    BY <1>1, <1>3, <1>6, <2>1, <2>2 DEF EveryStartHasItsCause
  <2>3. CASE l = Len(log) + 1 /\ e.type = "RUN_DISPATCHED"
    <3>1. log # <<>> /\ log[Len(log)].type \in Starts
      BY <1>1, <2>1, <2>3 DEF LastType
    <3>2. log[k].type \notin Starts
      BY <2>1 DEF Positions, Starts
    <3>3. Len(log) \in (k + 1)..(l - 1) /\ Len(log) \in DOMAIN log
      BY <1>1, <2>1, <2>3, <3>1, <3>2
    <3> QED
      BY <1>1, <3>1, <3>3 DEF Between
  <2> QED
    BY <1>4, <2>2, <2>3
<1> QED
  <2>1. \A k, l \in Positions(Starts)' : k < l => Between(k, l, CauseOf[log[l].type])'
    BY <1>5
  <2>2. \A k, l \in Positions({"RUN_DISPATCHED"})' : k < l => Between(k, l, Starts)'
    BY <1>6
  <2> QED
    BY <1>2, <2>1, <2>2 DEF EveryStartHasItsCause

-----------------------------------------------------------------------------
(* The steps.                                                                 *)
LEMMA InitHolds == Init => IInv
<1> SUFFICES ASSUME Init PROVE IInv
    OBVIOUS
<1>1. TypeOK
    BY CoordinatorConstants DEF Init, TypeOK, Idle, NoChild, Call, AllDecisions
<1>2. \A types : Positions(types) = {}
    BY DEF Init, Positions
<1>3. HasLast(DOMAIN StateAfter) /\ HasLast(Failure)
    BY <1>2 DEF HasLast
<1>4. \A c \in Calls : Sound(c)
    BY DEF Init, Sound, Idle
<1>5. OneDriver
    BY DEF Init, OneDriver, Driving, Idle
<1>6. ReplayedState = "STARTING" /\ ReplayedRepairs = 0
    BY <1>2 DEF ReplayedState, ReplayedRepairs
<1>7. FailedRounds = 0
    BY <1>1, FailuresCounted DEF Init
<1>8. FailedRepairsBounded
    BY <1>7, CoordinatorConstants DEF FailedRepairsBounded, FailedRounds
<1>9. EveryStartHasItsCause
    BY <1>2 DEF Init, EveryStartHasItsCause
<1> QED
    BY <1>1, <1>3, <1>4, <1>5, <1>6, <1>7, <1>8, <1>9 DEF IInv, Waits, Counted

\* A step without an append, by one call.
LEMMA QuietStep ==
    ASSUME IInv, TypeOK', UNCHANGED log, NEW c \in Calls, Sound(c)',
           \A d \in Calls \ {c} : call'[d] = call[d],
           Driving(c)' => Driving(c)
    PROVE  IInv'
<1>1. \A d \in Calls : Sound(d)' /\ (Driving(d)' => Driving(d))
    BY OthersStay DEF IInv
<1>2. OneDriver'
    BY <1>1 DEF IInv, OneDriver
<1> QED
    BY <1>1, <1>2, LedgerStays DEF IInv

\* A step that appends: what is left to show of it.
LEMMA AppendStep ==
    ASSUME IInv, NEW c \in Calls, call[c].pc # "idle", Fresh(c),
           NEW e \in Event, log' = Append(log, e),
           TypeOK', \A d \in Calls \ {c} : call'[d] = call[d],
           call'[c] = Idle \/ (Fresh(c)' /\ Stands(c)' /\ call'[c].pc # "idle"),
           e.type \in Failure => /\ e.repairs >= FailedRounds + 1
                                 /\ FailedRounds + 1 <= MaxRepairAttempts,
           log = <<>> => e.type = "RUN_STARTED",
           e.type \in Starts /\ log # <<>> => \E type \in CauseOf[e.type] : Unanswered(type),
           e.type = "RUN_DISPATCHED" => LastType \in Starts
    PROVE  IInv'
<1>1. TypeOK /\ HasLast(DOMAIN StateAfter) /\ HasLast(Failure)
    BY DEF IInv
<1>2. HasLast(DOMAIN StateAfter)' /\ HasLast(Failure)'
    BY <1>1, AppendReplays
<1>3. \A d \in Calls \ {c} : Sound(d)' /\ ~Driving(d)'
    BY AppendLeavesOthers
<1>4. OneDriver'
    BY <1>3, StillOneDriver
<1>5. Sound(c)'
  <2>1. CASE call'[c] = Idle
    BY <2>1 DEF Sound, Idle
  <2>2. CASE Fresh(c)' /\ Stands(c)' /\ call'[c].pc # "idle"
    <3>1. Len(log)' \in Nat /\ call'[c].revision = Len(log') + 1
      BY <1>1, <2>2, Appended DEF Fresh
    <3> QED
      BY <2>2, <3>1 DEF Sound
  <2> QED
    BY <2>1, <2>2
<1>6. Waits' /\ Counted' /\ FailedRepairsBounded' /\ EveryStartHasItsCause'
    BY AppendWaits, AppendCounts, AppendIsCaused
<1> QED
    BY <1>2, <1>3, <1>4, <1>5, <1>6 DEF IInv

LEMMA ReturnHolds ==
    ASSUME IInv, NEW c \in Calls, Return(c), UNCHANGED <<log, bridge>>, faults' \in 0..MaxFaults
    PROVE  IInv'
<1>1. call'[c] = Idle /\ \A d \in Calls \ {c} : call'[d] = call[d]
    BY DEF IInv, TypeOK, Return
<1>2. Idle \in Call
    BY CoordinatorConstants DEF Idle, Call, AllDecisions
<1>3. TypeOK'
    BY <1>2 DEF IInv, TypeOK, Return
<1>4. Sound(c)' /\ ~Driving(c)'
    BY <1>1 DEF Sound, Driving, Idle
<1> QED
    BY <1>1, <1>3, <1>4, QuietStep

LEMMA BeginExecuteHolds == ASSUME IInv, NEW c \in Calls, BeginExecute(c) PROVE IInv'
<1>1. TypeOK /\ Sound(c) /\ HasLast(DOMAIN StateAfter)
    BY DEF IInv
<1>2. call[c] = Idle
    BY <1>1 DEF BeginExecute, Sound
<1>3. /\ call'[c] = [Idle EXCEPT !.pc = "start"] /\ UNCHANGED log
      /\ \A d \in Calls \ {c} : call'[d] = call[d]
    BY <1>1, <1>2 DEF BeginExecute, TypeOK
<1>4. TypeOK'
    BY <1>1, ZenonT(60) DEF BeginExecute, TypeOK, Call
<1>5. Len(log) \in Nat /\ (Len(log) = 0 => log = <<>>)
    BY <1>1 DEF TypeOK
<1>6. log = <<>> => LastType = "none" /\ ReplayedState = "STARTING" /\ FailedRounds = 0
    BY <1>1, LastTells, FailuresCounted DEF LastType
<1>7. Fresh(c)' => log = <<>>
    BY <1>3, <1>5 DEF Fresh, Idle
<1>8. /\ LastType' = LastType /\ ReplayedState' = ReplayedState
      /\ FailedRounds' = FailedRounds
    BY <1>3, LedgerStays
<1>9. Fresh(c)' => Stands(c)'
    BY <1>3, <1>6, <1>7, <1>8 DEF Stands, Idle
<1>10. Sound(c)' /\ ~Driving(c)'
    BY <1>3, <1>5, <1>9 DEF Sound, Driving, Idle
<1> QED
    BY <1>3, <1>4, <1>10, QuietStep

LEMMA RepairsAreReplayed ==
    ASSUME IInv
    PROVE  ReplayedRepairs \in Nat /\ ReplayedRepairs >= FailedRounds
<1>1. CASE Positions(Failure) = {}
    BY <1>1 DEF ReplayedRepairs, Failure, IInv, Counted
<1>2. CASE Positions(Failure) # {}
  <2>1. Max(Positions(Failure)) \in DOMAIN log
    BY <1>2, LastExists DEF IInv, Positions
  <2>2. LastOf(Failure) \in Event
    BY <2>1 DEF LastOf, IInv, TypeOK
  <2> QED
    BY <1>2, <2>2 DEF ReplayedRepairs, Failure, IInv, Counted, Event
<1> QED
    BY <1>1, <1>2

LEMMA BegunCalls ==
    ASSUME NEW y \in Call, NEW n \in Nat, NEW r \in Nat
    PROVE  /\ \A ask \in Asks : [y EXCEPT !.pc = "resumed", !.revision = n,
                                     !.repairs = r, !.ask = ask] \in Call
           /\ \A safe \in BOOLEAN : [y EXCEPT !.pc = "outcome", !.to = "REPAIRING",
                                     !.revision = n, !.repairs = r, !.safe = safe] \in Call
BY DEF Call

LEMMA BeginResumeHolds ==
    ASSUME IInv, NEW c \in Calls, NEW ask \in Asks, BeginResume(c, ask) PROVE IInv'
<1> DEFINE x == [Idle EXCEPT !.pc = "resumed", !.revision = Len(log) + 1,
                             !.repairs = ReplayedRepairs, !.ask = ask]
<1>1. /\ call'[c] = x /\ UNCHANGED log
      /\ \A d \in Calls \ {c} : call'[d] = call[d]
    BY DEF BeginResume, IInv, TypeOK
<1>2. Len(log) \in Nat /\ log \in Seq(Event)
    BY DEF IInv, TypeOK
<1>3. ReplayedRepairs \in Nat /\ ReplayedRepairs >= FailedRounds
    BY RepairsAreReplayed
<1>4. x \in Call
  <2>1. Idle \in Call
    BY CoordinatorConstants DEF Idle, Call, AllDecisions
  <2>2. Len(log) + 1 \in Nat
    BY <1>2
  <2> QED
    BY <1>3, <2>1, <2>2, BegunCalls
<1>5. TypeOK'
    BY <1>4 DEF BeginResume, IInv, TypeOK
<1>6. ReplayedState' = ReplayedState /\ FailedRounds' = FailedRounds
    BY <1>1, LedgerStays
<1>7. ReplayedState = "WAITING_FOR_OWNER"
    BY DEF BeginResume
<1>8. x.pc = "resumed" /\ x.to = "STARTING" /\ x.revision = Len(log) + 1 /\ x.repairs = ReplayedRepairs
    BY DEF Idle
<1>9. Stands(c)'
    BY <1>1, <1>3, <1>6, <1>7, <1>8 DEF Stands
<1>10. Sound(c)' /\ ~Driving(c)'
    BY <1>1, <1>2, <1>8, <1>9 DEF Sound, Driving
<1> QED
    BY <1>1, <1>5, <1>10, QuietStep

LEMMA BeginReconcileHolds ==
    ASSUME IInv, NEW c \in Calls, NEW safe \in BOOLEAN, BeginReconcile(c, safe) PROVE IInv'
<1> DEFINE x == [Idle EXCEPT !.pc = "outcome", !.to = "REPAIRING", !.revision = Len(log) + 1,
                             !.repairs = ReplayedRepairs, !.safe = safe]
<1>1. /\ call'[c] = x /\ UNCHANGED log
      /\ \A d \in Calls \ {c} : call'[d] = call[d]
    BY DEF BeginReconcile, IInv, TypeOK
<1>2. Len(log) \in Nat /\ log \in Seq(Event)
    BY DEF IInv, TypeOK
<1>3. ReplayedRepairs \in Nat /\ ReplayedRepairs >= FailedRounds
    BY RepairsAreReplayed
<1>4. x \in Call
  <2>1. Idle \in Call
    BY CoordinatorConstants DEF Idle, Call, AllDecisions
  <2>2. Len(log) + 1 \in Nat
    BY <1>2
  <2> QED
    BY <1>3, <2>1, <2>2, BegunCalls
<1>5. TypeOK'
    BY <1>4 DEF BeginReconcile, IInv, TypeOK
<1>6. ReplayedState' = ReplayedState /\ FailedRounds' = FailedRounds
    BY <1>1, LedgerStays
<1>7. ReplayedState = "RECONCILING"
    BY DEF BeginReconcile
<1>8. x.pc = "outcome" /\ x.to = "REPAIRING" /\ x.revision = Len(log) + 1 /\ x.repairs = ReplayedRepairs
    BY DEF Idle
<1>9. Stands(c)'
    BY <1>1, <1>3, <1>6, <1>7, <1>8 DEF Stands
<1>10. Sound(c)' /\ ~Driving(c)'
    BY <1>1, <1>2, <1>8, <1>9 DEF Sound, Driving
<1> QED
    BY <1>1, <1>5, <1>10, QuietStep

\* The steps that move a driver on without an append.
LEMMA DriverMoves ==
    ASSUME IInv, NEW c \in Calls, Driving(c), UNCHANGED log, TypeOK',
           \A d \in Calls \ {c} : call'[d] = call[d],
           <<call[c].pc, call'[c].pc>> \in {<<"dispatch", "dispatched">>, <<"poll", "completed">>},
           call'[c].revision = call[c].revision, call'[c].repairs = call[c].repairs
    PROVE  IInv'
<1>1. /\ LastType' = LastType /\ ReplayedState' = ReplayedState
      /\ FailedRounds' = FailedRounds
    BY LedgerStays
<1>2. Sound(c) /\ Fresh(c) /\ Stands(c)
    BY DEF IInv, Sound, Driving
<1>3. Fresh(c)' /\ Stands(c)'
    BY <1>1, <1>2 DEF Fresh, Stands
<1>4. Sound(c)'
    BY <1>2, <1>3 DEF Sound, Driving, Fresh
<1> QED
    BY <1>4, QuietStep

LEMMA DispatchHolds == ASSUME IInv, NEW c \in Calls, Dispatch(c) PROVE IInv'
<1>1. TypeOK'
    BY ZenonT(60) DEF IInv, TypeOK, Dispatch, Call
<1>2. /\ call'[c] = [call[c] EXCEPT !.pc = "dispatched"]
      /\ \A d \in Calls \ {c} : call'[d] = call[d]
    BY DEF IInv, TypeOK, Dispatch
<1>3. call[c] \in Call
    BY DEF IInv, TypeOK
<1>4. /\ call'[c].pc = "dispatched" /\ call'[c].revision = call[c].revision
      /\ call'[c].repairs = call[c].repairs
    BY <1>2, <1>3 DEF Call
<1> QED
    BY <1>1, <1>2, <1>4, DriverMoves DEF Dispatch, Driving

LEMMA ReviewedHolds ==
    ASSUME IInv, NEW c \in Calls, call[c].pc = "poll", NEW decision \in AllDecisions,
           Reviewed(c, decision), UNCHANGED <<log, faults>>,
           bridge' \in {bridge, [bridge EXCEPT !.cancelled = TRUE]}
    PROVE  IInv'
<1>1. TypeOK'
  <2>1. call[c] \in Call /\ call \in [Calls -> Call]
    BY DEF IInv, TypeOK
  <2>2. [call[c] EXCEPT !.pc = "completed", !.decision = decision] \in Call
    BY <2>1 DEF Call
  <2>3. call' \in [Calls -> Call]
    BY <2>1, <2>2 DEF Reviewed
  <2>4. bridge' \in [cancelled : BOOLEAN,
                    child : {"NONE", "RUNNING", "COMPLETED", "FAILED", "CANCELLED"}]
    BY DEF IInv, TypeOK
  <2> QED
    BY <2>3, <2>4 DEF IInv, TypeOK
<1>2. /\ call'[c] = [call[c] EXCEPT !.pc = "completed", !.decision = decision]
      /\ \A d \in Calls \ {c} : call'[d] = call[d]
    BY DEF IInv, TypeOK, Reviewed
<1>3. call[c] \in Call
    BY DEF IInv, TypeOK
<1>4. /\ call'[c].pc = "completed" /\ call'[c].revision = call[c].revision
      /\ call'[c].repairs = call[c].repairs
    BY <1>2, <1>3 DEF Call
<1> QED
    BY <1>1, <1>2, <1>4, DriverMoves DEF Driving

LEMMA TakeResultHolds == ASSUME IInv, NEW c \in Calls, TakeResult(c) PROVE IInv'
<1>1. PICK decision \in AllDecisions : Reviewed(c, decision)
    BY CoordinatorConstants DEF TakeResult, AllDecisions
<1> QED
    BY <1>1, ReviewedHolds DEF TakeResult

LEMMA TimeoutHolds == ASSUME IInv, NEW c \in Calls, Timeout(c) PROVE IInv'
<1>1. "AMBIGUOUS_SIDE_EFFECT" \in AllDecisions
    BY DEF AllDecisions
<1> QED
    BY <1>1, ReviewedHolds DEF Timeout

LEMMA ChildClosesHolds == ASSUME IInv, ChildCloses PROVE IInv'
<1>1. TypeOK'
    BY DEF IInv, TypeOK, ChildCloses
<1>2. UNCHANGED <<log, call>>
    BY DEF ChildCloses
<1>3. \A d \in Calls : Sound(d)' /\ (Driving(d)' <=> Driving(d))
    BY <1>2, OthersStay DEF IInv
<1>4. OneDriver'
    BY <1>3 DEF IInv, OneDriver
<1> QED
    BY <1>1, <1>2, <1>3, <1>4, LedgerStays DEF IInv

LEMMA CrashHolds == ASSUME IInv, Crash PROVE IInv'
<1>1. Idle \in Call
    BY CoordinatorConstants DEF Idle, Call, AllDecisions
<1>2. TypeOK'
    BY <1>1, CoordinatorConstants DEF IInv, TypeOK, Crash, NoChild
<1>3. \A d \in Calls : Sound(d)' /\ ~Driving(d)'
    BY DEF Crash, Sound, Driving, Idle
<1>4. OneDriver'
    BY <1>3 DEF OneDriver
<1> QED
    BY <1>2, <1>3, <1>4, LedgerStays DEF IInv, Crash

-----------------------------------------------------------------------------
(* The steps that append.                                                     *)
LEMMA PlainEvents ==
    ASSUME NEW type \in EventTypes
    PROVE  /\ PlainEvent(type) \in Event /\ PlainEvent(type).type = type
           /\ \A a \in Asks \cup {NoAsk} :
                 /\ [PlainEvent(type) EXCEPT !.ask = a] \in Event
                 /\ [PlainEvent(type) EXCEPT !.ask = a].type = type
           /\ \A n \in Nat :
                 /\ [PlainEvent(type) EXCEPT !.repairs = n] \in Event
                 /\ [PlainEvent(type) EXCEPT !.repairs = n].type = type
                 /\ [PlainEvent(type) EXCEPT !.repairs = n].repairs = n
           /\ \A b \in BOOLEAN :
                 /\ [PlainEvent(type) EXCEPT !.safe = b] \in Event
                 /\ [PlainEvent(type) EXCEPT !.safe = b].type = type
BY DEF PlainEvent, Event

LEMMA GoingOn ==
    ASSUME IInv, NEW c \in Calls, Fresh(c), NEW e \in Event, log' = Append(log, e),
           call[c].pc # "idle", NEW pc, Goto(c, pc),
           pc \in {"start", "dispatch", "poll", "evaluate", "block"}, UNCHANGED <<bridge, faults>>
    PROVE  /\ TypeOK' /\ Fresh(c)'
           /\ \A d \in Calls \ {c} : call'[d] = call[d]
           /\ call'[c].pc = pc /\ call'[c].to = call[c].to /\ call'[c].safe = call[c].safe
           /\ call'[c].repairs = call[c].repairs
<1>1. TypeOK /\ call[c] \in Call /\ call[c].revision \in Nat
    BY DEF IInv, TypeOK, Call
<1>2. [call[c] EXCEPT !.pc = pc, !.revision = @ + 1] \in Call
  <2>1. \A y \in Call, n \in Nat : [y EXCEPT !.pc = pc, !.revision = n] \in Call
    BY DEF Call
  <2>2. call[c].revision + 1 \in Nat
    BY <1>1
  <2> QED
    BY <1>1, <2>1, <2>2
<1>3. /\ call' = [call EXCEPT ![c] = [call[c] EXCEPT !.pc = pc, !.revision = @ + 1]]
      /\ call \in [Calls -> Call]
    BY <1>1 DEF Goto, TypeOK
<1>4. call' \in [Calls -> Call]
    BY <1>2, <1>3
<1>5. /\ Len(log) \in Nat /\ Len(log') = Len(log) + 1 /\ log' \in Seq(Event)
    BY <1>1, Appended
<1>6. /\ call'[c] = [call[c] EXCEPT !.pc = pc, !.revision = @ + 1]
      /\ \A d \in Calls \ {c} : call'[d] = call[d]
    BY <1>3
<1>7. /\ call'[c].pc = pc /\ call'[c].to = call[c].to /\ call'[c].safe = call[c].safe
      /\ call'[c].repairs = call[c].repairs /\ call'[c].revision = call[c].revision + 1
    BY <1>1, <1>6 DEF Call
<1>8. Fresh(c)'
    BY <1>1, <1>5, <1>7 DEF Fresh
<1>9. TypeOK'
    BY <1>1, <1>4, <1>5 DEF TypeOK
<1> QED
    BY <1>6, <1>7, <1>8, <1>9

LEMMA Returning ==
    ASSUME IInv, NEW c \in Calls, NEW e \in Event, log' = Append(log, e),
           Return(c), UNCHANGED <<bridge, faults>>
    PROVE  /\ TypeOK' /\ call'[c] = Idle
           /\ \A d \in Calls \ {c} : call'[d] = call[d]
<1>1. TypeOK /\ Idle \in Call
    BY CoordinatorConstants DEF IInv, Idle, Call, AllDecisions
<1>2. log' \in Seq(Event)
    BY <1>1, Appended
<1> QED
    BY <1>1, <1>2 DEF TypeOK, Return

\* The ledger after a fresh call's append, as the call sees it.
LEMMA AfterAppend ==
    ASSUME IInv, NEW c \in Calls, Fresh(c), call[c].pc # "idle",
           NEW e \in Event, log' = Append(log, e)
    PROVE  /\ LastType' = e.type /\ FailedRounds \in Nat /\ FailedRounds' \in Nat
           /\ call[c].repairs \in Nat /\ call[c].repairs >= FailedRounds
           /\ e.type \in DOMAIN StateAfter => ReplayedState' = StateAfter[e.type]
           /\ e.type \notin DOMAIN StateAfter => ReplayedState' = ReplayedState
           /\ e.type \in Failure => FailedRounds' = FailedRounds + 1
           /\ e.type \notin Failure => FailedRounds' = FailedRounds
<1>1. TypeOK /\ HasLast(DOMAIN StateAfter) /\ HasLast(Failure) /\ call[c].repairs \in Nat
    BY DEF IInv, TypeOK, Call
<1>2. call[c].repairs >= FailedRounds
    BY FreshCallFits DEF Stands
<1>3. FailedRounds \in Nat
    BY <1>1, FailuresCounted
<1> QED
    BY <1>1, <1>2, <1>3, AppendReplays, Appended

\* A fresh call at its start has an unanswered cause, or is the first.
LEMMA StartIsCaused ==
    ASSUME IInv, NEW c \in Calls, Fresh(c), call[c].pc = "start", log # <<>>
    PROVE  /\ call[c].to = "STARTING" =>
                 \E type \in CauseOf["RUN_STARTED"] : Unanswered(type)
           /\ call[c].to = "REPAIRING" =>
                 \E type \in CauseOf["RUN_REPAIR_STARTED"] : Unanswered(type)
<1>1. Stands(c) /\ TypeOK /\ Waits
    BY FreshCallFits DEF IInv
<1>2. /\ CauseOf["RUN_STARTED"] = {"EVALUATION_PASSED", "EVALUATION_OWNER_DECISION_REQUIRED"}
      /\ CauseOf["RUN_REPAIR_STARTED"] =
            {"EVALUATION_FAILED_REPAIRABLE", "EVALUATION_NEEDS_EVIDENCE",
             "EVALUATION_AMBIGUOUS_SIDE_EFFECT"}
    BY DEF CauseOf, Starts
<1>3. Len(log) \in DOMAIN log /\ DOMAIN log = 1..Len(log) /\ Len(log) \in Nat
    BY <1>1 DEF TypeOK
<1>4. LastType = log[Len(log)].type
    BY DEF LastType
<1>5. Unanswered(LastType)
    BY <1>3, <1>4 DEF Unanswered
<1>6. LastType # "none"
  <2>1. log[Len(log)] \in Event
    BY <1>1, <1>3 DEF TypeOK
  <2> QED
    BY <1>4, <2>1 DEF Event, EventTypes
<1>7. <<LastType, ReplayedState, call[c].to>> \in
          {<<"EVALUATION_PASSED", "EVALUATING", "STARTING">>,
           <<"RUN_RESUMED", "WAITING_FOR_OWNER", "STARTING">>,
           <<"EVALUATION_FAILED_REPAIRABLE", "REPAIRING", "REPAIRING">>,
           <<"EVALUATION_NEEDS_EVIDENCE", "EVALUATING", "REPAIRING">>,
           <<"RECONCILIATION_OUTCOME", "RECONCILING", "REPAIRING">>}
    BY <1>1, <1>6 DEF Stands
<1>8. /\ LastType = "EVALUATION_PASSED" /\ call[c].to = "STARTING"
      \/ /\ ReplayedState = "WAITING_FOR_OWNER" /\ call[c].to = "STARTING"
      \/ /\ LastType \in {"EVALUATION_FAILED_REPAIRABLE", "EVALUATION_NEEDS_EVIDENCE"}
         /\ call[c].to = "REPAIRING"
      \/ /\ ReplayedState = "RECONCILING" /\ call[c].to = "REPAIRING"
    BY <1>7
<1> QED
    BY <1>1, <1>2, <1>5, <1>8 DEF Waits

LEMMA StartHolds == ASSUME IInv, NEW c \in Calls, Start(c) PROVE IInv'
<1> DEFINE t == IF call[c].to = "STARTING" THEN "RUN_STARTED" ELSE "RUN_REPAIR_STARTED"
           e == [PlainEvent(t) EXCEPT !.ask = call[c].ask]
<1>1. /\ call[c].pc = "start" /\ Fresh(c) /\ log' = Append(log, e) /\ Goto(c, "dispatch")
      /\ UNCHANGED <<bridge, faults>>
    BY DEF Start, Emit, Fresh
<1>2. call[c].ask \in Asks \cup {NoAsk} /\ call[c].to \in {"STARTING", "REPAIRING"}
    BY DEF IInv, TypeOK, Call
<1>3. t \in EventTypes
    BY DEF EventTypes
<1>4. e \in Event /\ e.type = t
    BY <1>2, <1>3, PlainEvents
<1> HIDE DEF e
<1>5. /\ TypeOK' /\ Fresh(c)' /\ \A d \in Calls \ {c} : call'[d] = call[d]
      /\ call'[c].pc = "dispatch" /\ call'[c].repairs = call[c].repairs
    BY <1>1, <1>4, GoingOn
<1>6. LastType' = t /\ FailedRounds' = FailedRounds /\ call[c].repairs >= FailedRounds
    BY <1>1, <1>4, AfterAppend DEF Failure
<1>7. Stands(c)'
    BY <1>5, <1>6 DEF Stands, Starts
<1>8. log = <<>> => e.type = "RUN_STARTED"
    BY <1>1, <1>4, FreshCallFits
<1>9. e.type \in Starts /\ log # <<>> => \E type \in CauseOf[e.type] : Unanswered(type)
    BY <1>1, <1>2, <1>4, StartIsCaused
<1>10. e.type \notin Failure /\ e.type # "RUN_DISPATCHED"
    BY <1>4 DEF Failure
<1> QED
    BY <1>1, <1>4, <1>5, <1>7, <1>8, <1>9, <1>10, AppendStep

LEMMA DispatchedHolds == ASSUME IInv, NEW c \in Calls, Dispatched(c) PROVE IInv'
<1> DEFINE e == PlainEvent("RUN_DISPATCHED")
<1>1. /\ call[c].pc = "dispatched" /\ Fresh(c) /\ log' = Append(log, e) /\ Goto(c, "poll")
      /\ UNCHANGED <<bridge, faults>>
    BY DEF Dispatched, Emit, Fresh
<1>2. e \in Event /\ e.type = "RUN_DISPATCHED"
    BY CoordinatorConstants DEF PlainEvent, Event, EventTypes
<1> HIDE DEF e
<1>3. /\ TypeOK' /\ Fresh(c)' /\ \A d \in Calls \ {c} : call'[d] = call[d]
      /\ call'[c].pc = "poll" /\ call'[c].repairs = call[c].repairs
    BY <1>1, <1>2, GoingOn
<1>4. LastType' = "RUN_DISPATCHED" /\ FailedRounds' = FailedRounds /\ call[c].repairs >= FailedRounds
    BY <1>1, <1>2, AfterAppend DEF Failure
<1>5. Stands(c)'
    BY <1>3, <1>4 DEF Stands
<1>6. Stands(c) /\ log # <<>>
    BY <1>1, FreshCallFits
<1>7. LastType \in Starts
    BY <1>1, <1>6 DEF Stands
<1>8. e.type \notin Failure /\ e.type \notin Starts
    BY <1>2 DEF Failure, Starts
<1> QED
    BY <1>1, <1>2, <1>3, <1>5, <1>6, <1>7, <1>8, AppendStep

LEMMA CompletedHolds == ASSUME IInv, NEW c \in Calls, Completed(c) PROVE IInv'
<1> DEFINE e == PlainEvent("RUN_COMPLETED")
<1>1. /\ call[c].pc = "completed" /\ Fresh(c) /\ log' = Append(log, e) /\ Goto(c, "evaluate")
      /\ UNCHANGED <<bridge, faults>>
    BY DEF Completed, Emit, Fresh
<1>2. e \in Event /\ e.type = "RUN_COMPLETED"
    BY CoordinatorConstants DEF PlainEvent, Event, EventTypes
<1> HIDE DEF e
<1>3. /\ TypeOK' /\ Fresh(c)' /\ \A d \in Calls \ {c} : call'[d] = call[d]
      /\ call'[c].pc = "evaluate" /\ call'[c].repairs = call[c].repairs
    BY <1>1, <1>2, GoingOn
<1>4. LastType' = "RUN_COMPLETED" /\ FailedRounds' = FailedRounds /\ call[c].repairs >= FailedRounds
    BY <1>1, <1>2, AfterAppend DEF Failure
<1>5. Stands(c)'
    BY <1>3, <1>4 DEF Stands
<1>6. log # <<>>
    BY <1>1, FreshCallFits
<1>7. e.type \notin Failure /\ e.type \notin Starts /\ e.type # "RUN_DISPATCHED"
    BY <1>2 DEF Failure, Starts
<1> QED
    BY <1>1, <1>2, <1>3, <1>5, <1>6, <1>7, AppendStep

LEMMA ResumedHolds == ASSUME IInv, NEW c \in Calls, Resumed(c) PROVE IInv'
<1> DEFINE e == PlainEvent("RUN_RESUMED")
<1>1. /\ call[c].pc = "resumed" /\ Fresh(c) /\ log' = Append(log, e) /\ Goto(c, "start")
      /\ UNCHANGED <<bridge, faults>>
    BY DEF Resumed, Emit, Fresh
<1>2. e \in Event /\ e.type = "RUN_RESUMED"
    BY CoordinatorConstants DEF PlainEvent, Event, EventTypes
<1> HIDE DEF e
<1>3. /\ TypeOK' /\ Fresh(c)' /\ \A d \in Calls \ {c} : call'[d] = call[d]
      /\ call'[c].pc = "start" /\ call'[c].repairs = call[c].repairs /\ call'[c].to = call[c].to
    BY <1>1, <1>2, GoingOn
<1>4. LastType' = "RUN_RESUMED" /\ FailedRounds' = FailedRounds /\ call[c].repairs >= FailedRounds
    BY <1>1, <1>2, AfterAppend DEF Failure
<1>5. ReplayedState' = ReplayedState
    BY <1>1, <1>2, AfterAppend, StateTable
<1>6. Stands(c) /\ log # <<>>
    BY <1>1, FreshCallFits
<1>7. ReplayedState = "WAITING_FOR_OWNER" /\ call[c].to = "STARTING"
    BY <1>1, <1>6 DEF Stands
<1>8. Stands(c)'
    BY <1>3, <1>4, <1>5, <1>7 DEF Stands
<1>9. e.type \notin Failure /\ e.type \notin Starts /\ e.type # "RUN_DISPATCHED"
    BY <1>2 DEF Failure, Starts
<1> QED
    BY <1>1, <1>2, <1>3, <1>6, <1>8, <1>9, AppendStep

LEMMA OutcomeHolds == ASSUME IInv, NEW c \in Calls, Outcome(c) PROVE IInv'
<1> DEFINE e == [PlainEvent("RECONCILIATION_OUTCOME") EXCEPT !.safe = call[c].safe]
           pc == IF call[c].safe THEN "start" ELSE "block"
<1>1. /\ call[c].pc = "outcome" /\ Fresh(c) /\ log' = Append(log, e) /\ Goto(c, pc)
      /\ UNCHANGED <<bridge, faults>>
    BY DEF Outcome, Emit, Fresh
<1>2. e \in Event /\ e.type = "RECONCILIATION_OUTCOME"
  <2>1. call[c].safe \in BOOLEAN
    BY DEF IInv, TypeOK, Call
  <2>2. "RECONCILIATION_OUTCOME" \in EventTypes
    BY DEF EventTypes
  <2> QED
    BY <2>1, <2>2, PlainEvents
<1>3. pc \in {"start", "block"}
    OBVIOUS
<1> HIDE DEF e, pc
<1>4. /\ TypeOK' /\ Fresh(c)' /\ \A d \in Calls \ {c} : call'[d] = call[d]
      /\ call'[c].pc = pc /\ call'[c].repairs = call[c].repairs /\ call'[c].to = call[c].to
    BY <1>1, <1>2, <1>3, GoingOn
<1>5. /\ LastType' = "RECONCILIATION_OUTCOME" /\ FailedRounds' = FailedRounds
      /\ call[c].repairs >= FailedRounds
    BY <1>1, <1>2, AfterAppend DEF Failure
<1>6. ReplayedState' = ReplayedState
    BY <1>1, <1>2, AfterAppend, StateTable
<1>7. Stands(c) /\ log # <<>>
    BY <1>1, FreshCallFits
<1>8. ReplayedState = "RECONCILING" /\ call[c].to = "REPAIRING"
    BY <1>1, <1>7 DEF Stands
<1>9. Stands(c)'
    BY <1>3, <1>4, <1>5, <1>6, <1>8 DEF Stands
<1>10. e.type \notin Failure /\ e.type \notin Starts /\ e.type # "RUN_DISPATCHED"
    BY <1>2 DEF Failure, Starts
<1> QED
    BY <1>1, <1>2, <1>3, <1>4, <1>7, <1>9, <1>10, AppendStep

LEMMA RepairHolds == ASSUME IInv, NEW c \in Calls, Repair(c) PROVE IInv'
<1> DEFINE t == RepairEvent[call[c].decision]
           e == [PlainEvent(t) EXCEPT !.repairs = call[c].repairs + 1]
           x == [call[c] EXCEPT !.pc = "start", !.to = "REPAIRING",
                                !.repairs = @ + 1, !.revision = @ + 1]
<1>1. /\ call[c].pc = "evaluate" /\ Fresh(c) /\ log' = Append(log, e)
      /\ call[c].decision \in {"FAIL_REPAIRABLE", "NEEDS_EVIDENCE"}
      /\ call[c].repairs < MaxRepairAttempts /\ UNCHANGED <<bridge, faults>>
    BY DEF Repair, Emit, Fresh, RepairEvent
<1>2. t \in {"EVALUATION_FAILED_REPAIRABLE", "EVALUATION_NEEDS_EVIDENCE"}
    BY <1>1 DEF RepairEvent
<1>3. /\ TypeOK /\ call[c] \in Call /\ call[c].revision \in Nat /\ call[c].repairs \in Nat
      /\ call \in [Calls -> Call]
    BY DEF IInv, TypeOK, Call
<1>4. call' = [call EXCEPT ![c] = x]
    BY <1>3 DEF Repair
<1>5. x \in Call /\ x.pc = "start" /\ x.to = "REPAIRING" /\ x.repairs = call[c].repairs + 1
      /\ x.revision = call[c].revision + 1
  <2>1. \A y \in Call, m, n \in Nat :
           [y EXCEPT !.pc = "start", !.to = "REPAIRING", !.repairs = m, !.revision = n] \in Call
    BY DEF Call
  <2>2. call[c].repairs + 1 \in Nat /\ call[c].revision + 1 \in Nat
    BY <1>3
  <2>3. x \in Call
    BY <1>3, <2>1, <2>2
  <2> QED
    BY <1>3, <2>3 DEF Call
<1>6. e \in Event /\ e.type = t /\ e.repairs = call[c].repairs + 1
  <2>1. t \in EventTypes
    BY <1>2 DEF EventTypes
  <2>2. call[c].repairs + 1 \in Nat
    BY <1>3
  <2> QED
    BY <2>1, <2>2, PlainEvents
<1> HIDE DEF t, e, x
<1>7. call'[c] = x /\ (\A d \in Calls \ {c} : call'[d] = call[d]) /\ call' \in [Calls -> Call]
    BY <1>3, <1>4, <1>5
<1>8. log' \in Seq(Event) /\ Len(log') = Len(log) + 1 /\ Len(log) \in Nat
    BY <1>1, <1>3, <1>6, Appended
<1>9. TypeOK' /\ Fresh(c)'
    BY <1>1, <1>3, <1>5, <1>7, <1>8 DEF TypeOK, Fresh
<1>10. /\ LastType' = t /\ FailedRounds \in Nat /\ call[c].repairs >= FailedRounds
       /\ t \in DOMAIN StateAfter => ReplayedState' = StateAfter[t]
       /\ t \notin DOMAIN StateAfter => ReplayedState' = ReplayedState
       /\ FailedRounds' <= FailedRounds + 1
    BY <1>1, <1>6, AfterAppend
<1>11. ReplayedState = "EVALUATING" /\ log # <<>>
    BY <1>1, FreshCallFits
<1>12. <<t, ReplayedState'>> \in {<<"EVALUATION_FAILED_REPAIRABLE", "REPAIRING">>,
                                  <<"EVALUATION_NEEDS_EVIDENCE", "EVALUATING">>}
    BY <1>2, <1>10, <1>11, StateTable DEF EventTypes
<1>13. call'[c].repairs >= FailedRounds'
    BY <1>1, <1>3, <1>5, <1>6, <1>7, <1>10, AfterAppend
<1>14. Stands(c)'
    BY <1>5, <1>7, <1>10, <1>12, <1>13 DEF Stands
<1>15. e.repairs >= FailedRounds + 1 /\ FailedRounds + 1 <= MaxRepairAttempts
    BY <1>1, <1>3, <1>6, <1>10, CoordinatorConstants
<1>16. e.type \notin Starts /\ e.type # "RUN_DISPATCHED"
    BY <1>2, <1>6 DEF Starts
<1> QED
    BY <1>1, <1>5, <1>6, <1>7, <1>9, <1>11, <1>14, <1>15, <1>16, AppendStep

LEMMA GoOnHolds == ASSUME IInv, NEW c \in Calls, GoOn(c) PROVE IInv'
<1> DEFINE e == PlainEvent("EVALUATION_PASSED")
           x == [call[c] EXCEPT !.pc = "start", !.to = "STARTING", !.revision = @ + 1]
<1>1. /\ call[c].pc = "evaluate" /\ Fresh(c) /\ log' = Append(log, e)
      /\ UNCHANGED <<bridge, faults>>
    BY DEF GoOn, Emit, Fresh
<1>2. e \in Event /\ e.type = "EVALUATION_PASSED"
    BY CoordinatorConstants DEF PlainEvent, Event, EventTypes
<1>3. /\ TypeOK /\ call[c] \in Call /\ call[c].revision \in Nat /\ call[c].repairs \in Nat
      /\ call \in [Calls -> Call]
    BY DEF IInv, TypeOK, Call
<1>4. call' = [call EXCEPT ![c] = x] \/ Return(c)
    BY <1>3 DEF GoOn
<1>5. /\ x \in Call /\ x.pc = "start" /\ x.to = "STARTING" /\ x.repairs = call[c].repairs
      /\ x.revision = call[c].revision + 1
  <2>1. \A y \in Call, n \in Nat :
           [y EXCEPT !.pc = "start", !.to = "STARTING", !.revision = n] \in Call
    BY DEF Call
  <2>2. call[c].revision + 1 \in Nat
    BY <1>3
  <2>3. x \in Call
    BY <1>3, <2>1, <2>2
  <2> QED
    BY <1>3, <2>3 DEF Call
<1> HIDE DEF e, x
<1>6. /\ LastType' = "EVALUATION_PASSED" /\ FailedRounds' = FailedRounds
      /\ call[c].repairs >= FailedRounds
    BY <1>1, <1>2, AfterAppend DEF Failure
<1>7. ReplayedState' = ReplayedState
    BY <1>1, <1>2, AfterAppend, StateTable
<1>8. ReplayedState = "EVALUATING" /\ log # <<>>
    BY <1>1, FreshCallFits
<1>9. e.type \notin Failure /\ e.type \notin Starts /\ e.type # "RUN_DISPATCHED"
    BY <1>2 DEF Failure, Starts
<1>10. CASE call' = [call EXCEPT ![c] = x]
  <2>1. call'[c] = x /\ (\A d \in Calls \ {c} : call'[d] = call[d]) /\ call' \in [Calls -> Call]
    BY <1>3, <1>5, <1>10
  <2>2. log' \in Seq(Event) /\ Len(log') = Len(log) + 1 /\ Len(log) \in Nat
    BY <1>1, <1>2, <1>3, Appended
  <2>3. TypeOK' /\ Fresh(c)'
    BY <1>1, <1>3, <1>5, <2>1, <2>2 DEF TypeOK, Fresh
  <2>4. Stands(c)'
    BY <1>5, <1>6, <1>7, <1>8, <2>1 DEF Stands
  <2> QED
    BY <1>1, <1>2, <1>5, <1>8, <1>9, <2>1, <2>3, <2>4, AppendStep
<1>11. CASE Return(c)
  <2>1. /\ TypeOK' /\ call'[c] = Idle /\ \A d \in Calls \ {c} : call'[d] = call[d]
    BY <1>1, <1>2, <1>11, Returning
  <2> QED
    BY <1>1, <1>2, <1>8, <1>9, <2>1, AppendStep
<1> QED
    BY <1>4, <1>10, <1>11

\* The appends after which the call returns.
LEMMA LastAppend ==
    ASSUME IInv, NEW c \in Calls, call[c].pc \in {"evaluate", "block"}, Fresh(c),
           NEW e \in Event, log' = Append(log, e),
           e.type \in {"EVALUATION_AMBIGUOUS_SIDE_EFFECT", "EVALUATION_OWNER_DECISION_REQUIRED",
                       "RUN_CLOSED", "RUN_BLOCKED"},
           Return(c), UNCHANGED <<bridge, faults>>
    PROVE  IInv'
<1>1. /\ TypeOK' /\ call'[c] = Idle /\ \A d \in Calls \ {c} : call'[d] = call[d]
    BY Returning
<1>2. log # <<>>
    BY FreshCallFits
<1>3. e.type \notin Failure /\ e.type \notin Starts /\ e.type # "RUN_DISPATCHED"
    BY DEF Failure, Starts
<1> QED
    BY <1>1, <1>2, <1>3, AppendStep

LEMMA StopHolds == ASSUME IInv, NEW c \in Calls, Stop(c) PROVE IInv'
<1> DEFINE types == {"EVALUATION_AMBIGUOUS_SIDE_EFFECT", "EVALUATION_OWNER_DECISION_REQUIRED",
                     "RUN_CLOSED", "RUN_BLOCKED"}
<1>1. types \subseteq EventTypes
    BY DEF EventTypes
<1>2. \A type \in types : PlainEvent(type) \in Event /\ PlainEvent(type).type = type
    BY <1>1, PlainEvents
<1>3. \A ask \in Asks :
         /\ [PlainEvent("EVALUATION_OWNER_DECISION_REQUIRED") EXCEPT !.ask = ask] \in Event
         /\ [PlainEvent("EVALUATION_OWNER_DECISION_REQUIRED") EXCEPT !.ask = ask].type
               = "EVALUATION_OWNER_DECISION_REQUIRED"
    BY <1>1, PlainEvents
<1>4. \E e \in Event : e.type \in types /\ Emit(c, e)
  <2>1. CASE \E type \in types : Emit(c, PlainEvent(type))
    BY <1>2, <2>1
  <2>2. CASE \E ask \in Asks :
                Emit(c, [PlainEvent("EVALUATION_OWNER_DECISION_REQUIRED") EXCEPT !.ask = ask])
    BY <1>3, <2>2
  <2> QED
    BY <2>1, <2>2 DEF Stop
<1>5. PICK e \in Event : e.type \in types /\ Emit(c, e)
    BY <1>4
<1> QED
    BY <1>5, LastAppend DEF Stop, Emit, Fresh

LEMMA BlockHolds == ASSUME IInv, NEW c \in Calls, Block(c) PROVE IInv'
<1>1. PlainEvent("RUN_BLOCKED") \in Event /\ PlainEvent("RUN_BLOCKED").type = "RUN_BLOCKED"
    BY PlainEvents DEF EventTypes
<1> QED
    BY <1>1, LastAppend DEF Block, Emit, Fresh

LEMMA CallStepHolds == ASSUME IInv, NEW c \in Calls, CallStep(c) PROVE IInv'
<1>1. CASE AppendRefused(c)
  <2>1. Return(c) /\ UNCHANGED <<log, bridge>> /\ faults' \in 0..MaxFaults
    BY <1>1 DEF AppendRefused, IInv, TypeOK
  <2> QED
    BY <2>1, ReturnHolds
<1> QED
    BY <1>1, StartHolds, DispatchHolds, DispatchedHolds, TakeResultHolds, TimeoutHolds,
       CompletedHolds, RepairHolds, GoOnHolds, StopHolds, ResumedHolds, OutcomeHolds, BlockHolds
       DEF CallStep

LEMMA NextHolds == IInv /\ [Next]_vars => IInv'
<1> SUFFICES ASSUME IInv, [Next]_vars PROVE IInv'
    OBVIOUS
<1>1. ASSUME NEW c \in Calls, CallStep(c) PROVE IInv'
    BY <1>1, CallStepHolds
<1>2. ASSUME NEW c \in Calls, Begin(c) PROVE IInv'
    BY <1>2, BeginExecuteHolds, BeginResumeHolds, BeginReconcileHolds DEF Begin
<1>3. ASSUME NEW c \in Calls, CallFails(c) PROVE IInv'
  <2>1. Return(c) /\ UNCHANGED <<log, bridge>> /\ faults' \in 0..MaxFaults
    BY <1>3, CoordinatorConstants DEF CallFails, IInv, TypeOK
  <2> QED
    BY <2>1, ReturnHolds
<1>4. CASE ChildCloses
    BY <1>4, ChildClosesHolds
<1>5. CASE Crash
    BY <1>5, CrashHolds
<1>6. CASE UNCHANGED vars
  <2>1. UNCHANGED log /\ UNCHANGED call
    BY <1>6 DEF vars
  <2>2. TypeOK'
    BY <1>6 DEF IInv, TypeOK, vars
  <2>3. \A d \in Calls : Sound(d)' /\ (Driving(d)' <=> Driving(d))
    BY <2>1, OthersStay DEF IInv
  <2>4. OneDriver'
    BY <2>3 DEF IInv, OneDriver
  <2> QED
    BY <2>1, <2>2, <2>3, <2>4, LedgerStays DEF IInv
<1> QED
    BY <1>1, <1>2, <1>3, <1>4, <1>5, <1>6 DEF Next

-----------------------------------------------------------------------------
\* The inductive invariant holds in every state.
LEMMA Invariance == Spec => []IInv
<1>1. Init => IInv
    BY InitHolds
<1>2. IInv /\ [Next]_vars => IInv'
    BY NextHolds
<1> QED
    BY <1>1, <1>2, PTL DEF Spec

\* The ledger's events, the calls' local variables and the bridge's record keep
\* their shape through every append, refusal, failure and crash.
THEOREM TypeCorrect == Spec => []TypeOK
<1>1. IInv => TypeOK
    BY DEF IInv
<1> QED
    BY <1>1, Invariance, PTL

\* However many calls execute or resume one run at once, at most one of them is
\* between its start event and the evaluation.
THEOREM OneCallDrives == Spec => []OneDriver
<1>1. IInv => OneDriver
    BY DEF IInv
<1> QED
    BY <1>1, Invariance, PTL

\* Every start after the first answers an evaluation of its own that lies after
\* the start before, and every dispatch has a start of its own.
THEOREM StartsAreCaused == Spec => []EveryStartHasItsCause
<1>1. IInv => EveryStartHasItsCause
    BY DEF IInv
<1> QED
    BY <1>1, Invariance, PTL

\* Failed rounds that are repaired never exceed maxRepairAttempts over the life
\* of the run, though the counter is lost and replayed at every wait or crash.
THEOREM RepairsAreBounded == Spec => []FailedRepairsBounded
<1>1. IInv => FailedRepairsBounded
    BY DEF IInv
<1> QED
    BY <1>1, Invariance, PTL

\* Every append is by a fresh call that is not idle.
LEMMA OnlyFreshCallsAppend ==
    ASSUME IInv, [Next]_vars, log' # log
    PROVE  \E c \in Calls : call[c].pc # "idle" /\ Fresh(c)
<1>1. Next
    BY DEF vars
<1>2. PICK c \in Calls : CallStep(c)
    BY <1>1 DEF Next, Begin, BeginExecute, BeginResume, BeginReconcile, CallFails, ChildCloses,
                Crash
<1>3. \/ Start(c) \/ Dispatched(c) \/ Completed(c) \/ Repair(c) \/ GoOn(c) \/ Stop(c)
      \/ Resumed(c) \/ Outcome(c) \/ Block(c)
    BY <1>2 DEF CallStep, Dispatch, TakeResult, Timeout, AppendRefused
<1> QED
    BY <1>3 DEF Start, Dispatched, Completed, Repair, GoOn, Stop, Resumed, Outcome, Block,
                Emit, Fresh

\* Nothing is appended to a run that replays as closed or blocked: no stale
\* call, resumption or execution writes after the end.
THEOREM TheEndIsFinal == Spec => FinalStaysFinal
<1>1. IInv /\ [Next]_vars =>
         [(ReplayedState \in {"CLOSED", "BLOCKED"}) => UNCHANGED log]_vars
    BY OnlyFreshCallsAppend, FreshCallFits
<1> QED
    BY <1>1, Invariance, PTL DEF Spec, FinalStaysFinal
=============================================================================
