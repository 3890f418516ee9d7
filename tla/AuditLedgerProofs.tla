-------------------------- MODULE AuditLedgerProofs --------------------------
(***************************************************************************)
(* What holds of the audit trail for any number of gateway calls, failures *)
(* and restarts.  Two arguments side by side.  Every place of a call has   *)
(* its events on the ledger (Trail), and events are never taken away.      *)
(* While no two calls have read the ledger for one instance, the revision  *)
(* in memory is ahead of the ledger and of every append under way, and     *)
(* those are distinct (Numbering).                                         *)
(***************************************************************************)
EXTENDS AuditLedger, TLAPS

PCs == {"new", "reading", "read", "proposing", "proposed", "deciding", "decided",
        "refused", "running", "recording", "recorded", "unrecorded", "done", "lost"}

\* The types, with the places of a call and the shape of events.
Types ==
    /\ TypeOK
    /\ events \subseteq [revision : Nat, type : EventTypes, call : Calls]
    /\ pc \in [Calls -> PCs]

Waiting(c) == pc[c] \in {"reading", "read"}

\* What is on the ledger when a call has come so far.
TrailOf(c) ==
    /\ pc[c] \in {"proposed", "deciding", "decided", "running", "recording",
                  "recorded", "unrecorded"} => On(c, "HOST_ACTION_PROPOSED")
    /\ pc[c] \in {"decided", "running", "recording", "recorded", "unrecorded"} =>
          On(c, "HOST_ACTION_POLICY_DECIDED")
    /\ result[c] # "none" =>
          On(c, "HOST_ACTION_PROPOSED") /\ On(c, "HOST_ACTION_POLICY_DECIDED")
    /\ pc[c] = "recorded" /\ result[c] = "SUCCEEDED" =>
          On(c, "HOST_ACTION_EXECUTION_COMPLETED")
    /\ answer[c] = "SUCCEEDED" => On(c, "HOST_ACTION_EXECUTION_COMPLETED")
    /\ entries[c] \in ToolResults => pc[c] = "done" /\ answer[c] = entries[c]

Trail == \A c \in Calls : TrailOf(c)

\* A call past its first read has a revision to count from.
CountsFromMemory ==
    revision = Unread => \A c \in Calls : pc[c] \in {"new", "reading", "read", "done", "lost"}

\* Without overlapping reads nobody is behind.
Numbering ==
    /\ \A c, d \in Calls : Waiting(c) /\ Waiting(d) => c = d
    /\ \A c \in Calls : Waiting(c) => revision = Unread
    /\ \A c \in Calls : pc[c] = "read" => \A e \in events : e.revision <= found[c]
    /\ revision # Unread => \A e \in events : e.revision <= revision
    /\ \A c \in Calls : Appending(c) => allotted[c] <= revision /\ ~Taken(c)
    /\ \A c, d \in Calls : Appending(c) /\ Appending(d) /\ allotted[c] = allotted[d] => c = d

\* The ledger has a greatest revision: what Latest chooses exists.
Revisions == {e.revision : e \in events} \union {0}
LatestExists == \E m \in Revisions : \A r \in Revisions : m >= r

IInv ==
    /\ Types /\ Trail /\ CountsFromMemory /\ LatestExists
    /\ ~overlap => Numbering

------------------------------------------------------------------------------
\* Max of a set that has a greatest member is that member.
LEMMA LatestIsGreatest ==
    ASSUME Types, LatestExists
    PROVE  Latest \in Nat /\ Latest \in Revisions /\ \A e \in events : e.revision <= Latest
<1>1. Latest = CHOOSE m \in Revisions : \A r \in Revisions : m >= r
    BY DEF Latest, Max, Revisions
<1>2. Latest \in Revisions /\ \A r \in Revisions : Latest >= r
    BY <1>1 DEF LatestExists
<1>3. Revisions \subseteq Nat
    BY DEF Types, Revisions
<1>4. \A e \in events : e.revision \in Revisions
    BY DEF Revisions
<1> QED
    BY <1>2, <1>3, <1>4

\* A new event leaves a greatest revision.
LEMMA LatestSurvives ==
    ASSUME Types, LatestExists, NEW n \in Nat, NEW t, NEW c,
           events' = events \union {[revision |-> n, type |-> t, call |-> c]}
    PROVE  LatestExists'
<1>1. Revisions' = Revisions \union {n}
  <2>1. \A e : e \in events' <=> e \in events \/ e = [revision |-> n, type |-> t, call |-> c]
    OBVIOUS
  <2>2. [revision |-> n, type |-> t, call |-> c].revision = n
    OBVIOUS
  <2> QED
    BY <2>1, <2>2, Zenon DEF Revisions
<1>2. PICK m \in Revisions : \A r \in Revisions : m >= r
    BY DEF LatestExists
<1>3. Revisions \subseteq Nat
    BY DEF Types, Revisions
<1>4. CASE n >= m
    BY <1>1, <1>2, <1>3, <1>4 DEF LatestExists
<1>5. CASE ~(n >= m)
    BY <1>1, <1>2, <1>3, <1>5 DEF LatestExists
<1> QED
    BY <1>4, <1>5

\* What is on the ledger stays there.
LEMMA OnStays ==
    ASSUME NEW c, NEW t, On(c, t), events \subseteq events'
    PROVE  On(c, t)'
BY DEF On

\* A step of one call answers for that call's trail alone.
LEMMA OthersKeepTheirTrail ==
    ASSUME NEW c \in Calls, Trail, events \subseteq events', TrailOf(c)',
           \A d \in Calls \ {c} : /\ pc'[d] = pc[d] /\ result'[d] = result[d]
                                  /\ answer'[d] = answer[d] /\ entries'[d] = entries[d]
    PROVE  Trail'
<1> SUFFICES ASSUME NEW d \in Calls PROVE TrailOf(d)'
    BY DEF Trail
<1>1. CASE d = c
    BY <1>1
<1>2. CASE d # c
  <2>1. TrailOf(d)
    BY DEF Trail
  <2> QED
    BY <1>2, <2>1, OnStays DEF TrailOf
<1> QED
    BY <1>1, <1>2

LEMMA InitHolds == Init => IInv
<1> SUFFICES ASSUME Init PROVE IInv
    OBVIOUS
<1> USE DEF Init, Null
<1>1. Types
    BY DEF Types, TypeOK, PCs, EventTypes, ToolResults
<1>2. Trail
    BY DEF Trail, TrailOf, ToolResults
<1>3. CountsFromMemory
    BY DEF CountsFromMemory
<1>4. LatestExists
    BY DEF LatestExists, Revisions
<1>5. Numbering
    BY DEF Numbering, Waiting, Appending
<1> QED
    BY <1>1, <1>2, <1>3, <1>4, <1>5 DEF IInv

------------------------------------------------------------------------------
(* Steps that leave the ledger alone.                                      *)

\* The first part of recordProposed.
LEMMA RecordProposedKeeps ==
    ASSUME NEW c \in Calls, IInv, RecordProposed(c) PROVE IInv'
<1> USE DEF RecordProposed, Allot
<1>0. revision # Unread => revision \in Nat
    BY DEF IInv, Types, TypeOK
<1>1. Types'
    BY <1>0 DEF IInv, Types, TypeOK, PCs
<1>2. Trail'
  <2>1. pc'[c] \in {"reading", "proposing"} /\ pc[c] = "new" /\ TrailOf(c)
    BY DEF IInv, Trail, Types
  <2>2. TrailOf(c)'
    BY <2>1 DEF TrailOf, On, ToolResults
  <2> QED
    BY <2>2, OthersKeepTheirTrail DEF IInv, Types
<1>3. CountsFromMemory'
    BY <1>0, UnreadAssumption DEF IInv, Types, CountsFromMemory
<1>4. LatestExists'
    BY DEF IInv, LatestExists, Revisions
<1>5. ASSUME ~overlap' PROVE Numbering'
  <2>1. Numbering
    BY <1>5 DEF IInv
  <2>2. CASE revision # Unread
    BY <1>0, <2>1, <2>2, UnreadAssumption
    DEF Numbering, Waiting, Appending, Taken, IInv, Types, TypeOK
  <2>3. CASE revision = Unread
    <3>1. /\ pc' = [pc EXCEPT ![c] = "reading"] /\ pc \in [Calls -> PCs]
          /\ \A d \in Calls : ~Waiting(d)
      BY <1>5, <2>3 DEF Waiting, IInv, Types
    <3>2. /\ \A d \in Calls : Waiting(d)' => d = c
          /\ \A d \in Calls : pc'[d] # "read"
          /\ \A d \in Calls : Appending(d)' => Appending(d)
      BY <3>1 DEF Waiting, Appending
    <3> QED
      BY <2>1, <2>3, <3>2 DEF Numbering, Taken
  <2> QED
    BY <2>2, <2>3
<1> QED
    BY <1>1, <1>2, <1>3, <1>4, <1>5 DEF IInv

\* The read of the ledger.
LEMMA GetEventsKeeps ==
    ASSUME NEW c \in Calls, IInv, GetEvents(c) PROVE IInv'
<1> USE DEF GetEvents
<1>0. Latest \in Nat /\ \A e \in events : e.revision <= Latest
    BY LatestIsGreatest DEF IInv
<1>1. Types'
    BY <1>0 DEF IInv, Types, TypeOK, PCs
<1>2. Trail'
  <2>1. pc'[c] = "read" /\ pc[c] = "reading" /\ TrailOf(c)
    BY DEF IInv, Trail, Types
  <2>2. TrailOf(c)'
    BY <2>1 DEF TrailOf, On, ToolResults
  <2> QED
    BY <2>2, OthersKeepTheirTrail DEF IInv, Types
<1>3. CountsFromMemory'
    BY DEF IInv, Types, CountsFromMemory
<1>4. LatestExists'
    BY DEF IInv, LatestExists, Revisions
<1>5. ASSUME ~overlap' PROVE Numbering'
    BY <1>0, <1>5 DEF Numbering, Waiting, Appending, Taken, IInv, Types, TypeOK
<1> QED
    BY <1>1, <1>2, <1>3, <1>4, <1>5 DEF IInv

\* The use of what was read: without an overlap nobody else had a revision.
LEMMA UseEventsKeeps ==
    ASSUME NEW c \in Calls, IInv, UseEvents(c) PROVE IInv'
<1> USE DEF UseEvents, Allot, Null
<1>0. found[c] \in Nat
    BY DEF IInv, Types, TypeOK
<1>1. Types'
    BY <1>0 DEF IInv, Types, TypeOK, PCs
<1>2. Trail'
  <2>1. pc'[c] = "proposing" /\ pc[c] = "read" /\ TrailOf(c)
    BY DEF IInv, Trail, Types
  <2>2. TrailOf(c)'
    BY <2>1 DEF TrailOf, On, ToolResults
  <2> QED
    BY <2>2, OthersKeepTheirTrail DEF IInv, Types
<1>3. CountsFromMemory'
    BY <1>0, UnreadAssumption DEF CountsFromMemory
<1>4. LatestExists'
    BY DEF IInv, LatestExists, Revisions
<1>5. ASSUME ~overlap' PROVE Numbering'
  <2>1. Numbering /\ revision = Unread
    BY <1>5 DEF IInv, Numbering, Waiting
  <2>2. \A d \in Calls : d # c => pc[d] \in {"new", "done", "lost"}
    BY <2>1 DEF IInv, CountsFromMemory, Numbering, Waiting
  <2> QED
    BY <1>0, <2>1, <2>2, UnreadAssumption
    DEF Numbering, Waiting, Appending, Taken, IInv, Types, TypeOK
<1> QED
    BY <1>1, <1>2, <1>3, <1>4, <1>5 DEF IInv

\* A later revision is allotted: for the decision, or for the tool's result.
LEMMA AllotKeepsNumbering ==
    ASSUME NEW c \in Calls, NEW next \in {"deciding", "recording"},
           IInv, pc[c] \in {"proposed", "running"}, Allot(c, revision, next),
           UNCHANGED <<events, found, overlap>>
    PROVE  /\ revision \in Nat /\ CountsFromMemory' /\ LatestExists'
           /\ ~overlap' => Numbering'
<1> USE DEF Allot
<1>1. revision \in Nat
    BY DEF IInv, CountsFromMemory, Types, TypeOK
<1>2. CountsFromMemory'
    BY <1>1, UnreadAssumption DEF CountsFromMemory
<1>3. LatestExists'
    BY DEF IInv, LatestExists, Revisions
<1>4. ASSUME ~overlap' PROVE Numbering'
  <2>1. Numbering
    BY <1>4 DEF IInv
  <2> QED
    BY <1>1, <2>1, UnreadAssumption
    DEF Numbering, Waiting, Appending, Taken, IInv, Types, TypeOK
<1> QED
    BY <1>1, <1>2, <1>3, <1>4

LEMMA RecordDecidedKeeps ==
    ASSUME NEW c \in Calls, IInv, RecordDecided(c) PROVE IInv'
<1> USE DEF RecordDecided
<1>0. revision \in Nat /\ CountsFromMemory' /\ LatestExists' /\ (~overlap' => Numbering')
    BY AllotKeepsNumbering
<1>1. Types'
    BY <1>0 DEF IInv, Types, TypeOK, PCs, Allot
<1>2. Trail'
  <2>1. pc'[c] = "deciding" /\ pc[c] = "proposed" /\ TrailOf(c)
    BY DEF IInv, Trail, Types, Allot
  <2>2. TrailOf(c)'
    BY <2>1 DEF TrailOf, On, ToolResults
  <2> QED
    BY <2>2, OthersKeepTheirTrail DEF IInv, Types, Allot
<1> QED
    BY <1>0, <1>1, <1>2 DEF IInv

LEMMA ToolAnswersKeeps ==
    ASSUME NEW c \in Calls, NEW r \in ToolResults, IInv, ToolAnswers(c, r) PROVE IInv'
<1> USE DEF ToolAnswers
<1>0. revision \in Nat /\ CountsFromMemory' /\ LatestExists' /\ (~overlap' => Numbering')
    BY AllotKeepsNumbering
<1>1. Types'
    BY <1>0 DEF IInv, Types, TypeOK, PCs, Allot
<1>2. Trail'
  <2>1. pc'[c] = "recording" /\ pc[c] = "running" /\ TrailOf(c)
    BY DEF IInv, Trail, Types, Allot
  <2>2. TrailOf(c)'
    BY <2>1 DEF TrailOf, On, ToolResults
  <2> QED
    BY <2>2, OthersKeepTheirTrail DEF IInv, Types, TypeOK, Allot
<1> QED
    BY <1>0, <1>1, <1>2 DEF IInv

------------------------------------------------------------------------------
(* The appends.                                                            *)

\* An append that does not write only moves its call on.
LEMMA NoWriteKeeps ==
    ASSUME NEW c \in Calls, IInv, Appending(c), pc' = After(c, FALSE),
           UNCHANGED <<events, outbox, revision, entries, allotted, found, result,
                       answer, overlap>>
    PROVE  IInv'
<1>0. pc' = [pc EXCEPT ![c] = IF pc[c] = "recording" THEN "unrecorded" ELSE "refused"]
    BY DEF After, Appending
<1>1. Types'
    BY <1>0 DEF IInv, Types, TypeOK, PCs
<1>2. Trail'
  <2>1. TrailOf(c) /\ pc[c] \in {"proposing", "deciding", "recording"}
        /\ pc'[c] = IF pc[c] = "recording" THEN "unrecorded" ELSE "refused"
    BY <1>0 DEF IInv, Trail, Types, Appending
  <2>2. TrailOf(c)'
    BY <2>1 DEF TrailOf, On, ToolResults
  <2> QED
    BY <1>0, <2>2, OthersKeepTheirTrail DEF IInv, Types
<1>3. CountsFromMemory'
    BY <1>0 DEF IInv, CountsFromMemory, Appending
<1>4. LatestExists'
    BY DEF IInv, LatestExists, Revisions
<1>5. ASSUME ~overlap' PROVE Numbering'
    BY <1>0, <1>5, ZenonT(60) DEF Numbering, Waiting, Appending, Taken, IInv, Types, TypeOK
<1> QED
    BY <1>1, <1>2, <1>3, <1>4, <1>5 DEF IInv

\* An append that writes: the revision was free, and it is nobody else's.
LEMMA WriteKeeps ==
    ASSUME NEW c \in Calls, NEW ok \in BOOLEAN, IInv, Appending(c), ~Taken(c), Write(c),
           pc' = After(c, ok),
           UNCHANGED <<revision, entries, allotted, found, result, answer, overlap>>
    PROVE  IInv'
<1> DEFINE e == [revision |-> allotted[c], type |-> TypeOf(c), call |-> c]
           next == CASE pc[c] = "proposing" -> IF ok THEN "proposed" ELSE "refused"
                     [] pc[c] = "deciding"  -> IF ok THEN "decided" ELSE "refused"
                     [] pc[c] = "recording" -> IF ok THEN "recorded" ELSE "unrecorded"
<1>0. /\ pc' = [pc EXCEPT ![c] = next]
      /\ next \in {"proposed", "refused", "decided", "recorded", "unrecorded"}
      /\ pc'[c] = next
      /\ \A d \in Calls \ {c} : pc'[d] = pc[d]
    BY DEF After, Appending, IInv, Types
<1>00. /\ events' = events \union {e} /\ outbox' = outbox \union {e}
       /\ allotted[c] \in Nat /\ TypeOf(c) \in EventTypes /\ events \subseteq events'
    BY DEF Write, TypeOf, Appending, EventTypes, IInv, Types, TypeOK
<1>1. Types'
  <2>1. events' \subseteq [revision : Nat, type : EventTypes, call : Calls]
    BY <1>00 DEF IInv, Types
  <2>2. pc' \in [Calls -> PCs]
    BY <1>0 DEF IInv, Types, PCs
  <2> QED
    BY <1>00, <2>1, <2>2 DEF IInv, Types, TypeOK
<1>2. Trail'
  <2>1. TrailOf(c) /\ pc[c] \in {"proposing", "deciding", "recording"}
    BY DEF IInv, Trail, Appending
  <2>2. \A t \in EventTypes : t = TypeOf(c) => On(c, t)'
    <3>1. e \in events' /\ e.call = c /\ e.type = TypeOf(c)
      BY <1>00
    <3> QED
      BY <3>1 DEF On
  <2>3. TrailOf(c)'
    <3>1. CASE pc[c] = "proposing"
      BY <1>0, <1>00, <2>1, <2>2, <3>1, OnStays DEF TrailOf, TypeOf, ToolResults, EventTypes
    <3>2. CASE pc[c] = "deciding"
      BY <1>0, <1>00, <2>1, <2>2, <3>2, OnStays DEF TrailOf, TypeOf, ToolResults, EventTypes
    <3>3. CASE pc[c] = "recording"
      BY <1>0, <1>00, <2>1, <2>2, <3>3, OnStays DEF TrailOf, TypeOf, ToolResults, EventTypes
    <3> QED
      BY <2>1, <3>1, <3>2, <3>3
  <2> QED
    BY <1>0, <1>00, <2>3, OthersKeepTheirTrail DEF IInv
<1>3. CountsFromMemory'
    BY <1>0 DEF IInv, CountsFromMemory, Appending
<1>4. LatestExists'
    BY <1>00, LatestSurvives DEF IInv
<1>5. ASSUME ~overlap' PROVE Numbering'
  <2>1. Numbering
    BY <1>5 DEF IInv
  <2>2. revision # Unread /\ \A d \in Calls : ~Waiting(d)
    BY <2>1 DEF IInv, CountsFromMemory, Numbering, Appending
  <2>3. \A d \in Calls : Appending(d)' => d # c /\ Appending(d)
    BY <1>0 DEF Appending
  <2>4. \A d \in Calls : ~Waiting(d)'
    BY <1>0, <2>2 DEF Waiting
  <2>5. \A d \in Calls : Appending(d)' => allotted'[d] <= revision' /\ ~Taken(d)'
    BY <1>00, <2>1, <2>3 DEF Numbering, Taken
  <2>6. \A f \in events' : f.revision <= revision'
    BY <1>00, <2>1, <2>2 DEF Numbering
  <2> QED
    BY <2>1, <2>2, <2>3, <2>4, <2>5, <2>6 DEF Numbering, Waiting
<1> QED
    BY <1>1, <1>2, <1>3, <1>4, <1>5 DEF IInv

LEMMA AppendsKeep ==
    ASSUME NEW c \in Calls, IInv,
           Append(c) \/ AppendCollides(c) \/ \E lands \in BOOLEAN : AppendFails(c, lands)
    PROVE  IInv'
<1>1. CASE Append(c)
    BY <1>1, WriteKeeps DEF Append
<1>2. CASE AppendCollides(c)
    BY <1>2, NoWriteKeeps DEF AppendCollides
<1>3. ASSUME NEW lands \in BOOLEAN, AppendFails(c, lands) PROVE IInv'
    BY <1>3, WriteKeeps, NoWriteKeeps DEF AppendFails
<1> QED
    BY <1>1, <1>2, <1>3

------------------------------------------------------------------------------
(* Steps that end a call or let its tool run.                              *)

\* Such a step touches neither the ledger nor the numbering of others.
LEMMA MovesOnKeepsNumbering ==
    ASSUME NEW c \in Calls, IInv, ~Appending(c), ~Waiting(c), pc[c] # "new",
           NEW next \in {"running", "done"}, pc' = [pc EXCEPT ![c] = next],
           \/ UNCHANGED allotted
           \/ allotted' = [allotted EXCEPT ![c] = Null],
           next = "running" => pc[c] = "decided",
           UNCHANGED <<events, revision, found, overlap>>
    PROVE  /\ CountsFromMemory' /\ LatestExists' /\ (~overlap' => Numbering')
           /\ allotted' \in [Calls -> Nat] /\ pc' \in [Calls -> PCs]
<1>1. CountsFromMemory'
    BY DEF IInv, CountsFromMemory, Types
<1>2. LatestExists'
    BY DEF IInv, LatestExists, Revisions
<1>3. ASSUME ~overlap' PROVE Numbering'
  <2>1. /\ \A d \in Calls : Appending(d)' => d # c /\ Appending(d)
        /\ \A d \in Calls : Waiting(d)' => d # c /\ Waiting(d)
        /\ \A d \in Calls : pc'[d] = "read" => pc[d] = "read"
    BY DEF Appending, Waiting, IInv, Types
  <2>2. \A d \in Calls : d # c => allotted'[d] = allotted[d]
    BY DEF IInv, Types, TypeOK
  <2>3. Numbering
    BY <1>3 DEF IInv
  <2> QED
    BY <2>1, <2>2, <2>3 DEF Numbering, Taken
<1>4. allotted' \in [Calls -> Nat] /\ pc' \in [Calls -> PCs]
    BY DEF IInv, Types, TypeOK, PCs, Null
<1> QED
    BY <1>1, <1>2, <1>3, <1>4

LEMMA AfterRecordProposedKeeps ==
    ASSUME NEW c \in Calls, NEW allow \in BOOLEAN, IInv, AfterRecordProposed(c, allow)
    PROVE  IInv'
<1> USE DEF AfterRecordProposed, Returns
<1>0. /\ CountsFromMemory' /\ LatestExists' /\ (~overlap' => Numbering')
      /\ allotted' \in [Calls -> Nat] /\ pc' \in [Calls -> PCs]
  <2>1. CASE allow
    BY <2>1, MovesOnKeepsNumbering DEF Appending, Waiting
  <2>2. CASE ~allow
    BY <2>2, MovesOnKeepsNumbering DEF Appending, Waiting
  <2> QED
    BY <2>1, <2>2
<1>1. Types'
    BY <1>0 DEF IInv, Types, TypeOK
<1>2. Trail'
  <2>1. pc'[c] \in {"running", "done"} /\ pc[c] = "decided" /\ TrailOf(c)
        /\ entries'[c] \notin ToolResults /\ answer'[c] \in {answer[c], "DENIED"}
    BY DEF IInv, Trail, Types, TypeOK, ToolResults
  <2>2. TrailOf(c)'
    BY <2>1 DEF TrailOf, On
  <2> QED
    BY <2>2, OthersKeepTheirTrail DEF IInv, Types, TypeOK
<1> QED
    BY <1>0, <1>1, <1>2 DEF IInv

\* A call that ends without a success of its own: refused, thrown, or with a
\* result that could not be recorded.
LEMMA EndsBadlyKeeps ==
    ASSUME NEW c \in Calls, IInv,
           PreExecutionAuditFailed(c) \/ ToolThrows(c) \/ AuditPersistenceFailed(c)
    PROVE  IInv'
<1> USE DEF PreExecutionAuditFailed, ToolThrows, AuditPersistenceFailed, Returns
<1>0. /\ CountsFromMemory' /\ LatestExists' /\ (~overlap' => Numbering')
      /\ allotted' \in [Calls -> Nat] /\ pc' \in [Calls -> PCs]
    BY MovesOnKeepsNumbering DEF Appending, Waiting
<1>1. Types'
    BY <1>0 DEF IInv, Types, TypeOK, ToolResults
<1>2. Trail'
  <2>1. /\ pc'[c] = "done" /\ pc[c] \in {"refused", "running", "unrecorded"} /\ TrailOf(c)
        /\ entries' = entries /\ answer'[c] # "SUCCEEDED"
    BY DEF IInv, Trail, Types, TypeOK
  <2>2. TrailOf(c)'
    BY <2>1 DEF TrailOf, On
  <2> QED
    BY <2>2, OthersKeepTheirTrail DEF IInv, Types, TypeOK
<1> QED
    BY <1>0, <1>1, <1>2 DEF IInv

LEMMA AfterRecordExecutedKeeps ==
    ASSUME NEW c \in Calls, IInv, AfterRecordExecuted(c) PROVE IInv'
<1> USE DEF AfterRecordExecuted, Returns
<1>0. /\ CountsFromMemory' /\ LatestExists' /\ (~overlap' => Numbering')
      /\ allotted' \in [Calls -> Nat] /\ pc' \in [Calls -> PCs]
    BY MovesOnKeepsNumbering DEF Appending, Waiting
<1>1. Types'
    BY <1>0 DEF IInv, Types, TypeOK
<1>2. Trail'
  <2>1. /\ pc'[c] = "done" /\ pc[c] = "recorded" /\ TrailOf(c)
        /\ entries'[c] = result[c] /\ answer'[c] = result[c]
    BY DEF IInv, Trail, Types, TypeOK
  <2>2. TrailOf(c)'
    BY <2>1 DEF TrailOf, On
  <2> QED
    BY <2>2, OthersKeepTheirTrail DEF IInv, Types, TypeOK
<1> QED
    BY <1>0, <1>1, <1>2 DEF IInv

\* A restart keeps the ledger and what was answered, and nothing else.
LEMMA RestartKeeps == IInv /\ Restart => IInv'
<1> SUFFICES ASSUME IInv, Restart PROVE IInv'
    OBVIOUS
<1> USE DEF Restart, Null
<1>1. Types'
    BY DEF IInv, Types, TypeOK, PCs, ToolResults
<1>2. Trail'
  <2> SUFFICES ASSUME NEW c \in Calls PROVE TrailOf(c)'
    BY DEF Trail
  <2>1. TrailOf(c) /\ pc'[c] \in {"new", "done", "lost"} /\ entries'[c] = "none"
    BY DEF IInv, Trail
  <2> QED
    BY <2>1 DEF TrailOf, On, ToolResults
<1>3. CountsFromMemory'
    BY DEF CountsFromMemory
<1>4. LatestExists'
    BY DEF IInv, LatestExists, Revisions
<1>5. Numbering'
    BY DEF Numbering, Waiting, Appending
<1> QED
    BY <1>1, <1>2, <1>3, <1>4, <1>5 DEF IInv

LEMMA StutterKeeps == IInv /\ UNCHANGED vars => IInv'
<1> SUFFICES ASSUME IInv, UNCHANGED vars PROVE IInv'
    OBVIOUS
<1> USE DEF vars, memory
<1>1. Types' /\ CountsFromMemory' /\ LatestExists'
    BY DEF IInv, Types, TypeOK, CountsFromMemory, LatestExists, Revisions
<1>2. Trail'
    BY DEF IInv, Trail, TrailOf, On
<1>3. ~overlap' => Numbering'
    BY DEF IInv, Numbering, Waiting, Appending, Taken
<1> QED
    BY <1>1, <1>2, <1>3 DEF IInv

LEMMA NextKeeps == IInv /\ [Next]_vars => IInv'
<1> SUFFICES ASSUME IInv, [Next]_vars PROVE IInv'
    OBVIOUS
<1>1. ASSUME NEW c \in Calls, Gateway(c) PROVE IInv'
    BY <1>1, RecordProposedKeeps, GetEventsKeeps, UseEventsKeeps, AppendsKeep,
       RecordDecidedKeeps, AfterRecordProposedKeeps, EndsBadlyKeeps, ToolAnswersKeeps,
       AfterRecordExecutedKeeps
    DEF Gateway
<1> QED
    BY <1>1, RestartKeeps, StutterKeeps DEF Next

LEMMA Invariance == Spec => []IInv
BY InitHolds, NextKeeps, PTL DEF Spec

------------------------------------------------------------------------------
\* For any number of concurrent calls, failures and restarts: a tool runs only
\* after its proposal and the decision are on the ledger, and a success is
\* reported only with its completion there.
THEOREM NothingUnrecorded == Spec => []ReportedIsRecorded
<1>1. IInv => ReportedIsRecorded
    BY DEF IInv, Trail, TrailOf, ReportedIsRecorded
<1> QED
    BY <1>1, Invariance, PTL

\* Revisions collide only if two calls have read the ledger for one instance of
\* PrismaActionAuditLedger; until then memory is never behind the ledger.
THEOREM CollisionsNeedOverlap == Spec => []CollisionNeedsOverlap
<1>1. IInv => CollisionNeedsOverlap
  <2> SUFFICES ASSUME IInv, ~overlap PROVE /\ \A c \in Calls : Appending(c) => ~Taken(c)
                                           /\ revision # Unread => revision >= Latest
    BY DEF CollisionNeedsOverlap
  <2>1. \A c \in Calls : Appending(c) => ~Taken(c)
    BY DEF IInv, Numbering
  <2>2. ASSUME revision # Unread PROVE revision >= Latest
    <3>1. revision \in Nat /\ \A e \in events : e.revision <= revision
      BY <2>2 DEF IInv, Types, TypeOK, Numbering
    <3>2. Latest \in Nat /\ Latest \in Revisions
      BY LatestIsGreatest DEF IInv
    <3> QED
      BY <3>1, <3>2 DEF Revisions
  <2> QED
    BY <2>1, <2>2
<1> QED
    BY <1>1, Invariance, PTL

==============================================================================
