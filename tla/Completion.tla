------------------------------ MODULE Completion ------------------------------
(***************************************************************************)
(* From stored evidence to a completion decision: the project store, the   *)
(* create-only evidence store with its digests, the reconciliation engine  *)
(* and the completion engine.                                              *)
(*                                                                         *)
(* An assessment of one work item reads the project, the item, the         *)
(* evidence and the verifications, one await after the other, reconciles   *)
(* and evaluates, while others rename the project, move the item and save  *)
(* records.  Between the two engines it may read everything again.  The    *)
(* engines themselves have no await before saveDecision: each is one step. *)
(*                                                                         *)
(* A stored row is sound when its digest matches it; a caller's own digest *)
(* may be wrong, and a row may be damaged in the database.  The model      *)
(* keeps what was saved, also of a damaged row.                            *)
(***************************************************************************)
EXTENDS Naturals, FiniteSets, WorkItemStates

CONSTANTS
    WorkItems,            \* work items of the project
    Assessed,             \* the one that is assessed
    EvidenceRecords,      \* what may be saved: [id, workItemId, claim, currentness]
    VerificationRecords,  \* [id, workItemId, status, evidenceIds]
    InitialEvidence,      \* evidence saved before the model starts
    Names,                \* project names; "" is the empty one
    ItemMoves,            \* bound: the life cycle states the item visits
    MaxRevision,          \* bound: revisions of the project and of the item
    MaxUnsound            \* bound: rows whose digest does not match

VerificationStatuses == {"PASS", "FAIL", "INCONCLUSIVE"}
Currentness == {"CURRENT", "STALE", "INVALIDATED"}

ASSUME CompletionConstants ==
    /\ Assessed \in WorkItems
    /\ InitialEvidence \subseteq EvidenceRecords
    /\ \A e \in EvidenceRecords :
          e.workItemId \in WorkItems /\ e.currentness \in Currentness
    /\ \A v \in VerificationRecords :
          v.workItemId \in WorkItems /\ v.status \in VerificationStatuses
    /\ ItemMoves \subseteq ItemStates
    /\ MaxRevision \in Nat \ {0} /\ MaxUnsound \in Nat

VARIABLES
    project,        \* the row of the project: [name, revision]
    projectEvents,  \* the aggregate revisions of its events
    item,           \* the row of the work item: [state, revision]
    sameProject,    \* the work item belongs to the project
    hasObjective,   \* the work item's objective is not empty
    evidence,       \* table: set of [record, sound]
    verifications,  \* table: set of [record, sound]
    pc,             \* where the assessment is
    input,          \* what it has read
    snapshot,       \* the ReconciliationSnapshot it holds
    reread,         \* history: the input was read again after reconciling
    decision        \* the CompletionDecision it saved

given == <<sameProject, hasObjective>>
store == <<project, projectEvents, item, given, evidence, verifications>>
assessment == <<pc, input, snapshot, reread, decision>>
vars == <<store, assessment>>

NoInput == [project |-> [name |-> "", revision |-> 0],
            item |-> [state |-> "DRAFT", revision |-> 0],
            evidence |-> {}, verifications |-> {}, failed |-> FALSE]
NoSnapshot == [state |-> "NONE", projectRevision |-> 0, itemRevision |-> 0]
NoDecision == [state |-> "NONE", verificationIds |-> {}, evidenceIds |-> {}]

Init ==
    /\ project = [name |-> "", revision |-> 0]      \* no row yet
    /\ projectEvents = {}
    /\ item = [state |-> "VERIFICATION_REQUIRED", revision |-> 1]
    /\ sameProject \in BOOLEAN /\ hasObjective \in BOOLEAN
    /\ evidence = {} /\ verifications = {}
    /\ pc = "idle" /\ input = NoInput /\ snapshot = NoSnapshot
    /\ reread = FALSE /\ decision = NoDecision

------------------------------------------------------------------------------
(* The stores                                                              *)

\* ProjectStore.create: the row, its event and the outbox entry in one
\* transaction; neither the name nor the event's revision is checked.  The
\* evidence of earlier work comes with the project.
CreateProject(name, eventRevision) ==
    /\ project.revision = 0
    /\ project' = [name |-> name, revision |-> 1]
    /\ projectEvents' = {eventRevision}
    /\ evidence' = [record : InitialEvidence, sound : {TRUE}]
    /\ UNCHANGED <<item, given, verifications, assessment>>

\* POST /api/projects, which calls it: no empty name, and the event of revision 1.
PostProject(name) == name # "" /\ CreateProject(name, 1)

\* ProjectStore.rename: updateMany finds the expected revision, the event
\* carries the next one; anything else throws and rolls back.
RenameProject(name, expectedRevision, eventRevision) ==
    /\ project.revision # 0 /\ project.revision < MaxRevision
    /\ project.revision = expectedRevision
    /\ eventRevision = expectedRevision + 1
    /\ project' = [name |-> name, revision |-> expectedRevision + 1]
    /\ projectEvents' = projectEvents \union {eventRevision}
    /\ UNCHANGED <<item, given, evidence, verifications, assessment>>

\* WorkStore.transitionWorkItem, by the workflow engine or the verifier.
TransitionWorkItem(to) ==
    /\ item.revision < MaxRevision
    /\ WorkItemMayMove(item.state, to)
    /\ item' = [state |-> to, revision |-> item.revision + 1]
    /\ UNCHANGED <<project, projectEvents, given, evidence, verifications,
                   assessment>>

Unsound == Cardinality({r \in evidence \union verifications : ~r.sound})

\* A mutant: saving is an upsert.
CreateRow_Upserts(table, record, sound) ==
    {r \in table : r.record.id # record.id}
        \union {[record |-> record, sound |-> sound]}

\* create() with the table's primary key; a known id throws
\* DuplicateRecordError.
CreateRow(table, record, sound) ==
    IF \E r \in table : r.record.id = record.id
    THEN table
    ELSE table \union {[record |-> record, sound |-> sound]}

\* sound: no digest was given, or the one computeEvidenceDigest would give.
SaveEvidence(record, sound) ==
    /\ project.revision # 0
    /\ sound \/ Unsound < MaxUnsound
    /\ evidence' = CreateRow(evidence, record, sound)
    /\ UNCHANGED <<project, projectEvents, item, given, verifications,
                   assessment>>

SaveVerification(record, sound) ==
    /\ project.revision # 0
    /\ sound \/ Unsound < MaxUnsound
    /\ verifications' = CreateRow(verifications, record, sound)
    /\ UNCHANGED <<project, projectEvents, item, given, evidence,
                   assessment>>

\* A row is changed behind the store's back: its digest no longer matches.
DamageRow ==
    /\ Unsound < MaxUnsound
    /\ \/ /\ \E r \in evidence :
                evidence' = (evidence \ {r}) \union {[r EXCEPT !.sound = FALSE]}
          /\ UNCHANGED verifications
       \/ /\ \E r \in verifications :
                verifications' = (verifications \ {r})
                                    \union {[r EXCEPT !.sound = FALSE]}
          /\ UNCHANGED evidence
    /\ UNCHANGED <<project, projectEvents, item, given, assessment>>

------------------------------------------------------------------------------
(* Reading                                                                 *)

Of(table, items) == {r \in table : r.record.workItemId \in items}
Records(rows) == {r.record : r \in rows}

\* A mutant: rows that fail the integrity check are skipped.
Readable_SkipsUnsound(rows) == TRUE

\* Every read verifies the digest of every row and throws at the first that
\* does not match.
Readable(rows) == \A r \in rows : r.sound

\* What a read returns, once it is allowed.
Returned(rows) == Records({r \in rows : r.sound})

\* ProjectStore.getById, the first read of an assessment.
GetById ==
    /\ input' = [NoInput EXCEPT !.project = project]
    /\ pc' = "item"
    /\ UNCHANGED store

Begin ==
    /\ pc \in {"idle", "decided"} /\ project.revision # 0
    /\ GetById
    /\ snapshot' = NoSnapshot /\ reread' = FALSE /\ decision' = NoDecision

ReadWorkItem ==
    /\ pc = "item"
    /\ input' = [input EXCEPT !.item = item]
    /\ pc' = "evidence"
    /\ UNCHANGED <<store, snapshot, reread, decision>>

\* EvidenceTamperedError leaves the assessment.
Ends ==
    /\ pc' = "idle" /\ input' = NoInput /\ snapshot' = NoSnapshot
    /\ reread' = FALSE

\* A read of evidence rows, failing closed: the assessment ends.
ReadEvidence(rows) ==
    /\ pc = "evidence"
    /\ \/ /\ Readable(rows)
          /\ input' = [input EXCEPT !.evidence = Returned(rows)]
          /\ pc' = "verifications"
          /\ UNCHANGED <<snapshot, reread>>
       \/ /\ ~Readable(rows)
          /\ Ends
    /\ UNCHANGED <<store, decision>>

ListEvidenceForWorkItem == ReadEvidence(Of(evidence, {Assessed}))

\* The run touched every work item of the model.
ListEvidenceForRun == ReadEvidence(evidence)

\* failed remembers that a FAIL was in the table, readable or not.
ListVerificationsForWorkItem ==
    LET rows == Of(verifications, {Assessed})
    IN  /\ pc = "verifications"
        /\ \/ /\ Readable(rows)
              /\ input' = [input EXCEPT
                     !.verifications = Returned(rows),
                     !.failed = \E r \in rows : r.record.status = "FAIL"]
              /\ pc' = "ready"
              /\ UNCHANGED <<snapshot, reread>>
           \/ /\ ~Readable(rows)
              /\ Ends
        /\ UNCHANGED <<store, decision>>

\* The assessment reads everything again before it evaluates.
Reread ==
    /\ pc = "ready" /\ snapshot # NoSnapshot /\ ~reread
    /\ GetById
    /\ reread' = TRUE
    /\ UNCHANGED <<snapshot, decision>>

------------------------------------------------------------------------------
(* ReconciliationEngineV0.reconcile                                        *)

InScope(records) == {r \in records : r.workItemId = Assessed}
Current(records) == {e \in records : e.currentness = "CURRENT"}
WithStatus(records, s) == {v \in records : v.status = s}
Ids(records) == {r.id : r \in records}

\* The conflict codes, as the conditions that raise them.
PassReferencesMissing(in) ==
    \E v \in WithStatus(InScope(in.verifications), "PASS") :
        ~(v.evidenceIds \subseteq Ids(InScope(in.evidence)))

\* A mutant: only current evidence is looked at.
OtherConflicts_CurrentOnly(in) ==
    InScope(Current(in.evidence)) # Current(in.evidence)

OtherConflicts(in) ==
    \/ InScope(in.evidence) # in.evidence                \* CROSS_SCOPE_...
    \/ InScope(in.verifications) # in.verifications
    \/ Current(InScope(in.evidence)) # InScope(in.evidence)  \* STALE_...
    \/ \E v \in WithStatus(InScope(in.verifications), "PASS") :
          \/ v.evidenceIds = {}
          \/ \E e \in InScope(in.evidence) :
                e.id \in v.evidenceIds /\ e.currentness # "CURRENT"

\* The first condition that holds decides.
ReconciliationState(in) ==
    LET verified(s) == WithStatus(InScope(in.verifications), s) # {}
    IN  IF ~sameProject THEN "FAILED"
        ELSE IF verified("FAIL") \/ PassReferencesMissing(in) THEN "FAILED"
        ELSE IF verified("INCONCLUSIVE") THEN "UNKNOWN"
        ELSE IF in.item.state # "COMPLETED" THEN "BLOCKED"
        ELSE IF ~verified("PASS") \/ Current(InScope(in.evidence)) = {}
             THEN "BLOCKED"
        ELSE IF OtherConflicts(in) THEN "FAILED"
        ELSE "PASS"

Reconcile ==
    /\ pc = "ready" /\ snapshot = NoSnapshot
    /\ snapshot' = [state |-> ReconciliationState(input),
                    projectRevision |-> input.project.revision,
                    itemRevision |-> input.item.revision]
    /\ UNCHANGED <<store, pc, input, reread, decision>>

------------------------------------------------------------------------------
(* CompletionEngineV0.evaluate                                             *)

\* KNOWN_CMO_RULES with a name: the required ones; CMO-03 and CMO-06 are N_A.
RequiredCmos == {"CMO-01", "CMO-02", "CMO-05", "CMO-14"}

\* Every rule is UNRESOLVED without a project name, CMO-01 and CMO-02 also
\* without an objective; a required one needs current evidence that claims
\* it, of whatever scope.
CmosRemain(in) ==
    \/ in.project.name = "" \/ ~hasObjective
    \/ ~(RequiredCmos \subseteq {e.claim : e \in Current(in.evidence)})

\* PASS verifications whose evidence is all there and current.
ValidVerifications(in) ==
    {v \in WithStatus(InScope(in.verifications), "PASS") :
        /\ v.evidenceIds # {}
        /\ v.evidenceIds \subseteq Ids(Current(InScope(in.evidence)))}

SnapshotFits(in) ==
    /\ snapshot.projectRevision = in.project.revision
    /\ snapshot.itemRevision = in.item.revision

\* Something is left to do although a valid verification exists.
ResidualScope(in) ==
    CmosRemain(in) \/ WithStatus(InScope(in.verifications), "FAIL") # {}

CompletionState(in) ==
    IF ~SnapshotFits(in) THEN "RECONCILIATION_FAILED"
    ELSE IF snapshot.state = "BLOCKED" THEN "BLOCKED"
    ELSE IF snapshot.state # "PASS" THEN "RECONCILIATION_FAILED"
    ELSE IF in.item.state # "COMPLETED" THEN "INCOMPLETE"
    ELSE IF ValidVerifications(in) = {} THEN "EVIDENCE_INSUFFICIENT"
    ELSE IF ResidualScope(in) THEN "INCOMPLETE"
    ELSE "COMPLETE"

\* Which ids the decision names depends on how far the evaluation came.
Evaluate ==
    /\ pc = "ready" /\ snapshot # NoSnapshot
    /\ pc' = "decided"
    /\ \/ /\ sameProject
          /\ LET state == CompletionState(input)
                 late  == SnapshotFits(input) /\ snapshot.state = "PASS"
                            /\ input.item.state = "COMPLETED"
             IN  decision' =
                   [state |-> state,
                    verificationIds |->
                        IF late THEN Ids(ValidVerifications(input)) ELSE {},
                    evidenceIds |->
                        IF late THEN Ids(Current(InScope(input.evidence))) ELSE {}]
       \/ /\ ~sameProject                   \* throws, nothing is saved
          /\ UNCHANGED decision
    /\ UNCHANGED <<store, input, snapshot, reread>>

------------------------------------------------------------------------------
Stores ==
    \/ \E n \in Names : PostProject(n)
    \/ \E n \in Names, r \in 1 .. MaxRevision, e \in 1 .. MaxRevision :
          RenameProject(n, r, e)
    \/ \E s \in ItemMoves : TransitionWorkItem(s)
    \/ \E e \in EvidenceRecords, sound \in BOOLEAN : SaveEvidence(e, sound)
    \/ \E v \in VerificationRecords, sound \in BOOLEAN : SaveVerification(v, sound)
    \/ DamageRow

Assess ==
    \/ Begin \/ ReadWorkItem
    \/ ListEvidenceForWorkItem \/ ListEvidenceForRun
    \/ ListVerificationsForWorkItem
    \/ Reconcile \/ Reread \/ Evaluate

Next == Stores \/ Assess

Spec == Init /\ [][Next]_vars

------------------------------------------------------------------------------
\* A FAIL verification that was saved before the assessment's last read of
\* the verifications keeps the item from COMPLETE: also one that was saved
\* after a reconciliation that passed, and one whose row was damaged since.
FailureBlocksCompletion ==
    decision.state = "COMPLETE" => ~input.failed

\* A COMPLETE decision stays backed: what it was made from is in the tables
\* as it was, whatever is saved later, and the project has a revision event
\* for the state it was made in.
CompleteStaysBacked ==
    decision.state = "COMPLETE" =>
        /\ \E v \in Records(verifications) :
              /\ v.id \in decision.verificationIds /\ v.status = "PASS"
              /\ v.evidenceIds # {}
              /\ v.evidenceIds \subseteq Ids(Current(InScope(Records(evidence))))
        /\ decision.evidenceIds \subseteq Ids(Current(InScope(Records(evidence))))
        /\ input.project.revision \in projectEvents

\* What both engines together call complete, said once: nothing speaks
\* against the item, and everything that is required speaks for it.
Complete(in) ==
    LET passed == WithStatus(in.verifications, "PASS")
    IN  /\ sameProject /\ in.project.name # "" /\ hasObjective
        /\ in.item.state = "COMPLETED"
        /\ \A e \in in.evidence : e.workItemId = Assessed /\ e.currentness = "CURRENT"
        /\ passed = in.verifications /\ passed # {}
        /\ \A v \in passed : v.evidenceIds # {} /\ v.evidenceIds \subseteq Ids(in.evidence)
        /\ RequiredCmos \subseteq {e.claim : e \in in.evidence}

\* The two engines filter, order and repeat their checks differently; over
\* the same input they decide COMPLETE exactly when everything holds.
EnginesAgree ==
    (pc = "decided" /\ ~reread) =>
        (decision.state = "COMPLETE" <=> Complete(input))

\* The tables keep their shape, and the project has the events of its
\* revisions without a gap.
TypeOK ==
    /\ project \in [name : Names \union {""}, revision : 0 .. MaxRevision]
    /\ projectEvents = 1 .. project.revision
    /\ item \in [state : ItemStates, revision : 1 .. MaxRevision]
    /\ evidence \subseteq [record : EvidenceRecords, sound : BOOLEAN]
    /\ verifications \subseteq [record : VerificationRecords, sound : BOOLEAN]
    /\ pc \in {"idle", "item", "evidence", "verifications", "ready",
               "decided"}
    /\ given \in BOOLEAN \X BOOLEAN /\ reread \in BOOLEAN

==============================================================================
