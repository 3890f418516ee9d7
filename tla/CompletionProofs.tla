--------------------------- MODULE CompletionProofs ---------------------------
(***************************************************************************)
(* What a COMPLETE decision means for any records, any number of work      *)
(* items, projects renamed and records saved or damaged at any moment.     *)
(* The tables forget no record (Grows), so what an assessment has read     *)
(* stays in them (ReadIsStored); and a decision is the verdict on what the *)
(* assessment still holds (Judged).                                        *)
(***************************************************************************)
EXTENDS Completion, TLAPS

Inputs ==
    [project : [name : Names \union {""}, revision : Nat],
     item : [state : ItemStates, revision : Nat],
     evidence : SUBSET EvidenceRecords,
     verifications : SUBSET VerificationRecords,
     failed : BOOLEAN]

Types ==
    /\ project \in [name : Names \union {""}, revision : Nat]
    /\ item \in [state : ItemStates, revision : Nat]
    /\ evidence \subseteq [record : EvidenceRecords, sound : BOOLEAN]
    /\ verifications \subseteq [record : VerificationRecords, sound : BOOLEAN]
    /\ pc \in {"idle", "item", "evidence", "verifications", "ready", "decided"}
    /\ input \in Inputs
    /\ sameProject \in BOOLEAN /\ hasObjective \in BOOLEAN /\ reread \in BOOLEAN

\* Before the project there is nothing; afterwards its revision has an event.
StoreSound ==
    IF project.revision = 0
    THEN evidence = {} /\ verifications = {} /\ projectEvents = {} /\ pc = "idle"
    ELSE project.revision \in projectEvents

\* The input is what some earlier state of the tables held.
ReadIsStored ==
    /\ pc # "idle" => input.project.revision \in projectEvents
    /\ pc \in {"verifications", "ready", "decided"} =>
          input.evidence \subseteq Records(evidence)
    /\ pc \in {"ready", "decided"} =>
          /\ input.verifications \subseteq Records(verifications)
          /\ InScope(input.verifications) = input.verifications
          /\ input.failed => WithStatus(input.verifications, "FAIL") # {}

\* What Evaluate decides on an input.
Late(in) ==
    SnapshotFits(in) /\ snapshot.state = "PASS" /\ in.item.state = "COMPLETED"
Verdict(in) ==
    [state |-> CompletionState(in),
     verificationIds |-> IF Late(in) THEN Ids(ValidVerifications(in)) ELSE {},
     evidenceIds |-> IF Late(in) THEN Ids(Current(InScope(in.evidence))) ELSE {}]

\* What Reconcile answers on an input.
SnapshotOf(in) ==
    [state |-> ReconciliationState(in),
     projectRevision |-> in.project.revision,
     itemRevision |-> in.item.revision]

\* The snapshot, unless everything was read again since, and the decision
\* are about the input the assessment holds.
Judged ==
    /\ snapshot # NoSnapshot /\ ~reread =>
          pc \in {"ready", "decided"} /\ snapshot = SnapshotOf(input)
    /\ pc = "decided" =>
          /\ snapshot # NoSnapshot
          /\ decision = IF sameProject THEN Verdict(input) ELSE NoDecision
    /\ pc # "decided" => decision = NoDecision

IInv == Types /\ StoreSound /\ ReadIsStored /\ Judged

------------------------------------------------------------------------------
(* What every step of the stores leaves true                               *)

Grows ==
    /\ Records(evidence) \subseteq Records(evidence')
    /\ Records(verifications) \subseteq Records(verifications')
    /\ projectEvents \subseteq projectEvents'

\* Saving a record takes no other away.
LEMMA CreateRowGrows ==
    ASSUME NEW All, NEW table \in SUBSET [record : All, sound : BOOLEAN],
           NEW record \in All, NEW sound \in BOOLEAN
    PROVE  /\ CreateRow(table, record, sound) \subseteq [record : All, sound : BOOLEAN]
           /\ Records(table) \subseteq Records(CreateRow(table, record, sound))
BY DEF CreateRow, Records

\* Damage keeps what was saved.
LEMMA DamageKeepsRecords ==
    ASSUME NEW All, NEW table \in SUBSET [record : All, sound : BOOLEAN],
           NEW r \in table
    PROVE  LET damaged == (table \ {r}) \union {[r EXCEPT !.sound = FALSE]}
           IN  /\ damaged \subseteq [record : All, sound : BOOLEAN]
               /\ Records(table) \subseteq Records(damaged)
<1> DEFINE row == [r EXCEPT !.sound = FALSE]
<1>1. row \in [record : All, sound : BOOLEAN] /\ row.record = r.record
    OBVIOUS
<1> HIDE DEF row
<1>2. ASSUME NEW s \in table
      PROVE  s.record \in Records((table \ {r}) \union {row})
    BY <1>1 DEF Records
<1>3. Records(table) \subseteq Records((table \ {r}) \union {row})
    BY <1>2 DEF Records
<1> QED
    BY <1>1, <1>3 DEF row

\* A store step that grows the tables and leaves the assessment alone.
LEMMA StoreStep ==
    ASSUME IInv, Grows, Types', StoreSound', UNCHANGED <<assessment, given>>
    PROVE  IInv'
<1> USE DEF IInv, assessment, given
<1>1. ReadIsStored'
    BY DEF ReadIsStored, Grows, InScope, WithStatus
<1>2. /\ input' = input /\ snapshot' = snapshot
      /\ sameProject' = sameProject /\ hasObjective' = hasObjective
    OBVIOUS
<1>3. SnapshotOf(input)' = SnapshotOf(input)
    BY <1>2 DEF SnapshotOf, ReconciliationState, PassReferencesMissing, OtherConflicts,
        InScope, Current, WithStatus, Ids
<1>4. Verdict(input)' = Verdict(input)
    BY <1>2 DEF Verdict, Late, CompletionState, SnapshotFits, ValidVerifications,
        ResidualScope, CmosRemain, InScope, Current, WithStatus, Ids
<1>5. Judged'
    BY <1>3, <1>4 DEF Judged
<1> QED
    BY <1>1, <1>5

------------------------------------------------------------------------------
(* The steps of the stores                                                 *)

LEMMA CreateProjectKeeps ==
    ASSUME IInv, NEW n \in Names, CreateProject(n, 1)
    PROVE  IInv'
<1>1. evidence = {} /\ verifications = {} /\ projectEvents = {} /\ pc = "idle"
    BY DEF IInv, StoreSound, CreateProject
<1>2. Types'
    BY <1>1, CompletionConstants DEF IInv, Types, CreateProject, assessment, given
<1>3. StoreSound'
  <2>1. project'.revision = 1 /\ projectEvents' = {1}
    BY DEF CreateProject
  <2> QED
    BY <2>1 DEF StoreSound
<1>4. Grows
    BY <1>1 DEF Grows, Records, CreateProject
<1> QED
    BY <1>2, <1>3, <1>4, StoreStep DEF CreateProject

LEMMA RenameProjectKeeps ==
    ASSUME IInv, NEW n \in Names, NEW r, NEW e, RenameProject(n, r, e)
    PROVE  IInv'
<1>1. /\ project' = [name |-> n, revision |-> project.revision + 1]
      /\ project.revision + 1 \in projectEvents' /\ project.revision \in Nat
    BY DEF RenameProject, IInv, Types
<1>2. Types' /\ StoreSound'
  <2>1. Types'
    <3>1. n \in Names \union {""}
      BY Zenon
    <3>2. project.revision + 1 \in Nat
      BY <1>1, SMT
    <3>3. project' \in [name : Names \union {""}, revision : Nat]
      BY <1>1, <3>1, <3>2
    <3> QED
      BY <3>3 DEF IInv, Types, RenameProject, assessment, given
  <2>2. project'.revision = project.revision + 1 /\ project.revision + 1 # 0
    BY <1>1
  <2> QED
    BY <1>1, <2>1, <2>2 DEF StoreSound
<1>3. Grows
    BY DEF Grows, Records, RenameProject
<1> QED
    BY <1>2, <1>3, StoreStep DEF RenameProject

LEMMA TransitionWorkItemKeeps ==
    ASSUME IInv, NEW s \in ItemMoves, TransitionWorkItem(s)
    PROVE  IInv'
<1>1. Types' /\ StoreSound'
  <2>1. item' \in [state : ItemStates, revision : Nat]
    <3>1. item.revision \in Nat /\ s \in ItemStates
      BY CompletionConstants DEF IInv, Types
    <3>2. item' = [state |-> s, revision |-> item.revision + 1] /\ item.revision + 1 \in Nat
      BY <3>1 DEF TransitionWorkItem
    <3> QED
      BY <3>1, <3>2
  <2> QED
    BY <2>1 DEF IInv, Types, StoreSound, TransitionWorkItem, assessment, given
<1>2. Grows
    BY DEF Grows, Records, TransitionWorkItem
<1> QED
    BY <1>1, <1>2, StoreStep DEF TransitionWorkItem

LEMMA SaveEvidenceKeeps ==
    ASSUME IInv, NEW e \in EvidenceRecords, NEW s \in BOOLEAN, SaveEvidence(e, s)
    PROVE  IInv'
<1>1. /\ evidence' \subseteq [record : EvidenceRecords, sound : BOOLEAN]
      /\ Records(evidence) \subseteq Records(evidence')
    BY CreateRowGrows DEF IInv, Types, SaveEvidence
<1>2. Types' /\ StoreSound'
    BY <1>1 DEF IInv, Types, StoreSound, SaveEvidence, assessment, given
<1>3. Grows
    BY <1>1 DEF Grows, SaveEvidence
<1> QED
    BY <1>2, <1>3, StoreStep DEF SaveEvidence

LEMMA SaveVerificationKeeps ==
    ASSUME IInv, NEW v \in VerificationRecords, NEW s \in BOOLEAN,
           SaveVerification(v, s)
    PROVE  IInv'
<1>1. /\ verifications' \subseteq [record : VerificationRecords, sound : BOOLEAN]
      /\ Records(verifications) \subseteq Records(verifications')
    BY CreateRowGrows DEF IInv, Types, SaveVerification
<1>2. Types' /\ StoreSound'
    BY <1>1 DEF IInv, Types, StoreSound, SaveVerification, assessment, given
<1>3. Grows
    BY <1>1 DEF Grows, SaveVerification
<1> QED
    BY <1>2, <1>3, StoreStep DEF SaveVerification

LEMMA DamageRowKeeps ==
    ASSUME IInv, DamageRow
    PROVE  IInv'
<1>1. /\ evidence' \subseteq [record : EvidenceRecords, sound : BOOLEAN]
      /\ verifications' \subseteq [record : VerificationRecords, sound : BOOLEAN]
      /\ Records(evidence) \subseteq Records(evidence')
      /\ Records(verifications) \subseteq Records(verifications')
  <2>1. CASE /\ \E r \in evidence :
                   evidence' = (evidence \ {r}) \union {[r EXCEPT !.sound = FALSE]}
             /\ UNCHANGED verifications
    <3>1. PICK r \in evidence :
              evidence' = (evidence \ {r}) \union {[r EXCEPT !.sound = FALSE]}
      BY <2>1
    <3>2. evidence \in SUBSET [record : EvidenceRecords, sound : BOOLEAN]
      BY DEF IInv, Types
    <3>3. /\ evidence' \subseteq [record : EvidenceRecords, sound : BOOLEAN]
          /\ Records(evidence) \subseteq Records(evidence')
      BY <3>1, <3>2, DamageKeepsRecords
    <3> QED
      BY <2>1, <3>3 DEF IInv, Types
  <2>2. CASE /\ \E r \in verifications :
                   verifications' = (verifications \ {r})
                                       \union {[r EXCEPT !.sound = FALSE]}
             /\ UNCHANGED evidence
    <3>1. PICK r \in verifications :
              verifications' = (verifications \ {r})
                                  \union {[r EXCEPT !.sound = FALSE]}
      BY <2>2
    <3>2. verifications \in SUBSET [record : VerificationRecords, sound : BOOLEAN]
      BY DEF IInv, Types
    <3>3. /\ verifications' \subseteq [record : VerificationRecords, sound : BOOLEAN]
          /\ Records(verifications) \subseteq Records(verifications')
      BY <3>1, <3>2, DamageKeepsRecords
    <3> QED
      BY <2>2, <3>3 DEF IInv, Types
  <2> QED
    BY <2>1, <2>2 DEF DamageRow
<1>2. evidence = {} /\ verifications = {} => FALSE
    BY DEF DamageRow
<1>3. Types' /\ StoreSound'
    BY <1>1, <1>2 DEF IInv, Types, StoreSound, DamageRow, assessment, given
<1>4. Grows
    BY <1>1 DEF Grows, DamageRow
<1> QED
    BY <1>3, <1>4, StoreStep DEF DamageRow

------------------------------------------------------------------------------
(* The steps of the assessment                                             *)

\* A read returns records of its rows.
LEMMA ReturnedIsRecorded ==
    ASSUME NEW All, NEW table \in SUBSET [record : All, sound : BOOLEAN],
           NEW rows \in SUBSET table
    PROVE  Returned(rows) \subseteq Records(table) /\ Returned(rows) \subseteq All
<1>1. ASSUME NEW x \in Returned(rows)
      PROVE  x \in Records(table) /\ x \in All
  <2>1. PICK r \in rows : x = r.record
    BY <1>1 DEF Returned, Records
  <2>2. r \in table /\ r \in [record : All, sound : BOOLEAN]
    OBVIOUS
  <2> QED
    BY <2>1, <2>2 DEF Records
<1> QED
    BY <1>1

LEMMA NoInputIsInput == NoInput \in Inputs
BY DEF NoInput, Inputs, ItemStates

\* A first read starts over with the project as it is.
LEMMA GetByIdReads ==
    ASSUME Types, GetById
    PROVE  input' \in Inputs /\ input'.project = project /\ pc' = "item"
BY NoInputIsInput DEF Types, GetById, Inputs, NoInput

LEMMA BeginKeeps ==
    ASSUME IInv, Begin
    PROVE  IInv'
<1>1. input' \in Inputs /\ input'.project = project /\ pc' = "item"
    BY GetByIdReads DEF IInv, Begin
<1>2. Types' /\ StoreSound'
    BY <1>1 DEF IInv, Types, StoreSound, Begin, GetById, store, given
<1>3. ReadIsStored'
    BY <1>1 DEF IInv, ReadIsStored, StoreSound, Begin, GetById, store, given
<1>4. Judged'
    BY <1>1 DEF Judged, Begin
<1> QED
    BY <1>2, <1>3, <1>4 DEF IInv

LEMMA RereadKeeps ==
    ASSUME IInv, Reread
    PROVE  IInv'
<1>1. input' \in Inputs /\ input'.project = project /\ pc' = "item"
    BY GetByIdReads DEF IInv, Reread
<1>2. project.revision # 0
    BY DEF IInv, StoreSound, Reread
<1>3. Types' /\ StoreSound'
    BY <1>1, <1>2 DEF IInv, Types, StoreSound, Reread, GetById, store, given
<1>4. ReadIsStored'
    BY <1>1, <1>2 DEF IInv, ReadIsStored, StoreSound, Reread, GetById, store, given
<1>5. Judged'
    BY <1>1 DEF IInv, Judged, Reread
<1> QED
    BY <1>3, <1>4, <1>5 DEF IInv

\* While it reads, the assessment has no snapshot of this input.
LEMMA StillReading ==
    ASSUME IInv, pc \notin {"ready", "decided"}, pc' # "decided",
           (snapshot' = snapshot /\ reread' = reread) \/ snapshot' = NoSnapshot,
           UNCHANGED decision
    PROVE  Judged'
BY DEF IInv, Judged

LEMMA ReadWorkItemKeeps ==
    ASSUME IInv, ReadWorkItem
    PROVE  IInv'
<1>1. input' \in Inputs /\ input'.project = input.project
    BY DEF IInv, Types, Inputs, ReadWorkItem
<1>2. Types' /\ StoreSound'
    BY <1>1 DEF IInv, Types, StoreSound, ReadWorkItem, store, given
<1>3. ReadIsStored'
    BY <1>1 DEF IInv, ReadIsStored, ReadWorkItem, store, given
<1>4. Judged'
    BY StillReading DEF ReadWorkItem
<1> QED
    BY <1>2, <1>3, <1>4 DEF IInv

\* A read that fails its integrity check ends the assessment.
LEMMA EndsKeeps ==
    ASSUME IInv, pc \in {"evidence", "verifications"}, Ends, UNCHANGED <<store, decision>>
    PROVE  IInv'
<1>1. Types' /\ StoreSound'
    BY NoInputIsInput DEF IInv, Types, StoreSound, Ends, store, given
<1>2. ReadIsStored'
    BY DEF ReadIsStored, Ends
<1>3. Judged'
    BY StillReading DEF Ends
<1> QED
    BY <1>1, <1>2, <1>3 DEF IInv

LEMMA ReadEvidenceKeeps ==
    ASSUME IInv, NEW rows \in SUBSET evidence, ReadEvidence(rows)
    PROVE  IInv'
<1>1. CASE ~Readable(rows)
    BY <1>1, EndsKeeps DEF ReadEvidence
<1>2. CASE Readable(rows)
  <2>1. input' = [input EXCEPT !.evidence = Returned(rows)] /\ pc' = "verifications"
        /\ UNCHANGED <<snapshot, reread, store, decision>>
    BY <1>2 DEF ReadEvidence
  <2>2. Returned(rows) \subseteq Records(evidence) /\ Returned(rows) \subseteq EvidenceRecords
    BY ReturnedIsRecorded DEF IInv, Types
  <2>3. input' \in Inputs /\ input'.project = input.project
        /\ input'.evidence = Returned(rows)
    BY <2>1, <2>2 DEF IInv, Types, Inputs
  <2>4. Types' /\ StoreSound'
    BY <2>1, <2>3 DEF IInv, Types, StoreSound, ReadEvidence, store, given
  <2>5. ReadIsStored'
    BY <2>1, <2>2, <2>3 DEF IInv, ReadIsStored, ReadEvidence, store, given
  <2>6. Judged'
    BY <2>1, StillReading DEF ReadEvidence
  <2> QED
    BY <2>4, <2>5, <2>6 DEF IInv
<1> QED
    BY <1>1, <1>2

\* Readable rows are all returned, so a FAIL among them is in the input.
LEMMA ListVerificationsKeeps ==
    ASSUME IInv, ListVerificationsForWorkItem
    PROVE  IInv'
<1> DEFINE rows == Of(verifications, {Assessed})
           failed == \E r \in rows : r.record.status = "FAIL"
<1>1. CASE ~Readable(rows)
    BY <1>1, EndsKeeps DEF ListVerificationsForWorkItem
<1>2. CASE Readable(rows)
  <2>1. /\ input' = [input EXCEPT !.verifications = Returned(rows), !.failed = failed]
        /\ pc' = "ready" /\ pc = "verifications"
        /\ UNCHANGED <<snapshot, reread, store, decision>>
    BY <1>2 DEF ListVerificationsForWorkItem
  <2>2. /\ Returned(rows) \subseteq Records(verifications)
        /\ Returned(rows) \subseteq VerificationRecords
        /\ InScope(Returned(rows)) = Returned(rows)
    <3>1. rows \in SUBSET verifications
          /\ verifications \in SUBSET [record : VerificationRecords, sound : BOOLEAN]
      BY DEF Of, IInv, Types
    <3>2. InScope(Returned(rows)) = Returned(rows)
      BY Zenon DEF Returned, Records, Of, InScope
    <3> HIDE DEF rows
    <3> QED
      BY <3>1, <3>2, ReturnedIsRecorded
  <2>3. failed => WithStatus(Returned(rows), "FAIL") # {}
    BY <1>2 DEF Readable, Returned, Records, WithStatus
  <2>4. failed \in BOOLEAN
    OBVIOUS
  <2> HIDE DEF rows, failed
  <2>5. /\ input' \in Inputs /\ input'.project = input.project
        /\ input'.evidence = input.evidence
        /\ input'.verifications = Returned(rows) /\ input'.failed = failed
    BY <2>1, <2>2, <2>4 DEF IInv, Types, Inputs
  <2>6. Types' /\ StoreSound'
    BY <2>1, <2>5 DEF IInv, Types, StoreSound, store, given
  <2>7. Records(verifications)' = Records(verifications) /\ Records(evidence)' = Records(evidence)
    BY <2>1 DEF Records, store, given
  <2>8. ReadIsStored'
    BY <2>1, <2>2, <2>3, <2>5, <2>7 DEF IInv, ReadIsStored, InScope, WithStatus, store, given
  <2>9. Judged'
    BY <2>1, StillReading
  <2> QED
    BY <2>6, <2>8, <2>9 DEF IInv
<1> QED
    BY <1>1, <1>2

LEMMA ReconcileKeeps ==
    ASSUME IInv, Reconcile
    PROVE  IInv'
<1>1. UNCHANGED <<store, pc, input, reread, decision>> /\ pc = "ready"
      /\ snapshot' = SnapshotOf(input)
    BY DEF Reconcile, SnapshotOf
<1>2. Types' /\ StoreSound' /\ ReadIsStored'
    BY <1>1 DEF IInv, Types, StoreSound, ReadIsStored, Records, InScope, WithStatus, store, given
<1>3. SnapshotOf(input)' = SnapshotOf(input)
    BY <1>1 DEF SnapshotOf, ReconciliationState, PassReferencesMissing, OtherConflicts,
        InScope, Current, WithStatus, Ids, store, given
<1>4. Judged'
    BY <1>1, <1>3 DEF IInv, Judged
<1> QED
    BY <1>2, <1>4 DEF IInv

LEMMA EvaluateKeeps ==
    ASSUME IInv, Evaluate
    PROVE  IInv'
<1>1. /\ UNCHANGED <<store, input, snapshot, reread>>
      /\ pc = "ready" /\ pc' = "decided" /\ snapshot # NoSnapshot
      /\ decision' = IF sameProject THEN Verdict(input) ELSE decision
    BY DEF Evaluate, Verdict, Late
<1>2. Types' /\ StoreSound' /\ ReadIsStored'
    BY <1>1 DEF IInv, Types, StoreSound, ReadIsStored, Records, InScope, WithStatus, store, given
<1>3. SnapshotOf(input)' = SnapshotOf(input)
    BY <1>1 DEF SnapshotOf, ReconciliationState, PassReferencesMissing, OtherConflicts,
        InScope, Current, WithStatus, Ids, store, given
<1>4. Verdict(input)' = Verdict(input)
    BY <1>1 DEF Verdict, Late, CompletionState, SnapshotFits, ValidVerifications,
        ResidualScope, CmosRemain, InScope, Current, WithStatus, Ids, store, given
<1>5. Judged'
    BY <1>1, <1>3, <1>4 DEF IInv, Judged, store, given
<1> QED
    BY <1>2, <1>5 DEF IInv

------------------------------------------------------------------------------
\* The invariant is inductive.
LEMMA Inductive == Spec => []IInv
<1>1. Init => IInv
  <2> SUFFICES ASSUME Init PROVE IInv
    OBVIOUS
  <2>1. Types
    BY NoInputIsInput DEF Init, Types, ItemStates
  <2>2. StoreSound /\ ReadIsStored /\ Judged
    BY DEF Init, StoreSound, ReadIsStored, Judged
  <2> QED
    BY <2>1, <2>2 DEF IInv
<1>2. IInv /\ [Next]_vars => IInv'
  <2> SUFFICES ASSUME IInv, [Next]_vars PROVE IInv'
    OBVIOUS
  <2>1. CASE UNCHANGED vars
    <3>1. UNCHANGED <<assessment, store>>
      BY <2>1 DEF vars
    <3>2. Types' /\ StoreSound' /\ Grows
      BY <3>1 DEF IInv, Types, StoreSound, Grows, Records, store, assessment, given
    <3> QED
      BY <3>1, <3>2, StoreStep DEF store, given
  <2>2. CASE Stores
    BY <2>2, CreateProjectKeeps, RenameProjectKeeps, TransitionWorkItemKeeps,
        SaveEvidenceKeeps, SaveVerificationKeeps, DamageRowKeeps DEF Stores, PostProject
  <2>3. CASE ListEvidenceForWorkItem \/ ListEvidenceForRun
    <3>1. Of(evidence, {Assessed}) \in SUBSET evidence /\ evidence \in SUBSET evidence
      BY DEF Of
    <3> QED
      BY <2>3, <3>1, ReadEvidenceKeeps DEF ListEvidenceForWorkItem, ListEvidenceForRun
  <2>4. CASE Assess
    BY <2>3, <2>4, BeginKeeps, ReadWorkItemKeeps, ListVerificationsKeeps, ReconcileKeeps,
        RereadKeeps, EvaluateKeeps DEF Assess
  <2> QED
    BY <2>1, <2>2, <2>4 DEF Next
<1> QED
    BY <1>1, <1>2, PTL DEF Spec

------------------------------------------------------------------------------
(* The types, and the events of the project                                *)

Bounded ==
    /\ project.revision \in 0 .. MaxRevision
    /\ projectEvents = 1 .. project.revision
    /\ item.revision \in 1 .. MaxRevision

LEMMA BoundedKept ==
    ASSUME IInv, Bounded, [Next]_vars
    PROVE  Bounded'
<1> USE CompletionConstants
<1>1. CASE UNCHANGED <<project, projectEvents, item>>
    BY <1>1 DEF Bounded
<1>2. ASSUME NEW n \in Names, PostProject(n) PROVE Bounded'
  <2>1. project'.revision = 1 /\ projectEvents' = {1} /\ item' = item
    BY <1>2 DEF CreateProject, PostProject
  <2>2. 1 .. 1 = {1} /\ 1 \in 0 .. MaxRevision
    OBVIOUS
  <2> QED
    BY <2>1, <2>2 DEF Bounded
<1>3. ASSUME NEW n, NEW r, NEW e, RenameProject(n, r, e) PROVE Bounded'
  <2>1. /\ project'.revision = project.revision + 1 /\ item' = item
        /\ projectEvents' = projectEvents \union {project.revision + 1}
        /\ project.revision < MaxRevision
    BY <1>3 DEF RenameProject
  <2>2. \A k \in Nat : (1 .. k) \union {k + 1} = 1 .. (k + 1)
    OBVIOUS
  <2>3. project.revision \in Nat
    BY DEF IInv, Types
  <2> QED
    BY <2>1, <2>2, <2>3, SMTT(40) DEF Bounded
<1>4. ASSUME NEW s, TransitionWorkItem(s) PROVE Bounded'
  <2>1. /\ item'.revision = item.revision + 1 /\ item.revision < MaxRevision
        /\ UNCHANGED <<project, projectEvents>>
    BY <1>4 DEF TransitionWorkItem
  <2> QED
    BY <2>1 DEF Bounded
<1>5. ASSUME NEW r, NEW sound, SaveEvidence(r, sound) \/ SaveVerification(r, sound)
      PROVE  Bounded'
    BY <1>1, <1>5 DEF SaveEvidence, SaveVerification
<1>6. CASE DamageRow
    BY <1>1, <1>6 DEF DamageRow
<1>7. CASE Assess
    BY <1>1, <1>7 DEF Assess, Begin, ReadWorkItem, ListEvidenceForWorkItem,
        ListEvidenceForRun, ReadEvidence, ListVerificationsForWorkItem, Reconcile,
        Reread, Evaluate, GetById, store
<1>8. CASE UNCHANGED vars
    BY <1>1, <1>8 DEF vars, store, given
<1> QED
    BY <1>2, <1>3, <1>4, <1>5, <1>6, <1>7, <1>8 DEF Next, Stores

\* The tables of ProjectStore and PrismaEvidenceStore keep their shape, and a
\* project has exactly one event for each of its revisions.
THEOREM TypeCorrect == Spec => []TypeOK
<1>1. Init => Bounded
  <2> SUFFICES ASSUME Init PROVE Bounded
    OBVIOUS
  <2>1. project.revision = 0 /\ item.revision = 1 /\ projectEvents = {}
    BY DEF Init
  <2>2. 0 \in 0 .. MaxRevision /\ 1 \in 1 .. MaxRevision /\ 1 .. 0 = {}
    BY CompletionConstants
  <2> QED
    BY <2>1, <2>2 DEF Bounded
<1>2. IInv /\ Bounded /\ [Next]_vars => Bounded'
    BY BoundedKept
<1>3. IInv /\ Bounded => TypeOK
  <2> SUFFICES ASSUME IInv, Bounded PROVE TypeOK
    OBVIOUS
  <2>1. /\ project \in [name : Names \union {""}, revision : 0 .. MaxRevision]
        /\ item \in [state : ItemStates, revision : 1 .. MaxRevision]
    BY DEF IInv, Types, Bounded
  <2> QED
    BY <2>1 DEF IInv, Types, Bounded, TypeOK, given
<1> QED
    BY <1>1, <1>2, <1>3, Inductive, PTL DEF Spec

------------------------------------------------------------------------------
(* What a COMPLETE decision was made from                                  *)

LEMMA CompleteWasEarned ==
    ASSUME IInv, decision.state = "COMPLETE"
    PROVE  /\ pc = "decided" /\ sameProject /\ Late(input)
           /\ decision = Verdict(input)
           /\ ValidVerifications(input) # {} /\ ~ResidualScope(input)
<1>1. pc = "decided" /\ sameProject /\ decision = Verdict(input)
  <2>1. NoDecision.state # "COMPLETE" /\ sameProject \in BOOLEAN
    BY DEF NoDecision, IInv, Types
  <2> QED
    BY <2>1 DEF IInv, Judged
<1>2. CompletionState(input) = "COMPLETE"
    BY <1>1 DEF Verdict
<1> QED
    BY <1>1, <1>2 DEF CompletionState, Late

\* A FAIL verification the assessment's last read could see keeps the work
\* item from COMPLETE: the completion engine looks at the verifications
\* again, whatever the reconciliation said before.
THEOREM FailuresBlock == Spec => []FailureBlocksCompletion
<1>1. IInv => FailureBlocksCompletion
  <2> SUFFICES ASSUME IInv, decision.state = "COMPLETE", input.failed PROVE FALSE
    BY DEF FailureBlocksCompletion
  <2>1. pc = "decided" /\ ~ResidualScope(input)
    BY CompleteWasEarned
  <2>2. WithStatus(InScope(input.verifications), "FAIL") # {}
    BY <2>1 DEF IInv, ReadIsStored
  <2> QED
    BY <2>1, <2>2 DEF ResidualScope
<1> QED
    BY <1>1, Inductive, PTL

\* The records a COMPLETE decision names stay in the tables, and the project
\* revision it was made at has its event: the stores are create-only, and
\* damage to a row does not change what was saved.
THEOREM CompletionStaysBacked == Spec => []CompleteStaysBacked
<1>1. IInv => CompleteStaysBacked
  <2> SUFFICES ASSUME IInv, decision.state = "COMPLETE"
      PROVE  /\ \E v \in Records(verifications) :
                   /\ v.id \in decision.verificationIds /\ v.status = "PASS"
                   /\ v.evidenceIds # {}
                   /\ v.evidenceIds \subseteq Ids(Current(InScope(Records(evidence))))
             /\ decision.evidenceIds \subseteq Ids(Current(InScope(Records(evidence))))
             /\ input.project.revision \in projectEvents
    BY DEF CompleteStaysBacked
  <2>1. /\ pc = "decided" /\ Late(input) /\ decision = Verdict(input)
        /\ ValidVerifications(input) # {}
    BY CompleteWasEarned
  <2>2. /\ decision.verificationIds = Ids(ValidVerifications(input))
        /\ decision.evidenceIds = Ids(Current(InScope(input.evidence)))
    BY <2>1 DEF Verdict
  <2>3. /\ input.evidence \subseteq Records(evidence)
        /\ input.verifications \subseteq Records(verifications)
        /\ input.project.revision \in projectEvents
    BY <2>1 DEF IInv, ReadIsStored
  <2>4. Ids(Current(InScope(input.evidence)))
            \subseteq Ids(Current(InScope(Records(evidence))))
    BY <2>3 DEF Ids, Current, InScope
  <2>5. PICK v \in ValidVerifications(input) : TRUE
    BY <2>1
  <2>6. /\ v \in Records(verifications) /\ v.status = "PASS" /\ v.evidenceIds # {}
        /\ v.evidenceIds \subseteq Ids(Current(InScope(input.evidence)))
        /\ v.id \in decision.verificationIds
    BY <2>2, <2>3, <2>5 DEF ValidVerifications, WithStatus, InScope, Ids
  <2> QED
    BY <2>2, <2>3, <2>4, <2>6
<1> QED
    BY <1>1, Inductive, PTL

------------------------------------------------------------------------------
(* The two engines against what completion means                           *)

\* What the reconciliation engine passes, and the completion engine
\* completes after it, is complete.
LEMMA EnginesAreSound ==
    ASSUME NEW in \in Inputs, InScope(in.verifications) = in.verifications,
           ReconciliationState(in) = "PASS", ~CmosRemain(in)
    PROVE  Complete(in)
<1>1. /\ sameProject /\ in.item.state = "COMPLETED" /\ ~OtherConflicts(in)
      /\ WithStatus(in.verifications, "FAIL") = {} /\ ~PassReferencesMissing(in)
      /\ WithStatus(in.verifications, "INCONCLUSIVE") = {}
      /\ WithStatus(in.verifications, "PASS") # {}
    BY DEF ReconciliationState
<1>2. InScope(in.evidence) = in.evidence /\ Current(in.evidence) = in.evidence
    BY <1>1 DEF OtherConflicts
<1>3. \A e \in in.evidence : e.workItemId = Assessed /\ e.currentness = "CURRENT"
    BY <1>2 DEF InScope, Current
<1>4. in.verifications \subseteq VerificationRecords
    BY DEF Inputs
<1>5. WithStatus(in.verifications, "PASS") = in.verifications
    BY <1>1, <1>4, CompletionConstants DEF WithStatus, VerificationStatuses
<1>6. \A v \in WithStatus(in.verifications, "PASS") :
          v.evidenceIds # {} /\ v.evidenceIds \subseteq Ids(in.evidence)
    BY <1>1, <1>2 DEF OtherConflicts, PassReferencesMissing
<1>7. /\ in.project.name # "" /\ hasObjective
      /\ RequiredCmos \subseteq {e.claim : e \in in.evidence}
    BY <1>2 DEF CmosRemain
<1> QED
    BY <1>1, <1>3, <1>5, <1>6, <1>7 DEF Complete

\* What is complete passes both engines.
LEMMA EnginesAreComplete ==
    ASSUME NEW in \in Inputs, InScope(in.verifications) = in.verifications, Complete(in)
    PROVE  /\ ReconciliationState(in) = "PASS"
           /\ ValidVerifications(in) # {} /\ ~ResidualScope(in)
<1>1. /\ sameProject /\ in.item.state = "COMPLETED" /\ in.project.name # ""
      /\ hasObjective
      /\ \A e \in in.evidence : e.workItemId = Assessed /\ e.currentness = "CURRENT"
      /\ WithStatus(in.verifications, "PASS") = in.verifications
      /\ in.verifications # {}
      /\ \A v \in in.verifications :
            v.evidenceIds # {} /\ v.evidenceIds \subseteq Ids(in.evidence)
      /\ RequiredCmos \subseteq {e.claim : e \in in.evidence}
    BY DEF Complete
<1>2. InScope(in.evidence) = in.evidence /\ Current(in.evidence) = in.evidence
    BY <1>1 DEF InScope, Current
<1>3. in.evidence # {}
    BY <1>1 DEF RequiredCmos
<1>4. /\ WithStatus(in.verifications, "FAIL") = {}
      /\ WithStatus(in.verifications, "INCONCLUSIVE") = {}
    BY <1>1 DEF WithStatus
<1>5. ~PassReferencesMissing(in)
    BY <1>1, <1>2 DEF PassReferencesMissing
<1>6. ~OtherConflicts(in)
    BY <1>1, <1>2 DEF OtherConflicts
<1>7. ReconciliationState(in) = "PASS"
    BY <1>1, <1>2, <1>3, <1>4, <1>5, <1>6 DEF ReconciliationState
<1>8. ValidVerifications(in) # {}
    BY <1>1, <1>2 DEF ValidVerifications
<1>9. ~ResidualScope(in)
    BY <1>1, <1>2, <1>4 DEF ResidualScope, CmosRemain
<1> QED
    BY <1>7, <1>8, <1>9

\* Over one and the same input, ReconciliationEngineV0 and CompletionEngineV0
\* decide COMPLETE exactly when nothing speaks against the work item and
\* everything required speaks for it, though each filters and orders its
\* checks in its own way.
THEOREM EnginesDecideAlike == Spec => []EnginesAgree
<1>1. IInv => EnginesAgree
  <2> SUFFICES ASSUME IInv, pc = "decided", ~reread
      PROVE  decision.state = "COMPLETE" <=> Complete(input)
    BY DEF EnginesAgree
  <2>1. /\ input \in Inputs /\ InScope(input.verifications) = input.verifications
        /\ sameProject \in BOOLEAN
    BY DEF IInv, Types, ReadIsStored
  <2>2. snapshot = SnapshotOf(input)
    BY DEF IInv, Judged
  <2>3. snapshot.state = ReconciliationState(input) /\ SnapshotFits(input)
    BY <2>2 DEF SnapshotOf, SnapshotFits
  <2>4. ASSUME decision.state = "COMPLETE" PROVE Complete(input)
    <3>1. Late(input) /\ ~ResidualScope(input)
      BY <2>4, CompleteWasEarned
    <3> QED
      BY <2>1, <2>3, <3>1, EnginesAreSound DEF Late, ResidualScope
  <2>5. ASSUME Complete(input) PROVE decision.state = "COMPLETE"
    <3>1. sameProject /\ input.item.state = "COMPLETED"
      BY <2>5 DEF Complete
    <3>2. decision = Verdict(input)
      BY <3>1 DEF IInv, Judged
    <3>3. CompletionState(input) = "COMPLETE"
      BY <2>1, <2>3, <2>5, <3>1, EnginesAreComplete DEF CompletionState
    <3> QED
      BY <3>2, <3>3 DEF Verdict
  <2> QED
    BY <2>4, <2>5
<1> QED
    BY <1>1, Inductive, PTL
==============================================================================
