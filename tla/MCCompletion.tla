---------------------------- MODULE MCCompletion ----------------------------
(* Instances of Completion for TLC.                                         *)
EXTENDS Completion

Evidence(id, w, claim, currentness) ==
    [id |-> id, workItemId |-> w, claim |-> claim, currentness |-> currentness]
Verification(id, w, status, ids) ==
    [id |-> id, workItemId |-> w, status |-> status, evidenceIds |-> ids]

MCWorkItems == {"w1", "w2"}

MCInitialEvidence ==
    {Evidence("e1", "w1", "CMO-01", "CURRENT"),
     Evidence("e2", "w1", "CMO-02", "CURRENT"),
     Evidence("e3", "w1", "CMO-05", "CURRENT")}

MCEvidenceRecords == MCInitialEvidence \union
    {Evidence("e4", "w1", "CMO-14", "CURRENT"),
     Evidence("e5", "w1", "CMO-14", "STALE"),
     Evidence("e5", "w2", "CMO-14", "CURRENT"),
     Evidence("e1", "w1", "CMO-01", "INVALIDATED")}

MCVerificationRecords ==
    {Verification("v1", "w1", "PASS", {"e1"}),
     Verification("v1", "w1", "PASS", {"e5"}),
     Verification("v1", "w1", "PASS", {}),
     Verification("v1", "w1", "INCONCLUSIVE", {"e1"}),
     Verification("v2", "w1", "FAIL", {})}

MCNames == {"n", ""}
MCItemMoves == {"VERIFICATION_REQUIRED", "COMPLETED"}

=============================================================================
