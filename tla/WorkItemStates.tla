--------------------------- MODULE WorkItemStates ---------------------------
(* The two life cycles of packages/domain/src/work-item.ts: the states of a  *)
(* work item and of an attempt, and the transition tables that every write   *)
(* of the store is checked against.                                          *)

ItemStates ==
    {"DRAFT", "READY", "QUEUED", "ASSIGNED", "RUNNING", "WAITING", "BLOCKED",
     "REVIEW_REQUIRED", "VERIFICATION_REQUIRED", "REPAIR_REQUIRED",
     "RECOVERY_REQUIRED", "COMPLETED", "CANCELLED", "SUPERSEDED"}

ActiveAttemptStates == {"NOT_STARTED", "STARTING", "RUNNING", "UNKNOWN"}

TerminalAttemptStates ==
    {"SUCCEEDED", "FAILED", "TIMED_OUT", "INTERRUPTED", "CANCELLED"}

AttemptStates == ActiveAttemptStates \cup TerminalAttemptStates

\* Where the owner can always put a work item that has not been completed.
Withdrawn == {"CANCELLED", "SUPERSEDED"}

WorkItemTransitions ==
         {"DRAFT"}    \X ({"READY"} \cup Withdrawn)
    \cup {"READY"}    \X ({"QUEUED", "ASSIGNED", "BLOCKED", "WAITING"} \cup Withdrawn)
    \cup {"QUEUED"}   \X ({"ASSIGNED", "READY", "BLOCKED", "WAITING"} \cup Withdrawn)
    \cup {"ASSIGNED"} \X ({"RUNNING", "READY", "RECOVERY_REQUIRED", "BLOCKED",
                           "WAITING"} \cup Withdrawn)
    \cup {"RUNNING"}  \X ({"REVIEW_REQUIRED", "VERIFICATION_REQUIRED",
                           "REPAIR_REQUIRED", "RECOVERY_REQUIRED", "WAITING",
                           "BLOCKED", "COMPLETED"} \cup Withdrawn)
    \cup {"WAITING"}  \X ({"READY", "BLOCKED"} \cup Withdrawn)
    \cup {"BLOCKED"}  \X ({"READY", "WAITING"} \cup Withdrawn)
    \cup {"REVIEW_REQUIRED"} \X ({"VERIFICATION_REQUIRED", "REPAIR_REQUIRED",
                           "BLOCKED", "WAITING", "COMPLETED"} \cup Withdrawn)
    \cup {"VERIFICATION_REQUIRED"} \X ({"COMPLETED", "REPAIR_REQUIRED",
                           "RECOVERY_REQUIRED", "BLOCKED", "WAITING"} \cup Withdrawn)
    \cup {"REPAIR_REQUIRED"}   \X ({"READY", "BLOCKED", "WAITING"} \cup Withdrawn)
    \cup {"RECOVERY_REQUIRED"} \X ({"READY", "WAITING", "BLOCKED"} \cup Withdrawn)
    \cup {"COMPLETED"} \X {"VERIFICATION_REQUIRED", "READY", "SUPERSEDED"}

AttemptTransitions ==
         {"NOT_STARTED"} \X {"STARTING", "CANCELLED"}
    \cup {"STARTING"}    \X {"RUNNING", "FAILED", "TIMED_OUT", "INTERRUPTED",
                             "CANCELLED", "UNKNOWN"}
    \cup {"RUNNING"}     \X (TerminalAttemptStates \cup {"UNKNOWN"})
    \cup {"UNKNOWN"}     \X (TerminalAttemptStates \cup {"RUNNING"})

WorkItemMayMove(from, to) == <<from, to>> \in WorkItemTransitions

AttemptMayMove(from, to) == <<from, to>> \in AttemptTransitions

IsActiveAttemptState(s) == s \in ActiveAttemptStates
=============================================================================
