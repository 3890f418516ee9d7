---------------------------- MODULE MCApprovals -----------------------------
(* Bounded instance of Approvals: one approval of a commit or a deployment,   *)
(* and requests that race for it around its expiry.                           *)
EXTENDS Approvals, TLC

CONSTANTS a1, q1, q2, q3, p1, p2

MCApprovalIds == {a1}
MCRequests    == {q1, q2, q3}
MCGateKinds   == {"COMMIT", "DEPLOY"}

MCScopes == {[kind |-> "COMMIT", paths |-> <<p1, p2>>, rest |-> "message"],
             [kind |-> "COMMIT", paths |-> <<p2, p1, p1>>, rest |-> "message"],
             [kind |-> "COMMIT", paths |-> <<p1>>, rest |-> "message"],
             [kind |-> "PUSH", paths |-> <<>>, rest |-> "commitSha"]}

MCSymmetry == Permutations(MCRequests)
=============================================================================
