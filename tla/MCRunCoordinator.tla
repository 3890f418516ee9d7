-------------------------- MODULE MCRunCoordinator --------------------------
(* Bounded instances of RunCoordinator.                                      *)
EXTENDS RunCoordinator, TLC

CONSTANTS c1, c2, ask1, ask2

MCCalls     == {c1, c2}
MCOneCall   == {c1}
MCAsks      == {ask1, ask2}
MCOneAsk    == {ask1}
MCDecisions == AllDecisions
MCEvidence  == {"NEEDS_EVIDENCE", "OWNER_DECISION_REQUIRED"}

MCSymmetry == Permutations(MCCalls) \cup Permutations(MCAsks)
=============================================================================
