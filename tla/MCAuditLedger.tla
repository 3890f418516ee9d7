---------------------------- MODULE MCAuditLedger ----------------------------
(* Instances of AuditLedger for TLC.                                        *)
EXTENDS AuditLedger, TLC

CONSTANTS c1, c2, c3

MCCalls == {c1, c2, c3}
Symmetry == Permutations(MCCalls)

==============================================================================
