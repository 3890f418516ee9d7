-------------------------- MODULE MCWorkExecution ---------------------------
(* Bounded instances of WorkExecution.                                       *)
EXTENDS WorkExecution, TLC

CONSTANTS i1, a1, a2, h1, h2, r1, v1, v2

MCItems     == {i1}
MCAttempts  == {a1, a2}
MCOneAttempt == {a1}
MCHosts     == {h1, h2}
MCOneHost   == {h1}
MCResumers  == {r1}
MCNobody    == {}
MCVerifiers == {v1, v2}

MCSymmetry == Permutations(MCAttempts) \cup Permutations(MCHosts)
              \cup Permutations(MCVerifiers)
=============================================================================
