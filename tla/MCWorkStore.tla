---------------------------- MODULE MCWorkStore -----------------------------
(* Bounded instance of WorkStore: two clients race over one work item.       *)
EXTENDS WorkStore, TLC

CONSTANTS i1, a1, a2, c1, c2

MCItems    == {i1}
MCAttempts == {a1, a2}
MCClients  == {c1, c2}

MCSymmetry == Permutations(MCAttempts) \cup Permutations(MCClients)
=============================================================================
