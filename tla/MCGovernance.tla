---------------------------- MODULE MCGovernance ----------------------------
(* A bounded instance of Governance: the gates from the plan review on, and  *)
(* a request of each kind that these gates treat differently, classified by  *)
(* the ActionClassifier.                                                     *)
EXTENDS ActionClassifier, TLC

CONSTANTS c1, c2, f1

MCCalls == {c1, c2}

WriteSource(env) == [Plain("sandbox-filesystem", env) EXCEPT
                        !.says = {"write"}, !.resource = {"source"}, !.target = {f1}]

\* A git add and a commit in one request; a push whose parameters hold a secret;
\* a program that the classifier does not know.
MCToolRequests ==
    {WriteSource("local"), WriteSource("prod"),
     GitTool("add", {}, "none", {f1}, "local"),
     [GitTool("add", {}, "none", {f1}, "local") EXCEPT
         !.command = [base |-> "git", sub |-> "commit", marks |-> {}]],
     GitCommand("commit", {}, {}, "local"),
     GitTool("push", {}, "none", {}, "local"),
     [GitTool("push", {}, "none", {}, "local") EXCEPT !.parameters = {"literal"}],
     [Plain("shell", "local") EXCEPT
         !.command = [base |-> "make", sub |-> "none", marks |-> {}]]}

MCRequests == {Classified(r) : r \in MCToolRequests}

Offer(token, g, action) == [token |-> token, gate |-> g, action |-> action]

MCOffers ==
    {Offer("OWNER_IMPLEMENTATION_APPROVED", "ANY", "ANY"),
     Offer("OWNER_COMMIT_APPROVED", "ANY", "ANY"),
     Offer("OWNER_PUSH_APPROVED", "PUSH", "GIT_PUSH")}

MCScopes  == {{}, {f1}}

MCSymmetry == Permutations(MCCalls)
=============================================================================
