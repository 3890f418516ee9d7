-------------------------- MODULE MCProviderAdapter --------------------------
(* Instances of ProviderAdapter for TLC.                                   *)
EXTENDS ProviderAdapter

Push   == [toolId |-> "git", operationId |-> "git.push", complete |-> TRUE]
Write  == [toolId |-> "sandbox-filesystem", operationId |-> "filesystem.write",
           complete |-> TRUE]
Crossed == [toolId |-> "git", operationId |-> "shell.exec", complete |-> TRUE]
Partial == [toolId |-> "shell", operationId |-> "shell.exec", complete |-> FALSE]

Fenced(ps) == [text |-> TRUE, ticks |-> TRUE, block |-> TRUE, json |-> TRUE,
               envelope |-> TRUE, bare |-> FALSE, artifacts |-> FALSE,
               proposals |-> ps]

\* No, one or two good proposals; a bad one among good ones; broken JSON; a
\* strange envelope; prose; bare JSON without a block; no text at all.
MCContents ==
    {Fenced(<<>>), Fenced(<<Push>>), Fenced(<<Write, Push>>),
     Fenced(<<Push, Crossed>>), Fenced(<<Partial, Push>>),
     [Fenced(<<Push>>) EXCEPT !.json = FALSE],
     [Fenced(<<Push>>) EXCEPT !.envelope = FALSE],
     [Fenced(<<>>) EXCEPT !.block = FALSE, !.ticks = FALSE],
     [Fenced(<<>>) EXCEPT !.block = FALSE, !.ticks = FALSE, !.bare = TRUE],
     [Fenced(<<>>) EXCEPT !.text = FALSE]}

==============================================================================
