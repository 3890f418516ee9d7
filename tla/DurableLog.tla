------------------------------ MODULE DurableLog ------------------------------
(***************************************************************************)
(* What the execution logger and the incident service promise: for every   *)
(* run or incident an append-only chain of records.  A record is accepted  *)
(* at once and becomes durable later, in order; a crash may lose records   *)
(* that were accepted and not yet durable, always from the end.            *)
(***************************************************************************)
EXTENDS Naturals, Sequences

CONSTANTS
    Keys,     \* one chain per run or incident
    Hashes,   \* record hashes
    Roots     \* what the first record may have as its previousHash

VARIABLES
    log,      \* what was accepted, in order
    durable   \* the positions of the log that the database holds

vars == <<log, durable>>

Entry == [hash : Hashes, prev : Hashes \union Roots]

\* What the next record of a chain may name as its predecessor.
Ends(l) == IF l = <<>> THEN Roots ELSE {l[Len(l)].hash}

Init ==
    /\ log = [k \in Keys |-> <<>>]
    /\ durable = [k \in Keys |-> {}]

\* Accept a record that continues the chain of k.
Accept(k, h) ==
    /\ UNCHANGED durable
    /\ \E prev \in Ends(log[k]) :
           log' = [log EXCEPT ![k] = Append(@, [hash |-> h, prev |-> prev])]
    /\ \A i \in DOMAIN log[k] : log[k][i].hash # h

\* How much of each log may be durable next: nothing is taken back.
Extents ==
    LET len == [k \in Keys |-> Len(log[k])]
    IN  {n \in [Keys -> UNION {0 .. len[k] : k \in Keys}] :
            \A k \in Keys : n[k] <= len[k] /\ durable[k] \subseteq 1 .. n[k]}

\* What is durable has no gaps.
Written(n) == durable' = [k \in Keys |-> 1 .. n[k]]

\* Some records become durable: of every chain the oldest ones.
Persist == \E n \in Extents : Written(n) /\ UNCHANGED log

\* The process dies: a write under way lands or not, what is durable
\* stays, the rest is gone.
Lose ==
    \E n \in Extents :
        /\ Written(n)
        /\ log' = [k \in Keys |-> SubSeq(log[k], 1, n[k])]

Next ==
    \/ \E k \in Keys, h \in Hashes : Accept(k, h)
    \/ Persist
    \/ Lose

Spec == Init /\ [][Next]_vars

==============================================================================
