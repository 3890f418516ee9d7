----------------------------- MODULE Approvals ------------------------------
(* The approvals of the HTTP API (apps/api/src/index.ts): an owner's decision *)
(* about one sensitive action, bound to a gate and a scope, that may expire   *)
(* and is consumed once. Requests run concurrently. Each of decide and        *)
(* consume is a READ COMMITTED transaction that reads the row, takes the time *)
(* and judges in memory, then writes with a conditional UPDATE; from the      *)
(* UPDATE, which locks the row, to the commit is one step. verify writes the  *)
(* row and its audit event outside any transaction. Expiry is not an event of *)
(* its own: whoever finds the time past expiresAt writes EXPIRED.             *)
(*                                                                            *)
(* Requests are those of the approval's own project: others get 404.          *)
EXTENDS Integers, Sequences, Functions

CONSTANTS
    ApprovalIds,  \* the UUIDs that may be drawn
    Requests,     \* HTTP requests to decide, consume or verify
    None,         \* SQL NULL
    GateKinds,    \* gateKind values in use
    Scopes,       \* scopes: [kind, paths, rest], rest being the other fields
    MaxTime       \* bound: the last moment of the clock

ASSUME ApprovalConstants ==
    /\ None \notin Nat
    /\ MaxTime \in Nat

VARIABLES
    approvals,    \* table approvals
    trail,        \* table approval_audit_events, per approval, in order
    request,      \* where each request is, and what it has read
    clock         \* what new Date() returns

vars == <<approvals, trail, request, clock>>

Statuses == {"PENDING", "APPROVED", "REJECTED", "EXPIRED", "USED"}
Final    == {"REJECTED", "EXPIRED", "USED"}

Time == Nat \cup {None}

Approval == [status : Statuses \cup {"ABSENT"}, gate : GateKinds \cup {None},
             scope : Scopes \cup {None}, expiresAt : Time, decidedAt : Time,
             consumedAt : Time, verified : BOOLEAN]

Absent == [status |-> "ABSENT", gate |-> None, scope |-> None, expiresAt |-> None,
           decidedAt |-> None, consumedAt |-> None, verified |-> FALSE]

Decisions == {"APPROVED", "REJECTED"}

\* op is what was asked for (a decision names its op); pc is the next statement:
\* "judge" after the read, "expire" or "write" for the conditional UPDATE,
\* "audit" for the event that verify writes last. seen is the status that was
\* read and at the time that was taken.
Request == [pc : {"idle", "judge", "expire", "write", "audit", "done"},
            op : Decisions \cup {"consume", "verify"},
            approval : ApprovalIds \cup {None}, gate : GateKinds \cup {None},
            scope : Scopes \cup {None}, seen : Statuses, at : Nat,
            outcome : {"NONE", "DONE", "EXPIRED", "REFUSED", "CONFLICT", "ERROR"}]

NewRequest == [pc |-> "idle", op |-> "verify", approval |-> None, gate |-> None,
               scope |-> None, seen |-> "PENDING", at |-> 0, outcome |-> "NONE"]

AuditEvents == (Statuses \ {"PENDING"}) \cup {"REQUESTED", "POST_ACTION_VERIFIED"}

\* Rows, requests and audit events keep their shape.
TypeOK ==
    /\ approvals \in [ApprovalIds -> Approval]
    /\ trail \in [ApprovalIds -> Seq(AuditEvents)]
    /\ request \in [Requests -> Request]
    /\ clock \in Nat

Init ==
    /\ approvals = [a \in ApprovalIds |-> Absent]
    /\ trail = [a \in ApprovalIds |-> <<>>]
    /\ request = [q \in Requests |-> NewRequest]
    /\ clock = 0
-----------------------------------------------------------------------------
Exists(a) == approvals[a].status # "ABSENT"

\* validateApprovalGateScope.
ValidGateScope(gate, scope) ==
    gate \in {"COMMIT", "PUSH"} => scope.kind = gate

\* canonicalizeScope: key order never matters, and the paths of a COMMIT are
\* sorted and without repetitions.
IsScopeEqual(s, t) ==
    /\ s.kind = t.kind
    /\ s.rest = t.rest
    /\ IF s.kind = "COMMIT" THEN Range(s.paths) = Range(t.paths)
       ELSE s.paths = t.paths

\* POST /api/approvals: the row and its first audit event in one transaction.
\* An expiry that has already passed is accepted.
CreateApproval(a, gate, scope, expiresAt) ==
    /\ ~Exists(a)
    /\ ValidGateScope(gate, scope)
    /\ approvals' = [approvals EXCEPT ![a] =
          [Absent EXCEPT !.status = "PENDING", !.gate = gate, !.scope = scope,
                         !.expiresAt = expiresAt]]
    /\ trail' = [trail EXCEPT ![a] = <<"REQUESTED">>]
    /\ UNCHANGED <<request, clock>>

\* The first statement of decide, consume and verify.
Find(q, a, op, gate, scope) ==
    /\ request[q].pc = "idle"
    /\ Exists(a)
    /\ request' = [request EXCEPT ![q] =
          [NewRequest EXCEPT !.pc = "judge", !.op = op, !.approval = a, !.gate = gate,
                             !.scope = scope, !.seen = approvals[a].status]]
    /\ UNCHANGED <<approvals, trail, clock>>

\* The request ends: DONE with the new row, EXPIRED, REFUSED (the status, the gate
\* or the scope is not the one it needs), CONFLICT (a lost race) or ERROR (500).
Answer(q, outcome) ==
    request' = [request EXCEPT ![q].pc = "done", ![q].outcome = outcome]

\* The time is past expiresAt, for one that has it.
IsPast(a, time) == approvals[a].expiresAt # None /\ time >= approvals[a].expiresAt

\* The statuses that decide, consume and verify refuse before they look at the
\* time, and the one that they ask for in the end.
RefusedFirst(op) ==
    CASE op \in Decisions -> {"USED", "REJECTED", "APPROVED"}
      [] op = "consume" -> {"USED", "REJECTED"}
      [] op = "verify" -> Statuses \ {"USED"}

Required(op) ==
    CASE op \in Decisions -> "PENDING"
      [] op = "consume" -> "APPROVED"
      [] op = "verify" -> "USED"

\* Only consume compares what it is for with what was approved.
Matches(q) ==
    LET a == request[q].approval
    IN  request[q].op = "consume" =>
            /\ request[q].gate = approvals[a].gate
            /\ IsScopeEqual(approvals[a].scope, request[q].scope)

Judge_Unchecked(q) ==
    /\ request[q].pc = "judge"
    /\ request' = [request EXCEPT ![q].pc = "write", ![q].at = clock]
    /\ UNCHANGED <<approvals, trail, clock>>

\* The time is taken and the row that was read is judged in memory (gate, scope
\* and expiresAt of a row never change).
Judge(q) ==
    LET r    == request[q]
        past == r.op # "verify" /\ IsPast(r.approval, clock)
    IN  /\ r.pc = "judge"
        /\ \/ /\ r.seen \in RefusedFirst(r.op)
              /\ Answer(q, "REFUSED")
           \/ /\ r.seen \notin RefusedFirst(r.op)
              /\ past /\ r.seen # "EXPIRED"
              /\ request' = [request EXCEPT ![q].pc = "expire", ![q].at = clock]
           \/ /\ r.seen \notin RefusedFirst(r.op)
              /\ r.seen = "EXPIRED"
              /\ Answer(q, "EXPIRED")
           \/ /\ r.seen \notin RefusedFirst(r.op) \cup {"EXPIRED"}
              /\ ~past
              /\ IF r.seen = Required(r.op) /\ Matches(q)
                 THEN request' = [request EXCEPT ![q].pc = "write", ![q].at = clock]
                 ELSE Answer(q, "REFUSED")
        /\ UNCHANGED <<approvals, trail, clock>>

Record(a, event) == trail' = [trail EXCEPT ![a] = Append(@, event)]

Expire_Anyway(q) ==
    LET a == request[q].approval
    IN  /\ request[q].pc = "expire"
        /\ approvals' = [approvals EXCEPT ![a].status = "EXPIRED"]
        /\ Record(a, "EXPIRED")
        /\ Answer(q, "EXPIRED")
        /\ UNCHANGED clock

\* tryExpireApproval, and its copy in consume: only from the status that was read.
Expire(q) ==
    LET a == request[q].approval
    IN  /\ request[q].pc = "expire"
        /\ approvals[a].status = request[q].seen
        /\ approvals' = [approvals EXCEPT ![a].status = "EXPIRED"]
        /\ Record(a, "EXPIRED")
        /\ Answer(q, "EXPIRED")
        /\ UNCHANGED clock

Decide_Outcome(q) ==
    LET a == request[q].approval
    IN  /\ request[q].pc = "write"
        /\ request[q].op \in Decisions
        /\ approvals[a].status = "PENDING"
        /\ approvals' = [approvals EXCEPT ![a].status = "DECIDED",
                                          ![a].decidedAt = request[q].at]
        /\ Record(a, request[q].op)
        /\ Answer(q, "DONE")
        /\ UNCHANGED clock

\* The owner's decision, its time and its audit event, only on a PENDING row.
Decide(q) ==
    LET a == request[q].approval
    IN  /\ request[q].pc = "write"
        /\ request[q].op \in Decisions
        /\ approvals[a].status = "PENDING"
        /\ approvals' = [approvals EXCEPT ![a].status = request[q].op,
                                          ![a].decidedAt = request[q].at]
        /\ Record(a, request[q].op)
        /\ Answer(q, "DONE")
        /\ UNCHANGED clock

Consume_Unconditional(q) ==
    LET a == request[q].approval
    IN  /\ request[q].pc = "write"
        /\ request[q].op = "consume"
        /\ approvals' = [approvals EXCEPT ![a].status = "USED",
                                          ![a].consumedAt = request[q].at]
        /\ Record(a, "USED")
        /\ Answer(q, "DONE")
        /\ UNCHANGED clock

\* The single use, its time and its audit event, only on an APPROVED row.
Consume(q) ==
    LET a == request[q].approval
    IN  /\ request[q].pc = "write"
        /\ request[q].op = "consume"
        /\ approvals[a].status = "APPROVED"
        /\ approvals' = [approvals EXCEPT ![a].status = "USED",
                                          ![a].consumedAt = request[q].at]
        /\ Record(a, "USED")
        /\ Answer(q, "DONE")
        /\ UNCHANGED clock

\* The conditional UPDATE matches no row: another request has moved it on. The
\* answer is 409 APPROVAL_EXPIRED when that was an expiry that this request was
\* about to write too, and the code of a lost race otherwise.
Conflict(q) ==
    LET r == request[q]
        now == approvals[r.approval].status
    IN  /\ \/ r.pc = "expire" /\ now # r.seen
           \/ r.pc = "write" /\ r.op # "verify" /\ now # Required(r.op)
        /\ Answer(q, IF r.pc = "expire" /\ now = "EXPIRED" THEN "EXPIRED" ELSE "CONFLICT")
        /\ UNCHANGED <<approvals, trail, clock>>

\* verify: an UPDATE by id alone, then an audit event of its own.
AttachVerification(q) ==
    /\ request[q].pc = "write"
    /\ request[q].op = "verify"
    /\ approvals' = [approvals EXCEPT ![request[q].approval].verified = TRUE]
    /\ request' = [request EXCEPT ![q].pc = "audit"]
    /\ UNCHANGED <<trail, clock>>

RecordVerification(q) ==
    /\ request[q].pc = "audit"
    /\ Record(request[q].approval, "POST_ACTION_VERIFIED")
    /\ Answer(q, "DONE")
    /\ UNCHANGED <<approvals, clock>>

\* The database or the server fails: a transaction is rolled back, verify stops
\* where it is.
Fail(q) ==
    /\ request[q].pc \in {"judge", "expire", "write", "audit"}
    /\ Answer(q, "ERROR")
    /\ UNCHANGED <<approvals, trail, clock>>

Tick ==
    /\ clock < MaxTime
    /\ clock' = clock + 1
    /\ UNCHANGED <<approvals, trail, request>>
-----------------------------------------------------------------------------
Create ==
    \E a \in ApprovalIds, gate \in GateKinds, scope \in Scopes,
       expiresAt \in 0..MaxTime \cup {None} :
          CreateApproval(a, gate, scope, expiresAt)

Ask(q) ==
    \E a \in ApprovalIds :
       \/ \E op \in Decisions \cup {"verify"} : Find(q, a, op, None, None)
       \/ \E gate \in GateKinds, scope \in Scopes : Find(q, a, "consume", gate, scope)

Serve(q) ==
    \/ Judge(q) \/ Expire(q) \/ Decide(q) \/ Consume(q) \/ Conflict(q)
    \/ AttachVerification(q) \/ RecordVerification(q) \/ Fail(q)

Next ==
    \/ Create
    \/ \E q \in Requests : Ask(q) \/ Serve(q)
    \/ Tick

Spec == Init /\ [][Next]_vars
-----------------------------------------------------------------------------
\* An approval lets one request through: no two consume requests succeed on it,
\* however they race with each other, with an expiry or with a late decision, and
\* the one that does asked for the gate and the set of paths the owner approved.
Consumed(q) == request[q].op = "consume" /\ request[q].outcome = "DONE"

UsedOnce ==
    \A q \in Requests : Consumed(q) =>
        LET a == request[q].approval
        IN  /\ approvals[a].status = "USED"
            /\ approvals[a].gate = request[q].gate
            /\ Range(approvals[a].scope.paths) = Range(request[q].scope.paths)
            /\ \A p \in Requests : Consumed(p) /\ request[p].approval = a => p = q

\* A rejected, expired or consumed approval stays what it is: no request that
\* read it earlier revives it or gives it another end.
FinalStays ==
    [][\A a \in ApprovalIds : approvals[a].status \in Final =>
          approvals'[a].status = approvals[a].status]_vars

\* Decisions and uses are timely: each was judged before the expiry, and the use
\* after the decision, although the row is written later than the time was taken.
InTime ==
    \A a \in ApprovalIds :
        LET r == approvals[a]
        IN  /\ r.status \in {"APPROVED", "REJECTED", "USED"} =>
                  r.decidedAt # None /\ ~IsPast(a, r.decidedAt)
            /\ r.status = "USED" =>
                  r.consumedAt # None /\ ~IsPast(a, r.consumedAt)
                  /\ r.decidedAt <= r.consumedAt

\* The audit trail tells the life of the approval: its events lead from the
\* request to the present status, and only a used one has more of them, those of
\* its verifications.
Histories ==
    [s \in Statuses |->
        CASE s = "PENDING"  -> {<<"REQUESTED">>}
          [] s = "EXPIRED"  -> {<<"REQUESTED", "EXPIRED">>,
                                <<"REQUESTED", "APPROVED", "EXPIRED">>}
          [] s = "USED"     -> {<<"REQUESTED", "APPROVED", "USED">>}
          [] OTHER          -> {<<"REQUESTED", s>>}]

TrailTellsTheStory ==
    \A a \in ApprovalIds : Exists(a) =>
        \E h \in Histories[approvals[a].status] :
            /\ Len(trail[a]) >= Len(h)
            /\ \A i \in 1..Len(trail[a]) :
                  trail[a][i] = IF i <= Len(h) THEN h[i] ELSE "POST_ACTION_VERIFIED"
            /\ Len(trail[a]) > Len(h) => approvals[a].status = "USED"

\* Only a use is verified: verify writes by id alone, on a status it read before.
VerifiedWasUsed ==
    \A a \in ApprovalIds :
        approvals[a].verified => approvals[a].status = "USED"
=============================================================================
