--------------------------- MODULE ApprovalsProofs --------------------------
(* Approvals, for any number of approvals, requests and moments: types, the   *)
(* single use, final statuses, timeliness, verification and the audit trail.  *)
EXTENDS Approvals, TLAPS

\* A request that has read a row refers to one that exists, and still does.
ReadExists(q) ==
    request[q].pc # "idle" =>
        request[q].approval \in ApprovalIds /\ Exists(request[q].approval)

\* The status that was read may be stale, but only in one direction: an approval
\* that was seen APPROVED is no longer PENDING and keeps the time of its decision,
\* and one that was seen USED is still USED.
SeenBefore(q) ==
    LET r == request[q]
        a == approvals[r.approval]
    IN  /\ r.pc = "judge" /\ r.seen = "APPROVED" =>
              a.status # "PENDING" /\ a.decidedAt \in Nat /\ a.decidedAt <= clock
        /\ r.pc = "judge" /\ r.seen = "USED" => a.status = "USED"
        /\ r.pc = "expire" => r.seen \in {"PENDING", "APPROVED"}
        /\ r.pc = "audit" => r.op = "verify"

\* What a request that is about to write has established.
WriterChecked(q) ==
    LET r == request[q]
        a == approvals[r.approval]
    IN  r.pc = "write" =>
        /\ r.at <= clock
        /\ r.op # "verify" => ~IsPast(r.approval, r.at)
        /\ r.op = "consume" =>
              /\ Matches(q)
              /\ a.status # "PENDING" /\ a.decidedAt \in Nat /\ a.decidedAt <= r.at
        /\ r.op = "verify" => a.status = "USED"

\* A request has an outcome only once it is answered.
RequestSound(q) ==
    /\ ReadExists(q) /\ SeenBefore(q) /\ WriterChecked(q)
    /\ request[q].pc # "done" => request[q].outcome = "NONE"

\* InTime and VerifiedWasUsed for one row, whose decision is not in the future.
RowSound(a) ==
    LET r == approvals[a]
    IN  /\ r.status \in {"APPROVED", "REJECTED", "USED"} =>
              r.decidedAt \in Nat /\ r.decidedAt <= clock /\ ~IsPast(a, r.decidedAt)
        /\ r.status = "USED" =>
              /\ r.consumedAt \in Nat /\ ~IsPast(a, r.consumedAt)
              /\ r.decidedAt <= r.consumedAt
        /\ r.verified => r.status = "USED"

\* The inductive invariant.
IInv ==
    /\ TypeOK
    /\ \A q \in Requests : RequestSound(q)
    /\ \A a \in ApprovalIds : RowSound(a)
    /\ UsedOnce

\* The step in which a request uses the approval.
UsesNow(q) ==
    LET a == request'[q].approval
    IN  /\ a \in ApprovalIds
        /\ approvals[a].status = "APPROVED" /\ approvals'[a].status = "USED"
        /\ approvals'[a].gate = request'[q].gate
        /\ Range(approvals'[a].scope.paths) = Range(request'[q].scope.paths)
        /\ \A p \in Requests : p # q => request'[p] = request[p]

\* How a step may move a row: a status only forwards, the terms of the approval
\* and the time of the decision not at all once they are set.
Forward(a) ==
    LET old == approvals[a]
        new == approvals'[a]
    IN  /\ old.status # "ABSENT" =>
              /\ new.status # "ABSENT"
              /\ new.gate = old.gate /\ new.scope = old.scope
              /\ new.expiresAt = old.expiresAt
        /\ new.status # old.status =>
              \/ old.status = "ABSENT" /\ new.status = "PENDING"
              \/ /\ old.status = "PENDING"
                 /\ new.status \in {"APPROVED", "REJECTED", "EXPIRED"}
              \/ old.status = "APPROVED" /\ new.status \in {"USED", "EXPIRED"}
        /\ old.status \notin {"ABSENT", "PENDING"} => new.decidedAt = old.decidedAt

\* What a step of a request does to it: it keeps what was asked and what it saw.
RequestMoves(q, pc, at, outcome) ==
    /\ request' \in [Requests -> Request]
    /\ \A p \in Requests : p # q => request'[p] = request[p]
    /\ request'[q].pc = pc /\ request'[q].at = at /\ request'[q].outcome = outcome
    /\ request'[q].op = request[q].op /\ request'[q].approval = request[q].approval
    /\ request'[q].gate = request[q].gate /\ request'[q].scope = request[q].scope
    /\ request'[q].seen = request[q].seen

\* What a step does to the row it writes: it keeps the terms of the approval.
RowMoves(a, status, decidedAt, consumedAt, verified) ==
    /\ approvals' \in [ApprovalIds -> Approval]
    /\ \A b \in ApprovalIds : b # a => approvals'[b] = approvals[b]
    /\ approvals'[a].status = status /\ approvals'[a].decidedAt = decidedAt
    /\ approvals'[a].consumedAt = consumedAt /\ approvals'[a].verified = verified
    /\ approvals'[a].gate = approvals[a].gate /\ approvals'[a].scope = approvals[a].scope
    /\ approvals'[a].expiresAt = approvals[a].expiresAt
-----------------------------------------------------------------------------
\* A request that is answered.
LEMMA Answers ==
    ASSUME request \in [Requests -> Request], NEW q \in Requests,
           NEW outcome \in {"DONE", "EXPIRED", "REFUSED", "CONFLICT", "ERROR"},
           Answer(q, outcome)
    PROVE  RequestMoves(q, "done", request[q].at, outcome)
<1> DEFINE r == [request[q] EXCEPT !.pc = "done", !.outcome = outcome]
<1>1. request[q] \in Request
  OBVIOUS
<1>2. /\ r \in Request /\ r.pc = "done" /\ r.at = request[q].at /\ r.outcome = outcome
      /\ r.op = request[q].op /\ r.approval = request[q].approval
      /\ r.gate = request[q].gate /\ r.scope = request[q].scope /\ r.seen = request[q].seen
  BY <1>1 DEF Request
<1>3. request' = [request EXCEPT ![q] = r]
  BY DEF Answer
<1> HIDE DEF r
<1> QED BY <1>2, <1>3 DEF RequestMoves

\* A request that has been judged and goes on to a statement that writes.
LEMMA GoesOn ==
    ASSUME request \in [Requests -> Request], NEW q \in Requests, clock \in Nat,
           NEW pc \in {"expire", "write"},
           request' = [request EXCEPT ![q].pc = pc, ![q].at = clock]
    PROVE  RequestMoves(q, pc, clock, request[q].outcome)
<1> DEFINE r == [request[q] EXCEPT !.pc = pc, !.at = clock]
<1>1. request[q] \in Request
  OBVIOUS
<1>2. /\ r \in Request /\ r.pc = pc /\ r.at = clock /\ r.outcome = request[q].outcome
      /\ r.op = request[q].op /\ r.approval = request[q].approval
      /\ r.gate = request[q].gate /\ r.scope = request[q].scope /\ r.seen = request[q].seen
  BY <1>1 DEF Request
<1>3. request' = [request EXCEPT ![q] = r]
  OBVIOUS
<1> HIDE DEF r
<1> QED BY <1>2, <1>3 DEF RequestMoves

\* verify, after its first write.
LEMMA VerifyGoesOn ==
    ASSUME request \in [Requests -> Request], NEW q \in Requests,
           request' = [request EXCEPT ![q].pc = "audit"]
    PROVE  RequestMoves(q, "audit", request[q].at, request[q].outcome)
<1> DEFINE r == [request[q] EXCEPT !.pc = "audit"]
<1>1. request[q] \in Request
  OBVIOUS
<1>2. /\ r \in Request /\ r.pc = "audit" /\ r.at = request[q].at
      /\ r.outcome = request[q].outcome
      /\ r.op = request[q].op /\ r.approval = request[q].approval
      /\ r.gate = request[q].gate /\ r.scope = request[q].scope /\ r.seen = request[q].seen
  BY <1>1 DEF Request
<1>3. request' = [request EXCEPT ![q] = r]
  OBVIOUS
<1> HIDE DEF r
<1> QED BY <1>2, <1>3 DEF RequestMoves

\* The row that an expiry writes.
LEMMA ExpireRow ==
    ASSUME approvals \in [ApprovalIds -> Approval], NEW a \in ApprovalIds,
           approvals' = [approvals EXCEPT ![a].status = "EXPIRED"]
    PROVE  RowMoves(a, "EXPIRED", approvals[a].decidedAt, approvals[a].consumedAt,
                    approvals[a].verified)
<1> DEFINE r == [approvals[a] EXCEPT !.status = "EXPIRED"]
<1>1. approvals[a] \in Approval
  OBVIOUS
<1>2. /\ r \in Approval /\ r.status = "EXPIRED" /\ r.decidedAt = approvals[a].decidedAt
      /\ r.consumedAt = approvals[a].consumedAt /\ r.verified = approvals[a].verified
      /\ r.gate = approvals[a].gate /\ r.scope = approvals[a].scope
      /\ r.expiresAt = approvals[a].expiresAt
  BY <1>1 DEF Approval, Statuses
<1>3. approvals' = [approvals EXCEPT ![a] = r]
  OBVIOUS
<1> HIDE DEF r
<1> QED BY <1>2, <1>3 DEF RowMoves

\* The row that a decision writes.
LEMMA DecideRow ==
    ASSUME approvals \in [ApprovalIds -> Approval], NEW a \in ApprovalIds,
           NEW decision \in Decisions, NEW at \in Nat,
           approvals' = [approvals EXCEPT ![a].status = decision, ![a].decidedAt = at]
    PROVE  RowMoves(a, decision, at, approvals[a].consumedAt, approvals[a].verified)
<1> DEFINE r == [approvals[a] EXCEPT !.status = decision, !.decidedAt = at]
<1>1. approvals[a] \in Approval
  OBVIOUS
<1>2. /\ r \in Approval /\ r.status = decision /\ r.decidedAt = at
      /\ r.consumedAt = approvals[a].consumedAt /\ r.verified = approvals[a].verified
      /\ r.gate = approvals[a].gate /\ r.scope = approvals[a].scope
      /\ r.expiresAt = approvals[a].expiresAt
  BY <1>1 DEF Approval, Statuses, Decisions, Time
<1>3. approvals' = [approvals EXCEPT ![a] = r]
  OBVIOUS
<1> HIDE DEF r
<1> QED BY <1>2, <1>3 DEF RowMoves

\* The row that a use writes.
LEMMA ConsumeRow ==
    ASSUME approvals \in [ApprovalIds -> Approval], NEW a \in ApprovalIds,
           NEW at \in Nat,
           approvals' = [approvals EXCEPT ![a].status = "USED", ![a].consumedAt = at]
    PROVE  RowMoves(a, "USED", approvals[a].decidedAt, at, approvals[a].verified)
<1> DEFINE r == [approvals[a] EXCEPT !.status = "USED", !.consumedAt = at]
<1>1. approvals[a] \in Approval
  OBVIOUS
<1>2. /\ r \in Approval /\ r.status = "USED" /\ r.decidedAt = approvals[a].decidedAt
      /\ r.consumedAt = at /\ r.verified = approvals[a].verified
      /\ r.gate = approvals[a].gate /\ r.scope = approvals[a].scope
      /\ r.expiresAt = approvals[a].expiresAt
  BY <1>1 DEF Approval, Statuses, Time
<1>3. approvals' = [approvals EXCEPT ![a] = r]
  OBVIOUS
<1> HIDE DEF r
<1> QED BY <1>2, <1>3 DEF RowMoves

\* The row that a verification writes.
LEMMA VerifyRow ==
    ASSUME approvals \in [ApprovalIds -> Approval], NEW a \in ApprovalIds,
           approvals' = [approvals EXCEPT ![a].verified = TRUE]
    PROVE  RowMoves(a, approvals[a].status, approvals[a].decidedAt,
                    approvals[a].consumedAt, TRUE)
<1> DEFINE r == [approvals[a] EXCEPT !.verified = TRUE]
<1>1. approvals[a] \in Approval
  OBVIOUS
<1>2. /\ r \in Approval /\ r.status = approvals[a].status
      /\ r.decidedAt = approvals[a].decidedAt
      /\ r.consumedAt = approvals[a].consumedAt /\ r.verified = TRUE
      /\ r.gate = approvals[a].gate /\ r.scope = approvals[a].scope
      /\ r.expiresAt = approvals[a].expiresAt
  BY <1>1 DEF Approval
<1>3. approvals' = [approvals EXCEPT ![a] = r]
  OBVIOUS
<1> HIDE DEF r
<1> QED BY <1>2, <1>3 DEF RowMoves

\* Recording an event that exists keeps the trail typed.
LEMMA RecordTyped ==
    ASSUME trail \in [ApprovalIds -> Seq(AuditEvents)], NEW a \in ApprovalIds,
           NEW event \in AuditEvents, Record(a, event)
    PROVE  trail' \in [ApprovalIds -> Seq(AuditEvents)]
BY DEF Record

\* A request that a step leaves alone stays sound while the rows move forwards.
LEMMA OthersStaySound ==
    ASSUME TypeOK, TypeOK', clock' >= clock, \A a \in ApprovalIds : Forward(a),
           NEW p \in Requests, request'[p] = request[p], RequestSound(p)
    PROVE  RequestSound(p)'
<1> DEFINE r == request[p]
           a == request[p].approval
<1>1. ReadExists(p)'
  BY DEF RequestSound, ReadExists, Forward, Exists
<1>2. CASE r.pc = "idle"
  BY <1>1, <1>2 DEF RequestSound, SeenBefore, WriterChecked
<1>3. CASE r.pc # "idle"
  <2>1. /\ a \in ApprovalIds /\ approvals[a].status # "ABSENT"
        /\ r.at \in Nat /\ clock \in Nat /\ clock' \in Nat
    BY <1>3 DEF RequestSound, ReadExists, Exists, TypeOK, Request
  <2>2. Forward(a)
    BY <2>1
  <2>3. SeenBefore(p)'
    BY <2>1, <2>2 DEF RequestSound, SeenBefore, Forward
  <2>4. WriterChecked(p)'
    BY <2>1, <2>2 DEF RequestSound, WriterChecked, Forward, Matches, IsPast
  <2> QED BY <1>1, <2>3, <2>4 DEF RequestSound
<1> QED BY <1>2, <1>3

\* What a step has to establish for what it moves, to keep the invariant.
LEMMA StepKeeps ==
    ASSUME IInv, TypeOK', clock' >= clock, \A a \in ApprovalIds : Forward(a),
           \A p \in Requests : request'[p] = request[p] \/ RequestSound(p)',
           \A a \in ApprovalIds : approvals'[a] = approvals[a] \/ RowSound(a)',
           \A p \in Requests : Consumed(p)' => request'[p] = request[p] \/ UsesNow(p)
    PROVE  IInv'
<1>1. ASSUME NEW p \in Requests
      PROVE  RequestSound(p)'
  BY OthersStaySound DEF IInv
<1>2. ASSUME NEW a \in ApprovalIds
      PROVE  RowSound(a)'
  BY DEF IInv, RowSound, IsPast, TypeOK
<1>3. UsedOnce'
  <2> SUFFICES ASSUME NEW q \in Requests, Consumed(q)'
               PROVE  LET a == request'[q].approval
                      IN  /\ approvals'[a].status = "USED"
                          /\ approvals'[a].gate = request'[q].gate
                          /\ Range(approvals'[a].scope.paths) = Range(request'[q].scope.paths)
                          /\ \A p \in Requests :
                                Consumed(p)' /\ request'[p].approval = a => p = q
    BY DEF UsedOnce
  <2> DEFINE a == request'[q].approval
  <2>1. \A p \in Requests : Consumed(p)' /\ request'[p] = request[p] =>
           Consumed(p) /\ approvals[request[p].approval].status = "USED"
    BY DEF IInv, UsedOnce, Consumed
  <2>2. CASE UsesNow(q)
    BY <2>1, <2>2 DEF UsesNow
  <2>3. CASE ~UsesNow(q)
    <3>1. request'[q] = request[q] /\ Consumed(q)
      BY <2>3, <2>1
    <3>2. /\ a \in ApprovalIds /\ approvals[a].status = "USED"
          /\ approvals[a].gate = request[q].gate
          /\ Range(approvals[a].scope.paths) = Range(request[q].scope.paths)
      BY <3>1 DEF IInv, UsedOnce, Consumed, RequestSound, ReadExists
    <3>3. Forward(a)
      BY <3>2
    <3>4. /\ approvals'[a].status = "USED" /\ approvals'[a].gate = request'[q].gate
          /\ Range(approvals'[a].scope.paths) = Range(request'[q].scope.paths)
      BY <3>1, <3>2, <3>3 DEF Forward
    <3>5. ASSUME NEW p \in Requests, Consumed(p)', request'[p].approval = a
          PROVE  p = q
      <4>1. ~UsesNow(p)
        BY <3>2, <3>5 DEF UsesNow
      <4>2. Consumed(p) /\ request[p].approval = request[q].approval
        BY <2>1, <3>1, <3>5, <4>1
      <4> QED BY <3>1, <4>2 DEF IInv, UsedOnce
    <3> QED BY <3>4, <3>5
  <2> QED BY <2>2, <2>3
<1> QED BY <1>1, <1>2, <1>3 DEF IInv
-----------------------------------------------------------------------------
\* What the invariant says of a request that is being served.
LEMMA Served ==
    ASSUME IInv, NEW q \in Requests, request[q].pc # "idle"
    PROVE  /\ request \in [Requests -> Request] /\ request[q] \in Request
           /\ approvals \in [ApprovalIds -> Approval]
           /\ request[q].approval \in ApprovalIds
           /\ approvals[request[q].approval] \in Approval
           /\ approvals[request[q].approval].status # "ABSENT"
           /\ request[q].at \in Nat /\ clock \in Nat
           /\ RequestSound(q) /\ RowSound(request[q].approval)
BY DEF IInv, TypeOK, RequestSound, ReadExists, Exists, Request

\* A step that ends a request without a use, and leaves the rows alone.
LEMMA EndKeeps ==
    ASSUME IInv, NEW q \in Requests, request[q].pc # "idle",
           NEW outcome \in {"DONE", "EXPIRED", "REFUSED", "CONFLICT", "ERROR"},
           outcome = "DONE" => request[q].op # "consume",
           Answer(q, outcome), UNCHANGED <<approvals, clock>>,
           trail' \in [ApprovalIds -> Seq(AuditEvents)]
    PROVE  IInv'
<1>1. RequestMoves(q, "done", request[q].at, outcome)
  BY Served, Answers
<1>2. TypeOK'
  BY <1>1 DEF IInv, TypeOK, RequestMoves
<1>3. RequestSound(q)'
  BY <1>1, Served
  DEF RequestMoves, RequestSound, ReadExists, SeenBefore, WriterChecked, Exists
<1>4. \A a \in ApprovalIds : Forward(a)
  BY DEF Forward
<1>5. ~Consumed(q)'
  BY <1>1 DEF RequestMoves, Consumed
<1>6. clock' >= clock
  BY Served
<1> QED BY <1>1, <1>2, <1>3, <1>4, <1>5, <1>6, StepKeeps DEF RequestMoves

\* A step that moves a row forwards and ends a request, without a use.
LEMMA RowStepKeeps ==
    ASSUME IInv, NEW q \in Requests, request[q].pc # "idle",
           NEW status, NEW decidedAt, NEW consumedAt, NEW verified,
           RowMoves(request[q].approval, status, decidedAt, consumedAt, verified),
           Forward(request[q].approval), RowSound(request[q].approval)',
           RequestMoves(q, "done", request[q].at, request'[q].outcome),
           Consumed(q)' => UsesNow(q),
           UNCHANGED clock, trail' \in [ApprovalIds -> Seq(AuditEvents)]
    PROVE  IInv'
<1> DEFINE a == request[q].approval
<1>1. TypeOK'
  BY DEF IInv, TypeOK, RowMoves, RequestMoves
<1>2. \A b \in ApprovalIds : b # a => approvals'[b] = approvals[b]
  BY DEF RowMoves
<1>3. \A b \in ApprovalIds : Forward(b)
  BY <1>2 DEF Forward
<1>4. RequestSound(q)'
  BY Served
  DEF RequestMoves, RequestSound, ReadExists, SeenBefore, WriterChecked, Exists, Forward
<1>5. clock' >= clock
  BY Served
<1> QED BY <1>1, <1>2, <1>3, <1>4, <1>5, StepKeeps DEF RequestMoves

\* POST /api/approvals.
LEMMA CreateKeeps ==
    ASSUME IInv, Create
    PROVE  IInv'
<1> USE ApprovalConstants
<1>1. PICK a \in ApprovalIds, gate \in GateKinds, scope \in Scopes,
           expiresAt \in 0..MaxTime \cup {None} :
              CreateApproval(a, gate, scope, expiresAt)
  BY DEF Create
<1> DEFINE row == [Absent EXCEPT !.status = "PENDING", !.gate = gate, !.scope = scope,
                                 !.expiresAt = expiresAt]
<1>2. row \in Approval /\ row.status = "PENDING" /\ row.verified = FALSE
  <2>1. expiresAt \in Time /\ None \in Time
    BY DEF Time
  <2>2. Absent \in Approval /\ Absent.verified = FALSE
    BY <2>1 DEF Absent, Approval
  <2> QED BY <2>1, <2>2 DEF Approval, Statuses
<1>3. approvals' = [approvals EXCEPT ![a] = row] /\ approvals[a].status = "ABSENT"
  BY <1>1 DEF CreateApproval, Exists
<1> HIDE DEF row
<1>4. /\ approvals' \in [ApprovalIds -> Approval] /\ approvals'[a] = row
      /\ \A b \in ApprovalIds : b # a => approvals'[b] = approvals[b]
  BY <1>2, <1>3 DEF IInv, TypeOK
<1>5. trail' \in [ApprovalIds -> Seq(AuditEvents)]
  BY <1>1 DEF CreateApproval, IInv, TypeOK, AuditEvents
<1>6. TypeOK' /\ clock' >= clock
  BY <1>1, <1>4, <1>5 DEF CreateApproval, IInv, TypeOK
<1>7. \A b \in ApprovalIds : Forward(b)
  BY <1>2, <1>3, <1>4 DEF Forward
<1>8. RowSound(a)'
  BY <1>2, <1>4 DEF RowSound
<1>9. \A p \in Requests : request'[p] = request[p]
  BY <1>1 DEF CreateApproval
<1> QED BY <1>4, <1>6, <1>7, <1>8, <1>9, StepKeeps

\* The read of decide, consume and verify.
LEMMA AskKeeps ==
    ASSUME IInv, NEW q \in Requests, Ask(q)
    PROVE  IInv'
<1>1. PICK a \in ApprovalIds, op \in Decisions \cup {"consume", "verify"},
           gate \in GateKinds \cup {None}, scope \in Scopes \cup {None} :
              Find(q, a, op, gate, scope)
  BY DEF Ask
<1> DEFINE r == [NewRequest EXCEPT !.pc = "judge", !.op = op, !.approval = a,
                    !.gate = gate, !.scope = scope, !.seen = approvals[a].status]
<1>2. approvals[a] \in Approval /\ approvals[a].status \in Statuses
  BY <1>1 DEF Find, Exists, IInv, TypeOK, Approval
<1>3. /\ r \in Request /\ r.pc = "judge" /\ r.approval = a
      /\ r.seen = approvals[a].status /\ r.outcome = "NONE"
  BY <1>2 DEF Request, NewRequest
<1>4. request' = [request EXCEPT ![q] = r]
  BY <1>1 DEF Find
<1> HIDE DEF r
<1>5. /\ request' \in [Requests -> Request] /\ request'[q] = r
      /\ \A p \in Requests : p # q => request'[p] = request[p]
  BY <1>3, <1>4 DEF IInv, TypeOK
<1>6. UNCHANGED <<approvals, trail, clock>>
  BY <1>1 DEF Find
<1>7. TypeOK' /\ clock' >= clock
  BY <1>5, <1>6 DEF IInv, TypeOK
<1>8. \A b \in ApprovalIds : Forward(b)
  BY <1>6 DEF Forward
<1>9. RequestSound(q)'
  <2>1. RowSound(a)
    BY DEF IInv
  <2> QED BY <1>1, <1>3, <1>5, <1>6, <2>1
      DEF Find, RequestSound, ReadExists, SeenBefore, WriterChecked, RowSound, Exists
<1>10. ~Consumed(q)'
  BY <1>3, <1>5 DEF Consumed
<1> QED BY <1>5, <1>6, <1>7, <1>8, <1>9, <1>10, StepKeeps

\* The row that was read is judged.
LEMMA JudgeKeeps ==
    ASSUME IInv, NEW q \in Requests, Judge(q)
    PROVE  IInv'
<1>1. request[q].pc = "judge" /\ UNCHANGED <<approvals, trail, clock>>
  BY DEF Judge
<1>2. trail' \in [ApprovalIds -> Seq(AuditEvents)]
  BY <1>1 DEF IInv, TypeOK
<1>3. CASE Answer(q, "REFUSED") \/ Answer(q, "EXPIRED")
  BY <1>1, <1>2, <1>3, EndKeeps
<1>4. ASSUME NEW pc \in {"expire", "write"},
             request' = [request EXCEPT ![q].pc = pc, ![q].at = clock],
             pc = "expire" => request[q].seen \in {"PENDING", "APPROVED"},
             pc = "write" => /\ request[q].seen = Required(request[q].op)
                             /\ Matches(q)
                             /\ request[q].op # "verify" => ~IsPast(request[q].approval, clock)
      PROVE  IInv'
  <2>1. RequestMoves(q, pc, clock, request[q].outcome)
    BY <1>1, <1>4, Served, GoesOn
  <2>2. TypeOK' /\ clock' >= clock
    BY <1>1, <2>1 DEF IInv, TypeOK, RequestMoves
  <2>3. \A b \in ApprovalIds : Forward(b)
    BY <1>1 DEF Forward
  <2>4. ReadExists(q)' /\ SeenBefore(q)' /\ (request[q].outcome = "NONE")
    BY <1>1, <1>4, <2>1, Served
    DEF RequestMoves, RequestSound, ReadExists, SeenBefore, Exists
  <2>5. WriterChecked(q)'
    BY <1>1, <1>4, <2>1, Served
    DEF RequestMoves, RequestSound, SeenBefore, WriterChecked, Required, Decisions,
        Matches, IsPast, Request
  <2>6. RequestSound(q)' /\ ~Consumed(q)'
    BY <2>1, <2>4, <2>5 DEF RequestSound, RequestMoves, Consumed
  <2> QED BY <1>1, <2>1, <2>2, <2>3, <2>6, StepKeeps DEF RequestMoves
<1>5. \/ Answer(q, "REFUSED") \/ Answer(q, "EXPIRED")
      \/ /\ request' = [request EXCEPT ![q].pc = "expire", ![q].at = clock]
         /\ request[q].seen \notin RefusedFirst(request[q].op) \cup {"EXPIRED"}
         /\ request[q].op # "verify"
      \/ /\ request' = [request EXCEPT ![q].pc = "write", ![q].at = clock]
         /\ request[q].seen = Required(request[q].op) /\ Matches(q)
         /\ request[q].op # "verify" => ~IsPast(request[q].approval, clock)
  BY DEF Judge
<1>6. request[q].op # "verify" =>
         Statuses \ (RefusedFirst(request[q].op) \cup {"EXPIRED"})
            \subseteq {"PENDING", "APPROVED"}
  BY <1>1, Served DEF Request, RefusedFirst, Statuses, Decisions
<1>7. request[q].seen \in Statuses
  BY <1>1, Served DEF Request
<1> QED BY <1>3, <1>4, <1>5, <1>6, <1>7

\* tryExpireApproval and its copy in consume.
LEMMA ExpireKeeps ==
    ASSUME IInv, NEW q \in Requests, Expire(q)
    PROVE  IInv'
<1> DEFINE a == request[q].approval
<1>1. /\ request[q].pc = "expire" /\ approvals[a].status = request[q].seen
      /\ Answer(q, "EXPIRED") /\ Record(a, "EXPIRED") /\ UNCHANGED clock
      /\ approvals' = [approvals EXCEPT ![a].status = "EXPIRED"]
  BY DEF Expire
<1>2. RowMoves(a, "EXPIRED", approvals[a].decidedAt, approvals[a].consumedAt,
               approvals[a].verified)
  BY <1>1, Served, ExpireRow
<1>3. RequestMoves(q, "done", request[q].at, "EXPIRED")
  BY <1>1, Served, Answers
<1>4. trail' \in [ApprovalIds -> Seq(AuditEvents)]
  BY <1>1, Served, RecordTyped DEF IInv, TypeOK, AuditEvents, Statuses
<1>5. approvals[a].status \in {"PENDING", "APPROVED"}
  BY <1>1, Served DEF RequestSound, SeenBefore
<1>6. Forward(a)
  BY <1>2, <1>5 DEF Forward, RowMoves
<1>7. RowSound(a)'
  BY <1>1, <1>2, <1>3, <1>5, Served DEF RowSound, RowMoves, RequestMoves
<1>8. ~Consumed(q)'
  BY <1>3 DEF Consumed, RequestMoves
<1> QED BY <1>1, <1>2, <1>3, <1>4, <1>6, <1>7, <1>8, RowStepKeeps DEF RequestMoves

\* The decision.
LEMMA DecideKeeps ==
    ASSUME IInv, NEW q \in Requests, Decide(q)
    PROVE  IInv'
<1> DEFINE a == request[q].approval
<1>1. /\ request[q].pc = "write" /\ request[q].op \in Decisions
      /\ approvals[a].status = "PENDING"
      /\ Answer(q, "DONE") /\ Record(a, request[q].op) /\ UNCHANGED clock
      /\ approvals' = [approvals EXCEPT ![a].status = request[q].op,
                                        ![a].decidedAt = request[q].at]
  BY DEF Decide
<1>2. RowMoves(a, request[q].op, request[q].at, approvals[a].consumedAt,
               approvals[a].verified)
  BY <1>1, Served, DecideRow
<1>3. RequestMoves(q, "done", request[q].at, "DONE")
  BY <1>1, Served, Answers
<1>4. request[q].op \in AuditEvents /\ request[q].op \notin {"consume", "verify"}
  BY <1>1 DEF Decisions, AuditEvents, Statuses
<1>5. trail' \in [ApprovalIds -> Seq(AuditEvents)]
  BY <1>1, <1>4, Served, RecordTyped DEF IInv, TypeOK
<1>6. Forward(a)
  BY <1>1, <1>2, SMTT(40) DEF Forward, RowMoves, Decisions
<1>7. RowSound(a)'
  BY <1>1, <1>2, <1>3, <1>4, Served, ZenonT(60)
  DEF RowSound, RowMoves, RequestMoves, RequestSound, WriterChecked, IsPast, Decisions
<1>8. ~Consumed(q)'
  BY <1>3, <1>4 DEF Consumed, RequestMoves
<1> QED BY <1>1, <1>2, <1>3, <1>5, <1>6, <1>7, <1>8, RowStepKeeps DEF RequestMoves

\* The use.
LEMMA ConsumeKeeps ==
    ASSUME IInv, NEW q \in Requests, Consume(q)
    PROVE  IInv'
<1> DEFINE a == request[q].approval
<1>1. /\ request[q].pc = "write" /\ request[q].op = "consume"
      /\ approvals[a].status = "APPROVED"
      /\ Answer(q, "DONE") /\ Record(a, "USED") /\ UNCHANGED clock
      /\ approvals' = [approvals EXCEPT ![a].status = "USED",
                                        ![a].consumedAt = request[q].at]
  BY DEF Consume
<1>2. RowMoves(a, "USED", approvals[a].decidedAt, request[q].at, approvals[a].verified)
  BY <1>1, Served, ConsumeRow
<1>3. RequestMoves(q, "done", request[q].at, "DONE")
  BY <1>1, Served, Answers
<1>4. trail' \in [ApprovalIds -> Seq(AuditEvents)]
  BY <1>1, Served, RecordTyped DEF IInv, TypeOK, AuditEvents, Statuses
<1>5. Forward(a)
  BY <1>1, <1>2 DEF Forward, RowMoves
<1>6. RowSound(a)'
  BY <1>1, <1>2, <1>3, Served
  DEF RowSound, RowMoves, RequestMoves, RequestSound, WriterChecked, IsPast
<1>7. UsesNow(q)
  <2>1. /\ request[q].gate = approvals[a].gate
        /\ Range(approvals[a].scope.paths) = Range(request[q].scope.paths)
    BY <1>1, Served DEF RequestSound, WriterChecked, Matches, IsScopeEqual
  <2> QED BY <1>1, <1>2, <1>3, <2>1, Served DEF UsesNow, RowMoves, RequestMoves
<1> QED BY <1>1, <1>2, <1>3, <1>4, <1>5, <1>6, <1>7, RowStepKeeps DEF RequestMoves

\* The first write of verify.
LEMMA AttachKeeps ==
    ASSUME IInv, NEW q \in Requests, AttachVerification(q)
    PROVE  IInv'
<1> DEFINE a == request[q].approval
<1>1. /\ request[q].pc = "write" /\ request[q].op = "verify"
      /\ UNCHANGED <<trail, clock>>
      /\ approvals' = [approvals EXCEPT ![a].verified = TRUE]
      /\ request' = [request EXCEPT ![q].pc = "audit"]
  BY DEF AttachVerification
<1>2. RowMoves(a, approvals[a].status, approvals[a].decidedAt,
               approvals[a].consumedAt, TRUE)
  BY <1>1, Served, VerifyRow
<1>3. RequestMoves(q, "audit", request[q].at, request[q].outcome)
  BY <1>1, Served, VerifyGoesOn
<1>4. TypeOK' /\ clock' >= clock
  BY <1>1, <1>2, <1>3 DEF IInv, TypeOK, RowMoves, RequestMoves
<1>5. \A b \in ApprovalIds : Forward(b)
  BY <1>2, Served, <1>1 DEF Forward, RowMoves
<1>6. RowSound(a)'
  BY <1>1, <1>2, <1>3, Served
  DEF RowSound, RowMoves, RequestMoves, RequestSound, WriterChecked, IsPast
<1>7. RequestSound(q)' /\ ~Consumed(q)'
  BY <1>1, <1>2, <1>3, Served
  DEF RequestMoves, RowMoves, RequestSound, ReadExists, SeenBefore, WriterChecked,
      Exists, Consumed
<1> QED BY <1>2, <1>3, <1>4, <1>5, <1>6, <1>7, StepKeeps DEF RowMoves, RequestMoves

\* Every step keeps the invariant.
LEMMA NextKeeps ==
    ASSUME IInv, [Next]_vars
    PROVE  IInv'
<1>1. CASE UNCHANGED vars
  BY <1>1 DEF vars, IInv, TypeOK, RequestSound, ReadExists, SeenBefore, WriterChecked,
      RowSound, UsedOnce, Consumed, Exists, IsPast, Matches
<1>2. CASE Create
  BY <1>2, CreateKeeps
<1>3. ASSUME NEW q \in Requests, Ask(q)
      PROVE  IInv'
  BY <1>3, AskKeeps
<1>4. ASSUME NEW q \in Requests, Serve(q)
      PROVE  IInv'
  <2>1. CASE Conflict(q)
    <3>1. /\ Answer(q, "EXPIRED") \/ Answer(q, "CONFLICT")
          /\ request[q].pc # "idle" /\ UNCHANGED <<approvals, trail, clock>>
      BY <2>1 DEF Conflict
    <3> QED BY <3>1, EndKeeps DEF IInv, TypeOK
  <2>2. CASE RecordVerification(q)
    <3>1. /\ Answer(q, "DONE") /\ request[q].pc = "audit"
          /\ Record(request[q].approval, "POST_ACTION_VERIFIED")
          /\ UNCHANGED <<approvals, clock>>
      BY <2>2 DEF RecordVerification
    <3>2. trail' \in [ApprovalIds -> Seq(AuditEvents)]
      BY <3>1, Served, RecordTyped DEF IInv, TypeOK, AuditEvents
    <3>3. request[q].op # "consume"
      BY <3>1, Served DEF RequestSound, SeenBefore
    <3> QED BY <3>1, <3>2, <3>3, EndKeeps
  <2>3. CASE Fail(q)
    <3>1. /\ Answer(q, "ERROR") /\ request[q].pc # "idle"
          /\ UNCHANGED <<approvals, trail, clock>>
      BY <2>3 DEF Fail
    <3> QED BY <3>1, EndKeeps DEF IInv, TypeOK
  <2> QED BY <1>4, <2>1, <2>2, <2>3, JudgeKeeps, ExpireKeeps, DecideKeeps, ConsumeKeeps,
             AttachKeeps DEF Serve
<1>5. CASE Tick
  <2>1. TypeOK' /\ clock' >= clock
    BY <1>5 DEF Tick, IInv, TypeOK
  <2>2. UNCHANGED <<approvals, trail, request>>
    BY <1>5 DEF Tick
  <2>3. \A a \in ApprovalIds : Forward(a)
    BY <2>2 DEF Forward
  <2> QED BY <2>1, <2>2, <2>3, StepKeeps
<1> QED BY <1>1, <1>2, <1>3, <1>4, <1>5 DEF Next

\* There is nothing to decide, use or verify at the start.
LEMMA InitHolds == Init => IInv
<1> SUFFICES ASSUME Init PROVE IInv
  OBVIOUS
<1> USE ApprovalConstants
<1>1. NewRequest \in Request /\ NewRequest.pc = "idle" /\ NewRequest.outcome = "NONE"
  BY DEF NewRequest, Request, Statuses
<1>2. Absent \in Approval /\ Absent.status = "ABSENT" /\ Absent.verified = FALSE
  BY DEF Absent, Approval, Time
<1>3. TypeOK
  BY <1>1, <1>2 DEF Init, TypeOK
<1>4. \A q \in Requests : RequestSound(q) /\ ~Consumed(q)
  BY <1>1 DEF Init, RequestSound, ReadExists, SeenBefore, WriterChecked, Consumed
<1>5. \A a \in ApprovalIds : RowSound(a)
  BY <1>2 DEF Init, RowSound
<1> QED BY <1>3, <1>4, <1>5 DEF IInv, UsedOnce
-----------------------------------------------------------------------------
\* The inductive invariant holds in every reachable state.
THEOREM ApprovalsInvariant == Spec => []IInv
<1>1. Init => IInv
  BY InitHolds
<1>2. IInv /\ [Next]_vars => IInv'
  BY NextKeeps
<1> QED BY <1>1, <1>2, PTL DEF Spec

\* The tables, the requests and the trail keep their types, whatever the number of
\* approvals and requests of the API.
THEOREM ApprovalsTypeCorrect == Spec => []TypeOK
<1>1. IInv => TypeOK
  BY DEF IInv
<1> QED BY <1>1, ApprovalsInvariant, PTL

\* consume lets one request through an approval, with the gate and the paths that
\* were approved, whatever the number of requests that race for it.
THEOREM ApprovalUsedOnce == Spec => []UsedOnce
<1>1. IInv => UsedOnce
  BY DEF IInv
<1> QED BY <1>1, ApprovalsInvariant, PTL

\* decide and consume act in time: each took a time before the expiry, and the use
\* is not dated before the decision.
THEOREM ApprovalInTime == Spec => []InTime
<1>1. IInv => InTime
  <2> SUFFICES ASSUME IInv, NEW a \in ApprovalIds
               PROVE  LET r == approvals[a]
                      IN  /\ r.status \in {"APPROVED", "REJECTED", "USED"} =>
                                r.decidedAt # None /\ ~IsPast(a, r.decidedAt)
                          /\ r.status = "USED" =>
                                r.consumedAt # None /\ ~IsPast(a, r.consumedAt)
                                /\ r.decidedAt <= r.consumedAt
    BY DEF InTime
  <2> QED BY ApprovalConstants DEF IInv, RowSound
<1> QED BY <1>1, ApprovalsInvariant, PTL

\* verify, which writes by id alone, has only marked approvals that were used.
THEOREM ApprovalVerifiedWasUsed == Spec => []VerifiedWasUsed
<1>1. IInv => VerifiedWasUsed
  BY DEF IInv, RowSound, VerifiedWasUsed
<1> QED BY <1>1, ApprovalsInvariant, PTL

\* A row is written by a request that saw it, and from a status that is not final.
LEMMA FinalRowStays ==
    ASSUME IInv, Next, NEW a \in ApprovalIds, approvals[a].status \in Final
    PROVE  approvals'[a].status = approvals[a].status
<1>1. approvals \in [ApprovalIds -> Approval]
  BY DEF IInv, TypeOK
<1>2. CASE Create
  BY <1>1, <1>2 DEF Create, CreateApproval, Exists, Final
<1>3. CASE UNCHANGED approvals
  BY <1>3
<1>4. ASSUME NEW q \in Requests, Serve(q)
      PROVE  approvals'[a].status = approvals[a].status
  <2> DEFINE b == request[q].approval
  <2>1. CASE Expire(q)
    <3>1. request[q].pc # "idle" /\ approvals[b].status \in {"PENDING", "APPROVED"}
      BY <2>1, Served DEF Expire, RequestSound, SeenBefore
    <3> QED BY <1>1, <2>1, <3>1 DEF Expire, Final
  <2>2. CASE Decide(q)
    BY <1>1, <2>2 DEF Decide, Final
  <2>3. CASE Consume(q)
    BY <1>1, <2>3 DEF Consume, Final
  <2>4. CASE AttachVerification(q)
    <3>1. b \in ApprovalIds /\ RowMoves(b, approvals[b].status, approvals[b].decidedAt,
                                        approvals[b].consumedAt, TRUE)
      BY <2>4, Served, VerifyRow DEF AttachVerification
    <3> QED BY <3>1 DEF RowMoves
  <2>5. CASE Judge(q) \/ Conflict(q) \/ RecordVerification(q) \/ Fail(q)
    BY <2>5 DEF Judge, Conflict, RecordVerification, Fail
  <2> QED BY <1>4, <2>1, <2>2, <2>3, <2>4, <2>5 DEF Serve
<1>5. ASSUME NEW q \in Requests, Ask(q)
      PROVE  UNCHANGED approvals
  BY <1>5 DEF Ask, Find
<1> QED BY <1>2, <1>3, <1>4, <1>5 DEF Next, Tick

\* A rejected, expired or used approval stays what it is, whatever an older read of
\* another request says.
THEOREM ApprovalFinalStays == Spec => FinalStays
<1>1. IInv /\ [Next]_vars => [\A a \in ApprovalIds : approvals[a].status \in Final =>
                                 approvals'[a].status = approvals[a].status]_vars
  BY FinalRowStays
<1> QED BY <1>1, ApprovalsInvariant, PTL DEF Spec, FinalStays
-----------------------------------------------------------------------------
(* The audit trail.                                                           *)

\* The trail of an approval, status by status.
Story(a) ==
    LET status == approvals[a].status
        t == trail[a]
    IN  /\ status = "PENDING" => t = <<"REQUESTED">>
        /\ status = "APPROVED" => t = <<"REQUESTED", "APPROVED">>
        /\ status = "REJECTED" => t = <<"REQUESTED", "REJECTED">>
        /\ status = "EXPIRED" => \/ t = <<"REQUESTED", "EXPIRED">>
                                 \/ t = <<"REQUESTED", "APPROVED", "EXPIRED">>
        /\ status = "USED" =>
              /\ Len(t) >= 3
              /\ t[1] = "REQUESTED" /\ t[2] = "APPROVED" /\ t[3] = "USED"
              /\ \A i \in 4..Len(t) : t[i] = "POST_ACTION_VERIFIED"

\* A verification that has still to be recorded is one of a use.
AuditsAUse ==
    \A q \in Requests :
        request[q].pc = "audit" => approvals[request[q].approval].status = "USED"

StoryInv == IInv /\ AuditsAUse /\ \A a \in ApprovalIds : Story(a)

\* What stands on the trail once an event is appended.
LEMMA Appended ==
    ASSUME NEW t \in Seq(AuditEvents), NEW e \in AuditEvents
    PROVE  /\ Len(Append(t, e)) = Len(t) + 1
           /\ \A i \in 1..Len(t) : Append(t, e)[i] = t[i]
           /\ Append(t, e)[Len(t) + 1] = e
           /\ t = <<"REQUESTED">> => Append(t, e) = <<"REQUESTED", e>>
           /\ t = <<"REQUESTED", "APPROVED">> =>
                 Append(t, e) = <<"REQUESTED", "APPROVED", e>>
<1>1. /\ Len(Append(t, e)) = Len(t) + 1
      /\ \A i \in 1..Len(t) : Append(t, e)[i] = t[i]
      /\ Append(t, e)[Len(t) + 1] = e
  OBVIOUS
<1>2. ASSUME t = <<"REQUESTED">>
      PROVE  Append(t, e) = <<"REQUESTED", e>>
  <2> DEFINE u == Append(t, e)
  <2>1. u \in Seq(AuditEvents) /\ Len(u) = 2 /\ u[1] = "REQUESTED" /\ u[2] = e
    BY <1>1, <1>2
  <2> HIDE DEF u
  <2>2. u = <<"REQUESTED", e>>
    BY <2>1
  <2> QED BY <2>2 DEF u
<1>3. ASSUME t = <<"REQUESTED", "APPROVED">>
      PROVE  Append(t, e) = <<"REQUESTED", "APPROVED", e>>
  <2> DEFINE u == Append(t, e)
  <2>1. /\ u \in Seq(AuditEvents) /\ Len(u) = 3
        /\ u[1] = "REQUESTED" /\ u[2] = "APPROVED" /\ u[3] = e
    BY <1>1, <1>3
  <2> HIDE DEF u
  <2>2. u = <<"REQUESTED", "APPROVED", e>>
    BY <2>1
  <2> QED BY <2>2 DEF u
<1> QED BY <1>1, <1>2, <1>3

\* Recording leaves the other trails alone.
LEMMA Recorded ==
    ASSUME IInv, NEW a \in ApprovalIds, NEW e, Record(a, e)
    PROVE  /\ trail'[a] = Append(trail[a], e)
           /\ \A b \in ApprovalIds : b # a => trail'[b] = trail[b]
           /\ trail[a] \in Seq(AuditEvents)
BY DEF Record, IInv, TypeOK

\* Only verify comes to the audit event it writes last.
LEMMA AuditComesFromVerify ==
    ASSUME IInv, NEW q \in Requests, Next, request'[q].pc = "audit"
    PROVE  /\ request'[q].approval = request[q].approval
           /\ request[q].pc = "audit" \/ AttachVerification(q)
<1>1. request \in [Requests -> Request]
  BY DEF IInv, TypeOK
<1>2. CASE request' = request
  BY <1>2
<1>3. ASSUME NEW p \in Requests, Ask(p)
      PROVE  request'[q] = request[q]
  BY <1>1, <1>3, ZenonT(60) DEF Ask, Find, NewRequest
<1>4. ASSUME NEW p \in Requests, Serve(p)
      PROVE  \/ request'[q] = request[q]
             \/ p = q /\ AttachVerification(q) /\ request'[q].approval = request[q].approval
  <2>1. CASE AttachVerification(p)
    <3>1. RequestMoves(p, "audit", request[p].at, request[p].outcome)
      BY <1>1, <2>1, VerifyGoesOn DEF AttachVerification
    <3> QED BY <2>1, <3>1 DEF RequestMoves
  <2>2. ASSUME NEW outcome, Answer(p, outcome)
        PROVE  request'[q] = request[q]
    BY <1>1, <2>2 DEF Answer
  <2>3. CASE Judge(p)
    <3>1. \/ Answer(p, "REFUSED") \/ Answer(p, "EXPIRED")
          \/ request' = [request EXCEPT ![p].pc = "expire", ![p].at = clock]
          \/ request' = [request EXCEPT ![p].pc = "write", ![p].at = clock]
      BY <2>3 DEF Judge
    <3>2. ASSUME NEW pc \in {"expire", "write"},
                 request' = [request EXCEPT ![p].pc = pc, ![p].at = clock]
          PROVE  request'[q] = request[q]
      <4>1. RequestMoves(p, pc, clock, request[p].outcome)
        BY <1>1, <3>2, GoesOn DEF IInv, TypeOK
      <4> QED BY <4>1 DEF RequestMoves
    <3> QED BY <2>2, <3>1, <3>2
  <2>4. CASE Expire(p) \/ Decide(p) \/ Consume(p) \/ Conflict(p) \/ RecordVerification(p)
             \/ Fail(p)
    BY <2>2, <2>4 DEF Expire, Decide, Consume, Conflict, RecordVerification, Fail
  <2> QED BY <1>4, <2>1, <2>3, <2>4 DEF Serve
<1> QED BY <1>2, <1>3, <1>4 DEF Next, Create, CreateApproval, Tick

LEMMA AuditsAUseKept ==
    ASSUME IInv, AuditsAUse, Next
    PROVE  AuditsAUse'
<1> SUFFICES ASSUME NEW q \in Requests, request'[q].pc = "audit"
             PROVE  approvals'[request'[q].approval].status = "USED"
  BY DEF AuditsAUse
<1>1. /\ request'[q].approval = request[q].approval
      /\ request[q].pc = "audit" \/ AttachVerification(q)
  BY AuditComesFromVerify
<1>2. /\ request[q].approval \in ApprovalIds
      /\ approvals[request[q].approval].status = "USED"
  BY <1>1, Served DEF AttachVerification, RequestSound, WriterChecked, AuditsAUse
<1> QED BY <1>1, <1>2, FinalRowStays DEF Final

\* The row that a request writes, the event that it records, and no other.
LEMMA StoryGoesOn ==
    ASSUME IInv, \A b \in ApprovalIds : Story(b), NEW a \in ApprovalIds,
           NEW event \in AuditEvents, Record(a, event),
           \A b \in ApprovalIds : b # a => approvals'[b].status = approvals[b].status,
           \/ /\ approvals[a].status \in {"PENDING", "APPROVED"}
              /\ event = "EXPIRED" /\ approvals'[a].status = "EXPIRED"
           \/ /\ approvals[a].status = "PENDING" /\ event \in Decisions
              /\ approvals'[a].status = event
           \/ /\ approvals[a].status = "APPROVED" /\ event = "USED"
              /\ approvals'[a].status = "USED"
           \/ /\ approvals[a].status = "USED" /\ event = "POST_ACTION_VERIFIED"
              /\ approvals'[a].status = "USED"
    PROVE  \A b \in ApprovalIds : Story(b)'
<1> DEFINE t == trail[a]
<1>1. /\ trail'[a] = Append(t, event) /\ t \in Seq(AuditEvents)
      /\ \A b \in ApprovalIds : b # a => trail'[b] = trail[b]
  BY Recorded
<1>2. Story(a)
  OBVIOUS
<1>3. Story(a)'
  <2>1. CASE approvals[a].status = "PENDING"
    <3>1. trail'[a] = <<"REQUESTED", event>> /\ approvals'[a].status = event
      BY <1>1, <1>2, <2>1, Appended DEF Story
    <3>2. event \in {"EXPIRED", "APPROVED", "REJECTED"}
      BY <2>1 DEF Decisions
    <3> QED BY <3>1, <3>2 DEF Story
  <2>2. CASE approvals[a].status = "APPROVED"
    <3>1. trail'[a] = <<"REQUESTED", "APPROVED", event>> /\ approvals'[a].status = event
          /\ event \in {"EXPIRED", "USED"}
      BY <1>1, <1>2, <2>2, Appended DEF Story
    <3> QED BY <3>1 DEF Story
  <2>3. CASE approvals[a].status = "USED"
    <3>1. event = "POST_ACTION_VERIFIED" /\ approvals'[a].status = "USED"
      BY <2>3
    <3>2. /\ Len(trail'[a]) = Len(t) + 1 /\ Len(t) \in Nat
          /\ \A i \in 1..Len(t) : trail'[a][i] = t[i]
          /\ trail'[a][Len(t) + 1] = "POST_ACTION_VERIFIED"
      BY <1>1, <3>1, Appended
    <3>3. /\ Len(t) >= 3
          /\ t[1] = "REQUESTED" /\ t[2] = "APPROVED" /\ t[3] = "USED"
          /\ \A i \in 4..Len(t) : t[i] = "POST_ACTION_VERIFIED"
      BY <1>2, <2>3 DEF Story
    <3> HIDE DEF t
    <3>4. /\ Len(trail'[a]) >= 3
          /\ trail'[a][1] = "REQUESTED" /\ trail'[a][2] = "APPROVED" /\ trail'[a][3] = "USED"
          /\ \A i \in 4..Len(trail'[a]) : trail'[a][i] = "POST_ACTION_VERIFIED"
      BY <3>2, <3>3, SMTT(40)
    <3> QED BY <3>1, <3>4 DEF Story
  <2> QED BY <2>1, <2>2, <2>3
<1>4. ASSUME NEW b \in ApprovalIds, b # a
      PROVE  Story(b)'
  BY <1>1, <1>4 DEF Story
<1> QED BY <1>3, <1>4

LEMMA StoryKept ==
    ASSUME StoryInv, Next
    PROVE  \A b \in ApprovalIds : Story(b)'
<1>1. approvals \in [ApprovalIds -> Approval] /\ trail \in [ApprovalIds -> Seq(AuditEvents)]
      /\ IInv /\ \A b \in ApprovalIds : Story(b)
  BY DEF StoryInv, IInv, TypeOK
<1>2. CASE Create
  <2>1. PICK a \in ApprovalIds, g \in GateKinds, s \in Scopes, x \in 0..MaxTime \cup {None} :
            CreateApproval(a, g, s, x)
    BY <1>2 DEF Create
  <2>2. /\ approvals'[a].status = "PENDING" /\ trail'[a] = <<"REQUESTED">>
        /\ \A b \in ApprovalIds :
              b # a => approvals'[b] = approvals[b] /\ trail'[b] = trail[b]
    BY <1>1, <2>1 DEF CreateApproval, Absent
  <2> QED BY <1>1, <2>2 DEF Story
<1>3. CASE UNCHANGED <<approvals, trail>>
  BY <1>1, <1>3 DEF Story
<1>4. ASSUME NEW q \in Requests, Serve(q)
      PROVE  \A b \in ApprovalIds : Story(b)'
  <2> DEFINE a == request[q].approval
  <2>1. CASE Expire(q)
    <3>1. /\ request[q].pc = "expire" /\ approvals[a].status = request[q].seen
          /\ approvals' = [approvals EXCEPT ![a].status = "EXPIRED"] /\ Record(a, "EXPIRED")
      BY <2>1 DEF Expire
    <3>2. a \in ApprovalIds /\ approvals[a].status \in {"PENDING", "APPROVED"}
      BY <1>1, <3>1, Served DEF RequestSound, SeenBefore
    <3>3. /\ approvals'[a].status = "EXPIRED"
          /\ \A b \in ApprovalIds : b # a => approvals'[b].status = approvals[b].status
      BY <1>1, <3>1, <3>2, ExpireRow DEF RowMoves
    <3>4. "EXPIRED" \in AuditEvents
      BY DEF AuditEvents, Statuses
    <3> QED BY <1>1, <3>1, <3>2, <3>3, <3>4, StoryGoesOn
  <2>2. CASE Decide(q)
    <3>1. /\ request[q].pc = "write" /\ request[q].op \in Decisions
          /\ approvals[a].status = "PENDING" /\ Record(a, request[q].op)
          /\ approvals' = [approvals EXCEPT ![a].status = request[q].op,
                                            ![a].decidedAt = request[q].at]
      BY <2>2 DEF Decide
    <3>2. a \in ApprovalIds /\ request[q].at \in Nat
      BY <1>1, <3>1, Served
    <3>3. /\ approvals'[a].status = request[q].op
          /\ \A b \in ApprovalIds : b # a => approvals'[b].status = approvals[b].status
      BY <1>1, <3>1, <3>2, DecideRow DEF RowMoves
    <3>4. request[q].op \in AuditEvents
      BY <3>1 DEF AuditEvents, Statuses, Decisions
    <3> QED BY <1>1, <3>1, <3>2, <3>3, <3>4, StoryGoesOn
  <2>3. CASE Consume(q)
    <3>1. /\ request[q].pc = "write"
          /\ approvals[a].status = "APPROVED" /\ Record(a, "USED")
          /\ approvals' = [approvals EXCEPT ![a].status = "USED",
                                            ![a].consumedAt = request[q].at]
      BY <2>3 DEF Consume
    <3>2. a \in ApprovalIds /\ request[q].at \in Nat
      BY <1>1, <3>1, Served
    <3>3. /\ approvals'[a].status = "USED"
          /\ \A b \in ApprovalIds : b # a => approvals'[b].status = approvals[b].status
      BY <1>1, <3>1, <3>2, ConsumeRow DEF RowMoves
    <3>4. "USED" \in AuditEvents
      BY DEF AuditEvents, Statuses
    <3> QED BY <1>1, <3>1, <3>2, <3>3, <3>4, StoryGoesOn
  <2>4. CASE AttachVerification(q)
    <3>1. a \in ApprovalIds /\ RowMoves(a, approvals[a].status, approvals[a].decidedAt,
                                        approvals[a].consumedAt, TRUE)
      BY <1>1, <2>4, Served, VerifyRow DEF AttachVerification
    <3>2. \A b \in ApprovalIds : approvals'[b].status = approvals[b].status
      BY <3>1 DEF RowMoves
    <3>3. trail' = trail
      BY <2>4 DEF AttachVerification
    <3> QED BY <1>1, <3>2, <3>3 DEF Story
  <2>5. CASE RecordVerification(q)
    <3>1. /\ request[q].pc = "audit" /\ Record(a, "POST_ACTION_VERIFIED")
          /\ approvals' = approvals
      BY <2>5 DEF RecordVerification
    <3>2. a \in ApprovalIds /\ approvals[a].status = "USED"
      BY <1>1, <3>1, Served DEF StoryInv, AuditsAUse
    <3>3. "POST_ACTION_VERIFIED" \in AuditEvents
      BY DEF AuditEvents
    <3> QED BY <1>1, <3>1, <3>2, <3>3, StoryGoesOn
  <2>6. CASE Judge(q) \/ Conflict(q) \/ Fail(q)
    BY <1>3, <2>6 DEF Judge, Conflict, Fail
  <2> QED BY <1>4, <2>1, <2>2, <2>3, <2>4, <2>5, <2>6 DEF Serve
<1>5. ASSUME NEW q \in Requests, Ask(q)
      PROVE  UNCHANGED <<approvals, trail>>
  BY <1>5 DEF Ask, Find
<1> QED BY <1>2, <1>3, <1>4, <1>5, Zenon DEF StoryInv, Next, Tick

\* The trail of an approval is one of the histories of its status: no decision, use
\* or expiry is recorded twice, out of order or for a write that lost its race, and
\* verify records nothing but verifications of a use.
THEOREM ApprovalTrailTellsTheStory == Spec => []TrailTellsTheStory
<1>1. Init => StoryInv
  <2> SUFFICES ASSUME Init PROVE StoryInv
    OBVIOUS
  <2>1. \A q \in Requests : request[q].pc = "idle"
    BY DEF Init, NewRequest
  <2>2. \A a \in ApprovalIds : approvals[a].status = "ABSENT"
    BY DEF Init, Absent
  <2> QED BY <2>1, <2>2, InitHolds DEF StoryInv, AuditsAUse, Story
<1>2. StoryInv /\ [Next]_vars => StoryInv'
  <2> SUFFICES ASSUME StoryInv, [Next]_vars PROVE StoryInv'
    OBVIOUS
  <2>1. IInv'
    BY NextKeeps DEF StoryInv
  <2>2. CASE UNCHANGED vars
    BY <2>1, <2>2 DEF vars, StoryInv, AuditsAUse, Story
  <2>3. CASE Next
    BY <2>1, <2>3, StoryKept, AuditsAUseKept DEF StoryInv
  <2> QED BY <2>2, <2>3
<1>3. StoryInv => TrailTellsTheStory
  <2> SUFFICES ASSUME StoryInv, NEW a \in ApprovalIds, Exists(a)
               PROVE  \E h \in Histories[approvals[a].status] :
                         /\ Len(trail[a]) >= Len(h)
                         /\ \A i \in 1..Len(trail[a]) :
                               trail[a][i] = IF i <= Len(h) THEN h[i]
                                             ELSE "POST_ACTION_VERIFIED"
                         /\ Len(trail[a]) > Len(h) => approvals[a].status = "USED"
    BY DEF TrailTellsTheStory
  <2>1. /\ Story(a) /\ trail[a] \in Seq(AuditEvents) /\ Len(trail[a]) \in Nat
        /\ approvals[a].status \in Statuses
    BY DEF StoryInv, IInv, TypeOK, Approval, Exists
  <2>2. ASSUME trail[a] \in Histories[approvals[a].status]
        PROVE  \E h \in Histories[approvals[a].status] :
                         /\ Len(trail[a]) >= Len(h)
                         /\ \A i \in 1..Len(trail[a]) :
                               trail[a][i] = IF i <= Len(h) THEN h[i]
                                             ELSE "POST_ACTION_VERIFIED"
                         /\ Len(trail[a]) > Len(h) => approvals[a].status = "USED"
    <3>1. WITNESS trail[a] \in Histories[approvals[a].status]
    <3> QED BY <2>1
  <2>3. CASE approvals[a].status = "USED"
    <3> DEFINE h == <<"REQUESTED", "APPROVED", "USED">>
    <3>1. h \in Histories[approvals[a].status]
      BY <2>3 DEF Histories, Statuses
    <3>2. Len(h) = 3 /\ h[1] = "REQUESTED" /\ h[2] = "APPROVED" /\ h[3] = "USED"
      OBVIOUS
    <3>3. /\ Len(trail[a]) >= 3
          /\ trail[a][1] = "REQUESTED" /\ trail[a][2] = "APPROVED" /\ trail[a][3] = "USED"
          /\ \A i \in 4..Len(trail[a]) : trail[a][i] = "POST_ACTION_VERIFIED"
      BY <2>1, <2>3 DEF Story
    <3> HIDE DEF h
    <3>4. \A i \in 1..Len(trail[a]) :
              trail[a][i] = IF i <= Len(h) THEN h[i] ELSE "POST_ACTION_VERIFIED"
      <4> SUFFICES ASSUME NEW i \in 1..Len(trail[a])
                   PROVE  trail[a][i] = IF i <= 3 THEN h[i] ELSE "POST_ACTION_VERIFIED"
        BY <3>2
      <4>1. i = 1 \/ i = 2 \/ i = 3 \/ i \in 4..Len(trail[a])
        BY <2>1
      <4> QED BY <3>2, <3>3, <4>1
    <3> QED BY <2>3, <3>1, <3>2, <3>3, <3>4
  <2>4. CASE approvals[a].status # "USED"
    <3>1. trail[a] \in Histories[approvals[a].status]
      BY <2>1, <2>4 DEF Story, Histories, Statuses
    <3> QED BY <2>2, <3>1
  <2> QED BY <2>3, <2>4
<1> QED BY <1>1, <1>2, <1>3, PTL DEF Spec
=============================================================================
