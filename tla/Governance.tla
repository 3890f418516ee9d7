----------------------------- MODULE Governance -----------------------------
(* Pre-execution governance for one task: the OwnerEventProcessor, which     *)
(* holds the gate, the approved file scope and the owner's grants; the       *)
(* ActionClassifyingPolicyEngine, which decides about a proposed action; and *)
(* the GovernedToolGateway, which records it, reserves the grant, runs the   *)
(* tool and settles the grant (packages/policy, packages/tools).             *)
(*                                                                           *)
(* Gateway calls run concurrently on one event loop. A call gives it up when *)
(* it records the proposal, while the tool runs, and when it records the     *)
(* result: in between the owner may move the gate, replace the scope, grant  *)
(* and revoke, and other calls reserve and settle grants. Each call is an    *)
(* action of its own (a fresh actionId) and is made once.                    *)
EXTENDS Integers, Sequences, FiniteSetsExt

CONSTANTS
    Calls,        \* gateway calls, named by their actionId
    NoCall,       \* reservedForActionId is undefined
    Requests,     \* proposed actions, classified: [classes, files, barred]
    Offers,       \* authority events the owner may issue: [token, gate, action]
    Scopes,       \* file scopes the owner may approve
    InitialGate,  \* options.initialGate
    MaxGrants     \* bound: how many authority events are applied

Gates == {"AUDIT", "PLAN", "OWNER_PLAN_REVIEW", "IMPLEMENTATION", "TEST",
          "OWNER_PRECOMMIT", "COMMIT", "PUSH", "DEPLOY", "PRODUCTION_VALIDATION",
          "PRODUCTION_VALIDATION_READ_ONLY", "OWNER_FINAL_CLOSURE"}

MutationClasses ==
    {"READ_ONLY", "LOCAL_MUTATION", "SOURCE_MUTATION", "GIT_STAGE", "GIT_COMMIT",
     "GIT_PUSH", "GIT_DESTRUCTIVE", "DEPLOYMENT", "PRODUCTION_READ",
     "PRODUCTION_MUTATION", "DATABASE_READ", "DATABASE_MUTATION", "SCHEMA_MUTATION",
     "SCHEMA_SOURCE_MUTATION", "SECRET_READ", "SECRET_OUTPUT", "CREDENTIAL_USE",
     "AUTH_SESSION_CREATION", "DESTRUCTIVE", "UNKNOWN"}

Tokens == {"OWNER_PLAN_APPROVED", "OWNER_IMPLEMENTATION_APPROVED",
           "OWNER_COMMIT_APPROVED", "OWNER_PUSH_APPROVED", "OWNER_DEPLOY_APPROVED",
           "OWNER_PRODUCTION_MUTATION_APPROVED", "OWNER_SCHEMA_CHANGE_APPROVED"}

\* "ANY": the event is not bound to a gate or to an action.
ASSUME GovernanceConstants ==
    /\ NoCall \notin Calls
    /\ \A r \in Requests : r.classes \subseteq MutationClasses /\ r.barred \in BOOLEAN
    /\ Offers \subseteq [token : Tokens, gate : Gates \cup {"ANY"},
                         action : MutationClasses \cup {"ANY"}]
    /\ InitialGate \in Gates
    /\ MaxGrants \in Nat

VARIABLES
    gate,     \* _gate
    scope,    \* _approvedFileScope
    grants,   \* _grants, in the order of insertion: a grant's id is its index
    call      \* where each gateway call is

vars == <<gate, scope, grants, call>>

\* revoked: the audit log has AUTHORITY_REVOKED for this grant.
Grant == [token : Tokens, gate : Gates \cup {"ANY"}, action : MutationClasses \cup {"ANY"},
          status : {"ACTIVE", "RESERVED", "CONSUMED", "RECONCILIATION_REQUIRED"},
          reservedFor : Calls \cup {NoCall}, revoked : BOOLEAN]

\* grant is the index of the grant that the decision named, 0 for none. result
\* is "NONE" until the tool has answered; "REFUSED" says that it never ran.
Call == [pc : {"new", "proposed", "executing", "recording", "done"},
         classes : SUBSET MutationClasses, grant : Nat,
         result : {"NONE", "REFUSED", "SUCCEEDED", "CANCELLED", "AMBIGUOUS",
                   "MALFORMED"}]

NewCall == [pc |-> "new", classes |-> {}, grant |-> 0, result |-> "NONE"]

\* Grants and calls keep their shape; a call names a grant that exists.
TypeOK ==
    /\ gate \in Gates
    /\ grants \in Seq(Grant)
    /\ call \in [Calls -> Call]
    /\ \A c \in Calls : call[c].grant \in 0..Len(grants)

Init ==
    /\ gate = InitialGate
    /\ scope = {}
    /\ grants = <<>>
    /\ call = [c \in Calls |-> NewCall]

GrantsWith(token, statuses) ==
    {g \in DOMAIN grants : grants[g].token = token /\ grants[g].status \in statuses}
-----------------------------------------------------------------------------
(* The owner, through the OwnerEventProcessor.                               *)
\* applyOwnerAuthorityEvent for an event of the task's own issuer. The
\* composition root applies every event that it has issued once.
ApplyOwnerAuthorityEvent(offer) ==
    /\ Len(grants) < MaxGrants
    /\ grants' = Append(grants, [token |-> offer.token, gate |-> offer.gate,
                                 action |-> offer.action, status |-> "ACTIVE",
                                 reservedFor |-> NoCall, revoked |-> FALSE])
    /\ UNCHANGED <<gate, scope, call>>

\* GATE_TRANSITION_POLICY: <<from, to, required token or "NONE">>.
GateTransitionPolicy ==
    {<<"AUDIT", "PLAN", "NONE">>,
     <<"PLAN", "OWNER_PLAN_REVIEW", "NONE">>,
     <<"OWNER_PLAN_REVIEW", "IMPLEMENTATION", "OWNER_IMPLEMENTATION_APPROVED">>,
     <<"IMPLEMENTATION", "TEST", "NONE">>,
     <<"TEST", "OWNER_PRECOMMIT", "NONE">>,
     <<"OWNER_PRECOMMIT", "COMMIT", "OWNER_COMMIT_APPROVED">>,
     <<"COMMIT", "PUSH", "OWNER_PUSH_APPROVED">>,
     <<"PUSH", "DEPLOY", "OWNER_DEPLOY_APPROVED">>,
     <<"DEPLOY", "PRODUCTION_VALIDATION", "NONE">>,
     <<"PRODUCTION_VALIDATION", "OWNER_FINAL_CLOSURE", "NONE">>,
     <<"PUSH", "PRODUCTION_VALIDATION_READ_ONLY", "NONE">>,
     <<"PRODUCTION_VALIDATION", "PRODUCTION_VALIDATION_READ_ONLY", "NONE">>,
     <<"PRODUCTION_VALIDATION_READ_ONLY", "OWNER_FINAL_CLOSURE", "NONE">>}

\* The required token must be ACTIVE; it is not consumed.
TransitionGateFromEvent ==
    /\ \E rule \in GateTransitionPolicy :
          /\ rule[1] = gate
          /\ rule[3] # "NONE" => GrantsWith(rule[3], {"ACTIVE"}) # {}
          /\ gate' = rule[2]
    /\ UNCHANGED <<scope, grants, call>>

SetApprovedScopeFromPlan(files) ==
    /\ scope' = files
    /\ UNCHANGED <<gate, grants, call>>

\* The first grant of that token that is ACTIVE or RESERVED is marked CONSUMED.
RevokeGrant(token) ==
    LET open == GrantsWith(token, {"ACTIVE", "RESERVED"})
    IN  /\ open # {}
        /\ grants' = [grants EXCEPT ![Min(open)].status = "CONSUMED",
                                    ![Min(open)].revoked = TRUE]
        /\ UNCHANGED <<gate, scope, call>>
-----------------------------------------------------------------------------
(* ActionClassifyingPolicyEngine.evaluate.                                   *)
\* GATE_POLICY: the classes that a gate allows. The lists of denied classes only
\* choose the rule that a denial names: no class is both allowed and denied.
Allowed ==
         Gates \X {"READ_ONLY"}
    \cup {"AUDIT", "PRODUCTION_VALIDATION", "PRODUCTION_VALIDATION_READ_ONLY"}
             \X {"PRODUCTION_READ"}
    \cup {"IMPLEMENTATION"} \X {"LOCAL_MUTATION", "SOURCE_MUTATION"}
    \cup {"TEST"}   \X {"LOCAL_MUTATION", "DATABASE_READ"}
    \cup {"COMMIT"} \X {"GIT_STAGE", "GIT_COMMIT"}
    \cup {"PUSH"}   \X {"GIT_PUSH"}
    \cup {"DEPLOY"} \X {"DEPLOYMENT"}

\* requiredTokens: each of these classes is allowed in one gate only.
TokenClasses == {"SOURCE_MUTATION", "GIT_STAGE", "GIT_COMMIT", "GIT_PUSH", "DEPLOYMENT"}

RequiredToken ==
    [cls \in TokenClasses |->
        IF cls = "SOURCE_MUTATION" THEN "OWNER_IMPLEMENTATION_APPROVED"
        ELSE IF cls = "GIT_PUSH" THEN "OWNER_PUSH_APPROVED"
        ELSE IF cls = "DEPLOYMENT" THEN "OWNER_DEPLOY_APPROVED"
        ELSE "OWNER_COMMIT_APPROVED"]

EnforcesFileScope == {"IMPLEMENTATION", "COMMIT"}

\* The classes whose authority is used up by the action.
ConsumingClasses == {"GIT_COMMIT", "GIT_PUSH", "DEPLOYMENT"}

\* The binding of a grant to a gate and an action: staging goes with the commit,
\* and only the implementation token may be unbound.
Covers(grant, cls) ==
    LET target   == IF cls = "GIT_STAGE" THEN "GIT_COMMIT" ELSE cls
        optional == IF cls = "SOURCE_MUTATION" THEN {"ANY"} ELSE {}
    IN  grant.gate \in {gate} \cup optional /\ grant.action \in {target} \cup optional

MatchingGrants(cls) ==
    {g \in GrantsWith(RequiredToken[cls], {"ACTIVE"}) : Covers(grants[g], cls)}

InFileScope(request) ==
    gate \in EnforcesFileScope =>
        /\ request.files \subseteq scope
        /\ request.classes \cap {"SOURCE_MUTATION", "GIT_STAGE"} # {} => request.files # {}

\* barred: one of the four guards objects (a secret in a file, in the output or
\* in the text, a credential script), or it is a blanket git add. UNKNOWN is
\* allowed in no gate: it asks for approval and does not run.
Allows(request) ==
    /\ ~request.barred
    /\ \A cls \in request.classes : <<gate, cls>> \in Allowed
    /\ \A cls \in request.classes \cap TokenClasses : MatchingGrants(cls) # {}
    /\ InFileScope(request)

\* grantedByAuthorityId: the first match for the class that consumes it (a gate
\* allows at most one such class).
GrantedBy(request) ==
    LET consuming == {g \in DOMAIN grants :
                        \E cls \in request.classes \cap ConsumingClasses :
                            g \in MatchingGrants(cls)}
    IN  IF consuming = {} THEN 0 ELSE Min(consuming)
-----------------------------------------------------------------------------
(* GovernedToolGateway.execute.                                              *)
\* The decision is made and the recording of the proposal begins. A denied
\* proposal is recorded too, and the call returns.
Propose(c, request) ==
    /\ call[c].pc = "new"
    /\ call' = [call EXCEPT ![c] =
          IF Allows(request)
          THEN [NewCall EXCEPT !.pc = "proposed", !.classes = request.classes,
                               !.grant = GrantedBy(request)]
          ELSE [NewCall EXCEPT !.pc = "done", !.classes = request.classes,
                               !.result = "REFUSED"]]
    /\ UNCHANGED <<gate, scope, grants>>

\* The audit of the proposal fails, the tool is not registered, or reserveGrant
\* finds the grant no longer ACTIVE: the call ends without running the tool.
Abandon(c) ==
    /\ call[c].pc = "proposed"
    /\ call' = [call EXCEPT ![c].pc = "done", ![c].result = "REFUSED"]
    /\ UNCHANGED <<gate, scope, grants>>

Reserve_Unchecked(c) ==
    LET g == call[c].grant
    IN  /\ call[c].pc = "proposed"
        /\ grants' = IF g = 0 THEN grants
                     ELSE [grants EXCEPT ![g].status = "RESERVED", ![g].reservedFor = c]
        /\ call' = [call EXCEPT ![c].pc = "executing"]
        /\ UNCHANGED <<gate, scope>>

\* The proposal is on record: the grant is reserved and the tool is started. The
\* decision itself is not made again.
Reserve(c) ==
    LET g == call[c].grant
    IN  /\ call[c].pc = "proposed"
        /\ g # 0 => grants[g].status = "ACTIVE"
        /\ grants' = IF g = 0 THEN grants
                     ELSE [grants EXCEPT ![g].status = "RESERVED", ![g].reservedFor = c]
        /\ call' = [call EXCEPT ![c].pc = "executing"]
        /\ UNCHANGED <<gate, scope>>

Answer(c, pc, result) == call' = [call EXCEPT ![c].pc = pc, ![c].result = result]

\* SUCCEEDED: consumeGrant insists on this action's reservation, and throws out
\* of the call, past the recording of the result, when it is gone.
ToolSucceeds(c) ==
    LET g == call[c].grant
        held == g = 0 \/ (grants[g].status = "RESERVED" /\ grants[g].reservedFor = c)
    IN  /\ call[c].pc = "executing"
        /\ grants' = IF g # 0 /\ held THEN [grants EXCEPT ![g].status = "CONSUMED"]
                     ELSE grants
        /\ Answer(c, IF held THEN "recording" ELSE "done", "SUCCEEDED")
        /\ UNCHANGED <<gate, scope>>

\* CANCELLED: proven not executed. releaseGrantForRetry looks at nothing.
ToolCancelled(c) ==
    LET g == call[c].grant
    IN  /\ call[c].pc = "executing"
        /\ grants' = IF g = 0 THEN grants
                     ELSE [grants EXCEPT ![g].status = "ACTIVE", ![g].reservedFor = NoCall]
        /\ Answer(c, "recording", "CANCELLED")
        /\ UNCHANGED <<gate, scope>>

RequireReconciliation_Releases(g) ==
    grants' = IF g = 0 THEN grants
              ELSE [grants EXCEPT ![g].status = "ACTIVE", ![g].reservedFor = NoCall]

RequireReconciliation(g) ==
    grants' = IF g = 0 THEN grants
              ELSE [grants EXCEPT ![g].status = "RECONCILIATION_REQUIRED"]

\* FAILED, TIMED_OUT, UNKNOWN and the rest are ambiguous; a tool that throws is
\* too, and its call ends without recording a result.
ToolAmbiguous(c) ==
    /\ call[c].pc = "executing"
    /\ RequireReconciliation(call[c].grant)
    /\ \E pc \in {"recording", "done"} : Answer(c, pc, "AMBIGUOUS")
    /\ UNCHANGED <<gate, scope>>

\* The result does not parse: the call throws and the grant is left as it is.
ToolMalformed(c) ==
    /\ call[c].pc = "executing"
    /\ Answer(c, "done", "MALFORMED")
    /\ UNCHANGED <<gate, scope, grants>>

Recorded(c) ==
    /\ call[c].pc = "recording"
    /\ call' = [call EXCEPT ![c].pc = "done"]
    /\ UNCHANGED <<gate, scope, grants>>

\* The result could not be recorded: requireReconciliation looks at nothing
\* either, not even at who holds the grant by now.
RecordFails(c) ==
    /\ call[c].pc = "recording"
    /\ RequireReconciliation(call[c].grant)
    /\ call' = [call EXCEPT ![c].pc = "done"]
    /\ UNCHANGED <<gate, scope>>
-----------------------------------------------------------------------------
Owner ==
    \/ \E offer \in Offers : ApplyOwnerAuthorityEvent(offer)
    \/ TransitionGateFromEvent
    \/ \E files \in Scopes : SetApprovedScopeFromPlan(files)
    \/ \E token \in Tokens : RevokeGrant(token)

Gateway(c) ==
    \/ \E request \in Requests : Propose(c, request)
    \/ Abandon(c) \/ Reserve(c)
    \/ ToolSucceeds(c) \/ ToolCancelled(c) \/ ToolAmbiguous(c) \/ ToolMalformed(c)
    \/ Recorded(c) \/ RecordFails(c)

Next == Owner \/ \E c \in Calls : Gateway(c)

Spec == Init /\ [][Next]_vars
-----------------------------------------------------------------------------
\* The tool is running for this action, or has run and was not proven idle.
MayHaveActed(c) ==
    call[c].pc = "executing" \/ call[c].result \in {"SUCCEEDED", "AMBIGUOUS", "MALFORMED"}

\* One owner approval is good for one commit, push or deployment, whatever fails,
\* is revoked or retried (types.ts: NO_SENSITIVE_ACTION_CAN_BE_DUPLICATED_DUE_TO_
\* AMBIGUOUS_FAILURE).
GrantUsedOnce ==
    \A c, d \in Calls :
        /\ MayHaveActed(c) /\ MayHaveActed(d)
        /\ call[c].grant = call[d].grant /\ call[c].grant # 0
        => c = d

\* Every commit, push or deployment that may have happened is backed by a grant
\* that the owner bound to exactly that action in the gate that allows it, and
\* the grant cannot be used again.
SensitiveActionsAreBacked ==
    \A c \in Calls, cls \in ConsumingClasses :
        /\ MayHaveActed(c) /\ cls \in call[c].classes
        => /\ call[c].grant # 0
           /\ grants[call[c].grant].token = RequiredToken[cls]
           /\ grants[call[c].grant].action = cls
           /\ <<grants[call[c].grant].gate, cls>> \in Allowed
           /\ grants[call[c].grant].status # "ACTIVE"

\* A reserved grant is held by the one action that uses it: it is still running,
\* or its result could not be read.
ReservationHasItsAction ==
    \A g \in DOMAIN grants :
        grants[g].status = "RESERVED" =>
            LET c == grants[g].reservedFor
            IN  /\ c \in Calls
                /\ call[c].grant = g
                /\ call[c].pc = "executing" \/ call[c].result = "MALFORMED"

\* A grant is spent only by a success or by the owner: no failure loses one.
SpentForAReason ==
    \A g \in DOMAIN grants :
        grants[g].status = "CONSUMED" =>
            \/ grants[g].revoked
            \/ \E c \in Calls : call[c].grant = g /\ call[c].result = "SUCCEEDED"
-----------------------------------------------------------------------------
\* The rest of the inductive invariant (see ToolCallProofs): no result before
\* the tool has answered; an ACTIVE grant is unused; and a call that got past the
\* policy engine with a consuming class holds a grant bound to that class.
ResultsFit ==
    \A c \in Calls : call[c].pc \in {"new", "proposed", "executing"} =>
        call[c].result = "NONE"

ActiveIsUnused ==
    \A c \in Calls : MayHaveActed(c) /\ call[c].grant # 0 =>
        grants[call[c].grant].status # "ACTIVE"

BoundToItsClass ==
    \A c \in Calls, cls \in ConsumingClasses :
        cls \in call[c].classes /\ call[c].result # "REFUSED" =>
            /\ call[c].grant # 0
            /\ grants[call[c].grant].token = RequiredToken[cls]
            /\ grants[call[c].grant].action = cls
            /\ <<grants[call[c].grant].gate, cls>> \in Allowed

Inv ==
    /\ TypeOK
    /\ ResultsFit
    /\ ActiveIsUnused
    /\ GrantUsedOnce
    /\ BoundToItsClass
    /\ ReservationHasItsAction
    /\ SpentForAReason
=============================================================================
