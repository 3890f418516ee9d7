--------------------------- MODULE ToolCallProofs ---------------------------
(* Proofs about a model's tool calls: which of them the gateway lets through *)
(* (Governance, ActionClassifier) and which of them a provider adapter hands *)
(* to the gateway (ProviderAdapter), for every set of calls, requests,       *)
(* offers and response contents and every number of attempts.                *)
(*                                                                           *)
(* Governance: one owner approval is good for one sensitive action. The      *)
(* inductive invariant Inv adds to GrantUsedOnce that an ACTIVE grant has no *)
(* user: only the action that holds a grant can release it, and a released   *)
(* action is proven not to have run.                                         *)
EXTENDS ActionClassifier, ProviderAdapter, WellFoundedInduction, TLAPS

(* A non-empty set of grant ids has a first one (evaluate and revokeGrant    *)
(* take the first match in insertion order).                                 *)
LEMMA MinIsMember ==
    ASSUME NEW S, S \subseteq Nat, S # {}
    PROVE  Min(S) \in S
<1> DEFINE Less == {ss \in Nat \X Nat : ss[1] < ss[2]}
<1>1. IsWellFoundedOn(Less, Nat)
  BY NatLessThanWellFounded, Zenon DEF OpToRel
<1> HIDE DEF Less
<1>2. PICK x \in S : \A y \in S : ~(<<y, x>> \in Less)
  BY <1>1, WFMin
<1>3. \A y \in Nat, z \in Nat : y < z => <<y, z>> \in Less
  BY DEF Less
<1>4. ASSUME NEW y \in S  PROVE x <= y
  <2>1. x \in Nat /\ y \in Nat
    OBVIOUS
  <2>2. ~(y < x)
    BY <1>2, <1>3, <2>1, Zenon
  <2> QED BY <2>1, <2>2
<1> QED BY <1>4 DEF Min

(* Consuming classes are mutually exclusive: no gate allows two of them.     *)
LEMMA OneConsumingClass ==
    ASSUME NEW g \in Gates, NEW k \in ConsumingClasses, NEW l \in ConsumingClasses,
           <<g, k>> \in Allowed, <<g, l>> \in Allowed
    PROVE  k = l
BY DEF Gates, ConsumingClasses, Allowed

Statuses == {"ACTIVE", "RESERVED", "CONSUMED", "RECONCILIATION_REQUIRED"}

(* What the grant consumer methods do to the map of grants: one grant has a  *)
(* new record, the rest stays.                                               *)
GrantMoved(g, record) ==
    /\ grants' \in Seq(Grant)
    /\ Len(grants') = Len(grants)
    /\ grants'[g] = record
    /\ \A h \in 1..Len(grants) : h # g => grants'[h] = grants[h]

(* A change of one entry of the map keeps its type and the other entries.    *)
LEMMA OneGrantMoves ==
    ASSUME grants \in Seq(Grant), NEW g \in 1..Len(grants), NEW record \in Grant,
           grants' = [grants EXCEPT ![g] = record]
    PROVE  GrantMoved(g, record)
<1>1. grants' \in Seq(Grant) /\ Len(grants') = Len(grants)
  OBVIOUS
<1>2. DOMAIN grants = 1..Len(grants)
  OBVIOUS
<1>3. grants'[g] = record /\ \A h \in 1..Len(grants) : h # g => grants'[h] = grants[h]
  BY <1>2, Zenon
<1> QED BY <1>1, <1>3 DEF GrantMoved

(* The three forms in which the code writes it.                              *)
LEMMA StatusMoves ==
    ASSUME grants \in Seq(Grant), NEW g \in 1..Len(grants), NEW new \in Statuses,
           grants' = [grants EXCEPT ![g].status = new]
    PROVE  GrantMoved(g, [grants[g] EXCEPT !.status = new])
<1>0. grants[g] \in Grant
  OBVIOUS
<1>1. [grants[g] EXCEPT !.status = new] \in Grant
  BY <1>0 DEF Grant, Statuses
<1> QED BY <1>1, OneGrantMoves, Zenon

\* The same, when reserveGrant also names the action that holds the grant.
LEMMA HolderMoves ==
    ASSUME grants \in Seq(Grant), NEW g \in 1..Len(grants), NEW new \in Statuses,
           NEW holder \in Calls \cup {NoCall},
           grants' = [grants EXCEPT ![g].status = new, ![g].reservedFor = holder]
    PROVE  GrantMoved(g, [grants[g] EXCEPT !.status = new, !.reservedFor = holder])
<1>0. grants[g] \in Grant
  OBVIOUS
<1>1. [grants[g] EXCEPT !.status = new, !.reservedFor = holder] \in Grant
  BY <1>0 DEF Grant, Statuses
<1>2. grants' = [grants EXCEPT ![g] = [grants[g] EXCEPT !.status = new,
                                                        !.reservedFor = holder]]
  OBVIOUS
<1> QED BY <1>1, <1>2, OneGrantMoves, Zenon

\* The same, when revokeGrant also marks the grant as revoked.
LEMMA RevokedMoves ==
    ASSUME grants \in Seq(Grant), NEW g \in 1..Len(grants), NEW new \in Statuses,
           grants' = [grants EXCEPT ![g].status = new, ![g].revoked = TRUE]
    PROVE  GrantMoved(g, [grants[g] EXCEPT !.status = new, !.revoked = TRUE])
<1>0. grants[g] \in Grant
  OBVIOUS
<1>1. [grants[g] EXCEPT !.status = new, !.revoked = TRUE] \in Grant
  BY <1>0 DEF Grant, Statuses
<1>2. grants' = [grants EXCEPT ![g] = [grants[g] EXCEPT !.status = new,
                                                        !.revoked = TRUE]]
  OBVIOUS
<1> QED BY <1>1, <1>2, OneGrantMoves, Zenon
-----------------------------------------------------------------------------
(* What every step of a gateway call does after the decision. The call keeps *)
(* its grant and goes on with a result that fits; its grant alone may change *)
(* and keeps its binding.                                                    *)
OnlyThisCall(c) ==
    /\ gate' \in Gates
    /\ call' \in [Calls -> Call]
    /\ \A d \in Calls : d # c => call'[d] = call[d]
    /\ call'[c].grant = call[c].grant
    /\ call'[c].classes = call[c].classes
    /\ call'[c].pc = "executing" => call'[c].result = "NONE"
    /\ call'[c].pc \notin {"new", "proposed"}
    /\ call'[c].result # "REFUSED" => call[c].result # "REFUSED"
    /\ call[c].result = "SUCCEEDED" => call'[c].result = "SUCCEEDED"

OnlyItsGrant(c) ==
    /\ grants' \in Seq(Grant)
    /\ Len(grants') = Len(grants)
    /\ \A h \in 1..Len(grants) :
          /\ grants'[h].token = grants[h].token
          /\ grants'[h].gate = grants[h].gate
          /\ grants'[h].action = grants[h].action
          /\ grants'[h].revoked = grants[h].revoked
          /\ h # call[c].grant => grants'[h] = grants[h]

(* And the grant follows the action: it is not ACTIVE while the action may   *)
(* have run, becomes ACTIVE only when the action turns out not to have run,  *)
(* is RESERVED only for an action that is running or unreadable, and spent   *)
(* only by a success.                                                        *)
GrantFollows(c) ==
    LET g == call[c].grant
    IN  g # 0 =>
        /\ MayHaveActed(c)' => /\ grants'[g].status # "ACTIVE"
                               /\ MayHaveActed(c) \/ grants[g].status = "ACTIVE"
        /\ grants'[g].status = "ACTIVE" =>
              grants[g].status = "ACTIVE" \/ (MayHaveActed(c) /\ ~MayHaveActed(c)')
        /\ grants'[g].status = "RESERVED" =>
              \/ /\ grants'[g].reservedFor = c
                 /\ call'[c].pc = "executing" \/ call'[c].result = "MALFORMED"
              \/ grants[g].status = "RESERVED" /\ grants[g].reservedFor # c /\ grants'[g] = grants[g]
        /\ grants'[g].status = "CONSUMED" =>
              grants[g].status = "CONSUMED" \/ call'[c].result = "SUCCEEDED"

(* Those three facts are all that the invariant needs of a call's step.      *)
LEMMA CallKeepsInv ==
    ASSUME Inv, NEW c \in Calls, OnlyThisCall(c), OnlyItsGrant(c), GrantFollows(c)
    PROVE  Inv'
<1> DEFINE g == call[c].grant
<1>0. /\ grants \in Seq(Grant) /\ DOMAIN grants = 1..Len(grants)
      /\ DOMAIN grants' = 1..Len(grants) /\ Len(grants) \in Nat
      /\ \A d \in Calls : call[d].grant \in 0..Len(grants)
  BY DEF Inv, TypeOK, OnlyItsGrant
<1>1. TypeOK'
  BY <1>0 DEF Inv, TypeOK, OnlyThisCall, OnlyItsGrant
<1>2. ResultsFit'
  BY DEF Inv, ResultsFit, OnlyThisCall
<1>3. \A d \in Calls : d # c => (MayHaveActed(d)' <=> MayHaveActed(d))
  BY DEF OnlyThisCall, MayHaveActed
<1>4. ActiveIsUnused'
  <2> SUFFICES ASSUME NEW d \in Calls, MayHaveActed(d)', call'[d].grant # 0
               PROVE  grants'[call'[d].grant].status # "ACTIVE"
    BY DEF ActiveIsUnused
  <2>1. CASE d = c
    BY <2>1 DEF OnlyThisCall, GrantFollows
  <2>2. CASE d # c
    <3>1. call'[d] = call[d] /\ MayHaveActed(d) /\ call[d].grant # 0
      BY <2>2, <1>3 DEF OnlyThisCall
    <3>2. grants[call[d].grant].status # "ACTIVE"
      BY <3>1 DEF Inv, ActiveIsUnused
    <3>3. CASE call[d].grant = g
      <4>1. ~MayHaveActed(c)
        BY <2>2, <3>1, <3>3 DEF Inv, GrantUsedOnce
      <4> QED BY <3>1, <3>2, <3>3, <4>1 DEF GrantFollows
    <3>4. CASE call[d].grant # g
      BY <3>1, <3>2, <3>4, <1>0 DEF OnlyItsGrant
    <3> QED BY <3>3, <3>4
  <2> QED BY <2>1, <2>2
<1>5. GrantUsedOnce'
  <2>1. ASSUME NEW d \in Calls, d # c, MayHaveActed(d), MayHaveActed(c)',
               call[d].grant = g, g # 0
        PROVE  FALSE
    <3>1. ~MayHaveActed(c)
      BY <2>1 DEF Inv, GrantUsedOnce
    <3>2. grants[g].status = "ACTIVE"
      BY <2>1, <3>1 DEF GrantFollows
    <3> QED BY <2>1, <3>2 DEF Inv, ActiveIsUnused
  <2> SUFFICES ASSUME NEW d \in Calls, NEW e \in Calls, MayHaveActed(d)', MayHaveActed(e)',
                      call'[d].grant = call'[e].grant, call'[d].grant # 0
               PROVE  d = e
    BY DEF GrantUsedOnce
  <2>2. CASE d # c /\ e # c
    BY <2>2, <1>3 DEF Inv, GrantUsedOnce, OnlyThisCall
  <2>3. CASE d = c /\ e # c
    BY <2>3, <1>3, <2>1 DEF OnlyThisCall
  <2>4. CASE d # c /\ e = c
    BY <2>4, <1>3, <2>1 DEF OnlyThisCall
  <2> QED BY <2>2, <2>3, <2>4
<1>6. BoundToItsClass'
  <2> SUFFICES ASSUME NEW d \in Calls, NEW cls \in ConsumingClasses,
                      cls \in call'[d].classes, call'[d].result # "REFUSED"
               PROVE  /\ call'[d].grant # 0
                      /\ grants'[call'[d].grant].token = RequiredToken[cls]
                      /\ grants'[call'[d].grant].action = cls
                      /\ <<grants'[call'[d].grant].gate, cls>> \in Allowed
    BY DEF BoundToItsClass
  <2>1. /\ call'[d].grant = call[d].grant /\ cls \in call[d].classes
        /\ call[d].result # "REFUSED"
    BY DEF OnlyThisCall
  <2>2. /\ call[d].grant # 0
        /\ grants[call[d].grant].token = RequiredToken[cls]
        /\ grants[call[d].grant].action = cls
        /\ <<grants[call[d].grant].gate, cls>> \in Allowed
    BY <2>1 DEF Inv, BoundToItsClass
  <2>3. call[d].grant \in 1..Len(grants)
    BY <2>2, <1>0
  <2> QED BY <2>1, <2>2, <2>3 DEF OnlyItsGrant
<1>7. ReservationHasItsAction'
  <2> SUFFICES ASSUME NEW h \in 1..Len(grants), grants'[h].status = "RESERVED"
               PROVE  /\ grants'[h].reservedFor \in Calls
                      /\ call'[grants'[h].reservedFor].grant = h
                      /\ \/ call'[grants'[h].reservedFor].pc = "executing"
                         \/ call'[grants'[h].reservedFor].result = "MALFORMED"
    BY <1>0 DEF ReservationHasItsAction
  <2>1. CASE grants'[h] = grants[h] /\ grants[h].reservedFor # c
    BY <2>1, <1>0 DEF Inv, ReservationHasItsAction, OnlyThisCall
  <2>2. CASE h = g /\ grants'[h].reservedFor = c /\
             (call'[c].pc = "executing" \/ call'[c].result = "MALFORMED")
    BY <2>2 DEF OnlyThisCall
  <2>3. CASE h # g
    <3>1. grants'[h] = grants[h]
      BY <2>3 DEF OnlyItsGrant
    <3>2. grants[h].reservedFor # c
      BY <3>1, <2>3, <1>0 DEF Inv, ReservationHasItsAction
    <3> QED BY <3>1, <3>2, <2>1
  <2>4. CASE h = g
    <3>1. g # 0
      BY <2>4
    <3> QED BY <3>1, <2>4, <2>1, <2>2 DEF GrantFollows
  <2> QED BY <2>3, <2>4
<1>8. SpentForAReason'
  <2> SUFFICES ASSUME NEW h \in 1..Len(grants), grants'[h].status = "CONSUMED",
                      ~grants'[h].revoked
               PROVE  \E d \in Calls : call'[d].grant = h /\ call'[d].result = "SUCCEEDED"
    BY <1>0 DEF SpentForAReason
  <2>1. ~grants[h].revoked
    BY DEF OnlyItsGrant
  <2>2. CASE grants[h].status = "CONSUMED"
    <3>1. PICK d \in Calls : call[d].grant = h /\ call[d].result = "SUCCEEDED"
      BY <2>1, <2>2, <1>0 DEF Inv, SpentForAReason
    <3> QED BY <3>1 DEF OnlyThisCall
  <2>3. CASE grants[h].status # "CONSUMED"
    <3>1. h = g
      BY <2>3 DEF OnlyItsGrant
    <3>2. call'[c].result = "SUCCEEDED"
      BY <3>1, <2>3 DEF GrantFollows
    <3> QED BY <3>1, <3>2 DEF OnlyThisCall
  <2> QED BY <2>2, <2>3
<1> QED BY <1>1, <1>2, <1>4, <1>5, <1>6, <1>7, <1>8 DEF Inv
-----------------------------------------------------------------------------
(* The pieces of state that the steps of a call read, with their types.      *)
LEMMA StateTypes ==
    ASSUME Inv, NEW c \in Calls
    PROVE  /\ gate \in Gates /\ grants \in Seq(Grant) /\ call \in [Calls -> Call]
           /\ call[c] \in Call /\ call[c].grant \in 0..Len(grants) /\ Len(grants) \in Nat
           /\ \A g \in 1..Len(grants) : grants[g] \in Grant
           /\ call[c].pc \in {"new", "proposed", "executing"} => call[c].result = "NONE"
BY DEF Inv, TypeOK, ResultsFit

(* A step that leaves the grants alone touches no grant.                     *)
LEMMA NoGrantMoves ==
    ASSUME Inv, NEW c \in Calls, UNCHANGED grants
    PROVE  OnlyItsGrant(c)
BY StateTypes DEF OnlyItsGrant

(* A moved grant that keeps its binding is the only one that changes.        *)
LEMMA BindingStays ==
    ASSUME Inv, NEW c \in Calls, call[c].grant # 0, NEW record,
           GrantMoved(call[c].grant, record),
           record.token = grants[call[c].grant].token,
           record.gate = grants[call[c].grant].gate,
           record.action = grants[call[c].grant].action,
           record.revoked = grants[call[c].grant].revoked
    PROVE  OnlyItsGrant(c)
<1>1. ASSUME NEW h \in 1..Len(grants)
      PROVE  /\ grants'[h].token = grants[h].token
             /\ grants'[h].gate = grants[h].gate
             /\ grants'[h].action = grants[h].action
             /\ grants'[h].revoked = grants[h].revoked
             /\ h # call[c].grant => grants'[h] = grants[h]
  <2>1. CASE h = call[c].grant
    BY <2>1, Zenon DEF GrantMoved
  <2>2. CASE h # call[c].grant
    BY <2>2, Zenon DEF GrantMoved
  <2> QED BY <2>1, <2>2
<1> QED BY <1>1, Zenon DEF OnlyItsGrant, GrantMoved

(* requireReconciliation: the call's grant, if it has one, waits for the     *)
(* owner.                                                                    *)
LEMMA ReconciliationMoves ==
    ASSUME Inv, NEW c \in Calls, RequireReconciliation(call[c].grant)
    PROVE  /\ OnlyItsGrant(c)
           /\ call[c].grant # 0 =>
                 grants'[call[c].grant].status = "RECONCILIATION_REQUIRED"
<1>1. CASE call[c].grant = 0
  BY <1>1, NoGrantMoves DEF RequireReconciliation
<1>2. CASE call[c].grant # 0
  <2> DEFINE g == call[c].grant
  <2>1. g \in 1..Len(grants) /\ grants \in Seq(Grant) /\ grants[g] \in Grant
    BY <1>2, StateTypes
  <2> DEFINE record == [grants[g] EXCEPT !.status = "RECONCILIATION_REQUIRED"]
  <2>2. GrantMoved(g, record)
    BY <1>2, <2>1, StatusMoves DEF RequireReconciliation, Statuses
  <2>3. /\ record.token = grants[g].token /\ record.gate = grants[g].gate
        /\ record.action = grants[g].action /\ record.revoked = grants[g].revoked
        /\ record.status = "RECONCILIATION_REQUIRED"
    BY <2>1 DEF Grant
  <2> HIDE DEF record
  <2>4. OnlyItsGrant(c)
    BY <1>2, <2>2, <2>3, BindingStays
  <2>5. grants'[g] = record
    BY <2>2 DEF GrantMoved
  <2> QED BY <2>3, <2>4, <2>5
<1> QED BY <1>1, <1>2

\* A call that ends before the tool is started holds no reservation of its own.
LEMMA AbandonKeepsInv ==
    ASSUME Inv, NEW c \in Calls, Abandon(c)
    PROVE  Inv'
<1>1. OnlyThisCall(c)
  BY StateTypes DEF Abandon, OnlyThisCall, Call
<1>2. OnlyItsGrant(c)
  BY NoGrantMoves DEF Abandon
<1>3. GrantFollows(c)
  <2>1. ~MayHaveActed(c)' /\ grants' = grants /\ call[c].pc = "proposed"
    BY StateTypes DEF Abandon, MayHaveActed, Call
  <2>2. ASSUME call[c].grant # 0, grants[call[c].grant].status = "RESERVED"
        PROVE  grants[call[c].grant].reservedFor # c
    <3>1. call[c].grant \in DOMAIN grants /\ call[c].result = "NONE"
      BY <2>1, <2>2, StateTypes
    <3> QED BY <2>1, <2>2, <3>1 DEF Inv, ReservationHasItsAction
  <2> QED BY <2>1, <2>2 DEF GrantFollows
<1> QED BY <1>1, <1>2, <1>3, CallKeepsInv

\* reserveGrant takes an ACTIVE grant, which no action has used so far.
LEMMA ReserveKeepsInv ==
    ASSUME Inv, NEW c \in Calls, Reserve(c)
    PROVE  Inv'
<1> DEFINE g == call[c].grant
<1>1. OnlyThisCall(c)
  BY StateTypes DEF Reserve, OnlyThisCall, Call
<1>2. call'[c].pc = "executing"
  BY StateTypes DEF Reserve
<1>3. CASE g = 0
  <2>1. OnlyItsGrant(c)
    BY <1>3, NoGrantMoves DEF Reserve
  <2> QED BY <1>1, <1>3, <2>1, CallKeepsInv DEF GrantFollows
<1>4. CASE g # 0
  <2>1. g \in 1..Len(grants) /\ grants \in Seq(Grant) /\ grants[g] \in Grant
    BY <1>4, StateTypes
  <2> DEFINE record == [grants[g] EXCEPT !.status = "RESERVED", !.reservedFor = c]
  <2>2. GrantMoved(g, record)
    BY <1>4, <2>1, HolderMoves DEF Reserve, Statuses
  <2>3. /\ record.token = grants[g].token /\ record.gate = grants[g].gate
        /\ record.action = grants[g].action /\ record.revoked = grants[g].revoked
        /\ record.status = "RESERVED" /\ record.reservedFor = c
    BY <2>1 DEF Grant
  <2> HIDE DEF record
  <2>4. OnlyItsGrant(c)
    BY <1>4, <2>2, <2>3, BindingStays
  <2>5. grants'[g] = record
    BY <2>2 DEF GrantMoved
  <2>6. grants[g].status = "ACTIVE"
    BY <1>4 DEF Reserve
  <2>7. GrantFollows(c)
    BY <1>2, <2>3, <2>5, <2>6 DEF GrantFollows
  <2> QED BY <1>1, <2>4, <2>7, CallKeepsInv
<1> QED BY <1>3, <1>4

\* consumeGrant spends the grant for the action that has just succeeded.
LEMMA ToolSucceedsKeepsInv ==
    ASSUME Inv, NEW c \in Calls, ToolSucceeds(c)
    PROVE  Inv'
<1> DEFINE g == call[c].grant
           held == g = 0 \/ (grants[g].status = "RESERVED" /\ grants[g].reservedFor = c)
<1>1. OnlyThisCall(c)
  BY StateTypes DEF ToolSucceeds, Answer, OnlyThisCall, Call
<1>2. MayHaveActed(c) /\ call'[c].result = "SUCCEEDED"
  BY StateTypes DEF ToolSucceeds, Answer, MayHaveActed, Call
<1>3. CASE ~(g # 0 /\ held)
  <2>1. grants' = grants
    BY <1>3 DEF ToolSucceeds
  <2>2. OnlyItsGrant(c)
    BY <2>1, NoGrantMoves
  <2>3. g # 0 => grants[g].status # "ACTIVE"
    BY <1>2 DEF Inv, ActiveIsUnused
  <2>4. GrantFollows(c)
    BY <1>2, <1>3, <2>1, <2>3 DEF GrantFollows
  <2> QED BY <1>1, <2>2, <2>4, CallKeepsInv
<1>4. CASE g # 0 /\ held
  <2>1. g \in 1..Len(grants) /\ grants \in Seq(Grant) /\ grants[g] \in Grant
    BY <1>4, StateTypes
  <2> DEFINE record == [grants[g] EXCEPT !.status = "CONSUMED"]
  <2>2. GrantMoved(g, record)
    BY <1>4, <2>1, StatusMoves DEF ToolSucceeds, Statuses
  <2>3. /\ record.token = grants[g].token /\ record.gate = grants[g].gate
        /\ record.action = grants[g].action /\ record.revoked = grants[g].revoked
        /\ record.status = "CONSUMED"
    BY <2>1 DEF Grant
  <2> HIDE DEF record
  <2>4. OnlyItsGrant(c)
    BY <1>4, <2>2, <2>3, BindingStays
  <2>5. grants'[g] = record
    BY <2>2 DEF GrantMoved
  <2>6. GrantFollows(c)
    BY <1>2, <2>3, <2>5 DEF GrantFollows
  <2> QED BY <1>1, <2>4, <2>6, CallKeepsInv
<1> QED BY <1>3, <1>4

\* releaseGrantForRetry frees a grant whose action was never carried out.
LEMMA ToolCancelledKeepsInv ==
    ASSUME Inv, NEW c \in Calls, ToolCancelled(c)
    PROVE  Inv'
<1> DEFINE g == call[c].grant
<1>1. OnlyThisCall(c)
  BY StateTypes DEF ToolCancelled, Answer, OnlyThisCall, Call
<1>2. MayHaveActed(c) /\ ~MayHaveActed(c)'
  BY StateTypes DEF ToolCancelled, Answer, MayHaveActed, Call
<1>3. CASE g = 0
  <2>1. OnlyItsGrant(c)
    BY <1>3, NoGrantMoves DEF ToolCancelled
  <2> QED BY <1>1, <1>3, <2>1, CallKeepsInv DEF GrantFollows
<1>4. CASE g # 0
  <2>1. g \in 1..Len(grants) /\ grants \in Seq(Grant) /\ grants[g] \in Grant
    BY <1>4, StateTypes
  <2> DEFINE record == [grants[g] EXCEPT !.status = "ACTIVE", !.reservedFor = NoCall]
  <2>2. GrantMoved(g, record)
    BY <1>4, <2>1, HolderMoves DEF ToolCancelled, Statuses
  <2>3. /\ record.token = grants[g].token /\ record.gate = grants[g].gate
        /\ record.action = grants[g].action /\ record.revoked = grants[g].revoked
        /\ record.status = "ACTIVE"
    BY <2>1 DEF Grant
  <2> HIDE DEF record
  <2>4. OnlyItsGrant(c)
    BY <1>4, <2>2, <2>3, BindingStays
  <2>5. grants'[g] = record
    BY <2>2 DEF GrantMoved
  <2>6. GrantFollows(c)
    BY <1>2, <2>3, <2>5 DEF GrantFollows
  <2> QED BY <1>1, <2>4, <2>6, CallKeepsInv
<1> QED BY <1>3, <1>4

\* requireReconciliation keeps the grant from being used by another action.
LEMMA ToolAmbiguousKeepsInv ==
    ASSUME Inv, NEW c \in Calls, ToolAmbiguous(c)
    PROVE  Inv'
<1>1. OnlyThisCall(c)
  BY StateTypes DEF ToolAmbiguous, Answer, OnlyThisCall, Call
<1>2. MayHaveActed(c)
  BY DEF ToolAmbiguous, MayHaveActed
<1>3. /\ OnlyItsGrant(c)
      /\ call[c].grant # 0 => grants'[call[c].grant].status = "RECONCILIATION_REQUIRED"
  BY ReconciliationMoves DEF ToolAmbiguous
<1>4. GrantFollows(c)
  BY <1>2, <1>3 DEF GrantFollows
<1> QED BY <1>1, <1>3, <1>4, CallKeepsInv

\* A result that cannot be parsed leaves the grant reserved for its action.
LEMMA ToolMalformedKeepsInv ==
    ASSUME Inv, NEW c \in Calls, ToolMalformed(c)
    PROVE  Inv'
<1> DEFINE g == call[c].grant
<1>1. OnlyThisCall(c)
  BY StateTypes DEF ToolMalformed, Answer, OnlyThisCall, Call
<1>2. OnlyItsGrant(c) /\ grants' = grants
  BY NoGrantMoves DEF ToolMalformed
<1>3. MayHaveActed(c) /\ call'[c].result = "MALFORMED"
  BY StateTypes DEF ToolMalformed, Answer, MayHaveActed, Call
<1>4. g # 0 => grants[g].status # "ACTIVE"
  BY <1>3 DEF Inv, ActiveIsUnused
<1>5. GrantFollows(c)
  BY <1>2, <1>3, <1>4 DEF GrantFollows
<1> QED BY <1>1, <1>2, <1>5, CallKeepsInv

\* recordExecuted changes neither grants nor results.
LEMMA RecordedKeepsInv ==
    ASSUME Inv, NEW c \in Calls, Recorded(c)
    PROVE  Inv'
<1> DEFINE g == call[c].grant
<1>1. OnlyThisCall(c)
  BY StateTypes DEF Recorded, OnlyThisCall, Call
<1>2. OnlyItsGrant(c) /\ grants' = grants
  BY NoGrantMoves DEF Recorded
<1>3. MayHaveActed(c)' <=> MayHaveActed(c)
  BY StateTypes DEF Recorded, MayHaveActed, Call
<1>4. MayHaveActed(c) /\ g # 0 => grants[g].status # "ACTIVE"
  BY DEF Inv, ActiveIsUnused
<1>5. ASSUME g # 0, grants[g].status = "RESERVED"
      PROVE  grants[g].reservedFor # c \/ call'[c].result = "MALFORMED"
  <2>1. g \in DOMAIN grants
    BY <1>5, StateTypes
  <2>2. call[c].pc = "recording" /\ call'[c].result = call[c].result
    BY StateTypes DEF Recorded, Call
  <2> QED BY <1>5, <2>1, <2>2 DEF Inv, ReservationHasItsAction
<1>6. GrantFollows(c)
  BY <1>2, <1>3, <1>4, <1>5 DEF GrantFollows
<1> QED BY <1>1, <1>2, <1>6, CallKeepsInv

\* Neither does recordExecuted when it throws.
LEMMA RecordFailsKeepsInv ==
    ASSUME Inv, NEW c \in Calls, RecordFails(c)
    PROVE  Inv'
<1>1. OnlyThisCall(c)
  BY StateTypes DEF RecordFails, OnlyThisCall, Call
<1>2. MayHaveActed(c)' <=> MayHaveActed(c)
  BY StateTypes DEF RecordFails, MayHaveActed, Call
<1>3. /\ OnlyItsGrant(c)
      /\ call[c].grant # 0 => grants'[call[c].grant].status = "RECONCILIATION_REQUIRED"
  BY ReconciliationMoves DEF RecordFails
<1>4. GrantFollows(c)
  BY <1>2, <1>3 DEF GrantFollows
<1> QED BY <1>1, <1>3, <1>4, CallKeepsInv
-----------------------------------------------------------------------------
(* What grantedByAuthorityId says of an allowed action: the grant exists,    *)
(* and it is bound to the consuming class of the action, in this gate.       *)
LEMMA GrantedByExists ==
    ASSUME Inv, NEW request \in Requests
    PROVE  GrantedBy(request) \in 0..Len(grants)
<1> DEFINE consuming == {g \in DOMAIN grants :
                           \E cls \in request.classes \cap ConsumingClasses :
                               g \in MatchingGrants(cls)}
<1>0. DOMAIN grants = 1..Len(grants) /\ Len(grants) \in Nat
  BY DEF Inv, TypeOK
<1>1. consuming \subseteq 1..Len(grants)
  BY <1>0
<1>2. GrantedBy(request) = IF consuming = {} THEN 0 ELSE Min(consuming)
  BY DEF GrantedBy
<1> HIDE DEF consuming
<1>3. CASE consuming = {}
  BY <1>0, <1>2, <1>3
<1>4. CASE consuming # {}
  <2>1. consuming \subseteq Nat
    BY <1>0, <1>1
  <2>2. Min(consuming) \in consuming
    BY <2>1, <1>4, MinIsMember
  <2>3. GrantedBy(request) \in 1..Len(grants)
    BY <1>1, <1>2, <1>4, <2>2, Zenon
  <2> QED BY <1>0, <2>3
<1> QED BY <1>3, <1>4

\* evaluate names a grant for every consuming class it allows, and that grant is
\* bound to the class and to a gate that allows it.
LEMMA GrantedByIsBound ==
    ASSUME Inv, NEW request \in Requests, Allows(request),
           NEW cls \in request.classes \cap ConsumingClasses
    PROVE  /\ GrantedBy(request) # 0
           /\ grants[GrantedBy(request)].token = RequiredToken[cls]
           /\ grants[GrantedBy(request)].action = cls
           /\ <<grants[GrantedBy(request)].gate, cls>> \in Allowed
<1> DEFINE consuming == {g \in DOMAIN grants :
                           \E k \in request.classes \cap ConsumingClasses :
                               g \in MatchingGrants(k)}
<1>0. DOMAIN grants = 1..Len(grants) /\ Len(grants) \in Nat /\ gate \in Gates
  BY DEF Inv, TypeOK
<1>1. cls \in TokenClasses
  BY DEF ConsumingClasses, TokenClasses
<1>2. MatchingGrants(cls) # {} /\ MatchingGrants(cls) \subseteq DOMAIN grants
  BY <1>1 DEF Allows, MatchingGrants, GrantsWith
<1>3. consuming # {} /\ consuming \subseteq 1..Len(grants)
  BY <1>0, <1>2
<1>4. GrantedBy(request) = Min(consuming)
  BY <1>3 DEF GrantedBy
<1>5. \A g \in consuming : \E k \in request.classes \cap ConsumingClasses :
                               g \in MatchingGrants(k)
  OBVIOUS
<1> HIDE DEF consuming
<1>6. consuming \subseteq Nat
  BY <1>0, <1>3
<1>7. Min(consuming) \in consuming
  BY <1>3, <1>6, MinIsMember
<1>8. PICK k \in request.classes \cap ConsumingClasses :
            GrantedBy(request) \in MatchingGrants(k)
  BY <1>4, <1>5, <1>7
<1>9. <<gate, cls>> \in Allowed /\ <<gate, k>> \in Allowed
  BY DEF Allows
<1>10. k = cls
  BY <1>0, <1>9, OneConsumingClass
<1>11. /\ grants[GrantedBy(request)].token = RequiredToken[cls]
       /\ Covers(grants[GrantedBy(request)], cls)
  BY <1>8, <1>10 DEF MatchingGrants, GrantsWith
<1>12. cls # "GIT_STAGE" /\ cls # "SOURCE_MUTATION"
  BY DEF ConsumingClasses
<1>13. /\ grants[GrantedBy(request)].gate = gate
       /\ grants[GrantedBy(request)].action = cls
  BY <1>11, <1>12 DEF Covers
<1>14. GrantedBy(request) # 0
  BY <1>3, <1>4, <1>7, <1>0
<1> QED BY <1>9, <1>11, <1>13, <1>14

\* The decision of evaluate binds the call to a grant of the right kind.
LEMMA ProposeKeepsInv ==
    ASSUME Inv, NEW c \in Calls, NEW request \in Requests, Propose(c, request)
    PROVE  Inv'
<1>0. /\ gate' = gate /\ grants' = grants /\ call[c].pc = "new" /\ call[c].result = "NONE"
      /\ call \in [Calls -> Call] /\ DOMAIN grants = 1..Len(grants)
  BY StateTypes DEF Propose
<1>1. request.classes \in SUBSET MutationClasses
  BY GovernanceConstants
<1>2. \A d \in Calls : d # c => call'[d] = call[d]
  BY <1>0 DEF Propose
<1>3. \/ /\ Allows(request)
         /\ call'[c] = [pc |-> "proposed", classes |-> request.classes,
                        grant |-> GrantedBy(request), result |-> "NONE"]
      \/ call'[c] = [pc |-> "done", classes |-> request.classes, grant |-> 0,
                     result |-> "REFUSED"]
  BY <1>0 DEF Propose, NewCall
<1>4. GrantedBy(request) \in 0..Len(grants) /\ Len(grants) \in Nat
  BY GrantedByExists, StateTypes
<1>5. call'[c] \in Call /\ call'[c].grant \in 0..Len(grants)
  BY <1>1, <1>3, <1>4 DEF Call
<1>6. TypeOK'
  <2>1. call' \in [Calls -> Call]
    <3>1. call' = [d \in Calls |-> call'[d]]
      BY <1>0 DEF Propose
    <3> QED BY <1>0, <1>2, <1>5, <3>1
  <2> QED BY <1>0, <1>2, <1>5, <2>1 DEF Inv, TypeOK
<1>7. ResultsFit'
  BY <1>2, <1>3 DEF Inv, ResultsFit
<1>8. ~MayHaveActed(c)' /\ \A d \in Calls : d # c => (MayHaveActed(d)' <=> MayHaveActed(d))
  BY <1>2, <1>3 DEF MayHaveActed
<1>9. ActiveIsUnused'
  BY <1>0, <1>2, <1>8 DEF Inv, ActiveIsUnused
<1>10. GrantUsedOnce'
  BY <1>2, <1>8 DEF Inv, GrantUsedOnce
<1>11. BoundToItsClass'
  <2> SUFFICES ASSUME NEW d \in Calls, NEW cls \in ConsumingClasses,
                      cls \in call'[d].classes, call'[d].result # "REFUSED"
               PROVE  /\ call'[d].grant # 0
                      /\ grants[call'[d].grant].token = RequiredToken[cls]
                      /\ grants[call'[d].grant].action = cls
                      /\ <<grants[call'[d].grant].gate, cls>> \in Allowed
    BY <1>0 DEF BoundToItsClass
  <2>1. CASE d # c
    BY <2>1, <1>2 DEF Inv, BoundToItsClass
  <2>2. CASE d = c
    <3>1. /\ Allows(request) /\ cls \in request.classes \cap ConsumingClasses
          /\ call'[d].grant = GrantedBy(request)
      BY <2>2, <1>3
    <3> QED BY <3>1, GrantedByIsBound
  <2> QED BY <2>1, <2>2
<1>12. ReservationHasItsAction'
  <2> SUFFICES ASSUME NEW h \in DOMAIN grants, grants[h].status = "RESERVED"
               PROVE  /\ grants[h].reservedFor \in Calls
                      /\ call'[grants[h].reservedFor].grant = h
                      /\ \/ call'[grants[h].reservedFor].pc = "executing"
                         \/ call'[grants[h].reservedFor].result = "MALFORMED"
    BY <1>0 DEF ReservationHasItsAction
  <2>1. /\ grants[h].reservedFor \in Calls
        /\ call[grants[h].reservedFor].grant = h
        /\ \/ call[grants[h].reservedFor].pc = "executing"
           \/ call[grants[h].reservedFor].result = "MALFORMED"
    BY DEF Inv, ReservationHasItsAction
  <2>2. grants[h].reservedFor # c
    BY <1>0, <2>1
  <2> QED BY <1>2, <2>1, <2>2
<1>13. SpentForAReason'
  <2> SUFFICES ASSUME NEW h \in DOMAIN grants, grants[h].status = "CONSUMED",
                      ~grants[h].revoked
               PROVE  \E d \in Calls : call'[d].grant = h /\ call'[d].result = "SUCCEEDED"
    BY <1>0 DEF SpentForAReason
  <2>1. PICK d \in Calls : call[d].grant = h /\ call[d].result = "SUCCEEDED"
    BY DEF Inv, SpentForAReason
  <2> QED BY <1>0, <1>2, <2>1
<1> QED BY <1>6, <1>7, <1>9, <1>10, <1>11, <1>12, <1>13 DEF Inv
-----------------------------------------------------------------------------
(* What the owner's operations do: calls stay where they are, a grant is new *)
(* and ACTIVE, or stays, or is spent by a revocation.                        *)
OwnerMoves ==
    /\ gate' \in Gates
    /\ call' = call
    /\ grants' \in Seq(Grant)
    /\ Len(grants') >= Len(grants)
    /\ \A h \in 1..Len(grants') :
          IF h \in 1..Len(grants)
          THEN \/ grants'[h] = grants[h]
               \/ /\ grants'[h].token = grants[h].token
                  /\ grants'[h].gate = grants[h].gate
                  /\ grants'[h].action = grants[h].action
                  /\ grants'[h].status = "CONSUMED" /\ grants'[h].revoked
          ELSE grants'[h].status = "ACTIVE"

\* An owner event adds a grant or revokes one, and leaves the calls alone.
LEMMA OwnerKeepsInv ==
    ASSUME Inv, OwnerMoves
    PROVE  Inv'
<1>0. /\ DOMAIN grants = 1..Len(grants) /\ DOMAIN grants' = 1..Len(grants')
      /\ Len(grants) \in Nat /\ Len(grants') \in Nat /\ Len(grants') >= Len(grants)
      /\ call' = call /\ \A d \in Calls : call[d].grant \in 0..Len(grants)
  BY DEF Inv, TypeOK, OwnerMoves
<1>1. TypeOK'
  BY <1>0 DEF Inv, TypeOK, OwnerMoves
<1>2. ResultsFit'
  BY <1>0 DEF Inv, ResultsFit
<1>3. \A d \in Calls : MayHaveActed(d)' <=> MayHaveActed(d)
  BY <1>0 DEF MayHaveActed
<1>4. GrantUsedOnce'
  BY <1>0, <1>3 DEF Inv, GrantUsedOnce
<1>5. \A d \in Calls : call[d].grant # 0 =>
         call[d].grant \in 1..Len(grants) /\ call[d].grant \in 1..Len(grants')
  BY <1>0
<1>6. ActiveIsUnused'
  <2> SUFFICES ASSUME NEW d \in Calls, MayHaveActed(d), call[d].grant # 0
               PROVE  grants'[call[d].grant].status # "ACTIVE"
    BY <1>0, <1>3 DEF ActiveIsUnused
  <2>1. grants[call[d].grant].status # "ACTIVE"
    BY DEF Inv, ActiveIsUnused
  <2> QED BY <1>5, <2>1 DEF OwnerMoves
<1>7. BoundToItsClass'
  <2> SUFFICES ASSUME NEW d \in Calls, NEW cls \in ConsumingClasses,
                      cls \in call[d].classes, call[d].result # "REFUSED"
               PROVE  /\ call[d].grant # 0
                      /\ grants'[call[d].grant].token = RequiredToken[cls]
                      /\ grants'[call[d].grant].action = cls
                      /\ <<grants'[call[d].grant].gate, cls>> \in Allowed
    BY <1>0 DEF BoundToItsClass
  <2>1. /\ call[d].grant # 0
        /\ grants[call[d].grant].token = RequiredToken[cls]
        /\ grants[call[d].grant].action = cls
        /\ <<grants[call[d].grant].gate, cls>> \in Allowed
    BY DEF Inv, BoundToItsClass
  <2>2. /\ grants'[call[d].grant].token = grants[call[d].grant].token
        /\ grants'[call[d].grant].gate = grants[call[d].grant].gate
        /\ grants'[call[d].grant].action = grants[call[d].grant].action
    BY <1>5, <2>1 DEF OwnerMoves
  <2> QED BY <2>1, <2>2
<1>8. ReservationHasItsAction'
  <2> SUFFICES ASSUME NEW h \in 1..Len(grants'), grants'[h].status = "RESERVED"
               PROVE  /\ grants'[h].reservedFor \in Calls
                      /\ call[grants'[h].reservedFor].grant = h
                      /\ \/ call[grants'[h].reservedFor].pc = "executing"
                         \/ call[grants'[h].reservedFor].result = "MALFORMED"
    BY <1>0 DEF ReservationHasItsAction
  <2>1. h \in 1..Len(grants) /\ grants'[h] = grants[h]
    BY DEF OwnerMoves
  <2> QED BY <1>0, <2>1 DEF Inv, ReservationHasItsAction
<1>9. SpentForAReason'
  <2> SUFFICES ASSUME NEW h \in 1..Len(grants'), grants'[h].status = "CONSUMED",
                      ~grants'[h].revoked
               PROVE  \E d \in Calls : call[d].grant = h /\ call[d].result = "SUCCEEDED"
    BY <1>0 DEF SpentForAReason
  <2>1. h \in 1..Len(grants) /\ grants'[h] = grants[h]
    BY DEF OwnerMoves
  <2> QED BY <1>0, <2>1 DEF Inv, SpentForAReason
<1> QED BY <1>1, <1>2, <1>4, <1>6, <1>7, <1>8, <1>9 DEF Inv

\* Each of the four owner operations is such an event.
LEMMA OwnerActsAsOwner ==
    ASSUME Inv, Owner
    PROVE  OwnerMoves
<1>0. gate \in Gates /\ grants \in Seq(Grant) /\ DOMAIN grants = 1..Len(grants) /\ Len(grants) \in Nat
  BY DEF Inv, TypeOK
<1>1. ASSUME NEW offer \in Offers, ApplyOwnerAuthorityEvent(offer)
      PROVE  OwnerMoves
  <2> DEFINE record == [token |-> offer.token, gate |-> offer.gate,
                        action |-> offer.action, status |-> "ACTIVE",
                        reservedFor |-> NoCall, revoked |-> FALSE]
  <2>1. /\ offer.token \in Tokens /\ offer.gate \in Gates \cup {"ANY"}
        /\ offer.action \in MutationClasses \cup {"ANY"}
    BY GovernanceConstants
  <2>2. record \in Grant /\ record.status = "ACTIVE"
    BY <2>1 DEF Grant
  <2>3. grants' = Append(grants, record) /\ gate' = gate /\ call' = call
    BY <1>1 DEF ApplyOwnerAuthorityEvent
  <2> HIDE DEF record
  <2>4. /\ grants' \in Seq(Grant) /\ Len(grants') = Len(grants) + 1
        /\ grants'[Len(grants) + 1] = record
        /\ \A h \in 1..Len(grants) : grants'[h] = grants[h]
    BY <1>0, <2>2, <2>3
  <2> QED BY <1>0, <2>2, <2>3, <2>4 DEF OwnerMoves
<1>2. ASSUME TransitionGateFromEvent
      PROVE  OwnerMoves
  <2>1. gate' \in Gates
    BY <1>2 DEF TransitionGateFromEvent, GateTransitionPolicy, Gates
  <2> QED BY <1>0, <1>2, <2>1 DEF TransitionGateFromEvent, OwnerMoves
<1>3. ASSUME NEW files \in Scopes, SetApprovedScopeFromPlan(files)
      PROVE  OwnerMoves
  BY <1>0, <1>3 DEF SetApprovedScopeFromPlan, OwnerMoves
<1>4. ASSUME NEW token \in Tokens, RevokeGrant(token)
      PROVE  OwnerMoves
  <2> DEFINE open == GrantsWith(token, {"ACTIVE", "RESERVED"})
             g == Min(open)
             record == [grants[g] EXCEPT !.status = "CONSUMED", !.revoked = TRUE]
  <2>1. open # {} /\ open \subseteq 1..Len(grants)
    BY <1>0, <1>4 DEF RevokeGrant, GrantsWith
  <2>2. grants' = [grants EXCEPT ![g].status = "CONSUMED", ![g].revoked = TRUE]
    BY <1>4 DEF RevokeGrant
  <2>3. gate' = gate /\ call' = call
    BY <1>4 DEF RevokeGrant
  <2> HIDE DEF open
  <2>4. open \subseteq Nat
    BY <1>0, <2>1
  <2>5. g \in 1..Len(grants)
    BY <2>1, <2>4, MinIsMember
  <2> HIDE DEF g
  <2>6. GrantMoved(g, record)
    BY <1>0, <2>2, <2>5, RevokedMoves DEF Statuses
  <2>7. grants[g] \in Grant
    BY <1>0, <2>5
  <2>8. /\ record.token = grants[g].token /\ record.gate = grants[g].gate
        /\ record.action = grants[g].action /\ record.status = "CONSUMED"
        /\ record.revoked
    BY <2>7 DEF Grant
  <2> HIDE DEF record
  <2>9. ASSUME NEW h \in 1..Len(grants)
        PROVE  \/ grants'[h] = grants[h]
               \/ /\ grants'[h].token = grants[h].token
                  /\ grants'[h].gate = grants[h].gate
                  /\ grants'[h].action = grants[h].action
                  /\ grants'[h].status = "CONSUMED" /\ grants'[h].revoked
    BY <2>6, <2>8, Zenon DEF GrantMoved
  <2> QED BY <1>0, <2>3, <2>6, <2>9 DEF GrantMoved, OwnerMoves
<1> QED BY <1>1, <1>2, <1>3, <1>4 DEF Owner
-----------------------------------------------------------------------------
\* A new OwnerEventProcessor has no grants and no calls.
LEMMA InitEstablishesInv == Init => Inv
<1> SUFFICES ASSUME Init PROVE Inv
  OBVIOUS
<1>1. grants = <<>> /\ gate \in Gates /\ call = [c \in Calls |-> NewCall]
  BY GovernanceConstants DEF Init
<1>2. \A c \in Calls : call[c] = NewCall
  BY <1>1
<1>3. NewCall \in Call /\ NewCall.pc = "new" /\ NewCall.result = "NONE"
      /\ NewCall.grant = 0 /\ NewCall.classes = {}
  BY DEF NewCall, Call
<1>4. grants \in Seq(Grant) /\ DOMAIN grants = {} /\ Len(grants) = 0
  BY <1>1
<1>5. TypeOK
  BY <1>1, <1>2, <1>3, <1>4 DEF TypeOK
<1>6. \A c \in Calls : ~MayHaveActed(c)
  BY <1>2, <1>3 DEF MayHaveActed
<1> QED BY <1>2, <1>3, <1>4, <1>5, <1>6
        DEF Inv, ResultsFit, ActiveIsUnused, GrantUsedOnce, BoundToItsClass,
            ReservationHasItsAction, SpentForAReason

\* A step of something else changes none of this.
LEMMA StutterKeepsInv ==
    ASSUME Inv, UNCHANGED vars
    PROVE  Inv'
<1>1. OwnerMoves
  BY DEF Inv, TypeOK, vars, OwnerMoves
<1> QED BY <1>1, OwnerKeepsInv

\* The inductive step: one case for each action of the owner and of the gateway.
LEMMA StepKeepsInv == Inv /\ [Next]_vars => Inv'
<1> SUFFICES ASSUME Inv, [Next]_vars PROVE Inv'
  OBVIOUS
<1>1. CASE UNCHANGED vars
  BY <1>1, StutterKeepsInv
<1>2. CASE Owner
  BY <1>2, OwnerActsAsOwner, OwnerKeepsInv
<1>3. ASSUME NEW c \in Calls, Gateway(c)
      PROVE  Inv'
  <2>1. ASSUME NEW request \in Requests, Propose(c, request)  PROVE Inv'
    BY <2>1, ProposeKeepsInv
  <2>2. CASE Abandon(c)
    BY <2>2, AbandonKeepsInv
  <2>3. CASE Reserve(c)
    BY <2>3, ReserveKeepsInv
  <2>4. CASE ToolSucceeds(c)
    BY <2>4, ToolSucceedsKeepsInv
  <2>5. CASE ToolCancelled(c)
    BY <2>5, ToolCancelledKeepsInv
  <2>6. CASE ToolAmbiguous(c)
    BY <2>6, ToolAmbiguousKeepsInv
  <2>7. CASE ToolMalformed(c)
    BY <2>7, ToolMalformedKeepsInv
  <2>8. CASE Recorded(c)
    BY <2>8, RecordedKeepsInv
  <2>9. CASE RecordFails(c)
    BY <2>9, RecordFailsKeepsInv
  <2> QED BY <1>3, <2>1, <2>2, <2>3, <2>4, <2>5, <2>6, <2>7, <2>8, <2>9 DEF Gateway
<1> QED BY <1>1, <1>2, <1>3 DEF Next

(* The inductive invariant holds in every reachable state, for any number of *)
(* gateway calls and owner approvals.                                        *)
THEOREM InvariantHolds == Spec => []Inv
BY InitEstablishesInv, StepKeepsInv, PTL DEF Spec

(* The gate, the grants and the calls keep their types, and a call never     *)
(* names a grant that the processor does not have.                           *)
THEOREM TypeCorrect == Spec => []TypeOK
<1>1. Inv => TypeOK
  BY DEF Inv
<1> QED BY <1>1, InvariantHolds, PTL

(* One owner approval is good for one commit, push or deployment: two        *)
(* different actions that may have run never name the same grant.            *)
THEOREM OneActionPerGrant == Spec => []GrantUsedOnce
<1>1. Inv => GrantUsedOnce
  BY DEF Inv
<1> QED BY <1>1, InvariantHolds, PTL

(* A commit, push or deployment that may have happened had a grant bound to  *)
(* that action and its gate, which is no longer ACTIVE.                      *)
THEOREM SensitiveActionsHaveAGrant == Spec => []SensitiveActionsAreBacked
<1>1. ASSUME Inv PROVE SensitiveActionsAreBacked
  <2> SUFFICES ASSUME NEW c \in Calls, NEW cls \in ConsumingClasses,
                      MayHaveActed(c), cls \in call[c].classes
               PROVE  /\ call[c].grant # 0
                      /\ grants[call[c].grant].token = RequiredToken[cls]
                      /\ grants[call[c].grant].action = cls
                      /\ <<grants[call[c].grant].gate, cls>> \in Allowed
                      /\ grants[call[c].grant].status # "ACTIVE"
    BY DEF SensitiveActionsAreBacked
  <2>1. call[c].result # "REFUSED"
    BY <1>1 DEF MayHaveActed, Inv, ResultsFit
  <2>2. /\ call[c].grant # 0
        /\ grants[call[c].grant].token = RequiredToken[cls]
        /\ grants[call[c].grant].action = cls
        /\ <<grants[call[c].grant].gate, cls>> \in Allowed
    BY <1>1, <2>1 DEF Inv, BoundToItsClass
  <2>3. grants[call[c].grant].status # "ACTIVE"
    BY <1>1, <2>2 DEF Inv, ActiveIsUnused
  <2> QED BY <2>2, <2>3
<1> QED BY <1>1, InvariantHolds, PTL

(* A RESERVED grant is held by the action that runs on it, or whose result   *)
(* could not be read.                                                        *)
THEOREM ReservationsAreHeld == Spec => []ReservationHasItsAction
<1>1. Inv => ReservationHasItsAction
  BY DEF Inv
<1> QED BY <1>1, InvariantHolds, PTL

(* A grant is CONSUMED only after a success or a revocation by the owner.    *)
THEOREM SpendingHasAReason == Spec => []SpentForAReason
<1>1. Inv => SpentForAReason
  BY DEF Inv
<1> QED BY <1>1, InvariantHolds, PTL
-----------------------------------------------------------------------------
(* The two spellings of a git operation.                                     *)

\* What the command line reads like is no argument.
LEMMA BroadlyIsNoArgument ==
    ASSUME NEW op, NEW args, NEW b \in BOOLEAN
    PROVE  ClassifyByGitOperation(op, args \cup If(b, {"broadly"}))
           = ClassifyByGitOperation(op, args)
<1> DEFINE marks == args \cup If(b, {"broadly"})
<1>1. \A m \in {"broad", "-a", "delete", "force", "hard"} : m \in marks <=> m \in args
  BY DEF If
<1>2. marks \cap {"broad", "-a"} = args \cap {"broad", "-a"}
  BY <1>1
<1> HIDE DEF marks
<1>3. ClassifyByGitOperation(op, marks) = ClassifyByGitOperation(op, args)
  BY <1>1, <1>2 DEF ClassifyByGitOperation, If
<1> QED BY <1>3 DEF marks

\* Only git add stages, and a broad one is unknown too.
LEMMA OnlyAddStages ==
    ASSUME NEW op \in GitSubcommands, NEW args
    PROVE  /\ "GIT_STAGE" \in ClassifyByGitOperation(op, args) <=> op = "add"
           /\ op = "add" /\ "broad" \in args => "UNKNOWN" \in ClassifyByGitOperation(op, args)
BY DEF ClassifyByGitOperation, If, GitSubcommands

\* The classes that no gate allows.
Forbidden == {"UNKNOWN", "SECRET_READ"}

LEMMA ForbiddenIsForbidden ==
    ASSUME NEW cls \in Forbidden PROVE <<gate, cls>> \notin Allowed
BY DEF Forbidden, Allowed

\* The git tool and the command line are classified alike; the command line alone
\* is barred for what it reads like, the tool alone for its first argument. Where
\* they are barred by different rules otherwise, no gate allows the class.
LEMMA GitClassifiedAlike ==
    ASSUME NEW k \in GitCases
    PROVE  /\ AsTool(k).classes = AsCommand(k).classes
           /\ AsTool(k).files = AsCommand(k).files
           /\ StagesBroadly(k) => AsCommand(k).barred
           /\ LooksLikeADump(k) => AsTool(k).barred
           /\ \/ StagesBroadly(k) \/ LooksLikeADump(k)
              \/ AsTool(k).barred <=> AsCommand(k).barred
              \/ \E cls \in AsTool(k).classes : cls \in Forbidden
<1>0. PICK op \in GitSubcommands, args \in SUBSET GitMarks, broadly \in BOOLEAN,
           lead \in {"none", "env", "printenv", "echo"},
           files \in Scopes, env \in {"local", "production"} :
          /\ k.op = op /\ k.args = args /\ k.broadly = broadly /\ k.lead = lead
          /\ k.files = files /\ k.env = env
  BY DEF GitCases
<1> DEFINE marks == args \cup If(broadly, {"broadly"})
           rt == BridgeToActionRequest(GitTool(op, args, lead, files, env))
           rc == BridgeToActionRequest(GitCommand(op, marks, files, env))
           git == ClassifyByGitOperation(op, args)
           secret == If("secretVariable" \in args, {"SECRET_READ"})
           where == MapEnvironment(env)
<1>1. /\ rt.tool = "git" /\ rt.says = {} /\ rt.args = args /\ rt.lead = lead
      /\ rt.command = NoCommand /\ rt.resource = {} /\ rt.content = {}
      /\ rt.parameters = {} /\ rt.environment = where /\ rt.gitOperation = op
      /\ rt.httpMethod = "none" /\ rt.targetFilePaths = files \cup {}
  BY DEF BridgeToActionRequest, GitTool, Plain
<1>2. /\ rc.tool = "shell" /\ rc.says = {} /\ rc.args = {} /\ rc.lead = "none"
      /\ rc.command = [base |-> "git", sub |-> op, marks |-> marks]
      /\ rc.resource = {} /\ rc.content = {}
      /\ rc.parameters = {} /\ rc.environment = where /\ rc.gitOperation = "none"
      /\ rc.httpMethod = "none" /\ rc.targetFilePaths = files \cup {}
  BY DEF BridgeToActionRequest, GitCommand, Plain
<1>3. AsTool(k) =
          [classes |-> Classify(rt), files |-> rt.targetFilePaths,
           barred |-> \/ SecretFileGuard(rt) \/ SecretOutputGuard(rt)
                      \/ SecretLiteralGuard(rt) \/ AuthCredentialScriptGuard(rt)
                      \/ BlanketAdd(rt)]
  BY <1>0 DEF Classified, AsTool
<1>4. AsCommand(k) =
          [classes |-> Classify(rc), files |-> rc.targetFilePaths,
           barred |-> \/ SecretFileGuard(rc) \/ SecretOutputGuard(rc)
                      \/ SecretLiteralGuard(rc) \/ AuthCredentialScriptGuard(rc)
                      \/ BlanketAdd(rc)]
  BY <1>0 DEF Classified, AsCommand
<1>5. /\ "secretPath" \in marks <=> "secretPath" \in args
      /\ "secretVariable" \in marks <=> "secretVariable" \in args
      /\ "railway variables" \in marks <=> "railway variables" \in args
      /\ "literal" \in marks <=> "literal" \in args
      /\ "broadly" \in marks <=> broadly
  BY DEF GitMarks, If
<1>6. ClassifyByGitOperation(op, marks) = git
  BY BroadlyIsNoArgument
<1> HIDE DEF rt, rc, marks
<1>7. ClassifyByResource(rt) = secret /\ ClassifyByResource(rc) = secret
  <2>1. ClassifyByResource(rt) = secret
    BY <1>1 DEF ClassifyByResource, NoCommand, If
  <2>2. ClassifyByResource(rc) = secret
    <3>1. rc.command.marks \cup rc.args = marks /\ "secretPath" \notin rc.resource
      BY <1>2
    <3>2. ClassifyByResource(rc) = If("secretVariable" \in marks, {"SECRET_READ"})
      BY <3>1 DEF ClassifyByResource, If
    <3> QED BY <1>5, <3>2 DEF If
  <2> QED BY <2>1, <2>2
<1>8. Classify(rt) = LET found == ClassifyByEnvironment(rt, git \cup secret)
                     IN  IF found = {} THEN {"UNKNOWN"} ELSE found
  <2>1. ClassifyByTool(rt) = {} /\ ClassifyByHttpMethod(rt) = {}
    BY <1>1 DEF ClassifyByTool, ClassifyByHttpMethod, If
  <2>2. ClassifyByGitOperation(rt.gitOperation, rt.args) = git
    BY <1>1
  <2>3. ClassifyByCommand(rt.command) = {}
    BY <1>1 DEF ClassifyByCommand, NoCommand
  <2> HIDE DEF git, secret
  <2>4. ClassifyByTool(rt) \cup ClassifyByHttpMethod(rt)
            \cup ClassifyByGitOperation(rt.gitOperation, rt.args)
            \cup ClassifyByCommand(rt.command) \cup ClassifyByResource(rt) = git \cup secret
    BY <1>7, <2>1, <2>2, <2>3
  <2> QED BY <2>4 DEF Classify
<1>9. Classify(rc) = LET found == ClassifyByEnvironment(rc, git \cup secret)
                     IN  IF found = {} THEN {"UNKNOWN"} ELSE found
  <2>1. ClassifyByTool(rc) = {} /\ ClassifyByHttpMethod(rc) = {}
    BY <1>2 DEF ClassifyByTool, ClassifyByHttpMethod, If
  <2>2. ClassifyByGitOperation(rc.gitOperation, rc.args) = {}
    BY <1>2 DEF ClassifyByGitOperation
  <2>3. ClassifyByCommand(rc.command) = git
    BY <1>2, <1>6 DEF ClassifyByCommand, ClassifyGitCommand
  <2> HIDE DEF git, secret
  <2>4. ClassifyByTool(rc) \cup ClassifyByHttpMethod(rc)
            \cup ClassifyByGitOperation(rc.gitOperation, rc.args)
            \cup ClassifyByCommand(rc.command) \cup ClassifyByResource(rc) = git \cup secret
    BY <1>7, <2>1, <2>2, <2>3
  <2> QED BY <2>4 DEF Classify
<1>10. Classify(rt) = Classify(rc)
  BY <1>1, <1>2, <1>8, <1>9 DEF ClassifyByEnvironment
<1>11. /\ "GIT_STAGE" \in Classify(rt) <=> op = "add"
       /\ op = "add" /\ "broad" \in args => "UNKNOWN" \in Classify(rt)
       /\ "secretVariable" \in args => "SECRET_READ" \in Classify(rt)
  <2>1. /\ "GIT_STAGE" \in git <=> op = "add"
        /\ op = "add" /\ "broad" \in args => "UNKNOWN" \in git
    BY OnlyAddStages
  <2>2. /\ "GIT_STAGE" \notin secret
        /\ "secretVariable" \in args => "SECRET_READ" \in secret
    BY DEF If
  <2> HIDE DEF git, secret
  <2> QED BY <1>8, <2>1, <2>2 DEF ClassifyByEnvironment
<1>12. /\ SecretFileGuard(rt) <=> "secretPath" \in args
       /\ SecretLiteralGuard(rt) <=> "literal" \in args
       /\ ~AuthCredentialScriptGuard(rt)
       /\ SecretOutputGuard(rt) <=> \/ lead \in {"env", "printenv"}
                                    \/ lead = "echo" /\ "secretVariable" \in args
                                    \/ "railway variables" \in args
       /\ BlanketAdd(rt) <=> op = "add" /\ "broad" \in args
  <2>1. rt.command.base = "none" /\ rt.command.marks = {}
    BY <1>1 DEF NoCommand
  <2>2. BlanketAdd(rt) <=> op = "add" /\ "broad" \in args
    BY <1>1, <1>11, <2>1 DEF BlanketAdd
  <2>3. SecretOutputGuard(rt) <=> \/ lead \in {"env", "printenv"}
                                  \/ lead = "echo" /\ "secretVariable" \in args
                                  \/ "railway variables" \in args
    BY <1>1, <2>1 DEF SecretOutputGuard
  <2>4. /\ SecretFileGuard(rt) <=> "secretPath" \in args
        /\ SecretLiteralGuard(rt) <=> "literal" \in args
        /\ ~AuthCredentialScriptGuard(rt)
    BY <1>1, <2>1 DEF SecretFileGuard, SecretLiteralGuard, AuthCredentialScriptGuard
  <2> QED BY <2>2, <2>3, <2>4
<1>13. /\ SecretFileGuard(rc) <=> "secretPath" \in args
       /\ SecretLiteralGuard(rc) <=> "literal" \in args
       /\ ~AuthCredentialScriptGuard(rc)
       /\ SecretOutputGuard(rc) <=> "railway variables" \in args
       /\ BlanketAdd(rc) <=> op = "add" /\ broadly
  <2>1. rc.command.base = "git" /\ rc.command.marks = marks
    BY <1>2
  <2>2. BlanketAdd(rc) <=> op = "add" /\ broadly
    BY <1>2, <1>5, <1>10, <1>11, <2>1 DEF BlanketAdd
  <2>3. SecretOutputGuard(rc) <=> "railway variables" \in args
    BY <1>2, <1>5, <2>1 DEF SecretOutputGuard
  <2>4. /\ SecretFileGuard(rc) <=> "secretPath" \in args
        /\ SecretLiteralGuard(rc) <=> "literal" \in args
        /\ ~AuthCredentialScriptGuard(rc)
    BY <1>2, <1>5, <2>1 DEF SecretFileGuard, SecretLiteralGuard, AuthCredentialScriptGuard
  <2> QED BY <2>2, <2>3, <2>4
<1>14. /\ StagesBroadly(k) <=> op = "add" /\ broadly
       /\ LooksLikeADump(k) <=> lead \in {"env", "printenv"}
  BY <1>0 DEF StagesBroadly, LooksLikeADump
<1>15. /\ AsTool(k).classes = Classify(rt) /\ AsTool(k).files = files \cup {}
       /\ AsTool(k).barred <=> \/ SecretFileGuard(rt) \/ SecretOutputGuard(rt)
                               \/ SecretLiteralGuard(rt) \/ AuthCredentialScriptGuard(rt)
                               \/ BlanketAdd(rt)
  BY <1>1, <1>3
<1>16. /\ AsCommand(k).classes = Classify(rc) /\ AsCommand(k).files = files \cup {}
       /\ AsCommand(k).barred <=> \/ SecretFileGuard(rc) \/ SecretOutputGuard(rc)
                                  \/ SecretLiteralGuard(rc) \/ AuthCredentialScriptGuard(rc)
                                  \/ BlanketAdd(rc)
  BY <1>2, <1>4
<1>17. \/ StagesBroadly(k) \/ LooksLikeADump(k)
       \/ AsTool(k).barred <=> AsCommand(k).barred
       \/ \E cls \in AsTool(k).classes : cls \in Forbidden
  BY <1>11, <1>12, <1>13, <1>14, <1>15, <1>16 DEF Forbidden
<1> QED BY <1>10, <1>12, <1>13, <1>14, <1>15, <1>16, <1>17

(* However a git operation is spelled, the gateway decides alike and names   *)
(* the same grant, whatever the owner has granted and approved: one spelling *)
(* cannot be used to get around what the other is refused, but for the two   *)
(* exceptions in which the code looks at one of them only.                   *)
THEOREM GitSpellingsAreEqual == Spec => []GitIsGitInTheShell
<1>1. GitIsGitInTheShell
  <2> SUFFICES ASSUME NEW s \in GitSpellings
               PROVE  /\ s.broadly => ~Allows(s.command)
                      /\ s.dump => ~Allows(s.tool)
                      /\ ~s.broadly /\ ~s.dump => (Allows(s.tool) <=> Allows(s.command))
                      /\ Allows(s.tool) /\ Allows(s.command) =>
                            GrantedBy(s.tool) = GrantedBy(s.command)
    BY DEF GitIsGitInTheShell
  <2>1. PICK k \in GitCases : /\ s.tool = AsTool(k) /\ s.command = AsCommand(k)
                              /\ s.broadly = StagesBroadly(k) /\ s.dump = LooksLikeADump(k)
    BY DEF GitSpellings
  <2>2. /\ s.tool.classes = s.command.classes /\ s.tool.files = s.command.files
        /\ s.broadly => s.command.barred
        /\ s.dump => s.tool.barred
        /\ \/ s.broadly \/ s.dump
           \/ s.tool.barred <=> s.command.barred
           \/ \E cls \in s.tool.classes : cls \in Forbidden
    BY <2>1, GitClassifiedAlike
  <2>3. /\ s.broadly => ~Allows(s.command)
        /\ s.dump => ~Allows(s.tool)
    BY <2>2 DEF Allows
  <2>4. CASE \E cls \in s.tool.classes : cls \in Forbidden
    BY <2>2, <2>3, <2>4, ForbiddenIsForbidden DEF Allows
  <2>5. CASE s.broadly \/ s.dump \/ (s.tool.barred <=> s.command.barred)
    <3>1. GrantedBy(s.tool) = GrantedBy(s.command)
      BY <2>2 DEF GrantedBy
    <3>2. ~s.broadly /\ ~s.dump => (Allows(s.tool) <=> Allows(s.command))
      BY <2>2, <2>5 DEF Allows, InFileScope
    <3> QED BY <2>3, <3>1, <3>2
  <2> QED BY <2>2, <2>4, <2>5
<1> QED BY <1>1, PTL

-----------------------------------------------------------------------------
(* ProviderAdapter. Before the first tool call nothing is known of the run   *)
(* (Untouched); during the tool calls the calls are a prefix of one          *)
(* response's proposals, one answer behind (InTheLoop); afterwards nothing   *)
(* but a status is written.                                                  *)

\* The calls made so far are the first proposals of the response.
CallsFollow ==
    /\ content # NoContent
    /\ Len(calls) <= Len(ToolProposals(content))
    /\ \A i \in 1 .. Len(calls) : calls[i] = ToolProposals(content)[i]

AllSucceeded == \A i \in 1 .. Len(outcomes) : outcomes[i] = "SUCCEEDED"

\* Up to the response nothing was called and nothing completed.
Untouched ==
    pc \in {"idle", "calling", "waiting"} =>
        calls = <<>> /\ outcomes = <<>> /\ status # "COMPLETED"

\* Nobody aborts a run before execute has registered it.
NotYetAborted == pc = "idle" => ~aborted /\ timer = "off"

\* A wait is followed by another attempt only when one is left.
AttemptsLeft == pc = "waiting" => attempt < MaxRetries - 1

\* In the tool loop, the last call has no answer yet.
InTheLoop ==
    pc = "tools" =>
        /\ status # "COMPLETED"
        /\ CallsFollow /\ ~Malformed(content)
        /\ Len(calls) = Len(outcomes) + 1
        /\ runStatus = "COMPLETED" => AllSucceeded

\* A completion, and having seen one, means that the results are there.
ResultsAreThere ==
    (status = "COMPLETED" \/ seen.status = "COMPLETED") =>
        /\ pc = "returned"
        /\ artifacts = "response" /\ usage = "response"
        /\ "model" \in evidence

AdapterInv ==
    /\ AdapterTypeOK
    /\ NotYetAborted /\ Untouched /\ AttemptsLeft /\ InTheLoop
    /\ ToolsAreNotRetried /\ CompletedDidEverything
    /\ ResultsAreThere /\ CompletedIsReadWhole

------------------------------------------------------------------------------
\* The parser returns a list of proposals, and only well-formed ones.
LEMMA ProposalsAreAList ==
    ASSUME NEW c \in Contents
    PROVE  ToolProposals(c) \in Seq(Proposal)
BY ContentsAssumption DEF ToolProposals, Content

\* Initially nothing has happened.
LEMMA AdapterInitHolds == AdapterInit => AdapterInv
<1> SUFFICES ASSUME AdapterInit PROVE AdapterInv
    OBVIOUS
<1> USE DEF AdapterInit
<1>1. AdapterTypeOK
  <2>1. attempt \in 0 .. MaxRetries - 1
    BY MaxRetriesAssumption
  <2>2. calls \in Seq(Proposal) /\ outcomes \in Seq(ToolStatuses)
    OBVIOUS
  <2>3. seen \in [status : RunStatuses, artifacts : Results,
                  evidence : SUBSET EvidenceTags, usage : Results]
    BY DEF RunStatuses, Results
  <2> QED
    BY <2>1, <2>2, <2>3, Zenon DEF AdapterTypeOK, RunStatuses, Results, Errors
<1>2. NotYetAborted /\ Untouched /\ AttemptsLeft /\ InTheLoop
    BY DEF NotYetAborted, Untouched, AttemptsLeft, InTheLoop
<1>3. ToolsAreNotRetried /\ CompletedDidEverything
    BY DEF ToolsAreNotRetried, CompletedDidEverything
<1>4. ResultsAreThere /\ CompletedIsReadWhole
    BY DEF ResultsAreThere, CompletedIsReadWhole
<1> QED
    BY <1>1, <1>2, <1>3, <1>4 DEF AdapterInv

------------------------------------------------------------------------------
\* execute keeps the invariant.
LEMMA ExecuteKeeps == AdapterInv /\ Execute => AdapterInv'
<1> SUFFICES ASSUME AdapterInv, Execute PROVE AdapterInv'
    OBVIOUS
<1> USE DEF AdapterInv, Execute, input, engine
<1>1. AdapterTypeOK'
  <2>1. status' \in RunStatuses /\ evidence' \subseteq EvidenceTags
    BY DEF AdapterTypeOK, RunStatuses, EvidenceTags
  <2> QED
    BY <2>1, ZenonT(60) DEF AdapterTypeOK
<1>2. (NotYetAborted /\ Untouched /\ AttemptsLeft /\ InTheLoop)'
    BY DEF NotYetAborted, Untouched, AttemptsLeft, InTheLoop
<1>3. (ToolsAreNotRetried /\ CompletedDidEverything)'
    BY DEF Untouched, ToolsAreNotRetried, CompletedDidEverything
<1>4. (ResultsAreThere /\ CompletedIsReadWhole)'
    BY DEF ResultsAreThere, CompletedIsReadWhole
<1> QED
    BY <1>1, <1>2, <1>3, <1>4

\* A response keeps it: the first call is the first proposal.
LEMMA AnswerKeeps ==
    ASSUME NEW c \in Contents, AdapterInv, ProviderAnswers(c) PROVE AdapterInv'
<1> USE DEF AdapterInv, ProviderAnswers, input, engine, ReturnWith, Settle
<1>0. /\ ToolProposals(c) \in Seq(Proposal) /\ c # NoContent
      /\ calls = <<>> /\ outcomes = <<>> /\ status # "COMPLETED"
      /\ seen.status # "COMPLETED"
    BY ProposalsAreAList, ContentsAssumption DEF Untouched, ResultsAreThere
<1>1. CASE ToolProposals(c) # <<>> /\ pc' = "tools"
  <2>1. /\ calls' = <<Head(ToolProposals(c))>> /\ Len(calls') = 1
        /\ calls'[1] = ToolProposals(c)[1] /\ Head(ToolProposals(c)) \in Proposal
        /\ Len(ToolProposals(c)) >= 1
        /\ UNCHANGED <<status, artifacts, evidence, usage>> /\ ~Malformed(c)
    BY <1>0, <1>1
  <2>2. AdapterTypeOK'
    BY <1>0, <1>1, <2>1 DEF AdapterTypeOK
  <2>3. CallsFollow'
    BY <1>0, <2>1 DEF CallsFollow
  <2>4. (NotYetAborted /\ Untouched /\ AttemptsLeft /\ InTheLoop)'
    BY <1>0, <1>1, <2>1, <2>3 DEF NotYetAborted, Untouched, AttemptsLeft, InTheLoop, AllSucceeded
  <2>5. (ToolsAreNotRetried /\ CompletedDidEverything)'
    BY <1>0, <1>1, <2>1, <2>3 DEF CallsFollow, ToolsAreNotRetried, CompletedDidEverything
  <2>6. (ResultsAreThere /\ CompletedIsReadWhole)'
    BY <1>0, <2>1 DEF ResultsAreThere, CompletedIsReadWhole
  <2> QED
    BY <2>2, <2>4, <2>5, <2>6
<1>2. CASE pc' = "returned" /\ UNCHANGED calls
  <2>0. /\ status' \in RunStatuses /\ evidence' \subseteq EvidenceTags
        /\ artifacts' \in Results /\ usage' \in Results
    BY <1>2 DEF AdapterTypeOK, RunStatuses, EvidenceTags, Results
  <2>1. AdapterTypeOK'
    BY <1>0, <1>2, <2>0 DEF AdapterTypeOK
  <2>2. (NotYetAborted /\ Untouched /\ AttemptsLeft /\ InTheLoop)'
    BY <1>2 DEF NotYetAborted, Untouched, AttemptsLeft, InTheLoop
  <2>3. ToolsAreNotRetried'
    BY <1>0, <1>2 DEF ToolsAreNotRetried
  <2>4. CompletedDidEverything'
    BY <1>0, <1>2 DEF CompletedDidEverything
  <2>5. (ResultsAreThere /\ CompletedIsReadWhole)'
    BY <1>0, <1>2 DEF ResultsAreThere, CompletedIsReadWhole
  <2> QED
    BY <2>1, <2>2, <2>3, <2>4, <2>5
<1> QED
    BY <1>1, <1>2

\* An answer of the gateway keeps it: the next call is the next proposal,
\* and only unbroken success settles as COMPLETED.
LEMMA GatewayKeeps ==
    ASSUME NEW s \in ToolStatuses, AdapterInv, GatewayReturns(s) PROVE AdapterInv'
<1> USE DEF AdapterInv, GatewayReturns, input, engine, Settle
<1> DEFINE P == ToolProposals(content)
<1>0. /\ content \in Contents /\ P \in Seq(Proposal)
      /\ calls \in Seq(Proposal) /\ outcomes \in Seq(ToolStatuses)
      /\ Len(calls) = Len(outcomes) + 1 /\ CallsFollow /\ ~Malformed(content)
      /\ status # "COMPLETED" /\ seen.status # "COMPLETED"
      /\ content' = content
    BY ProposalsAreAList DEF InTheLoop, ResultsAreThere, AdapterTypeOK, CallsFollow
<1>1. /\ outcomes' \in Seq(ToolStatuses) /\ Len(outcomes') = Len(outcomes) + 1
      /\ outcomes'[Len(outcomes) + 1] = s
      /\ \A i \in 1 .. Len(outcomes) : outcomes'[i] = outcomes[i]
    BY <1>0
<1>2. runStatus' \in {"COMPLETED", "FAILED", "CANCELLED"}
    BY DEF AdapterTypeOK, Worsen
<1>3. runStatus' = "COMPLETED" => AllSucceeded'
  <2> SUFFICES ASSUME runStatus' = "COMPLETED" PROVE AllSucceeded'
    OBVIOUS
  <2>1. runStatus = "COMPLETED" /\ s = "SUCCEEDED"
    BY DEF Worsen, ToolStatuses, AdapterTypeOK
  <2>2. AllSucceeded
    BY <2>1 DEF InTheLoop
  <2> QED
    BY <1>0, <1>1, <2>1, <2>2 DEF AllSucceeded
<1>4. CASE Len(calls) < Len(P) /\ calls' = Append(calls, P[Len(calls) + 1])
           /\ UNCHANGED <<pc, status, artifacts, evidence, usage>>
  <2>1. /\ P[Len(calls) + 1] \in Proposal
        /\ calls' \in Seq(Proposal) /\ Len(calls') = Len(calls) + 1
        /\ calls'[Len(calls) + 1] = P[Len(calls) + 1]
        /\ \A i \in 1 .. Len(calls) : calls'[i] = calls[i]
    BY <1>0, <1>4
  <2>2. AdapterTypeOK'
    BY <1>1, <1>2, <1>4, <2>1 DEF AdapterTypeOK
  <2>3. CallsFollow'
    BY <1>0, <1>4, <2>1 DEF CallsFollow
  <2>4. (NotYetAborted /\ Untouched /\ AttemptsLeft /\ InTheLoop)'
    BY <1>0, <1>1, <1>3, <1>4, <2>1, <2>3 DEF NotYetAborted, Untouched, AttemptsLeft, InTheLoop
  <2>5. (ToolsAreNotRetried /\ CompletedDidEverything)'
    BY <1>0, <1>4, <2>3 DEF CallsFollow, ToolsAreNotRetried, CompletedDidEverything
  <2>6. (ResultsAreThere /\ CompletedIsReadWhole)'
    BY <1>0, <1>4 DEF ResultsAreThere, CompletedIsReadWhole
  <2> QED
    BY <2>2, <2>4, <2>5, <2>6
<1>5. CASE Len(calls) = Len(P) /\ Settle(runStatus', notes') /\ UNCHANGED calls
  <2>1. calls = P
    BY <1>0, <1>5 DEF CallsFollow
  <2>2. AdapterTypeOK'
    <3>1. notes' \subseteq {"retry", "denial"}
      BY DEF AdapterTypeOK
    <3>2. /\ status' \in RunStatuses /\ evidence' \subseteq EvidenceTags
          /\ artifacts' \in Results /\ usage' \in Results
      BY <1>2, <1>5, <3>1 DEF RunStatuses, EvidenceTags, Results
    <3> QED
      BY <1>1, <1>2, <1>5, <3>1, <3>2 DEF AdapterTypeOK
  <2>3. (NotYetAborted /\ Untouched /\ AttemptsLeft /\ InTheLoop)'
    BY <1>5 DEF NotYetAborted, Untouched, AttemptsLeft, InTheLoop
  <2>4. ToolsAreNotRetried'
    BY <1>0, <1>5 DEF CallsFollow, ToolsAreNotRetried
  <2>5. CompletedDidEverything'
    BY <1>0, <1>1, <1>3, <1>5, <2>1 DEF CompletedDidEverything, CallsFollow, AllSucceeded
  <2>6. (ResultsAreThere /\ CompletedIsReadWhole)'
    BY <1>0, <1>5 DEF ResultsAreThere, CompletedIsReadWhole
  <2> QED
    BY <2>2, <2>3, <2>4, <2>5, <2>6
<1> QED
    BY <1>4, <1>5

\* A step that ends performExecution without results, from the provider call
\* or from the tool loop, keeps it.
LEMMA EndKeeps ==
    ASSUME AdapterInv, pc \in {"calling", "tools"}, pc' = "returned",
           status' \in RunStatuses \ {"COMPLETED"} , evidence' \subseteq EvidenceTags,
           notes' \subseteq {"retry", "denial"}, lastError' \in Errors,
           UNCHANGED <<input, artifacts, usage, aborted, attempt, content, runStatus,
                       calls, outcomes, timer, engine>>
    PROVE  AdapterInv'
<1> USE DEF AdapterInv, input, engine
<1>1. AdapterTypeOK'
    BY DEF AdapterTypeOK
<1>2. (NotYetAborted /\ Untouched /\ AttemptsLeft /\ InTheLoop)'
    BY DEF NotYetAborted, Untouched, AttemptsLeft, InTheLoop
<1>3. (ToolsAreNotRetried /\ CompletedDidEverything)'
    BY DEF ToolsAreNotRetried, CompletedDidEverything
<1>4. seen.status # "COMPLETED"
    BY DEF ResultsAreThere
<1>5. (ResultsAreThere /\ CompletedIsReadWhole)'
    BY <1>4 DEF ResultsAreThere, CompletedIsReadWhole
<1> QED
    BY <1>1, <1>2, <1>3, <1>5

\* Neither performExecution's errors nor an aborted call settle a run as
\* COMPLETED: it was not COMPLETED before.
LEMMA NotYetCompleted ==
    ASSUME AdapterInv, pc \in {"calling", "tools", "waiting"}
    PROVE  status \in RunStatuses \ {"COMPLETED"} /\ seen.status # "COMPLETED"
BY DEF AdapterInv, ResultsAreThere, AdapterTypeOK

\* A refusal of the provider keeps it.
LEMMA RefusalKeeps ==
    ASSUME NEW g \in {"INTERRUPTED", "FAILED"}, AdapterInv, ProviderRefuses(g) PROVE AdapterInv'
<1> USE DEF ProviderRefuses
<1>0. pc = "calling" /\ notes' \subseteq {"retry", "denial"} /\ lastError' \in Errors
    BY DEF AdapterInv, AdapterTypeOK, Errors
<1>1. CASE pc' = "returned"
  <2>1. status' \in RunStatuses \ {"COMPLETED"} /\ evidence' \subseteq EvidenceTags
        /\ UNCHANGED <<artifacts, usage>>
    BY <1>0, <1>1 DEF ReturnWith, RunStatuses, EvidenceTags
  <2> QED
    BY <1>0, <1>1, <2>1, EndKeeps
<1>2. CASE pc' = "waiting"
  <2> USE DEF AdapterInv, input, engine
  <2>0. attempt < MaxRetries - 1 /\ UNCHANGED <<status, artifacts, evidence, usage>>
    BY <1>2 DEF ReturnWith
  <2>1. AdapterTypeOK'
    BY <1>0, <1>2, <2>0 DEF AdapterTypeOK
  <2>2. (NotYetAborted /\ Untouched /\ AttemptsLeft /\ InTheLoop)'
    BY <1>0, <1>2, <2>0 DEF NotYetAborted, Untouched, AttemptsLeft, InTheLoop
  <2>3. (ToolsAreNotRetried /\ CompletedDidEverything)'
    BY <1>0, <2>0 DEF Untouched, ToolsAreNotRetried, CompletedDidEverything
  <2>4. (ResultsAreThere /\ CompletedIsReadWhole)'
    BY <1>0, <2>0 DEF ResultsAreThere, CompletedIsReadWhole
  <2> QED
    BY <2>1, <2>2, <2>3, <2>4
<1> QED
    BY <1>1, <1>2 DEF ReturnWith

\* An error, an aborted call keep it.
LEMMA ErrorKeeps ==
    ASSUME AdapterInv, ProviderFails \/ GatewayThrows \/ ProviderAborts PROVE AdapterInv'
<1>1. pc \in {"calling", "tools"}
    BY DEF ProviderFails, GatewayThrows, ProviderAborts
<1>2. status \in RunStatuses \ {"COMPLETED"}
    BY <1>1, NotYetCompleted
<1>3. /\ UNCHANGED <<input, artifacts, usage, aborted, attempt, content, runStatus,
                      notes, calls, outcomes, timer, engine>>
      /\ pc' = "returned"
      /\ status' \in RunStatuses \ {"COMPLETED"} /\ evidence' = evidence
      /\ lastError' \in Errors
    BY <1>2 DEF ProviderFails, GatewayThrows, ProviderAborts, OtherError, ReturnSilently,
                ReturnWith, RunStatuses, Errors
<1>4. evidence \subseteq EvidenceTags /\ notes \subseteq {"retry", "denial"}
    BY DEF AdapterInv, AdapterTypeOK
<1> QED
    BY <1>1, <1>3, <1>4, EndKeeps

\* The end of the wait before an attempt keeps it.
LEMMA AttemptKeeps == AdapterInv /\ NextAttempt => AdapterInv'
<1> SUFFICES ASSUME AdapterInv, NextAttempt PROVE AdapterInv'
    OBVIOUS
<1> USE DEF AdapterInv, NextAttempt, input, run, engine
<1>1. AdapterTypeOK'
    BY MaxRetriesAssumption DEF AdapterTypeOK, AttemptsLeft
<1>2. (NotYetAborted /\ Untouched /\ AttemptsLeft /\ InTheLoop)'
    BY DEF NotYetAborted, Untouched, AttemptsLeft, InTheLoop
<1>3. (ToolsAreNotRetried /\ CompletedDidEverything)'
    BY DEF Untouched, ToolsAreNotRetried, CompletedDidEverything
<1>4. (ResultsAreThere /\ CompletedIsReadWhole)'
    BY DEF ResultsAreThere, CompletedIsReadWhole, Untouched
<1> QED
    BY <1>1, <1>2, <1>3, <1>4

\* The timer and a cancellation keep it: they never write COMPLETED and
\* never take a result away.
LEMMA AbortKeeps == AdapterInv /\ (TimerFires \/ Cancel) => AdapterInv'
<1> SUFFICES ASSUME AdapterInv, TimerFires \/ Cancel PROVE AdapterInv'
    OBVIOUS
<1> USE DEF AdapterInv, TimerFires, Cancel, input, locals, engine
<1>1. AdapterTypeOK'
  <2>1. status' \in RunStatuses /\ evidence' \subseteq EvidenceTags
    BY DEF AdapterTypeOK, RunStatuses, EvidenceTags
  <2> QED
    BY <2>1, ZenonT(60) DEF AdapterTypeOK
<1>2. (NotYetAborted /\ Untouched /\ AttemptsLeft /\ InTheLoop)'
    BY DEF NotYetAborted, Untouched, AttemptsLeft, InTheLoop, CallsFollow, AllSucceeded
<1>3. (ToolsAreNotRetried /\ CompletedDidEverything)'
    BY DEF ToolsAreNotRetried, CompletedDidEverything
<1>4. (ResultsAreThere /\ CompletedIsReadWhole)'
    BY DEF ResultsAreThere, CompletedIsReadWhole
<1> QED
    BY <1>1, <1>2, <1>3, <1>4

\* The engine's reads keep it: what they see is there, and stays.
LEMMA ReadKeeps ==
    AdapterInv /\ (GetStatus \/ GetArtifacts \/ GetEvidence \/ GetUsage) => AdapterInv'
<1> SUFFICES ASSUME AdapterInv, GetStatus \/ GetArtifacts \/ GetEvidence \/ GetUsage PROVE AdapterInv'
    OBVIOUS
<1> USE DEF AdapterInv, GetStatus, GetArtifacts, GetEvidence, GetUsage, input, run, locals
<1>1. AdapterTypeOK'
    BY DEF AdapterTypeOK
<1>2. (NotYetAborted /\ Untouched /\ AttemptsLeft /\ InTheLoop)'
    BY DEF NotYetAborted, Untouched, AttemptsLeft, InTheLoop, CallsFollow, AllSucceeded
<1>3. (ToolsAreNotRetried /\ CompletedDidEverything)'
    BY DEF ToolsAreNotRetried, CompletedDidEverything
<1>4. (ResultsAreThere /\ CompletedIsReadWhole)'
    BY DEF ResultsAreThere, CompletedIsReadWhole, AdapterTypeOK
<1> QED
    BY <1>1, <1>2, <1>3, <1>4

\* Nothing changes in a stuttering step.
LEMMA AdapterStutterKeeps == AdapterInv /\ UNCHANGED adapterVars => AdapterInv'
BY DEF AdapterInv, adapterVars, input, run, locals, engine, AdapterTypeOK, NotYetAborted, Untouched,
       AttemptsLeft, InTheLoop, CallsFollow, AllSucceeded, ToolsAreNotRetried,
       CompletedDidEverything, ResultsAreThere, CompletedIsReadWhole

LEMMA AdapterNextKeeps == AdapterInv /\ [AdapterNext]_adapterVars => AdapterInv'
<1> SUFFICES ASSUME AdapterInv, [AdapterNext]_adapterVars PROVE AdapterInv'
    OBVIOUS
<1>1. CASE Execute \/ TimerFires \/ Cancel
    BY <1>1, ExecuteKeeps, AbortKeeps
<1>2. CASE PerformExecution
    BY <1>2, AnswerKeeps, RefusalKeeps, ErrorKeeps, GatewayKeeps, AttemptKeeps
    DEF PerformExecution
<1>3. CASE ProviderAborts
    BY <1>3, ErrorKeeps
<1>4. CASE GetStatus \/ GetArtifacts \/ GetEvidence \/ GetUsage
    BY <1>4, ReadKeeps
<1>5. CASE UNCHANGED adapterVars
    BY <1>5, AdapterStutterKeeps
<1> QED
    BY <1>1, <1>2, <1>3, <1>4, <1>5
    DEF AdapterNext, CodexExecute, CodexPerformExecution, CodexCancel, AnthropicExecute,
        AnthropicPerformExecution, AnthropicCancel, GeminiExecute,
        GeminiPerformExecution, GeminiCancel

\* The inductive invariant holds of every behaviour.
LEMMA AdapterInvariance == AdapterSpec => []AdapterInv
BY AdapterInitHolds, AdapterNextKeeps, PTL DEF AdapterSpec

------------------------------------------------------------------------------
\* The run state and the locals of performExecution keep their types; in
\* particular no run makes more than MAX_RETRIES attempts.
THEOREM AdapterTypeCorrect == AdapterSpec => []AdapterTypeOK
<1>1. AdapterInv => AdapterTypeOK
    BY DEF AdapterInv
<1> QED
    BY <1>1, AdapterInvariance, PTL

\* For any responses and any number of attempts, no proposal reaches the
\* gateway twice, or out of order, or from two responses.
THEOREM ToolCallsHappenOnce == AdapterSpec => []ToolsAreNotRetried
<1>1. AdapterInv => ToolsAreNotRetried
    BY DEF AdapterInv
<1> QED
    BY <1>1, AdapterInvariance, PTL

\* A run is COMPLETED only after a well-formed response whose proposals were
\* all handed to the gateway and all succeeded.
THEOREM CompletionIsEarned == AdapterSpec => []CompletedDidEverything
<1>1. AdapterInv => CompletedDidEverything
    BY DEF AdapterInv
<1> QED
    BY <1>1, AdapterInvariance, PTL

\* An engine that saw COMPLETED reads the results of that completion in its
\* later awaits, whatever the timer and cancel do meanwhile.
THEOREM CompletionIsReadWhole == AdapterSpec => []CompletedIsReadWhole
<1>1. AdapterInv => CompletedIsReadWhole
    BY DEF AdapterInv
<1> QED
    BY <1>1, AdapterInvariance, PTL

\* After an abort no step begins a provider call.
THEOREM AbortsAreFinal == AdapterSpec => AbortStopsRequests
<1>1. AdapterInv /\ [AdapterNext]_adapterVars => [aborted => (pc' = "calling" => pc = "calling")]_adapterVars
  <2> SUFFICES ASSUME AdapterInv, AdapterNext, aborted, pc' = "calling" PROVE pc = "calling"
    OBVIOUS
  <2>1. CASE GetStatus \/ GetArtifacts \/ GetEvidence \/ GetUsage \/ TimerFires \/ Cancel
    BY <2>1 DEF GetStatus, GetArtifacts, GetEvidence, GetUsage, TimerFires, Cancel, locals
  <2>2. CASE Execute
    BY <2>2 DEF Execute, AdapterInv, NotYetAborted
  <2>3. CASE PerformExecution \/ ProviderAborts
    BY <2>3 DEF PerformExecution, ProviderAborts, ProviderAnswers, ProviderRefuses,
                ProviderFails, GatewayReturns, GatewayThrows, NextAttempt, OtherError,
                ReturnSilently, ReturnWith, Settle
  <2> QED
    BY <2>1, <2>2, <2>3
    DEF AdapterNext, CodexExecute, CodexPerformExecution, CodexCancel, AnthropicExecute,
        AnthropicPerformExecution, AnthropicCancel, GeminiExecute,
        GeminiPerformExecution, GeminiCancel
<1> QED
    BY <1>1, AdapterInvariance, PTL DEF AdapterSpec, AbortStopsRequests
=============================================================================
