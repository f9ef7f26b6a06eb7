---------------------------- MODULE RuntimePolicy ----------------------------
(***************************************************************************)
(* The runtime policy path of the gateway: what one model request does     *)
(* between route selection and its answer.                                 *)
(*                                                                         *)
(*   budget preflight -> quota preflight -> provider call                  *)
(*     -> attempt and usage evidence -> terminal quota and budget work     *)
(*     -> release of the reservations                                      *)
(*                                                                         *)
(* Requests run concurrently with each other, with the background          *)
(* reconciler, with the clock, and with the loss of the hot state. Every   *)
(* call on the policy store is one step, because the store takes and drops *)
(* its lock inside the call; what a request read before such a step it     *)
(* keeps in a local variable.                                              *)
(*                                                                         *)
(* The store is the in-process RuntimePolicyRepository. A policy is an     *)
(* index: the order of the indices is the order of the repository's list.  *)
(***************************************************************************)
EXTENDS Integers, FiniteSets

CONSTANTS
    Requests,       \* runtime requests that may arrive
    Turns,          \* those that are turns of a Responses WebSocket
    Streaming,      \* those whose replay case streams
    Routed,         \* those for which a published catalog selected a route
    RequestId,      \* the x-request-id each one carries
    Tokens,         \* the tokens the provider reports for each one
    BodyBytes,      \* the size of each request body
    NB,             \* budget policies are 1..NB
    BKind,          \* limit_kind: "requests", or "usage" (tokens and cost)
    BLimit,         \* hard_limit
    BMatch,         \* the requests in the policy's scope
    BPeriod,        \* period key of a policy at a time
    BThresholds,    \* soft limit, hard limit and custom thresholds
    BEnforced,      \* active policies whose overage mode blocks new requests
    Forceable,      \* budget policies an operator may force-block
    NQ,             \* quota policies are 1..NQ
    QKind,          \* counter_kind
    QLimit,         \* limit
    QBurst,         \* burst_limit, 0 when absent
    QLoss,          \* loss_behavior
    QMatch,         \* the requests in the policy's scope
    QSlot,          \* window slot of a policy at a time
    LeaseTTL,       \* RUNTIME_BUDGET_LEASE_TTL_SECONDS, in clock ticks
    RequestTimeout, \* ticks after its preflight at which a request is dropped
    LastArrival,    \* bound: no request arrives after this time
    MayLoseHotState \* whether the hot state can become unavailable

BudgetPolicies == 1..NB
QuotaPolicies  == 1..NQ
MaxTime        == LastArrival + LeaseTTL
Times          == 0..MaxTime

ConcurrencyKinds == {"concurrent_request", "concurrent_stream"}
UsageKinds       == {"token_actual_rate", "stream_duration"}
StreamKinds      == {"concurrent_stream", "stream_duration"}
QuotaKinds       == ConcurrencyKinds \cup UsageKinds
                      \cup {"request_rate", "request_body_bytes"}

ASSUME RequestAssumption ==
    /\ IsFiniteSet(Requests)
    /\ Turns \subseteq Requests
    /\ Streaming \subseteq Requests
    /\ Routed \subseteq Requests
    /\ Tokens \in [Requests -> Nat]
    /\ BodyBytes \in [Requests -> Nat]
    /\ DOMAIN RequestId = Requests

ASSUME ClockAssumption ==
    /\ LeaseTTL \in Nat
    /\ RequestTimeout \in Nat
    /\ LastArrival \in Nat
    /\ MayLoseHotState \in BOOLEAN

ASSUME BudgetAssumption ==
    /\ NB \in Nat
    /\ BKind \in [BudgetPolicies -> {"requests", "usage"}]
    /\ BLimit \in [BudgetPolicies -> Nat]
    /\ BMatch \in [BudgetPolicies -> SUBSET Requests]
    /\ BPeriod \in [BudgetPolicies -> [Times -> Times]]
    /\ BThresholds \in [BudgetPolicies -> SUBSET Nat]
    /\ BEnforced \subseteq BudgetPolicies
    /\ Forceable \subseteq BudgetPolicies

ASSUME QuotaAssumption ==
    /\ NQ \in Nat
    /\ QKind \in [QuotaPolicies -> QuotaKinds]
    /\ QLimit \in [QuotaPolicies -> Nat]
    /\ QBurst \in [QuotaPolicies -> Nat]
    /\ QLoss \in [QuotaPolicies -> {"fail_open", "fail_limited", "fail_closed"}]
    /\ QMatch \in [QuotaPolicies -> SUBSET Requests]
    /\ QSlot \in [QuotaPolicies -> [Times -> Times]]

VARIABLES
    \* environment
    now, hotAvailable, forced,
    \* RuntimePolicyRepository
    budgetCounter, lease, quotaCounter, lossCounter,
    \* evidence and ledger
    attempt, events, ledger, durable, notified,
    \* locals of a request
    pc, outcome, startedAt, endedAt, snap, todo, held,
    qAvail, qtodo, qheld,
    \* locals of the reconciler
    rpc, rnow, expiring, rdurable, rtodo, rread

envVars      == <<now, hotAvailable, forced>>
storeVars    == <<budgetCounter, lease, quotaCounter, lossCounter>>
evidenceVars == <<attempt, events, ledger, durable, notified>>
budgetLocals == <<startedAt, endedAt, snap, todo, held>>
quotaLocals  == <<qAvail, qtodo, qheld>>
controlVars  == <<pc, outcome>>
requestVars  == <<controlVars, budgetLocals, quotaLocals>>
reconVars    == <<rpc, rnow, expiring, rdurable, rtodo, rread>>
vars == <<envVars, storeVars, evidenceVars, requestVars, reconVars>>

LeaseStatus == {"none", "reserved", "released", "expired"}
Outcomes    == {"none", "blocked", "failed", "completed", "error", "cancelled"}
PCs == {"idle", "budget", "lease_record", "budget_rollback",
        "quota_limits", "quota_reserve", "quota_rollback", "quota_unwind",
        "provider", "failed_attempt", "attempt", "usage", "usage_insert",
        "finalize_quota", "finalize_budget",
        "release_budget", "lease_decrement", "release_quota",
        "block", "done"}
ReconPCs == {"idle", "expire", "quota", "adjust"}

IsLeast(x, S) == x \in S /\ \A y \in S : x <= y

\* Mutant: the delta is applied with the wrong sign, and no floor.
AdjustReversed(c, d) == c - d

\* i64::saturating_add followed by max(0): a counter never goes below zero.
Adjust(c, d) == IF c + d < 0 THEN 0 ELSE c + d

AdjustBudget(p, k, d) == [budgetCounter EXCEPT ![p][k] = Adjust(@, d)]
AdjustQuota(q, s, d)  == [quotaCounter EXCEPT ![q][s] = Adjust(@, d)]
AdjustLoss(q, s, d)   == [lossCounter EXCEPT ![q][s] = Adjust(@, d)]

\* runtime_budget_reservation_key and runtime_quota_counter_key use the `now`
\* that the preflight was called with.
BudgetKey(r, p) == BPeriod[p][startedAt[r]]
QuotaKey(r, q)  == QSlot[q][startedAt[r]]

GoTo(r, label) == pc' = [pc EXCEPT ![r] = label]
Outcome(r, o)  == outcome' = [outcome EXCEPT ![r] = o]

\* The ledger snapshot goes out of scope.
DropSnap(r) == snap' = [snap EXCEPT ![r] = [p \in BudgetPolicies |-> 0]]

Init ==
    /\ now = 0 /\ hotAvailable = TRUE /\ forced = {}
    /\ budgetCounter = [p \in BudgetPolicies |-> [k \in Times |-> 0]]
    /\ lease = [r \in Requests |-> [p \in BudgetPolicies |-> "none"]]
    /\ quotaCounter = [q \in QuotaPolicies |-> [s \in Times |-> 0]]
    /\ lossCounter = [q \in QuotaPolicies |-> [s \in Times |-> 0]]
    /\ attempt = [r \in Requests |-> "none"]
    /\ events = {}
    /\ ledger = [p \in BudgetPolicies |-> [k \in Times |-> 0]]
    /\ durable = [q \in QuotaPolicies |-> [s \in Times |-> 0]]
    /\ notified = {}
    /\ pc = [r \in Requests |-> "idle"]
    /\ outcome = [r \in Requests |-> "none"]
    /\ startedAt = [r \in Requests |-> 0]
    /\ endedAt = [r \in Requests |-> 0]
    /\ snap = [r \in Requests |-> [p \in BudgetPolicies |-> 0]]
    /\ todo = [r \in Requests |-> {}]
    /\ held = [r \in Requests |-> {}]
    /\ qAvail = [r \in Requests |-> TRUE]
    /\ qtodo = [r \in Requests |-> {}]
    /\ qheld = [r \in Requests |-> {}]
    /\ rpc = "idle" /\ rnow = 0 /\ expiring = {}
    /\ rdurable = [q \in QuotaPolicies |-> 0]
    /\ rtodo = {} /\ rread = 0

-----------------------------------------------------------------------------
(* Budget preflight                                                        *)

\* The policies the loop does not `continue` over.
BudgetPoliciesFor(r) == {p \in BEnforced : r \in BMatch[p]}

ForceBlocked(r) == \E p \in forced : r \in BMatch[p]

\* The request enters enforce_runtime_policy_preflight: the force-block check,
\* and the one read of the ledger that every later comparison uses.
Arrive(r) ==
    /\ pc[r] = "idle" /\ now <= LastArrival
    /\ startedAt' = [startedAt EXCEPT ![r] = now]
    /\ \/ /\ ForceBlocked(r)
          /\ GoTo(r, "block") /\ Outcome(r, "blocked")
          /\ UNCHANGED <<snap, todo>>
       \/ /\ ~ForceBlocked(r)
          /\ snap' = [snap EXCEPT ![r] =
                        [p \in BudgetPolicies |-> ledger[p][BPeriod[p][now]]]]
          /\ todo' = [todo EXCEPT ![r] = BudgetPoliciesFor(r)]
          /\ GoTo(r, "budget")
          /\ UNCHANGED outcome
    /\ UNCHANGED <<envVars, storeVars, evidenceVars, endedAt, held,
                   quotaLocals, reconVars>>

BudgetExceeded(r, p) ==
    IF BKind[p] = "requests" THEN snap[r][p] + 1 > BLimit[p]
                             ELSE snap[r][p] >= BLimit[p]

\* hard_limit_reached: the leases taken for earlier policies are released.
BudgetReject(r) ==
    /\ pc[r] = "budget"
    /\ \E p \in todo[r] : IsLeast(p, todo[r]) /\ BudgetExceeded(r, p)
    /\ GoTo(r, "release_budget") /\ Outcome(r, "blocked")
    /\ UNCHANGED <<envVars, storeVars, evidenceVars, budgetLocals, quotaLocals,
                   reconVars>>

\* A token or cost policy reserves nothing.
BudgetPass(r) ==
    /\ pc[r] = "budget"
    /\ \E p \in todo[r] :
        /\ IsLeast(p, todo[r]) /\ BKind[p] = "usage" /\ ~BudgetExceeded(r, p)
        /\ todo' = [todo EXCEPT ![r] = @ \ {p}]
    /\ UNCHANGED <<envVars, storeVars, evidenceVars, pc, outcome, startedAt,
                   endedAt, snap, held, quotaLocals, reconVars>>

\* budget_hot_state_unavailable leaves through `?`: earlier leases stay.
BudgetHotStateLoss(r) ==
    /\ pc[r] = "budget" /\ ~hotAvailable
    /\ \E p \in todo[r] :
        IsLeast(p, todo[r]) /\ BKind[p] = "requests" /\ ~BudgetExceeded(r, p)
    /\ GoTo(r, "block") /\ Outcome(r, "blocked")
    /\ UNCHANGED <<envVars, storeVars, evidenceVars, budgetLocals, quotaLocals,
                   reconVars>>

\* Mutant: the counter as it was before the increment.
OverReservedLate(r, p) == snap[r][p] + budgetCounter[p][BudgetKey(r, p)] > BLimit[p]

\* The ledger value read at arrival plus the counter after the increment.
OverReserved(r, p) ==
    snap[r][p] + Adjust(budgetCounter[p][BudgetKey(r, p)], 1) > BLimit[p]

\* reserve_runtime_request_budget: increment, then compare the ledger value
\* read at arrival plus the counter just returned with the hard limit.
ReserveBudget(r) ==
    /\ pc[r] = "budget" /\ hotAvailable
    /\ \E p \in todo[r] :
        /\ IsLeast(p, todo[r]) /\ BKind[p] = "requests" /\ ~BudgetExceeded(r, p)
        /\ budgetCounter' = AdjustBudget(p, BudgetKey(r, p), 1)
        /\ IF OverReserved(r, p)
             THEN GoTo(r, "budget_rollback")
             ELSE GoTo(r, "lease_record")
    /\ UNCHANGED <<envVars, lease, quotaCounter, lossCounter, evidenceVars,
                   outcome, budgetLocals, quotaLocals, reconVars>>

\* Mutant: the refused increment stays.
RollbackBudgetForgotten(r) ==
    /\ pc[r] = "budget_rollback"
    /\ GoTo(r, "block") /\ Outcome(r, "blocked")
    /\ UNCHANGED <<envVars, storeVars, evidenceVars, budgetLocals, quotaLocals,
                   reconVars>>

\* hard_limit_reserved: only this policy's increment is undone; the error
\* leaves the caller's loop through `?`, so earlier leases stay reserved.
RollbackBudget(r) ==
    /\ pc[r] = "budget_rollback"
    /\ \E p \in todo[r] :
        IsLeast(p, todo[r]) /\ budgetCounter' = AdjustBudget(p, BudgetKey(r, p), -1)
    /\ GoTo(r, "block") /\ Outcome(r, "blocked")
    /\ UNCHANGED <<envVars, lease, quotaCounter, lossCounter, evidenceVars,
                   budgetLocals, quotaLocals, reconVars>>

RecordLease(r) ==
    /\ pc[r] = "lease_record"
    /\ \E p \in todo[r] :
        /\ IsLeast(p, todo[r])
        /\ lease' = [lease EXCEPT ![r][p] = "reserved"]
        /\ held' = [held EXCEPT ![r] = @ \cup {p}]
        /\ todo' = [todo EXCEPT ![r] = @ \ {p}]
    /\ GoTo(r, "budget")
    /\ UNCHANGED <<envVars, budgetCounter, quotaCounter, lossCounter,
                   evidenceVars, outcome, startedAt, endedAt, snap,
                   quotaLocals, reconVars>>

-----------------------------------------------------------------------------
(* Quota preflight                                                         *)

SkipsRequest(q, r) == QKind[q] \in StreamKinds /\ r \notin Streaming

QuotaPoliciesFor(r) ==
    {q \in QuotaPolicies : r \in QMatch[q] /\ ~SkipsRequest(q, r)}

\* The policies that the limits pass compares with something.
LimitChecked(r) ==
    {q \in QuotaPoliciesFor(r) : QKind[q] \in UsageKinds \cup {"request_body_bytes"}}

NeedsHotState(q) == QKind[q] # "request_body_bytes"

\* The policies that the reserve pass acts on.
ReserveChecked(r) ==
    {q \in QuotaPoliciesFor(r) :
        /\ NeedsHotState(q)
        /\ qAvail[r] => QKind[q] \notin UsageKinds}

\* The budget loop is over; the availability of the hot state is read once
\* for the whole quota preflight.
QuotaPreflight(r) ==
    /\ pc[r] = "budget" /\ todo[r] = {}
    /\ qAvail' = [qAvail EXCEPT ![r] = hotAvailable]
    /\ qtodo' = [qtodo EXCEPT ![r] = LimitChecked(r)]
    /\ GoTo(r, "quota_limits")
    /\ DropSnap(r)
    /\ UNCHANGED <<envVars, storeVars, evidenceVars, outcome, startedAt, endedAt,
                   todo, held, qheld, reconVars>>

QuotaLimitReached(r, q) ==
    \/ QKind[q] = "request_body_bytes" /\ BodyBytes[r] > QLimit[q]
    \/ /\ QKind[q] \in UsageKinds /\ qAvail[r]
       /\ quotaCounter[q][QuotaKey(r, q)] >= QLimit[q]

QuotaLimit(r) ==
    /\ pc[r] = "quota_limits"
    /\ \E q \in qtodo[r] :
        /\ IsLeast(q, qtodo[r])
        /\ \/ /\ QuotaLimitReached(r, q)
              /\ GoTo(r, "release_budget") /\ Outcome(r, "blocked")
              /\ qtodo' = [qtodo EXCEPT ![r] = {}]
           \/ /\ ~QuotaLimitReached(r, q)
              /\ qtodo' = [qtodo EXCEPT ![r] = @ \ {q}]
              /\ UNCHANGED <<pc, outcome>>
    /\ UNCHANGED <<envVars, storeVars, evidenceVars, budgetLocals, qAvail,
                   qheld, reconVars>>

QuotaReservePass(r) ==
    /\ pc[r] = "quota_limits" /\ qtodo[r] = {}
    /\ qtodo' = [qtodo EXCEPT ![r] = ReserveChecked(r)]
    /\ GoTo(r, "quota_reserve")
    /\ UNCHANGED <<envVars, storeVars, evidenceVars, outcome, budgetLocals,
                   qAvail, qheld, reconVars>>

\* Mutant: off by one.
OverLimitLate(value, limit) == value > limit + 1

\* The value an increment returned, against a limit or a burst allowance.
OverLimit(value, limit) == value > limit

\* increment_runtime_quota_counter: a denied request's increment stays.
QuotaRate(r) ==
    /\ pc[r] = "quota_reserve" /\ qAvail[r]
    /\ \E q \in qtodo[r] :
        LET s == QuotaKey(r, q) IN
        /\ IsLeast(q, qtodo[r]) /\ QKind[q] = "request_rate"
        /\ quotaCounter' = AdjustQuota(q, s, 1)
        /\ IF OverLimit(Adjust(quotaCounter[q][s], 1), QLimit[q])
             THEN GoTo(r, "quota_unwind") /\ UNCHANGED qtodo
             ELSE qtodo' = [qtodo EXCEPT ![r] = @ \ {q}] /\ UNCHANGED pc
    /\ UNCHANGED <<envVars, budgetCounter, lease, lossCounter, evidenceVars,
                   outcome, budgetLocals, qAvail, qheld, reconVars>>

\* reserve_runtime_quota_counter for concurrent requests and streams.
QuotaConcurrency(r) ==
    /\ pc[r] = "quota_reserve" /\ qAvail[r]
    /\ \E q \in qtodo[r] :
        LET s == QuotaKey(r, q) IN
        /\ IsLeast(q, qtodo[r]) /\ QKind[q] \in ConcurrencyKinds
        /\ quotaCounter' = AdjustQuota(q, s, 1)
        /\ IF OverLimit(Adjust(quotaCounter[q][s], 1), QLimit[q])
             THEN GoTo(r, "quota_rollback") /\ UNCHANGED <<qtodo, qheld>>
             ELSE /\ qheld' = [qheld EXCEPT ![r] = @ \cup {q}]
                  /\ qtodo' = [qtodo EXCEPT ![r] = @ \ {q}]
                  /\ UNCHANGED pc
    /\ UNCHANGED <<envVars, budgetCounter, lease, lossCounter, evidenceVars,
                   outcome, budgetLocals, qAvail, reconVars>>

\* Mutant: the refused slot is not given back.
RollbackQuotaForgotten(r) ==
    /\ pc[r] = "quota_rollback"
    /\ GoTo(r, "quota_unwind")
    /\ UNCHANGED <<envVars, storeVars, evidenceVars, outcome, budgetLocals,
                   quotaLocals, reconVars>>

RollbackQuota(r) ==
    /\ pc[r] = "quota_rollback"
    /\ \E q \in qtodo[r] :
        IsLeast(q, qtodo[r]) /\ quotaCounter' = AdjustQuota(q, QuotaKey(r, q), -1)
    /\ GoTo(r, "quota_unwind")
    /\ UNCHANGED <<envVars, budgetCounter, lease, lossCounter, evidenceVars,
                   outcome, budgetLocals, quotaLocals, reconVars>>

\* handle_runtime_quota_hot_state_loss. Its errors leave the loop through `?`,
\* so the quota reservations taken so far are not released; the budget leases
\* are, by enforce_runtime_policy_preflight.
QuotaHotStateLoss(r) ==
    /\ pc[r] = "quota_reserve" /\ ~qAvail[r]
    /\ \E q \in qtodo[r] :
        LET s == QuotaKey(r, q)
            refuse == GoTo(r, "release_budget") /\ Outcome(r, "blocked")
                        /\ UNCHANGED <<qtodo, qheld>>
            proceed == qtodo' = [qtodo EXCEPT ![r] = @ \ {q}]
                         /\ UNCHANGED <<pc, outcome>>
        IN
        /\ IsLeast(q, qtodo[r])
        /\ \/ /\ QLoss[q] = "fail_open"
              /\ proceed
              /\ UNCHANGED <<lossCounter, qheld>>
           \/ /\ QLoss[q] = "fail_closed" \/ (QLoss[q] = "fail_limited" /\ QBurst[q] = 0)
              /\ refuse
              /\ UNCHANGED lossCounter
           \/ /\ QLoss[q] = "fail_limited" /\ QBurst[q] > 0
              /\ lossCounter' = AdjustLoss(q, s, 1)
              /\ IF OverLimit(Adjust(lossCounter[q][s], 1), QBurst[q])
                   THEN refuse
                   ELSE /\ proceed
                        /\ qheld' = IF QKind[q] \in ConcurrencyKinds
                                      THEN [qheld EXCEPT ![r] = @ \cup {q}]
                                      ELSE qheld
    /\ UNCHANGED <<envVars, budgetCounter, lease, quotaCounter, evidenceVars,
                   budgetLocals, qAvail, reconVars>>

\* The preflight has succeeded; the provider is called.
Admit(r) ==
    /\ pc[r] = "quota_reserve" /\ qtodo[r] = {}
    /\ GoTo(r, "provider")
    /\ UNCHANGED <<envVars, storeVars, evidenceVars, outcome, budgetLocals,
                   quotaLocals, reconVars>>

-----------------------------------------------------------------------------
(* Release of reservations                                                 *)

\* release_runtime_budget_lease answers Some only for a reserved lease.
StillReserved(r, p) == lease[r][p] = "reserved"

ReleaseLease(r) ==
    /\ pc[r] = "release_budget"
    /\ \E p \in held[r] :
        /\ IsLeast(p, held[r])
        /\ \/ /\ StillReserved(r, p)
              /\ lease' = [lease EXCEPT ![r][p] = "released"]
              /\ GoTo(r, "lease_decrement")
              /\ UNCHANGED held
           \/ /\ ~StillReserved(r, p)
              /\ held' = [held EXCEPT ![r] = @ \ {p}]
              /\ UNCHANGED <<lease, pc>>
    /\ UNCHANGED <<envVars, budgetCounter, quotaCounter, lossCounter,
                   evidenceVars, outcome, startedAt, endedAt, snap, todo,
                   quotaLocals, reconVars>>

DecrementLease(r) ==
    /\ pc[r] = "lease_decrement"
    /\ \E p \in held[r] :
        /\ IsLeast(p, held[r])
        /\ budgetCounter' = AdjustBudget(p, BudgetKey(r, p), -1)
        /\ held' = [held EXCEPT ![r] = @ \ {p}]
    /\ GoTo(r, "release_budget")
    /\ UNCHANGED <<envVars, lease, quotaCounter, lossCounter, evidenceVars,
                   outcome, startedAt, endedAt, snap, todo, quotaLocals,
                   reconVars>>

\* A preflight error goes on to the block decision; a finished provider call
\* goes on to release the quota reservations.
BudgetReleased(r) ==
    /\ pc[r] = "release_budget" /\ held[r] = {}
    /\ GoTo(r, IF outcome[r] = "blocked" THEN "block" ELSE "release_quota")
    /\ UNCHANGED <<envVars, storeVars, evidenceVars, outcome, budgetLocals,
                   quotaLocals, reconVars>>

ReleaseQuota(r) ==
    /\ pc[r] \in {"quota_unwind", "release_quota"}
    /\ \E q \in qheld[r] :
        LET s == QuotaKey(r, q) IN
        /\ IsLeast(q, qheld[r])
        /\ IF qAvail[r]
             THEN quotaCounter' = AdjustQuota(q, s, -1) /\ UNCHANGED lossCounter
             ELSE lossCounter' = AdjustLoss(q, s, -1) /\ UNCHANGED quotaCounter
        /\ qheld' = [qheld EXCEPT ![r] = @ \ {q}]
    /\ UNCHANGED <<envVars, budgetCounter, lease, evidenceVars, pc, outcome,
                   budgetLocals, qAvail, qtodo, reconVars>>

QuotaReleased(r) ==
    /\ qheld[r] = {}
    /\ \/ /\ pc[r] = "quota_unwind"
          /\ GoTo(r, "release_budget") /\ Outcome(r, "blocked")
       \/ /\ pc[r] = "release_quota"
          /\ GoTo(r, "done")
          /\ UNCHANGED outcome
    /\ UNCHANGED <<envVars, storeVars, evidenceVars, budgetLocals, quotaLocals,
                   reconVars>>

\* record_runtime_policy_block_decision, whether or not its insert succeeds.
BlockDecision(r) ==
    /\ pc[r] = "block"
    /\ GoTo(r, "done")
    /\ UNCHANGED <<envVars, storeVars, evidenceVars, outcome, budgetLocals,
                   quotaLocals, reconVars>>

-----------------------------------------------------------------------------
(* Provider call and terminal evidence                                     *)

ProviderFails(r) ==
    /\ pc[r] = "provider"
    /\ GoTo(r, "failed_attempt") /\ Outcome(r, "failed")
    /\ attempt' = IF r \in Routed THEN [attempt EXCEPT ![r] = "failed"] ELSE attempt
    /\ UNCHANGED <<envVars, storeVars, events, ledger, durable, notified,
                   budgetLocals, quotaLocals, reconVars>>

\* Mutant: the provider's error leaves model_ingress before the release.
InsertFailedAttemptLeaks(r) ==
    /\ pc[r] = "failed_attempt"
    /\ GoTo(r, "done")
    /\ UNCHANGED <<envVars, storeVars, evidenceVars, outcome, budgetLocals,
                   quotaLocals, reconVars>>

\* The insert of the failed attempt: its error is an Err as well, and the
\* caller releases the reservations on every Err.
InsertFailedAttempt(r) ==
    /\ pc[r] = "failed_attempt"
    /\ GoTo(r, "release_budget")
    /\ UNCHANGED <<envVars, storeVars, evidenceVars, outcome, budgetLocals,
                   quotaLocals, reconVars>>

ProviderAnswers(r) ==
    /\ pc[r] = "provider"
    /\ Outcome(r, "completed")
    /\ \/ /\ r \in Routed
          /\ attempt' = [attempt EXCEPT ![r] = "completed"]
          /\ endedAt' = [endedAt EXCEPT ![r] = now]
          /\ GoTo(r, "attempt")
       \/ /\ r \notin Routed
          /\ GoTo(r, "release_budget")
          /\ UNCHANGED <<attempt, endedAt>>
    /\ UNCHANGED <<envVars, storeVars, events, ledger, durable, notified,
                   startedAt, snap, todo, held, quotaLocals, reconVars>>

InsertAttempt(r) ==
    /\ pc[r] = "attempt"
    /\ GoTo(r, "usage")
    /\ UNCHANGED <<envVars, storeVars, evidenceVars, outcome, budgetLocals,
                   quotaLocals, reconVars>>

BudgetValue(p, r) == IF BKind[p] = "requests" THEN 1 ELSE Tokens[r]

StreamSeconds(r) ==
    IF endedAt[r] - startedAt[r] < 1 THEN 1 ELSE endedAt[r] - startedAt[r]

QuotaValue(q, r) ==
    IF QKind[q] = "token_actual_rate" THEN Tokens[r]
    ELSE IF QKind[q] = "stream_duration" /\ r \in Streaming THEN StreamSeconds(r)
    ELSE 0

\* record_usage_event: one event per (tenant, request_id); a new event is
\* folded into the ledger buckets of its period, and into what the reconciler
\* will sum for its window.
RecordUsage(r) ==
    /\ pc[r] = "usage"
    /\ GoTo(r, "usage_insert")
    /\ IF \E e \in events : RequestId[e] = RequestId[r]
         THEN UNCHANGED <<events, ledger, durable>>
         ELSE /\ events' = events \cup {r}
              /\ ledger' = [p \in BudgetPolicies |-> [k \in Times |->
                    IF r \in BMatch[p] /\ k = BPeriod[p][endedAt[r]]
                      THEN ledger[p][k] + BudgetValue(p, r) ELSE ledger[p][k]]]
              /\ durable' = [q \in QuotaPolicies |-> [s \in Times |->
                    IF r \in QMatch[q] /\ s = QSlot[q][endedAt[r]]
                      THEN durable[q][s] + QuotaValue(q, r) ELSE durable[q][s]]]
    /\ UNCHANGED <<envVars, storeVars, attempt, notified, outcome, budgetLocals,
                   quotaLocals, reconVars>>

\* The policies finalize_runtime_quota_terminal adds this request's usage to.
FinalizedQuotas(r) ==
    {q \in QuotaPoliciesFor(r) : QKind[q] \in UsageKinds /\ QuotaValue(q, r) > 0}

InsertUsage(r) ==
    /\ pc[r] = "usage_insert"
    /\ qtodo' = [qtodo EXCEPT ![r] = IF hotAvailable THEN FinalizedQuotas(r) ELSE {}]
    /\ GoTo(r, "finalize_quota")
    /\ UNCHANGED <<envVars, storeVars, evidenceVars, outcome, budgetLocals,
                   qAvail, qheld, reconVars>>

FinalizeQuota(r) ==
    /\ pc[r] = "finalize_quota"
    /\ \/ \E q \in qtodo[r] :
            /\ IsLeast(q, qtodo[r])
            /\ quotaCounter' = AdjustQuota(q, QSlot[q][endedAt[r]], QuotaValue(q, r))
            /\ qtodo' = [qtodo EXCEPT ![r] = @ \ {q}]
            /\ UNCHANGED pc
       \/ /\ qtodo[r] = {}
          /\ GoTo(r, "finalize_budget")
          /\ UNCHANGED <<quotaCounter, qtodo>>
    /\ UNCHANGED <<envVars, budgetCounter, lease, lossCounter, evidenceVars,
                   outcome, budgetLocals, qAvail, qheld, reconVars>>

\* The thresholds this event is held to have crossed: the ledger is read again
\* and the value before the event is reckoned by subtracting the event.
CrossedBy(r, p) ==
    LET k        == BPeriod[p][endedAt[r]]
        current  == ledger[p][k]
        previous == current - BudgetValue(p, r)
    IN  {<<p, k, t>> : t \in {u \in BThresholds[p] : previous < u /\ current >= u}}

Crossed(r) ==
    UNION {CrossedBy(r, p) : p \in {x \in BudgetPolicies :
                                    r \in BMatch[x] /\ BudgetValue(x, r) > 0}}

FinalizeBudget(r) ==
    /\ pc[r] = "finalize_budget"
    /\ notified' = notified \cup Crossed(r)
    /\ GoTo(r, "release_budget")
    /\ UNCHANGED <<envVars, storeVars, attempt, events, ledger, durable, outcome,
                   budgetLocals, quotaLocals, reconVars>>

\* The insert of the completed attempt or of the usage event fails: `?` leaves
\* model_ingress before the release.  handle_response_create leaves a turn that
\* way also when the insert of a failed attempt fails.
PersistFails(r) ==
    /\ \/ pc[r] \in {"attempt", "usage_insert"}
       \/ pc[r] = "failed_attempt" /\ r \in Turns
    /\ GoTo(r, "done") /\ Outcome(r, "error")
    /\ UNCHANGED <<envVars, storeVars, evidenceVars, budgetLocals, quotaLocals,
                   reconVars>>

\* The request future is dropped at an await that really suspends: by the
\* request timeout, or because the client went away.  The task of a WebSocket is
\* dropped by neither.
Cancel(r) ==
    /\ r \notin Turns
    /\ pc[r] \in {"provider", "failed_attempt", "attempt", "usage_insert", "block"}
    /\ GoTo(r, "done") /\ Outcome(r, "cancelled")
    /\ UNCHANGED <<envVars, storeVars, evidenceVars, budgetLocals, quotaLocals,
                   reconVars>>

-----------------------------------------------------------------------------
(* The reconciler                                                          *)

\* Mutant: every reserved lease counts as overdue.
OverdueAtOnce == {l \in Requests \X BudgetPolicies :
                    lease[l[1]][l[2]] = "reserved" /\ startedAt[l[1]] <= now}

Overdue == {l \in Requests \X BudgetPolicies :
              lease[l[1]][l[2]] = "reserved" /\ startedAt[l[1]] + LeaseTTL <= now}

\* expire_runtime_budget_leases, under one write lock.
ExpireLeases ==
    /\ rpc = "idle" /\ hotAvailable
    /\ rnow' = now
    /\ expiring' = Overdue
    /\ lease' = [r \in Requests |-> [p \in BudgetPolicies |->
                    IF <<r, p>> \in Overdue THEN "expired" ELSE lease[r][p]]]
    /\ rpc' = "expire"
    /\ UNCHANGED <<envVars, budgetCounter, quotaCounter, lossCounter,
                   evidenceVars, requestVars, rdurable, rtodo, rread>>

ReclaimLease(r, p) ==
    /\ rpc = "expire" /\ <<r, p>> \in expiring
    /\ budgetCounter' = AdjustBudget(p, BudgetKey(r, p), -1)
    /\ expiring' = expiring \ {<<r, p>>}
    /\ UNCHANGED <<envVars, lease, quotaCounter, lossCounter, evidenceVars,
                   requestVars, rpc, rnow, rdurable, rtodo, rread>>

\* The usage events are read once, before the loop over the quota policies.
ReadUsageEvents ==
    /\ rpc = "expire" /\ expiring = {}
    /\ rdurable' = [q \in QuotaPolicies |-> durable[q][QSlot[q][rnow]]]
    /\ rtodo' = {q \in QuotaPolicies :
                    QKind[q] \in UsageKinds /\ durable[q][QSlot[q][rnow]] > 0}
    /\ rpc' = "quota"
    /\ UNCHANGED <<envVars, storeVars, evidenceVars, requestVars, rnow, expiring,
                   rread>>

CompareCounter ==
    /\ rpc = "quota"
    /\ \E q \in rtodo :
        LET c == quotaCounter[q][QSlot[q][rnow]] IN
        /\ IsLeast(q, rtodo)
        /\ IF c >= rdurable[q]
             THEN rtodo' = rtodo \ {q} /\ UNCHANGED <<rpc, rread>>
             ELSE rpc' = "adjust" /\ rread' = c /\ UNCHANGED rtodo
    /\ UNCHANGED <<envVars, storeVars, evidenceVars, requestVars, rnow, expiring,
                   rdurable>>

RepairCounter ==
    /\ rpc = "adjust"
    /\ \E q \in rtodo :
        /\ IsLeast(q, rtodo)
        /\ quotaCounter' = AdjustQuota(q, QSlot[q][rnow], rdurable[q] - rread)
        /\ rtodo' = rtodo \ {q}
    /\ rpc' = "quota" /\ rread' = 0
    /\ UNCHANGED <<envVars, budgetCounter, lease, lossCounter, evidenceVars,
                   requestVars, rnow, expiring, rdurable>>

\* Mutant: the loop ends after its first pass.
TickDoneForGood ==
    /\ rpc = "quota" /\ rtodo = {}
    /\ UNCHANGED vars

TickDone ==
    /\ rpc = "quota" /\ rtodo = {}
    /\ rpc' = "idle" /\ rnow' = 0
    /\ rdurable' = [q \in QuotaPolicies |-> 0]
    /\ UNCHANGED <<envVars, storeVars, evidenceVars, requestVars, expiring,
                   rtodo, rread>>

-----------------------------------------------------------------------------
(* Environment                                                             *)

InFlight(r) == pc[r] \notin {"idle", "done"}

\* request_timeout_middleware drops a request at its deadline, so the clock
\* does not pass the deadline of a request that is still in flight.  A turn has
\* no deadline.
Tick ==
    /\ now < MaxTime
    /\ \A r \in Requests \ Turns : InFlight(r) => now < startedAt[r] + RequestTimeout
    /\ now' = now + 1
    /\ UNCHANGED <<hotAvailable, forced, storeVars, evidenceVars, requestVars,
                   reconVars>>

FlipHotState ==
    /\ MayLoseHotState
    /\ hotAvailable' = ~hotAvailable
    /\ UNCHANGED <<now, forced, storeVars, evidenceVars, requestVars, reconVars>>

\* An applied, unexpired force_budget_block operation on a policy, and its end.
ForceBudgetBlock(p) ==
    /\ forced' = IF p \in forced THEN forced \ {p} ELSE forced \cup {p}
    /\ UNCHANGED <<now, hotAvailable, storeVars, evidenceVars, requestVars,
                   reconVars>>

-----------------------------------------------------------------------------

RequestStep(r) ==
    \/ BudgetReject(r) \/ BudgetPass(r) \/ BudgetHotStateLoss(r)
    \/ ReserveBudget(r) \/ RollbackBudget(r) \/ RecordLease(r)
    \/ QuotaPreflight(r) \/ QuotaLimit(r) \/ QuotaReservePass(r)
    \/ QuotaRate(r) \/ QuotaConcurrency(r) \/ RollbackQuota(r)
    \/ QuotaHotStateLoss(r) \/ Admit(r)
    \/ ProviderAnswers(r) \/ ProviderFails(r)
    \/ InsertFailedAttempt(r) \/ InsertAttempt(r) \/ RecordUsage(r)
    \/ InsertUsage(r) \/ FinalizeQuota(r) \/ FinalizeBudget(r)
    \/ ReleaseLease(r) \/ DecrementLease(r) \/ BudgetReleased(r)
    \/ ReleaseQuota(r) \/ QuotaReleased(r) \/ BlockDecision(r)
    \/ PersistFails(r) \/ Cancel(r)

ReconcilerStep ==
    \/ ExpireLeases
    \/ \E r \in Requests, p \in BudgetPolicies : ReclaimLease(r, p)
    \/ ReadUsageEvents \/ CompareCounter \/ RepairCounter \/ TickDone

Next ==
    \/ \E r \in Requests : Arrive(r) \/ RequestStep(r)
    \/ ReconcilerStep
    \/ Tick
    \/ FlipHotState
    \/ \E p \in Forceable : ForceBudgetBlock(p)

Spec == Init /\ [][Next]_vars

\* A task that can run is run, the reconciler's loop never stops, and time
\* passes. Nothing is assumed of arrivals, outages and operators, nor that the
\* provider ever ends a turn.
Fairness ==
    /\ \A r \in Requests :
         WF_vars((r \in Turns => pc[r] # "provider") /\ RequestStep(r))
    /\ WF_vars(ReconcilerStep)
    /\ WF_vars(Tick)

FairSpec == Spec /\ Fairness

-----------------------------------------------------------------------------
(* Properties                                                              *)

EnvType ==
    now \in Times /\ hotAvailable \in BOOLEAN /\ forced \subseteq BudgetPolicies

StoreType ==
    /\ budgetCounter \in [BudgetPolicies -> [Times -> Nat]]
    /\ lease \in [Requests -> [BudgetPolicies -> LeaseStatus]]
    /\ quotaCounter \in [QuotaPolicies -> [Times -> Nat]]
    /\ lossCounter \in [QuotaPolicies -> [Times -> Nat]]

EvidenceType ==
    /\ attempt \in [Requests -> {"none", "failed", "completed"}]
    /\ events \subseteq Requests
    /\ ledger \in [BudgetPolicies -> [Times -> Nat]]
    /\ durable \in [QuotaPolicies -> [Times -> Nat]]
    /\ notified \subseteq BudgetPolicies \X Times \X Nat

ControlType == pc \in [Requests -> PCs] /\ outcome \in [Requests -> Outcomes]

BudgetLocalType ==
    /\ startedAt \in [Requests -> Times]
    /\ endedAt \in [Requests -> Times]
    /\ snap \in [Requests -> [BudgetPolicies -> Nat]]
    /\ todo \in [Requests -> SUBSET BudgetPolicies]
    /\ held \in [Requests -> SUBSET BudgetPolicies]

QuotaLocalType ==
    /\ qAvail \in [Requests -> BOOLEAN]
    /\ qtodo \in [Requests -> SUBSET QuotaPolicies]
    /\ qheld \in [Requests -> SUBSET QuotaPolicies]

ReconType ==
    /\ rpc \in ReconPCs /\ rnow \in Times
    /\ expiring \subseteq Requests \X BudgetPolicies
    /\ rdurable \in [QuotaPolicies -> Nat]
    /\ rtodo \subseteq QuotaPolicies /\ rread \in Nat

\* Every variable keeps its type: in particular every counter stays a natural
\* number and a request only holds reservations of policies that exist.
TypeOK ==
    /\ EnvType /\ StoreType /\ EvidenceType
    /\ ControlType /\ BudgetLocalType /\ QuotaLocalType
    /\ ReconType

\* The request accounts for one unit of the policy's in-flight counter: its
\* lease is reserved, or one of the two writes that open or close a lease is
\* still to come.
BudgetContributes(r, p) ==
    \/ lease[r][p] = "reserved"
    \/ pc[r] \in {"lease_record", "budget_rollback"} /\ IsLeast(p, todo[r])
    \/ pc[r] = "lease_decrement" /\ IsLeast(p, held[r])
    \/ <<r, p>> \in expiring

BudgetHolders(p, k) ==
    {r \in Requests : BudgetContributes(r, p) /\ BudgetKey(r, p) = k}

\* The in-flight counter of a request budget counts every open reservation
\* exactly once, whatever the order of reservations, rollbacks, releases,
\* lease expiries, cancellations and storage errors: a lease that is both
\* released and overdue is subtracted once, and nothing is subtracted twice
\* (reserve_runtime_request_budget, release_runtime_budget_reservations and
\* the expiry loop of run_runtime_policy_reconciler_once).
BudgetCounterExact ==
    \A p \in BudgetPolicies, k \in Times :
        budgetCounter[p][k] = Cardinality(BudgetHolders(p, k))

\* The request holds a live reservation of a request budget.
HoldsBudget(r, p) ==
    \/ lease[r][p] = "reserved"
    \/ pc[r] = "lease_record" /\ IsLeast(p, todo[r])

Reserved(p, k) == {r \in Requests : HoldsBudget(r, p) /\ BudgetKey(r, p) = k}

\* No interleaving of preflights reserves more than the hard limit at a time:
\* enforce_runtime_budget_preflight compares the value its own increment
\* returned.
ReservedWithinHardLimit ==
    \A p \in BudgetPolicies, k \in Times : Cardinality(Reserved(p, k)) <= BLimit[p]

\* The reconciler never expires the lease of a request that is still running,
\* turns of a WebSocket apart: the request timeout ends the request before
\* RUNTIME_BUDGET_LEASE_TTL_SECONDS have passed.
ActiveLeaseNotExpired ==
    \A r \in Requests \ Turns, p \in BudgetPolicies :
        InFlight(r) => lease[r][p] # "expired"

\* A request past its preflight.
Admitted(r) ==
    \/ pc[r] \in {"provider", "failed_attempt", "attempt", "usage",
                  "usage_insert", "finalize_quota", "finalize_budget"}
    \/ pc[r] \in {"release_budget", "lease_decrement", "release_quota"}
         /\ outcome[r] # "blocked"
    \/ pc[r] = "done" /\ outcome[r] \in {"failed", "completed", "error"}

\* A concurrency counter counts the requests that hold a slot, those about to
\* give a refused slot back, and nothing else (reserve_runtime_quota_counter
\* and release_runtime_quota_reservations).
SlotHolders(q, s) ==
    {r \in Requests :
        /\ QuotaKey(r, q) = s
        /\ \/ q \in qheld[r] /\ qAvail[r]
           \/ pc[r] = "quota_rollback" /\ IsLeast(q, qtodo[r])}

ConcurrencyCounterExact ==
    \A q \in QuotaPolicies, s \in Times :
        QKind[q] \in ConcurrencyKinds =>
            quotaCounter[q][s] = Cardinality(SlotHolders(q, s))

\* Never more requests hold a concurrency slot than the quota's limit.
ConcurrencyWithinLimit ==
    \A q \in QuotaPolicies, s \in Times :
        QKind[q] \in ConcurrencyKinds =>
            Cardinality({r \in Requests : q \in qheld[r] /\ qAvail[r]
                                            /\ QuotaKey(r, q) = s}) <= QLimit[q]

\* Within one window slot a request_rate quota admits at most its limit, however
\* the preflights interleave (increment_runtime_quota_counter).
RateWithinLimit ==
    \A q \in QuotaPolicies, s \in Times :
        QKind[q] = "request_rate" =>
            Cardinality({r \in Requests : Admitted(r) /\ r \in QMatch[q]
                              /\ qAvail[r] /\ QuotaKey(r, q) = s}) <= QLimit[q]

\* While the hot state is lost a fail_limited quota lets at most its burst
\* allowance through: at a time for a concurrency quota, per window slot for
\* the others; a fail_closed quota lets nothing through
\* (handle_runtime_quota_hot_state_loss).
LossAllowanceBounded ==
    \A q \in QuotaPolicies, s \in Times :
        LET lost    == {r \in Requests : q \in QuotaPoliciesFor(r)
                           /\ ~qAvail[r] /\ QuotaKey(r, q) = s}
            passed  == {r \in lost : \/ Admitted(r)
                                     \/ pc[r] = "quota_reserve" /\ q \notin qtodo[r]}
            holding == {r \in lost : q \in qheld[r]}
        IN  NeedsHotState(q) =>
              /\ QLoss[q] = "fail_closed" => passed = {}
              /\ QLoss[q] = "fail_limited" =>
                    IF QKind[q] \in ConcurrencyKinds
                      THEN Cardinality(holding) <= QBurst[q]
                      ELSE Cardinality(passed) <= QBurst[q]

\* A request that was answered, or that the provider failed, gives back all it
\* reserved before the handler returns; what stays behind is left by cancelled
\* requests, storage errors and the two `?` exits of the preflight.
AnsweredHoldsNothing ==
    \A r \in Requests :
        pc[r] = "done" /\ outcome[r] \in {"completed", "failed"} =>
            /\ qheld[r] = {}
            /\ \A p \in BudgetPolicies : lease[r][p] # "reserved"

\* Every reservation of a request budget is eventually given back, also when
\* its request was cancelled or lost: the reconciler expires the lease.
BudgetReservationsReclaimed ==
    \A r \in Requests, p \in BudgetPolicies :
        lease[r][p] = "reserved" ~> ~BudgetContributes(r, p)

\* The ledger never exceeds the hard limit of a request budget: "overlapping
\* preflights cannot exceed the hard request cap before the durable ledger
\* catches up".
HardRequestCap ==
    \A p \in BEnforced, k \in Times :
        BKind[p] = "requests" => ledger[p][k] <= BLimit[p]

\* A concurrency slot is eventually released, as for "acquire with TTL and
\* release idempotently".
ConcurrencySlotsReclaimed ==
    \A r \in Requests, q \in QuotaPolicies :
        q \in qheld[r] ~> q \notin qheld[r]

\* Once every request has been answered, each threshold the ledger has reached
\* has its notification.
ReachedThresholdsNotified ==
    (\A r \in Requests : pc[r] = "done" /\ outcome[r] = "completed") =>
        \A p \in BudgetPolicies, k \in Times : \A t \in BThresholds[p] :
            (t > 0 /\ ledger[p][k] >= t) => <<p, k, t>> \in notified

=============================================================================
