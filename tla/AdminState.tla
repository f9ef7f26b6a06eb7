------------------------------ MODULE AdminState ------------------------------
(***************************************************************************)
(* The state every admin handler of the gateway works on and the steps all *)
(* of them are built from.                                                 *)
(*                                                                         *)
(* The store keeps one map per resource kind, each behind its own lock     *)
(* (storage.rs).  Here db[k] is the sequence of the rows of kind k in the  *)
(* order they were inserted; a row's id is its index, rows are never       *)
(* removed, and None = 0 stands for an absent optional id.  A row has its  *)
(* tenant, status, resource_version and the fields f the validators and    *)
(* the routing code look at.                                               *)
(*                                                                         *)
(* A handler is several steps, one per lock it writes under; the reads a   *)
(* handler makes before its first write are one step (Request):            *)
(*   Request  authorize, freeze check, idempotency lookup, validation;     *)
(*   Insert   the new row / Write  the compare-and-set of an update;       *)
(*   Finish   the audit event and the idempotency record.                  *)
(* Handlers of several requests interleave between these steps.            *)
(*                                                                         *)
(* String-format checks that the handler and the store share (a name that  *)
(* is not blank, a length, a URL) are the field "shape" of a request.      *)
(***************************************************************************)
EXTENDS Integers, Sequences, FiniteSets

CONSTANTS
    Admins,          \* the requests that may be in flight together
    TenantOf,        \* the tenant an admin is authenticated for
    Keys,            \* idempotency keys clients send
    IdempotencyTtl,  \* IDEMPOTENCY_TTL_HOURS, in ticks of the clock
    MaxVersion,      \* bound on the expected_version a client sends
    MaxDiagnostics,  \* bound on the different diagnostics dry runs leave
    Seed,            \* rows present at the start, a sequence for each kind
    Requests,        \* the request bodies clients send, a set for each kind
    Scenarios        \* which routes are called, how often, and for how long

\* A finite number of requests, tenants with ids, a lifetime of whole ticks.
ASSUME AdminAssumption ==
    /\ IsFiniteSet(Admins)
    /\ TenantOf \in [Admins -> Nat]
    /\ IdempotencyTtl \in Nat

None == 0
NoKey == "no_key"
NoOp == [pc |-> "idle", route |-> "none"]
Nobody == [tenant |-> None, rows |-> {}]

ResourceStatus == {"active", "disabled", "draining", "degraded", "deleted"}
Kinds == DOMAIN Seed

VARIABLES
    db,           \* the rows of every kind
    secrets,      \* secret_values and secret files: the value held for a secret ref
    idem,         \* idempotency_records
    audit,        \* audit_events, oldest first
    diagnostics,  \* validation_diagnostics
    op,           \* the request each admin has in flight
    answer,       \* the resources the last successful answer showed, and to whom
    clock,        \* chrono::Utc::now()
    dropped,      \* how many handlers were dropped half-way
    scenario      \* the scenario of this behaviour; never changes

vars == <<db, secrets, idem, audit, diagnostics, op, answer, clock, dropped, scenario>>
store == <<db, secrets>>
records == <<audit, diagnostics>>
fixed == <<clock, dropped, scenario>>

\* The record f with the fields of g that f lacks.
f ++ g ==
    [x \in DOMAIN f \cup DOMAIN g |-> IF x \in DOMAIN f THEN f[x] ELSE g[x]]

Ids(k) == 1 .. Len(db[k])
Row(k, id) == db[k][id]
Rows(k) == {db[k][id] : id \in Ids(k)}

\* Mistake: the row's tenant is not compared.
ForActorOfAnyTenant(k, a, id) == id \in Ids(k)

\* x_for_actor: the row exists and belongs to the actor's tenant.
ForActor(k, a, id) == id \in Ids(k) /\ Row(k, id).tenant = TenantOf[a]

\* validate_optional_organization_scope: an organization that is named must
\* exist in the request's tenant.
OptionalOrganizationScope(t, org) ==
    org # None => org \in Ids("organization") /\ Row("organization", org).tenant = t

\* validate_optional_project_scope: a named project must exist in the tenant
\* and belong to the named organization, if both are named.
OptionalProjectScope(t, org, project) ==
    /\ OptionalOrganizationScope(t, org)
    /\ project # None =>
         /\ project \in Ids("project")
         /\ Row("project", project).tenant = t
         /\ org # None => Row("project", project).f.org = org

\* The same two checks as the handlers' validation makes them.
HandlerOrganization(a, org) == org # None => ForActor("organization", a, org)
HandlerProject(a, org, project) ==
    /\ HandlerOrganization(a, org)
    /\ project # None =>
         /\ ForActor("project", a, project)
         /\ org # None => Row("project", project).f.org = org

\* inferred_notification_organization_id: a request that names only a project
\* is scoped to the project's organization.
InferredOrganization(t, org, project) ==
    IF org = None /\ project \in Ids("project") /\ Row("project", project).tenant = t
    THEN Row("project", project).f.org
    ELSE org

\* A row of kind k in tenant t, not deleted, that agrees with fields.
Duplicate(k, t, fields) ==
    \E row \in Rows(k) : /\ row.tenant = t
                         /\ row.status # "deleted"
                         /\ \A x \in DOMAIN fields : row.f[x] = fields[x]

\* Two organizations conflict only when both are named.
OrganizationMismatch(org1, org2) == org1 # None /\ org2 # None /\ org1 # org2

\* HashMap::insert: the row with the same key is replaced, else the row is new.
Upsert(rows, row, same(_)) ==
    IF \E i \in DOMAIN rows : same(rows[i])
    THEN [rows EXCEPT ![CHOOSE i \in DOMAIN rows : same(rows[i])] = row]
    ELSE Append(rows, row)

NewRow(t, f, status) == [tenant |-> t, f |-> f, status |-> status, version |-> 1]
-----------------------------------------------------------------------------
\* Mistake: the operations that have expired are looked up.
ExpiredEmergencyOperation(t, kind, now) ==
    \E row \in Rows("emergency_operation") :
        row.tenant = t /\ row.f.operation = kind /\ row.status = "applied"
          /\ row.f.expires <= now

\* active_emergency_operation: the newest applied operation of a kind that has
\* not expired.
ActiveEmergencyOperation(t, kind, now) ==
    \E row \in Rows("emergency_operation") :
        /\ row.tenant = t
        /\ row.f.operation = kind
        /\ row.status = "applied"
        /\ row.f.expires > now

\* route_allowed_during_config_freeze: emergency actions, rollback, unlinking
\* an external identity, revoking a session, and dry runs.
EmergencyRoutes ==
    {"emergency_disable_upstream_credential", "emergency_disable_provider_endpoint",
     "emergency_drain_routing_group", "emergency_freeze_config",
     "emergency_force_budget_block", "emergency_rollback_config_snapshot"}
RouteAllowedDuringConfigFreeze(route) ==
    \/ route \in EmergencyRoutes
    \/ route \in {"unlink_user_external_identity", "revoke_user_session",
                  "rollback_config_snapshot"}

\* reject_frozen_config_mutation, for a route that mutates.
RejectFrozenConfigMutation(a, route) ==
    /\ ~ RouteAllowedDuringConfigFreeze(route)
    /\ ActiveEmergencyOperation(TenantOf[a], "freeze_config", clock)

\* idempotency_response: the stored record, if any, of a tenant's scope key.
Stored(t, scope, key) == {r \in idem : r.tenant = t /\ r.scope = scope /\ r.key = key}

\* The requests in flight that use the same scope key.
Rivals(a, scope, key) ==
    {b \in Admins \ {a} : /\ op[b] # NoOp
                          /\ op[b].key = key /\ key # NoKey
                          /\ op[b].scope = scope
                          /\ TenantOf[b] = TenantOf[a]}

InFlight == {a \in Admins : op[a] # NoOp}

\* Admin a calls a route that reads, or one that mutates.
Calling(a, route) == op[a] = NoOp /\ route \in scenario.routes
Mutating(a, route) ==
    /\ Calling(a, route)
    /\ Len(audit) + Cardinality(InFlight) + dropped < scenario.mutations

\* The first step of every mutating handler.  "early" are the checks made
\* before the idempotency lookup, "late" those after it.  authorize_admin_route
\* may refuse anyone (allowed = FALSE).  A live record with another request
\* hash is a conflict, one with the same hash is replayed, an expired one is
\* removed; without a record the handler stores the diagnostics "noted" and goes
\* on with the op "next".
RequestNoting(a, route, early, scope, key, hash, noted, late, next) ==
    /\ \E allowed \in BOOLEAN :
         LET passed == allowed /\ ~ RejectFrozenConfigMutation(a, route) /\ early
             stored == Stored(TenantOf[a], scope, key)
             live   == {r \in stored : r.expires > clock}
             rivals == Rivals(a, scope, key)
         IN /\ idem' = IF passed THEN idem \ (stored \ live) ELSE idem
            /\ answer' = IF passed /\ \E r \in live : r.hash = hash
                         THEN [tenant |-> TenantOf[a],
                               rows |-> {r.response : r \in live}]
                         ELSE Nobody
            /\ op' = IF passed /\ live = {} /\ late
                     THEN [b \in Admins |->
                             IF b = a
                             THEN next ++ [route |-> route, scope |-> scope, key |-> key,
                                           hash |-> hash, at |-> clock,
                                           alone |-> rivals = {}, wrote |-> << >>]
                             ELSE IF b \in rivals THEN [op[b] EXCEPT !.alone = FALSE]
                             ELSE op[b]]
                     ELSE op
            /\ diagnostics' = IF passed /\ live = {} THEN diagnostics \cup noted
                              ELSE diagnostics
    /\ UNCHANGED <<store, audit, fixed>>

Request(a, route, early, scope, key, hash, late, next) ==
    RequestNoting(a, route, early, scope, key, hash, {}, late, next)
-----------------------------------------------------------------------------
\* What a create goes on with: the row to insert, and the step that follows.
Inserting(k, row) ==
    [pc |-> "insert", kind |-> k, row |-> row, before |-> None, then |-> "finish"]

\* What an update goes on with: the patch, and the version the client saw
\* ("wrote" remembers it for the properties).
Writing(k, id, expected, patch) ==
    [pc |-> "write", kind |-> k, id |-> id, expected |-> expected,
     patch |-> patch, before |-> Row(k, id).version, then |-> "finish",
     wrote |-> <<k, id, expected>>]

NewStatus(status) == [status |-> status, f |-> << >>]

\* The last lines of a create_x of the store: the row is inserted under the
\* kind's write lock, nothing is checked again.
InsertRow(a, k) ==
    /\ op[a].pc = "insert" /\ op[a].kind = k
    /\ db' = [db EXCEPT ![k] = Append(@, op[a].row)]
    /\ op' = [op EXCEPT ![a] = [id |-> Len(db[k]) + 1, after |-> 1, pc |-> op[a].then] ++ @]
    /\ answer' = Nobody
    /\ UNCHANGED <<secrets, idem, records, fixed>>

Patched(row, patch) ==
    [row EXCEPT !.status = IF patch.status = "keep" THEN @ ELSE patch.status,
                !.f = patch.f ++ @,
                !.version = @ + 1]

\* Mistake: the version is not compared.
SetWithoutCompare(a, k) ==
    /\ op[a].pc = "write" /\ op[a].kind = k
    /\ db' = [db EXCEPT ![k][op[a].id] = Patched(@, op[a].patch)]
    /\ op' = [op EXCEPT ![a] = [after |-> Row(k, op[a].id).version + 1,
                                pc |-> op[a].then] ++ @]
    /\ answer' = Nobody
    /\ UNCHANGED <<secrets, idem, records, fixed>>

\* The store's update: version check and write under one write lock.
CompareAndSet(a, k) ==
    /\ op[a].pc = "write" /\ op[a].kind = k
    /\ LET id == op[a].id
           current == Row(k, id)
       IN IF current.version # op[a].expected
          THEN /\ op' = [op EXCEPT ![a] = NoOp]
               /\ UNCHANGED db
          ELSE /\ db' = [db EXCEPT ![k][id] = Patched(@, op[a].patch)]
               /\ op' = [op EXCEPT ![a] = [after |-> current.version + 1, pc |-> op[a].then] ++ @]
    /\ answer' = Nobody
    /\ UNCHANGED <<secrets, idem, records, fixed>>

\* The resource an audit event names: the one that was written, except where the
\* handler names another ("about": the sink of a subscription).
Audited(a) == IF "about" \in DOMAIN op[a] THEN op[a].about ELSE <<op[a].kind, op[a].id>>

\* The tenant a handler acts in: its admin's, or its session's.
ActingTenant(a) == IF "tenant" \in DOMAIN op[a] THEN op[a].tenant ELSE TenantOf[a]

\* record_admin_resource_audit.
AuditEvent(a) ==
    [tenant |-> ActingTenant(a), route |-> op[a].route, resource |-> Audited(a),
     before |-> op[a].before, after |-> op[a].after, scope |-> op[a].scope,
     key |-> op[a].key, at |-> op[a].at, alone |-> op[a].alone, wrote |-> op[a].wrote]

\* IdempotencyRecord: the response of a request, kept for ttl.
IdempotencyRecord(a, ttl) ==
    [tenant |-> TenantOf[a], scope |-> op[a].scope, key |-> op[a].key, hash |-> op[a].hash,
     response |-> <<op[a].kind, op[a].id>>, expires |-> op[a].at + ttl]

\* Mistakes: a record that has expired as soon as it is stored, and one for a
\* request that sent no key.
ExpiredIdempotencyRecords(a) ==
    IF op[a].key = NoKey THEN idem ELSE idem \cup {IdempotencyRecord(a, 0)}
IdempotencyRecordsOfAnyKey(a) == idem \cup {IdempotencyRecord(a, IdempotencyTtl)}

\* record_idempotency_response: the record of the scope key is replaced.
IdempotencyRecords(a) ==
    IF op[a].key = NoKey THEN idem
    ELSE (idem \ Stored(TenantOf[a], op[a].scope, op[a].key))
           \cup {IdempotencyRecord(a, IdempotencyTtl)}

\* The end of a mutating handler: audit event, idempotency record, answer.
Finish(a) ==
    /\ op[a].pc = "finish"
    /\ audit' = Append(audit, AuditEvent(a))
    /\ idem' = IdempotencyRecords(a)
    /\ answer' = [tenant |-> ActingTenant(a), rows |-> {<<op[a].kind, op[a].id>>}]
    /\ op' = [op EXCEPT ![a] = NoOp]
    /\ UNCHANGED <<store, diagnostics, fixed>>
-----------------------------------------------------------------------------
\* A handler that only reads: authorize, then answer with some rows.
Reads(a, rows) ==
    /\ answer' = [tenant |-> TenantOf[a], rows |-> rows]
    /\ UNCHANGED <<store, idem, records, op, fixed>>

\* get_x: the row, when x_for_actor finds it.
Gets(a, route, k) ==
    /\ Calling(a, route)
    /\ \E id \in Ids(k) : ForActor(k, a, id) /\ Reads(a, {<<k, id>>})

\* authorize_item_list: the rows the actor is authorized for, one by one.
Lists(a, route, k, ids) ==
    /\ Calling(a, route)
    /\ \E allowed \in SUBSET ids : Reads(a, {<<k, id>> : id \in allowed})

\* x_for_tenant.
ForTenant(k, a) == {id \in Ids(k) : Row(k, id).tenant = TenantOf[a]}

\* validation_response: a dry run stores what it found as a diagnostic.
Diagnostic(a, k, valid) == [tenant |-> TenantOf[a], kind |-> k, valid |-> valid]
Validates(a, k, valid) ==
    /\ Cardinality(diagnostics) < MaxDiagnostics
    /\ diagnostics' = diagnostics \cup {Diagnostic(a, k, valid)}
    /\ answer' = [tenant |-> TenantOf[a], rows |-> {}]
    /\ UNCHANGED <<store, idem, audit, op, fixed>>

\* A create handler that looks the key up before it validates, and one that
\* validates first (provider endpoint, upstream credential, model target).
Creates(a, route, k, req, valid, accepted, row) ==
    \E key \in Keys :
        Request(a, route, TRUE, <<route>>, key, req, valid /\ accepted, Inserting(k, row))
CreatesValidFirst(a, route, k, req, valid, accepted, row) ==
    \E key \in Keys :
        Request(a, route, valid, <<route>>, key, req, accepted, Inserting(k, row))

\* An update handler that sets the status of a row.
UpdatesStatus(a, route, k, statuses) ==
    /\ Mutating(a, route)
    /\ \E id \in Ids(k), expected \in 1 .. MaxVersion, status \in statuses :
         Request(a, route, ForActor(k, a, id), <<route>>, NoKey, id, TRUE,
                 Writing(k, id, expected, NewStatus(status)))

\* Time passes.
Tick ==
    /\ clock < scenario.horizon
    /\ clock' = clock + 1
    /\ answer' = Nobody
    /\ UNCHANGED <<store, idem, records, op, dropped, scenario>>

AdminInit ==
    /\ scenario \in Scenarios
    /\ db = Seed
    /\ secrets = [id \in 1 .. Len(Seed["secret_ref"]) |-> Seed["secret_ref"][id].f.fingerprint]
    /\ idem = {} /\ audit = << >> /\ diagnostics = {}
    /\ op = [a \in Admins |-> NoOp]
    /\ answer = Nobody
    /\ clock = 0
    /\ dropped = 0
=============================================================================
