------------------------------- MODULE DataPlane -------------------------------
(***************************************************************************)
(* Model requests: a request is planned under the latest published         *)
(* snapshot with the hot state of the endpoints, the decision is recorded, *)
(* the caller is authorized, the provider is called, and the attempt and   *)
(* its usage are recorded.  The Responses WebSocket plans its first turn   *)
(* the same way and keeps the route for the turns that follow.             *)
(*                                                                         *)
(* Every lock and every await of the code is a step of its own, except     *)
(* that the two hot-state reads of a candidate are one.  Budgets and       *)
(* quotas are RuntimePolicy's: here the preflight passes or blocks.        *)
(*                                                                         *)
(* A row of kind "request" stands for an HTTP request or the upgrade of a  *)
(* WebSocket, and its number for an id of request_id_middleware.           *)
(***************************************************************************)
EXTENDS ConfigPublication

CONSTANTS
    ActorOf,       \* a caller's organization, project, principal, service account
                   \* and API key, and the resources the key is limited to (all,
                   \* when it has none)
    BucketWidth    \* the kinds of ledger buckets, and how many ticks one spans

Actor(a) == [tenant |-> TenantOf[a]] ++ ActorOf[a]
NoSelection == [target |-> None, endpoint |-> None, credential |-> None, alias |-> None,
                policy |-> None, group |-> None, ttl |-> None]
NoPin == [name |-> None]

\* request_id_middleware: a new id, or the one the client sends, which may be that
\* of an earlier request.  What is kept by request id is kept by tenant too, so an
\* id of another tenant is as good as a new one.
NewRequestId == Len(db["request"]) + 1
RequestIds(a) == OfTenant("request", TenantOf[a]) \cup {NewRequestId}

\* The op of a request that has just been read from the wire.
Begun(a, route, id, more) ==
    more ++ [route |-> route, scope |-> <<route>>, key |-> NoKey, kind |-> "request",
             id |-> id, pinned |-> NoPin, turns |-> 0]

\* A handler that is not a mutation: it keeps no audit event and no key.
OnlyOp == answer' = Nobody /\ UNCHANGED <<store, idem, records, fixed>>
Proceeds(a, pc) == op' = [op EXCEPT ![a].pc = pc]
IsWebSocket(a) == op[a].route = "responses_websocket"

\* An HTTP request ends with its answer; a WebSocket goes on with its next frame.
Idle(a) == [op[a] EXCEPT !.pc = "ws_idle", !.turns = @ + 1]
EndsTurn(a) == op' = [op EXCEPT ![a] = IF IsWebSocket(a) THEN Idle(a) ELSE NoOp]
Closes(a) == op' = [op EXCEPT ![a] = NoOp]
-----------------------------------------------------------------------------
(* runtime_route_target                                                    *)

Payload(kind, id) == Documents[Row(kind, id).f.payload]
Catalog(a) == GatewayCatalogSnapshot(Payload(op[a].snapshot[1], op[a].snapshot[2]))
PlanRequest(a) == op[a].request ++ [actor |-> Actor(a)]
Binding(a) == RouteBinding(Catalog(a), PlanRequest(a))

\* The first half of runtime_route_target and of run_route_simulation: the
\* catalog is loaded and the alias bound.  What the request goes on with, or
\* NoOp when it is answered with an error.
LoadCatalog(a, begun, request) ==
    LET id == LatestSnapshotForActor(TenantOf[a])
        payload == Payload(SnapshotKind, id)
        bound == ResolveRouteBinding(GatewayCatalogSnapshot(payload),
                                     request ++ [actor |-> Actor(a)])
        fresh == [request |-> request, now |-> clock, next |-> 1, denied |-> FALSE,
                  blind |-> FALSE, sticky_version |-> None, selected |-> NoSelection,
                  settled |-> Settled(TenantOf[a]),
                  drains |-> Rows("endpoint_drain")]
        planned == [pc |-> "sticky", outcome |-> "none", snapshot |-> <<SnapshotKind, id>>,
                    version |-> Row(SnapshotKind, id).f.version] ++ fresh
        unrouted == [pc |-> "authorize", outcome |-> "unrouted", snapshot |-> <<"none", None>>,
                     version |-> None] ++ fresh
    IN CASE id = None -> unrouted ++ begun
         [] id # None /\ FromPayload(payload) = "none" -> unrouted ++ begun
         [] id # None /\ FromPayload(payload) = "catalog" /\ bound = "bound" -> planned ++ begun
         [] OTHER -> NoOp

\* model_ingress, up to the catalog.
ModelIngress(a) ==
    /\ Calling(a, "model_ingress") /\ Len(db["request"]) < scenario.requests
    /\ \E request \in Requests["model"], id \in RequestIds(a) :
         op' = [op EXCEPT ![a] = LoadCatalog(a, Begun(a, "model_ingress", id, << >>), request)]
    /\ db' = [db EXCEPT !["request"] = Append(@, NewRow(TenantOf[a], << >>, "begun"))]
    /\ OnlyStore

\* run_route_simulation: without a catalog it is not ready.
RunRouteSimulation(a) ==
    /\ Calling(a, "run_route_simulation")
    /\ \E request \in Requests["model"] :
         LET planned == LoadCatalog(a, Begun(a, "run_route_simulation", NewRequestId, << >>),
                                    [request EXCEPT !.affinity = None])
         IN op' = [op EXCEPT ![a] = IF planned # NoOp /\ planned.outcome = "none"
                                    THEN planned ELSE NoOp]
    /\ OnlyOp

\* Selects, or goes on to the next candidate.
Selection(a, candidate) ==
    LET target == Get(Catalog(a).model_targets, candidate.target)
    IN [target |-> target.id, endpoint |-> target.endpoint, credential |-> target.credential,
        alias |-> Binding(a).alias.id, policy |-> Binding(a).policy.id,
        group |-> Binding(a).group.id, ttl |-> Binding(a).policy.sticky]

\* The tenant the snapshot names an endpoint's: publication does not compare it
\* with its own.
EndpointTenant(c, endpoint) ==
    IF Has(c.provider_endpoints, endpoint) THEN Get(c.provider_endpoints, endpoint).tenant
    ELSE None

\* evaluate_candidate with what the hot state is read as: the reason, and
\* whether a read failed.
Evaluations(a, candidate) ==
    LET c == Catalog(a)
        endpoint == IF Has(c.model_targets, candidate.target)
                    THEN Get(c.model_targets, candidate.target).endpoint ELSE None
        tenant == EndpointTenant(c, endpoint)
        drained == EndpointIsDrained(tenant, endpoint, op[a].version, op[a].now)
        health == EndpointHealthState(tenant, endpoint, op[a].version, op[a].now)
    IN {[reason |-> EvaluateCandidate(c, PlanRequest(a), Binding(a), candidate, d, h),
         blind |-> d # drained \/ h # health] :
          d \in HotRead(drained, FALSE), h \in HotRead(health, "unknown")}

\* The mapping of an affinity key: sticky_route of the hot state.
StickyRoutes(a) ==
    {id \in Ids("sticky_route") :
       LET s == Row("sticky_route", id)
       IN /\ s.tenant = TenantOf[a] /\ s.f.project = Actor(a).project
          /\ s.f.alias = Binding(a).alias.id /\ s.f.affinity = op[a].request.affinity
          /\ IsFreshFor(s, op[a].version, op[a].now)}

\* try_sticky_route_selection: the mapped target is a candidate like any other,
\* only tried first; anything unexpected is a miss.
MissesSticky(a, more) == op' = [op EXCEPT ![a] = more ++ [pc |-> "candidates"] ++ @]
FollowsSticky(a, sticky) ==
    LET candidates == Candidates(Catalog(a), Binding(a).group.id)
        at == {i \in DOMAIN candidates : candidates[i].target = sticky.f.target}
        candidate == candidates[CHOOSE i \in at : \A j \in at : i <= j]
    IN IF sticky.f.group # Binding(a).group.id \/ at = {} THEN MissesSticky(a, << >>)
       ELSE \E e \in Evaluations(a, candidate) :
              IF e.reason = "selected" /\ Selection(a, candidate).endpoint = sticky.f.endpoint
              THEN op' = [op EXCEPT ![a] =
                            [pc |-> "decide", outcome |-> "selected",
                             blind |-> @.blind \/ e.blind, selected |-> Selection(a, candidate),
                             sticky_version |-> sticky.f.version] ++ @]
              ELSE MissesSticky(a, [blind |-> op[a].blind \/ e.blind,
                                    denied |-> e.reason = "provider_grant_denied"])
TryStickyRouteSelection(a) ==
    /\ op[a].pc = "sticky"
    /\ LET asked == op[a].request.affinity # None /\ Binding(a).policy.sticky # None
       IN \E found \in IF asked THEN HotRead(StickyRoutes(a), {}) ELSE {{}} :
            IF found = {} THEN MissesSticky(a, << >>)
            ELSE FollowsSticky(a, Row("sticky_route", CHOOSE id \in found : TRUE))
    /\ OnlyOp

\* first_eligible_route_selection: one candidate after the other.
FirstEligibleRouteSelection(a) ==
    /\ op[a].pc = "candidates"
    /\ LET candidates == Candidates(Catalog(a), Binding(a).group.id)
       IN IF op[a].next > Len(candidates)
          THEN op' = [op EXCEPT ![a].pc = "decide",
                                ![a].outcome = IF op[a].denied THEN "blocked" ELSE "no_route"]
          ELSE \E e \in Evaluations(a, candidates[op[a].next]) :
                 op' = [op EXCEPT ![a] =
                          (IF e.reason = "selected"
                           THEN [pc |-> "decide", outcome |-> "selected",
                                 selected |-> Selection(a, candidates[op[a].next])]
                           ELSE [next |-> @.next + 1,
                                 denied |-> @.denied \/ e.reason = "provider_grant_denied"])
                            ++ [blind |-> @.blind \/ e.blind] ++ @]
    /\ OnlyOp

AnswerRouteSimulation(a) ==
    /\ op[a].pc = "decide" /\ op[a].route = "run_route_simulation"
    /\ Closes(a)
    /\ OnlyOp
-----------------------------------------------------------------------------
(* Evidence                                                                *)

\* Whether a drain of the endpoint held from before the request was planned
\* until now (history for the properties).
DrainInForce(a) ==
    \E d \in op[a].drains \cap Rows("endpoint_drain") :
        /\ d.f.endpoint = op[a].selected.endpoint
        /\ d.tenant = EndpointTenant(Catalog(a), d.f.endpoint)
        /\ d.f.version = op[a].version /\ d.f.expires > op[a].now

\* RouteDecisionRecord::selected and ::terminal
RouteDecisionRecord(a, status, durable) ==
    NewRow(TenantOf[a],
           [request |-> op[a].id, actor |-> Actor(a), asked |-> op[a].request,
            snapshot |-> op[a].snapshot, version |-> op[a].version,
            selected |-> op[a].selected, sticky_version |-> op[a].sticky_version,
            settled |-> op[a].settled, drained |-> DrainInForce(a) /\ ~ op[a].blind,
            durable |-> durable], status)

\* An evidence record is kept in memory and then in Postgres ("durable"), whose
\* failure is an error of the request.
Kept == IF scenario.postgres THEN BOOLEAN ELSE {TRUE}

\* record_route_decision_evidence; a request without a route ends here, and so
\* does the WebSocket it came on.
RecordRouteDecision(a) ==
    /\ op[a].pc = "decide" /\ op[a].route # "run_route_simulation"
    /\ \E kept \in Kept :
         /\ db' = [db EXCEPT !["route_decision"] =
                     Append(@, RouteDecisionRecord(a, op[a].outcome, kept))]
         /\ IF kept /\ op[a].outcome = "selected"
            THEN op' = [op EXCEPT ![a] = [pc |-> "map",
                                          decision |-> Len(db["route_decision"]) + 1] ++ @]
            ELSE Closes(a)
    /\ OnlyStore

\* record_sticky_route_mapping
StickyRouteRecord(a) ==
    NewRow(TenantOf[a],
           [project |-> Actor(a).project, alias |-> op[a].selected.alias,
            affinity |-> op[a].request.affinity, group |-> op[a].selected.group,
            target |-> op[a].selected.target, endpoint |-> op[a].selected.endpoint,
            version |-> op[a].version, expires |-> clock + op[a].selected.ttl], "active")
RecordStickyRouteMapping(a) ==
    /\ op[a].pc = "map"
    /\ \E kept \in HotRead(op[a].request.affinity # None /\ op[a].selected.ttl # None, FALSE) :
         db' = IF kept
               THEN [db EXCEPT !["sticky_route"] =
                       Upsert(@, StickyRouteRecord(a),
                              LAMBDA s : /\ s.tenant = TenantOf[a]
                                         /\ s.f.project = Actor(a).project
                                         /\ s.f.alias = op[a].selected.alias
                                         /\ s.f.affinity = op[a].request.affinity)]
               ELSE db
    /\ Proceeds(a, "authorize")
    /\ OnlyStore

\* grant_allows
GrantAllows(grant, actor, resource) ==
    /\ grant.tenant = actor.tenant
    /\ OptionalMatch(grant.f.org, actor.org) /\ OptionalMatch(grant.f.project, actor.project)
    /\ actor.principal # None /\ grant.f.principal = actor.principal
    /\ OptionalMatch(grant.f.resource, resource)

\* gateway_preflight_decision: an API key may be limited to some resources.
ApiKeyAllowsResource(actor, resource) == resource \in actor.allowed

\* authorization_engine_for_actor: the Cedar bundle of the latest snapshot, which
\* may be another one by now, else the action grants; and what it says.
RuntimeAuthorization(a) ==
    LET id == LatestSnapshotForActor(TenantOf[a])
        cedar == IF id = None THEN "none" ELSE Payload(SnapshotKind, id).cedar
        resource == IF op[a].outcome = "unrouted" THEN op[a].request.name
                    ELSE op[a].selected.alias
    IN CASE cedar = "invalid" -> "error"
         [] cedar # "invalid" /\ ~ ApiKeyAllowsResource(Actor(a), resource) -> "denied"
         [] cedar \in {"permit", "forbid"} /\ ApiKeyAllowsResource(Actor(a), resource)
              -> IF cedar = "permit" THEN "allowed" ELSE "denied"
         [] OTHER -> IF \E g \in Rows("action_grant") : GrantAllows(g, Actor(a), resource)
                     THEN "allowed" ELSE "denied"

\* authorize_runtime_provider_target: the decision is recorded either way.  A
\* denied WebSocket turn leaves the connection open.
AuthorizeRuntimeProviderTarget(a) ==
    /\ op[a].pc = "authorize"
    /\ LET authorization == RuntimeAuthorization(a)
       IN /\ db' = IF authorization = "error" THEN db
                   ELSE [db EXCEPT !["authorization_decision"] =
                           Append(@, NewRow(TenantOf[a], [request |-> op[a].id], authorization))]
          /\ CASE authorization = "allowed" -> Proceeds(a, "preflight")
               [] authorization = "denied" -> EndsTurn(a)
               [] authorization = "error" -> Closes(a)
    /\ OnlyStore

\* enforce_runtime_policy_preflight: passes, is out of budget or quota, which is a
\* decision of its own (record_runtime_policy_block_decision), or fails.
EnforceRuntimePolicyPreflight(a) ==
    /\ op[a].pc = "preflight"
    /\ \/ /\ Proceeds(a, IF IsWebSocket(a) /\ op[a].pinned = NoPin THEN "connect" ELSE "call")
          /\ UNCHANGED db
       \/ /\ "preflight_block" \in scenario.routes
          /\ \/ UNCHANGED db
             \/ \E kept \in Kept :
                  db' = [db EXCEPT !["route_decision"] =
                           Append(@, RouteDecisionRecord(a, "blocked", kept))]
          /\ EndsTurn(a)
    /\ OnlyStore
-----------------------------------------------------------------------------
(* The provider                                                            *)

\* runtime_provider_adapter_credential: the credential's secret as it is stored
\* now, whatever the credential's status; else the one the snapshot names.
RuntimeProviderAdapterCredential(a) ==
    LET id == op[a].selected.credential
        current == IF id \in Ids("upstream_credential")
                   THEN Row("upstream_credential", id).f.secret ELSE None
        published == IF id = None THEN None
                     ELSE Get(Catalog(a).upstream_credentials, id).secret
    IN IF current \in DOMAIN secrets THEN current
       ELSE IF published \in DOMAIN secrets THEN published ELSE None

\* runtime_provider_response: how the call may end.  A live provider is not
\* called without a route nor for a stream; the fake one always answers.
ProviderOutcomes(a) ==
    IF scenario.transport = "fake" THEN {"completed"}
    ELSE IF op[a].outcome = "unrouted" \/ op[a].request.streaming THEN {"failed"}
    ELSE {"completed", "failed"}

\* execute_runtime_provider_or_record_failure, the call itself.
CallProvider(a) ==
    /\ op[a].pc = "call" /\ ~ IsWebSocket(a)
    /\ \E outcome \in ProviderOutcomes(a) :
         op' = [op EXCEPT ![a] = [pc |-> "attempt", result |-> outcome, closing |-> FALSE,
                                  ended |-> clock,
                                  secret |-> RuntimeProviderAdapterCredential(a)] ++ @]
    /\ OnlyOp

\* responses_websocket_provider_request: a route to a provider that has one.
SupportsResponsesWebSocket(a) ==
    /\ op[a].outcome # "unrouted"
    /\ Get(Catalog(a).provider_endpoints, op[a].selected.endpoint).provider
         \in {"openai", "codex"}

\* connect_responses_websocket_upstream, and the route is pinned.  A connection
\* that fails is a failed attempt of a turn that leaves the route open.
ConnectResponsesWebSocketUpstream(a) ==
    /\ op[a].pc = "connect"
    /\ \E connected \in IF scenario.transport = "fake" THEN {TRUE}
                        ELSE IF SupportsResponsesWebSocket(a) THEN BOOLEAN ELSE {FALSE} :
         op' = [op EXCEPT ![a] =
                  IF connected
                  THEN [pc |-> "call", pinned |-> [name |-> @.request.name]] ++ @
                  ELSE [pc |-> "attempt", result |-> "failed", closing |-> FALSE,
                        ended |-> clock] ++ @]
    /\ OnlyOp

\* proxy_live_responses_websocket_turn: response.completed, a terminal error
\* event, the upstream closing or not answering in time, or the client leaving;
\* the fake turn completes unless the client has left.
TurnOutcomes ==
    IF scenario.transport = "fake" THEN {<<"completed", FALSE>>, <<"failed", TRUE>>}
    ELSE {<<"completed", FALSE>>, <<"failed", FALSE>>, <<"failed", TRUE>>,
          <<"client_disconnected", TRUE>>}
ProxyResponsesWebSocketTurn(a) ==
    /\ op[a].pc = "call" /\ IsWebSocket(a)
    /\ \E outcome \in TurnOutcomes :
         op' = [op EXCEPT ![a] = [pc |-> "attempt", result |-> outcome[1],
                                  closing |-> outcome[2], ended |-> clock] ++ @]
    /\ OnlyOp

\* RouteAttemptRecord: always attempt 0 of its decision.
RouteAttemptRecord(a, durable) ==
    NewRow(TenantOf[a], [decision |-> op[a].decision, target |-> op[a].selected.target,
                         endpoint |-> op[a].selected.endpoint, durable |-> durable],
           op[a].result)

\* record_x_route_attempt: of a request that has a decision.  Postgres failing
\* here ends the request, and the WebSocket, without a usage event.
RecordRouteAttempt(a) ==
    /\ op[a].pc = "attempt"
    /\ LET routed == op[a].outcome # "unrouted"
           after == IF op[a].result = "completed" /\ routed THEN Proceeds(a, "usage")
                    ELSE IF op[a].closing THEN Closes(a) ELSE EndsTurn(a)
       IN IF routed
          THEN \E kept \in Kept :
                 /\ db' = [db EXCEPT !["route_attempt"] = Append(@, RouteAttemptRecord(a, kept))]
                 /\ IF kept THEN after ELSE Closes(a)
          ELSE UNCHANGED db /\ after
    /\ OnlyStore
-----------------------------------------------------------------------------
(* Usage                                                                   *)

\* What a usage event is about, by the name of the scope that selects it.
Dimensions(a) ==
    LET membership == {id \in Ids("project_member") :
                         LET member == Row("project_member", id)
                         IN member.f.principal = Actor(a).principal
                              /\ member.f.project = Actor(a).project}
    IN [organization |-> Actor(a).org, project |-> Actor(a).project,
        project_member |-> IF membership = {} THEN None ELSE CHOOSE id \in membership : TRUE,
        service_account |-> Actor(a).service_account, api_key |-> Actor(a).api_key,
        model_alias |-> op[a].selected.alias, model_target |-> op[a].selected.target,
        provider_endpoint |-> op[a].selected.endpoint, route_policy |-> op[a].selected.policy,
        routing_group |-> op[a].selected.group, protocol_family |-> op[a].request.family]

\* record_terminal_usage_event: the event of a request.
UsageEventRecord(a) ==
    NewRow(TenantOf[a], [request |-> op[a].id, decision |-> op[a].decision, at |-> op[a].ended]
                          ++ Dimensions(a), "success")
SameRequest(a, k) ==
    \E u \in Rows(k) : u.tenant = TenantOf[a] /\ u.f.request = op[a].id
AfterUsage(a) == IF scenario.postgres THEN Proceeds(a, "store_usage") ELSE EndsTurn(a)

\* record_usage_event, the first lock: dropped when the request id has one.
RecordUsageEvent(a) ==
    /\ op[a].pc = "usage"
    /\ IF SameRequest(a, "usage_event") THEN UNCHANGED db /\ AfterUsage(a)
       ELSE /\ db' = [db EXCEPT !["usage_event"] = Append(@, UsageEventRecord(a))]
            /\ Proceeds(a, "fold")
    /\ OnlyStore

\* usage_bucket_start
UsageBucketStart(kind, at) == at - (at % BucketWidth[kind])

\* Mistake: the bucket does not tell endpoints apart.
UsageBucketKeyOfAlias(a, kind) ==
    [kind |-> kind, start |-> UsageBucketStart(kind, op[a].ended), provider_endpoint |-> None]
      ++ Dimensions(a)

\* usage_bucket_key
UsageBucketKey(a, kind) ==
    [kind |-> kind, start |-> UsageBucketStart(kind, op[a].ended)] ++ Dimensions(a)

\* fold_usage_event_into_bucket, for every kind: the bucket of the key counts one
\* event more, and there is one from now on.
BucketOf(bucket, a, kind) ==
    /\ bucket.tenant = TenantOf[a]
    /\ [bucket.f EXCEPT !.count = 0] = [count |-> 0] ++ UsageBucketKey(a, kind)
NewBucket(a, kind) == NewRow(TenantOf[a], [count |-> 1] ++ UsageBucketKey(a, kind), "open")
FoldUsageEvent(buckets, a) ==
    LET kinds == DOMAIN BucketWidth
        missing == {kind \in kinds : \A i \in DOMAIN buckets : ~ BucketOf(buckets[i], a, kind)}
        counted == [i \in DOMAIN buckets |->
                      IF \E kind \in kinds : BucketOf(buckets[i], a, kind)
                      THEN [buckets[i] EXCEPT !.f.count = @ + 1] ELSE buckets[i]]
    IN counted \o SetToSeq({NewBucket(a, kind) : kind \in missing})

\* record_usage_event, the second lock: the bucket of every kind.
RecordLedgerBuckets(a) ==
    /\ op[a].pc = "fold"
    /\ db' = [db EXCEPT !["ledger_bucket"] = FoldUsageEvent(@, a)]
    /\ AfterUsage(a)
    /\ OnlyStore

\* insert_usage_event of the Postgres store: event and buckets in one transaction
\* that a request id passes once, or that fails.
InsertUsageEvent(a) ==
    /\ op[a].pc = "store_usage"
    /\ \/ /\ db' = IF SameRequest(a, "durable_usage_event") THEN db
                   ELSE [db EXCEPT !["durable_usage_event"] = Append(@, UsageEventRecord(a)),
                                   !["durable_ledger_bucket"] = FoldUsageEvent(@, a)]
          /\ EndsTurn(a)
       \/ Closes(a) /\ UNCHANGED db
    /\ OnlyStore

\* request_timeout_middleware and a client that has gone: an HTTP handler is
\* dropped where it awaits, and what it has recorded stays.
DropRequest(a) ==
    /\ op[a] # NoOp /\ op[a].route = "model_ingress" /\ "drop_request" \in scenario.routes
    /\ \/ op[a].pc \in {"sticky", "candidates", "map", "authorize", "preflight", "call"}
       \/ op[a].pc = "usage" /\ scenario.postgres
    /\ Closes(a)
    /\ OnlyOp
-----------------------------------------------------------------------------
(* Responses WebSocket                                                     *)

\* responses_websocket_ingress: one request id for all turns of the connection.
ResponsesWebSocketIngress(a) ==
    /\ Calling(a, "responses_websocket") /\ Len(db["request"]) < scenario.requests
    /\ \E id \in RequestIds(a) :
         op' = [op EXCEPT ![a] = Begun(a, "responses_websocket", id, [pc |-> "ws_idle"])]
    /\ db' = [db EXCEPT !["request"] = Append(@, NewRow(TenantOf[a], << >>, "begun"))]
    /\ OnlyStore

\* handle_response_create: a frame for another model is refused, the caller is
\* authenticated again, and the pinned route is used as it was planned; without
\* one the route is planned, and an error of that closes the connection.
HandleResponseCreate(a) ==
    /\ op[a].pc = "ws_idle" /\ op[a].turns < scenario.turns
    /\ \E request \in {r \in Requests["model"] : r.family = "openai_responses" /\ r.streaming},
          authenticated \in {"yes", "refused", "error"} :
         op' = [op EXCEPT ![a] =
                  IF @.pinned # NoPin /\ @.pinned.name # request.name THEN Idle(a)
                  ELSE IF authenticated = "refused" THEN NoOp
                  ELSE IF authenticated = "error" THEN Idle(a)
                  ELSE IF @.pinned # NoPin THEN [pc |-> "authorize", request |-> request] ++ @
                  ELSE LoadCatalog(a, @, request)]
    /\ OnlyOp

\* run: the client closes, the connection is idle for too long or too old.
CloseResponsesWebSocket(a) ==
    /\ op[a].pc = "ws_idle"
    /\ Closes(a)
    /\ OnlyOp
=============================================================================
