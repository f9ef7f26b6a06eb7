------------------------------ MODULE MCDataPlane ------------------------------
(***************************************************************************)
(* A small instance of the data plane: two requests in flight for tenant 1 *)
(* and evidence of tenant 2 that they must not be shown.  Tenant 1 starts  *)
(* with one published snapshot whose alias leads to two targets on two     *)
(* endpoints; what is published later closes, moves or breaks that route.  *)
(* Each scenario names the routes that are called together.                *)
(***************************************************************************)
EXTENDS GatewayRuntime

Symmetry == Permutations(Admins) \cup Permutations(Keys)
MCTenantOf == [a \in Admins |-> 1]
Caller == [org |-> 1, project |-> 1, principal |-> 5, service_account |-> None, api_key |-> 1,
           allowed |-> {1, 2, 11}]
MCActorOf == [a \in Admins |-> Caller]
MCBucketWidth == [event |-> 1, day |-> 2]

R(t, f) == NewRow(t, f, "active")
Family == "openai_responses"
Alias == 11
-----------------------------------------------------------------------------
(* Payloads                                                                *)

Endpoint(id, tenant, provider) ==
    [id |-> id, tenant |-> tenant, provider |-> provider, families |-> {Family}, url |-> TRUE, status |-> "active"]
Credential(id, endpoint) ==
    [id |-> id, endpoint |-> endpoint, kind |-> "api_key", secret |-> id, status |-> "active"]
Target(id, endpoint, credential) ==
    [id |-> id, endpoint |-> endpoint, credential |-> credential, family |-> Family,
     streaming |-> TRUE, status |-> "active"]
AliasRow(id, project, policy) ==
    [id |-> id, tenant |-> 1, name |-> Alias, org |-> IF project = None THEN None ELSE 1,
     project |-> project, family |-> Family, policy |-> policy, status |-> "active"]
Member(group, target, priority) ==
    [group |-> group, target |-> target, priority |-> priority, weight |-> 1,
     status |-> "active"]
Policy(id, alias, group, sticky) ==
    [id |-> id, alias |-> alias, group |-> group, sticky |-> sticky, ttl_ok |-> TRUE,
     status |-> "active"]
Group(id) == [id |-> id, status |-> "active"]
ResourceGrant(scope, effect, kind, id, closure) ==
    [tenant |-> 1, org |-> None, project |-> None, principal |-> None, endpoint |-> None,
     target |-> None, scope_kind |-> scope, scope_id |-> 1, resource_kind |-> kind,
     resource_id |-> id, effect |-> effect, closure |-> closure, status |-> "active"]
LegacyGrant ==
    [tenant |-> 1, org |-> 1, project |-> None, principal |-> None, endpoint |-> 2,
     target |-> None, scope_kind |-> "none", scope_id |-> None, resource_kind |-> "none",
     resource_id |-> None, effect |-> "allow", closure |-> "self_only", status |-> "active"]

OpenRoute ==
    [cedar |-> "none", decodes |-> TRUE,
     provider_endpoints |-> <<Endpoint(1, 1, "openai"), Endpoint(2, 1, "other")>>,
     upstream_credentials |-> <<Credential(1, 1)>>,
     model_targets |-> <<Target(1, 1, 1), Target(2, 2, None)>>,
     model_aliases |-> <<AliasRow(1, None, 1)>>,
     routing_groups |-> <<Group(1)>>,
     routing_group_targets |-> <<Member(1, 2, 2), Member(1, 1, 1)>>,
     route_policies |-> <<Policy(1, 1, 1, 1)>>,
     provider_grants |-> <<ResourceGrant("organization", "allow", "model_alias", 1,
                                         "include_descendants")>>]

\* The project may not use what is behind target 1.
DeniedRoute ==
    [OpenRoute EXCEPT !.provider_grants =
       Append(@, ResourceGrant("project", "deny", "model_target", 1, "deny_descendants"))]

\* An alias of the project hides the tenant's and leads to target 2 alone, on an
\* endpoint that the document says is tenant 2's.
ProjectRoute ==
    [OpenRoute EXCEPT !.provider_endpoints[2].tenant = 2,
                      !.model_aliases = Append(@, AliasRow(2, 1, 2)),
                      !.routing_groups = Append(@, Group(2)),
                      !.routing_group_targets = Append(@, Member(2, 2, 1)),
                      !.route_policies = Append(@, Policy(2, 2, 2, None)),
                      !.provider_grants = <<LegacyGrant>>]

\* What tenant 2 has published.
OtherRoute ==
    [cedar |-> "none", decodes |-> TRUE,
     provider_endpoints |-> <<Endpoint(3, 2, "openai")>>,
     model_targets |-> <<Target(3, 3, None)>>,
     model_aliases |-> <<[AliasRow(2, None, 2) EXCEPT !.tenant = 2]>>,
     routing_groups |-> <<Group(2)>>,
     routing_group_targets |-> <<Member(2, 3, 1)>>,
     route_policies |-> <<Policy(2, 2, 2, None)>>,
     provider_grants |-> <<[LegacyGrant EXCEPT !.tenant = 2, !.org = 2, !.endpoint = 3]>>]

Unroutable == [OpenRoute EXCEPT !.model_aliases = <<AliasRow(1, None, 3)>>]
NoCatalog(cedar) == [cedar |-> cedar, decodes |-> TRUE]

MCDocuments ==
    [open |-> OpenRoute, denied |-> DeniedRoute, project |-> ProjectRoute, other |-> OtherRoute,
     forbidden |-> [OpenRoute EXCEPT !.cedar = "forbid"], unroutable |-> Unroutable,
     no_catalog |-> NoCatalog("permit"), invalid |-> NoCatalog("invalid")]
-----------------------------------------------------------------------------
Snapshot(t, payload, version, earlier) ==
    NewRow(t, [payload |-> payload, version |-> version, rollback_of |-> None,
               earlier |-> earlier], "published")
Pointer(t, snapshot, version) == R(t, [snapshot |-> snapshot, version |-> version])

OtherCaller == [tenant |-> 2, org |-> 2, project |-> 2, principal |-> 5,
                service_account |-> None, api_key |-> 2, allowed |-> {1, 11}]
Asked(streaming, affinity) ==
    [name |-> Alias, family |-> Family, streaming |-> streaming, affinity |-> affinity]
Selected == [target |-> 3, endpoint |-> 3, credential |-> None, alias |-> 2, policy |-> 2,
             group |-> 2, ttl |-> None]
OtherDecision ==
    NewRow(2, [request |-> 1, actor |-> OtherCaller, asked |-> Asked(FALSE, None),
               snapshot |-> <<"config_snapshot", 2>>, version |-> 1, selected |-> Selected,
               sticky_version |-> None, settled |-> {}, drained |-> FALSE, durable |-> TRUE],
           "selected")
OtherDimensions ==
    [organization |-> 2, project |-> 2, project_member |-> 2, service_account |-> None,
     api_key |-> 2, model_alias |-> 2, model_target |-> 3, provider_endpoint |-> 3,
     route_policy |-> 2, routing_group |-> 2, protocol_family |-> Family]
\* Postgres also has two events of tenant 1 from before the process was started.
EarlierDimensions ==
    [organization |-> 1, project |-> 1, project_member |-> 1, service_account |-> None,
     api_key |-> 1, model_alias |-> 1, model_target |-> 1, provider_endpoint |-> 1,
     route_policy |-> 1, routing_group |-> 1, protocol_family |-> Family]
EarlierUsage(request) ==
    NewRow(1, [request |-> request, decision |-> None, at |-> 0] ++ EarlierDimensions, "success")
EarlierBucket(kind) ==
    NewRow(1, [kind |-> kind, start |-> 0, count |-> 2] ++ EarlierDimensions, "open")
OtherUsage == NewRow(2, [request |-> 1, decision |-> 1, at |-> 0] ++ OtherDimensions, "success")
OtherBucket == NewRow(2, [kind |-> "event", start |-> 0, count |-> 1] ++ OtherDimensions, "open")
Otel(t, org, secret) ==
    R(t, [org |-> org, project |-> None, interval |-> 1, protocol |-> "otlp_http",
          headers |-> <<[secret |-> secret]>>])
PolicyRow(t, scope, id) == R(t, [scope |-> scope, scope_id |-> id, org |-> None, project |-> None])

MCSeed ==
    [request |-> <<R(2, << >>)>>,
     organization |-> <<R(1, << >>), R(2, << >>)>>,
     project |-> <<R(1, [org |-> 1]), R(2, [org |-> 2])>>,
     project_member |-> <<R(1, [principal |-> 5, project |-> 1]),
                          R(2, [principal |-> 5, project |-> 2])>>,
     api_key |-> <<R(1, << >>), R(2, << >>)>>,
     service_account |-> <<R(1, << >>), R(2, << >>)>>,
     secret_ref |-> <<R(1, [fingerprint |-> "v1"]), R(2, [fingerprint |-> "v1"])>>,
     provider_endpoint |-> <<R(1, << >>), R(1, << >>), R(2, << >>)>>,
     upstream_credential |-> <<R(1, [endpoint |-> 1, secret |-> 1]),
                               R(2, [endpoint |-> 3, secret |-> 2])>>,
     model_alias |-> <<R(1, << >>), R(2, << >>)>>,
     model_target |-> <<R(1, << >>), R(1, << >>), R(2, << >>)>>,
     route_policy |-> <<R(1, << >>), R(2, << >>)>>,
     routing_group |-> <<R(1, << >>), R(2, << >>)>>,
     budget_policy |-> <<PolicyRow(1, "tenant", 1), PolicyRow(1, "project", 1),
                         PolicyRow(2, "tenant", 2)>>,
     quota_policy |-> <<PolicyRow(1, "organization", 1), PolicyRow(2, "tenant", 2)>>,
     action_grant |-> <<R(1, [org |-> None, project |-> None, principal |-> 5,
                              resource |-> None])>>,
     config_snapshot |-> <<Snapshot(1, "open", 1, {}), Snapshot(2, "other", 1, {})>>,
     durable_snapshot |-> <<Snapshot(1, "open", 1, {}), Snapshot(2, "other", 1, {})>>,
     config_publication |-> <<Pointer(1, 1, 1), Pointer(2, 2, 1)>>,
     config_invalidation |-> <<Pointer(1, 1, 1)>>,
     latest_snapshot |-> <<Pointer(1, 1, 1)>>,
     worker_reload |-> <<R(2, [worker |-> "w", version |-> 1, source |-> "polling",
                               missed |-> 0])>>,
     emergency_operation |-> << >>,
     endpoint_drain |-> << >>,
     endpoint_health |-> << >>,
     sticky_route |-> << >>,
     route_decision |-> <<OtherDecision>>,
     route_attempt |-> <<NewRow(2, [decision |-> 1, target |-> 3, endpoint |-> 3,
                                    durable |-> TRUE], "completed")>>,
     authorization_decision |-> << >>,
     usage_event |-> <<OtherUsage>>,
     ledger_bucket |-> <<OtherBucket>>,
     durable_usage_event |-> <<OtherUsage, EarlierUsage(0), EarlierUsage(1)>>,
     durable_ledger_bucket |-> <<OtherBucket, EarlierBucket("event"), EarlierBucket("day")>>,
     otel_config |-> <<Otel(1, 1, 1), [Otel(1, None, 1) EXCEPT !.status = "disabled"],
                       Otel(2, None, 3)>>,
     otel_health |-> <<NewRow(2, [config |-> 3, attempted |-> 0, failures |-> 1,
                                  succeeded |-> None], "retryable_failed")>>]

MCRequests ==
    [payload |-> DOMAIN MCDocuments \ {"open", "other"},
     reason |-> BOOLEAN,
     emergency |-> {[shape |-> TRUE, expires |-> 1, expected |-> 1],
                    [shape |-> FALSE, expires |-> 1, expected |-> 1]},
     health |-> {[endpoint |-> 1, version |-> 1, expires |-> 1, health |-> "unhealthy"],
                 [endpoint |-> 1, version |-> 1, expires |-> 1, health |-> "blocked"],
                 [endpoint |-> 2, version |-> 2, expires |-> 1, health |-> "unhealthy"]},
     model |-> {Asked(FALSE, 7), Asked(TRUE, None), [Asked(FALSE, 7) EXCEPT !.family = "openai_chat"]},
     scope |-> {[kind |-> k, id |-> 1] : k \in {"tenant"} \cup IdentityScopes \cup CatalogScopes}
                 \cup {[kind |-> "provider_endpoint", id |-> 2],
                       [kind |-> "project", id |-> 2]}
                 \cup {[kind |-> "protocol_family", id |-> None, family |-> Family]}]

Base == [routes |-> {}, mutations |-> 0, horizon |-> 0, redis |-> FALSE, postgres |-> FALSE,
         requests |-> 1, turns |-> 2, transport |-> "fake"]
Calls(routes, more) == more ++ [Base EXCEPT !.routes = routes]
OneRequest == [requests |-> 2]
TwoRequests == [requests |-> 3]

OverviewRoutes ==
    {"get_organization_dashboard_overview", "get_project_dashboard_overview",
     "get_project_member_dashboard_overview", "get_api_key_dashboard_overview",
     "get_service_account_dashboard_overview", "get_model_alias_dashboard_overview",
     "get_model_target_dashboard_overview", "get_provider_endpoint_observability_usage"}
EvidenceRoutes ==
    {"list_route_decisions", "get_route_decision", "list_route_attempts", "get_route_attempt",
     "list_audit_events", "list_usage_events", "get_usage_summary", "get_usage_timeseries",
     "get_tenant_dashboard_overview", "get_model_alias_routes_observability",
     "get_model_alias_quality_observability",
     "get_provider_endpoint_model_targets_observability",
     "get_provider_endpoint_observability_health",
     "get_provider_endpoint_observability_failover",
     "get_provider_endpoint_observability_credentials", "get_realtime_providers",
     "get_realtime_routes", "get_realtime_budgets", "get_realtime_quotas",
     "get_realtime_workers", "get_realtime_overview", "get_budget_dashboard",
     "get_quota_dashboard", "get_budget_policy_timeseries", "get_rate_limit_timeseries"}
      \cup DOMAIN UsageBreakdownDimension \cup OverviewRoutes

\* One WebSocket with two turns.
TurnScenarios == {Calls({"responses_websocket"}, OneRequest)}

MCScenarios ==
    {Calls({"rollback_config_snapshot"}, [mutations |-> 3]),
     Calls({"publish_config_snapshot", "emergency_rollback_config_snapshot",
            "emergency_freeze_config"}, [mutations |-> 2]),
     Calls({"publish_config_snapshot", "list_config_snapshots", "get_config_snapshot",
            "validate_config_snapshot", "list_validation_diagnostics", "readyz",
            "run_route_simulation"}, [mutations |-> 1]),
     Calls({"rollback_config_snapshot", "reload_worker"}, [mutations |-> 2]),
     Calls({"rollback_config_snapshot", "model_ingress"}, [mutations |-> 2] ++ OneRequest),
     Calls({"publish_config_snapshot", "model_ingress"}, [mutations |-> 1] ++ TwoRequests),
     Calls({"model_ingress", "drop_request", "preflight_block"},
           [transport |-> "live"] ++ TwoRequests),
     Calls({"model_ingress", "emergency_disable_provider_endpoint", "rollback_config_snapshot"},
           [mutations |-> 2] ++ OneRequest),
     Calls({"model_ingress", "emergency_disable_provider_endpoint"},
           [mutations |-> 1, redis |-> TRUE, horizon |-> 1] ++ OneRequest),
     Calls({"model_ingress", "set_endpoint_health"}, OneRequest),
     Calls({"model_ingress"}, [horizon |-> 1] ++ TwoRequests),
     Calls({"model_ingress", "drop_request"}, [postgres |-> TRUE] ++ OneRequest),
     Calls({"responses_websocket", "publish_config_snapshot"},
           [mutations |-> 1, transport |-> "live"] ++ OneRequest),
     Calls({"responses_websocket", "preflight_block"}, OneRequest),
     Calls({"model_ingress"} \cup EvidenceRoutes, OneRequest),
     Calls({"model_ingress", "get_tenant_dashboard_overview", "list_route_attempts",
            "list_usage_events"}, [postgres |-> TRUE, horizon |-> 1] ++ OneRequest),
     Calls({"run_due_otel_exporter", "readyz"}, [horizon |-> 2] ++ OneRequest),
     Calls({"run_due_otel_exporter", "model_ingress"}, [postgres |-> TRUE] ++ OneRequest)}
=============================================================================
