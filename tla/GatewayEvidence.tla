---------------------------- MODULE GatewayEvidence ----------------------------
(***************************************************************************)
(* What the gateway shows of the requests it served: route evidence, usage *)
(* and its ledger, the realtime and overview dashboards, readiness, and    *)
(* the OpenTelemetry exporter that pushes the same numbers to a collector. *)
(*                                                                         *)
(* A read answers with the rows its numbers are computed from; paging, the *)
(* filters a query may add and the number of decisions, attempts and       *)
(* snapshots that are read from Postgres at a time only make an answer     *)
(* smaller; the number of usage events and buckets is modelled, because    *)
(* totals are computed from what was read.  The exporter                   *)
(* is run by the background worker, which takes the place of a caller      *)
(* here; the notifications and the reconciliation of the same tick are     *)
(* NotificationOutbox's and RuntimePolicy's.                               *)
(***************************************************************************)
EXTENDS DataPlane

CONSTANT UsageScanLimit    \* USAGE_ANALYTICS_DURABLE_SCAN_LIMIT

Shown(k, ids) == {<<k, id>> : id \in ids}
-----------------------------------------------------------------------------
(* Route evidence                                                          *)

\* route_decision_evidence_for_tenant: with Postgres, what it has kept.
RouteDecisionEvidenceForTenant(t) ==
    {id \in OfTenant("route_decision", t) :
       scenario.postgres => Row("route_decision", id).f.durable}

\* Mistake: the attempts of every tenant.
RouteAttemptEvidenceForAnyone(t) == Ids("route_attempt")

\* route_attempt_evidence_for_tenant: an attempt has no tenant of its own, its
\* decision has.
RouteAttemptEvidenceForTenant(t) ==
    {id \in Ids("route_attempt") :
       /\ Row("route_attempt", id).f.decision \in RouteDecisionEvidenceForTenant(t)
       /\ scenario.postgres => Row("route_attempt", id).f.durable}
AttemptsOf(t, decisions) ==
    {id \in RouteAttemptEvidenceForTenant(t) : Row("route_attempt", id).f.decision \in decisions}

ListRouteDecisions(a) ==
    /\ Calling(a, "list_route_decisions")
    /\ Reads(a, Shown("route_decision", RouteDecisionEvidenceForTenant(TenantOf[a])))
GetRouteDecision(a) ==
    /\ Calling(a, "get_route_decision")
    /\ \E id \in RouteDecisionEvidenceForTenant(TenantOf[a]) :
         Reads(a, {<<"route_decision", id>>}
                    \cup Shown("route_attempt", AttemptsOf(TenantOf[a], {id})))
ListRouteAttempts(a) ==
    /\ Calling(a, "list_route_attempts")
    /\ Reads(a, Shown("route_attempt", RouteAttemptEvidenceForTenant(TenantOf[a])))
GetRouteAttempt(a) ==
    /\ Calling(a, "get_route_attempt")
    /\ \E id \in RouteAttemptEvidenceForTenant(TenantOf[a]) :
         Reads(a, {<<"route_attempt", id>>,
                   <<"route_decision", Row("route_attempt", id).f.decision>>})
ListAuditEvents(a) ==
    /\ Calling(a, "list_audit_events")
    /\ Reads(a, {<<"audit_event", e>> : e \in {i \in DOMAIN audit :
                                                  audit[i].tenant = TenantOf[a]}})
-----------------------------------------------------------------------------
(* Usage                                                                   *)

\* usage_events_for_analytics and ledger_buckets_for_analytics
UsageKind == IF scenario.postgres THEN "durable_usage_event" ELSE "usage_event"
LedgerKind == IF scenario.postgres THEN "durable_ledger_bucket" ELSE "ledger_bucket"

\* What one query of Postgres returns: the latest rows, and of one moment those
\* with the lower ids.  Memory is read as a whole.
Scanned(ids, when(_)) ==
    IF ~ scenario.postgres THEN ids
    ELSE {id \in ids : Cardinality({other \in ids : \/ when(other) > when(id)
                                                    \/ when(other) = when(id) /\ other < id})
                         < UsageScanLimit}
UsageEventsForAnalytics(t) ==
    Scanned(OfTenant(UsageKind, t), LAMBDA id : Row(UsageKind, id).f.at)
\* The buckets of all kinds together.
LedgerBucketsForAnalytics(t) ==
    Scanned(OfTenant(LedgerKind, t), LAMBDA id : Row(LedgerKind, id).f.start)

IdentityScopes == {"organization", "project", "project_member", "api_key", "service_account"}
CatalogScopes == {"model_alias", "model_target", "provider_endpoint", "route_policy",
                  "routing_group"}

\* usage_catalog_scope_from_query and usage_protocol_family_scope
UsageCatalogScopeFromQuery(a, scope) ==
    scope.kind \in CatalogScopes /\ ForActor(scope.kind, a, scope.id)
UsageProtocolFamilyScope(a, scope) ==
    scope.kind = "protocol_family" /\ scope.family \in {"openai_responses", "openai_chat"}

\* usage_scope_from_query, with usage_tenant_scope and
\* usage_identity_scope_from_query: the scope a query may ask for.
UsageScopeFromQuery(a, scope) ==
    \/ scope.kind = "tenant" /\ scope.id \in {None, TenantOf[a]}
    \/ scope.kind \in IdentityScopes /\ ForActor(scope.kind, a, scope.id)
    \/ UsageCatalogScopeFromQuery(a, scope)
    \/ UsageProtocolFamilyScope(a, scope)

\* dashboard_usage_event_matches_scope and dashboard_bucket_matches_scope
ScopeValue(scope) == IF scope.kind = "protocol_family" THEN scope.family ELSE scope.id
DashboardUsageEventMatchesScope(event, t, scope) ==
    event.tenant = t /\ (scope.kind = "tenant" \/ event.f[scope.kind] = ScopeValue(scope))
DashboardBucketMatchesScope(bucket, t, scope) ==
    bucket.tenant = t /\ (scope.kind = "tenant" \/ bucket.f[scope.kind] = ScopeValue(scope))

\* dashboard_decision_matches_scope: a decision knows the caller and the
\* selection, and a member only by project and principal.
DashboardDecisionMatchesScope(decision, t, scope) ==
    LET f == decision.f
    IN /\ decision.tenant = t
       /\ CASE scope.kind = "tenant" -> TRUE
            [] scope.kind = "organization" -> f.actor.org = scope.id
            [] scope.kind = "project" -> f.actor.project = scope.id
            [] scope.kind = "project_member" ->
                 LET member == Row("project_member", scope.id)
                 IN f.actor.project = member.f.project /\ f.actor.principal = member.f.principal
            [] scope.kind = "api_key" -> f.actor.api_key = scope.id
            [] scope.kind = "service_account" -> f.actor.principal = scope.id
            [] scope.kind = "model_alias" -> f.selected.alias = scope.id
            [] scope.kind = "model_target" -> f.selected.target = scope.id
            [] scope.kind = "provider_endpoint" -> f.selected.endpoint = scope.id
            [] OTHER -> FALSE

ScopedEvents(t, scope) ==
    {id \in UsageEventsForAnalytics(t) :
       DashboardUsageEventMatchesScope(Row(UsageKind, id), t, scope)}
ScopedBuckets(t, scope, kind) ==
    {id \in LedgerBucketsForAnalytics(t) :
       /\ Row(LedgerKind, id).f.kind = kind
       /\ DashboardBucketMatchesScope(Row(LedgerKind, id), t, scope)}
ScopedDecisions(t, scope) ==
    {id \in RouteDecisionEvidenceForTenant(t) :
       DashboardDecisionMatchesScope(Row("route_decision", id), t, scope)}

\* accumulate_usage_bucket: the requests that some buckets count.
AccumulateUsageBuckets(ids) == MapThenSumSet(LAMBDA id : Row(LedgerKind, id).f.count, ids)

\* dashboard_usage_rollup_from_records and usage_timeseries_points_from_buckets
DashboardUsageRollup(t, scope) == AccumulateUsageBuckets(ScopedBuckets(t, scope, "event"))
UsageTimeseriesPoints(t, scope, kind) ==
    LET buckets == ScopedBuckets(t, scope, kind)
    IN [start \in {Row(LedgerKind, id).f.start : id \in buckets} |->
          AccumulateUsageBuckets({id \in buckets : Row(LedgerKind, id).f.start = start})]

\* usage_breakdown_group: what the buckets of a scope are grouped by.
UsageBreakdownDimension ==
    [get_usage_breakdown_by_project |-> "project",
     get_usage_breakdown_by_project_member |-> "project_member",
     get_usage_breakdown_by_model |-> "model_alias",
     get_usage_breakdown_by_provider_endpoint |-> "provider_endpoint"]
UsageBreakdown(t, scope, dimension) ==
    LET group(id) == Row(LedgerKind, id).f[dimension]
        buckets == {id \in ScopedBuckets(t, scope, "event") : group(id) # None}
    IN [value \in {group(id) : id \in buckets} |->
          AccumulateUsageBuckets({id \in buckets : group(id) = value})]

\* A route whose query names a scope.
InScope(a, route, rows(_)) ==
    /\ Calling(a, route)
    /\ \E scope \in Requests["scope"] : UsageScopeFromQuery(a, scope) /\ Reads(a, rows(scope))

ListUsageEvents(a) ==
    InScope(a, "list_usage_events",
            LAMBDA scope : Shown(UsageKind, ScopedEvents(TenantOf[a], scope)))
GetUsageSummary(a) ==
    InScope(a, "get_usage_summary",
            LAMBDA scope : Shown(UsageKind, ScopedEvents(TenantOf[a], scope))
                             \cup Shown(LedgerKind, ScopedBuckets(TenantOf[a], scope, "event")))
GetUsageTimeseries(a) ==
    \E kind \in DOMAIN BucketWidth \ {"event"} :
        InScope(a, "get_usage_timeseries",
                LAMBDA scope : Shown(LedgerKind, ScopedBuckets(TenantOf[a], scope, kind)))
GetUsageBreakdown(a) ==
    \E route \in DOMAIN UsageBreakdownDimension :
        InScope(a, route,
                LAMBDA scope : Shown(LedgerKind,
                                     {id \in ScopedBuckets(TenantOf[a], scope, "event") :
                                        Row(LedgerKind, id).f[UsageBreakdownDimension[route]]
                                          # None}))
-----------------------------------------------------------------------------
(* Overview dashboards and observability                                   *)

\* dashboard_overview_response
DashboardOverviewResponse(t, scope) ==
    LET decisions == ScopedDecisions(t, scope)
    IN Shown("route_decision", decisions) \cup Shown("route_attempt", AttemptsOf(t, decisions))
         \cup Shown(UsageKind, ScopedEvents(t, scope))
         \cup Shown(LedgerKind, ScopedBuckets(t, scope, "event"))

GetTenantDashboardOverview(a) ==
    /\ Calling(a, "get_tenant_dashboard_overview")
    /\ Reads(a, DashboardOverviewResponse(TenantOf[a], [kind |-> "tenant", id |-> TenantOf[a]]))

\* The overview of one resource of the actor's tenant.
DashboardOverview(a, route, kind) ==
    /\ Calling(a, route)
    /\ \E id \in Ids(kind) :
         /\ ForActor(kind, a, id)
         /\ Reads(a, DashboardOverviewResponse(TenantOf[a], [kind |-> kind, id |-> id]))
GetOrganizationDashboardOverview(a) ==
    DashboardOverview(a, "get_organization_dashboard_overview", "organization")
GetProjectDashboardOverview(a) ==
    DashboardOverview(a, "get_project_dashboard_overview", "project")
GetProjectMemberDashboardOverview(a) ==
    DashboardOverview(a, "get_project_member_dashboard_overview", "project_member")
GetApiKeyDashboardOverview(a) ==
    DashboardOverview(a, "get_api_key_dashboard_overview", "api_key")
GetServiceAccountDashboardOverview(a) ==
    DashboardOverview(a, "get_service_account_dashboard_overview", "service_account")
GetModelAliasDashboardOverview(a) ==
    DashboardOverview(a, "get_model_alias_dashboard_overview", "model_alias")
GetModelTargetDashboardOverview(a) ==
    DashboardOverview(a, "get_model_target_dashboard_overview", "model_target")
GetProviderEndpointUsage(a) ==
    DashboardOverview(a, "get_provider_endpoint_observability_usage", "provider_endpoint")

\* A route about one resource: the resource and the evidence of it.
Observes(a, route, kind, rows(_)) ==
    /\ Calling(a, route)
    /\ \E id \in Ids(kind) : ForActor(kind, a, id) /\ Reads(a, {<<kind, id>>} \cup rows(id))

ModelAliasRouteObservability(t, alias) ==
    LET decisions == ScopedDecisions(t, [kind |-> "model_alias", id |-> alias])
    IN Shown("route_decision", decisions) \cup Shown("route_attempt", AttemptsOf(t, decisions))
GetModelAliasRoutesObservability(a) ==
    Observes(a, "get_model_alias_routes_observability", "model_alias",
             LAMBDA id : ModelAliasRouteObservability(TenantOf[a], id))
GetModelAliasQualityObservability(a) ==
    Observes(a, "get_model_alias_quality_observability", "model_alias",
             LAMBDA id : ModelAliasRouteObservability(TenantOf[a], id)
                           \cup Shown(UsageKind,
                                      ScopedEvents(TenantOf[a], [kind |-> "model_alias", id |-> id])))

AttemptsAt(t, endpoint) ==
    {id \in RouteAttemptEvidenceForTenant(t) : Row("route_attempt", id).f.endpoint = endpoint}
GetProviderEndpointModelTargets(a) ==
    Observes(a, "get_provider_endpoint_model_targets_observability", "provider_endpoint",
             LAMBDA id : Shown("route_attempt", AttemptsAt(TenantOf[a], id))
                           \cup Shown(UsageKind,
                                      ScopedEvents(TenantOf[a], [kind |-> "provider_endpoint",
                                                                 id |-> id])))
GetProviderEndpointHealth(a) ==
    Observes(a, "get_provider_endpoint_observability_health", "provider_endpoint",
             LAMBDA id : Shown("route_attempt", AttemptsAt(TenantOf[a], id)))
\* provider_endpoint_failover_observability_body: attempts here of decisions for
\* another endpoint, and attempts elsewhere of decisions for this one.
GetProviderEndpointFailover(a) ==
    Observes(a, "get_provider_endpoint_observability_failover", "provider_endpoint",
             LAMBDA id : Shown("route_attempt",
                               AttemptsAt(TenantOf[a], id)
                                 \cup AttemptsOf(TenantOf[a],
                                        ScopedDecisions(TenantOf[a], [kind |-> "provider_endpoint",
                                                                      id |-> id]))))
GetProviderEndpointCredentials(a) ==
    Observes(a, "get_provider_endpoint_observability_credentials", "provider_endpoint",
             LAMBDA id : Shown("upstream_credential",
                               {c \in OfTenant("upstream_credential", TenantOf[a]) :
                                  /\ Row("upstream_credential", c).f.endpoint = id
                                  /\ Row("upstream_credential", c).status # "deleted"}))
-----------------------------------------------------------------------------
(* Realtime and policy dashboards                                          *)

Live(k, t) == {id \in OfTenant(k, t) : Row(k, id).status # "deleted"}

RealtimeProviderSummary(t) == Shown("provider_endpoint", Live("provider_endpoint", t))
\* realtime_route_summary reads the memory of the process, not Postgres.
RealtimeRouteSummary(t) ==
    LET decisions == OfTenant("route_decision", t)
    IN Shown("route_decision", decisions)
         \cup Shown("route_attempt", {id \in Ids("route_attempt") :
                                        Row("route_attempt", id).f.decision \in decisions})
RealtimeBudgetSummary(t) == Shown("budget_policy", Live("budget_policy", t))
RealtimeQuotaSummary(t) == Shown("quota_policy", Live("quota_policy", t))
RealtimeWorkerSummary(t) == Shown("worker_reload", OfTenant("worker_reload", t))
RealtimeOtelExporterSummary(t) ==
    Shown("otel_config", Live("otel_config", t)) \cup Shown("otel_health", OfTenant("otel_health", t))

\* get_realtime_providers, _routes, _budgets, _quotas and _workers
GetRealtimeSection(a) ==
    LET t == TenantOf[a]
        sections == [get_realtime_providers |-> RealtimeProviderSummary(t),
                     get_realtime_routes |-> RealtimeRouteSummary(t),
                     get_realtime_budgets |-> RealtimeBudgetSummary(t),
                     get_realtime_quotas |-> RealtimeQuotaSummary(t),
                     get_realtime_workers |-> RealtimeWorkerSummary(t)]
    IN \E route \in DOMAIN sections : Calling(a, route) /\ Reads(a, sections[route])
GetRealtimeOverview(a) ==
    /\ Calling(a, "get_realtime_overview")
    /\ LET t == TenantOf[a]
       IN Reads(a, UNION {RealtimeProviderSummary(t), RealtimeRouteSummary(t),
                          RealtimeWorkerSummary(t), RealtimeOtelExporterSummary(t),
                          RealtimeBudgetSummary(t), RealtimeQuotaSummary(t),
                          Shown("config_publication", OfTenant("config_publication", t))})

\* policy_matches_dashboard_scope
PolicyMatchesDashboardScope(policy, t, scope) ==
    /\ policy.tenant = t
    /\ CASE scope.kind = "tenant" -> TRUE
         [] scope.kind = "organization" ->
              \/ policy.f.scope = "organization" /\ policy.f.scope_id = scope.id
              \/ policy.f.org = scope.id
         [] scope.kind = "project" ->
              \/ policy.f.scope = "project" /\ policy.f.scope_id = scope.id
              \/ policy.f.project = scope.id
         [] OTHER -> policy.f.scope = scope.kind /\ policy.f.scope_id = scope.id
\* budget_policy_bucket_matches_scope and quota_policy_bucket_matches_scope
PolicyBuckets(policy, t) ==
    LET dimension == [organization |-> "organization", project |-> "project",
                      alias |-> "model_alias", group |-> "routing_group",
                      endpoint |-> "provider_endpoint", target |-> "model_target"]
    IN {id \in LedgerBucketsForAnalytics(t) :
          \/ policy.f.scope = "tenant" /\ Row(LedgerKind, id).tenant = policy.f.scope_id
          \/ /\ policy.f.scope \in DOMAIN dimension
             /\ Row(LedgerKind, id).f[dimension[policy.f.scope]] = policy.f.scope_id}
DashboardRows(k, t, scope) ==
    LET policies == {id \in Live(k, t) : PolicyMatchesDashboardScope(Row(k, id), t, scope)}
    IN Shown(k, policies)
         \cup Shown(LedgerKind, UNION {PolicyBuckets(Row(k, id), t) : id \in policies})
GetBudgetDashboard(a) ==
    InScope(a, "get_budget_dashboard",
            LAMBDA scope : DashboardRows("budget_policy", TenantOf[a], scope)
                             \cup RealtimeBudgetSummary(TenantOf[a]))
GetQuotaDashboard(a) ==
    InScope(a, "get_quota_dashboard",
            LAMBDA scope : DashboardRows("quota_policy", TenantOf[a], scope)
                             \cup RealtimeQuotaSummary(TenantOf[a]))
GetBudgetPolicyTimeseries(a) ==
    Observes(a, "get_budget_policy_timeseries", "budget_policy",
             LAMBDA id : Shown(LedgerKind, PolicyBuckets(Row("budget_policy", id), TenantOf[a])))
GetRateLimitTimeseries(a) ==
    Observes(a, "get_rate_limit_timeseries", "quota_policy",
             LAMBDA id : Shown(LedgerKind, PolicyBuckets(Row("quota_policy", id), TenantOf[a])))
-----------------------------------------------------------------------------
(* OpenTelemetry exporter                                                  *)

\* otel_config_scope_matches
OtelConfigScopeMatches(config, org, project) ==
    OptionalMatch(config.f.org, org) /\ OptionalMatch(config.f.project, project)

\* otel_export_metrics: the evidence of the config's scope; the reloads and the
\* exporter's health are the tenant's.
OtelExportMetrics(config) ==
    LET t == config.tenant
        scoped(k, ids) == {id \in ids :
                             OtelConfigScopeMatches(config, Row(k, id).f.organization,
                                                    Row(k, id).f.project)}
        decisions == {id \in RouteDecisionEvidenceForTenant(t) :
                        LET actor == Row("route_decision", id).f.actor
                        IN OtelConfigScopeMatches(config, actor.org, actor.project)}
    IN Shown(LedgerKind, scoped(LedgerKind, LedgerBucketsForAnalytics(t)))
         \cup Shown(UsageKind, scoped(UsageKind, UsageEventsForAnalytics(t)))
         \cup Shown("route_decision", decisions)
         \cup Shown("route_attempt", AttemptsOf(t, decisions))
         \cup RealtimeWorkerSummary(t) \cup Shown("otel_health", OfTenant("otel_health", t))

HealthOf(config_id) == {id \in Ids("otel_health") : Row("otel_health", id).f.config = config_id}

\* otel_export_http_request_parts: every header's secret has a value.
OtelExportHttpRequestParts(config) ==
    \A i \in DOMAIN config.f.headers : config.f.headers[i].secret \in DOMAIN secrets

\* execute_otel_export: how an attempt may end, and what the collector is sent.
ExecuteOtelExport(config) ==
    IF config.status # "active" THEN {"disabled"}
    ELSE IF config.f.protocol # "otlp_http" \/ ~ OtelExportHttpRequestParts(config)
    THEN {"retryable_failed"}
    ELSE {"succeeded", "retryable_failed"}

\* run_background_worker_tick_once, for one tenant: the configs as they are now,
\* sorted by fields that are not modelled, so in any order.  A process has one
\* worker.
RunDueOtelExporter(a) ==
    /\ Calling(a, "run_due_otel_exporter")
    /\ \A b \in Admins : op[b].route # "run_due_otel_exporter"
    /\ \E t \in {Row("otel_config", id).tenant : id \in Ids("otel_config")} :
         op' = [op EXCEPT ![a] =
                  [pc |-> "otel_next", route |-> "run_due_otel_exporter", key |-> NoKey,
                   scope |-> << >>, tenant |-> t, now |-> clock,
                   configs |-> {[id |-> id, config |-> Row("otel_config", id)] :
                                  id \in OfTenant("otel_config", t)}]]
    /\ OnlyOp

\* The next config that is due is exported, as it was when the tick began; the
\* evidence that Postgres does not give ends the tick of the tenant.
ExportNextOtelConfig(a) ==
    /\ op[a].pc = "otel_next"
    /\ \/ op[a].configs = {} /\ Closes(a) /\ answer' = Nobody
       \/ \E next \in op[a].configs :
            LET rest == op[a].configs \ {next}
                \* otel_export_config_due_for_attempt
                due == \A id \in HealthOf(next.id) :
                         op[a].now - Row("otel_health", id).f.attempted >= next.config.f.interval
            IN IF ~ due
               THEN op' = [op EXCEPT ![a].configs = rest] /\ answer' = Nobody
               ELSE \/ scenario.postgres /\ Closes(a) /\ answer' = Nobody
                    \/ \E result \in ExecuteOtelExport(next.config) :
                         /\ op' = [op EXCEPT ![a] = [pc |-> "otel_health", result |-> result,
                                                     exported |-> next.id, configs |-> rest] ++ @]
                         /\ answer' = IF result # "succeeded" THEN Nobody
                                      ELSE [tenant |-> op[a].tenant,
                                            rows |-> OtelExportMetrics(next.config)]
    /\ UNCHANGED <<store, idem, records, fixed>>

\* Mistake: the failures are counted for ever.
FailuresEver(result, failures) ==
    IF result \in {"succeeded", "disabled"} THEN failures ELSE failures + 1

\* failure_count
ConsecutiveFailures(result, failures) ==
    IF result \in {"succeeded", "disabled"} THEN 0 ELSE failures + 1

\* record_otel_exporter_health
RecordOtelExporterHealth(a) ==
    /\ op[a].pc = "otel_health"
    /\ LET config_id == op[a].exported
           previous == {Row("otel_health", id) : id \in HealthOf(config_id)}
           failures == IF previous = {} THEN 0 ELSE (CHOOSE h \in previous : TRUE).f.failures
           success == IF previous = {} THEN None ELSE (CHOOSE h \in previous : TRUE).f.succeeded
           record == NewRow(op[a].tenant,
                       [config |-> config_id, attempted |-> op[a].now,
                        failures |-> ConsecutiveFailures(op[a].result, failures),
                        succeeded |-> IF op[a].result = "succeeded" THEN op[a].now + 1
                                      ELSE success],
                       op[a].result)
       IN db' = [db EXCEPT !["otel_health"] =
                   Upsert(@, record, LAMBDA h : h.f.config = config_id)]
    /\ Proceeds(a, "otel_next")
    /\ OnlyStore
-----------------------------------------------------------------------------
(* Readiness                                                               *)

\* otel_exporter_readiness_status, over the configs of all tenants.
OtelExporterReadinessStatus ==
    LET configs == {id \in Ids("otel_config") : Row("otel_config", id).status # "deleted"}
        active == {id \in configs : Row("otel_config", id).status = "active"}
        says(id, status) == \E h \in HealthOf(id) : Row("otel_health", h).status = status
    IN CASE configs = {} -> "not_configured"
         [] configs # {} /\ active = {} -> "disabled"
         [] \E id \in active : says(id, "retryable_failed") -> "degraded"
         [] active # {} /\ \A id \in active : says(id, "succeeded") -> "ready"
         [] OTHER -> "not_connected"

\* latest_published_snapshot_for_readiness: of any tenant.
LatestPublishedSnapshotForReadiness ==
    IF scenario.postgres THEN db["durable_snapshot"] # << >> ELSE db["latest_snapshot"] # << >>

\* readyz; "profile" is what production_profile_diagnostics and
\* dependency_readiness found.
Readyz(a) ==
    /\ Calling(a, "readyz")
    /\ \E profile \in {"production_profile_invalid", "dependency_unready", "ready"},
          required \in BOOLEAN :
         LET reason == IF profile = "ready" /\ required /\ ~ LatestPublishedSnapshotForReadiness
                       THEN "missing_published_snapshot" ELSE profile
         IN answer' = [tenant |-> None,
                       rows |-> {<<"readiness", reason>>,
                                 <<"otel_exporter", OtelExporterReadinessStatus>>}]
    /\ UNCHANGED <<store, idem, records, op, fixed>>
=============================================================================
