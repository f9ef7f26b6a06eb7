---------------------------- MODULE GatewayRuntime ----------------------------
(***************************************************************************)
(* The data plane as a whole: config publication, the hot state, model     *)
(* requests and WebSocket turns, the evidence they leave and the reads and *)
(* exports of it, over the store of AdminState; what they promise together *)
(* and the mistakes the promises would catch.                              *)
(***************************************************************************)
EXTENDS GatewayEvidence

\* The tables of the store that the data plane uses.
RuntimeKinds ==
    {"request", "organization", "project", "project_member", "api_key", "service_account",
     "secret_ref", "provider_endpoint", "upstream_credential", "model_alias", "model_target",
     "route_policy", "routing_group", "budget_policy", "quota_policy", "action_grant",
     "config_snapshot", "durable_snapshot", "config_publication", "config_invalidation",
     "latest_snapshot", "worker_reload", "emergency_operation", "endpoint_drain",
     "endpoint_health", "sticky_route", "route_decision", "route_attempt",
     "authorization_decision", "usage_event", "ledger_bucket", "durable_usage_event",
     "durable_ledger_bucket", "otel_config", "otel_health"}

\* What is in the store at the start came there as later rows do: every row is
\* as it was created; a tenant with snapshots has one pointer, which like the
\* invalidations and the latest snapshot leads to a snapshot of the tenant and
\* version; an exporter's failures are those since it last was not failing.  What
\* overlapped then, or was settled, is not part of the history.
ASSUME RuntimeAssumption ==
    /\ RuntimeKinds \subseteq Kinds
    /\ \A k \in Kinds :
         /\ Seed[k] \in Seq({Seed[k][i] : i \in DOMAIN Seed[k]})
         /\ \A i \in DOMAIN Seed[k] :
              LET row == Seed[k][i]
              IN row = NewRow(row.tenant, row.f, row.status) /\ row.tenant \in Nat
    /\ LET snapshots == Seed["config_snapshot"]
           pointers == Seed["config_publication"]
       IN /\ \A p \in DOMAIN snapshots :
               /\ snapshots[p].f.version \in Nat /\ snapshots[p].f.earlier = {}
               /\ \E i \in DOMAIN pointers : pointers[i].tenant = snapshots[p].tenant
          /\ \A i, j \in DOMAIN pointers : pointers[i].tenant = pointers[j].tenant => i = j
          /\ \A k \in {"config_publication", "config_invalidation", "latest_snapshot"} :
               \A i \in DOMAIN Seed[k] :
                  LET led == Seed[k][i].f.snapshot
                  IN /\ led \in DOMAIN snapshots
                     /\ snapshots[led].tenant = Seed[k][i].tenant
                     /\ snapshots[led].f.version = Seed[k][i].f.version
    /\ \A i \in DOMAIN Seed["route_decision"] : Seed["route_decision"][i].f.settled = {}
    /\ \A i \in DOMAIN Seed["worker_reload"] :
         Seed["worker_reload"][i].f.worker \in Workers /\ Seed["worker_reload"][i].f.missed \in Nat
    /\ \A i \in DOMAIN Seed["otel_health"] :
         LET h == Seed["otel_health"][i]
         IN h.f.failures \in Nat /\ (h.f.failures = 0) = (h.status \in {"succeeded", "disabled"})
    /\ IsFiniteSet(DOMAIN BucketWidth) /\ UsageScanLimit \in Nat
    /\ \A s \in Scenarios : s.horizon \in Nat

PublicationNext(a) ==
    \/ PublishConfigSnapshot(a) \/ RollbackConfigSnapshot(a)
    \/ EmergencyRollbackConfigSnapshot(a)
    \/ PushConfigSnapshot(a) \/ SetConfigPublication(a) \/ PushConfigInvalidation(a)
    \/ SetLatestSnapshot(a)
    \/ ValidateConfigSnapshot(a) \/ ListConfigSnapshots(a) \/ GetConfigSnapshot(a)
    \/ ListValidationDiagnostics(a)
    \/ EmergencyDisableProviderEndpoint(a) \/ CompareAndSet(a, "provider_endpoint")
    \/ SetEndpointEmergencyDrain(a) \/ EmergencyFreezeConfig(a) \/ StoreEmergencyOperation(a)
    \/ Finish(a) \/ Disconnect(a)

RequestNext(a) ==
    \/ ModelIngress(a) \/ RunRouteSimulation(a)
    \/ TryStickyRouteSelection(a) \/ FirstEligibleRouteSelection(a)
    \/ AnswerRouteSimulation(a) \/ RecordRouteDecision(a) \/ RecordStickyRouteMapping(a)
    \/ AuthorizeRuntimeProviderTarget(a) \/ EnforceRuntimePolicyPreflight(a)
    \/ CallProvider(a) \/ RecordRouteAttempt(a)
    \/ RecordUsageEvent(a) \/ RecordLedgerBuckets(a) \/ InsertUsageEvent(a)
    \/ DropRequest(a)
    \/ ResponsesWebSocketIngress(a) \/ HandleResponseCreate(a)
    \/ ConnectResponsesWebSocketUpstream(a) \/ ProxyResponsesWebSocketTurn(a)
    \/ CloseResponsesWebSocket(a)

EvidenceNext(a) ==
    \/ ListRouteDecisions(a) \/ GetRouteDecision(a)
    \/ ListRouteAttempts(a) \/ GetRouteAttempt(a) \/ ListAuditEvents(a)
    \/ ListUsageEvents(a) \/ GetUsageSummary(a) \/ GetUsageTimeseries(a) \/ GetUsageBreakdown(a)
    \/ GetTenantDashboardOverview(a) \/ GetOrganizationDashboardOverview(a)
    \/ GetProjectDashboardOverview(a) \/ GetProjectMemberDashboardOverview(a)
    \/ GetApiKeyDashboardOverview(a) \/ GetServiceAccountDashboardOverview(a)
    \/ GetModelAliasDashboardOverview(a) \/ GetModelTargetDashboardOverview(a)
    \/ GetProviderEndpointUsage(a)
    \/ GetModelAliasRoutesObservability(a) \/ GetModelAliasQualityObservability(a)
    \/ GetProviderEndpointModelTargets(a) \/ GetProviderEndpointHealth(a)
    \/ GetProviderEndpointFailover(a) \/ GetProviderEndpointCredentials(a)
    \/ GetRealtimeSection(a) \/ GetRealtimeOverview(a)
    \/ GetBudgetDashboard(a) \/ GetQuotaDashboard(a)
    \/ GetBudgetPolicyTimeseries(a) \/ GetRateLimitTimeseries(a)
    \/ RunDueOtelExporter(a) \/ ExportNextOtelConfig(a) \/ RecordOtelExporterHealth(a)
    \/ Readyz(a)

Next ==
    \/ \E a \in Admins : PublicationNext(a) \/ RequestNext(a) \/ EvidenceNext(a)
    \/ \E worker \in Workers : \/ ReloadConfigWorkerFromInvalidation(worker)
                               \/ ReloadConfigWorkerByPolling(worker)
    \/ InsertConfigSnapshotPostgres
    \/ SetEndpointHealth
    \/ Tick

Spec == AdminInit /\ [][Next]_vars
-----------------------------------------------------------------------------
(* Properties                                                              *)

\* Every variable holds what the store and the handlers keep in it; a pointer
\* leads to a snapshot of its tenant and version, and an exporter's failures are
\* those since it last was not failing (record_otel_exporter_health).
TypeOK ==
    /\ DOMAIN db = Kinds
    /\ \A k \in Kinds : \A row \in Rows(k) : row.version \in Nat \ {0} /\ row.tenant \in Nat
    /\ \A k \in {"config_publication", "config_invalidation", "latest_snapshot"} :
         \A p \in Rows(k) :
            /\ p.f.snapshot \in Ids("config_snapshot")
            /\ Row("config_snapshot", p.f.snapshot).tenant = p.tenant
            /\ Row("config_snapshot", p.f.snapshot).f.version = p.f.version
    /\ \A r \in Rows("worker_reload") : r.f.worker \in Workers /\ r.f.missed \in Nat
    /\ \A h \in Rows("otel_health") :
         (h.f.failures = 0) = (h.status \in {"succeeded", "disabled"})
    /\ \A a \in Admins : op[a] = NoOp \/ op[a].key \in Keys \cup {NoKey}
    /\ clock \in 0 .. scenario.horizon

\* Two publications of a tenant overlapped when neither began after the other was
\* done.
Overlapped(p) ==
    \E x \in OfTenant("config_snapshot", Row("config_snapshot", p).tenant) \ {p} :
        /\ x \notin Row("config_snapshot", p).f.earlier
        /\ p \notin Row("config_snapshot", x).f.earlier

\* Publication goes forward (publish_document and insert_config_snapshot): a
\* snapshot that is published after another one was done has a higher version,
\* unless that one overlapped a third; and no request is planned under a snapshot
\* when, before it began, another one was published that began after the first
\* was done, whatever overlapped.
PublicationOrder ==
    /\ \A q \in Ids("config_snapshot") : \A p \in Row("config_snapshot", q).f.earlier :
         \/ Row("config_snapshot", q).f.version > Row("config_snapshot", p).f.version
         \/ Overlapped(p)
    /\ \A d \in Rows("route_decision") :
         d.f.snapshot[1] = "config_snapshot" =>
           \A q \in d.f.settled : d.f.snapshot[2] \notin Row("config_snapshot", q).f.earlier

\* Whether a grant of a scope reaches the n-th node of a path, which runs from the
\* alias to the endpoint: one that is not self_only reaches all that is behind its
\* resource.
Granted(grants, kind, id, effect, path, n) ==
    \E grant \in grants :
        /\ grant.effect = effect /\ GrantScope(grant) = [kind |-> kind, id |-> id]
        /\ \E p \in 1 .. n : /\ path[p] = <<grant.resource_kind, grant.resource_id>>
                             /\ p = n \/ grant.closure # "self_only"

\* What the grants of a catalog that concern an actor say of a path.  Grants that
\* name a resource decide once there is one: the organization allows every node,
\* neither it nor the project denies one, and the project, where it allows
\* resources of a kind, allows this one.
PathGranted(c, actor, path) ==
    LET active == {c.provider_grants[i] : i \in {j \in DOMAIN c.provider_grants :
                     c.provider_grants[j].status = "active"
                       /\ c.provider_grants[j].tenant = actor.tenant}}
        mine == {g \in active : g.principal \in {None, actor.principal}}
        projects == {g \in mine : /\ GrantScope(g) = [kind |-> "project", id |-> actor.project]
                                  /\ g.effect = "allow"}
    IN IF \A g \in active : g.resource_kind = "none"
       THEN \E g \in mine : /\ g.endpoint = path[5][2] /\ g.target \in {None, path[4][2]}
                            /\ g.org \in {None, actor.org} /\ g.project \in {None, actor.project}
       ELSE \A n \in DOMAIN path :
              /\ Granted(mine, "organization", actor.org, "allow", path, n)
              /\ ~ Granted(mine, "organization", actor.org, "deny", path, n)
              /\ ~ Granted(mine, "project", actor.project, "deny", path, n)
              /\ (\E g \in projects : g.resource_kind = path[n][1])
                   => Granted(mine, "project", actor.project, "allow", path, n)

\* The selection of a decision, by the snapshot the decision names alone.
LegalSelection(d) ==
    LET c == GatewayCatalogSnapshot(Payload(d.f.snapshot[1], d.f.snapshot[2]))
        s == d.f.selected
        alias == Get(c.model_aliases, s.alias)
        target == Get(c.model_targets, s.target)
        endpoint == Get(c.provider_endpoints, s.endpoint)
        path == <<<<"model_alias", s.alias>>, <<"route_policy", s.policy>>,
                  <<"routing_group", s.group>>, <<"model_target", s.target>>,
                  <<"provider_endpoint", s.endpoint>>>>
    IN /\ alias.tenant = d.tenant /\ alias.name = d.f.asked.name /\ alias.policy = s.policy
       /\ alias.org \in {None, d.f.actor.org} /\ alias.project \in {None, d.f.actor.project}
       /\ Get(c.route_policies, s.policy).group = s.group
       /\ \E i \in DOMAIN c.routing_group_targets :
            LET member == c.routing_group_targets[i]
            IN member.group = s.group /\ member.target = s.target /\ member.status = "active"
       /\ target.endpoint = s.endpoint /\ target.credential = s.credential
       /\ \A row \in {alias, target, endpoint, Get(c.route_policies, s.policy),
                      Get(c.routing_groups, s.group)} : row.status = "active"
       /\ d.f.asked.family \in {alias.family} \cap {target.family} \cap endpoint.families
       /\ s.credential # None =>
            Get(c.upstream_credentials, s.credential).status \in {"active", "rotating"}
       /\ PathGranted(c, d.f.actor, path)

\* Every request is routed as one published snapshot says (plan of catalog.rs):
\* the selection is legal under the snapshot the decision names, however it was
\* found; its endpoint, of the tenant the snapshot names, was not drained for that
\* version all the while the request was planned, unless the hot state could not be read; and a sticky mapping is
\* followed only under the version it was made for.
RoutedAsPublished ==
    \A d \in Rows("route_decision") :
        d.status = "selected" =>
          /\ LegalSelection(d)
          /\ ~ d.f.drained
          /\ d.f.sticky_version \in {None, d.f.version}

\* The usage events that no ledger bucket counts yet: record_usage_event is
\* between its two locks.
Unfolded(t, scope) ==
    {a \in InFlight : /\ TenantOf[a] = t /\ op[a].pc = "fold" /\ ~ scenario.postgres
                      /\ DashboardUsageEventMatchesScope(UsageEventRecord(a), t, scope)}

SumOver(f) == MapThenSumSet(LAMBDA x : f[x], DOMAIN f)

\* One query reads all events, or all buckets, of the tenant.
ReadWhole(t) ==
    /\ UsageEventsForAnalytics(t) = OfTenant(UsageKind, t)
    /\ LedgerBucketsForAnalytics(t) = OfTenant(LedgerKind, t)

\* The ledger says what the events say, in every scope a dashboard may ask for
\* (fold_usage_event_into_bucket, upsert_ledger_bucket, usage_bucket_key): the
\* overview counts the events of the scope, the points of a time series add up to
\* the same, and so does a breakdown, except for the events its dimension is not
\* known for.  Once the tenant has more rows than Postgres is asked for at a time
\* (USAGE_ANALYTICS_DURABLE_SCAN_LIMIT) they may show less than what happened and
\* never more, and the points later than the earliest bucket read are still right.
RollupsAgree ==
    \A t \in {TenantOf[a] : a \in Admins} :
        LET whole == ReadWhole(t)
            starts == {Row(LedgerKind, id).f.start : id \in LedgerBucketsForAnalytics(t)}
            partly == IF whole THEN {} ELSE {x \in starts : \A y \in starts : x <= y}
        IN \A scope \in Requests["scope"] :
             LET events == {id \in OfTenant(UsageKind, t) :
                              DashboardUsageEventMatchesScope(Row(UsageKind, id), t, scope)}
                 unfolded == Unfolded(t, scope)
                 total == Cardinality(events) - Cardinality(unfolded)
                 says(n) == IF whole THEN n = total ELSE n <= total
             IN /\ says(DashboardUsageRollup(t, scope))
                /\ \A kind \in DOMAIN BucketWidth :
                     LET points == UsageTimeseriesPoints(t, scope, kind)
                     IN /\ says(SumOver(points))
                        /\ unfolded = {} => \A start \in DOMAIN points \ partly :
                             points[start] =
                               Cardinality({id \in events :
                                 UsageBucketStart(kind, Row(UsageKind, id).f.at) = start})
                /\ whole /\ unfolded = {} =>
                     \A dimension \in {UsageBreakdownDimension[route] :
                                         route \in DOMAIN UsageBreakdownDimension} :
                        UsageBreakdown(t, scope, dimension) =
                          [value \in {Row(UsageKind, id).f[dimension] : id \in events} \ {None} |->
                             Cardinality({id \in events :
                                            Row(UsageKind, id).f[dimension] = value})]

\* The tenant of what an answer shows: an attempt's is its decision's.
TenantOfShown(r) ==
    CASE r[1] = "route_attempt" ->
           Row("route_decision", Row("route_attempt", r[2]).f.decision).tenant
      [] r[1] = "audit_event" -> audit[r[2]].tenant
      [] r[1] = "validation_diagnostic" -> r[2].tenant
      [] OTHER -> Row(r[1], r[2]).tenant

\* No answer of the data plane's admin routes and nothing the exporter sends shows
\* a tenant another tenant's evidence, although attempts carry no tenant and the
\* buckets, decisions and events are joined by ids (route_attempt_evidence_for_tenant,
\* dashboard_overview_response, otel_export_metrics).
AnswersStayInTenant ==
    answer.tenant # None => \A r \in answer.rows : TenantOfShown(r) = answer.tenant

\* Every model request that a provider completed is charged: it has a usage event
\* (06-usage-cost-budget-notifications.md).
EveryTurnCharged ==
    \A id \in Ids("route_decision") :
        LET completed == {r \in Ids("route_attempt") :
                            /\ Row("route_attempt", r).f.decision = id
                            /\ Row("route_attempt", r).status = "completed"}
            charged == {u \in Ids("usage_event") : Row("usage_event", u).f.decision = id}
            about == {a \in InFlight : op[a].pc = "usage" /\ op[a].decision = id}
        IN Cardinality(completed) <= Cardinality(charged) + Cardinality(about)
=============================================================================
