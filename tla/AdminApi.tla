------------------------------- MODULE AdminApi -------------------------------
(***************************************************************************)
(* The admin API as a whole: all handlers of AdminProviders, AdminRouting, *)
(* AdminPolicies and AdminOperations over one store, what they promise     *)
(* together, and the plausible mistakes the promises would catch.          *)
(***************************************************************************)
EXTENDS AdminOperations, AdminRouting

\* The numbers of a request body are integers (i64 and DateTime fields).
ASSUME RequestAssumption ==
    /\ \A r \in Requests["budget_policy"] : r.hard \cup r.soft \cup r.thresholds \subseteq Int
    /\ \A r \in Requests["quota_policy"] : r.limit \in Int /\ r.burst \subseteq Int
    /\ \A r \in Requests["otel_config"] : r.interval \in Int /\ r.timeout \in Int
    /\ \A r \in Requests["maintenance_window"] : r.starts \in Int /\ r.ends \in Int

\* The kinds of rows these handlers write or look at.
AdminKinds ==
    {"organization", "project", "secret_ref", "provider_endpoint", "upstream_credential",
     "codex_connection", "codex_session", "pricing_sku", "model_target", "catalog_import",
     "routing_group", "group_target", "model_alias", "route_policy", "provider_grant",
     "budget_policy", "quota_policy", "otel_config", "sink", "subscription", "login_provider",
     "maintenance_window", "emergency_operation", "endpoint_drain", "config_publication",
     "export_job", "export_manifest"}

\* A row refers to a row of its own tenant in the store d; a field may be empty.
Refers(d, row, k, id) == id \in 1 .. Len(d[k]) /\ d[k][id].tenant = row.tenant
MayRefer(d, row, k, id) == id # None => Refers(d, row, k, id)

\* What row id of kind k refers to is there and agrees with it.
RowReferences(d, k, id, row) ==
    /\ k = "project" => Refers(d, row, "organization", row.f.org)
    /\ k = "upstream_credential" =>
         /\ Refers(d, row, "provider_endpoint", row.f.endpoint)
         /\ Refers(d, row, "secret_ref", row.f.secret)
    /\ k = "codex_connection" =>
         /\ {"endpoint", "credential"} \subseteq DOMAIN row.f
         /\ Refers(d, row, "provider_endpoint", row.f.endpoint)
    /\ k = "codex_session" =>
         /\ Refers(d, row, "codex_connection", row.f.connection)
         /\ Refers(d, row, "upstream_credential", row.f.credential)
    /\ k = "model_target" =>
         /\ Refers(d, row, "provider_endpoint", row.f.endpoint)
         /\ row.f.family \in d["provider_endpoint"][row.f.endpoint].f.families
         /\ MayRefer(d, row, "upstream_credential", row.f.credential)
         /\ row.f.credential # None =>
              d["upstream_credential"][row.f.credential].f.endpoint = row.f.endpoint
         /\ MayRefer(d, row, "pricing_sku", row.f.sku)
    /\ k = "group_target" =>
         /\ Refers(d, row, "routing_group", row.f.group)
         /\ Refers(d, row, "model_target", row.f.target)
         /\ d["routing_group"][row.f.group].f.family = d["model_target"][row.f.target].f.family
    /\ k = "route_policy" =>
         /\ Refers(d, row, "model_alias", row.f.alias)
         /\ Refers(d, row, "routing_group", row.f.group)
         /\ d["model_alias"][row.f.alias].f.family = d["routing_group"][row.f.group].f.family
    /\ k = "model_alias" =>
         /\ {"family", "policy"} \subseteq DOMAIN row.f
         /\ MayRefer(d, row, "route_policy", row.f.policy)
         /\ row.f.policy # None => d["route_policy"][row.f.policy].f.alias = id
    /\ k = "provider_grant" =>
         /\ row.f.scope \in GrantScopes /\ Refers(d, row, row.f.scope, row.f.scope_id)
         /\ row.f.resource \in GrantResources /\ Refers(d, row, row.f.resource, row.f.resource_id)
    /\ k = "subscription" => Refers(d, row, "sink", row.f.sink)
    /\ k \in {"otel_config", "sink"} =>
         /\ {"org", "project"} \subseteq DOMAIN row.f
         /\ MayRefer(d, row, "organization", row.f.org)
         /\ MayRefer(d, row, "project", row.f.project)
         /\ row.f.project # None => row.f.org = d["project"][row.f.project].f.org
References(d) == \A k \in AdminKinds : \A id \in 1 .. Len(d[k]) : RowReferences(d, k, id, d[k][id])

\* The credential a Codex connection holds is of its endpoint and of one of its sessions.
HoldsOwnCredential(d, id) ==
    LET c == d["codex_connection"][id]
    IN c.f.credential # None =>
         /\ Refers(d, c, "upstream_credential", c.f.credential)
         /\ d["upstream_credential"][c.f.credential].f.endpoint = c.f.endpoint
         /\ \E s \in 1 .. Len(d["codex_session"]) :
               /\ d["codex_session"][s].f.connection = id
               /\ d["codex_session"][s].f.credential = c.f.credential

\* The rows at the start are as the store creates them: of some tenant, at
\* version 1, and with what an emergency operation did applied.
ASSUME SeedAssumption ==
    /\ AdminKinds \subseteq Kinds
    /\ \A k \in Kinds :
         /\ Seed[k] \in Seq({Seed[k][i] : i \in DOMAIN Seed[k]})
         /\ \A i \in DOMAIN Seed[k] :
              LET row == Seed[k][i]
              IN /\ row = NewRow(row.tenant, row.f, row.status)
                 /\ row.tenant \in Nat
                 /\ row.f = [x \in DOMAIN row.f |-> row.f[x]]
    /\ \A i \in DOMAIN Seed["emergency_operation"] :
         Seed["emergency_operation"][i].status = "applied"

\* They refer to rows that are there.  A scope has an organization and a project,
\* each of which may be empty; UpdateNotificationSinkRequest names neither.
ASSUME ReferenceAssumption ==
    /\ References(Seed)
    /\ \A id \in DOMAIN Seed["codex_connection"] : HoldsOwnCredential(Seed, id)
    /\ \A r \in Requests["otel_config"] \cup Requests["sink"] :
         {"org", "project"} \subseteq DOMAIN r
    /\ \A u \in Requests["sink_update"] : DOMAIN u.f \cap {"org", "project"} = {}

\* A scenario bounds the mutations and the time of its behaviours.
ASSUME ScenarioAssumption ==
    \A s \in Scenarios : s.mutations \in Nat /\ s.horizon \in Nat

ProviderNext(a) ==
    \/ ListSecretRefs(a) \/ GetSecretRef(a) \/ GetSecretRefLocator(a) \/ CreateSecretRef(a)
    \/ StoreSecretRef(a) \/ UpdateSecretRef(a) \/ UpdateSecretRefStatus(a)
    \/ RotateSecretRef(a) \/ StoreRotatedSecretRef(a) \/ StoreSecretValue(a)
    \/ ListProviderEndpoints(a) \/ GetProviderEndpoint(a) \/ ValidateProviderEndpoint(a)
    \/ CreateProviderEndpoint(a) \/ StoreProviderEndpoint(a)
    \/ UpdateProviderEndpoint(a) \/ UpdateProviderEndpointStatus(a)
    \/ ListUpstreamCredentials(a) \/ GetUpstreamCredential(a) \/ ValidateUpstreamCredential(a)
    \/ CreateUpstreamCredential(a) \/ StoreUpstreamCredential(a)
    \/ UpdateUpstreamCredential(a) \/ UpdateUpstreamCredentialStatus(a)
    \/ ListPricingSkus(a) \/ GetPricingSku(a) \/ ValidatePricingSku(a)
    \/ CreatePricingSku(a) \/ StorePricingSku(a)
    \/ UpdatePricingSku(a) \/ UpdatePricingSkuStatus(a)
    \/ ListModelTargets(a) \/ GetModelTarget(a) \/ ValidateModelTarget(a)
    \/ CreateModelTarget(a) \/ StoreModelTarget(a)
    \/ UpdateModelTarget(a) \/ UpdateModelTargetStatus(a)
    \/ ListCatalogImports(a) \/ GetCatalogImport(a) \/ ValidateCatalogImport(a)
    \/ CreateCatalogImport(a) \/ StoreCatalogImport(a)

CodexNext(a) ==
    \/ ListCodexOauthConnections(a) \/ GetCodexOauthConnection(a)
    \/ CreateCodexOauthConnection(a) \/ StoreCodexOauthConnection(a)
    \/ UpdateCodexOauthConnection(a) \/ UpdateCodexOauthConnectionStatus(a)
    \/ ListCodexOauthSessions(a) \/ GetCodexOauthSession(a) \/ GetCodexOauthRefreshStatus(a)
    \/ StartCodexOauthSession(a) \/ StoreSessionCredential(a) \/ StoreSession(a)
    \/ ConnectSession(a)
    \/ RevokeCodexOauthSession(a) \/ RevokeSession(a)
    \/ DisableUpstreamCredentialIfCurrent(a) \/ DisconnectSession(a)

RoutingNext(a) ==
    \/ ListRoutingGroups(a) \/ GetRoutingGroup(a) \/ ValidateRoutingGroup(a)
    \/ CreateRoutingGroup(a) \/ StoreRoutingGroup(a)
    \/ UpdateRoutingGroup(a) \/ UpdateRoutingGroupStatus(a)
    \/ ListRoutingGroupTargets(a) \/ GetRoutingGroupTarget(a) \/ ValidateRoutingGroupTarget(a)
    \/ CreateRoutingGroupTarget(a) \/ StoreRoutingGroupTarget(a)
    \/ UpdateRoutingGroupTarget(a) \/ UpdateRoutingGroupTargetStatus(a)
    \/ ListModelAliases(a) \/ GetModelAlias(a) \/ ValidateModelAlias(a)
    \/ CreateModelAlias(a) \/ StoreModelAlias(a) \/ UpdateModelAlias(a) \/ WriteModelAlias(a)
    \/ ListRoutePolicies(a) \/ GetRoutePolicy(a) \/ ValidateRoutePolicy(a)
    \/ CreateRoutePolicy(a) \/ StoreRoutePolicy(a)
    \/ UpdateRoutePolicy(a) \/ UpdateRoutePolicyStatus(a)
    \/ ListProviderGrants(a) \/ GetProviderGrant(a) \/ ValidateProviderGrant(a)
    \/ CreateProviderGrant(a) \/ StoreProviderGrant(a)
    \/ UpdateProviderGrant(a) \/ UpdateProviderGrantStatus(a)

PolicyNext(a) ==
    \/ ListBudgetPolicies(a) \/ GetBudgetPolicy(a) \/ ValidateBudgetPolicy(a)
    \/ CreateBudgetPolicy(a) \/ StoreBudgetPolicy(a)
    \/ UpdateBudgetPolicy(a) \/ UpdateBudgetPolicyStatus(a)
    \/ ListQuotaPolicies(a) \/ GetQuotaPolicy(a) \/ ValidateQuotaPolicy(a)
    \/ CreateQuotaPolicy(a) \/ StoreQuotaPolicy(a)
    \/ UpdateQuotaPolicy(a) \/ UpdateQuotaPolicyStatus(a)
    \/ ListOtelExportConfigs(a) \/ GetOtelExportConfig(a) \/ ValidateOtelExportConfig(a)
    \/ CreateOtelExportConfig(a) \/ StoreOtelExportConfig(a)
    \/ UpdateOtelExportConfig(a) \/ DisableOtelExportConfig(a) \/ WriteOtelExportConfig(a)
    \/ ListNotificationSinks(a) \/ GetNotificationSink(a) \/ ValidateNotificationSink(a)
    \/ CreateNotificationSink(a) \/ StoreNotificationSink(a)
    \/ UpdateNotificationSink(a) \/ WriteNotificationSink(a)
    \/ ListNotificationSubscriptions(a) \/ GetNotificationSubscription(a)
    \/ ValidateNotificationSubscription(a)
    \/ CreateNotificationSubscription(a) \/ StoreNotificationSubscription(a)
    \/ UpdateNotificationSubscription(a) \/ UpdateNotificationSubscriptionStatus(a)
    \/ ListLoginProviders(a) \/ GetLoginProvider(a) \/ ValidateLoginProvider(a)
    \/ CreateLoginProvider(a) \/ StoreLoginProvider(a)
    \/ UpdateLoginProvider(a) \/ UpdateLoginProviderStatus(a)

OperationNext(a) ==
    \/ ListMaintenanceWindows(a) \/ GetMaintenanceWindow(a) \/ ValidateMaintenanceWindow(a)
    \/ CreateMaintenanceWindow(a) \/ StoreMaintenanceWindow(a)
    \/ UpdateMaintenanceWindow(a) \/ UpdateMaintenanceWindowStatus(a)
    \/ ListEmergencyOperations(a) \/ GetEmergencyOperation(a)
    \/ EmergencyDisableUpstreamCredential(a) \/ EmergencyDisableProviderEndpoint(a)
    \/ EmergencyDrainRoutingGroup(a) \/ EmergencyForceBudgetBlock(a)
    \/ EmergencyFreezeConfig(a) \/ SetEndpointEmergencyDrain(a) \/ StoreEmergencyOperation(a)
    \/ ListExportJobs(a) \/ GetExportJob(a) \/ GetExportJobManifest(a)
    \/ CreateExportJob(a) \/ StoreExportJob(a) \/ CompleteExportJob(a) \/ StoreExportManifest(a)
    \/ Disconnect(a)

Next ==
    \/ \E a \in Admins : ProviderNext(a) \/ CodexNext(a) \/ RoutingNext(a) \/ PolicyNext(a)
                           \/ OperationNext(a) \/ Finish(a)
    \/ Tick

Spec == AdminInit /\ [][Next]_vars
-----------------------------------------------------------------------------
(* Properties                                                              *)

\* Every variable holds what the store and the handlers keep in it.
TypeOK ==
    /\ DOMAIN db = Kinds
    /\ \A k \in Kinds : \A row \in Rows(k) : row.version \in Nat \ {0} /\ row.tenant \in Nat
    /\ DOMAIN secrets \subseteq Ids("secret_ref")
    /\ \A r \in idem : r.key \in Keys
    /\ \A a \in Admins : op[a] = NoOp \/ op[a].key \in Keys \cup {NoKey}
    /\ clock \in 0 .. scenario.horizon
    /\ dropped \in 0 .. scenario.mutations

\* Whatever order the handlers' steps come in, stored resources fit together: a
\* credential's, a target's, a group's and a policy's references lead to rows of
\* the same tenant that agree on endpoint, protocol family and alias, so that the
\* route planner never crosses a tenant (validate_model_target_refs and the other
\* validators of the store).
ReferencesConsistent == References(db)

\* What a dry run promises, the create keeps: whenever a resource may be created,
\* a request that the handler's validation (validate_x and the first half of
\* create_x) finds nothing wrong with is one the store accepts.  The two sets of
\* rules are written twice, in service.rs and in storage.rs.
DryRunMatchesStore ==
    \A a \in Admins :
        LET t == TenantOf[a]
            creates == scenario.routes
        IN /\ "create_provider_endpoint" \in creates => \A r \in Requests["provider_endpoint"] :
                ProviderEndpointValidation(a, r) => OptionalOrganizationScope(t, r.org)
           /\ "create_upstream_credential" \in creates => \A r \in Requests["upstream_credential"] :
                UpstreamCredentialValidation(a, r) => ValidateUpstreamCredentialEndpoint(t, r)
           /\ "create_pricing_sku" \in creates => \A r \in Requests["pricing_sku"] :
                PricingSkuValidation(a, r) => ValidatePricingSkuRequest(t, r)
           /\ "create_model_target" \in creates => \A r \in Requests["model_target"] :
                ModelTargetValidation(a, r) => ValidateModelTargetRefs(t, r)
           /\ "create_catalog_import" \in creates => \A r \in Requests["catalog_import"] :
                CatalogImportValidation(a, r) => ValidateCatalogImportRequest(t, r)
           /\ "create_routing_group" \in creates => \A r \in Requests["routing_group"] :
                RoutingGroupValidation(a, r) => ValidateRoutingGroupRequest(t, r)
           /\ "create_routing_group_target" \in creates =>
                \A group \in Ids("routing_group"), r \in Requests["group_target"] :
                  RoutingGroupTargetValidation(a, group, r)
                    => ValidateRoutingGroupTargetRefs(t, group, r)
           /\ "create_model_alias" \in creates => \A r \in Requests["model_alias"] :
                ModelAliasValidation(a, r) => ValidateModelAliasRequest(t, r)
           /\ "create_route_policy" \in creates => \A r \in Requests["route_policy"] :
                RoutePolicyValidation(a, r) => ValidateRoutePolicyRequest(t, r)
           /\ "create_provider_grant" \in creates => \A r \in Requests["provider_grant"] :
                ProviderGrantValidation(a, r) => ValidateProviderGrantRequest(t, r)
           /\ "create_budget_policy" \in creates => \A r \in Requests["budget_policy"] :
                BudgetPolicyValidation(a, r) => ValidateBudgetPolicyRequest(t, r)
           /\ "create_quota_policy" \in creates => \A r \in Requests["quota_policy"] :
                QuotaPolicyValidation(a, r) => ValidateQuotaPolicyRequest(t, r)
           /\ "create_otel_export_config" \in creates => \A r \in Requests["otel_config"] :
                OtelExportConfigValidation(a, r, {}) => ValidateOtelExportConfigRequest(t, r, {})
           /\ "create_notification_sink" \in creates => \A r \in Requests["sink"] :
                NotificationSinkValidation(a, r, {}) => ValidateNotificationSinkRequest(t, r, {})
           /\ "create_notification_subscription" \in creates =>
                \A sink \in Ids("sink"), r \in Requests["subscription"] :
                  NotificationSubscriptionValidation(a, sink, r)
                    => ValidateNotificationSubscriptionRequest(t, sink, r)
           /\ "create_login_provider" \in creates => \A r \in Requests["login_provider"] :
                LoginProviderValidation(a, r) => ValidateLoginProviderRequest(t, r)
           /\ "create_maintenance_window" \in creates => \A r \in Requests["maintenance_window"] :
                MaintenanceWindowValidation(a, r) => ValidateMaintenanceWindowRequest(t, r)

\* The kinds every write of which is a compare-and-set of a handler that audits
\* it: not the two-lock updates (sinks, OpenTelemetry configurations), what Codex
\* sessions write without a version, or what a dropped handler leaves behind.
VersionedKinds ==
    {"secret_ref", "pricing_sku", "model_target", "routing_group", "group_target",
     "model_alias", "route_policy", "provider_grant", "budget_policy", "quota_policy",
     "subscription", "login_provider", "maintenance_window"}

\* The updates of a row that took effect: the ones audited and the ones whose
\* handler is on its way to the audit event.
AuditedUpdates(k, id, v) == {i \in DOMAIN audit : audit[i].wrote = <<k, id, v>>}
UnfinishedUpdates(k, id, v) ==
    {a \in InFlight : op[a].pc # "write" /\ op[a].wrote = <<k, id, v>>}

\* No update is lost and none escapes the audit log: every version of a row was
\* replaced by exactly one update, whose client had seen that version and whose
\* audit event records the next one (the store's compare-and-set with
\* record_admin_resource_audit), however updates of the row overlap.
AuditTrailComplete ==
    \A k \in VersionedKinds : \A id \in Ids(k) : \A v \in 1 .. MaxVersion :
        LET done == AuditedUpdates(k, id, v)
            due == UnfinishedUpdates(k, id, v)
        IN /\ Cardinality(done) + Cardinality(due) = IF v < Row(k, id).version THEN 1 ELSE 0
           /\ \A i \in done : audit[i].after = v + 1
           /\ \A a \in due : op[a].after = v + 1

\* A client that repeats a request with its idempotency key after the first one
\* was answered does not do it twice, until the record expires: two audited
\* mutations under one scope key that overlapped no other are IDEMPOTENCY_TTL_HOURS
\* apart (idempotency_response and record_idempotency_response).
OncePerKey ==
    \A i, j \in DOMAIN audit :
        (/\ i < j
         /\ audit[i].key # NoKey
         /\ audit[i].tenant = audit[j].tenant
         /\ audit[i].scope = audit[j].scope /\ audit[i].key = audit[j].key
         /\ audit[i].alone /\ audit[j].alone)
          => audit[j].at >= audit[i].at + IdempotencyTtl

\* The audit events that report a config freeze, and the configuration changes
\* that were audited after event j reported one, of requests of its tenant that
\* came in before it expired.
FreezesAudited ==
    {j \in DOMAIN audit : /\ audit[j].resource[1] = "emergency_operation"
                          /\ Row("emergency_operation", audit[j].resource[2]).f.operation
                               = "freeze_config"}
SlippedPast(j) ==
    LET freeze == Row("emergency_operation", audit[j].resource[2])
    IN {i \in DOMAIN audit : /\ i > j
                             /\ audit[i].tenant = audit[j].tenant
                             /\ ~ RouteAllowedDuringConfigFreeze(audit[i].route)
                             /\ freeze.f.expires > audit[i].at}
AdminsOf(t) == {a \in Admins : TenantOf[a] = t}

\* A config freeze that was answered stops configuration changes until it
\* expires, except those already past the check (reject_frozen_config_mutation
\* reads once, at the start of a handler): however the handlers interleave, fewer
\* slip past it than its tenant may have requests in flight.
FreezeBounded ==
    \A j \in FreezesAudited :
        Cardinality(SlippedPast(j)) < Cardinality(AdminsOf(audit[j].tenant))

\* A Codex connection never hands out a foreign credential: the one it holds
\* belongs to a session of this connection and to its endpoint, whatever starts,
\* revocations and status changes overlapped (start_codex_oauth_session and
\* revoke_codex_oauth_session write under three locks).
CodexCredentialConsistent == \A id \in Ids("codex_connection") : HoldsOwnCredential(db, id)

\* No answer, replayed or fresh, shows an admin a row of another tenant
\* (x_for_actor, x_for_tenant and the tenant of an idempotency record).
AnswersStayInTenant ==
    \A r \in answer.rows : Row(r[1], r[2]).tenant = answer.tenant
-----------------------------------------------------------------------------
=============================================================================
