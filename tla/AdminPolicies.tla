---------------------------- MODULE AdminPolicies ----------------------------
(***************************************************************************)
(* Budget and quota policies, OpenTelemetry export configurations,         *)
(* notification sinks and subscriptions, and login providers.              *)
(*                                                                         *)
(* The handler validates a request against its own copy of the rules, the  *)
(* store against another; both are here (XValidation and ValidateXRequest).*)
(* An optional number of a request is a set with at most one member.  A    *)
(* URL is "https", "loopback" (plain http to this host) or "unsafe".       *)
(***************************************************************************)
EXTENDS AdminProviders

CONSTANT LocalEnvironment    \* the gateway runs with the local or test profile

\* safe_..._host_for_config, and the store's check, which knows no profile.
UrlSafeForConfig(url) == url = "https" \/ (url = "loopback" /\ LocalEnvironment)
UrlSafe(url) == url \in {"https", "loopback"}
-----------------------------------------------------------------------------
(* Budget policies                                                         *)

\* The table a scope kind names, apart from "tenant".
ScopeTable ==
    [organization |-> "organization", project |-> "project",
     credential |-> "upstream_credential", alias |-> "model_alias",
     group |-> "routing_group", endpoint |-> "provider_endpoint", target |-> "model_target"]
BudgetScopeKinds == DOMAIN ScopeTable
QuotaScopeKinds == {"organization", "project", "credential", "alias", "endpoint"}

ValidateBudgetScopeFields(a, r) ==
    \/ r.scope = "tenant" /\ r.scope_id = TenantOf[a]
    \/ r.scope \in BudgetScopeKinds /\ ForActor(ScopeTable[r.scope], a, r.scope_id)

ValidateBudgetEnumFields(r) ==
    /\ r.period \in {"rolling", "calendar_day", "calendar_month", "lifetime", "custom_window"}
    /\ r.limit_kind \in {"cost", "tokens", "requests", "concurrency", "stream_seconds"}
    /\ r.overage \in {"notify_only", "block_new_requests", "prefer_low_cost_route",
                      "fallback_low_cost_route", "require_exact_usage"}
    /\ r.consistency \in {"eventual", "strong_terminal", "manual_review"}
    /\ r.shape

ValidateBudgetLimitFields(r) ==
    /\ (r.limit_kind = "cost") <=> (r.currency = "valid")
    /\ r.limit_kind # "cost" => r.currency = "absent"
    /\ r.hard \cup r.soft \cup r.thresholds # {}
    /\ \A x \in r.hard \cup r.soft \cup r.thresholds : x > 0
    /\ \A s \in r.soft, h \in r.hard : s <= h
    /\ (r.hard # {} /\ r.overage = "notify_only") => r.consistency = "manual_review"

BudgetKey(r) ==
    [scope |-> r.scope, scope_id |-> r.scope_id, limit_kind |-> r.limit_kind, period |-> r.period]

BudgetPolicyValidation(a, r) ==
    /\ ValidateBudgetScopeFields(a, r)
    /\ ValidateBudgetEnumFields(r)
    /\ ValidateBudgetLimitFields(r)
    /\ ~ Duplicate("budget_policy", TenantOf[a], BudgetKey(r))

\* budget_x_scope: the organization and the project a scope belongs to.
ScopeOrganization(r) ==
    CASE r.scope = "tenant" -> None
      [] r.scope = "organization" -> r.scope_id
      [] OTHER -> Row(ScopeTable[r.scope], r.scope_id).f.org
ScopeProject(r) ==
    CASE r.scope = "project" -> r.scope_id
      [] r.scope = "alias" -> Row("model_alias", r.scope_id).f.project
      [] OTHER -> None

ValidateBudgetPolicyScope(t, r) ==
    IF r.scope = "tenant" THEN r.scope_id = t
    ELSE /\ r.scope \in BudgetScopeKinds
         /\ r.scope_id \in Ids(ScopeTable[r.scope])
         /\ Row(ScopeTable[r.scope], r.scope_id).tenant = t

ValidateBudgetPolicyEnums(r) ==
    /\ r.period \in {"rolling", "calendar_day", "calendar_month", "lifetime", "custom_window"}
    /\ r.limit_kind \in {"cost", "tokens", "requests", "concurrency", "stream_seconds"}
    /\ r.overage \in {"notify_only", "block_new_requests", "prefer_low_cost_route",
                      "fallback_low_cost_route", "require_exact_usage"}
    /\ r.consistency \in {"eventual", "strong_terminal", "manual_review"}
    /\ r.shape

ValidateBudgetPolicyLimits(r) ==
    /\ r.currency = IF r.limit_kind = "cost" THEN "valid" ELSE "absent"
    /\ ~ (r.hard = {} /\ r.soft = {} /\ r.thresholds = {})
    /\ \A x \in UNION {r.hard, r.soft, r.thresholds} : ~ (x <= 0)
    /\ ~ \E s \in r.soft, h \in r.hard : s > h
    /\ ~ (r.hard # {} /\ r.overage = "notify_only" /\ r.consistency # "manual_review")

ValidateBudgetPolicyRequest(t, r) ==
    /\ ValidateBudgetPolicyScope(t, r)
    /\ ValidateBudgetPolicyEnums(r)
    /\ ValidateBudgetPolicyLimits(r)
    /\ ~ Duplicate("budget_policy", t, BudgetKey(r))

BudgetPolicyRecord(t, r) ==
    NewRow(t, [org |-> ScopeOrganization(r), project |-> ScopeProject(r)] ++ BudgetKey(r),
           "active")

ListBudgetPolicies(a) ==
    Lists(a, "list_budget_policies", "budget_policy", ForTenant("budget_policy", a))
GetBudgetPolicy(a) == Gets(a, "get_budget_policy", "budget_policy")
ValidateBudgetPolicy(a) ==
    /\ Calling(a, "validate_budget_policy")
    /\ \E r \in Requests["budget_policy"] :
         Validates(a, "budget_policy", BudgetPolicyValidation(a, r))
CreateBudgetPolicy(a) ==
    /\ Mutating(a, "create_budget_policy")
    /\ \E r \in Requests["budget_policy"] :
         Creates(a, "create_budget_policy", "budget_policy", r, BudgetPolicyValidation(a, r),
                 ValidateBudgetPolicyRequest(TenantOf[a], r),
                 BudgetPolicyRecord(TenantOf[a], r))
StoreBudgetPolicy(a) == InsertRow(a, "budget_policy")
UpdateBudgetPolicy(a) ==
    UpdatesStatus(a, "update_budget_policy", "budget_policy", ResourceStatus)
UpdateBudgetPolicyStatus(a) == CompareAndSet(a, "budget_policy")
-----------------------------------------------------------------------------
(* Quota policies                                                          *)

\* ProtocolFamily::all
ProtocolFamilies ==
    {"openai_responses", "openai_chat", "anthropic_messages", "gemini_generate_content",
     "bedrock_converse", "provider_native"}

ValidateQuotaScopeFields(a, r) ==
    \/ r.scope = "tenant" /\ r.scope_id = TenantOf[a]
    \/ r.scope = "protocol_family" /\ r.family \in ProtocolFamilies
    \/ r.scope \in QuotaScopeKinds /\ ForActor(ScopeTable[r.scope], a, r.scope_id)

\* quota_counter_scope_supported, quota_counter_window_supported and
\* quota_counter_increment_source_supported of the handlers.
QuotaCounters ==
    LET rates == {"tenant", "organization", "project", "credential", "alias"}
        concurrency == {"tenant", "organization", "project", "credential"}
        counter(scopes, windows, source) ==
            [scopes |-> scopes, windows |-> windows, source |-> source]
    IN [request_rate |-> counter(rates, {"fixed", "sliding"}, "accepted_preflight_request"),
        token_estimate_rate |-> counter(rates, {"fixed", "sliding"}, "request_estimate"),
        token_actual_rate |-> counter(rates, {"fixed", "ledger_bucket"}, "terminal_usage_event"),
        concurrent_request |-> counter(concurrency, {"request_lifetime"}, "preflight_acquire"),
        concurrent_stream |-> counter(concurrency, {"stream_lifetime"}, "stream_start"),
        stream_duration |-> counter({"credential", "alias", "endpoint"},
                                    {"fixed", "sliding", "stream_lifetime"}, "stream_start"),
        request_body_bytes |-> counter({"credential", "alias", "protocol_family"},
                                       {"fixed", "sliding"}, "request_body_bytes")]

ValidateQuotaShapeFields(r) ==
    /\ r.counter \in DOMAIN QuotaCounters
    /\ r.limit > 0
    /\ \A b \in r.burst : b > 0
    /\ r.loss \in {"fail_open", "fail_limited", "fail_closed"}
    /\ r.loss = "fail_limited" => r.burst # {}
    /\ r.scope \in QuotaCounters[r.counter].scopes
    /\ r.window \in QuotaCounters[r.counter].windows
    /\ r.source = QuotaCounters[r.counter].source

QuotaKey(r) ==
    [scope |-> r.scope, scope_id |-> r.scope_id, family |-> r.family, counter |-> r.counter,
     window |-> r.window]

QuotaPolicyValidation(a, r) ==
    /\ ValidateQuotaScopeFields(a, r)
    /\ ValidateQuotaShapeFields(r)
    /\ ~ Duplicate("quota_policy", TenantOf[a], QuotaKey(r))

ValidateQuotaPolicyScope(t, r) ==
    CASE r.scope = "tenant" -> r.scope_id = t
      [] r.scope = "protocol_family" -> r.family \in ProtocolFamilies
      [] r.scope \in QuotaScopeKinds ->
           /\ r.scope_id \in Ids(ScopeTable[r.scope])
           /\ Row(ScopeTable[r.scope], r.scope_id).tenant = t
      [] OTHER -> FALSE

\* The store's own copies of the three tables: what a counter may be limited
\* by, the windows it may have, and what increments it.
StoreCounterSupports(counter, scope, window, source) ==
    LET rates == {"tenant", "organization", "project", "credential", "alias"}
        concurrency == {"tenant", "organization", "project", "credential"}
    IN \/ /\ counter = "request_rate" /\ scope \in rates
          /\ window \in {"fixed", "sliding"} /\ source = "accepted_preflight_request"
       \/ /\ counter = "token_estimate_rate" /\ scope \in rates
          /\ window \in {"fixed", "sliding"} /\ source = "request_estimate"
       \/ /\ counter = "token_actual_rate" /\ scope \in rates
          /\ window \in {"fixed", "ledger_bucket"} /\ source = "terminal_usage_event"
       \/ /\ counter = "concurrent_request" /\ scope \in concurrency
          /\ window = "request_lifetime" /\ source = "preflight_acquire"
       \/ /\ counter = "concurrent_stream" /\ scope \in concurrency
          /\ window = "stream_lifetime" /\ source = "stream_start"
       \/ /\ counter = "stream_duration" /\ scope \in {"credential", "alias", "endpoint"}
          /\ window \in {"fixed", "sliding", "stream_lifetime"} /\ source = "stream_start"
       \/ /\ counter = "request_body_bytes"
          /\ scope \in {"credential", "alias", "protocol_family"}
          /\ window \in {"fixed", "sliding"} /\ source = "request_body_bytes"

ValidateQuotaPolicyShape(r) ==
    /\ ~ (r.limit <= 0)
    /\ ~ \E b \in r.burst : b <= 0
    /\ r.loss \in {"fail_open", "fail_limited", "fail_closed"}
    /\ ~ (r.loss = "fail_limited" /\ r.burst = {})
    /\ StoreCounterSupports(r.counter, r.scope, r.window, r.source)

ValidateQuotaPolicyRequest(t, r) ==
    /\ ValidateQuotaPolicyScope(t, r)
    /\ ValidateQuotaPolicyShape(r)
    /\ ~ Duplicate("quota_policy", t, QuotaKey(r))

QuotaPolicyRecord(t, r) ==
    NewRow(t, IF r.scope = "protocol_family"
              THEN [org |-> None, project |-> None] ++ QuotaKey(r)
              ELSE [org |-> ScopeOrganization(r), project |-> ScopeProject(r)] ++ QuotaKey(r),
           "active")

ListQuotaPolicies(a) ==
    Lists(a, "list_quota_policies", "quota_policy", ForTenant("quota_policy", a))
GetQuotaPolicy(a) == Gets(a, "get_quota_policy", "quota_policy")
ValidateQuotaPolicy(a) ==
    /\ Calling(a, "validate_quota_policy")
    /\ \E r \in Requests["quota_policy"] :
         Validates(a, "quota_policy", QuotaPolicyValidation(a, r))
CreateQuotaPolicy(a) ==
    /\ Mutating(a, "create_quota_policy")
    /\ \E r \in Requests["quota_policy"] :
         Creates(a, "create_quota_policy", "quota_policy", r, QuotaPolicyValidation(a, r),
                 ValidateQuotaPolicyRequest(TenantOf[a], r), QuotaPolicyRecord(TenantOf[a], r))
StoreQuotaPolicy(a) == InsertRow(a, "quota_policy")
UpdateQuotaPolicy(a) ==
    UpdatesStatus(a, "update_quota_policy", "quota_policy", ResourceStatus)
UpdateQuotaPolicyStatus(a) == CompareAndSet(a, "quota_policy")
-----------------------------------------------------------------------------
(* OpenTelemetry export configurations                                     *)

Interval == 5 .. 3600
Timeout == 1 .. 60
HeaderNames(r) == [i \in DOMAIN r.headers |-> r.headers[i].name]

\* A row of kind k in tenant t other than "except" that agrees with fields.
DuplicateExcept(k, t, except, fields) ==
    \E id \in Ids(k) \ except :
        /\ Row(k, id).tenant = t /\ Row(k, id).status # "deleted"
        /\ \A x \in DOMAIN fields : Row(k, id).f[x] = fields[x]

OtelKey(org, r) ==
    [org |-> org, project |-> r.project, url |-> r.url, protocol |-> r.protocol]

\* validate_otel_export_shape_fields, with the header and signal checks
OtelShapeFields(r) ==
    /\ r.shape
    /\ UrlSafeForConfig(r.url)
    /\ r.protocol = "otlp_http"
    /\ Len(r.headers) <= 8 /\ NoRepeats(HeaderNames(r))
    /\ r.signals = <<"metrics">>
    /\ r.interval \in Interval
    /\ r.timeout \in Timeout /\ r.timeout < r.interval

\* validate_otel_header_secret_ref_scope_fields
OtelHeaderSecretRefScopeFields(a, r) ==
    \A i \in DOMAIN r.headers :
        SecretRefScopeFields(a, InferredOrganization(TenantOf[a], r.org, r.project), r.project,
                             r.headers[i].secret)

OtelExportConfigValidation(a, r, except) ==
    /\ HandlerProject(a, r.org, r.project)
    /\ OtelShapeFields(r)
    /\ OtelHeaderSecretRefScopeFields(a, r)
    /\ ~ DuplicateExcept("otel_config", TenantOf[a], except,
                         OtelKey(InferredOrganization(TenantOf[a], r.org, r.project), r))

\* validate_otel_header_refs
ValidateOtelHeaderRefs(t, org, r) ==
    /\ Len(r.headers) <= 8
    /\ \A i, j \in DOMAIN r.headers : i # j => r.headers[i].name # r.headers[j].name
    /\ \A i \in DOMAIN r.headers : EnsureSecretRefUsable(t, org, r.project, r.headers[i].secret)

\* validate_otel_signals: metrics, once, and nothing else
ValidateOtelSignals(r) ==
    /\ r.signals # << >>
    /\ \A i \in DOMAIN r.signals : r.signals[i] = "metrics"
    /\ NoRepeats(r.signals)

\* validate_otel_export_shape
ValidateOtelExportShape(t, org, r) ==
    /\ r.shape
    /\ UrlSafe(r.url)
    /\ r.protocol = "otlp_http"
    /\ ValidateOtelHeaderRefs(t, org, r)
    /\ ValidateOtelSignals(r)
    /\ r.interval \in Interval
    /\ r.timeout \in Timeout /\ ~ (r.timeout >= r.interval)

ValidateOtelExportConfigRequest(t, r, except) ==
    LET org == InferredOrganization(t, r.org, r.project)
    IN /\ OptionalProjectScope(t, r.org, r.project)
       /\ ValidateOtelExportShape(t, org, r)
       /\ ~ DuplicateExcept("otel_config", t, except, OtelKey(org, r))

\* Mistake: the organization is not inferred from the project.
Unscoped(t, r) == r

\* The fields of a stored row: the request's, with the organization inferred.
Scoped(t, r) == [r EXCEPT !.org = InferredOrganization(t, r.org, r.project)]

ListOtelExportConfigs(a) ==
    Lists(a, "list_otel_export_configs", "otel_config", ForTenant("otel_config", a))
GetOtelExportConfig(a) == Gets(a, "get_otel_export_config", "otel_config")
ValidateOtelExportConfig(a) ==
    /\ Calling(a, "validate_otel_export_config")
    /\ \E r \in Requests["otel_config"] :
         Validates(a, "otel_config",
                   OtelExportConfigValidation(a, r, {}))
CreateOtelExportConfig(a) ==
    /\ Mutating(a, "create_otel_export_config")
    /\ \E r \in Requests["otel_config"] :
         Creates(a, "create_otel_export_config", "otel_config", r,
                 OtelExportConfigValidation(a, r, {}),
                 ValidateOtelExportConfigRequest(TenantOf[a], r, {}),
                 NewRow(TenantOf[a], Scoped(TenantOf[a], r), "active"))
StoreOtelExportConfig(a) == InsertRow(a, "otel_config")

\* An update names the fields it changes; the others keep their value.
Merged(k, id, u) == u.f ++ Row(k, id).f

\* update_otel_export_config: the handler and the store validate the merged
\* configuration, the store compares the version; all of it before the write
\* lock of the last step is taken.
UpdateOtelExportConfig(a) ==
    /\ Mutating(a, "update_otel_export_config")
    /\ \E id \in Ids("otel_config"), expected \in 1 .. MaxVersion,
        u \in Requests["otel_config_update"] :
         LET merged == Merged("otel_config", id, u)
         IN Request(a, "update_otel_export_config", ForActor("otel_config", a, id),
                    <<"update_otel_export_config">>, NoKey, id,
                    /\ OtelExportConfigValidation(a, merged, {id})
                    /\ Row("otel_config", id).version = expected
                    /\ ValidateOtelExportConfigRequest(TenantOf[a], merged, {id}),
                    Writing("otel_config", id, expected,
                            [status |-> u.status, f |-> Scoped(TenantOf[a], merged)]))

\* disable_otel_export_config: the same update of the store, without the
\* handler's validation.
DisableOtelExportConfig(a) ==
    /\ Mutating(a, "disable_otel_export_config")
    /\ \E id \in Ids("otel_config"), expected \in 1 .. MaxVersion :
         LET same == Row("otel_config", id).f
         IN Request(a, "disable_otel_export_config", ForActor("otel_config", a, id),
                    <<"disable_otel_export_config">>, NoKey, id,
                    /\ Row("otel_config", id).version = expected
                    /\ ValidateOtelExportConfigRequest(TenantOf[a], same, {id}),
                    Writing("otel_config", id, expected,
                            [status |-> "disabled", f |-> Scoped(TenantOf[a], same)]))

\* The second lock of an update that does not compare the version again.
WriteUnchecked(a, k) ==
    /\ op[a].pc = "write" /\ op[a].kind = k
    /\ db' = [db EXCEPT ![k][op[a].id] = Patched(@, op[a].patch)]
    /\ op' = [op EXCEPT ![a] = [after |-> Row(k, op[a].id).version + 1, pc |-> "finish"] ++ @]
    /\ answer' = Nobody
    /\ UNCHANGED <<secrets, idem, records, fixed>>

WriteOtelExportConfig(a) == WriteUnchecked(a, "otel_config")
-----------------------------------------------------------------------------
(* Notification sinks                                                      *)

SinkKey(org, r) == [org |-> org, project |-> r.project, name |-> r.name, sink_kind |-> r.sink_kind]

\* validate_webhook_notification_sink_fields and its local counterpart;
\* "policy" stands for the timeout and the retry policy of a webhook.
WebhookSinkFields(r) == UrlSafeForConfig(r.url) /\ r.policy /\ r.secret # None
\* validate_notification_sink_shape_fields, with the fields of a local sink
SinkShapeFields(r) ==
    /\ r.shape
    /\ \/ r.sink_kind = "webhook" /\ WebhookSinkFields(r)
       \/ r.sink_kind \in {"stdout", "disabled"} /\ r.secret = None

NotificationSinkValidation(a, r, except) ==
    LET org == InferredOrganization(TenantOf[a], r.org, r.project)
    IN /\ HandlerProject(a, r.org, r.project)
       /\ SinkShapeFields(r)
       /\ (r.sink_kind = "webhook" /\ r.secret # None)
             => SecretRefScopeFields(a, org, r.project, r.secret)
       /\ ~ DuplicateExcept("sink", TenantOf[a], except, SinkKey(org, r))

\* validate_notification_sink_shape of the store
ValidateNotificationSinkShape(r) ==
    /\ r.shape
    /\ CASE r.sink_kind = "webhook" -> UrlSafe(r.url) /\ r.secret # None
         [] r.sink_kind \in {"stdout", "disabled"} -> r.secret = None
         [] OTHER -> FALSE

ValidateNotificationSinkRequest(t, r, except) ==
    LET org == InferredOrganization(t, r.org, r.project)
    IN /\ OptionalProjectScope(t, r.org, r.project)
       /\ ValidateNotificationSinkShape(r)
       /\ r.secret # None => EnsureSecretRefUsable(t, org, r.project, r.secret)
       /\ ~ DuplicateExcept("sink", t, except, SinkKey(org, r))

ListNotificationSinks(a) == Lists(a, "list_notification_sinks", "sink", ForTenant("sink", a))
GetNotificationSink(a) == Gets(a, "get_notification_sink", "sink")
ValidateNotificationSink(a) ==
    /\ Calling(a, "validate_notification_sink")
    /\ \E r \in Requests["sink"] :
         Validates(a, "sink", NotificationSinkValidation(a, r, {}))
CreateNotificationSink(a) ==
    /\ Mutating(a, "create_notification_sink")
    /\ \E r \in Requests["sink"] :
         Creates(a, "create_notification_sink", "sink", r, NotificationSinkValidation(a, r, {}),
                 ValidateNotificationSinkRequest(TenantOf[a], r, {}),
                 NewRow(TenantOf[a], Scoped(TenantOf[a], r), "active"))
StoreNotificationSink(a) == InsertRow(a, "sink")

\* validate_notification_sink_status
SinkStatus == {"active", "disabled", "degraded", "deleted"}

UpdateNotificationSink(a) ==
    /\ Mutating(a, "update_notification_sink")
    /\ \E id \in Ids("sink"), expected \in 1 .. MaxVersion, u \in Requests["sink_update"] :
         LET merged == Merged("sink", id, u)
         IN Request(a, "update_notification_sink",
                    u.status \in SinkStatus \cup {"keep"} /\ ForActor("sink", a, id),
                    <<"update_notification_sink">>, NoKey, id,
                    /\ NotificationSinkValidation(a, merged, {id})
                    /\ Row("sink", id).version = expected
                    /\ ValidateNotificationSinkRequest(TenantOf[a], merged, {id}),
                    Writing("sink", id, expected, [status |-> u.status, f |-> merged]))
WriteNotificationSink(a) == WriteUnchecked(a, "sink")
-----------------------------------------------------------------------------
(* Notification subscriptions; the sink is named by the path.              *)

EventFamilies ==
    {"usage", "budget", "quota", "routing", "provider_health", "credential", "admin", "delivery"}

SubscriptionKey(sink, r) == [sink |-> sink, event_family |-> r.event_family, filter |-> r.filter]
\* The duplicate check looks at the subscriptions of the sink, of any tenant.
DuplicateSubscription(sink, r) ==
    \E t \in {row.tenant : row \in Rows("subscription")} :
        Duplicate("subscription", t, SubscriptionKey(sink, r))

NotificationSubscriptionValidation(a, sink, r) ==
    /\ ForActor("sink", a, sink) /\ Row("sink", sink).status # "deleted"
    /\ r.event_family \in EventFamilies
    /\ r.shape
    /\ ~ DuplicateSubscription(sink, r)

ValidateNotificationSubscriptionRequest(t, sink, r) ==
    /\ sink \in Ids("sink")
    /\ Row("sink", sink).tenant = t
    /\ Row("sink", sink).status # "deleted"
    /\ r.event_family \in EventFamilies /\ r.shape
    /\ ~ DuplicateSubscription(sink, r)

NotificationSubscriptionRecord(t, sink, r) ==
    NewRow(t, [org |-> Row("sink", sink).f.org, project |-> Row("sink", sink).f.project]
                ++ SubscriptionKey(sink, r), "active")

\* notification_subscription_for_actor: the path names the sink too.
SubscriptionForActor(a, sink, id) ==
    ForActor("subscription", a, id) /\ Row("subscription", id).f.sink = sink

ListNotificationSubscriptions(a) ==
    /\ Calling(a, "list_notification_subscriptions")
    /\ \E sink \in Ids("sink") :
         /\ ForActor("sink", a, sink)
         /\ Reads(a, {<<"subscription", id>> :
                     id \in {x \in ForTenant("subscription", a) :
                               Row("subscription", x).f.sink = sink}})
GetNotificationSubscription(a) ==
    /\ Calling(a, "get_notification_subscription")
    /\ \E sink \in Ids("sink"), id \in Ids("subscription") :
         /\ SubscriptionForActor(a, sink, id)
         /\ Reads(a, {<<"subscription", id>>})
ValidateNotificationSubscription(a) ==
    /\ Calling(a, "validate_notification_subscription")
    /\ \E sink \in Ids("sink"), r \in Requests["subscription"] :
         Validates(a, "subscription",
                   NotificationSubscriptionValidation(a, sink, r))
CreateNotificationSubscription(a) ==
    /\ Mutating(a, "create_notification_subscription")
    /\ \E sink \in Ids("sink"), r \in Requests["subscription"], key \in Keys :
         Request(a, "create_notification_subscription", TRUE,
                 <<"create_notification_subscription", sink>>, key, r,
                 /\ NotificationSubscriptionValidation(a, sink, r)
                 /\ ValidateNotificationSubscriptionRequest(TenantOf[a], sink, r),
                 [about |-> <<"sink", sink>>]
                   ++ Inserting("subscription",
                                NotificationSubscriptionRecord(TenantOf[a], sink, r)))
StoreNotificationSubscription(a) == InsertRow(a, "subscription")
UpdateNotificationSubscription(a) ==
    /\ Mutating(a, "update_notification_subscription")
    /\ \E sink \in Ids("sink"), id \in Ids("subscription"), expected \in 1 .. MaxVersion,
        status \in {"active", "disabled", "deleted"} :
         Request(a, "update_notification_subscription", SubscriptionForActor(a, sink, id),
                 <<"update_notification_subscription">>, NoKey, id, TRUE,
                 [about |-> <<"sink", sink>>]
                   ++ Writing("subscription", id, expected, NewStatus(status)))
UpdateNotificationSubscriptionStatus(a) == CompareAndSet(a, "subscription")
-----------------------------------------------------------------------------
(* Login providers                                                         *)

LoginProviderKey(r) == [provider_kind |-> r.provider_kind, name |-> r.name]

\* login_provider_validation_errors; local_verified_claims is a callback mode
\* of the local and test profiles only.
LoginProviderValidation(a, r) ==
    /\ r.provider_kind = "oidc"
    /\ r.shape
    /\ r.local_claims => LocalEnvironment
    /\ UrlSafeForConfig(r.url)
    /\ ~ Duplicate("login_provider", TenantOf[a], LoginProviderKey(r))

ValidateLoginProviderRequest(t, r) ==
    /\ r.provider_kind = "oidc"
    /\ r.shape
    /\ UrlSafe(r.url)
    /\ ~ Duplicate("login_provider", t, LoginProviderKey(r))

LoginProviderRecord(t, r) == NewRow(t, LoginProviderKey(r), "active")

\* list_login_providers answers with all of the tenant's providers.
ListLoginProviders(a) ==
    /\ Calling(a, "list_login_providers")
    /\ Reads(a, {<<"login_provider", id>> : id \in ForTenant("login_provider", a)})
GetLoginProvider(a) == Gets(a, "get_login_provider", "login_provider")
ValidateLoginProvider(a) ==
    /\ Calling(a, "validate_login_provider")
    /\ \E r \in Requests["login_provider"] :
         Validates(a, "login_provider", LoginProviderValidation(a, r))
CreateLoginProvider(a) ==
    /\ Mutating(a, "create_login_provider")
    /\ \E r \in Requests["login_provider"] :
         Creates(a, "create_login_provider", "login_provider", r, LoginProviderValidation(a, r),
                 ValidateLoginProviderRequest(TenantOf[a], r), LoginProviderRecord(TenantOf[a], r))
StoreLoginProvider(a) == InsertRow(a, "login_provider")
UpdateLoginProvider(a) ==
    UpdatesStatus(a, "update_login_provider", "login_provider",
                  {"active", "disabled", "deleted"})
UpdateLoginProviderStatus(a) == CompareAndSet(a, "login_provider")
=============================================================================
