------------------------------- MODULE MCAdmin -------------------------------
(***************************************************************************)
(* A small instance of the admin API: two requests in flight, two tenants  *)
(* with a few seeded rows each (both admins work in tenant 1, tenant 2     *)
(* holds rows they must not reach), and one scenario per family of         *)
(* resources, so that overlapping requests meet on the same rows.  The     *)
(* requests of every kind include acceptable ones, ones each rule refuses, *)
(* and ones that name rows of the other tenant.                            *)
(***************************************************************************)
EXTENDS AdminApi, TLC

Symmetry == Permutations(Admins)
MCTenantOf == [a \in Admins |-> 1]

R(t, f) == NewRow(t, f, "active")
Family == "openai_responses"

MCSeed ==
    [organization |-> <<R(1, << >>), R(1, << >>), R(2, << >>)>>,
     project |-> <<R(1, [org |-> 1]), R(2, [org |-> 3])>>,
     secret_ref |-> <<R(1, [org |-> None, project |-> None, backend |-> "memory",
                            fingerprint |-> "v0"]),
                      R(1, [org |-> 1, project |-> None, backend |-> "file",
                            fingerprint |-> "v0"]),
                      R(2, [org |-> None, project |-> None, backend |-> "memory",
                            fingerprint |-> "v0"])>>,
     provider_endpoint |-> <<R(1, [org |-> None, provider |-> "codex", families |-> {Family}]),
                             R(2, [org |-> None, provider |-> "codex", families |-> {Family}])>>,
     upstream_credential |-> <<R(1, [org |-> None, endpoint |-> 1, secret |-> 1]),
                               R(2, [org |-> None, endpoint |-> 2, secret |-> 3])>>,
     codex_connection |-> <<NewRow(1, [org |-> None, endpoint |-> 1, credential |-> None,
                                       name |-> "c1"], "unauthenticated"),
                            NewRow(2, [org |-> None, endpoint |-> 2, credential |-> None,
                                       name |-> "c1"], "unauthenticated")>>,
     codex_session |-> << >>,
     pricing_sku |-> <<R(1, [org |-> None, name |-> "s1"]), R(2, [org |-> None, name |-> "s1"])>>,
     model_target |-> <<R(1, [org |-> None, endpoint |-> 1, credential |-> 1, family |-> Family,
                              sku |-> 1]),
                        R(2, [org |-> None, endpoint |-> 2, credential |-> None,
                              family |-> Family, sku |-> None])>>,
     catalog_import |-> << >>,
     routing_group |-> <<R(1, [org |-> None, name |-> "g1", family |-> Family]),
                         R(2, [org |-> None, name |-> "g1", family |-> Family])>>,
     group_target |-> << >>,
     model_alias |-> <<R(1, [org |-> None, project |-> None, name |-> "m1", family |-> Family,
                             policy |-> None]),
                       R(2, [org |-> None, project |-> None, name |-> "m1", family |-> Family,
                             policy |-> None])>>,
     route_policy |-> <<R(1, [org |-> None, alias |-> 1, group |-> 1, name |-> "p1",
                              family |-> Family]),
                        R(2, [org |-> None, alias |-> 2, group |-> 2, name |-> "p1",
                              family |-> Family])>>,
     provider_grant |-> << >>,
     budget_policy |-> <<R(1, [org |-> None, project |-> None, scope |-> "tenant",
                               scope_id |-> 1, limit_kind |-> "tokens", period |-> "rolling"]),
                         R(2, [org |-> None, project |-> None, scope |-> "tenant",
                               scope_id |-> 2, limit_kind |-> "tokens", period |-> "rolling"])>>,
     quota_policy |-> << >>,
     otel_config |-> <<R(1, [shape |-> TRUE, org |-> None, project |-> None, url |-> "https",
                             protocol |-> "otlp_http", headers |-> << >>,
                             signals |-> <<"metrics">>, interval |-> 5, timeout |-> 4])>>,
     sink |-> <<R(1, [shape |-> TRUE, org |-> None, project |-> None, name |-> "n1",
                      sink_kind |-> "webhook", url |-> "https", policy |-> TRUE,
                      secret |-> 1])>>,
     subscription |-> << >>,
     login_provider |-> << >>,
     maintenance_window |-> << >>,
     emergency_operation |-> << >>,
     endpoint_drain |-> << >>,
     config_publication |-> <<R(1, [snapshot |-> None, version |-> 1])>>,
     export_job |-> << >>,
     export_manifest |-> << >>]

\* An acceptable request, and the same with one field changed.
With(r, patches) == {r} \cup {p ++ r : p \in patches}

Budget == [scope |-> "organization", scope_id |-> 1, period |-> "rolling", limit_kind |-> "cost",
           overage |-> "block_new_requests", consistency |-> "eventual", shape |-> TRUE,
           currency |-> "valid", hard |-> {2}, soft |-> {1}, thresholds |-> {}]
Quota == [scope |-> "project", scope_id |-> 1, family |-> "none", counter |-> "request_rate",
          window |-> "fixed", source |-> "accepted_preflight_request", limit |-> 1,
          burst |-> {}, loss |-> "fail_open"]
Otel == [shape |-> TRUE, org |-> None, project |-> 1, url |-> "loopback", protocol |-> "otlp_http",
         headers |-> <<[name |-> "h", secret |-> 2]>>, signals |-> <<"metrics">>,
         interval |-> 5, timeout |-> 4]
Sink == [shape |-> TRUE, org |-> None, project |-> 1, name |-> "n2", sink_kind |-> "webhook",
         url |-> "https", policy |-> TRUE, secret |-> 2]
Grant == [scope |-> "project", scope_id |-> 1, resource |-> "model_alias", resource_id |-> 1,
          effect |-> "allow", closure |-> "self_only"]

MCRequests ==
    [secret_ref |-> With([shape |-> TRUE, backend |-> "memory", org |-> None, project |-> 1,
                          value |-> "v1"],
                         {[backend |-> "file"], [backend |-> "vault"], [org |-> 2],
                          [project |-> 2]}),
     secret_value |-> {"v1", "v2"},
     provider_endpoint |-> With([shape |-> TRUE, org |-> 1, provider |-> "codex",
                                 families |-> <<Family>>],
                                {[org |-> 3], [families |-> << >>],
                                 [families |-> <<Family, Family>>]}),
     upstream_credential |-> With([shape |-> TRUE, org |-> 1, endpoint |-> 1, secret |-> 2],
                                  {[endpoint |-> 2], [secret |-> 3], [org |-> 2],
                                   [org |-> None, secret |-> 1]}),
     codex_connection |-> With([shape |-> TRUE, org |-> None, endpoint |-> 1, name |-> "c2"],
                               {[name |-> "c1"], [endpoint |-> 2]}),
     codex_session |-> {[secret |-> 1, expires |-> None], [secret |-> 3, expires |-> 1]},
     pricing_sku |-> With([shape |-> TRUE, unit |-> "micro_usd", currency |-> "USD",
                           document |-> [currency |-> "USD", unit |-> "micro_usd"],
                           org |-> 1, name |-> "s1"],
                          {[org |-> None], [org |-> 3], [currency |-> "EUR"]}),
     model_target |-> With([shape |-> TRUE, org |-> None, endpoint |-> 1, credential |-> 1,
                            family |-> Family, sku |-> 1],
                           {[endpoint |-> 2], [credential |-> 2], [family |-> "openai_chat"],
                            [sku |-> 2], [credential |-> None]}),
     catalog_import |-> With([mode |-> "draft", org |-> None, project |-> 1, shape |-> TRUE,
                              tenant |-> None,
                              resources |-> <<[kind |-> "model_alias", secret |-> FALSE]>>],
                             {[mode |-> "apply"], [tenant |-> 2], [resources |-> << >>],
                              [resources |-> <<[kind |-> "model_alias", secret |-> TRUE]>>]}),
     routing_group |-> With([shape |-> TRUE, org |-> 1, name |-> "g1", family |-> Family],
                            {[org |-> None], [org |-> 3], [family |-> "openai_chat"]}),
     group_target |-> {[weight |-> 1, target |-> 1], [weight |-> 1, target |-> 2],
                       [weight |-> 0, target |-> 1]},
     model_alias |-> With([shape |-> TRUE, org |-> None, project |-> 1, name |-> "m1",
                           family |-> Family, policy |-> None],
                          {[project |-> None], [project |-> 2], [policy |-> 1]}),
     model_alias_update |-> {[status |-> "keep", policy |-> 1], [status |-> "disabled",
                             policy |-> None], [status |-> "active", policy |-> 2],
                             [status |-> "keep", policy |-> None]},
     route_policy |-> With([shape |-> TRUE, alias |-> 1, group |-> 1, name |-> "p2"],
                           {[name |-> "p1"], [alias |-> 2], [group |-> 2]}),
     provider_grant |-> With(Grant, {[closure |-> "deny_descendants"], [resource_id |-> 2],
                                     [scope |-> "tenant"], [scope_id |-> 2],
                                     [effect |-> "deny"]}),
     budget_policy |-> With(Budget, {[currency |-> "absent"], [hard |-> {0}], [soft |-> {3}],
                                     [hard |-> {}, soft |-> {}], [overage |-> "notify_only"],
                                     [scope |-> "credential"], [scope |-> "tenant"],
                                     [limit_kind |-> "tokens"], [scope_id |-> 3],
                                     [scope |-> "alias"]}),
     quota_policy |-> With(Quota, {[loss |-> "fail_limited"], [limit |-> 0],
                                   [scope |-> "endpoint"], [window |-> "request_lifetime"],
                                   [source |-> "stream_start"], [scope_id |-> 2],
                                   [scope |-> "protocol_family", family |-> Family,
                                    counter |-> "request_body_bytes",
                                    source |-> "request_body_bytes"]}),
     otel_config |-> With(Otel, {[url |-> "unsafe"], [org |-> 2], [protocol |-> "otlp_grpc"],
                                 [headers |-> <<[name |-> "h", secret |-> 3]>>],
                                 [signals |-> <<"metrics", "metrics">>], [timeout |-> 5],
                                 [project |-> None, headers |-> << >>, url |-> "https"]}),
     otel_config_update |-> {[status |-> "keep", f |-> [interval |-> 6]],
                             [status |-> "disabled", f |-> << >>],
                             [status |-> "keep", f |-> [project |-> 1]],
                             [status |-> "keep", f |-> [timeout |-> 5]]},
     sink |-> With(Sink, {[sink_kind |-> "stdout"], [sink_kind |-> "pubsub"], [url |-> "unsafe"],
                          [policy |-> FALSE], [secret |-> 3], [secret |-> None],
                          [sink_kind |-> "stdout", secret |-> None]}),
     sink_update |-> {[status |-> "keep", f |-> [name |-> "n3"]],
                      [status |-> "disabled", f |-> << >>],
                      [status |-> "draining", f |-> << >>],
                      [status |-> "keep", f |-> [secret |-> None]]},
     subscription |-> With([event_family |-> "usage", filter |-> "any", shape |-> TRUE],
                           {[event_family |-> "weather"], [filter |-> "some"]}),
     login_provider |-> With([provider_kind |-> "oidc", shape |-> TRUE, local_claims |-> FALSE,
                              url |-> "https", name |-> "l1"],
                             {[provider_kind |-> "saml"], [local_claims |-> TRUE],
                              [url |-> "loopback"], [name |-> "l2"]}),
     maintenance_window |-> With([shape |-> TRUE, org |-> None, project |-> 1, starts |-> 0,
                                  ends |-> 1],
                                 {[starts |-> 1], [org |-> 2], [project |-> 2]}),
     emergency |-> {[shape |-> TRUE, expires |-> 1, expected |-> 1],
                    [shape |-> TRUE, expires |-> 2, expected |-> 2],
                    [shape |-> TRUE, expires |-> 1, expected |-> 0]},
     export_job |-> With([scope |-> "tenant", scope_id |-> None, export_kind |-> "usage",
                          backend |-> "object_storage", limit |-> 1, retention |-> 1],
                         {[backend |-> "inline_manifest"], [scope_id |-> 2], [limit |-> 0],
                          [scope |-> "project", scope_id |-> 1]})]

Calls(routes, mutations, horizon) ==
    [routes |-> routes, mutations |-> mutations, horizon |-> horizon, redis |-> FALSE]

MCScenarios ==
    {Calls({"list_secret_refs", "get_secret_ref", "get_secret_ref_locator",
            "create_secret_ref", "list_provider_endpoints", "get_provider_endpoint",
            "validate_provider_endpoint", "create_provider_endpoint",
            "list_upstream_credentials", "get_upstream_credential",
            "validate_upstream_credential", "create_upstream_credential"}, 1, 0),
     Calls({"create_secret_ref", "update_secret_ref", "rotate_secret_ref"}, 2, 0),
     Calls({"rotate_secret_ref"}, 2, 1),
     Calls({"create_provider_endpoint", "update_provider_endpoint", "create_upstream_credential",
            "update_upstream_credential", "update_secret_ref"}, 2, 0),
     Calls({"list_codex_oauth_connections", "get_codex_oauth_connection",
            "create_codex_oauth_connection", "list_codex_oauth_sessions",
            "get_codex_oauth_session", "get_codex_oauth_refresh_status",
            "start_codex_oauth_session"}, 1, 0),
     Calls({"create_codex_oauth_connection", "update_codex_oauth_connection",
            "start_codex_oauth_session", "revoke_codex_oauth_session"}, 3, 0),
     Calls({"list_pricing_skus", "get_pricing_sku", "validate_pricing_sku", "create_pricing_sku",
            "list_model_targets", "get_model_target", "validate_model_target",
            "create_model_target", "list_catalog_imports", "get_catalog_import",
            "validate_catalog_import", "create_catalog_import"}, 1, 0),
     Calls({"create_pricing_sku", "update_pricing_sku", "create_model_target",
            "update_model_target", "create_catalog_import"}, 2, 0),
     Calls({"list_routing_groups", "get_routing_group", "validate_routing_group",
            "create_routing_group", "list_routing_group_targets", "get_routing_group_target",
            "validate_routing_group_target", "create_routing_group_target",
            "list_model_aliases", "get_model_alias", "validate_model_alias",
            "create_model_alias", "list_route_policies", "get_route_policy",
            "validate_route_policy", "create_route_policy", "list_provider_grants",
            "get_provider_grant", "validate_provider_grant", "create_provider_grant"}, 1, 0),
     Calls({"create_routing_group", "update_routing_group", "create_routing_group_target",
            "update_routing_group_target"}, 2, 0),
     Calls({"create_model_alias", "update_model_alias", "create_route_policy",
            "update_route_policy"}, 2, 0),
     Calls({"create_route_policy", "update_model_alias"}, 3, 0),
     Calls({"create_provider_grant", "update_provider_grant"}, 2, 0),
     Calls({"list_budget_policies", "get_budget_policy", "validate_budget_policy",
            "create_budget_policy", "list_quota_policies", "get_quota_policy",
            "validate_quota_policy", "create_quota_policy", "list_otel_export_configs",
            "get_otel_export_config", "validate_otel_export_config",
            "create_otel_export_config"}, 1, 0),
     Calls({"create_budget_policy", "update_budget_policy"}, 2, 0),
     Calls({"create_quota_policy", "update_quota_policy"}, 2, 0),
     Calls({"create_otel_export_config", "update_otel_export_config",
            "disable_otel_export_config", "update_secret_ref"}, 2, 0),
     Calls({"list_notification_sinks", "get_notification_sink", "validate_notification_sink",
            "create_notification_sink", "list_notification_subscriptions",
            "get_notification_subscription", "validate_notification_subscription",
            "create_notification_subscription", "list_login_providers", "get_login_provider",
            "validate_login_provider", "create_login_provider"}, 1, 0),
     Calls({"create_notification_sink", "update_notification_sink",
            "create_notification_subscription", "update_notification_subscription"}, 2, 0),
     Calls({"create_login_provider", "update_login_provider"}, 2, 0),
     Calls({"list_maintenance_windows", "get_maintenance_window", "validate_maintenance_window",
            "create_maintenance_window", "list_emergency_operations", "get_emergency_operation",
            "emergency_freeze_config", "list_export_jobs", "get_export_job",
            "get_export_job_manifest", "create_export_job"}, 1, 1),
     Calls({"create_maintenance_window", "update_maintenance_window"}, 2, 1),
     Calls({"emergency_disable_upstream_credential", "emergency_disable_provider_endpoint",
            "emergency_drain_routing_group", "emergency_force_budget_block",
            "update_routing_group"}, 2, 0),
     Calls({"emergency_freeze_config", "create_routing_group"}, 3, 2),
     Calls({"create_export_job"}, 2, 1)}

=============================================================================
