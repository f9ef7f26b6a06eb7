----------------------------- MODULE AdminRouting -----------------------------
(***************************************************************************)
(* Routing groups and their targets, model aliases, route policies and     *)
(* provider grants: the resources a request is routed by.                  *)
(***************************************************************************)
EXTENDS AdminState

(* Routing groups                                                          *)

RoutingGroupValidation(a, r) ==
    /\ r.shape
    /\ ~ Duplicate("routing_group", TenantOf[a], [org |-> r.org, name |-> r.name])
    /\ HandlerOrganization(a, r.org)

ValidateRoutingGroupRequest(t, r) ==
    /\ OptionalOrganizationScope(t, r.org)
    /\ r.shape
    /\ ~ Duplicate("routing_group", t, [org |-> r.org, name |-> r.name])

RoutingGroupRecord(t, r) ==
    NewRow(t, [org |-> r.org, name |-> r.name, family |-> r.family], "active")

ListRoutingGroups(a) ==
    Lists(a, "list_routing_groups", "routing_group", ForTenant("routing_group", a))
GetRoutingGroup(a) == Gets(a, "get_routing_group", "routing_group")
ValidateRoutingGroup(a) ==
    /\ Calling(a, "validate_routing_group")
    /\ \E r \in Requests["routing_group"] :
         Validates(a, "routing_group", RoutingGroupValidation(a, r))
CreateRoutingGroup(a) ==
    /\ Mutating(a, "create_routing_group")
    /\ \E r \in Requests["routing_group"] :
         Creates(a, "create_routing_group", "routing_group", r, RoutingGroupValidation(a, r),
                 ValidateRoutingGroupRequest(TenantOf[a], r), RoutingGroupRecord(TenantOf[a], r))
StoreRoutingGroup(a) == InsertRow(a, "routing_group")
UpdateRoutingGroup(a) ==
    UpdatesStatus(a, "update_routing_group", "routing_group", ResourceStatus)
UpdateRoutingGroupStatus(a) == CompareAndSet(a, "routing_group")
-----------------------------------------------------------------------------
(* Targets of a routing group; the group is named by the path.             *)

RoutingGroupTargetValidation(a, group, r) ==
    /\ r.weight > 0
    /\ ForActor("routing_group", a, group)
    /\ ForActor("model_target", a, r.target)
    /\ Row("routing_group", group).f.family = Row("model_target", r.target).f.family
    /\ ~ OrganizationMismatch(Row("routing_group", group).f.org,
                              Row("model_target", r.target).f.org)
    /\ ~ Duplicate("group_target", TenantOf[a], [group |-> group, target |-> r.target])

ValidateRoutingGroupTargetRefs(t, group, r) ==
    /\ r.weight > 0
    /\ group \in Ids("routing_group") /\ Row("routing_group", group).tenant = t
    /\ r.target \in Ids("model_target") /\ Row("model_target", r.target).tenant = t
    /\ Row("routing_group", group).f.family = Row("model_target", r.target).f.family
    /\ ~ OrganizationMismatch(Row("routing_group", group).f.org,
                              Row("model_target", r.target).f.org)
    /\ ~ Duplicate("group_target", t, [group |-> group, target |-> r.target])

RoutingGroupTargetRecord(t, group, r) ==
    NewRow(t, [group |-> group, target |-> r.target], "active")

\* routing_group_target_for_actor
GroupTargetForActor(a, group, id) ==
    /\ ForActor("routing_group", a, group)
    /\ ForActor("group_target", a, id)
    /\ Row("group_target", id).f.group = group

ListRoutingGroupTargets(a) ==
    \E group \in Ids("routing_group") :
        /\ ForActor("routing_group", a, group)
        /\ Lists(a, "list_routing_group_targets", "group_target",
                 {id \in ForTenant("group_target", a) : Row("group_target", id).f.group = group})
GetRoutingGroupTarget(a) ==
    /\ Calling(a, "get_routing_group_target")
    /\ \E group \in Ids("routing_group"), id \in Ids("group_target") :
         /\ GroupTargetForActor(a, group, id)
         /\ Reads(a, {<<"group_target", id>>})
ValidateRoutingGroupTarget(a) ==
    /\ Calling(a, "validate_routing_group_target")
    /\ \E group \in Ids("routing_group"), r \in Requests["group_target"] :
         Validates(a, "group_target",
                   RoutingGroupTargetValidation(a, group, r))
CreateRoutingGroupTarget(a) ==
    /\ Mutating(a, "create_routing_group_target")
    /\ \E group \in Ids("routing_group"), r \in Requests["group_target"], key \in Keys :
         Request(a, "create_routing_group_target", TRUE,
                 <<"create_routing_group_target", group>>, key, r,
                 /\ RoutingGroupTargetValidation(a, group, r)
                 /\ ValidateRoutingGroupTargetRefs(TenantOf[a], group, r),
                 Inserting("group_target", RoutingGroupTargetRecord(TenantOf[a], group, r)))
StoreRoutingGroupTarget(a) == InsertRow(a, "group_target")
UpdateRoutingGroupTarget(a) ==
    /\ Mutating(a, "update_routing_group_target")
    /\ \E group \in Ids("routing_group"), id \in Ids("group_target"),
        expected \in 1 .. MaxVersion, status \in ResourceStatus :
         Request(a, "update_routing_group_target", GroupTargetForActor(a, group, id),
                 <<"update_routing_group_target">>, NoKey, id, TRUE,
                 Writing("group_target", id, expected, NewStatus(status)))
UpdateRoutingGroupTargetStatus(a) == CompareAndSet(a, "group_target")
-----------------------------------------------------------------------------
(* Model aliases                                                           *)

ModelAliasValidation(a, r) ==
    /\ r.shape
    /\ r.policy = None
    /\ ~ Duplicate("model_alias", TenantOf[a],
                   [org |-> r.org, project |-> r.project, name |-> r.name])
    /\ HandlerProject(a, r.org, r.project)

ValidateModelAliasRequest(t, r) ==
    /\ OptionalProjectScope(t, r.org, r.project)
    /\ r.shape
    /\ r.policy = None
    /\ ~ Duplicate("model_alias", t, [org |-> r.org, project |-> r.project, name |-> r.name])

ModelAliasRecord(t, r) ==
    NewRow(t, [org |-> r.org, project |-> r.project, name |-> r.name, family |-> r.family,
               policy |-> r.policy], "active")

\* model_alias_update_validation_errors
ModelAliasUpdateValidation(a, alias, u) ==
    /\ u.status # "keep" \/ u.policy # None
    /\ u.policy # None =>
         /\ ForActor("model_alias", a, alias)
         /\ ForActor("route_policy", a, u.policy)
         /\ Row("route_policy", u.policy).f.alias = alias
         /\ Row("route_policy", u.policy).f.family = Row("model_alias", alias).f.family

\* validate_model_alias_route_policy_binding, before the write lock is taken
ValidateModelAliasRoutePolicyBinding(alias, policy) ==
    /\ alias \in Ids("model_alias")
    /\ policy \in Ids("route_policy")
    /\ Row("route_policy", policy).tenant = Row("model_alias", alias).tenant
    /\ Row("route_policy", policy).f.alias = alias
    /\ Row("route_policy", policy).f.family = Row("model_alias", alias).f.family

ListModelAliases(a) ==
    Lists(a, "list_model_aliases", "model_alias", ForTenant("model_alias", a))
GetModelAlias(a) == Gets(a, "get_model_alias", "model_alias")
ValidateModelAlias(a) ==
    /\ Calling(a, "validate_model_alias")
    /\ \E r \in Requests["model_alias"] :
         Validates(a, "model_alias", ModelAliasValidation(a, r))
CreateModelAlias(a) ==
    /\ Mutating(a, "create_model_alias")
    /\ \E r \in Requests["model_alias"] :
         Creates(a, "create_model_alias", "model_alias", r, ModelAliasValidation(a, r),
                 ValidateModelAliasRequest(TenantOf[a], r), ModelAliasRecord(TenantOf[a], r))
StoreModelAlias(a) == InsertRow(a, "model_alias")

\* update_model_alias sets the status, binds a route policy, or both.
UpdateModelAlias(a) ==
    /\ Mutating(a, "update_model_alias")
    /\ \E id \in Ids("model_alias"), expected \in 1 .. MaxVersion,
        u \in Requests["model_alias_update"] :
         Request(a, "update_model_alias", ForActor("model_alias", a, id),
                 <<"update_model_alias">>, NoKey, id,
                 /\ ModelAliasUpdateValidation(a, id, u)
                 /\ u.policy # None => ValidateModelAliasRoutePolicyBinding(id, u.policy),
                 Writing("model_alias", id, expected,
                         [status |-> u.status,
                          f |-> IF u.policy = None THEN << >> ELSE [policy |-> u.policy]]))
WriteModelAlias(a) == CompareAndSet(a, "model_alias")
-----------------------------------------------------------------------------
(* Route policies: an alias routed to a group.                             *)

PolicyOrganization(alias, group) ==
    IF Row("model_alias", alias).f.org # None THEN Row("model_alias", alias).f.org
    ELSE Row("routing_group", group).f.org

RoutePolicyValidation(a, r) ==
    /\ r.shape
    /\ ForActor("model_alias", a, r.alias)
    /\ ForActor("routing_group", a, r.group)
    /\ LET alias == Row("model_alias", r.alias).f
           group == Row("routing_group", r.group).f
       IN /\ alias.family = group.family
          /\ ~ OrganizationMismatch(alias.org, group.org)
    /\ ~ Duplicate("route_policy", TenantOf[a],
                   [org |-> PolicyOrganization(r.alias, r.group), name |-> r.name])

ValidateRoutePolicyRequest(t, r) ==
    /\ r.shape
    /\ r.alias \in Ids("model_alias") /\ Row("model_alias", r.alias).tenant = t
    /\ r.group \in Ids("routing_group") /\ Row("routing_group", r.group).tenant = t
    /\ Row("model_alias", r.alias).f.family = Row("routing_group", r.group).f.family
    /\ ~ OrganizationMismatch(Row("model_alias", r.alias).f.org, Row("routing_group", r.group).f.org)
    /\ ~ Duplicate("route_policy", t,
                   [org |-> PolicyOrganization(r.alias, r.group), name |-> r.name])

RoutePolicyRecord(t, r) ==
    NewRow(t, [org |-> PolicyOrganization(r.alias, r.group), alias |-> r.alias,
               group |-> r.group, name |-> r.name,
               family |-> Row("model_alias", r.alias).f.family], "active")

ListRoutePolicies(a) ==
    Lists(a, "list_route_policies", "route_policy", ForTenant("route_policy", a))
GetRoutePolicy(a) == Gets(a, "get_route_policy", "route_policy")
ValidateRoutePolicy(a) ==
    /\ Calling(a, "validate_route_policy")
    /\ \E r \in Requests["route_policy"] :
         Validates(a, "route_policy", RoutePolicyValidation(a, r))
CreateRoutePolicy(a) ==
    /\ Mutating(a, "create_route_policy")
    /\ \E r \in Requests["route_policy"] :
         Creates(a, "create_route_policy", "route_policy", r, RoutePolicyValidation(a, r),
                 ValidateRoutePolicyRequest(TenantOf[a], r), RoutePolicyRecord(TenantOf[a], r))
StoreRoutePolicy(a) == InsertRow(a, "route_policy")
UpdateRoutePolicy(a) == UpdatesStatus(a, "update_route_policy", "route_policy", ResourceStatus)
UpdateRoutePolicyStatus(a) == CompareAndSet(a, "route_policy")
-----------------------------------------------------------------------------
(* Provider grants: who may use which routing resource.                    *)

GrantScopes == {"organization", "project"}
GrantResources ==
    {"model_alias", "route_policy", "routing_group", "model_target", "provider_endpoint",
     "pricing_sku"}

ValidateProviderGrantScopeFields(a, r) ==
    r.scope \in GrantScopes /\ ForActor(r.scope, a, r.scope_id)
ValidateProviderGrantResourceFields(a, r) ==
    r.resource \in GrantResources /\ ForActor(r.resource, a, r.resource_id)
\* validate_provider_grant_effect_fields and validate_provider_grant_effect
ValidateProviderGrantEffectFields(r) ==
    /\ r.effect \in {"allow", "deny"}
    /\ r.closure \in {"self_only", "include_descendants", "deny_descendants"}
    /\ ~ (r.effect = "allow" /\ r.closure = "deny_descendants")
    /\ ~ (r.effect = "deny" /\ r.closure = "include_descendants")

GrantKey(r) ==
    [scope |-> r.scope, scope_id |-> r.scope_id, resource |-> r.resource,
     resource_id |-> r.resource_id, effect |-> r.effect]

ProviderGrantValidation(a, r) ==
    /\ ValidateProviderGrantScopeFields(a, r)
    /\ ValidateProviderGrantResourceFields(a, r)
    /\ ValidateProviderGrantEffectFields(r)
    /\ ~ Duplicate("provider_grant", TenantOf[a], GrantKey(r))

ValidateProviderGrantScope(t, r) ==
    /\ r.scope \in GrantScopes
    /\ r.scope_id \in Ids(r.scope) /\ Row(r.scope, r.scope_id).tenant = t
ValidateProviderGrantResource(t, r) ==
    /\ r.resource \in GrantResources
    /\ r.resource_id \in Ids(r.resource) /\ Row(r.resource, r.resource_id).tenant = t
ValidateProviderGrantEffect(r) ==
    /\ <<r.effect, r.closure>> \in
         {<<"allow", "self_only">>, <<"allow", "include_descendants">>,
          <<"deny", "self_only">>, <<"deny", "deny_descendants">>}

ValidateProviderGrantRequest(t, r) ==
    /\ ValidateProviderGrantScope(t, r)
    /\ ValidateProviderGrantResource(t, r)
    /\ ValidateProviderGrantEffect(r)
    /\ ~ Duplicate("provider_grant", t, GrantKey(r))

ProviderGrantRecord(t, r) ==
    NewRow(t, [org |-> IF r.scope = "organization" THEN r.scope_id
                       ELSE Row("project", r.scope_id).f.org,
               closure |-> r.closure] ++ GrantKey(r), "active")

ListProviderGrants(a) ==
    Lists(a, "list_provider_grants", "provider_grant", ForTenant("provider_grant", a))
GetProviderGrant(a) == Gets(a, "get_provider_grant", "provider_grant")
ValidateProviderGrant(a) ==
    /\ Calling(a, "validate_provider_grant")
    /\ \E r \in Requests["provider_grant"] :
         Validates(a, "provider_grant", ProviderGrantValidation(a, r))
CreateProviderGrant(a) ==
    /\ Mutating(a, "create_provider_grant")
    /\ \E r \in Requests["provider_grant"] :
         Creates(a, "create_provider_grant", "provider_grant", r, ProviderGrantValidation(a, r),
                 ValidateProviderGrantRequest(TenantOf[a], r), ProviderGrantRecord(TenantOf[a], r))
StoreProviderGrant(a) == InsertRow(a, "provider_grant")
UpdateProviderGrant(a) ==
    UpdatesStatus(a, "update_provider_grant", "provider_grant", ResourceStatus)
UpdateProviderGrantStatus(a) == CompareAndSet(a, "provider_grant")
=============================================================================
