---------------------------- MODULE GatewayCatalog ----------------------------
(***************************************************************************)
(* The routing catalog inside a published config snapshot (catalog.rs):    *)
(* when a payload holds a catalog, when a catalog is accepted, which       *)
(* alias, policy and group a request is bound to, and which candidates of  *)
(* the group may serve it.                                                 *)
(*                                                                         *)
(* A payload is a record.  It has a field for each catalog list it sends,  *)
(* "cedar" for its Cedar policy bundle, and "decodes", which says whether  *)
(* serde accepts the lists.  Lists are sequences of rows; ids are numbers  *)
(* and None stands for an absent optional id.  An actor is the tenant,     *)
(* organization, project and principal a request is authenticated for.     *)
(***************************************************************************)
EXTENDS Integers, Sequences, FiniteSets, SequencesExt

LOCAL None == 0

CatalogKeys ==
    {"provider_endpoints", "upstream_credentials", "model_targets", "model_aliases",
     "routing_groups", "routing_group_targets", "route_policies", "provider_grants"}

\* payload_has_catalog
PayloadHasCatalog(payload) == CatalogKeys \cap DOMAIN payload # {}

\* GatewayCatalogSnapshot: a list that the payload leaves out is empty.
GatewayCatalogSnapshot(payload) ==
    [key \in CatalogKeys |-> IF key \in DOMAIN payload THEN payload[key] ELSE << >>]

Active(row) == row.status = "active"
\* CredentialStatus::is_usable
IsUsable(credential) == credential.status \in {"active", "rotating"}

\* The row with an id, in a list and by its id.
Has(list, id) == \E i \in DOMAIN list : list[i].id = id
Get(list, id) == LET i == CHOOSE j \in DOMAIN list : list[j].id = id IN list[i]
-----------------------------------------------------------------------------
(* validate                                                                *)

\* index_endpoints, index_credentials, index_targets, index_aliases,
\* index_groups and index_policies refuse an id that is there twice.
Indexes(c) ==
    \A key \in {"provider_endpoints", "upstream_credentials", "model_targets",
                "model_aliases", "routing_groups", "route_policies"} :
        IsInjective([i \in DOMAIN c[key] |-> c[key][i].id])

\* group_targets_by_group: the entries of one group.
GroupTargets(c, group) ==
    {i \in DOMAIN c.routing_group_targets : c.routing_group_targets[i].group = group}

\* validate_endpoint; "url" stands for an absolute http or https URL.
ValidateEndpoint(e) == e.families # {} /\ e.url

\* validate_credential_kind: codex_oauth only for codex, no other OAuth.
ValidateCredentialKind(e, credential) ==
    /\ credential.secret # None
    /\ credential.kind = "codex_oauth" => e.provider = "codex"
    /\ credential.kind # "other_oauth"
ValidateCredentials(c) ==
    \A credential \in Range(c.upstream_credentials) :
        /\ Has(c.provider_endpoints, credential.endpoint)
        /\ ValidateCredentialKind(Get(c.provider_endpoints, credential.endpoint), credential)

ValidateTargetCredential(c, target) ==
    target.credential # None =>
        /\ Has(c.upstream_credentials, target.credential)
        /\ LET credential == Get(c.upstream_credentials, target.credential)
           IN credential.endpoint = target.endpoint /\ IsUsable(credential)
\* validate_targets and validate_target_endpoint
ValidateTargets(c) ==
    \A target \in Range(c.model_targets) :
        /\ Has(c.provider_endpoints, target.endpoint)
        /\ target.family \in Get(c.provider_endpoints, target.endpoint).families
        /\ ValidateTargetCredential(c, target)

\* validate_policies; "sticky" is sticky_ttl_seconds, and "ttl_ok" that it is
\* between a minute and a day.
ValidatePolicies(c) ==
    \A policy \in Range(c.route_policies) :
        /\ policy.sticky # None => policy.ttl_ok
        /\ Has(c.routing_groups, policy.group)
        /\ GroupTargets(c, policy.group) # {}

ValidateAliasTargets(c, alias, policy) ==
    \A i \in GroupTargets(c, policy.group) :
        LET id == c.routing_group_targets[i].target
        IN Has(c.model_targets, id) /\ Get(c.model_targets, id).family = alias.family
\* validate_aliases and validate_alias_policy
ValidateAliases(c) ==
    \A alias \in Range(c.model_aliases) :
        /\ Has(c.route_policies, alias.policy)
        /\ LET policy == Get(c.route_policies, alias.policy)
           IN policy.alias = alias.id /\ ValidateAliasTargets(c, alias, policy)

\* is_spec_shape: the grant says more than a legacy one can.
IsSpecShape(grant) ==
    \/ grant.scope_kind # "none" \/ grant.scope_id # None
    \/ grant.resource_kind # "none" \/ grant.resource_id # None
    \/ grant.effect # "allow" \/ grant.closure # "self_only"

ValidateLegacyProviderGrant(c, grant) ==
    /\ grant.endpoint # None
    /\ Has(c.provider_endpoints, grant.endpoint)
    /\ grant.target # None =>
         /\ Has(c.model_targets, grant.target)
         /\ Get(c.model_targets, grant.target).endpoint = grant.endpoint

\* grant_scope_kind and grant_scope_id: what the grant names, else its project,
\* else its organization.
GrantScope(grant) ==
    [kind |-> IF grant.scope_kind # "none" THEN grant.scope_kind
              ELSE IF grant.project # None THEN "project"
              ELSE IF grant.org # None THEN "organization" ELSE "none",
     id   |-> IF grant.scope_id # None THEN grant.scope_id
              ELSE IF grant.project # None THEN grant.project ELSE grant.org]

ValidateProviderGrantClosureMode(grant) ==
    /\ ~ (grant.effect = "allow" /\ grant.closure = "deny_descendants")
    /\ ~ (grant.effect = "deny" /\ grant.closure = "include_descendants")

\* The list the resource of a grant must be in; a pricing SKU is not looked up.
GrantableList(c, kind) ==
    CASE kind = "model_alias" -> c.model_aliases
      [] kind = "route_policy" -> c.route_policies
      [] kind = "routing_group" -> c.routing_groups
      [] kind = "model_target" -> c.model_targets
      [] kind = "provider_endpoint" -> c.provider_endpoints
ValidateSpecProviderGrant(c, grant) ==
    /\ GrantScope(grant).kind # "none" /\ GrantScope(grant).id # None
    /\ grant.resource_kind # "none" /\ grant.resource_id # None
    /\ ValidateProviderGrantClosureMode(grant)
    /\ grant.resource_kind # "pricing_sku" =>
         Has(GrantableList(c, grant.resource_kind), grant.resource_id)
ValidateProviderGrants(c) ==
    \A grant \in Range(c.provider_grants) :
        IF IsSpecShape(grant) THEN ValidateSpecProviderGrant(c, grant)
        ELSE ValidateLegacyProviderGrant(c, grant)

ValidateCatalog(c) ==
    /\ Indexes(c)
    /\ \A e \in Range(c.provider_endpoints) : ValidateEndpoint(e)
    /\ ValidateCredentials(c)
    /\ ValidateTargets(c)
    /\ ValidatePolicies(c)
    /\ ValidateProviderGrants(c)
    /\ ValidateAliases(c)

\* from_payload: no catalog, a catalog, or a request that cannot be served.
FromPayload(payload) ==
    CASE ~ PayloadHasCatalog(payload) -> "none"
      [] PayloadHasCatalog(payload) /\ payload.decodes
           /\ ValidateCatalog(GatewayCatalogSnapshot(payload)) -> "catalog"
      [] OTHER -> "bad_request"
-----------------------------------------------------------------------------
(* resolve_route_binding                                                   *)

\* alias_scope_score: the project's alias before the organization's before the
\* tenant's; 0 when the actor does not see the alias.
AliasScopeScore(alias, actor) ==
    CASE alias.project # None /\ alias.project = actor.project /\ alias.org = actor.org -> 3
      [] alias.project = None /\ alias.org # None /\ alias.org = actor.org -> 2
      [] alias.project = None /\ alias.org = None -> 1
      [] OTHER -> 0

\* resolve_alias: the aliases of the best score; one of them may be inactive and
\* then hides the others.
ResolveAlias(c, actor, name) ==
    LET scoped == {alias \in Range(c.model_aliases) :
                      /\ alias.tenant = actor.tenant /\ alias.name = name
                      /\ AliasScopeScore(alias, actor) > 0}
    IN {alias \in scoped : \A other \in scoped :
          AliasScopeScore(other, actor) <= AliasScopeScore(alias, actor)}

\* resolve_route_binding: why there is no binding, or "bound".
ResolveRouteBinding(c, request) ==
    LET best == ResolveAlias(c, request.actor, request.name)
        alias == CHOOSE a \in best : TRUE
        policy == Get(c.route_policies, alias.policy)
        group == Get(c.routing_groups, policy.group)
    IN CASE best = {} -> "not_found"
         [] Cardinality(best) > 1 -> "ambiguous"
         [] Cardinality(best) = 1 /\ alias.family # request.family -> "protocol_mismatch"
         [] Cardinality(best) = 1 /\ alias.family = request.family /\ ~ Active(alias)
              -> "not_found"
         [] Cardinality(best) = 1 /\ alias.family = request.family /\ Active(alias)
              /\ ~ (Active(policy) /\ Active(group)) -> "not_ready"
         [] OTHER -> "bound"

\* The alias, policy and group of a request that is bound.
RouteBinding(c, request) ==
    LET alias == CHOOSE a \in ResolveAlias(c, request.actor, request.name) : TRUE
        policy == Get(c.route_policies, alias.policy)
    IN [alias |-> alias, policy |-> policy, group |-> Get(c.routing_groups, policy.group)]

\* The candidates in the order they are tried: lower priority number first, then
\* the heavier, then the lower target id; the sort is stable.
Candidates(c, group) ==
    LET entry(i) == c.routing_group_targets[i]
        before(i, j) ==
            \/ entry(i).priority < entry(j).priority
            \/ entry(i).priority = entry(j).priority /\ entry(i).weight > entry(j).weight
            \/ /\ entry(i).priority = entry(j).priority /\ entry(i).weight = entry(j).weight
               /\ \/ entry(i).target < entry(j).target
                  \/ entry(i).target = entry(j).target /\ i < j
        order == SetToSortSeq(GroupTargets(c, group), before)
    IN [i \in DOMAIN order |-> entry(order[i])]
-----------------------------------------------------------------------------
(* provider_grant_allows                                                   *)

\* optional_match
OptionalMatch(expected, actual) == expected = None \/ expected = actual

LegacyProviderGrantAllows(c, actor, target) ==
    \E grant \in Range(c.provider_grants) :
        /\ Active(grant) /\ grant.tenant = actor.tenant
        /\ OptionalMatch(grant.org, actor.org)
        /\ OptionalMatch(grant.project, actor.project)
        /\ OptionalMatch(grant.principal, actor.principal)
        /\ grant.endpoint = target.endpoint
        /\ OptionalMatch(grant.target, target.id)

\* ProviderGrantPath::nodes
PathNodes(binding, target) ==
    <<<<"model_alias", binding.alias.id>>, <<"route_policy", binding.policy.id>>,
      <<"routing_group", binding.group.id>>, <<"model_target", target.id>>,
      <<"provider_endpoint", target.endpoint>>>>

GrantMatchesScope(grant, actor, kind, id) ==
    /\ grant.tenant = actor.tenant
    /\ GrantScope(grant) = [kind |-> kind, id |-> id]
    /\ OptionalMatch(grant.principal, actor.principal)

\* grant_is_ancestor_or_self
GrantIsAncestorOrSelf(grant, path, n) ==
    \E p \in 1 .. n : path[p] = <<grant.resource_kind, grant.resource_id>>

\* grant_applies_to_node: to the n-th node of the path.
GrantAppliesToNode(grant, path, n) ==
    CASE grant.closure = "self_only" -> path[n] = <<grant.resource_kind, grant.resource_id>>
      [] grant.closure = "include_descendants" ->
           grant.effect = "allow" /\ GrantIsAncestorOrSelf(grant, path, n)
      [] grant.closure = "deny_descendants" ->
           grant.effect = "deny" /\ GrantIsAncestorOrSelf(grant, path, n)

\* spec_scope_allows_node and spec_scope_denies_node
SpecScopeNode(c, actor, effect, kind, id, path, n) ==
    \E grant \in Range(c.provider_grants) :
        /\ Active(grant) /\ grant.effect = effect
        /\ GrantMatchesScope(grant, actor, kind, id) /\ GrantAppliesToNode(grant, path, n)

\* project_scope_inherits_or_narrows: a project with allows of its own for a kind
\* (project_has_allow_for_kind) is held to them.
ProjectScopeInheritsOrNarrows(c, actor, id, path) ==
    \A n \in DOMAIN path :
        /\ ~ SpecScopeNode(c, actor, "deny", "project", id, path, n)
        /\ (\E grant \in Range(c.provider_grants) :
              /\ Active(grant) /\ grant.effect = "allow"
              /\ GrantMatchesScope(grant, actor, "project", id)
              /\ grant.resource_kind = path[n][1])
             => SpecScopeNode(c, actor, "allow", "project", id, path, n)

\* spec_provider_grant_allows and scope_allows_all_path_nodes
SpecProviderGrantAllows(c, actor, binding, target) ==
    LET path == PathNodes(binding, target)
    IN /\ actor.org # None
       /\ \A n \in DOMAIN path :
            /\ SpecScopeNode(c, actor, "allow", "organization", actor.org, path, n)
            /\ ~ SpecScopeNode(c, actor, "deny", "organization", actor.org, path, n)
       /\ actor.project # None => ProjectScopeInheritsOrNarrows(c, actor, actor.project, path)

\* provider_grant_allows and has_spec_provider_grants
ProviderGrantAllows(c, actor, binding, target) ==
    IF \E grant \in Range(c.provider_grants) :
         Active(grant) /\ grant.tenant = actor.tenant /\ IsSpecShape(grant)
    THEN SpecProviderGrantAllows(c, actor, binding, target)
    ELSE LegacyProviderGrantAllows(c, actor, target)
-----------------------------------------------------------------------------
(* evaluate_candidate                                                      *)

\* Why a candidate of the request is filtered out, or "selected".  "drained" and
\* "health" are what the hot state says of its endpoint; they are asked before
\* the credential and the grants are looked at.
EvaluateCandidate(c, request, binding, candidate, drained, health) ==
    LET target == Get(c.model_targets, candidate.target)
        endpoint == Get(c.provider_endpoints, target.endpoint)
        credential == Get(c.upstream_credentials, target.credential)
        reasons ==
          <<<<~ Active(candidate), "group_target_inactive">>,
            <<~ Has(c.model_targets, candidate.target), "target_missing">>,
            <<~ Active(target), "target_inactive">>,
            <<target.family # request.family, "protocol_mismatch">>,
            <<request.streaming /\ ~ target.streaming, "streaming_unsupported">>,
            <<~ Has(c.provider_endpoints, target.endpoint), "endpoint_missing">>,
            <<~ Active(endpoint), "endpoint_inactive">>,
            <<request.family \notin endpoint.families, "endpoint_protocol_mismatch">>,
            <<drained, "endpoint_drained">>,
            <<health = "blocked", "endpoint_health_blocked">>,
            <<health = "unhealthy", "endpoint_unhealthy">>,
            <<target.credential # None /\ ~ Has(c.upstream_credentials, target.credential),
              "credential_missing">>,
            <<target.credential # None /\ ~ IsUsable(credential), "credential_unusable">>,
            <<~ ProviderGrantAllows(c, request.actor, binding, target),
              "provider_grant_denied">>>>
        first == SelectInSeq(reasons, LAMBDA r : r[1])
    IN IF first = 0 THEN "selected" ELSE reasons[first][2]
=============================================================================
