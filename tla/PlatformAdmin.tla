----------------------------- MODULE PlatformAdmin ----------------------------
(***************************************************************************)
(* Authorization, the admin routes and the foundation routes of the        *)
(* platform service.                                                       *)
(*                                                                         *)
(* A handler's reads up to its authorization are one step, the request;    *)
(* each write it then makes is a step of its own, for every write takes a  *)
(* lock, or is a statement, of its own.  A request that is refused changes *)
(* nothing and is left out.  A write that is refused ends the handler.     *)
(***************************************************************************)
EXTENDS PlatformStore

NoOp == [pc |-> "idle"]
Nobody == [tenant |-> None, rows |-> {}]

\* A client takes up a route of the scenario while requests are left.
Calling(c, route) ==
    /\ op[c].pc = "idle"
    /\ route \in scenario.routes
    /\ history.requests < scenario.requests
At(c, pc) == op[c].pc = pc

Starts(c, held) ==
    /\ op' = [op EXCEPT ![c] = held]
    /\ history' = [history EXCEPT !.requests = @ + 1]
    /\ answer' = Nobody
    /\ UNCHANGED <<db, clock, scenario>>
Fails(c) ==
    /\ op' = [op EXCEPT ![c] = NoOp]
    /\ answer' = Nobody
    /\ UNCHANGED <<db, clock, history, scenario>>
\* A write, and the handler at its next one.
Writes(c, tables, next) ==
    /\ db' = tables
    /\ op' = [op EXCEPT ![c] = next]
    /\ answer' = Nobody
    /\ UNCHANGED <<clock, scenario>>
Answers(c, actor, rows) ==
    /\ answer' = [tenant |-> actor.tenant, rows |-> rows]
    /\ history' = [history EXCEPT !.requests = @ + 1]
    /\ UNCHANGED <<db, op, clock, scenario>>
-----------------------------------------------------------------------------
(* Actors and their roles                                                  *)

ActorOf(row) ==
    [tenant |-> row.tenant, org |-> row.org, project |-> row.project,
     principal |-> row.principal, kind |-> row.kind]

\* authenticated_actor_from_headers: a bearer token is a session's, else a
\* credential's; else the verified certificate's subject.
AuthenticatedActorFromHeaders ==
    {ActorOf(Row("session", s)) :
        s \in UNION {IF Postgres THEN SelectAuthSessionByTokenSql(i) ELSE AuthSessionForBearer(i) :
                        i \in Ids("session")}}
    \cup {ActorOf(Row("credential", i)) :
        i \in UNION {IF Postgres THEN SelectBearerCredentialSql(j) \cup SelectMtlsIdentitySql(j)
                                 ELSE BearerCredentialMemory(j) \cup MtlsIdentityMemory(j) :
                        j \in Ids("credential")}}

\* PLATFORM_OPERATOR_ACTIONS and the lists after it: what each role may do.
Actions(role) ==
    LET reads == {"ConversationRead", "SessionRead", "RunRead", "RunEventRead",
                  "EnvironmentAttachmentRead", "EnvironmentAttachmentHealthRead",
                  "EvidenceArchiveRead"}
        approvals == {"ApprovalRead", "ApprovalDecide", "DeferredToolRead", "DeferredToolResume"}
        own_session == {"AuthSessionRead", "AuthSessionUpdate", "AuthSessionRevoke"}
        operator == reads \cup
            {"IdentityProviderRead", "UserRead", "ExternalIdentityRead", "RoleBindingRead",
             "AuthSessionRead", "AuditEventRead", "OrganizationMemberRead",
             "OrganizationInvitationRead", "ProjectMemberRead", "SecretRefRead"}
        project_admin == reads \cup approvals \cup own_session \cup
            {"RoleBindingRead", "RoleBindingWrite", "ConversationCreate", "ConversationUpdate",
             "SessionCreate", "RunCreate", "RunCancel", "EnvironmentAttachmentCreate",
             "EnvironmentAttachmentRelease", "ProjectMemberRead", "ProjectMemberWrite"}
        organization_admin == project_admin \cup
            {"AuditEventRead", "OrganizationMemberRead", "OrganizationMemberWrite",
             "OrganizationInvitationRead", "OrganizationInvitationCreate",
             "OrganizationInvitationManage", "OrganizationInvitationAccept"}
        auditor == own_session \cup
            {"RunRead", "RunEventRead", "EvidenceArchiveRead", "EvidenceArchiveDebugRead",
             "RoleBindingRead", "AuditEventRead"}
    IN CASE role = "tenant_owner" -> organization_admin \cup operator \cup auditor \cup
              {"RunSteer", "IdentityProviderWrite", "UserWrite", "ExternalIdentityUnlink",
               "AuthSessionCreate", "SecretRefWrite"}
         [] role = "platform_operator" -> operator
         [] role = "organization_admin" -> organization_admin
         [] role = "project_admin" -> project_admin
         [] role = "project_developer" -> reads \cup approvals \cup own_session \cup
              {"ConversationCreate", "SessionCreate", "RunCreate", "RunCancel", "RunSteer",
               "EnvironmentAttachmentCreate", "EnvironmentAttachmentRelease"}
         [] role = "project_viewer" ->
              reads \cup own_session \cup {"ApprovalRead", "DeferredToolRead"}
         [] role = "auditor" -> auditor
\* requires_user_actor
RequiresUserActor ==
    {"ConversationUpdate", "RunCancel", "RunSteer", "ApprovalRead", "ApprovalDecide",
     "DeferredToolResume", "EnvironmentAttachmentRelease", "EvidenceArchiveDebugRead",
     "IdentityProviderWrite", "UserWrite", "ExternalIdentityUnlink", "RoleBindingWrite",
     "AuthSessionRead", "AuthSessionUpdate", "AuthSessionRevoke", "AuditEventRead",
     "OrganizationMemberWrite", "OrganizationInvitationCreate", "OrganizationInvitationManage",
     "OrganizationInvitationAccept", "ProjectMemberWrite", "SecretRefWrite"}

ScopeKind(role) ==
    CASE role \in {"tenant_owner", "platform_operator"} -> "tenant"
      [] role = "organization_admin" -> "organization"
      [] role = "auditor" -> "any"
      [] OTHER -> "project"

\* What is acted on: its tenant, and the organization and project it is in.
Resource(t, org, project) == [tenant |-> t, org |-> org, project |-> project]
TenantResource(t) == Resource(t, None, None)
InScopeOf(row) == Resource(row.tenant, row.org, row.project)
InOrganizationOf(row) == Resource(row.tenant, row.org, None)

\* role_binding_scope_id
RoleBindingScopeId(b) ==
    IF b.project # None THEN <<"project", b.project>>
    ELSE IF b.org # None THEN <<"organization", b.org>> ELSE <<"tenant", b.tenant>>
GrantScopeMatches(b, resource) ==
    LET scopes == [tenant |-> {<<"tenant", resource.tenant>>},
                   organization |-> {<<"organization", resource.org>>},
                   project |-> {<<"project", resource.project>>}]
        kind == ScopeKind(b.role)
    IN RoleBindingScopeId(b) \in
          IF kind = "any" THEN UNION {scopes[k] : k \in DOMAIN scopes} ELSE scopes[kind]
GrantAllows(b, actor, action, resource) ==
    /\ b.tenant = actor.tenant /\ b.principal = actor.principal
    /\ action \in Actions(b.role)
    /\ GrantScopeMatches(b, resource)

\* A binding in a project, or an organization, counts while its principal is a
\* member there.
RoleBindingMembershipAllows(b) ==
    LET member(k, ids) == \E i \in ids : /\ Row(k, i).tenant = b.tenant
                                         /\ Row(k, i).principal = b.principal
                                         /\ Row(k, i).status = "active"
    IN IF b.project # None THEN member("project_member", ProjectMembersForProject(b.project))
       ELSE b.org # None => member("org_member", OrganizationMembersForOrganization(b.org))
RoleBindingAuthorizationAllows(actor, action, resource) ==
    \E i \in ActiveRoleBindingsForPrincipal(actor.tenant, actor.principal) :
        /\ GrantAllows(Row("binding", i), actor, action, resource)
        /\ RoleBindingMembershipAllows(Row("binding", i))

\* platform_authorization_for_config: the single user owns its tenant.
StaticGrants ==
    IF scenario.single_user
    THEN {[tenant |-> SingleUser.tenant, org |-> None, project |-> None,
           principal |-> SingleUser.user, role |-> "tenant_owner"]}
    ELSE {}
FoundationAllows(actor, action, resource) ==
    /\ resource.tenant = actor.tenant
    /\ action \in RequiresUserActor => actor.kind = "user"
AuthorizeServiceAction(actor, action, resource) ==
    /\ FoundationAllows(actor, action, resource)
    /\ \/ \E b \in StaticGrants : GrantAllows(b, actor, action, resource)
       \/ RoleBindingAuthorizationAllows(actor, action, resource)
-----------------------------------------------------------------------------
(* Audit events, kept as the set of what was recorded                      *)

AuditEvent(actor, action, resource, id) ==
    [tenant |-> resource.tenant, org |-> resource.org, project |-> resource.project,
     actor |-> actor.principal, action |-> action, id |-> id]
RecordPlatformAuditEvent(c) ==
    /\ At(c, "audit")
    /\ history' = [history EXCEPT !.audits = @ \cup {op[c].event}]
    /\ op' = [op EXCEPT ![c] = NoOp]
    /\ answer' = Nobody
    /\ UNCHANGED <<db, clock, scenario>>
Audit(event) == [pc |-> "audit", event |-> event]

\* audit_event_list_resource: the organization or project asked for, else the
\* tenant; audit_event_matches_query: and only events of it.
AuditEventListResource(actor, org, project) == Resource(actor.tenant, org, project)
AuditEventMatchesQuery(event, org, project) ==
    /\ org # None => event.org = org
    /\ project # None => event.project = project
ListPlatformAuditEvents(c) ==
    /\ Calling(c, "list_platform_audit_events")
    /\ \E actor \in AuthenticatedActorFromHeaders, org \in {None, 1}, project \in {None, 1} :
         /\ project # None => org # None
         /\ AuthorizeServiceAction(actor, "AuditEventRead", AuditEventListResource(actor, org, project))
         /\ Answers(c, actor, {[tenant |-> e.tenant] : e \in
               {x \in history.audits : x.tenant = actor.tenant /\ AuditEventMatchesQuery(x, org, project)}})
-----------------------------------------------------------------------------
(* Users, their sessions and external identities                           *)

EnsureActorTenant(actor, t) == actor.tenant = t

\* The rows ids of kind k, as they are handed out.
Rows(k, ids) == {[tenant |-> Row(k, i).tenant] : i \in ids}

ListPlatformUsers(c) ==
    /\ Calling(c, "list_platform_users")
    /\ \E actor \in AuthenticatedActorFromHeaders :
         /\ AuthorizeServiceAction(actor, "UserRead", TenantResource(actor.tenant))
         /\ Answers(c, actor, Rows("user", UsersForTenant(actor.tenant)))
GetPlatformUser(c) ==
    /\ Calling(c, "get_platform_user")
    /\ \E actor \in AuthenticatedActorFromHeaders : \E u \in UNION {PlatformUserById(i) : i \in Ids("user")} :
         /\ EnsureActorTenant(actor, Row("user", u).tenant)
         /\ AuthorizeServiceAction(actor, "UserRead", TenantResource(Row("user", u).tenant))
         /\ Answers(c, actor, Rows("user", {u}))

\* update_platform_user_status: the status, then the sessions, then the audit.
UpdatePlatformUserStatus(c) ==
    /\ Calling(c, "update_platform_user_status")
    /\ \E actor \in AuthenticatedActorFromHeaders, u \in Ids("user"),
          expected \in 1 .. MaxVersion, status \in UserStatus :
         /\ u \in PlatformUserById(u) /\ EnsureActorTenant(actor, Row("user", u).tenant)
         /\ AuthorizeServiceAction(actor, "UserWrite", TenantResource(Row("user", u).tenant))
         /\ Starts(c, [pc |-> "set_user_status", id |-> u, expected |-> expected, status |-> status,
                       event |-> AuditEvent(actor, "UserWrite", TenantResource(Row("user", u).tenant), u)])
\* set_platform_user_status
SetUserStatus(c) ==
    /\ At(c, "set_user_status")
    /\ LET u == op[c].id
           done == SetPlatformUserStatus(u, op[c].expected, op[c].status)
       IN \/ \E row \in done :
               /\ Writes(c, Put("user", u, row),
                         IF AcceptsAccess(row) THEN Audit(op[c].event)
                         ELSE [pc |-> "disable_sessions", id |-> u, tenant |-> row.tenant,
                               event |-> op[c].event])
               /\ UNCHANGED history
          \/ done = {} /\ Fails(c)
DisableAuthSessions(c) ==
    /\ At(c, "disable_sessions")
    /\ Writes(c, DisableAuthSessionsForPrincipal(op[c].tenant, op[c].id), Audit(op[c].event))
    /\ UNCHANGED history

ListUserAuthSessions(c) ==
    /\ Calling(c, "list_user_auth_sessions")
    /\ \E actor \in AuthenticatedActorFromHeaders, u \in Ids("user") :
         /\ u \in PlatformUserById(u) /\ EnsureActorTenant(actor, Row("user", u).tenant)
         /\ AuthorizeServiceAction(actor, "AuthSessionRead", TenantResource(Row("user", u).tenant))
         /\ Answers(c, actor, Rows("session", AuthSessionsForPrincipal(Row("user", u).tenant, u)))

\* ensure_auth_session_belongs_to_user
EnsureAuthSessionBelongsToUser(s, u) ==
    /\ Row("session", s).tenant = Row("user", u).tenant
    /\ Row("session", s).principal = u
RevokeUserAuthSession(c) ==
    /\ Calling(c, "revoke_user_auth_session")
    /\ \E actor \in AuthenticatedActorFromHeaders, u \in Ids("user"), s \in Ids("session") :
         /\ u \in PlatformUserById(u) /\ EnsureActorTenant(actor, Row("user", u).tenant)
         /\ s \in AuthSessionById(s)
         /\ EnsureAuthSessionBelongsToUser(s, u)
         /\ LET resource == TenantResource(Row("user", u).tenant)
            IN /\ AuthorizeServiceAction(actor, "AuthSessionRevoke", resource)
               /\ Starts(c, [pc |-> "revoke_session", id |-> s, tenant |-> resource.tenant, user |-> u,
                             event |-> AuditEvent(actor, "AuthSessionRevoke", resource, s)])
RevokeSession(c) ==
    /\ At(c, "revoke_session")
    /\ LET done == RevokeAuthSessionById(op[c].id, op[c].tenant, op[c].user)
       IN \/ \E row \in done : Writes(c, Put("session", op[c].id, row), Audit(op[c].event))
                               /\ UNCHANGED history
          \/ done = {} /\ Fails(c)

ListUserExternalIdentities(c) ==
    /\ Calling(c, "list_user_external_identities")
    /\ \E actor \in AuthenticatedActorFromHeaders, u \in Ids("user") :
         /\ AuthorizeServiceAction(actor, "ExternalIdentityRead", TenantResource(actor.tenant))
         /\ Answers(c, actor, Rows("identity", ExternalIdentitiesForPrincipal(actor.tenant, u)))
\* external_identity_for_actor
ExternalIdentityForActor(actor, u, i) ==
    /\ i \in ExternalIdentityById(i)
    /\ Row("identity", i).tenant = actor.tenant /\ Row("identity", i).principal = u
GetUserExternalIdentity(c) ==
    /\ Calling(c, "get_user_external_identity")
    /\ \E actor \in AuthenticatedActorFromHeaders, i \in Ids("identity"), u \in Ids("user") :
         /\ ExternalIdentityForActor(actor, u, i)
         /\ AuthorizeServiceAction(actor, "ExternalIdentityRead", TenantResource(Row("identity", i).tenant))
         /\ Answers(c, actor, Rows("identity", {i}))
UnlinkUserExternalIdentity(c) ==
    /\ Calling(c, "unlink_user_external_identity")
    /\ \E actor \in AuthenticatedActorFromHeaders, i \in Ids("identity"), u \in Ids("user") :
         /\ ExternalIdentityForActor(actor, u, i)
         /\ Row("identity", i).kind # "single_user"
         /\ LET resource == TenantResource(Row("identity", i).tenant)
            IN /\ AuthorizeServiceAction(actor, "ExternalIdentityUnlink", resource)
               /\ Starts(c, [pc |-> "unlink", id |-> i,
                             event |-> AuditEvent(actor, "ExternalIdentityUnlink", resource, i)])
Unlink(c) ==
    /\ At(c, "unlink")
    /\ LET done == UnlinkExternalIdentity(op[c].id)
       IN \/ \E row \in done : Writes(c, Put("identity", op[c].id, row), Audit(op[c].event))
                               /\ UNCHANGED history
          \/ done = {} /\ Fails(c)
=============================================================================
