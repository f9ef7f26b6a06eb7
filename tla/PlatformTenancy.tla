---------------------------- MODULE PlatformTenancy ---------------------------
(***************************************************************************)
(* The admin routes of organizations and projects (memberships, role       *)
(* bindings, invitations), of identity providers and secret references,    *)
(* and the foundation routes, which only authorize and read.               *)
(***************************************************************************)
EXTENDS PlatformAdmin

\* A row of kind k the handler names, of the actor's tenant.
Named(k, actor) == {i \in Ids(k) : Row(k, i).tenant = actor.tenant}
-----------------------------------------------------------------------------
(* Organization members                                                    *)

\* organization_scope_resource: the actor's tenant and any organization named.
OrganizationScopeResource(actor, org) == Resource(actor.tenant, org, None)
Organizations == {Row("org_member", i).org : i \in Ids("org_member")}

ListOrganizationMembers(c) ==
    /\ Calling(c, "list_organization_members")
    /\ \E actor \in AuthenticatedActorFromHeaders, org \in Organizations :
         /\ AuthorizeServiceAction(actor, "OrganizationMemberRead", OrganizationScopeResource(actor, org))
         /\ Answers(c, actor, Rows("org_member", OrganizationMembersForOrganization(org)
                                                   \cap Named("org_member", actor)))
\* organization_member_for_actor
OrganizationMemberForActor(actor, i) == i \in OrganizationMemberById(i) \cap Named("org_member", actor)
GetOrganizationMember(c) ==
    /\ Calling(c, "get_organization_member")
    /\ \E actor \in AuthenticatedActorFromHeaders, i \in Ids("org_member") :
         /\ OrganizationMemberForActor(actor, i)
         /\ AuthorizeServiceAction(actor, "OrganizationMemberRead", InOrganizationOf(Row("org_member", i)))
         /\ Answers(c, actor, Rows("org_member", {i}))

\* The id asked for, else the member's own, else a new one.
CreateOrganizationMember(c) ==
    /\ Calling(c, "create_organization_member")
    /\ \E actor \in AuthenticatedActorFromHeaders, request \in Requests.organization_member :
         LET mine == {m \in OrganizationMembersForOrganization(request.org) :
                        /\ Row("org_member", m).tenant = actor.tenant
                        /\ Row("org_member", m).principal = request.principal}
             id == IF request.id # None THEN request.id
                   ELSE IF mine # {} THEN First(mine) ELSE NewId("org_member")
         IN /\ AuthorizeServiceAction(actor, "OrganizationMemberWrite",
                                      OrganizationScopeResource(actor, request.org))
            /\ request.id = None => mine \cup Unused("org_member") # {}
            /\ Starts(c, [pc |-> "upsert_org_member", id |-> id,
                          row |-> OrganizationMembershipRecord(actor.tenant, request.org,
                                                               request.principal, request.kind)])
StoreOrganizationMember(c) ==
    /\ At(c, "upsert_org_member")
    /\ LET done == UpsertOrganizationMember(op[c].id, op[c].row)
       IN \/ \E new \in done : Writes(c, Put("org_member", new[1], new[2]), NoOp)
                               /\ UNCHANGED history
          \/ done = {} /\ Fails(c)

\* update_organization_member_status and remove_organization_member: the
\* membership, then the projects', then, once removed, the role bindings.
UpdateOrganizationMemberStatus(c) ==
    /\ Calling(c, "update_organization_member_status")
    /\ \E actor \in AuthenticatedActorFromHeaders, i \in Ids("org_member"),
          expected \in 1 .. MaxVersion, status \in MembershipStatus :
         /\ OrganizationMemberForActor(actor, i)
         /\ AuthorizeServiceAction(actor, "OrganizationMemberWrite", InOrganizationOf(Row("org_member", i)))
         /\ Starts(c, [pc |-> "set_org_member", id |-> i, expected |-> expected, status |-> status])
RemoveOrganizationMember(c) ==
    /\ Calling(c, "remove_organization_member")
    /\ \E actor \in AuthenticatedActorFromHeaders, i \in Ids("org_member"), expected \in 1 .. MaxVersion :
         /\ OrganizationMemberForActor(actor, i)
         /\ AuthorizeServiceAction(actor, "OrganizationMemberWrite", InOrganizationOf(Row("org_member", i)))
         /\ Starts(c, [pc |-> "set_org_member", id |-> i, expected |-> expected, status |-> "removed"])
SetOrganizationMember(c) ==
    /\ At(c, "set_org_member")
    /\ LET done == SetOrganizationMemberStatus(op[c].id, op[c].expected, op[c].status)
       IN \/ \E row \in done : Writes(c, Put("org_member", op[c].id, row),
                                      [pc |-> "cascade", id |-> op[c].id, member |-> row])
                               /\ UNCHANGED history
          \/ done = {} /\ Fails(c)
Cascade(c) ==
    /\ At(c, "cascade")
    /\ LET member == op[c].member
       IN Writes(c, CascadeProjectMemberships(member, member.status),
                 IF member.status = "removed"
                 THEN [pc |-> "delete_org_bindings", id |-> op[c].id, member |-> member] ELSE NoOp)
    /\ UNCHANGED history
DeleteOrganizationBindings(c) ==
    /\ At(c, "delete_org_bindings")
    /\ LET member == op[c].member
       IN Writes(c, DeleteRoleBindingsForOrganizationPrincipal(member.tenant, member.org, member.principal),
                 NoOp)
    /\ UNCHANGED history
-----------------------------------------------------------------------------
(* Project members                                                         *)

Projects == {Row("project_member", i).project : i \in Ids("project_member")}

\* project_scope_resource: for a project without members, the actor's own
\* organization.
ListProjectMembers(c) ==
    /\ Calling(c, "list_project_members")
    /\ \E actor \in AuthenticatedActorFromHeaders, project \in Projects :
         LET members == ProjectMembersForProject(project)
             resource == IF members = {} THEN Resource(actor.tenant, actor.org, project)
                         ELSE InScopeOf(Row("project_member", First(members)))
         IN /\ members = {} => actor.org # None
            /\ AuthorizeServiceAction(actor, "ProjectMemberRead", resource)
            /\ Answers(c, actor, Rows("project_member", members \cap Named("project_member", actor)))
\* project_member_for_actor
ProjectMemberForActor(actor, i) == i \in ProjectMemberById(i) \cap Named("project_member", actor)
GetProjectMember(c) ==
    /\ Calling(c, "get_project_member")
    /\ \E actor \in AuthenticatedActorFromHeaders, i \in Ids("project_member") :
         /\ ProjectMemberForActor(actor, i)
         /\ AuthorizeServiceAction(actor, "ProjectMemberRead", InScopeOf(Row("project_member", i)))
         /\ Answers(c, actor, Rows("project_member", {i}))

\* active_organization_member_by_id_for_actor
ActiveOrganizationMemberById(actor, i) ==
    /\ i \in OrganizationMemberById(i)
    /\ Row("org_member", i).tenant = actor.tenant
    /\ Row("org_member", i).status = "active"
\* A project belongs where its first member says it does.
EnsureProjectMemberCreateMatches(project, member) ==
    LET members == ProjectMembersForProject(project)
    IN members # {} => LET first == Row("project_member", First(members))
                       IN first.tenant = member.tenant /\ first.org = member.org
\* create_project_member: the membership of the organization is read here and
\* not again when the project's is written.
CreateProjectMember(c) ==
    /\ Calling(c, "create_project_member")
    /\ \E actor \in AuthenticatedActorFromHeaders, request \in Requests.project_member :
         LET member == Row("org_member", request.member)
             mine == {m \in ProjectMembersForProject(request.project) :
                        /\ Row("project_member", m).tenant = member.tenant
                        /\ Row("project_member", m).principal = member.principal}
             id == IF request.id # None THEN request.id
                   ELSE IF mine # {} THEN First(mine) ELSE NewId("project_member")
         IN /\ ActiveOrganizationMemberById(actor, request.member)
            /\ EnsureProjectMemberCreateMatches(request.project, member)
            /\ AuthorizeServiceAction(actor, "ProjectMemberWrite",
                                      Resource(member.tenant, member.org, request.project))
            /\ request.id = None => mine \cup Unused("project_member") # {}
            /\ Starts(c, [pc |-> "upsert_project_member", id |-> id,
                          row |-> ProjectMembershipRecord(member.tenant, member.org, request.project,
                                      member.principal, request.member, member.kind)])
\* A membership of a project, or a role, of a member of its organization.
OfMember(row, member) ==
    row.tenant = member.tenant /\ row.org = member.org /\ row.principal = member.principal
\* Whether a principal is shut out of the organization a row is in.
ShutOut(tables, row) ==
    \E i \in DOMAIN tables["org_member"] :
        LET member == tables["org_member"][i]
        IN member.status \notin {"absent", "active"} /\ OfMember(row, member)
\* Of the rows that are written those are late whose principal is shut out all
\* the same.
LateAfter(tables, written) ==
    (history.late \ written) \cup
    {w \in written : LET row == tables[w[1]][w[2]]
                     IN row.status = "active" /\ ShutOut(tables, row)}
Late(k, i, row) == [history EXCEPT !.late = LateAfter(Put(k, i, row), {<<k, i>>})]
StoreProjectMember(c) ==
    /\ At(c, "upsert_project_member")
    /\ LET done == UpsertProjectMember(op[c].id, op[c].row)
       IN \/ \E new \in done : /\ Writes(c, Put("project_member", new[1], new[2]), NoOp)
                               /\ history' = Late("project_member", new[1], new[2])
          \/ done = {} /\ Fails(c)

UpdateProjectMemberStatus(c) ==
    /\ Calling(c, "update_project_member_status")
    /\ \E actor \in AuthenticatedActorFromHeaders, i \in Ids("project_member"),
          expected \in 1 .. MaxVersion, status \in MembershipStatus :
         /\ ProjectMemberForActor(actor, i)
         /\ AuthorizeServiceAction(actor, "ProjectMemberWrite", InScopeOf(Row("project_member", i)))
         /\ Starts(c, [pc |-> "set_project_member", id |-> i, expected |-> expected, status |-> status])
\* The status alone: an organization that shut the principal out is not asked.
SetProjectMember(c) ==
    /\ At(c, "set_project_member")
    /\ LET done == SetProjectMemberStatus(op[c].id, op[c].expected, op[c].status)
       IN \/ \E row \in done :
               /\ Writes(c, Put("project_member", op[c].id, row),
                         IF row.status = "removed"
                         THEN [pc |-> "delete_project_bindings", member |-> row] ELSE NoOp)
               /\ history' = Late("project_member", op[c].id, row)
          \/ done = {} /\ Fails(c)
DeleteProjectBindings(c) ==
    /\ At(c, "delete_project_bindings")
    /\ LET member == op[c].member
       IN Writes(c, DeleteRoleBindingsForProjectPrincipal(member.tenant, member.project, member.principal),
                 NoOp)
    /\ UNCHANGED history
-----------------------------------------------------------------------------
(* Role bindings                                                           *)

\* validate_scope_shape
ValidateScopeShape(role, org, project) ==
    CASE ScopeKind(role) = "tenant" -> org = None /\ project = None
      [] ScopeKind(role) = "organization" -> org # None /\ project = None
      [] ScopeKind(role) = "project" -> org # None /\ project # None
      [] OTHER -> project # None => org # None
RoleBindingRecord(actor, request) ==
    [tenant |-> actor.tenant, org |-> request.org, project |-> request.project,
     principal |-> request.principal, role |-> request.role, status |-> "active", version |-> 1]
\* role_binding_collection_resource_for_actor
RoleBindingCollectionResource(actor) ==
    Resource(actor.tenant, actor.org, IF actor.org = None THEN None ELSE actor.project)
RoleBindingVisible(binding, collection) ==
    IF collection.project # None THEN binding.project = collection.project
    ELSE collection.org # None => binding.org = collection.org

ListRoleBindings(c) ==
    /\ Calling(c, "list_role_bindings")
    /\ \E actor \in AuthenticatedActorFromHeaders :
         LET collection == RoleBindingCollectionResource(actor)
         IN /\ AuthorizeServiceAction(actor, "RoleBindingRead", collection)
            /\ Answers(c, actor, Rows("binding", {b \in RoleBindingsForTenant(actor.tenant) :
                                                    RoleBindingVisible(Row("binding", b), collection)}))
GetRoleBinding(c) ==
    /\ Calling(c, "get_role_binding")
    /\ \E actor \in AuthenticatedActorFromHeaders, b \in Ids("binding") :
         /\ b \in RoleBindingById(b)
         /\ AuthorizeServiceAction(actor, "RoleBindingRead", InScopeOf(Row("binding", b)))
         /\ Answers(c, actor, Rows("binding", {b}))
CreateRoleBinding(c) ==
    /\ Calling(c, "create_role_binding")
    /\ \E actor \in AuthenticatedActorFromHeaders, request \in Requests.role_binding :
         LET candidate == RoleBindingRecord(actor, request)
             same == EquivalentRoleBinding(candidate)
         IN /\ ValidateScopeShape(request.role, request.org, request.project)
            /\ AuthorizeServiceAction(actor, "RoleBindingWrite", InScopeOf(candidate))
            /\ Starts(c, [pc |-> "upsert_binding", row |-> candidate,
                          id |-> IF same # {} THEN First(same) ELSE request.id])
StoreRoleBinding(c) ==
    /\ At(c, "upsert_binding")
    /\ \E new \in UpsertRoleBinding(op[c].id, op[c].row) :
         /\ Writes(c, Put("binding", new[1], new[2]), NoOp)
         /\ history' = Late("binding", new[1], new[2])
UpdateRoleBindingStatus(c) ==
    /\ Calling(c, "update_role_binding_status")
    /\ \E actor \in AuthenticatedActorFromHeaders, b \in Ids("binding"),
          expected \in 1 .. MaxVersion, status \in RoleBindingStatus :
         /\ b \in RoleBindingById(b)
         /\ AuthorizeServiceAction(actor, "RoleBindingWrite", InScopeOf(Row("binding", b)))
         /\ Starts(c, [pc |-> "set_binding", id |-> b, expected |-> expected, status |-> status])
SetRoleBinding(c) ==
    /\ At(c, "set_binding")
    /\ LET done == SetRoleBindingStatus(op[c].id, op[c].expected, op[c].status)
       IN \/ \E row \in done : /\ Writes(c, Put("binding", op[c].id, row), NoOp)
                               /\ history' = Late("binding", op[c].id, row)
          \/ done = {} /\ Fails(c)
-----------------------------------------------------------------------------
(* Invitations                                                             *)

\* Each token is new: the number of invitations made so far stands for it.
InvitationRecord(actor, request) ==
    [tenant |-> actor.tenant, org |-> request.org, project |-> request.project,
     email |-> request.email, principal |-> request.principal, token |-> history.tokens + 1,
     status |-> "pending", expires |-> request.expires, version |-> 1]
\* One target, an email or a user, and time left.
ValidateOrganizationInvitation(request) ==
    /\ (request.email = None) # (request.principal = None)
    /\ request.expires > clock

ListOrganizationInvitations(c) ==
    /\ Calling(c, "list_organization_invitations")
    /\ \E actor \in AuthenticatedActorFromHeaders, org \in Organizations :
         /\ AuthorizeServiceAction(actor, "OrganizationInvitationRead", OrganizationScopeResource(actor, org))
         /\ Answers(c, actor, Rows("invitation", OrganizationInvitations(actor.tenant, org)))
\* organization_invitation_for_actor
OrganizationInvitationForActor(actor, i) ==
    i \in OrganizationInvitationById(i) \cap Named("invitation", actor)
GetOrganizationInvitation(c) ==
    /\ Calling(c, "get_organization_invitation")
    /\ \E actor \in AuthenticatedActorFromHeaders, i \in Ids("invitation") :
         /\ OrganizationInvitationForActor(actor, i)
         /\ AuthorizeServiceAction(actor, "OrganizationInvitationRead", InOrganizationOf(Row("invitation", i)))
         /\ Answers(c, actor, Rows("invitation", {i}))
CreateOrganizationInvitation(c) ==
    /\ Calling(c, "create_organization_invitation")
    /\ \E actor \in AuthenticatedActorFromHeaders, request \in Requests.invitation :
         /\ AuthorizeServiceAction(actor, "OrganizationInvitationCreate",
                                   OrganizationScopeResource(actor, request.org))
         /\ ValidateOrganizationInvitation(request)
         /\ op' = [op EXCEPT ![c] = [pc |-> "insert_invitation", id |-> request.id,
                                     row |-> InvitationRecord(actor, request)]]
         /\ history' = [history EXCEPT !.requests = @ + 1, !.tokens = @ + 1]
         /\ answer' = Nobody
         /\ UNCHANGED <<db, clock, scenario>>
InsertInvitation(c) ==
    /\ At(c, "insert_invitation")
    /\ LET done == InsertOrganizationInvitation(op[c].id, op[c].row)
       IN \/ \E row \in done : Writes(c, Put("invitation", op[c].id, row), NoOp) /\ UNCHANGED history
          \/ done = {} /\ Fails(c)
RevokeOrganizationInvitation(c) ==
    /\ Calling(c, "revoke_organization_invitation")
    /\ \E actor \in AuthenticatedActorFromHeaders, i \in Ids("invitation"), expected \in 1 .. MaxVersion :
         /\ OrganizationInvitationForActor(actor, i)
         /\ AuthorizeServiceAction(actor, "OrganizationInvitationManage", InOrganizationOf(Row("invitation", i)))
         /\ Starts(c, [pc |-> "revoke_invitation", id |-> i, expected |-> expected])
RevokeInvitation(c) ==
    /\ At(c, "revoke_invitation")
    /\ LET done == RevokeOrganizationInvitationById(op[c].id, op[c].expected)
       IN \/ \E row \in done : Writes(c, Put("invitation", op[c].id, row), NoOp) /\ UNCHANGED history
          \/ done = {} /\ Fails(c)
-----------------------------------------------------------------------------
(* Identity providers, secret references and foundation routes             *)

ListOidcIdentityProviders(c) ==
    /\ Calling(c, "list_oidc_identity_providers")
    /\ \E actor \in AuthenticatedActorFromHeaders :
         /\ AuthorizeServiceAction(actor, "IdentityProviderRead", TenantResource(actor.tenant))
         /\ Answers(c, actor, Rows("provider", OidcLoginProvidersForTenant(actor.tenant)))
GetOidcIdentityProvider(c) ==
    /\ Calling(c, "get_oidc_identity_provider")
    /\ \E actor \in AuthenticatedActorFromHeaders, i \in Ids("provider") :
         /\ AuthorizeServiceAction(actor, "IdentityProviderRead", TenantResource(Row("provider", i).tenant))
         /\ Answers(c, actor, Rows("provider", {i}))
\* The provider's secret is a reference of the same tenant.
CreateOidcIdentityProvider(c) ==
    /\ Calling(c, "create_oidc_identity_provider")
    /\ \E actor \in AuthenticatedActorFromHeaders, request \in Requests.provider :
         /\ AuthorizeServiceAction(actor, "IdentityProviderWrite", TenantResource(actor.tenant))
         /\ request.secret # None =>
              /\ request.secret \in SecretRefById(request.secret)
              /\ Row("secret", request.secret).tenant = actor.tenant
         /\ Starts(c, [pc |-> "upsert_provider", id |-> request.id,
                       row |-> [tenant |-> actor.tenant, status |-> request.status,
                                secret |-> request.secret]])
StoreOidcIdentityProvider(c) ==
    /\ At(c, "upsert_provider")
    /\ Writes(c, UpsertOidcLoginProvider(op[c].id, op[c].row), NoOp)
    /\ UNCHANGED history

ListPlatformSecretRefs(c) ==
    /\ Calling(c, "list_platform_secret_refs")
    /\ \E actor \in AuthenticatedActorFromHeaders :
         /\ AuthorizeServiceAction(actor, "SecretRefRead", TenantResource(actor.tenant))
         /\ Answers(c, actor, Rows("secret", SecretRefsForTenant(actor.tenant)))
GetPlatformSecretRef(c) ==
    /\ Calling(c, "get_platform_secret_ref")
    /\ \E actor \in AuthenticatedActorFromHeaders, i \in Ids("secret") :
         /\ AuthorizeServiceAction(actor, "SecretRefRead", TenantResource(Row("secret", i).tenant))
         /\ Answers(c, actor, Rows("secret", {i}))
\* In memory the record is written while the request is read
\* (secret_ref_record_from_create_request), Postgres writes it afterwards.
CreatePlatformSecretRef(c) ==
    /\ Calling(c, "create_platform_secret_ref")
    /\ \E actor \in AuthenticatedActorFromHeaders, request \in Requests.secret :
         /\ AuthorizeServiceAction(actor, "SecretRefWrite", TenantResource(actor.tenant))
         /\ \E row \in SecretRefRecord([tenant |-> actor.tenant, backend |-> request.backend,
                                        status |-> "active"]) :
              IF Postgres THEN Starts(c, [pc |-> "upsert_secret", id |-> request.id, row |-> row])
              ELSE /\ Writes(c, UpsertSecretRef(request.id, row),
                             [pc |-> "upsert_secret", id |-> request.id, row |-> row])
                   /\ history' = [history EXCEPT !.requests = @ + 1]
\* In memory only the owner is left to write, which no route reads.
StoreSecretRef(c) ==
    /\ At(c, "upsert_secret")
    /\ Writes(c, IF Postgres THEN UpsertSecretRef(op[c].id, op[c].row) ELSE db, NoOp)
    /\ UNCHANGED history

\* The foundation routes, by their actions: those that name a resource by id
\* are authorized where its owner is, the others where the actor is.
ResourceRoutes ==
    [Conversation |-> {"ConversationRead"}, AgentSession |-> {"SessionRead"},
     Run |-> {"RunRead", "RunCancel", "RunSteer"}, RunEvent |-> {"RunEventRead"},
     Approval |-> {"ApprovalDecide"}, DeferredTool |-> {"DeferredToolResume"},
     EnvironmentAttachment |-> {"EnvironmentAttachmentHealthRead", "EnvironmentAttachmentRelease"},
     EvidenceArchive |-> {"EvidenceArchiveRead", "EvidenceArchiveDebugRead"}]
\* scope_resource
ScopeResource(actor) ==
    IF actor.org # None /\ actor.project # None THEN Resource(actor.tenant, actor.org, actor.project)
    ELSE TenantResource(actor.tenant)
ResourceOwner(kind, i) == {i} \cap Where("resource", LAMBDA row : row.kind = kind)
BusinessResource(kind, i) == {j \in ResourceOwner(kind, i) : Row("resource", j).stored}
HandleFoundationRequest(c) ==
    /\ Calling(c, "handle_foundation_request")
    /\ \E actor \in AuthenticatedActorFromHeaders :
         \/ \E action \in {"ConversationCreate", "RunCreate", "DeferredToolRead",
                           "EnvironmentAttachmentCreate", "EnvironmentAttachmentRead"} :
              /\ AuthorizeServiceAction(actor, action, ScopeResource(actor))
              /\ Answers(c, actor, {})
         \/ \E kind \in DOMAIN ResourceRoutes, i \in Ids("resource") : \E action \in ResourceRoutes[kind] :
              /\ i \in ResourceOwner(kind, i)
              /\ AuthorizeServiceAction(actor, action, InScopeOf(Row("resource", i)))
              /\ i \in BusinessResource(kind, i)
              /\ Answers(c, actor, Rows("resource", {i}))
=============================================================================
