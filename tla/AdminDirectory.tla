---------------------------- MODULE AdminDirectory ----------------------------
(***************************************************************************)
(* The admin handlers of the directory: organizations, projects, users,    *)
(* their sessions and external identities, memberships, service accounts,  *)
(* API keys and invitations.                                               *)
(*                                                                         *)
(* Rows carry beside their own fields: a session the user it is of and its *)
(* status in Postgres ("durable"), an API key its current secret, a        *)
(* membership of an organization the invitations that made or restored it. *)
(* Sessions, external identities and API keys have no resource_version in  *)
(* the code; the version of an API key's row numbers its secrets.          *)
(***************************************************************************)
EXTENDS AdminState

DirectoryStatus == {"active", "suspended", "disabled", "deleted"}
MembershipStatus == {"active", "suspended", "removed"}

\* The step that follows pc, with a write of the store.
Proceed(a, pc) == op' = [op EXCEPT ![a].pc = pc]
OnlyDirectory ==
    /\ answer' = Nobody
    /\ UNCHANGED <<secrets, idem, records, fixed>>

\* The rows ids of kind k, replaced.
Replaced(k, ids, new(_)) ==
    [db EXCEPT ![k] = [i \in Ids(k) |-> IF i \in ids THEN new(Row(k, i)) ELSE Row(k, i)]]

\* The rows of kind k that belong to user u in the actor's tenant.
OfUser(k, a, u) == {i \in ForTenant(k, a) : Row(k, i).f.user = u}
InOrganization(k, a, org) == {i \in ForTenant(k, a) : Row(k, i).f.org = org}
InProject(k, a, project) == {i \in ForTenant(k, a) : Row(k, i).f.project = project}

\* accepts_access: only an active row does.
AcceptsAccess(k, id) == Row(k, id).status = "active"

\* What a write without a version goes on with.
Touching(k, id, pc) ==
    [pc |-> pc, kind |-> k, id |-> id, before |-> None, after |-> None, then |-> "finish"]
-----------------------------------------------------------------------------
(* Organizations, projects and users                                       *)

ListProjects(a) == Lists(a, "list_projects", "project", ForTenant("project", a))
GetProject(a) == Gets(a, "get_project", "project")
UpdateProject(a) == UpdatesStatus(a, "update_project", "project", DirectoryStatus)
UpdateProjectStatus(a) == CompareAndSet(a, "project")

ListOrganizations(a) ==
    Lists(a, "list_organizations", "organization", ForTenant("organization", a))
GetOrganization(a) == Gets(a, "get_organization", "organization")
UpdateOrganization(a) ==
    UpdatesStatus(a, "update_organization", "organization", DirectoryStatus)
UpdateOrganizationStatus(a) == CompareAndSet(a, "organization")

ListUsers(a) == Lists(a, "list_users", "user", ForTenant("user", a))
GetUser(a) == Gets(a, "get_user", "user")

\* Mistake: only deleting a user signs them out.
SignsOutDeleted(status) == status = "deleted"

\* A user that may no longer come in is signed out.
SignsOut(status) == status # "active"

\* update_user: the status, then the sessions, each under its own lock.
UpdateUser(a) ==
    /\ Mutating(a, "update_user")
    /\ \E u \in Ids("user"), expected \in 1 .. MaxVersion,
          status \in {"active", "disabled", "deleted"} :
         Request(a, "update_user", ForActor("user", a, u), <<"update_user">>, NoKey, u, TRUE,
                 [then |-> IF SignsOut(status) THEN "revoke_sessions" ELSE "finish"]
                   ++ Writing("user", u, expected, NewStatus(status)))
UpdateUserStatus(a) == CompareAndSet(a, "user")
RevokeSessionsForPrincipal(a) ==
    /\ op[a].pc = "revoke_sessions"
    /\ db' = Replaced("session",
                      {s \in OfUser("session", a, op[a].id) : AcceptsAccess("session", s)},
                      LAMBDA row : [row EXCEPT !.status = "revoked"])
    /\ Proceed(a, "finish")
    /\ OnlyDirectory
-----------------------------------------------------------------------------
(* A user's sessions and external identities                               *)

ListUserSessions(a) ==
    \E u \in Ids("user") :
        /\ ForActor("user", a, u)
        /\ Lists(a, "list_user_sessions", "session",
                 {s \in OfUser("session", a, u) : Row("session", s).status # "absent"})

\* revoke_user_session: the copy in Postgres is left alone.
RevokeUserSession(a) ==
    /\ Mutating(a, "revoke_user_session")
    /\ \E s \in Ids("session") :
         Request(a, "revoke_user_session",
                 ForActor("session", a, s) /\ Row("session", s).status # "absent",
                 <<"revoke_user_session">>, NoKey, s, TRUE,
                 Touching("session", s, "revoke_session"))
RevokeSessionForPrincipal(a) ==
    /\ op[a].pc = "revoke_session"
    /\ db' = [db EXCEPT !["session"][op[a].id].status = "revoked"]
    /\ Proceed(a, "finish")
    /\ OnlyDirectory

ListUserExternalIdentities(a) ==
    \E u \in Ids("user") :
        /\ ForActor("user", a, u)
        /\ Lists(a, "list_user_external_identities", "external_identity",
                 OfUser("external_identity", a, u))
GetUserExternalIdentity(a) ==
    /\ Calling(a, "get_user_external_identity")
    /\ \E u \in Ids("user") : \E i \in OfUser("external_identity", a, u) :
         ForActor("user", a, u) /\ Reads(a, {<<"external_identity", i>>})
UnlinkUserExternalIdentity(a) ==
    /\ Mutating(a, "unlink_user_external_identity")
    /\ \E i \in Ids("external_identity") :
         Request(a, "unlink_user_external_identity", ForActor("external_identity", a, i),
                 <<"unlink_user_external_identity">>, NoKey, i, TRUE,
                 Touching("external_identity", i, "unlink"))
UnlinkExternalIdentity(a) ==
    /\ op[a].pc = "unlink"
    /\ db' = [db EXCEPT !["external_identity"][op[a].id].status = "deleted"]
    /\ Proceed(a, "finish")
    /\ OnlyDirectory
-----------------------------------------------------------------------------
(* Memberships                                                             *)

ListOrganizationMembers(a) ==
    \E org \in Ids("organization") :
        /\ ForActor("organization", a, org)
        /\ Lists(a, "list_organization_members", "organization_member",
                 InOrganization("organization_member", a, org))
GetOrganizationMember(a) == Gets(a, "get_organization_member", "organization_member")

\* update_organization_member: the status, then the cascade over the user's
\* memberships of the organization's projects.
UpdateOrganizationMember(a) ==
    /\ Mutating(a, "update_organization_member")
    /\ \E i \in Ids("organization_member"), expected \in 1 .. MaxVersion,
          status \in MembershipStatus :
         Request(a, "update_organization_member", ForActor("organization_member", a, i),
                 <<"update_organization_member">>, NoKey, i, TRUE,
                 [then |-> "cascade"]
                   ++ Writing("organization_member", i, expected, NewStatus(status)))
UpdateOrganizationMemberStatus(a) == CompareAndSet(a, "organization_member")

\* cascade_project_memberships_for_organization_member: activation restores
\* nothing, suspension leaves removed memberships alone.
CascadeProjectMemberships(a) ==
    /\ op[a].pc = "cascade"
    /\ LET status == op[a].patch.status
           member == Row("organization_member", op[a].id)
           reached == {i \in InOrganization("project_member", a, member.f.org) :
                         /\ Row("project_member", i).f.user = member.f.user
                         /\ \/ status = "suspended" /\ AcceptsAccess("project_member", i)
                            \/ status = "removed" /\ Row("project_member", i).status # "removed"}
       IN db' = Replaced("project_member", reached, LAMBDA row : Patched(row, NewStatus(status)))
    /\ Proceed(a, "finish")
    /\ OnlyDirectory

ListProjectMembers(a) ==
    \E project \in Ids("project") :
        /\ ForActor("project", a, project)
        /\ Lists(a, "list_project_members", "project_member",
                 InProject("project_member", a, project))
GetProjectMember(a) == Gets(a, "get_project_member", "project_member")

\* Mistake: a membership takes any status of the directory.
UpdateProjectMemberOfAnyStatus(a) ==
    UpdatesStatus(a, "update_project_member", "project_member", DirectoryStatus)

UpdateProjectMember(a) ==
    UpdatesStatus(a, "update_project_member", "project_member", MembershipStatus)
UpdateProjectMemberStatus(a) == CompareAndSet(a, "project_member")

\* active_organization_member_for_project_assignment.
ActiveOrganizationMember(a, org, u, i) ==
    /\ ForActor("organization_member", a, i)
    /\ AcceptsAccess("organization_member", i)
    /\ Row("organization_member", i).f.org = org
    /\ Row("organization_member", i).f.user = u

\* create_project_member: all checks come before authorization and replay.
CreateProjectMember(a) ==
    /\ Mutating(a, "create_project_member")
    /\ \E p \in Ids("project"), u \in Ids("user"), i \in Ids("organization_member"),
          key \in Keys :
         Request(a, "create_project_member",
                 /\ ForActor("project", a, p) /\ AcceptsAccess("project", p)
                 /\ ForActor("user", a, u) /\ AcceptsAccess("user", u)
                 /\ ActiveOrganizationMember(a, Row("project", p).f.org, u, i),
                 <<"create_project_member", p>>, key, <<u, i>>, TRUE,
                 [project |-> p, user |-> u, member |-> i]
                   ++ Touching("project_member", None, "store_project_member"))

ProjectMemberOf(u, p) ==
    {i \in Ids("project_member") : /\ Row("project_member", i).f.user = u
                                   /\ Row("project_member", i).f.project = p}

NewProjectMember(p, u, member) ==
    NewRow(Row("project", p).tenant,
           [org |-> Row("project", p).f.org, project |-> p, user |-> u, member |-> member,
            durable |-> "none"], "active")

\* create_project_membership: a membership that is there is restored.
CreateProjectMembership(a) ==
    /\ op[a].pc = "store_project_member"
    /\ LET there == ProjectMemberOf(op[a].user, op[a].project)
           stale == {i \in there : \/ ~ AcceptsAccess("project_member", i)
                                   \/ Row("project_member", i).f.member # op[a].member}
           id == IF there = {} THEN Len(db["project_member"]) + 1
                 ELSE CHOOSE i \in there : TRUE
       IN /\ db' = IF there = {}
                   THEN [db EXCEPT !["project_member"] =
                           Append(@, NewProjectMember(op[a].project, op[a].user, op[a].member))]
                   ELSE Replaced("project_member", stale,
                                 LAMBDA row : Patched(row, [status |-> "active",
                                                            f |-> [member |-> op[a].member]]))
          /\ op' = [op EXCEPT ![a].pc = "finish", ![a].id = id,
                              ![a].after = db'["project_member"][id].version]
    /\ OnlyDirectory
-----------------------------------------------------------------------------
(* Service accounts                                                        *)

ListServiceAccounts(a) ==
    Lists(a, "list_service_accounts", "service_account", ForTenant("service_account", a))
GetServiceAccount(a) == Gets(a, "get_service_account", "service_account")

\* The organization and the project a principal's scope names: at least one, of
\* the tenant, the project in the organization.
ScopedRequest(t, r) ==
    /\ r.shape
    /\ r.org # None \/ r.project # None
    /\ OptionalProjectScope(t, r.org, r.project)

ValidateServiceAccountRequest(t, r) == ScopedRequest(t, r)
CreateServiceAccount(a) ==
    /\ Mutating(a, "create_service_account")
    /\ \E r \in Requests["service_account"] :
         Creates(a, "create_service_account", "service_account", r, TRUE,
                 ValidateServiceAccountRequest(TenantOf[a], r),
                 NewRow(TenantOf[a],
                        [org |-> InferredOrganization(TenantOf[a], r.org, r.project),
                         project |-> r.project], "active"))
StoreServiceAccount(a) == InsertRow(a, "service_account")
UpdateServiceAccount(a) ==
    UpdatesStatus(a, "update_service_account", "service_account",
                  {"active", "disabled", "deleted"})
UpdateServiceAccountStatus(a) == CompareAndSet(a, "service_account")
-----------------------------------------------------------------------------
(* API keys                                                                *)

ListApiKeys(a) == Lists(a, "list_api_keys", "api_key", ForTenant("api_key", a))
GetApiKeyAdmin(a) == Gets(a, "get_api_key", "api_key")

\* validate_api_key_owner: a user or a service account of the tenant.
ApiKeyOwner(t, owner) == owner[2] \in Ids(owner[1]) /\ Row(owner[1], owner[2]).tenant = t
ValidateApiKeyAdminRecord(t, r) == ScopedRequest(t, r) /\ ApiKeyOwner(t, r.owner)

\* The record of an API key: its secret is known by a number.
ApiKeyRecord(t, r) ==
    NewRow(t, [org |-> r.org, project |-> r.project, owner |-> r.owner, expires |-> r.expires,
               secret |-> 1], "active")
CreateApiKeyAdmin(a) ==
    /\ Mutating(a, "create_api_key")
    /\ \E r \in Requests["api_key"] :
         Creates(a, "create_api_key", "api_key", r, TRUE,
                 ValidateApiKeyAdminRecord(TenantOf[a], r), ApiKeyRecord(TenantOf[a], r))
CreateApiKeyRecord(a) == InsertRow(a, "api_key")

\* rotate_api_key_admin works on the copy of the record it has read.
RotateApiKeyAdmin(a) ==
    /\ Mutating(a, "rotate_api_key")
    /\ \E id \in Ids("api_key"), key \in Keys :
         Request(a, "rotate_api_key", TRUE, <<"rotate_api_key">>, key, id,
                 ForActor("api_key", a, id),
                 [copy |-> Row("api_key", id).f] ++ Touching("api_key", id, "replace_secret"))

\* replace_api_key_secret: the copy, active and with a new secret, replaces the
\* record (rotate_api_key_secret).
ReplaceApiKeySecret(a) ==
    /\ op[a].pc = "replace_secret"
    /\ db' = [db EXCEPT !["api_key"][op[a].id] =
                Patched(@, [status |-> "active", f |-> [secret |-> @.version + 1] ++ op[a].copy])]
    /\ Proceed(a, "finish")
    /\ OnlyDirectory

DisableApiKeyAdmin(a) ==
    /\ Mutating(a, "disable_api_key")
    /\ \E id \in Ids("api_key"), key \in Keys :
         Request(a, "disable_api_key", TRUE, <<"disable_api_key">>, key, id,
                 ForActor("api_key", a, id), Touching("api_key", id, "disable_key"))

\* update_api_key_status, and the copy it returns.
UpdateApiKeyStatus(a) ==
    /\ op[a].pc = "disable_key"
    /\ db' = [db EXCEPT !["api_key"][op[a].id] = Patched(@, NewStatus("disabled"))]
    /\ op' = [op EXCEPT ![a] = [copy |-> Row("api_key", op[a].id).f, pc |-> "reinsert_key"] ++ @]
    /\ OnlyDirectory

\* insert_api_key: update_api_key_status_for_state puts the copy back.  In the
\* memory store this overwrites what happened since; with Postgres it only
\* refreshes a copy that nobody reads.
InsertApiKey(a) ==
    /\ op[a].pc = "reinsert_key"
    /\ db' = IF scenario.postgres THEN db
             ELSE [db EXCEPT !["api_key"][op[a].id] =
                     Patched(@, [status |-> "disabled", f |-> op[a].copy])]
    /\ Proceed(a, "finish")
    /\ OnlyDirectory
-----------------------------------------------------------------------------
(* Invitations                                                             *)

ListOrganizationInvitations(a) ==
    /\ Calling(a, "list_organization_invitations")
    /\ \E org \in Ids("organization") :
         /\ ForActor("organization", a, org)
         /\ Reads(a, {<<"invitation", i>> : i \in InOrganization("invitation", a, org)})
GetOrganizationInvitation(a) == Gets(a, "get_organization_invitation", "invitation")

\* organization_invitation_validation_errors: exactly one of email and user, a
\* project of the organization that accepts access, an expiry to come.
OrganizationInvitationValidation(a, org, r, now) ==
    /\ r.shape
    /\ (r.email = None) # (r.user = None)
    /\ r.expires > now
    /\ r.project # None =>
         /\ ForActor("project", a, r.project)
         /\ Row("project", r.project).f.org = org
         /\ AcceptsAccess("project", r.project)

CreateOrganizationInvitation(a) ==
    /\ Mutating(a, "create_organization_invitation")
    /\ \E org \in Ids("organization"), r \in Requests["invitation"], key \in Keys :
         Request(a, "create_organization_invitation",
                 ForActor("organization", a, org) /\ AcceptsAccess("organization", org),
                 <<"create_organization_invitation", org>>, key, r,
                 OrganizationInvitationValidation(a, org, r, clock),
                 Inserting("invitation",
                           NewRow(TenantOf[a],
                                  [org |-> org, project |-> r.project, email |-> r.email,
                                   user |-> r.user, expires |-> r.expires], "pending")))
StoreOrganizationInvitation(a) == InsertRow(a, "invitation")

\* revoke_organization_invitation: the version the client saw, still pending.
RevokeOrganizationInvitation(a) ==
    /\ Mutating(a, "revoke_organization_invitation")
    /\ \E i \in Ids("invitation"), expected \in 1 .. MaxVersion :
         Request(a, "revoke_organization_invitation", ForActor("invitation", a, i),
                 <<"revoke_organization_invitation">>, NoKey, i, TRUE,
                 Writing("invitation", i, expected, NewStatus("revoked")))
RevokeInvitation(a) ==
    \/ op[a].pc = "write" /\ op[a].kind = "invitation"
         /\ Row("invitation", op[a].id).status = "pending"
         /\ CompareAndSet(a, "invitation")
    \/ op[a].pc = "write" /\ op[a].kind = "invitation"
         /\ Row("invitation", op[a].id).status # "pending"
         /\ op' = [op EXCEPT ![a] = NoOp]
         /\ UNCHANGED db
         /\ OnlyDirectory
=============================================================================
