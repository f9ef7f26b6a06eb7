----------------------------- MODULE PlatformStore ----------------------------
(***************************************************************************)
(* What the platform service stores and the operations it stores it with.  *)
(* The service runs on one of two repositories, the in-memory stores       *)
(* (user.rs, auth.rs, membership.rs, role.rs, invitation.rs, identity.rs,  *)
(* secret.rs) or Postgres (postgres.rs), and service.rs picks one on every *)
(* call.  An operation both repositories have is three definitions: the    *)
(* one of memory, the SQL statement, and the choice.                       *)
(*                                                                         *)
(* db[k] is the table of kind k: a sequence of rows, a row's id being its  *)
(* place.  A row whose status is "absent" is an id nobody has used.  A     *)
(* write returns the set of rows it leaves: none when it is refused.       *)
(*                                                                         *)
(* None stands for an optional field that is not set.                      *)
(***************************************************************************)
EXTENDS Integers, Sequences, FiniteSets, TLC

CONSTANTS
    Clients,      \* requests in flight at once
    Seed,         \* the rows the service starts with
    Scenarios,    \* what a behaviour exercises: routes, requests, repository
    Requests,     \* the request bodies tried, by route
    Personal,     \* the ids a subject's first login creates
    SingleUser,   \* the same for the single user
    AttemptTtl,   \* OIDC_LOGIN_ATTEMPT_TTL_SECONDS
    MaxVersion    \* expected versions tried

VARIABLES
    db,           \* the tables
    op,           \* per client: the handler it is in, and what that holds
    answer,       \* what the last read was answered with
    clock,        \* the wall clock
    history,      \* what happened, for the properties only
    scenario      \* one of Scenarios, fixed

vars == <<db, op, answer, clock, history, scenario>>

None == 0
UserStatus == {"active", "disabled", "deleted"}
AuthSessionStatus == {"active", "revoked", "expired", "principal_disabled"}
MembershipStatus == {"active", "suspended", "removed"}
RoleBindingStatus == {"active", "disabled", "deleted"}
InvitationStatus == {"pending", "accepted", "revoked", "expired"}
ExternalIdentityStatus == {"active", "disabled", "deleted"}
LoginAttemptStatus == {"active", "consumed", "expired", "abandoned"}

Postgres == scenario.postgres

Row(k, i) == db[k][i]
Ids(k) == {i \in DOMAIN db[k] : Row(k, i).status # "absent"}
Where(k, P(_)) == {i \in Ids(k) : P(Row(k, i))}
\* An id nobody has used (new_prefixed_id, or one the client thought of).
Unused(k) == DOMAIN db[k] \ Ids(k)
\* The first of several, in the order of their ids.
First(ids) == CHOOSE i \in ids : \A j \in ids : i <= j
NewId(k) == First(Unused(k))

Put(k, i, row) == [db EXCEPT ![k][i] = row]
PutAll(k, ids, new(_)) ==
    [db EXCEPT ![k] = [i \in DOMAIN @ |-> IF i \in ids THEN new(@[i]) ELSE @[i]]]
Provided(condition, row) == IF condition THEN {row} ELSE {}
Bumped(row, status) == [row EXCEPT !.status = status, !.version = @ + 1]
-----------------------------------------------------------------------------
(* Users                                                                   *)

\* accepts_access: only an active user may come in.
AcceptsAccess(user) == user.status = "active"

UsersForTenantMemory(t) == Where("user", LAMBDA u : u.tenant = t /\ u.status # "deleted")
ListPlatformUsersSql(t) == Where("user", LAMBDA u : u.tenant = t /\ u.status # "deleted")
UsersForTenant(t) == IF Postgres THEN ListPlatformUsersSql(t) ELSE UsersForTenantMemory(t)

UserMemory(u) == {u} \cap Where("user", LAMBDA row : row.status # "deleted")
SelectPlatformUserSql(u) == {u} \cap Where("user", LAMBDA row : row.status # "deleted")
PlatformUserById(u) == IF Postgres THEN SelectPlatformUserSql(u) ELSE UserMemory(u)

UserIncludingDeleted(u) == {u} \cap Ids("user")
SelectPlatformUserIncludingDeletedSql(u) == {u} \cap Ids("user")
PlatformUserByIdIncludingDeleted(u) ==
    IF Postgres THEN SelectPlatformUserIncludingDeletedSql(u) ELSE UserIncludingDeleted(u)

\* ensure_user_can_login: a user nobody has seen may log in.
EnsureUserCanLogin(u) ==
    \A i \in PlatformUserByIdIncludingDeleted(u) : AcceptsAccess(Row("user", i))

UpdateUserStatusMemory(u, expected, status) ==
    Provided(/\ expected >= 1
             /\ Row("user", u).status \notin {"absent", "deleted"}
             /\ Row("user", u).version = expected,
             Bumped(Row("user", u), status))
UpdatePlatformUserStatusSql(u, expected, status) ==
    Provided(/\ Row("user", u).status \notin {"absent", "deleted"}
             /\ Row("user", u).version = expected,
             Bumped(Row("user", u), status))
SetPlatformUserStatus(u, expected, status) ==
    IF Postgres THEN UpdatePlatformUserStatusSql(u, expected, status)
                ELSE UpdateUserStatusMemory(u, expected, status)
-----------------------------------------------------------------------------
(* Sessions.  A session's token is the session's id here.                  *)

\* active_session_record
ActiveSessionRecord(session) == session.status = "active"
AuthSessionForBearer(s) == {s} \cap Where("session", ActiveSessionRecord)
SelectAuthSessionByTokenSql(s) == {s} \cap Where("session", ActiveSessionRecord)

SessionsForPrincipalMemory(t, u) ==
    Where("session", LAMBDA s : s.tenant = t /\ s.principal = u)
ListAuthSessionsForPrincipalSql(t, u) ==
    Where("session", LAMBDA s : s.tenant = t /\ s.principal = u)
AuthSessionsForPrincipal(t, u) ==
    IF Postgres THEN ListAuthSessionsForPrincipalSql(t, u) ELSE SessionsForPrincipalMemory(t, u)
AuthSessionById(s) == {s} \cap Ids("session")

RevokeAuthSessionByBearer(s) ==
    {[row EXCEPT !.status = "revoked"] : row \in {Row("session", i) : i \in AuthSessionForBearer(s)}}
RevokeAuthSessionByTokenSql(s) ==
    {[row EXCEPT !.status = "revoked"] : row \in {Row("session", i) : i \in {s} \cap
        Where("session", LAMBDA session : session.status = "active")}}
RevokeAuthSession(s) ==
    IF Postgres THEN RevokeAuthSessionByTokenSql(s) ELSE RevokeAuthSessionByBearer(s)

RevokeAuthSessionByIdMemory(s) ==
    Provided(ActiveSessionRecord(Row("session", s)), [Row("session", s) EXCEPT !.status = "revoked"])
\* The statement also names the user the session is of.
RevokeAuthSessionByIdSql(s, t, u) ==
    Provided(/\ ActiveSessionRecord(Row("session", s))
             /\ Row("session", s).tenant = t /\ Row("session", s).principal = u,
             [Row("session", s) EXCEPT !.status = "revoked"])
RevokeAuthSessionById(s, t, u) ==
    IF Postgres THEN RevokeAuthSessionByIdSql(s, t, u) ELSE RevokeAuthSessionByIdMemory(s)

\* Mistake: a session gets the status its user got.
DisableSessionsAsUsers(t, u) ==
    PutAll("session",
           Where("session", LAMBDA s : s.tenant = t /\ s.principal = u /\ s.status = "active"),
           LAMBDA s : [s EXCEPT !.status = "disabled"])
DisableAuthSessionsMemory(t, u) ==
    PutAll("session",
           Where("session", LAMBDA s : s.tenant = t /\ s.principal = u /\ s.status = "active"),
           LAMBDA s : [s EXCEPT !.status = "principal_disabled"])
DisableAuthSessionsForPrincipalSql(t, u) ==
    PutAll("session",
           Where("session", LAMBDA s : s.tenant = t /\ s.principal = u /\ s.status = "active"),
           LAMBDA s : [s EXCEPT !.status = "principal_disabled"])
DisableAuthSessionsForPrincipal(t, u) ==
    IF Postgres THEN DisableAuthSessionsForPrincipalSql(t, u) ELSE DisableAuthSessionsMemory(t, u)

UpdateAuthSessionContextByBearer(s, org, project) ==
    Provided(ActiveSessionRecord(Row("session", s)),
             [Row("session", s) EXCEPT !.org = org, !.project = project])
UpdateAuthSessionContextByTokenSql(s, org, project) ==
    Provided(Row("session", s).status = "active",
             [Row("session", s) EXCEPT !.org = org, !.project = project])
UpdateAuthSessionContext(s, org, project) ==
    IF Postgres THEN UpdateAuthSessionContextByTokenSql(s, org, project)
                ELSE UpdateAuthSessionContextByBearer(s, org, project)

RecordAuthSessionMemory(i, session) == Put("session", i, session)
RecordAuthSessionSql(i, session) == Put("session", i, session)
RecordAuthSession(i, session) ==
    IF Postgres THEN RecordAuthSessionSql(i, session) ELSE RecordAuthSessionMemory(i, session)
-----------------------------------------------------------------------------
(* Bearer credentials and mTLS identities: seeded, never written by a      *)
(* handler.                                                                *)

BearerCredentialMemory(i) ==
    {i} \cap Where("credential", LAMBDA row : row.via = "bearer" /\ row.status = "active")
SelectBearerCredentialSql(i) ==
    {i} \cap Where("credential", LAMBDA row : row.via = "bearer" /\ row.status = "active")
MtlsIdentityMemory(i) ==
    {i} \cap Where("credential", LAMBDA row : row.via = "mtls" /\ row.status = "active")
SelectMtlsIdentitySql(i) ==
    {i} \cap Where("credential", LAMBDA row : row.via = "mtls" /\ row.status = "active")
-----------------------------------------------------------------------------
(* Memberships                                                             *)

OrganizationMembersForOrganizationMemory(org) ==
    Where("org_member", LAMBDA row : row.org = org)
ListOrganizationMembersSql(org) == Where("org_member", LAMBDA row : row.org = org)
OrganizationMembersForOrganization(org) ==
    IF Postgres THEN ListOrganizationMembersSql(org)
                ELSE OrganizationMembersForOrganizationMemory(org)
OrganizationMemberMemory(i) == {i} \cap Ids("org_member")
SelectOrganizationMemberSql(i) == {i} \cap Ids("org_member")
OrganizationMemberById(i) ==
    IF Postgres THEN SelectOrganizationMemberSql(i) ELSE OrganizationMemberMemory(i)

ProjectMembersForProjectMemory(project) ==
    Where("project_member", LAMBDA row : row.project = project)
ListProjectMembersSql(project) == Where("project_member", LAMBDA row : row.project = project)
ProjectMembersForProject(project) ==
    IF Postgres THEN ListProjectMembersSql(project) ELSE ProjectMembersForProjectMemory(project)
ProjectMemberMemory(i) == {i} \cap Ids("project_member")
SelectProjectMemberSql(i) == {i} \cap Ids("project_member")
ProjectMemberById(i) ==
    IF Postgres THEN SelectProjectMemberSql(i) ELSE ProjectMemberMemory(i)

UpdateOrganizationMemberStatusMemory(i, expected, status) ==
    Provided(Row("org_member", i).version = expected, Bumped(Row("org_member", i), status))
UpdateOrganizationMemberStatusSql(i, expected, status) ==
    Provided(Row("org_member", i).version = expected, Bumped(Row("org_member", i), status))
SetOrganizationMemberStatus(i, expected, status) ==
    IF Postgres THEN UpdateOrganizationMemberStatusSql(i, expected, status)
                ELSE UpdateOrganizationMemberStatusMemory(i, expected, status)

UpdateProjectMemberStatusMemory(i, expected, status) ==
    Provided(Row("project_member", i).version = expected, Bumped(Row("project_member", i), status))
UpdateProjectMemberStatusSql(i, expected, status) ==
    Provided(Row("project_member", i).version = expected, Bumped(Row("project_member", i), status))
SetProjectMemberStatus(i, expected, status) ==
    IF Postgres THEN UpdateProjectMemberStatusSql(i, expected, status)
                ELSE UpdateProjectMemberStatusMemory(i, expected, status)

OrganizationMembershipRecord(t, org, u, kind) ==
    [tenant |-> t, org |-> org, principal |-> u, kind |-> kind, status |-> "active", version |-> 1]
ProjectMembershipRecord(t, org, project, u, member, kind) ==
    [tenant |-> t, org |-> org, project |-> project, principal |-> u, member |-> member,
     kind |-> kind, status |-> "active", version |-> 1]

\* The user's membership of the organization is found again by its three ids;
\* else the row with the requested id is written, used or not.
UpsertOrganizationMemberMemory(i, new) ==
    LET mine == Where("org_member", LAMBDA row : /\ row.tenant = new.tenant
                                                  /\ row.org = new.org
                                                  /\ row.principal = new.principal)
    IN IF mine = {} THEN {<<i, new>>}
       ELSE {<<m, IF Row("org_member", m).status = "active" /\ Row("org_member", m).kind = new.kind
                  THEN Row("org_member", m)
                  ELSE [Bumped(Row("org_member", m), "active") EXCEPT !.kind = new.kind]>> :
                m \in {First(mine)}}
\* ON CONFLICT (organization_id, principal_id); an id in use is refused.
UpsertOrganizationMemberSql(i, new) ==
    LET mine == Where("org_member", LAMBDA row : row.org = new.org /\ row.principal = new.principal)
    IN IF mine = {} THEN Provided(i \in Unused("org_member"), <<i, new>>)
       ELSE {<<m, [Bumped(Row("org_member", m), "active")
                     EXCEPT !.kind = new.kind, !.tenant = new.tenant]>> : m \in {First(mine)}}
UpsertOrganizationMember(i, new) ==
    IF Postgres THEN UpsertOrganizationMemberSql(i, new) ELSE UpsertOrganizationMemberMemory(i, new)
UpsertInvitedOrganizationMemberSql(i, new) ==
    LET mine == Where("org_member", LAMBDA row : row.org = new.org /\ row.principal = new.principal)
    IN IF mine = {} THEN Provided(i \in Unused("org_member"), <<i, new>>)
       ELSE {<<m, [Bumped(Row("org_member", m), "active") EXCEPT !.kind = new.kind]>> : m \in {First(mine)}}

\* In memory a membership is found by project and principal alone, and keeps
\* its tenant and organization.
UpsertProjectMemberMemory(i, new) ==
    LET mine == Where("project_member", LAMBDA row : /\ row.project = new.project
                                                      /\ row.principal = new.principal)
        kept(row) == row.status = "active" /\ row.kind = new.kind /\ row.member = new.member
    IN IF mine = {} THEN {<<i, new>>}
       ELSE {<<m, IF kept(Row("project_member", m)) THEN Row("project_member", m)
                  ELSE [Bumped(Row("project_member", m), "active")
                          EXCEPT !.kind = new.kind, !.member = new.member]>> : m \in {First(mine)}}
UpsertProjectMemberSql(i, new) ==
    LET mine == Where("project_member", LAMBDA row : /\ row.project = new.project
                                                      /\ row.principal = new.principal)
    IN IF mine = {} THEN Provided(i \in Unused("project_member"), <<i, new>>)
       ELSE {<<m, [new EXCEPT !.version = Row("project_member", m).version + 1]>> : m \in {First(mine)}}
UpsertProjectMember(i, new) ==
    IF Postgres THEN UpsertProjectMemberSql(i, new) ELSE UpsertProjectMemberMemory(i, new)
UpsertInvitedProjectMemberSql(i, new) ==
    LET mine == Where("project_member", LAMBDA row : /\ row.project = new.project
                                                      /\ row.principal = new.principal)
    IN IF mine = {} THEN Provided(i \in Unused("project_member"), <<i, new>>)
       ELSE {<<m, [Bumped(Row("project_member", m), "active")
                     EXCEPT !.kind = new.kind, !.member = new.member]>> : m \in {First(mine)}}

\* Mistake: suspending a member of the organization leaves the projects alone.
CascadesRemovalOnly(row, status) == status = "removed" /\ row.status # "removed"

\* Which of the principal's project memberships follow the organization's.
CascadeTakes(row, status) ==
    \/ status = "suspended" /\ row.status = "active"
    \/ status = "removed" /\ row.status # "removed"
CascadeMemory(member, status) ==
    PutAll("project_member",
           Where("project_member", LAMBDA row : /\ row.tenant = member.tenant
                                                 /\ row.org = member.org
                                                 /\ row.principal = member.principal
                                                 /\ CascadeTakes(row, status)),
           LAMBDA row : Bumped(row, status))
CascadeProjectMembersSql(member, status) ==
    PutAll("project_member",
           Where("project_member", LAMBDA row : /\ row.tenant = member.tenant
                                                 /\ row.org = member.org
                                                 /\ row.principal = member.principal
                                                 /\ CascadeTakes(row, status)),
           LAMBDA row : Bumped(row, status))
CascadeProjectMemberships(member, status) ==
    IF Postgres THEN CascadeProjectMembersSql(member, status) ELSE CascadeMemory(member, status)
-----------------------------------------------------------------------------
(* Role bindings                                                           *)

RoleBindingsForTenantMemory(t) ==
    Where("binding", LAMBDA row : row.tenant = t /\ row.status # "deleted")
ListRoleBindingsSql(t) == Where("binding", LAMBDA row : row.tenant = t /\ row.status # "deleted")
RoleBindingsForTenant(t) ==
    IF Postgres THEN ListRoleBindingsSql(t) ELSE RoleBindingsForTenantMemory(t)

ActiveRoleBindingsMemory(t, u) ==
    Where("binding", LAMBDA row : row.tenant = t /\ row.principal = u /\ row.status = "active")
ListActiveRoleBindingsForPrincipalSql(t, u) ==
    Where("binding", LAMBDA row : row.tenant = t /\ row.principal = u /\ row.status = "active")
ActiveRoleBindingsForPrincipal(t, u) ==
    IF Postgres THEN ListActiveRoleBindingsForPrincipalSql(t, u) ELSE ActiveRoleBindingsMemory(t, u)

RoleBindingMemory(i) == {i} \cap Ids("binding")
SelectRoleBindingSql(i) == {i} \cap Where("binding", LAMBDA row : row.status # "deleted")
RoleBindingById(i) ==
    IF Postgres THEN SelectRoleBindingSql(i)
                ELSE {b \in RoleBindingMemory(i) : Row("binding", b).status # "deleted"}

SameGrant(left, right) ==
    /\ left.tenant = right.tenant /\ left.org = right.org /\ left.project = right.project
    /\ left.principal = right.principal /\ left.role = right.role
\* equivalent_role_binding
EquivalentRoleBinding(new) ==
    {b \in RoleBindingsForTenant(new.tenant) : SameGrant(Row("binding", b), new)}

UpsertRoleBindingMemory(i, new) ==
    LET same == Where("binding", LAMBDA row : SameGrant(row, new))
    IN IF same = {} THEN {<<i, new>>}
       ELSE {<<b, IF Row("binding", b).status = "active" THEN Row("binding", b)
                  ELSE Bumped(Row("binding", b), "active")>> : b \in {First(same)}}
\* ON CONFLICT (role_binding_id): the row with the id becomes the new binding.
UpsertRoleBindingSql(i, new) ==
    {<<i, [new EXCEPT !.version = IF i \in Unused("binding") THEN 1 ELSE Row("binding", i).version + 1]>>}
UpsertRoleBinding(i, new) ==
    IF Postgres THEN UpsertRoleBindingSql(i, new) ELSE UpsertRoleBindingMemory(i, new)

UpdateRoleBindingStatusMemory(i, expected, status) ==
    Provided(Row("binding", i).version = expected, Bumped(Row("binding", i), status))
UpdateRoleBindingStatusSql(i, expected, status) ==
    Provided(Row("binding", i).version = expected, Bumped(Row("binding", i), status))
SetRoleBindingStatus(i, expected, status) ==
    IF Postgres THEN UpdateRoleBindingStatusSql(i, expected, status)
                ELSE UpdateRoleBindingStatusMemory(i, expected, status)

\* Memory deletes the active ones, Postgres whatever is not deleted.
DeleteOrganizationBindingsMemory(t, org, u) ==
    PutAll("binding",
           {b \in ActiveRoleBindingsMemory(t, u) : Row("binding", b).org = org},
           LAMBDA row : Bumped(row, "deleted"))
DeleteRoleBindingsForOrganizationPrincipalSql(t, org, u) ==
    PutAll("binding",
           {b \in ListRoleBindingsSql(t) : Row("binding", b).org = org /\ Row("binding", b).principal = u},
           LAMBDA row : Bumped(row, "deleted"))
DeleteRoleBindingsForOrganizationPrincipal(t, org, u) ==
    IF Postgres THEN DeleteRoleBindingsForOrganizationPrincipalSql(t, org, u)
                ELSE DeleteOrganizationBindingsMemory(t, org, u)
DeleteProjectBindingsMemory(t, project, u) ==
    PutAll("binding",
           {b \in ActiveRoleBindingsMemory(t, u) : Row("binding", b).project = project},
           LAMBDA row : Bumped(row, "deleted"))
DeleteRoleBindingsForProjectPrincipalSql(t, project, u) ==
    PutAll("binding",
           {b \in ListRoleBindingsSql(t) :
              Row("binding", b).project = project /\ Row("binding", b).principal = u},
           LAMBDA row : Bumped(row, "deleted"))
DeleteRoleBindingsForProjectPrincipal(t, project, u) ==
    IF Postgres THEN DeleteRoleBindingsForProjectPrincipalSql(t, project, u)
                ELSE DeleteProjectBindingsMemory(t, project, u)
-----------------------------------------------------------------------------
(* Invitations                                                             *)

\* An id in use is written over in memory, and refused by Postgres.
InsertInvitationMemory(i, new) == {new}
InsertOrganizationInvitationSql(i, new) == Provided(i \in Unused("invitation"), new)
InsertOrganizationInvitation(i, new) ==
    IF Postgres THEN InsertOrganizationInvitationSql(i, new) ELSE InsertInvitationMemory(i, new)

OrganizationInvitationsMemory(t, org) ==
    Where("invitation", LAMBDA row : row.tenant = t /\ row.org = org)
ListOrganizationInvitationsSql(t, org) ==
    Where("invitation", LAMBDA row : row.tenant = t /\ row.org = org)
OrganizationInvitations(t, org) ==
    IF Postgres THEN ListOrganizationInvitationsSql(t, org) ELSE OrganizationInvitationsMemory(t, org)
OrganizationInvitationById(i) == {i} \cap Ids("invitation")
SelectOrganizationInvitationByTokenSql(token) ==
    Where("invitation", LAMBDA row : row.token = token)
OrganizationInvitationByTokenHash(token) == Where("invitation", LAMBDA row : row.token = token)
OrganizationInvitationByRawToken(token) ==
    IF Postgres THEN SelectOrganizationInvitationByTokenSql(token)
                ELSE OrganizationInvitationByTokenHash(token)

RevokeInvitationMemory(i, expected) ==
    Provided(/\ Row("invitation", i).version = expected
             /\ Row("invitation", i).status = "pending",
             Bumped(Row("invitation", i), "revoked"))
RevokeOrganizationInvitationSql(i, expected) ==
    Provided(/\ Row("invitation", i).version = expected
             /\ Row("invitation", i).status = "pending",
             Bumped(Row("invitation", i), "revoked"))
RevokeOrganizationInvitationById(i, expected) ==
    IF Postgres THEN RevokeOrganizationInvitationSql(i, expected)
                ELSE RevokeInvitationMemory(i, expected)

\* accepts_at
AcceptsAt(invitation, now) == invitation.status = "pending" /\ invitation.expires > now

\* Mistake: an accepted invitation is not told from a pending one.
AcceptAnyInvitation(i, u, now) ==
    Provided(Row("invitation", i).expires > now /\ Row("invitation", i).principal = u,
             Bumped(Row("invitation", i), "accepted"))
AcceptInvitationMemory(i, u, now) ==
    Provided(AcceptsAt(Row("invitation", i), now) /\ Row("invitation", i).principal = u,
             Bumped(Row("invitation", i), "accepted"))
AcceptOrganizationInvitationSql(i) ==
    Provided(Row("invitation", i).status = "pending", Bumped(Row("invitation", i), "accepted"))
-----------------------------------------------------------------------------
(* External identities, providers, login attempts and secrets              *)

\* Mistake: a user's identities are looked up by the user alone.
IdentitiesOfAnyTenant(t, u) == Where("identity", LAMBDA x : x.principal = u /\ x.status # "deleted")
ExternalIdentitiesMemory(t, u) ==
    Where("identity", LAMBDA x : x.tenant = t /\ x.principal = u /\ x.status # "deleted")
ListExternalIdentitiesSql(t, u) ==
    Where("identity", LAMBDA x : x.tenant = t /\ x.principal = u /\ x.status # "deleted")
ExternalIdentitiesForPrincipal(t, u) ==
    IF Postgres THEN ListExternalIdentitiesSql(t, u) ELSE ExternalIdentitiesMemory(t, u)
ExternalIdentityById(i) == {i} \cap Ids("identity")

UnlinkExternalIdentityMemory(i) == {[Row("identity", i) EXCEPT !.status = "deleted"]}
UnlinkExternalIdentitySql(i) ==
    Provided(Row("identity", i).status # "deleted", [Row("identity", i) EXCEPT !.status = "deleted"])
UnlinkExternalIdentity(i) ==
    IF Postgres THEN UnlinkExternalIdentitySql(i) ELSE UnlinkExternalIdentityMemory(i)

\* The identity of the subject, which must be the same user's.
SubjectOf(new) ==
    Where("identity", LAMBDA x : /\ x.tenant = new.tenant /\ x.provider = new.provider
                                 /\ x.subject = new.subject)
UpsertExternalIdentity(i, new) ==
    IF SubjectOf(new) = {} THEN {<<i, new>>}
    ELSE {<<x, [Row("identity", x) EXCEPT !.status = "active"]>> :
             x \in {y \in {First(SubjectOf(new))} : Row("identity", y).principal = new.principal}}
UpsertOidcExternalIdentitySql(i, new) ==
    IF SubjectOf(new) = {} THEN {<<i, new>>}
    ELSE {<<x, [Row("identity", x) EXCEPT !.status = "active"]>> :
             x \in {y \in {First(SubjectOf(new))} : Row("identity", y).principal = new.principal}}

OidcLoginProvider(i) == {i} \cap Ids("provider")
ProvidersForTenant(t) == Where("provider", LAMBDA row : row.tenant = t /\ row.status # "deleted")
ListOidcLoginProvidersSql(t) ==
    Where("provider", LAMBDA row : row.tenant = t /\ row.status # "deleted")
OidcLoginProvidersForTenant(t) ==
    IF Postgres THEN ListOidcLoginProvidersSql(t) ELSE ProvidersForTenant(t)
UpsertOidcLoginProvider(i, new) == Put("provider", i, new)

OidcLoginAttemptForState(attempt) == {attempt} \cap Ids("attempt")
LoginAttemptRecord(provider, now) ==
    [tenant |-> Row("provider", provider).tenant, provider |-> provider, status |-> "active",
     expires |-> now + AttemptTtl]
RecordOidcLoginAttempt(i, new) == Put("attempt", i, new)

\* Mistake: an attempt is consumed again and again.
ConsumeAgain(attempt, now) ==
    Provided(Row("attempt", attempt).expires > now, [Row("attempt", attempt) EXCEPT !.status = "consumed"])
\* In memory the attempt is held against the time the callback came in,
\* in Postgres against the time of the transaction.
ConsumeAttempt(attempt, now) ==
    Provided(/\ Row("attempt", attempt).status = "active"
             /\ Row("attempt", attempt).expires > now,
             [Row("attempt", attempt) EXCEPT !.status = "consumed"])
ConsumeOidcLoginAttemptSql(attempt) ==
    Provided(/\ Row("attempt", attempt).status = "active"
             /\ Row("attempt", attempt).expires > clock,
             [Row("attempt", attempt) EXCEPT !.status = "consumed"])

SecretRefById(i) == {i} \cap Ids("secret")
SecretRefsForTenantMemory(t) == Where("secret", LAMBDA row : row.tenant = t)
ListSecretRefsSql(t) == Where("secret", LAMBDA row : row.tenant = t /\ row.status # "deleted")
SecretRefsForTenant(t) ==
    IF Postgres THEN ListSecretRefsSql(t) ELSE SecretRefsForTenantMemory(t)
\* Postgres keeps references to the environment only.
SecretRefRecord(new) == Provided(Postgres => new.backend = "environment", new)
UpsertSecretRef(i, new) == Put("secret", i, new)
=============================================================================
