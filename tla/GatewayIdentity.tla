---------------------------- MODULE GatewayIdentity ---------------------------
(***************************************************************************)
(* The identity side of the gateway as a whole: the directory's admins     *)
(* (AdminDirectory) against people logging in, moving between projects,    *)
(* taking up invitations and presenting API keys (GatewayLogin), and what  *)
(* must hold however their steps interleave.                               *)
(***************************************************************************)
EXTENDS GatewayLogin

\* The statuses of the kinds the code gives some, and the fields it reads by name.
Statuses ==
    [organization |-> DirectoryStatus, project |-> DirectoryStatus, user |-> DirectoryStatus,
     service_account |-> DirectoryStatus, organization_member |-> MembershipStatus,
     project_member |-> MembershipStatus, session |-> {"absent", "active", "revoked"},
     invitation |-> {"pending", "accepted", "revoked"}, login_attempt |-> {"pending", "consumed"}]
Fields ==
    [organization |-> {}, project |-> {"org"}, service_account |-> {}, project_member |-> {},
     user |-> {"org", "project", "email"}, organization_member |-> {"org", "user", "invitations"},
     session |-> {"user", "org", "project", "expires", "attempt", "durable", "late"},
     external_identity |-> {"user", "provider"}, api_key |-> {"secret"},
     invitation |-> {"org", "project", "email", "user", "expires"},
     login_provider |-> {}, login_attempt |-> {"provider", "expires"},
     failed_auth |-> {"prefix", "at"}]

\* The rows at the start are as the store creates them, at version 1 and in a
\* status of their kind; users' sessions, identities and memberships name users of
\* the same tenant, and nobody has logged in, been admitted or failed yet.
ASSUME SeedAssumption ==
    /\ DOMAIN Fields \subseteq Kinds
    /\ \A k \in DOMAIN Fields :
         /\ Seed[k] \in Seq({Seed[k][i] : i \in DOMAIN Seed[k]})
         /\ \A i \in DOMAIN Seed[k] :
              LET row == Seed[k][i]
              IN /\ row = NewRow(row.tenant, row.f, row.status)
                 /\ Fields[k] \subseteq DOMAIN row.f
                 /\ k \in DOMAIN Statuses => row.status \in Statuses[k]
    /\ \A s \in DOMAIN Seed["session"] :
         LET row == Seed["session"][s]
         IN /\ row.f.user \in DOMAIN Seed["user"]
            /\ row.tenant = Seed["user"][row.f.user].tenant
            /\ row.f.attempt = None /\ row.f.durable \in {"none", "active", "revoked"}
            /\ row.status = "active" /\ Seed["user"][row.f.user].status # "active" => row.f.late
    /\ \A i \in DOMAIN Seed["external_identity"] :
         LET row == Seed["external_identity"][i]
         IN /\ row.f.user \in DOMAIN Seed["user"]
            /\ row.f.provider \in DOMAIN Seed["login_provider"]
            /\ Seed["user"][row.f.user].tenant = Seed["login_provider"][row.f.provider].tenant
    /\ \A m \in DOMAIN Seed["organization_member"] :
         LET row == Seed["organization_member"][m]
         IN row.f.user \in DOMAIN Seed["user"] /\ row.f.invitations = {}
    /\ \A id \in DOMAIN Seed["api_key"] : Seed["api_key"][id].f.secret = 1
    /\ Seed["login_attempt"] = << >> /\ Seed["failed_auth"] = << >>

DirectoryNext(a) ==
    \/ ListProjects(a) \/ GetProject(a) \/ UpdateProject(a) \/ UpdateProjectStatus(a)
    \/ ListOrganizations(a) \/ GetOrganization(a) \/ UpdateOrganization(a)
    \/ UpdateOrganizationStatus(a)
    \/ ListUsers(a) \/ GetUser(a) \/ UpdateUser(a) \/ UpdateUserStatus(a)
    \/ RevokeSessionsForPrincipal(a)
    \/ ListUserSessions(a) \/ RevokeUserSession(a) \/ RevokeSessionForPrincipal(a)
    \/ ListUserExternalIdentities(a) \/ GetUserExternalIdentity(a)
    \/ UnlinkUserExternalIdentity(a) \/ UnlinkExternalIdentity(a)
    \/ ListOrganizationMembers(a) \/ GetOrganizationMember(a) \/ UpdateOrganizationMember(a)
    \/ UpdateOrganizationMemberStatus(a) \/ CascadeProjectMemberships(a)
    \/ ListProjectMembers(a) \/ GetProjectMember(a) \/ UpdateProjectMember(a)
    \/ UpdateProjectMemberStatus(a) \/ CreateProjectMember(a) \/ CreateProjectMembership(a)
    \/ ListServiceAccounts(a) \/ GetServiceAccount(a) \/ CreateServiceAccount(a)
    \/ StoreServiceAccount(a) \/ UpdateServiceAccount(a) \/ UpdateServiceAccountStatus(a)
    \/ ListApiKeys(a) \/ GetApiKeyAdmin(a) \/ CreateApiKeyAdmin(a) \/ CreateApiKeyRecord(a)
    \/ RotateApiKeyAdmin(a) \/ ReplaceApiKeySecret(a)
    \/ DisableApiKeyAdmin(a) \/ UpdateApiKeyStatus(a) \/ InsertApiKey(a)
    \/ ListOrganizationInvitations(a) \/ GetOrganizationInvitation(a)
    \/ CreateOrganizationInvitation(a) \/ StoreOrganizationInvitation(a)
    \/ RevokeOrganizationInvitation(a) \/ RevokeInvitation(a)

LoginNext(a) ==
    \/ PersistPostgresSession(a) \/ InsertAuthSession(a) \/ AnswerSession(a)
    \/ GetCurrentAuthSession(a)
    \/ UpdateSessionDefaultOrganization(a) \/ UpdateSessionActiveOrganization(a)
    \/ UpdateSessionActiveProject(a) \/ UpdateUserDefaultContext(a)
    \/ UpdateSessionActiveContext(a)
    \/ LogoutCurrentAuthSession(a) \/ RevokeAuthSessionPostgres(a) \/ RevokeSessionByHash(a)
    \/ ListAuthLoginProviders(a) \/ GetAuthLoginProvider(a)
    \/ StartAuthLoginProvider(a) \/ CompleteAuthLoginProviderCallback(a)
    \/ ConsumeLoginAttempt(a) \/ ExternalLoginCallbackClaims(a)
    \/ UpdateExistingExternalIdentity(a) \/ InsertLoginUser(a) \/ InsertLoginIdentity(a)
    \/ SingleUserLogin(a)
    \/ PreviewAuthInvitation(a) \/ AcceptAuthInvitation(a) \/ AcceptOrganizationInvitation(a)
    \/ UpsertInvitedOrganizationMembership(a) \/ UpsertInvitedProjectMembership(a)
    \/ RepairUserDefaults(a)
    \/ AuthenticateSession(a)
    \/ VerifyApiKey(a) \/ VerifySecret(a) \/ RecordApiKeyFailedAuth(a) \/ RecordApiKeyLastUsed(a)

Next ==
    \/ \E a \in Admins : DirectoryNext(a) \/ LoginNext(a) \/ Finish(a)
    \/ Tick

Spec == AdminInit /\ [][Next]_vars
-----------------------------------------------------------------------------
(* Properties                                                              *)

\* Every row is in a status of its kind.
TypeOK ==
    /\ \A k \in DOMAIN Statuses : \A row \in Rows(k) : row.status \in Statuses[k]
    /\ \A row \in Rows("session") : row.f.durable \in {"none", "active", "revoked"}
    /\ \A row \in Rows("api_key") : row.f.secret \in 1 .. row.version

\* The requests that have consumed a login attempt and not yet stored its session.
LoggingIn(attempt) ==
    {a \in InFlight : /\ op[a].pc \in {"claims", "identity", "new_user", "new_identity", "persist"}
                      /\ op[a].route = "complete_auth_login_provider_callback"
                      /\ op[a].attempt = attempt}

\* A login attempt leads to one session at most, however often and by whomever
\* its state token is sent back (consume_login_attempt), and only for a user of
\* the provider's tenant.
OneLoginPerAttempt ==
    \A attempt \in Ids("login_attempt") :
        LET sessions == {s \in Ids("session") : Row("session", s).f.attempt = attempt}
        IN /\ Cardinality(sessions) + Cardinality(LoggingIn(attempt)) <= 1
           /\ \A s \in sessions :
                /\ Row("session", s).tenant = Row("login_attempt", attempt).tenant
                /\ Row("user", Row("session", s).f.user).tenant = Row("session", s).tenant

\* Disabling or deleting a user ends the sessions the user had, for good: once
\* update_user is done, none that was stored while the user was active can
\* authenticate, so none comes back when the user is made active again, although
\* the status and the sessions are written under two locks and logins go on between
\* them (update_user and revoke_sessions_for_principal).  It holds of the sessions
\* in memory, in a gateway without Postgres: update_user leaves those in Postgres
\* alone.  "late" sessions were stored after the user was shut out.
EarlierSessionsRevoked ==
    ~ scenario.postgres =>
        \A s \in Ids("session") :
            LET u == Row("session", s).f.user
            IN (/\ CanAuthenticate(s, clock)
                /\ ~ AcceptsAccess("user", u)
                /\ ~ \E a \in InFlight : op[a].route = "update_user" /\ op[a].id = u)
                 => Row("session", s).f.late

\* A session that was revoked, by its user or by an admin, in Postgres or in
\* memory, is never active again in that store, although handlers that verified
\* it before go on to write it (update_session_active_context_by_hash).
RevokedStaysRevoked ==
    [][\A s \in Ids("session") :
         /\ Row("session", s).status = "revoked" => db'["session"][s].status = "revoked"
         /\ Row("session", s).f.durable = "revoked" => db'["session"][s].f.durable = "revoked"]_vars

\* The users an invitation has let in, or is about to.
Admitted(i) ==
    {Row("organization_member", m).f.user : m \in
        {n \in Ids("organization_member") : i \in Row("organization_member", n).f.invitations}}
      \cup {op[a].user : a \in {b \in InFlight : /\ op[b].route = "accept_auth_invitation"
                                                 /\ op[b].pc # "accept"
                                                 /\ op[b].invitation = i}}

\* An invitation lets in one user, whom it is addressed to, and none once it is
\* revoked, however many sessions take it up at once and whoever revokes it
\* meanwhile (accept_organization_invitation against revoke_organization_invitation).
InvitationAdmitsOne ==
    \A i \in Ids("invitation") :
        /\ Cardinality(Admitted(i)) <= 1
        /\ \A u \in Admitted(i) : Row("invitation", i).status = "accepted" /\ Addressed(i, u)

\* The throttle of a key prefix holds up to the requests that were past it
\* together: within a window no more failures are kept than the limit and one for
\* each other request in flight (api_key_failed_auth_allowed and
\* record_api_key_failed_auth are separate).
FailedAuthBounded ==
    \A id \in Ids("api_key") : \A secret \in 1 .. Row("api_key", id).version :
        Cardinality(Fresh(<<id, secret>>, clock)) <= MaxFailed - 1 + Cardinality(Admins)
=============================================================================
