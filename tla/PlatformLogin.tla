----------------------------- MODULE PlatformLogin ----------------------------
(***************************************************************************)
(* How people come in: the OIDC login, the single user's login, the        *)
(* current session's routes and the invitations.                           *)
(*                                                                         *)
(* A subject's first login creates a user with an organization and a       *)
(* project of its own, under ids made from the provider and the subject:   *)
(* Personal[subject] has them.  The memory repository writes them one lock *)
(* at a time, Postgres in one transaction, of which only the order with    *)
(* other transactions shows: the row of the attempt is locked from the     *)
(* moment it is consumed, and everything else appears with the commit.     *)
(***************************************************************************)
EXTENDS PlatformTenancy

SessionRecord(t, org, project, u, attempt) ==
    [tenant |-> t, org |-> org, project |-> project, principal |-> u, kind |-> "user",
     attempt |-> attempt, status |-> "active"]
\* A session recorded for a user who may not come in.
LateSession(s, u) ==
    {<<"session", s>> : i \in {j \in {u} \cap Ids("user") : ~AcceptsAccess(Row("user", j))}}
-----------------------------------------------------------------------------
(* OIDC login                                                              *)

ListAuthProviders(c) ==
    /\ Calling(c, "list_auth_providers")
    /\ answer' = Nobody
    /\ history' = [history EXCEPT !.requests = @ + 1]
    /\ UNCHANGED <<db, op, clock, scenario>>

\* start_oidc_login_for_provider
StartOidcLogin(c) ==
    /\ Calling(c, "start_oidc_login")
    /\ Unused("attempt") # {}
    /\ \E provider \in Ids("provider") :
         /\ provider \in OidcLoginProvider(provider)
         /\ Row("provider", provider).status = "active"
         /\ Writes(c, RecordOidcLoginAttempt(NewId("attempt"), LoginAttemptRecord(provider, clock)), NoOp)
    /\ history' = [history EXCEPT !.requests = @ + 1]

\* validate_oidc_callback_attempt
ValidateOidcCallbackAttempt(provider, attempt) ==
    /\ Row("provider", provider).status = "active"
    /\ Row("attempt", attempt).tenant = Row("provider", provider).tenant
    /\ Row("attempt", attempt).provider = provider
    /\ Row("attempt", attempt).status = "active"
    /\ Row("attempt", attempt).expires > clock
OidcLoginCallback(c) ==
    /\ Calling(c, "oidc_login_callback")
    /\ \E provider \in Ids("provider"), attempt \in Ids("attempt") :
         /\ provider \in OidcLoginProvider(provider)
         /\ attempt \in OidcLoginAttemptForState(attempt)
         /\ ValidateOidcCallbackAttempt(provider, attempt)
         /\ Starts(c, [pc |-> "exchange", provider |-> provider, attempt |-> attempt, now |-> clock])

\* The provider answers with an id token: the subject it names is the
\* provider's to say, and one the token is not valid for is refused.
ExchangeOidcAuthorizationCode(c) ==
    /\ At(c, "exchange")
    /\ \/ \E subject \in DOMAIN Personal :
            /\ Personal[subject].provider = op[c].provider
            /\ op' = [op EXCEPT ![c] = [pc |-> "can_login", attempt |-> op[c].attempt, now |-> op[c].now,
                                        subject |-> subject]]
            /\ answer' = Nobody
            /\ UNCHANGED <<db, clock, history, scenario>>
       \/ Fails(c)
\* ensure_user_can_login, before either repository is written to.
EnsureCanLogin(c) ==
    /\ At(c, "can_login")
    /\ IF EnsureUserCanLogin(Personal[op[c].subject].user)
       THEN /\ op' = [op EXCEPT ![c].pc = IF Postgres THEN "consume_sql" ELSE "read_user"]
            /\ answer' = Nobody
            /\ UNCHANGED <<db, clock, history, scenario>>
       ELSE Fails(c)

\* What the login of op[c] writes (oidc_login_completion_record).
Completion(c) == Personal[op[c].subject]
NewIdentity(c) ==
    [tenant |-> Completion(c).tenant, principal |-> Completion(c).user, kind |-> "oidc",
     provider |-> Completion(c).provider, subject |-> op[c].subject, status |-> "active"]
NewOrganizationMember(p) == OrganizationMembershipRecord(p.tenant, p.org, p.user, "user")
NewProjectMember(p) == ProjectMembershipRecord(p.tenant, p.org, p.project, p.user, p.org_member, "user")
NewOrganizationAdmin(p) ==
    [tenant |-> p.tenant, org |-> p.org, project |-> None, principal |-> p.user,
     role |-> "organization_admin", status |-> "active", version |-> 1]

Next1(c, pc) == [op[c] EXCEPT !.pc = pc]
\* In memory the user is read, and written back with the status that was read,
\* whatever it has become: with a status that shuts the user out, the sessions of
\* a user let in again in between are left.
CompleteReadUser(c) ==
    /\ At(c, "read_user")
    /\ op' = [op EXCEPT ![c] = [pc |-> "record_user", attempt |-> op[c].attempt, now |-> op[c].now,
                                subject |-> op[c].subject, user |-> Row("user", Completion(c).user)]]
    /\ answer' = Nobody
    /\ UNCHANGED <<db, clock, history, scenario>>
CompleteRecordUser(c) ==
    /\ At(c, "record_user")
    /\ Writes(c, Put("user", Completion(c).user,
                     IF op[c].user.status = "absent"
                     THEN [tenant |-> Completion(c).tenant, status |-> "active", version |-> 1]
                     ELSE [op[c].user EXCEPT !.version = @ + 1]),
              Next1(c, "upsert_identity"))
    /\ history' = IF op[c].user.status \notin {"disabled", "deleted"} THEN history
                  ELSE [history EXCEPT !.late = @ \cup
                          {<<"session", s>> :
                             s \in AuthSessionsForPrincipal(op[c].user.tenant, Completion(c).user)}]
CompleteUpsertIdentity(c) ==
    /\ At(c, "upsert_identity")
    /\ LET done == UpsertExternalIdentity(Completion(c).identity, NewIdentity(c))
       IN \/ \E new \in done : Writes(c, Put("identity", new[1], new[2]), Next1(c, "consume"))
                               /\ UNCHANGED history
          \/ done = {} /\ Fails(c)
CompleteConsumeAttempt(c) ==
    /\ At(c, "consume")
    /\ LET done == ConsumeAttempt(op[c].attempt, op[c].now)
       IN \/ \E row \in done : Writes(c, Put("attempt", op[c].attempt, row), Next1(c, "record_session"))
                               /\ UNCHANGED history
          \/ done = {} /\ Fails(c)
CompleteRecordSession(c) ==
    /\ At(c, "record_session")
    /\ Unused("session") # {}
    /\ LET p == Completion(c)
           s == NewId("session")
       IN /\ Writes(c, RecordAuthSession(s, SessionRecord(p.tenant, p.org, p.project, p.user, op[c].attempt)),
                    [pc |-> "record_org_member", subject |-> op[c].subject])
          /\ history' = [history EXCEPT !.late = @ \cup LateSession(s, p.user)]
CompleteRecordOrganizationMember(c) ==
    /\ At(c, "record_org_member")
    /\ Writes(c, Put("org_member", Completion(c).org_member, NewOrganizationMember(Completion(c))),
              Next1(c, "record_project_member"))
    /\ UNCHANGED history
CompleteRecordProjectMember(c) ==
    /\ At(c, "record_project_member")
    /\ Writes(c, Put("project_member", Completion(c).project_member, NewProjectMember(Completion(c))),
              Next1(c, "record_binding"))
    /\ history' = Late("project_member", Completion(c).project_member, NewProjectMember(Completion(c)))
CompleteRecordRoleBinding(c) ==
    /\ At(c, "record_binding")
    /\ Writes(c, Put("binding", Completion(c).binding, NewOrganizationAdmin(Completion(c))), NoOp)
    /\ history' = Late("binding", Completion(c).binding, NewOrganizationAdmin(Completion(c)))

\* In Postgres: the attempt, whose row no other transaction may then take,
\* and the user as the transaction sees it.
CompleteConsumeSql(c) ==
    /\ At(c, "consume_sql")
    /\ ~\E d \in Clients : At(d, "commit_login") /\ op[d].attempt = op[c].attempt
    /\ IF ConsumeOidcLoginAttemptSql(op[c].attempt) # {} /\ EnsureUserCanLogin(Completion(c).user)
       THEN /\ op' = [op EXCEPT ![c] = Next1(c, "commit_login")]
            /\ answer' = Nobody
            /\ UNCHANGED <<db, clock, history, scenario>>
       ELSE Fails(c)

\* The statements of the transaction after those, each of which finds its row
\* by the ids of the person and keeps a user's status.
UpsertOidcUserSql(p) ==
    IF p.user \in Ids("user") THEN [Row("user", p.user) EXCEPT !.version = @ + 1]
    ELSE [tenant |-> p.tenant, status |-> "active", version |-> 1]
UpsertOidcOrganizationMembershipSql(p) ==
    LET mine == Where("org_member", LAMBDA row : row.org = p.org /\ row.principal = p.user)
    IN IF mine = {} THEN <<p.org_member, NewOrganizationMember(p)>>
       ELSE <<First(mine), [NewOrganizationMember(p) EXCEPT
                              !.version = Row("org_member", First(mine)).version + 1]>>
UpsertOidcProjectMembershipSql(p) ==
    LET mine == Where("project_member", LAMBDA row : row.project = p.project /\ row.principal = p.user)
    IN IF mine = {} THEN <<p.project_member, NewProjectMember(p)>>
       ELSE <<First(mine), [NewProjectMember(p) EXCEPT
                              !.version = Row("project_member", First(mine)).version + 1]>>
UpsertOidcOrganizationAdminRoleSql(p) ==
    [NewOrganizationAdmin(p) EXCEPT !.version =
        IF p.binding \in Unused("binding") THEN 1 ELSE Row("binding", p.binding).version + 1]

CompleteOidcLoginSql(c) ==
    /\ At(c, "commit_login")
    /\ Unused("session") # {}
    /\ LET p == Completion(c)
           s == NewId("session")
           o == UpsertOidcOrganizationMembershipSql(p)
           m == UpsertOidcProjectMembershipSql(p)
           done == UpsertOidcExternalIdentitySql(p.identity, NewIdentity(c))
           late == {<<"project_member", m[1]>>, <<"binding", p.binding>>}
       IN \/ \E new \in done :
               /\ Writes(c, [db EXCEPT !["attempt"][op[c].attempt].status = "consumed",
                                       !["user"][p.user] = UpsertOidcUserSql(p),
                                       !["org_member"][o[1]] = o[2],
                                       !["project_member"][m[1]] = m[2],
                                       !["identity"][new[1]] = new[2],
                                       !["binding"][p.binding] = UpsertOidcOrganizationAdminRoleSql(p),
                                       !["session"][s] =
                                           SessionRecord(p.tenant, p.org, p.project, p.user, op[c].attempt)],
                         NoOp)
               /\ history' = [history EXCEPT !.late = LateAfter(db', late) \cup LateSession(s, p.user)]
          \/ done = {} /\ Fails(c)
-----------------------------------------------------------------------------
(* The single user                                                         *)

\* single_user_login: the right password, and a user who may come in.
SingleUserLogin(c) ==
    /\ Calling(c, "single_user_login")
    /\ scenario.single_user
    /\ EnsureUserCanLogin(SingleUser.user)
    /\ Starts(c, [pc |-> "single_user_session"])
RecordSingleUserSession(c) ==
    /\ At(c, "single_user_session")
    /\ Unused("session") # {}
    /\ LET s == NewId("session")
       IN /\ Writes(c, RecordAuthSession(s, SessionRecord(SingleUser.tenant, SingleUser.org,
                                               SingleUser.project, SingleUser.user, None)),
                    IF Postgres THEN NoOp ELSE [pc |-> "single_user_memberships", step |-> 1])
          /\ history' = [history EXCEPT !.late = @ \cup LateSession(s, SingleUser.user)]

\* Everything of the single user's, in the order it is written.
SingleUserRows ==
    <<<<"user", SingleUser.user, [tenant |-> SingleUser.tenant, status |-> "active", version |-> 1]>>,
      <<"identity", SingleUser.identity,
        [tenant |-> SingleUser.tenant, principal |-> SingleUser.user, kind |-> "single_user",
         provider |-> SingleUser.provider, subject |-> None, status |-> "active"]>>,
      <<"org_member", SingleUser.org_member, NewOrganizationMember(SingleUser)>>,
      <<"project_member", SingleUser.project_member, NewProjectMember(SingleUser)>>,
      <<"binding", SingleUser.binding,
        [tenant |-> SingleUser.tenant, org |-> None, project |-> None,
         principal |-> SingleUser.user, role |-> "tenant_owner", status |-> "active",
         version |-> 1]>>>>
\* record_single_user_memberships: in memory each is written anew, at version 1.
RecordSingleUserMemberships(c) ==
    /\ At(c, "single_user_memberships")
    /\ LET row == SingleUserRows[op[c].step]
       IN /\ Writes(c, Put(row[1], row[2], row[3]),
                    IF op[c].step = Len(SingleUserRows) THEN NoOp ELSE [op[c] EXCEPT !.step = @ + 1])
          /\ history' = IF row[1] \in {"project_member", "binding"} THEN Late(row[1], row[2], row[3])
                        ELSE history
\* bootstrap_single_user: with Postgres the same happens when the service
\* starts, in one transaction and one version on.
BootstrapSingleUser ==
    LET restarted(k, i, row) ==
            IF i \in Unused(k) \/ "version" \notin DOMAIN row THEN row
            ELSE [row EXCEPT !.version = Row(k, i).version + 1]
        new(k, i) == LET mine == {n \in DOMAIN SingleUserRows :
                                    SingleUserRows[n][1] = k /\ SingleUserRows[n][2] = i}
                     IN IF mine = {} THEN Row(k, i)
                        ELSE restarted(k, i, SingleUserRows[First(mine)][3])
    IN IF scenario.single_user THEN [k \in DOMAIN db |-> [i \in DOMAIN db[k] |-> new(k, i)]] ELSE db
-----------------------------------------------------------------------------
(* The current session                                                     *)

\* mutating_auth_session_from_headers and ensure_user_auth_session: an active
\* session of a user, with its CSRF token.
CurrentSession == {s \in Ids("session") : /\ s \in AuthSessionForBearer(s)
                                          /\ Row("session", s).kind = "user"}

GetCurrentAuthSession(c) ==
    /\ Calling(c, "get_current_auth_session")
    /\ \E s \in CurrentSession : Answers(c, Row("session", s), Rows("session", {s}))

\* active_organization_member_for_actor: the first membership, if active.
ActiveOrganizationMemberForActor(session, org) ==
    LET mine == {m \in OrganizationMembersForOrganization(org) :
                   /\ Row("org_member", m).tenant = session.tenant
                   /\ Row("org_member", m).principal = session.principal
                   /\ Row("org_member", m).kind = "user"}
    IN mine # {} /\ Row("org_member", First(mine)).status = "active"
UpdateActiveOrganization(c) ==
    /\ Calling(c, "update_active_organization")
    /\ \E s \in CurrentSession, org \in Organizations :
         /\ ActiveOrganizationMemberForActor(Row("session", s), org)
         /\ Starts(c, [pc |-> "update_context", id |-> s, org |-> org, project |-> None])
\* active_project_member_for_actor: of the project and of its organization.
ActiveProjectMemberForActor(session, project) ==
    {m \in {First({m \in ProjectMembersForProject(project) :
                     /\ Row("project_member", m).tenant = session.tenant
                     /\ Row("project_member", m).principal = session.principal
                     /\ Row("project_member", m).kind = "user"} \cup {Len(db["project_member"]) + 1})} :
        /\ m \in Ids("project_member")
        /\ Row("project_member", m).status = "active"
        /\ ActiveOrganizationMemberForActor(session, Row("project_member", m).org)}
UpdateActiveProject(c) ==
    /\ Calling(c, "update_active_project")
    /\ \E s \in CurrentSession, project \in Projects :
         \E m \in ActiveProjectMemberForActor(Row("session", s), project) :
           Starts(c, [pc |-> "update_context", id |-> s, org |-> Row("project_member", m).org,
                      project |-> project])
UpdateContext(c) ==
    /\ At(c, "update_context")
    /\ LET done == UpdateAuthSessionContext(op[c].id, op[c].org, op[c].project)
       IN \/ \E row \in done : Writes(c, Put("session", op[c].id, row), NoOp) /\ UNCHANGED history
          \/ done = {} /\ Fails(c)
LogoutCurrentAuthSession(c) ==
    /\ Calling(c, "logout_current_auth_session")
    /\ \E s \in CurrentSession : Starts(c, [pc |-> "logout", id |-> s])
Logout(c) ==
    /\ At(c, "logout")
    /\ LET done == RevokeAuthSession(op[c].id)
       IN \/ \E row \in done : Writes(c, Put("session", op[c].id, row), NoOp) /\ UNCHANGED history
          \/ done = {} /\ Fails(c)
-----------------------------------------------------------------------------
(* Taking up an invitation                                                 *)

PreviewAuthInvitation(c) ==
    /\ Calling(c, "preview_auth_invitation")
    /\ \E token \in 1 .. history.tokens : OrganizationInvitationByRawToken(token) # {}
    /\ answer' = Nobody
    /\ history' = [history EXCEPT !.requests = @ + 1]
    /\ UNCHANGED <<db, op, clock, scenario>>

\* ensure_actor_matches_invitation
EnsureActorMatchesInvitation(session, invitation) ==
    session.tenant = invitation.tenant /\ invitation.principal = session.principal
AcceptAuthInvitation(c) ==
    /\ Calling(c, "accept_auth_invitation")
    /\ \E s \in CurrentSession, token \in 1 .. history.tokens :
         \E i \in OrganizationInvitationByRawToken(token) :
           /\ EnsureActorMatchesInvitation(Row("session", s), Row("invitation", i))
           /\ Starts(c, [pc |-> IF Postgres THEN "select_invitation" ELSE "accept_invitation", id |-> i,
                         principal |-> Row("session", s).principal, now |-> clock])

Admits(token) == [history EXCEPT !.admitted = Append(@, token)]
AcceptInvitation(c) ==
    /\ At(c, "accept_invitation")
    /\ LET done == AcceptInvitationMemory(op[c].id, op[c].principal, op[c].now)
       IN \/ \E row \in done : /\ Writes(c, Put("invitation", op[c].id, row),
                                         [pc |-> "invited_org_member", row |-> row])
                               /\ history' = Admits(row.token)
          \/ done = {} /\ Fails(c)
InvitedOrganizationMember(row) == OrganizationMembershipRecord(row.tenant, row.org, row.principal, "user")
InvitedProjectMember(row, member) ==
    ProjectMembershipRecord(row.tenant, row.org, row.project, row.principal, member, "user")
UpsertInvitedOrganizationMember(c) ==
    /\ At(c, "invited_org_member")
    /\ \E new \in UpsertOrganizationMemberMemory(NewId("org_member"), InvitedOrganizationMember(op[c].row)) :
         Writes(c, Put("org_member", new[1], new[2]),
                IF op[c].row.project = None THEN NoOp
                ELSE [pc |-> "invited_project_member", row |-> op[c].row, member |-> new[1]])
    /\ UNCHANGED history
UpsertInvitedProjectMember(c) ==
    /\ At(c, "invited_project_member")
    /\ \E new \in UpsertProjectMemberMemory(NewId("project_member"),
                                            InvitedProjectMember(op[c].row, op[c].member)) :
         /\ Writes(c, Put("project_member", new[1], new[2]), NoOp)
         /\ history' = Late("project_member", new[1], new[2])

\* In Postgres the invitation is read and judged, and updated if it is still
\* pending, in one transaction with the memberships.
SelectInvitation(c) ==
    /\ At(c, "select_invitation")
    /\ LET row == Row("invitation", op[c].id)
       IN IF AcceptsAt(row, op[c].now) /\ row.principal = op[c].principal
          THEN /\ op' = [op EXCEPT ![c] = Next1(c, "commit_invitation")]
               /\ answer' = Nobody
               /\ UNCHANGED <<db, clock, history, scenario>>
          ELSE Fails(c)
CommitInvitation(c) ==
    /\ At(c, "commit_invitation")
    /\ LET done == AcceptOrganizationInvitationSql(op[c].id)
       IN \/ \E row \in done :
               LET o == UpsertInvitedOrganizationMemberSql(NewId("org_member"), InvitedOrganizationMember(row))
               IN \E member \in o :
                    IF row.project = None
                    THEN /\ Writes(c, [db EXCEPT !["invitation"][op[c].id] = row,
                                                 !["org_member"][member[1]] = member[2]], NoOp)
                         /\ history' = Admits(row.token)
                    ELSE \E new \in UpsertInvitedProjectMemberSql(NewId("project_member"),
                                        InvitedProjectMember(row, member[1])) :
                         /\ Writes(c, [db EXCEPT !["invitation"][op[c].id] = row,
                                                 !["org_member"][member[1]] = member[2],
                                                 !["project_member"][new[1]] = new[2]], NoOp)
                         /\ history' = [Admits(row.token) EXCEPT
                                          !.late = LateAfter(db', {<<"project_member", new[1]>>})]
          \/ done = {} /\ Fails(c)
=============================================================================
