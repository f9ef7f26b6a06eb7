--------------------------- MODULE PlatformIdentity ---------------------------
(***************************************************************************)
(* The platform service as a whole: its handlers, the clock, the request   *)
(* timeout, which drops a handler where it waits, and the restart, which   *)
(* drops them all; and what must hold however their steps interleave.      *)
(***************************************************************************)
EXTENDS PlatformLogin

Statuses ==
    [user |-> UserStatus, session |-> AuthSessionStatus, org_member |-> MembershipStatus,
     project_member |-> MembershipStatus, binding |-> RoleBindingStatus,
     invitation |-> InvitationStatus, identity |-> ExternalIdentityStatus,
     attempt |-> LoginAttemptStatus]
Versioned == {"user", "org_member", "project_member", "binding", "invitation"}
WellFormed(k, row) ==
    /\ "status" \in DOMAIN row
    /\ row.status \in Statuses[k] \cup {"absent"}
    /\ k \in Versioned /\ row.status # "absent" =>
         "version" \in DOMAIN row /\ row.version \in Nat \ {0}

\* The service starts with well-formed rows, each invitation with its own
\* token, and without a login that was completed.
ASSUME SeedAssumption ==
    /\ DOMAIN Statuses \cup {"provider", "secret"} \subseteq DOMAIN Seed
    /\ \A k \in DOMAIN Seed : Seed[k] \in Seq({Seed[k][i] : i \in DOMAIN Seed[k]})
    /\ \A k \in DOMAIN Statuses : \A i \in DOMAIN Seed[k] : WellFormed(k, Seed[k][i])
    /\ \A i \in DOMAIN Seed["attempt"] : Seed["attempt"][i].status \in {"absent", "active"}
    /\ \A i \in DOMAIN Seed["session"] :
         Seed["session"][i].status = "absent" \/ Seed["session"][i].attempt = None
    /\ \A i, j \in DOMAIN Seed["invitation"] :
         LET left == Seed["invitation"][i]
             right == Seed["invitation"][j]
         IN left.status = "absent" \/ right.status = "absent" \/
              /\ left.token \in 1 .. Len(Seed["invitation"])
              /\ left.token = right.token => i = j

\* It starts with nobody who is shut out and has kept something.
ASSUME ShutOutAssumption ==
    /\ \A u \in DOMAIN Seed["user"], s \in DOMAIN Seed["session"] :
         LET user == Seed["user"][u]
             session == Seed["session"][s]
         IN /\ user.status \notin {"absent", "active"} /\ session.status = "active"
            => ~ (session.tenant = user.tenant /\ session.principal = u)
    /\ \A m \in DOMAIN Seed["org_member"] :
         LET member == Seed["org_member"][m]
             kept(k) == \E i \in DOMAIN Seed[k] :
                           Seed[k][i].status = "active" /\ OfMember(Seed[k][i], member)
         IN /\ member.status \in {"suspended", "removed"} => ~ kept("project_member")
            /\ member.status = "removed" => ~ kept("binding")

AdminNext(c) ==
    \/ ListPlatformAuditEvents(c) \/ RecordPlatformAuditEvent(c)
    \/ ListPlatformUsers(c) \/ GetPlatformUser(c)
    \/ UpdatePlatformUserStatus(c) \/ SetUserStatus(c) \/ DisableAuthSessions(c)
    \/ ListUserAuthSessions(c) \/ RevokeUserAuthSession(c) \/ RevokeSession(c)
    \/ ListUserExternalIdentities(c) \/ GetUserExternalIdentity(c)
    \/ UnlinkUserExternalIdentity(c) \/ Unlink(c)

TenancyNext(c) ==
    \/ ListOrganizationMembers(c) \/ GetOrganizationMember(c)
    \/ CreateOrganizationMember(c) \/ StoreOrganizationMember(c)
    \/ UpdateOrganizationMemberStatus(c) \/ RemoveOrganizationMember(c)
    \/ SetOrganizationMember(c) \/ Cascade(c) \/ DeleteOrganizationBindings(c)
    \/ ListProjectMembers(c) \/ GetProjectMember(c)
    \/ CreateProjectMember(c) \/ StoreProjectMember(c)
    \/ UpdateProjectMemberStatus(c) \/ SetProjectMember(c) \/ DeleteProjectBindings(c)
    \/ ListRoleBindings(c) \/ GetRoleBinding(c) \/ CreateRoleBinding(c) \/ StoreRoleBinding(c)
    \/ UpdateRoleBindingStatus(c) \/ SetRoleBinding(c)
    \/ ListOrganizationInvitations(c) \/ GetOrganizationInvitation(c)
    \/ CreateOrganizationInvitation(c) \/ InsertInvitation(c)
    \/ RevokeOrganizationInvitation(c) \/ RevokeInvitation(c)
    \/ ListOidcIdentityProviders(c) \/ GetOidcIdentityProvider(c)
    \/ CreateOidcIdentityProvider(c) \/ StoreOidcIdentityProvider(c)
    \/ ListPlatformSecretRefs(c) \/ GetPlatformSecretRef(c)
    \/ CreatePlatformSecretRef(c) \/ StoreSecretRef(c)
    \/ HandleFoundationRequest(c)

LoginNext(c) ==
    \/ ListAuthProviders(c) \/ StartOidcLogin(c) \/ OidcLoginCallback(c)
    \/ ExchangeOidcAuthorizationCode(c) \/ EnsureCanLogin(c)
    \/ CompleteReadUser(c) \/ CompleteRecordUser(c) \/ CompleteUpsertIdentity(c)
    \/ CompleteConsumeAttempt(c) \/ CompleteRecordSession(c)
    \/ CompleteRecordOrganizationMember(c) \/ CompleteRecordProjectMember(c)
    \/ CompleteRecordRoleBinding(c)
    \/ CompleteConsumeSql(c) \/ CompleteOidcLoginSql(c)
    \/ SingleUserLogin(c) \/ RecordSingleUserSession(c) \/ RecordSingleUserMemberships(c)
    \/ GetCurrentAuthSession(c) \/ UpdateActiveOrganization(c) \/ UpdateActiveProject(c)
    \/ UpdateContext(c) \/ LogoutCurrentAuthSession(c) \/ Logout(c)
    \/ PreviewAuthInvitation(c) \/ AcceptAuthInvitation(c) \/ AcceptInvitation(c)
    \/ UpsertInvitedOrganizationMember(c) \/ UpsertInvitedProjectMember(c)
    \/ SelectInvitation(c) \/ CommitInvitation(c)

\* The change a handler has half made: the row whose consequences are due.
HalfMade(c) ==
    CASE At(c, "disable_sessions") -> {<<"user", op[c].id>>}
      [] At(c, "cascade") \/ At(c, "delete_org_bindings") -> {<<"org_member", op[c].id>>}
      [] OTHER -> {}

\* request_timeout_middleware drops the handler's future where it waits: for a
\* statement of Postgres; in memory, for the identity provider only.
DropHandler(c) ==
    /\ scenario.drops
    /\ op[c].pc # "idle"
    /\ Postgres \/ At(c, "exchange")
    /\ history' = [history EXCEPT !.partial = @ \cup HalfMade(c)]
    /\ op' = [op EXCEPT ![c] = NoOp]
    /\ answer' = Nobody
    /\ UNCHANGED <<db, clock, scenario>>

\* The service stops and starts on the same database; the single user's rows
\* are written as it starts (build_platform_service_state).
Restart ==
    /\ Postgres
    /\ history.restarts < scenario.restarts
    /\ db' = BootstrapSingleUser
    /\ history' = [history EXCEPT
                     !.restarts = @ + 1,
                     !.partial = @ \cup UNION {HalfMade(c) : c \in Clients},
                     !.late = IF scenario.single_user
                              THEN LateAfter(db', {<<"project_member", SingleUser.project_member>>,
                                                   <<"binding", SingleUser.binding>>})
                              ELSE @]
    /\ op' = [c \in Clients |-> NoOp]
    /\ answer' = Nobody
    /\ UNCHANGED <<clock, scenario>>

Tick ==
    /\ clock < scenario.horizon
    /\ clock' = clock + 1
    /\ UNCHANGED <<db, op, answer, history, scenario>>

Init ==
    /\ scenario \in Scenarios
    /\ db = Seed
    /\ op = [c \in Clients |-> NoOp]
    /\ answer = Nobody
    /\ clock = 0
    /\ history = [requests |-> 0, tokens |-> Len(Seed["invitation"]), admitted |-> << >>,
                  late |-> {}, partial |-> {}, restarts |-> 0,
                  audits |-> {[tenant |-> 1, org |-> None, project |-> None, actor |-> 1,
                               action |-> "UserWrite", id |-> 1],
                              [tenant |-> 2, org |-> None, project |-> None, actor |-> 1,
                               action |-> "UserWrite", id |-> 1]}]

PlatformNext ==
    \/ \E c \in Clients : AdminNext(c) \/ TenancyNext(c) \/ LoginNext(c) \/ DropHandler(c)
    \/ Restart
    \/ Tick

Spec == Init /\ [][PlatformNext]_vars
-----------------------------------------------------------------------------
(* Properties                                                              *)

\* Every row is in a status of its kind, and its version counts from 1.
TypeOK == \A k \in DOMAIN Statuses : \A i \in DOMAIN db[k] : WellFormed(k, Row(k, i))

\* A change that is not finished, or was cut off by the timeout or a crash.
Unfinished(k, i) ==
    <<k, i>> \in history.partial \cup UNION {HalfMade(c) : c \in Clients}

\* Shutting somebody out takes everything along.  Once a user is disabled or
\* deleted (update_platform_user_status) no session of theirs is active; once a
\* member is suspended or removed from an organization
\* (update_organization_member_status) they are active in none of its projects,
\* and once removed hold no active role there.  What is left was written by a
\* handler that had looked before, or by one that never looks (history.late), or
\* the handler was cut off in between (history.partial).
ShutOutHolds ==
    /\ \A u \in Ids("user") :
         (~AcceptsAccess(Row("user", u)) /\ ~Unfinished("user", u)) =>
             \A s \in AuthSessionsForPrincipal(Row("user", u).tenant, u) :
                 Row("session", s).status = "active" => <<"session", s>> \in history.late
    /\ \A m \in Ids("org_member") :
         LET member == Row("org_member", m)
             theirs(row) == OfMember(row, member) /\ row.status = "active"
         IN (member.status # "active" /\ ~Unfinished("org_member", m)) =>
              /\ \A i \in Where("project_member", theirs) : <<"project_member", i>> \in history.late
              /\ member.status = "removed" =>
                   \A i \in Where("binding", theirs) : <<"binding", i>> \in history.late

\* An invitation lets somebody in once, and not at all once it is revoked,
\* however many take it up at once, whoever revokes it meanwhile and whichever
\* repository it is in (accept_organization_invitation).
InvitationAdmitsOnce ==
    /\ \A i, j \in DOMAIN history.admitted : history.admitted[i] = history.admitted[j] => i = j
    /\ \A i \in Where("invitation", LAMBDA row : row.status = "revoked") :
         \A j \in DOMAIN history.admitted : history.admitted[j] # Row("invitation", i).token

\* Whatever a route hands out is of the tenant of the one who asked, also where
\* rows are looked up by an id of another tenant's.
AnswersStayInTenant == \A row \in answer.rows : row.tenant = answer.tenant
-----------------------------------------------------------------------------
(* Logging in is atomic                                                    *)

\* An attempt that memory has consumed and whose session is still to be written
\* counts as open.
AttemptState(a) ==
    IF Row("attempt", a).status = "absent" THEN "none"
    ELSE IF \/ Row("attempt", a).status = "active"
            \/ \E c \in Clients : At(c, "record_session") /\ op[c].attempt = a
         THEN "open" ELSE "used"
SessionState(s) ==
    CASE Row("session", s).status = "absent" -> "none"
      [] Row("session", s).status = "active" -> "live"
      [] OTHER -> "ended"

loginAttempt == [a \in DOMAIN db["attempt"] |-> AttemptState(a)]
loginSession == [s \in DOMAIN db["session"] |-> SessionState(s)]
loginOrigin == [s \in DOMAIN db["session"] |->
                  IF Row("session", s).status = "absent" THEN None ELSE Row("session", s).attempt]

Login == INSTANCE LoginSessions WITH
    Attempts <- DOMAIN Seed["attempt"], Sessions <- DOMAIN Seed["session"],
    attempt <- loginAttempt, session <- loginSession, origin <- loginOrigin

\* The service logs people in as LoginSessions says, although memory consumes the
\* attempt and writes the session under two locks, callbacks with the same state
\* race, and the handlers of other routes end sessions meanwhile
\* (complete_oidc_login, record_auth_session, revoke_auth_session_by_id).
LoginSpec == Login!Spec
=============================================================================
