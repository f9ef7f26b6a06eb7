----------------------------- MODULE GatewayLogin -----------------------------
(***************************************************************************)
(* How people and programs get into the gateway: external login, sessions, *)
(* invitations taken up, API keys, next to the admins of AdminDirectory    *)
(* who disable, remove and revoke them.                                    *)
(*                                                                         *)
(* With Postgres (scenario.postgres) a session is kept twice: "durable" is *)
(* its status in gateway_auth_sessions, which authentication reads, and    *)
(* status the one in memory, which the admin handlers change; "absent" and *)
(* "none" say that there is no copy.  Users and memberships in Postgres    *)
(* are not written by the gateway.                                         *)
(***************************************************************************)
EXTENDS AdminDirectory

CONSTANTS
    SessionTtl,       \* DEFAULT_AUTH_SESSION_TTL_SECONDS, in ticks
    AttemptTtl,       \* 600 seconds
    FailedWindow,     \* API_KEY_FAILED_AUTH_WINDOW_SECONDS
    MaxFailed,        \* API_KEY_FAILED_AUTH_MAX_ATTEMPTS
    Subjects,         \* the subjects and emails a login provider vouches for
    SingleUser        \* single_user_auth: its user, organization and project

\* The throttle lets at least one attempt through; the single user exists.
ASSUME LoginAssumption ==
    /\ MaxFailed \in Nat \ {0} /\ FailedWindow \in Nat
    /\ SingleUser.user \in DOMAIN Seed["user"]

\* A handler that is not an admin's: no freeze, no idempotency key.
Begins(a, route, next) ==
    /\ op' = [op EXCEPT ![a] =
                next ++ [route |-> route, scope |-> <<route>>, key |-> NoKey, hash |-> None,
                         at |-> clock, alone |-> TRUE, wrote |-> << >>, before |-> None,
                         after |-> None, kind |-> "session", id |-> None]]
    /\ answer' = Nobody
    /\ UNCHANGED <<store, idem, records, fixed>>

Ends(a) == op' = [op EXCEPT ![a] = NoOp]
-----------------------------------------------------------------------------
(* Sessions                                                                *)

\* AuthSessionRecord; "late" remembers whether the user was already shut out.
NewSession(u, org, project, expires, attempt) ==
    NewRow(Row("user", u).tenant,
           [user |-> u, org |-> org, project |-> project, expires |-> expires,
            attempt |-> attempt, durable |-> "none", late |-> ~ AcceptsAccess("user", u)],
           "active")

\* can_authenticate_at, of the copy that authentication reads.
CanAuthenticate(s, now) ==
    /\ s \in Ids("session")
    /\ Row("session", s).f.expires > now
    /\ IF scenario.postgres THEN Row("session", s).f.durable = "active"
       ELSE AcceptsAccess("session", s)

\* verify_auth_session_from_headers: the session and its user.
VerifyAuthSession(s, now) ==
    /\ CanAuthenticate(s, now)
    /\ LET u == Row("session", s).f.user
       IN IF scenario.postgres THEN Row("user", u).f.durable = "active"
          ELSE AcceptsAccess("user", u)

\* persist_auth_session: Postgres first, then the memory store.
PersistPostgresSession(a) ==
    /\ op[a].pc = "persist" /\ scenario.postgres
    /\ db' = [db EXCEPT !["session"] =
                Append(@, [op[a].session EXCEPT !.status = "absent", !.f.durable = "active"])]
    /\ op' = [op EXCEPT ![a].pc = "persist_memory", ![a].id = Len(db["session"]) + 1]
    /\ OnlyDirectory

\* insert_auth_session, in the memory store.
InsertAuthSession(a) ==
    /\ \/ /\ op[a].pc = "persist" /\ ~ scenario.postgres
          /\ db' = [db EXCEPT !["session"] =
                      Append(@, [op[a].session EXCEPT
                                   !.f.late = ~ AcceptsAccess("user", op[a].session.f.user)])]
          /\ op' = [op EXCEPT ![a].pc = op[a].then, ![a].id = Len(db["session"]) + 1]
       \/ /\ op[a].pc = "persist_memory"
          /\ db' = [db EXCEPT !["session"][op[a].id] =
                      [@ EXCEPT !.status = "active",
                                !.f.late = ~ AcceptsAccess("user", op[a].session.f.user)]]
          /\ Proceed(a, op[a].then)
    /\ OnlyDirectory

\* The handlers that answer with the session and keep no audit event.
AnswerSession(a) ==
    /\ op[a].pc = "answer_session"
    /\ Ends(a)
    /\ answer' = [tenant |-> Row("session", op[a].id).tenant, rows |-> {<<"session", op[a].id>>}]
    /\ UNCHANGED <<store, idem, records, fixed>>

GetCurrentAuthSession(a) ==
    /\ Calling(a, "get_current_auth_session")
    /\ \E s \in Ids("session") :
         /\ VerifyAuthSession(s, clock)
         /\ answer' = [tenant |-> Row("session", s).tenant, rows |-> {<<"session", s>>}]
    /\ UNCHANGED <<store, idem, records, op, fixed>>

\* active_organization_for_session.
ActiveOrganizationForSession(s, org) ==
    /\ org \in Ids("organization")
    /\ Row("organization", org).tenant = Row("session", s).tenant
    /\ AcceptsAccess("organization", org)
    /\ \E i \in Ids("organization_member") :
         /\ Row("organization_member", i).f.user = Row("session", s).f.user
         /\ Row("organization_member", i).f.org = org
         /\ AcceptsAccess("organization_member", i)

\* active_project_for_session.
ActiveProjectForSession(s, project) ==
    /\ project \in Ids("project")
    /\ Row("project", project).tenant = Row("session", s).tenant
    /\ AcceptsAccess("project", project)
    /\ ActiveOrganizationForSession(s, Row("project", project).f.org)
    /\ \E i \in ProjectMemberOf(Row("session", s).f.user, project) :
         AcceptsAccess("project_member", i)

\* select_session_project_for_organization, when no project is asked for: the
\* user's default, then the session's, then any other, the first that is active.
SelectSessionProject(s, org) ==
    LET fits(p) == p # None /\ ActiveProjectForSession(s, p) /\ Row("project", p).f.org = org
        user == Row("user", Row("session", s).f.user)
        preferred == <<user.f.project, Row("session", s).f.project>>
        others == {p \in Ids("project") : fits(p)}
    IN IF fits(preferred[1]) THEN {preferred[1]}
       ELSE IF fits(preferred[2]) THEN {preferred[2]}
       ELSE IF others = {} THEN {None} ELSE others

\* The context a session is moved to: an organization with the project asked for
\* or selected, or a project with its organization.
ContextOf(s, org) ==
    {<<org, p>> : p \in SelectSessionProject(s, org)
                          \cup {p \in Ids("project") : /\ ActiveProjectForSession(s, p)
                                                       /\ Row("project", p).f.org = org}}

Moves(a, route, s, context, then) ==
    Begins(a, route, [pc |-> then, id |-> s, context |-> context, then |-> "answer_session"])

UpdateSessionDefaultOrganization(a) ==
    /\ Calling(a, "update_session_default_organization")
    /\ \E s \in Ids("session"), org \in Ids("organization") :
         /\ VerifyAuthSession(s, clock)
         /\ ActiveOrganizationForSession(s, org)
         /\ Row("user", Row("session", s).f.user).version < MaxVersion
         /\ \E context \in ContextOf(s, org) :
              Moves(a, "update_session_default_organization", s, context, "default_context")
UpdateSessionActiveOrganization(a) ==
    /\ Calling(a, "update_session_active_organization")
    /\ \E s \in Ids("session"), org \in Ids("organization") :
         /\ VerifyAuthSession(s, clock)
         /\ ActiveOrganizationForSession(s, org)
         /\ \E context \in ContextOf(s, org) :
              Moves(a, "update_session_active_organization", s, context, "context")
UpdateSessionActiveProject(a) ==
    /\ Calling(a, "update_session_active_project")
    /\ \E s \in Ids("session"), p \in Ids("project") :
         /\ VerifyAuthSession(s, clock)
         /\ ActiveProjectForSession(s, p)
         /\ Moves(a, "update_session_active_project", s, <<Row("project", p).f.org, p>>, "context")

\* update_user_default_context.
UpdateUserDefaultContext(a) ==
    /\ op[a].pc = "default_context"
    /\ db' = [db EXCEPT !["user"][Row("session", op[a].id).f.user] =
                Patched(@, [status |-> "keep",
                            f |-> [org |-> op[a].context[1], project |-> op[a].context[2]]])]
    /\ Proceed(a, "context")
    /\ OnlyDirectory

\* Mistake: the session that was verified is written back.
WriteVerifiedSession(a) ==
    /\ op[a].pc = "context"
    /\ db' = [db EXCEPT !["session"][op[a].id].f.org = op[a].context[1],
                        !["session"][op[a].id].f.project = op[a].context[2],
                        !["session"][op[a].id].status = "active"]
    /\ Proceed(a, op[a].then)
    /\ OnlyDirectory

\* update_auth_session_active_context_by_hash: only a session that still can
\* authenticate, and only its context; otherwise the handler fails.
UpdateSessionActiveContext(a) ==
    /\ op[a].pc = "context"
    /\ IF CanAuthenticate(op[a].id, op[a].at)
       THEN /\ db' = [db EXCEPT !["session"][op[a].id].f =
                        [@ EXCEPT !.org = op[a].context[1], !.project = op[a].context[2]]]
            /\ Proceed(a, op[a].then)
       ELSE Ends(a) /\ UNCHANGED db
    /\ OnlyDirectory

LogoutCurrentAuthSession(a) ==
    /\ Calling(a, "logout_current_auth_session")
    /\ \E s \in Ids("session") :
         /\ VerifyAuthSession(s, clock)
         /\ Begins(a, "logout_current_auth_session",
                   [pc |-> IF scenario.postgres THEN "logout_postgres" ELSE "logout", id |-> s])

\* revoke_auth_session_by_hash: in Postgres, then in memory if it is there.
RevokeAuthSessionPostgres(a) ==
    /\ op[a].pc = "logout_postgres"
    /\ db' = [db EXCEPT !["session"][op[a].id].f.durable = "revoked"]
    /\ Proceed(a, "logout")
    /\ OnlyDirectory
RevokeSessionByHash(a) ==
    /\ op[a].pc = "logout"
    /\ db' = [db EXCEPT !["session"][op[a].id].status = IF @ = "absent" THEN @ ELSE "revoked"]
    /\ Proceed(a, "answer_session")
    /\ OnlyDirectory
-----------------------------------------------------------------------------
(* Login                                                                   *)

ListAuthLoginProviders(a) ==
    /\ Calling(a, "list_auth_login_providers")
    /\ Reads(a, {<<"login_provider", p>> : p \in {q \in ForTenant("login_provider", a) :
                                                    AcceptsAccess("login_provider", q)}})
GetAuthLoginProvider(a) ==
    /\ Calling(a, "get_auth_login_provider")
    /\ \E p \in Ids("login_provider") :
         /\ AcceptsAccess("login_provider", p)
         /\ answer' = [tenant |-> Row("login_provider", p).tenant, rows |-> {<<"login_provider", p>>}]
    /\ UNCHANGED <<store, idem, records, op, fixed>>

\* start_auth_login_provider: the attempt and its code verifier are stored under
\* two locks, but nobody knows the attempt's state token before the answer.
StartAuthLoginProvider(a) ==
    /\ Calling(a, "start_auth_login_provider")
    /\ Len(db["login_attempt"]) < scenario.logins
    /\ \E p \in Ids("login_provider") :
         /\ AcceptsAccess("login_provider", p)
         /\ db' = [db EXCEPT !["login_attempt"] =
                     Append(@, NewRow(Row("login_provider", p).tenant,
                                      [provider |-> p, expires |-> clock + AttemptTtl],
                                      "pending"))]
    /\ UNCHANGED op
    /\ OnlyDirectory

\* complete_auth_login_provider_callback, with the state token of an attempt.
CompleteAuthLoginProviderCallback(a) ==
    /\ Calling(a, "complete_auth_login_provider_callback")
    /\ \E p \in Ids("login_provider"), attempt \in Ids("login_attempt") :
         /\ AcceptsAccess("login_provider", p)
         /\ Begins(a, "complete_auth_login_provider_callback",
                   [pc |-> "consume", provider |-> p, attempt |-> attempt,
                    tenant |-> Row("login_provider", p).tenant])

\* Mistake: the attempt's status is not looked at.
ConsumeAgain(a) ==
    LET attempt == Row("login_attempt", op[a].attempt)
    IN attempt.f.provider = op[a].provider /\ attempt.f.expires > op[a].at

\* The attempt is this provider's, pending and has not expired.
Consumable(a) ==
    LET attempt == Row("login_attempt", op[a].attempt)
    IN /\ attempt.f.provider = op[a].provider
       /\ attempt.status = "pending"
       /\ attempt.f.expires > op[a].at

\* consume_login_attempt.
ConsumeLoginAttempt(a) ==
    /\ op[a].pc = "consume"
    /\ IF Consumable(a)
       THEN /\ db' = [db EXCEPT !["login_attempt"][op[a].attempt].status = "consumed"]
            /\ Proceed(a, "claims")
       ELSE Ends(a) /\ UNCHANGED db
    /\ OnlyDirectory

\* external_login_callback_claims and the checks against the attempt: the
\* provider vouches for a subject, or the claims are refused.
ExternalLoginCallbackClaims(a) ==
    /\ op[a].pc = "claims"
    /\ \/ \E subject \in Subjects :
            op' = [op EXCEPT ![a] = [pc |-> "identity", subject |-> subject] ++ @]
       \/ Ends(a)
    /\ UNCHANGED db
    /\ OnlyDirectory

\* The sessions a login of user u leads to.
LoginSession(a, u) ==
    NewSession(u, Row("user", u).f.org, Row("user", u).f.project, op[a].at + SessionTtl,
               op[a].attempt)

\* update_existing_external_identity: an identity of the subject lets its user
\* in if both are active; without one a user is made.
UpdateExistingExternalIdentity(a) ==
    /\ op[a].pc = "identity"
    /\ LET known == {i \in Ids("external_identity") :
                       /\ Row("external_identity", i).f.provider = op[a].provider
                       /\ Row("external_identity", i).f.subject = op[a].subject}
       IN IF known = {}
          THEN op' = [op EXCEPT ![a].pc = "new_user"]
          ELSE \E i \in known :
                 LET u == Row("external_identity", i).f.user
                 IN op' = IF AcceptsAccess("external_identity", i) /\ AcceptsAccess("user", u)
                          THEN [op EXCEPT ![a] = [pc |-> "persist", then |-> "finish", user |-> u,
                                                  about |-> <<"user", u>>,
                                                  after |-> Row("user", u).version,
                                                  session |-> LoginSession(a, u)] ++ @]
                          ELSE [op EXCEPT ![a] = NoOp]
    /\ UNCHANGED db
    /\ OnlyDirectory

\* upsert_external_login_identity, without one: the user, then the identity.
InsertLoginUser(a) ==
    /\ op[a].pc = "new_user"
    /\ db' = [db EXCEPT !["user"] =
                Append(@, NewRow(Row("login_provider", op[a].provider).tenant,
                                 [org |-> None, project |-> None, email |-> op[a].subject,
                                  durable |-> "none"], "active"))]
    /\ op' = [op EXCEPT ![a] = [pc |-> "new_identity", user |-> Len(db["user"]) + 1] ++ @]
    /\ OnlyDirectory
InsertLoginIdentity(a) ==
    /\ op[a].pc = "new_identity"
    /\ db' = [db EXCEPT !["external_identity"] =
                Append(@, NewRow(Row("login_provider", op[a].provider).tenant,
                                 [user |-> op[a].user, provider |-> op[a].provider,
                                  subject |-> op[a].subject], "active"))]
    /\ op' = [op EXCEPT ![a] = [pc |-> "persist", then |-> "finish", after |-> 1,
                                about |-> <<"user", op[a].user>>,
                                session |-> LoginSession(a, op[a].user)] ++ @]
    /\ OnlyDirectory

\* single_user_login: bootstrap_default_project refuses a user whose defaults
\* differ from the configured ones; the user's status is not looked at.
SingleUserLogin(a) ==
    /\ Calling(a, "single_user_login")
    /\ Len(db["session"]) < scenario.logins
    /\ LET user == Row("user", SingleUser.user)
       IN user.f.org = SingleUser.org /\ user.f.project = SingleUser.project
    /\ Begins(a, "single_user_login",
              [pc |-> "persist", then |-> "answer_session",
               session |-> NewSession(SingleUser.user, SingleUser.org, SingleUser.project,
                                      clock + SessionTtl, None)])
-----------------------------------------------------------------------------
(* Invitations                                                             *)

PreviewAuthInvitation(a) ==
    /\ Calling(a, "preview_auth_invitation")
    /\ \E i \in Ids("invitation") :
         answer' = [tenant |-> Row("invitation", i).tenant, rows |-> {<<"invitation", i>>}]
    /\ UNCHANGED <<store, idem, records, op, fixed>>

\* verify_session_matches_invitation: the invitation is to the session's user,
\* or to the user's email.
Addressed(i, u) ==
    \/ Row("invitation", i).f.user = u
    \/ /\ Row("invitation", i).f.email # None
       /\ Row("invitation", i).f.email = Row("user", u).f.email

AcceptAuthInvitation(a) ==
    /\ Mutating(a, "accept_auth_invitation")
    /\ \E s \in Ids("session"), i \in Ids("invitation") :
         /\ VerifyAuthSession(s, clock)
         /\ Row("session", s).tenant = Row("invitation", i).tenant
         /\ Addressed(i, Row("session", s).f.user)
         /\ Begins(a, "accept_auth_invitation",
                   [pc |-> "accept", invitation |-> i, session |-> s, about |-> <<"invitation", i>>,
                    tenant |-> Row("session", s).tenant,
                    user |-> Row("session", s).f.user,
                    before |-> Row("invitation", i).version])

\* Mistake: only the expiry is looked at again.
AcceptsUntilExpiry(a) == Row("invitation", op[a].invitation).f.expires > op[a].at

\* InvitationStatus::accepts_at.
AcceptsAt(a) ==
    /\ Row("invitation", op[a].invitation).status = "pending"
    /\ Row("invitation", op[a].invitation).f.expires > op[a].at

\* accept_organization_invitation, the part under the invitations' lock.
AcceptOrganizationInvitation(a) ==
    /\ op[a].pc = "accept"
    /\ IF AcceptsAt(a)
       THEN /\ db' = [db EXCEPT !["invitation"][op[a].invitation] =
                        Patched(@, NewStatus("accepted"))]
            /\ op' = [op EXCEPT ![a].pc = "invited_organization",
                                ![a].after = Row("invitation", op[a].invitation).version + 1]
       ELSE Ends(a) /\ UNCHANGED db
    /\ OnlyDirectory

\* upsert_invited_organization_membership: a suspended or removed member is
\* restored.
UpsertInvitedOrganizationMembership(a) ==
    /\ op[a].pc = "invited_organization"
    /\ LET invitation == Row("invitation", op[a].invitation)
           there == {i \in Ids("organization_member") :
                       /\ Row("organization_member", i).f.user = op[a].user
                       /\ Row("organization_member", i).f.org = invitation.f.org}
           by(row) == [row EXCEPT !.f.invitations = @ \cup {op[a].invitation}]
           id == IF there = {} THEN Len(db["organization_member"]) + 1
                 ELSE CHOOSE i \in there : TRUE
       IN /\ db' = IF there = {}
                   THEN [db EXCEPT !["organization_member"] =
                           Append(@, NewRow(invitation.tenant,
                                            [org |-> invitation.f.org, user |-> op[a].user,
                                             invitations |-> {op[a].invitation}], "active"))]
                   ELSE Replaced("organization_member", there,
                                 LAMBDA row : by(IF row.status = "active" THEN row
                                                 ELSE Patched(row, NewStatus("active"))))
          /\ op' = [op EXCEPT ![a] =
                      [member |-> id, pc |-> IF invitation.f.project = None THEN "defaults"
                                             ELSE "invited_project"] ++ @]
    /\ OnlyDirectory

\* upsert_invited_project_membership.
UpsertInvitedProjectMembership(a) ==
    /\ op[a].pc = "invited_project"
    /\ LET project == Row("invitation", op[a].invitation).f.project
           there == ProjectMemberOf(op[a].user, project)
           shut == {i \in there : ~ AcceptsAccess("project_member", i)}
       IN db' = IF there = {}
                THEN [db EXCEPT !["project_member"] =
                        Append(@, NewProjectMember(project, op[a].user, op[a].member))]
                ELSE Replaced("project_member", shut,
                              LAMBDA row : Patched(row, NewStatus("active")))
    /\ Proceed(a, "defaults")
    /\ OnlyDirectory

\* repair_user_defaults_after_invite_accept: each default that is not set.
RepairUserDefaults(a) ==
    /\ op[a].pc = "defaults"
    /\ LET invitation == Row("invitation", op[a].invitation)
           user == Row("user", op[a].user)
           org == IF user.f.org = None THEN invitation.f.org ELSE user.f.org
           project == IF user.f.project = None THEN invitation.f.project ELSE user.f.project
       IN /\ db' = IF user.f.org = org /\ user.f.project = project THEN db
                   ELSE [db EXCEPT !["user"][op[a].user] =
                           Patched(@, [status |-> "keep", f |-> [org |-> org, project |-> project]])]
          /\ op' = [op EXCEPT ![a] =
                      [pc |-> "context", then |-> "finish", id |-> op[a].session,
                       context |-> <<invitation.f.org, invitation.f.project>>] ++ @]
    /\ OnlyDirectory
-----------------------------------------------------------------------------
(* Authentication of requests                                              *)

\* authenticate_request with a session token: the session, and an active
\* membership of the project named or of the session's; the answer is the scope
\* the actor gets.
AuthenticateSession(a) ==
    /\ Calling(a, "authenticate_request")
    /\ \E s \in Ids("session"), project \in Ids("project") :
         /\ CanAuthenticate(s, clock)
         /\ \E i \in ProjectMemberOf(Row("session", s).f.user, project) :
              /\ IF scenario.postgres THEN Row("project_member", i).f.durable = "active"
                 ELSE AcceptsAccess("project_member", i)
              /\ answer' = [tenant |-> Row("project_member", i).tenant,
                            rows |-> {<<"project", project>>}]
    /\ UNCHANGED <<store, idem, records, op, fixed>>

\* The failures kept for a key prefix; "fresh" are those within the window.
Failures(prefix) ==
    {i \in Ids("failed_auth") : /\ Row("failed_auth", i).f.prefix = prefix
                                /\ Row("failed_auth", i).status = "active"}
Fresh(prefix, now) ==
    {i \in Failures(prefix) : Row("failed_auth", i).f.at > now - FailedWindow}
Forget(ids) == Replaced("failed_auth", ids, LAMBDA row : [row EXCEPT !.status = "deleted"])

\* Mistake: one failure too many is allowed.
FailedAuthAllowedAtLimit(prefix, now) == Cardinality(Fresh(prefix, now)) <= MaxFailed

\* api_key_failed_auth_allowed.
FailedAuthAllowed(prefix, now) == Cardinality(Fresh(prefix, now)) < MaxFailed

\* verify_api_key begins: the throttle of the prefix of the key that is
\* presented (the key with the secret numbered "secret" of some API key, with
\* the right secret or only its prefix).
VerifyApiKey(a) ==
    /\ Calling(a, "verify_api_key")
    /\ Len(db["failed_auth"]) < scenario.failures
    /\ \E id \in Ids("api_key"), genuine \in BOOLEAN :
         \E secret \in 1 .. Row("api_key", id).version :
           LET prefix == <<id, secret>>
           IN /\ db' = Forget(Failures(prefix) \ Fresh(prefix, clock))
              /\ op' = IF FailedAuthAllowed(prefix, clock)
                       THEN [op EXCEPT ![a] =
                               [pc |-> "candidates", route |-> "verify_api_key", at |-> clock,
                                prefix |-> prefix, genuine |-> genuine, key |-> NoKey,
                                scope |-> << >>, wrote |-> << >>]]
                       ELSE op
    /\ OnlyDirectory

\* The candidates of the prefix, the one that can authenticate and whose secret
\* it is (candidates_by_prefix, can_authenticate_at, verify_secret).
VerifySecret(a) ==
    /\ op[a].pc = "candidates"
    /\ LET key == Row("api_key", op[a].prefix[1])
       IN op' = [op EXCEPT ![a].pc =
                   IF /\ op[a].genuine
                      /\ key.f.secret = op[a].prefix[2]
                      /\ key.status = "active"
                      /\ key.f.expires > op[a].at
                   THEN "last_used" ELSE "failed"]
    /\ UNCHANGED db
    /\ OnlyDirectory

\* record_api_key_failed_auth.
RecordApiKeyFailedAuth(a) ==
    /\ op[a].pc = "failed"
    /\ LET prefix == op[a].prefix
           kept == Forget(Failures(prefix) \ Fresh(prefix, op[a].at))
       IN db' = [kept EXCEPT !["failed_auth"] =
                   Append(@, NewRow(None, [prefix |-> prefix, at |-> op[a].at], "active"))]
    /\ Ends(a)
    /\ OnlyDirectory

\* record_api_key_last_used: the failures of the prefix are forgotten, and the
\* actor has the key's scope.
RecordApiKeyLastUsed(a) ==
    /\ op[a].pc = "last_used"
    /\ db' = Forget(Failures(op[a].prefix))
    /\ Ends(a)
    /\ answer' = [tenant |-> Row("api_key", op[a].prefix[1]).tenant,
                  rows |-> {<<"api_key", op[a].prefix[1]>>}]
    /\ UNCHANGED <<secrets, idem, records, fixed>>
=============================================================================
