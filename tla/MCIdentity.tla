------------------------------ MODULE MCIdentity ------------------------------
(***************************************************************************)
(* A small instance of the identity side: two requests in flight, tenant 1 *)
(* with two organizations and two users who share an email, tenant 2 with  *)
(* rows nobody may reach.  One scenario per group of handlers that work on *)
(* the same rows, with the memory store and with Postgres.                 *)
(***************************************************************************)
EXTENDS GatewayIdentity, TLC

Symmetry == Permutations(Admins)
MCTenantOf == [a \in Admins |-> 1]
MCSingleUser == [user |-> 1, org |-> 1, project |-> 1]

R(t, f) == NewRow(t, f, "active")
User(t, org, project, email) ==
    R(t, [org |-> org, project |-> project, email |-> email, durable |-> "active"])
Session(t, u, org, project) ==
    R(t, [user |-> u, org |-> org, project |-> project, expires |-> 1, attempt |-> None,
          durable |-> "active", late |-> FALSE])
OrganizationMember(t, org, u) == R(t, [org |-> org, user |-> u, invitations |-> {}])
ProjectMember(t, org, project, u, member) ==
    R(t, [org |-> org, project |-> project, user |-> u, member |-> member,
          durable |-> "active"])
Invitation(org, project, email, u, expires) ==
    NewRow(1, [org |-> org, project |-> project, email |-> email, user |-> u,
               expires |-> expires], "pending")

MCSeed ==
    [organization |-> <<R(1, << >>), R(1, << >>), R(2, << >>)>>,
     project |-> <<R(1, [org |-> 1]), R(1, [org |-> 2]), R(2, [org |-> 3])>>,
     user |-> <<User(1, 1, 1, 1), User(1, 1, None, 1), User(2, 3, 3, 2)>>,
     session |-> <<Session(1, 1, 1, 1), Session(1, 2, None, None), Session(2, 3, 3, 3)>>,
     external_identity |-> <<R(1, [user |-> 1, provider |-> 1, subject |-> 1])>>,
     organization_member |-> <<OrganizationMember(1, 1, 1), OrganizationMember(1, 1, 2),
                               OrganizationMember(2, 3, 3)>>,
     project_member |-> <<ProjectMember(1, 1, 1, 1, 1), ProjectMember(2, 3, 3, 3, 3)>>,
     service_account |-> <<R(1, [org |-> 1, project |-> None])>>,
     api_key |-> <<R(1, [org |-> 1, project |-> 1, owner |-> <<"user", 1>>, expires |-> 9,
                         secret |-> 1])>>,
     invitation |-> <<Invitation(1, 1, 1, None, 1), Invitation(2, 2, None, 2, 1)>>,
     login_provider |-> <<R(1, << >>), NewRow(1, << >>, "disabled"), R(2, << >>)>>,
     login_attempt |-> << >>,
     failed_auth |-> << >>,
     secret_ref |-> << >>,
     emergency_operation |-> << >>]

MCRequests ==
    [service_account |-> {[shape |-> TRUE, org |-> 1, project |-> None],
                          [shape |-> TRUE, org |-> None, project |-> None],
                          [shape |-> TRUE, org |-> 2, project |-> 1],
                          [shape |-> TRUE, org |-> None, project |-> 1]},
     api_key |-> {[shape |-> TRUE, org |-> 1, project |-> None, owner |-> <<"user", 1>>,
                   expires |-> 1],
                  [shape |-> TRUE, org |-> 1, project |-> None, owner |-> <<"user", 3>>,
                   expires |-> 1],
                  [shape |-> TRUE, org |-> 1, project |-> None,
                   owner |-> <<"service_account", 1>>, expires |-> 1]},
     invitation |-> {[shape |-> TRUE, project |-> 1, email |-> 1, user |-> None,
                      expires |-> 1],
                     [shape |-> TRUE, project |-> None, email |-> None, user |-> 2,
                      expires |-> 1],
                     [shape |-> TRUE, project |-> None, email |-> 1, user |-> 2,
                      expires |-> 1]}]

Calls(routes, mutations, horizon) ==
    [routes |-> routes, mutations |-> mutations, horizon |-> horizon, logins |-> 0,
     failures |-> 0, postgres |-> FALSE]
Logins(routes, mutations, horizon, logins, postgres) ==
    [Calls(routes, mutations, horizon) EXCEPT !.logins = logins, !.postgres = postgres]

MCScenarios ==
    {Calls({"list_projects", "get_project", "update_project", "list_organizations",
            "get_organization", "update_organization", "list_users", "get_user",
            "list_user_sessions", "list_user_external_identities",
            "get_user_external_identity", "list_organization_members",
            "get_organization_member", "list_project_members", "get_project_member",
            "list_service_accounts", "get_service_account", "list_api_keys", "get_api_key",
            "list_organization_invitations", "get_organization_invitation",
            "get_current_auth_session", "list_auth_login_providers",
            "get_auth_login_provider", "preview_auth_invitation", "authenticate_request"}, 1, 0),
     Calls({"create_service_account", "update_service_account"}, 2, 0),
     Calls({"update_organization_member", "create_project_member", "update_project_member"}, 2, 0),
     Logins({"update_user", "unlink_user_external_identity", "start_auth_login_provider",
             "complete_auth_login_provider_callback"}, 2, 0, 1, FALSE),
     Logins({"start_auth_login_provider", "complete_auth_login_provider_callback"}, 2, 1, 2, TRUE),
     Logins({"update_user", "single_user_login", "update_session_default_organization"},
            1, 0, 4, TRUE),
     Logins({"update_user", "revoke_user_session", "update_session_active_organization",
             "update_session_active_project", "logout_current_auth_session"}, 2, 0, 0, FALSE),
     Logins({"revoke_user_session", "update_session_active_organization",
             "logout_current_auth_session", "authenticate_request"}, 1, 1, 0, TRUE),
     Calls({"create_organization_invitation", "revoke_organization_invitation",
            "accept_auth_invitation"}, 2, 0),
     Calls({"revoke_organization_invitation", "accept_auth_invitation",
            "logout_current_auth_session"}, 2, 1),
     Calls({"accept_auth_invitation", "update_organization_member",
            "update_project_member"}, 2, 0),
     [Calls({"create_api_key", "rotate_api_key", "disable_api_key", "verify_api_key"}, 2, 0)
        EXCEPT !.failures = 1],
     [Calls({"rotate_api_key", "disable_api_key"}, 2, 0) EXCEPT !.postgres = TRUE],
     [Calls({"verify_api_key"}, 1, 2) EXCEPT !.failures = 3]}
=============================================================================
