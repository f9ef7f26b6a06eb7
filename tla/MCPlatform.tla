------------------------------ MODULE MCPlatform ------------------------------
(***************************************************************************)
(* A small instance of the platform service: two requests in flight.  In   *)
(* tenant 1 user 1 owns the tenant and user 2, who logs in with subject 1, *)
(* administers organization 1; subject 2 has never logged in.  User 4 owns *)
(* tenant 2.  One of the seeded invitations is of organization 2 and names *)
(* a project of organization 1.  One scenario per group of handlers that   *)
(* work on the same rows, in memory and in Postgres.                       *)
(***************************************************************************)
EXTENDS PlatformIdentity

Symmetry == Permutations(Clients)

Absent == [status |-> "absent"]
MCPersonal ==
    <<[tenant |-> 1, provider |-> 1, user |-> 2, org |-> 1, project |-> 1, identity |-> 1,
       org_member |-> 2, project_member |-> 2, binding |-> 2],
      [tenant |-> 1, provider |-> 1, user |-> 3, org |-> 4, project |-> 4, identity |-> 2,
       org_member |-> 4, project_member |-> 4, binding |-> 4]>>
MCSingleUser ==
    [tenant |-> 1, provider |-> 9, user |-> 5, org |-> 5, project |-> 5, identity |-> 4,
     org_member |-> 5, project_member |-> 5, binding |-> 5]

User(t) == [tenant |-> t, status |-> "active", version |-> 1]
Session(t, org, project, u) == SessionRecord(t, org, project, u, None)
Member(t, org, u) == OrganizationMembershipRecord(t, org, u, "user")
ProjectMember(t, org, project, u, m) == ProjectMembershipRecord(t, org, project, u, m, "user")
Binding(t, org, project, u, role) ==
    [tenant |-> t, org |-> org, project |-> project, principal |-> u, role |-> role,
     status |-> "active", version |-> 1]
Credential(via, status) ==
    [tenant |-> 1, org |-> None, project |-> None, principal |-> 8, kind |-> "service",
     via |-> via, status |-> status]
Identity(t, u, provider, subject) ==
    [tenant |-> t, principal |-> u, kind |-> "oidc", provider |-> provider, subject |-> subject,
     status |-> "active"]
Provider(t) == [tenant |-> t, status |-> "active", secret |-> None]
Owned(t, org, project, kind, stored) ==
    [kind |-> kind, tenant |-> t, org |-> org, project |-> project, stored |-> stored,
     status |-> "active"]

MCSeed ==
    [user |-> <<User(1), User(1), Absent, User(2), Absent>>,
     session |-> <<Session(1, 1, 1, 1), Session(1, 1, 1, 2), Session(2, 3, 3, 4),
                   Absent, Absent, Absent>>,
     credential |-> <<Credential("bearer", "active"), Credential("mtls", "active"),
                      Credential("bearer", "revoked")>>,
     org_member |-> <<Member(1, 1, 1), Member(1, 1, 2), Member(2, 3, 4), Absent, Absent, Absent,
                      Absent>>,
     project_member |-> <<ProjectMember(1, 1, 1, 1, 1), ProjectMember(1, 1, 1, 2, 2),
                          ProjectMember(2, 3, 3, 4, 3), Absent, Absent, Absent, Absent>>,
     binding |-> <<Binding(1, None, None, 1, "tenant_owner"),
                   Binding(1, 1, None, 2, "organization_admin"),
                   Binding(2, None, None, 4, "tenant_owner"), Absent, Absent,
                   Binding(1, None, None, 8, "platform_operator"),
                   Binding(1, 1, 1, 2, "project_viewer"), Absent>>,
     identity |-> <<Identity(1, 2, 1, 1), Absent, Identity(2, 4, 2, 3), Absent>>,
     provider |-> <<Provider(1), Provider(2), Absent>>,
     attempt |-> <<Absent, Absent>>,
     invitation |-> <<[tenant |-> 1, org |-> 2, project |-> 2, email |-> None, principal |-> 2,
                       token |-> 1, status |-> "pending", expires |-> 1, version |-> 1],
                      [tenant |-> 1, org |-> 1, project |-> None, email |-> None, principal |-> 2,
                       token |-> 2, status |-> "pending", expires |-> 2, version |-> 1],
                      [tenant |-> 1, org |-> 2, project |-> 1, email |-> None, principal |-> 2,
                       token |-> 3, status |-> "pending", expires |-> 1, version |-> 1],
                      Absent>>,
     secret |-> <<[tenant |-> 1, backend |-> "environment", status |-> "active"],
                  [tenant |-> 2, backend |-> "environment", status |-> "active"], Absent>>,
     resource |-> <<Owned(1, 1, 1, "Run", TRUE), Owned(1, 1, 1, "Approval", FALSE),
                    Owned(2, 3, 3, "Conversation", TRUE)>>]

MCRequests ==
    [organization_member |-> {[id |-> None, org |-> 1, principal |-> 2, kind |-> "user"],
                              [id |-> 6, org |-> 2, principal |-> 1, kind |-> "user"],
                              [id |-> 1, org |-> 2, principal |-> 2, kind |-> "user"]},
     project_member |-> {[id |-> None, member |-> 2, project |-> 1],
                         [id |-> 6, member |-> 1, project |-> 2]},
     role_binding |-> {[id |-> 8, org |-> 1, project |-> None, principal |-> 2,
                        role |-> "organization_admin"],
                       [id |-> 2, org |-> 1, project |-> 1, principal |-> 2,
                        role |-> "project_developer"],
                       [id |-> 8, org |-> 1, project |-> None, principal |-> 2,
                        role |-> "project_viewer"]},
     invitation |-> {[id |-> 4, org |-> 1, project |-> 1, email |-> None, principal |-> 2,
                      expires |-> 1],
                     [id |-> 1, org |-> 1, project |-> None, email |-> 1, principal |-> None,
                      expires |-> 1]},
     provider |-> {[id |-> 3, status |-> "active", secret |-> 1],
                   [id |-> 1, status |-> "disabled", secret |-> None],
                   [id |-> 3, status |-> "active", secret |-> 2]},
     secret |-> {[id |-> 3, backend |-> "environment"], [id |-> 3, backend |-> "in_memory"]}]

On(postgres, routes, requests) ==
    [routes |-> routes, requests |-> requests, postgres |-> postgres, single_user |-> FALSE,
     horizon |-> 0, restarts |-> 0, drops |-> TRUE]
Reads ==
    {"list_platform_audit_events", "list_platform_users", "get_platform_user",
     "list_user_auth_sessions", "list_user_external_identities", "get_user_external_identity",
     "list_organization_members", "get_organization_member", "list_project_members",
     "get_project_member", "list_role_bindings", "get_role_binding",
     "list_organization_invitations", "get_organization_invitation",
     "list_oidc_identity_providers", "get_oidc_identity_provider", "list_platform_secret_refs",
     "get_platform_secret_ref", "handle_foundation_request", "list_auth_providers",
     "get_current_auth_session", "preview_auth_invitation"}
Logins == {"start_oidc_login", "oidc_login_callback"}

MCScenarios ==
    UNION {{
     On(postgres, Reads \cup {"unlink_user_external_identity", "create_platform_secret_ref",
                              "create_oidc_identity_provider"}, 2),
     On(postgres, {"update_platform_user_status", "revoke_user_auth_session",
                   "logout_current_auth_session", "update_active_project",
                   "update_active_organization"}, 2),
     On(postgres, {"update_organization_member_status", "remove_organization_member",
                   "create_organization_member", "create_project_member",
                   "update_project_member_status"}, 2),
     On(postgres, {"update_organization_member_status", "create_project_member"}, 3),
     On(postgres, {"remove_organization_member", "create_role_binding",
                   "update_role_binding_status"}, 2),
     On(postgres, {"remove_organization_member", "accept_auth_invitation",
                   "create_role_binding"}, 3),
     On(postgres, Logins \cup {"remove_organization_member"}, 3),
     [On(postgres, {"create_organization_invitation", "revoke_organization_invitation",
                    "accept_auth_invitation"}, 3) EXCEPT !.horizon = 1],
     [On(postgres, Logins, 4) EXCEPT !.horizon = 1],
     On(postgres, Logins \cup {"update_platform_user_status"}, 3),
     [On(postgres, {"single_user_login", "logout_current_auth_session",
                    "update_platform_user_status"}, IF postgres THEN 2 ELSE 3)
        EXCEPT !.single_user = TRUE, !.restarts = 1]
    } : postgres \in BOOLEAN}
=============================================================================
