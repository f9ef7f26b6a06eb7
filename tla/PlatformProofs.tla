----------------------------- MODULE PlatformProofs ----------------------------
(***************************************************************************)
(* The platform service, for every number of clients, either repository    *)
(* and any rows it may start with: rows stay well formed, answers stay in  *)
(* the tenant of the one who asked, an invitation admits once, logging in  *)
(* implements LoginSessions, and whoever is shut out keeps nothing.        *)
(*                                                                         *)
(* Every action of a client is shown to be a StepOf it, which says what it *)
(* may do to the tables, to the handler, to logins and to invitations, and *)
(* a ShutStep of it, which says what it leaves to those who are shut out.  *)
(* The invariants and the refinement are proved of StepOf and ShutStep.    *)
(***************************************************************************)
EXTENDS PlatformIdentity, WellFoundedInduction, SequenceTheorems, TLAPS

-----------------------------------------------------------------------------
(* The tables                                                              *)

\* A non-empty set of ids has a first one.
LEMMA FirstIn ==
    ASSUME NEW S, S \subseteq Nat, S # {}
    PROVE  First(S) \in S
<1>1. PICK x \in S : \A y \in S : ~ (<<y, x>> \in OpToRel(<, Nat))
    BY NatLessThanWellFounded, WFMin, Zenon
<1>2. \A y \in S : ~ (<<y, x>> \in {ss \in Nat \X Nat : ss[1] < ss[2]})
    BY <1>1, Zenon DEF OpToRel
<1>3. ASSUME NEW y \in S PROVE x <= y
  <2>1. x \in Nat /\ y \in Nat
      OBVIOUS
  <2>2. ~ (y < x)
    <3> DEFINE ss == <<y, x>>
    <3>1. ss \in Nat \X Nat /\ ss[1] = y /\ ss[2] = x
        BY <2>1
    <3> HIDE DEF ss
    <3> QED
        BY <1>2, <3>1 DEF ss
  <2> QED
      BY <2>1, <2>2
<1> QED
    BY <1>1, <1>3, Zenon DEF First

IsFcn(f) == f = [x \in DOMAIN f |-> f[x]]
DbShape ==
    /\ DOMAIN db = DOMAIN Seed
    /\ \A k \in DOMAIN db : IsFcn(db[k]) /\ DOMAIN db[k] = DOMAIN Seed[k]

\* The ids of a table are numbers.
LEMMA IdsAreNumbers ==
    ASSUME DbShape, NEW k \in DOMAIN Seed
    PROVE  DOMAIN db[k] \subseteq Nat
<1>1. Seed[k] \in Seq({Seed[k][i] : i \in DOMAIN Seed[k]})
    BY SeedAssumption
<1>2. DOMAIN Seed[k] = 1 .. Len(Seed[k]) /\ Len(Seed[k]) \in Nat
    BY <1>1
<1> QED
    BY <1>2 DEF DbShape

\* A table's unused id is one of its places, and unused.
LEMMA NewIdUnused ==
    ASSUME DbShape, NEW k \in DOMAIN Seed, Unused(k) # {}
    PROVE  NewId(k) \in DOMAIN db[k] /\ Row(k, NewId(k)).status = "absent"
<1>1. NewId(k) \in Unused(k)
    BY FirstIn, IdsAreNumbers DEF NewId, Unused
<1> QED
    BY <1>1 DEF Unused, Ids

\* What a row may become: any well-formed one, and not an unused id again.
Written(k, row) == k \in DOMAIN Statuses => WellFormed(k, row) /\ row.status # "absent"
Grows ==
    /\ DbShape'
    /\ \A k \in DOMAIN Seed : \A i \in DOMAIN Seed[k] :
         db'[k][i] = db[k][i] \/ Written(k, db'[k][i])

\* What a step that grows the tables keeps.
LEMMA GrowsKeeps ==
    ASSUME DbShape, TypeOK, Grows
    PROVE  /\ TypeOK'
           /\ \A k \in DOMAIN Statuses : Ids(k) \subseteq Ids(k)'
<1>1. DOMAIN Statuses \subseteq DOMAIN Seed
    BY SeedAssumption
<1>2. ASSUME NEW k \in DOMAIN Statuses, NEW i \in DOMAIN db[k]
      PROVE  /\ WellFormed(k, db'[k][i])
             /\ db[k][i].status # "absent" => db'[k][i].status # "absent"
    BY <1>1, <1>2 DEF DbShape, TypeOK, Grows, Written, Row
<1>3. \A k \in DOMAIN Statuses : DOMAIN db'[k] = DOMAIN db[k]
    BY <1>1 DEF DbShape, Grows
<1> QED
    BY <1>2, <1>3 DEF TypeOK, Ids, Row

\* One row of one table is written.
LEMMA PutGrows ==
    ASSUME DbShape, NEW k \in DOMAIN Seed, NEW i, NEW row, db' = Put(k, i, row),
           i \in DOMAIN db[k] => Written(k, row)
    PROVE  /\ Grows
           /\ \A j \in DOMAIN Seed : j # k => db'[j] = db[j]
           /\ \A n \in DOMAIN db[k] : db'[k][n] = IF n = i THEN row ELSE db[k][n]
<1>1. /\ DOMAIN db' = DOMAIN db
      /\ \A j \in DOMAIN db : j # k => db'[j] = db[j]
    BY DEF Put, DbShape, IsFcn
<1>2. db'[k] = [db[k] EXCEPT ![i] = row]
    BY DEF Put, DbShape
<1>3. /\ DOMAIN db'[k] = DOMAIN db[k] /\ IsFcn(db'[k])
      /\ \A n \in DOMAIN db[k] : db'[k][n] = IF n = i THEN row ELSE db[k][n]
    BY <1>2 DEF IsFcn
<1>4. DbShape'
  <2> SUFFICES ASSUME NEW j \in DOMAIN db PROVE IsFcn(db'[j]) /\ DOMAIN db'[j] = DOMAIN Seed[j]
      BY <1>1 DEF DbShape
  <2> QED
      BY <1>1, <1>3 DEF DbShape
<1> QED
    BY <1>1, <1>3, <1>4 DEF DbShape, Grows

\* Some rows of one table are written.
LEMMA PutAllGrows ==
    ASSUME DbShape, NEW k \in DOMAIN Seed, NEW table,
           db' = [db EXCEPT ![k] = table],
           IsFcn(table), DOMAIN table = DOMAIN db[k],
           \A i \in DOMAIN db[k] : table[i] = db[k][i] \/ Written(k, table[i])
    PROVE  /\ Grows
           /\ \A j \in DOMAIN Seed : j # k => db'[j] = db[j]
           /\ db'[k] = table
<1>1. /\ DOMAIN db' = DOMAIN db
      /\ \A j \in DOMAIN db : j # k => db'[j] = db[j]
      /\ db'[k] = table
    BY DEF DbShape, IsFcn
<1>2. DbShape'
    BY <1>1 DEF DbShape
<1> QED
    BY <1>1, <1>2 DEF DbShape, Grows

-----------------------------------------------------------------------------
(* Handlers                                                                *)

\* The steps of an OIDC login, those in memory and those in Postgres.
LoginPcs ==
    {"exchange", "can_login", "read_user", "record_user", "upsert_identity", "consume",
     "record_session", "consume_sql", "commit_login"}
MemoryPcs == {"read_user", "record_user", "upsert_identity", "consume", "record_session"}
SqlPcs == {"consume_sql", "commit_login"}
\* The steps at which a handler has an invitation in hand.
InvitePcs == {"accept_invitation", "select_invitation", "commit_invitation", "revoke_invitation"}

\* What a handler holds fits the write it is at.
Ready(x) ==
    /\ "pc" \in DOMAIN x
    /\ x.pc \in LoginPcs => x.attempt \in Ids("attempt")
    /\ x.pc \in MemoryPcs => ~Postgres
    /\ x.pc \in SqlPcs => Postgres
    /\ x.pc = "record_user" =>
         (Personal[x.subject].user \in DOMAIN Seed["user"] => WellFormed("user", x.user))
    /\ x.pc = "set_user_status" => x.status \in UserStatus
    /\ x.pc = "set_org_member" => x.id \in Ids("org_member") /\ x.status \in MembershipStatus
    /\ x.pc = "set_project_member" =>
         x.id \in Ids("project_member") /\ x.status \in MembershipStatus
    /\ x.pc = "set_binding" => x.id \in Ids("binding") /\ x.status \in RoleBindingStatus
    /\ x.pc = "upsert_org_member" => Written("org_member", x.row) /\ x.row.status = "active"
    /\ x.pc = "upsert_project_member" => Written("project_member", x.row)
    /\ x.pc = "upsert_binding" => Written("binding", x.row)
    /\ x.pc = "insert_invitation" => Written("invitation", x.row) /\ x.row.status = "pending"
    /\ x.pc = "single_user_memberships" => "step" \in DOMAIN x /\ x.step \in 1 .. 5
    /\ x.pc \in InvitePcs => x.id \in Ids("invitation")

\* Readiness lasts while the tables grow.
LEMMA ReadyLasts ==
    ASSUME DbShape, TypeOK, Grows, scenario' = scenario, NEW c, Ready(op'[c])
    PROVE  Ready(op[c])'
<1>1. {"attempt", "org_member", "project_member", "binding", "invitation"} \subseteq DOMAIN Statuses
    BY DEF Statuses
<1>2. /\ Ids("attempt") \subseteq Ids("attempt")'
      /\ Ids("org_member") \subseteq Ids("org_member")'
      /\ Ids("project_member") \subseteq Ids("project_member")'
      /\ Ids("binding") \subseteq Ids("binding")'
      /\ Ids("invitation") \subseteq Ids("invitation")'
    BY <1>1, GrowsKeeps
<1>3. Postgres' = Postgres
    BY DEF Postgres
<1> QED
    BY <1>2, <1>3 DEF Ready, Written, WellFormed, Statuses

HistoryFields == {"requests", "tokens", "admitted", "late", "partial", "restarts", "audits"}
Base ==
    /\ DbShape /\ TypeOK
    /\ DOMAIN op = Clients /\ \A c \in Clients : Ready(op[c])
    /\ HistoryFields \subseteq DOMAIN history

-----------------------------------------------------------------------------
(* Steps                                                                   *)

\* A step of client c.
Acts(c) ==
    /\ Grows /\ scenario' = scenario
    /\ DOMAIN op' = Clients /\ \A d \in Clients \ {c} : op'[d] = op[d]
    /\ Ready(op[c])'
    /\ HistoryFields \subseteq DOMAIN history'
    /\ AnswersStayInTenant'

\* Sessions change only by ending, or in what they are used for.
Ends ==
    \A s \in DOMAIN db["session"] :
        LET old == db["session"][s]
            new == db'["session"][s]
        IN \/ new = old
           \/ /\ old.status = "active" /\ new.status # "absent"
              /\ new.attempt = old.attempt

\* A step that has no part in logging in, and one that has none in invitations.
LoginPlain(c) ==
    /\ db'["attempt"] = db["attempt"] /\ Ends
    /\ op[c].pc # "record_session"
    /\ op'[c].pc \notin {"record_session", "commit_login"}
InvitePlain(c) ==
    /\ db'["invitation"] = db["invitation"]
    /\ history'.tokens = history.tokens /\ history'.admitted = history.admitted
    /\ op'[c].pc # "insert_invitation"
Plain(c) == Acts(c) /\ LoginPlain(c) /\ InvitePlain(c)

\* The tables are left alone.
LEMMA SameTables ==
    ASSUME DbShape, db' = db
    PROVE  Grows /\ Ends
BY DEF DbShape, Grows, Ends

\* The history that no invitation is in.
LEMMA HistoryKept ==
    ASSUME Base, NEW n
    PROVE  LET h == [history EXCEPT !.requests = n]
           IN /\ HistoryFields \subseteq DOMAIN h
              /\ h.tokens = history.tokens /\ h.admitted = history.admitted
BY DEF Base, HistoryFields

\* A handler that only reads answers within the actor's tenant.
LEMMA AnswersPlain ==
    ASSUME Base, NEW c \in Clients, NEW actor, NEW rows, Answers(c, actor, rows),
           op[c].pc = "idle", \A row \in rows : row.tenant = actor.tenant
    PROVE  Plain(c)
<1>1. Grows /\ Ends
    BY SameTables DEF Base, Answers
<1>2. HistoryFields \subseteq DOMAIN history'
      /\ history'.tokens = history.tokens /\ history'.admitted = history.admitted
    BY HistoryKept DEF Answers
<1>3. AnswersStayInTenant'
    BY DEF Answers, AnswersStayInTenant
<1>4. Ready(op[c])'
    BY <1>1, ReadyLasts DEF Answers, Base
<1> QED
    BY <1>1, <1>2, <1>3, <1>4 DEF Plain, Acts, LoginPlain, InvitePlain, Answers, Base

\* What a handler holds while no login and no invitation depends on it.
Apart(x) == x.pc \notin {"record_session", "commit_login", "insert_invitation"}

\* A handler begins.
LEMMA StartsPlain ==
    ASSUME Base, NEW c \in Clients, NEW held, Starts(c, held), op[c].pc = "idle",
           Ready(held), Apart(held)
    PROVE  Plain(c)
<1>1. Grows /\ Ends
    BY SameTables DEF Base, Starts
<1>2. HistoryFields \subseteq DOMAIN history'
      /\ history'.tokens = history.tokens /\ history'.admitted = history.admitted
    BY HistoryKept DEF Starts
<1>3. AnswersStayInTenant'
    BY DEF Starts, AnswersStayInTenant, Nobody
<1>4. op'[c] = held /\ DOMAIN op' = Clients /\ \A d \in Clients \ {c} : op'[d] = op[d]
    BY DEF Starts, Base
<1>5. Ready(op[c])'
    BY <1>1, <1>4, ReadyLasts DEF Starts, Base
<1> QED
    BY <1>1, <1>2, <1>3, <1>4, <1>5 DEF Plain, Acts, LoginPlain, InvitePlain, Starts, Base, Apart

\* A handler goes on, or ends, without a write.
LEMMA MovesPlain ==
    ASSUME Base, NEW c \in Clients, NEW next, op' = [op EXCEPT ![c] = next], answer' = Nobody,
           UNCHANGED <<db, scenario>>, HistoryFields \subseteq DOMAIN history',
           history'.tokens = history.tokens, history'.admitted = history.admitted,
           op[c].pc # "record_session", Ready(next), Apart(next)
    PROVE  Plain(c)
<1>1. Grows /\ Ends
    BY SameTables DEF Base
<1>3. AnswersStayInTenant'
    BY DEF AnswersStayInTenant, Nobody
<1>4. op'[c] = next /\ DOMAIN op' = Clients /\ \A d \in Clients \ {c} : op'[d] = op[d]
    BY DEF Base
<1>5. Ready(op[c])'
    BY <1>1, <1>4, ReadyLasts DEF Base
<1> QED
    BY <1>1, <1>3, <1>4, <1>5 DEF Plain, Acts, LoginPlain, InvitePlain, Base, Apart

LEMMA NoOpReady == Ready(NoOp) /\ Apart(NoOp)
BY DEF Ready, Apart, NoOp, LoginPcs, MemoryPcs, SqlPcs, InvitePcs

LEMMA FailsPlain ==
    ASSUME Base, NEW c \in Clients, Fails(c), op[c].pc # "record_session"
    PROVE  Plain(c)
BY NoOpReady, MovesPlain DEF Fails, Base

\* A write after which the handler is ready.
LEMMA WritesActs ==
    ASSUME Base, NEW c \in Clients, NEW tables, NEW next, Writes(c, tables, next),
           Grows, Ready(next), HistoryFields \subseteq DOMAIN history'
    PROVE  /\ Acts(c) /\ op'[c] = next
<1>3. AnswersStayInTenant'
    BY DEF AnswersStayInTenant, Nobody, Writes
<1>4. op'[c] = next /\ DOMAIN op' = Clients /\ \A d \in Clients \ {c} : op'[d] = op[d]
    BY DEF Base, Writes
<1>5. Ready(op[c])'
    BY <1>4, ReadyLasts DEF Base, Writes
<1> QED
    BY <1>3, <1>4, <1>5 DEF Acts, Writes

\* The history of a step that admits nobody and makes no token.
Unheard ==
    /\ HistoryFields \subseteq DOMAIN history'
    /\ history'.tokens = history.tokens /\ history'.admitted = history.admitted

\* A write to a table that no login and no invitation is in.
LEMMA WritesPlain ==
    ASSUME Base, NEW c \in Clients, NEW k \in DOMAIN Seed \ {"attempt", "session", "invitation"},
           NEW i, NEW row, NEW next, Writes(c, Put(k, i, row), next), Unheard,
           i \in DOMAIN db[k] => Written(k, row),
           op[c].pc # "record_session", Ready(next), Apart(next)
    PROVE  Plain(c)
<1>1. Grows /\ \A j \in DOMAIN Seed : j # k => db'[j] = db[j]
    BY PutGrows DEF Base, Writes
<1>2. {"attempt", "session", "invitation"} \subseteq DOMAIN Seed
    BY SeedAssumption DEF Statuses
<1>3. Acts(c) /\ op'[c] = next
    BY <1>1, WritesActs DEF Unheard
<1> QED
    BY <1>1, <1>2, <1>3 DEF Plain, LoginPlain, InvitePlain, Ends, Unheard, Apart

\* A write to several rows of such a table.
LEMMA WritesAllPlain ==
    ASSUME Base, NEW c \in Clients, NEW k \in DOMAIN Seed \ {"attempt", "session", "invitation"},
           NEW table, NEW next, Writes(c, [db EXCEPT ![k] = table], next), Unheard,
           IsFcn(table), DOMAIN table = DOMAIN db[k],
           \A i \in DOMAIN db[k] : table[i] = db[k][i] \/ Written(k, table[i]),
           op[c].pc # "record_session", Ready(next), Apart(next)
    PROVE  Plain(c)
<1>1. Grows /\ \A j \in DOMAIN Seed : j # k => db'[j] = db[j]
    BY PutAllGrows DEF Base, Writes
<1>2. {"attempt", "session", "invitation"} \subseteq DOMAIN Seed
    BY SeedAssumption DEF Statuses
<1>3. Acts(c) /\ op'[c] = next
    BY <1>1, WritesActs DEF Unheard
<1> QED
    BY <1>1, <1>2, <1>3 DEF Plain, LoginPlain, InvitePlain, Ends, Unheard, Apart

-----------------------------------------------------------------------------
(* Handlers that read                                                      *)

\* Every read is answered with rows of the actor's tenant, because it selects them
\* by that tenant, compares the row's with it or authorizes the row's scope.
LEMMA ReadsPlain ==
    ASSUME Base, NEW c \in Clients,
           \/ ListPlatformAuditEvents(c) \/ ListAuthProviders(c) \/ PreviewAuthInvitation(c)
           \/ ListPlatformUsers(c) \/ GetPlatformUser(c) \/ ListUserAuthSessions(c)
           \/ ListUserExternalIdentities(c) \/ GetUserExternalIdentity(c) \/ ListOrganizationMembers(c)
           \/ GetOrganizationMember(c) \/ ListProjectMembers(c) \/ GetProjectMember(c)
           \/ ListRoleBindings(c) \/ GetRoleBinding(c) \/ ListOrganizationInvitations(c)
           \/ GetOrganizationInvitation(c) \/ ListOidcIdentityProviders(c) \/ GetOidcIdentityProvider(c)
           \/ ListPlatformSecretRefs(c) \/ GetPlatformSecretRef(c) \/ GetCurrentAuthSession(c)
           \/ HandleFoundationRequest(c)
    PROVE  Plain(c)
<1>1. CASE ListPlatformAuditEvents(c)
  <2>1. PICK actor \in AuthenticatedActorFromHeaders, org \in {None, 1}, project \in {None, 1} :
          Answers(c, actor, {[tenant |-> e.tenant] : e \in
               {x \in history.audits : x.tenant = actor.tenant /\ AuditEventMatchesQuery(x, org, project)}})
      BY <1>1, Zenon DEF ListPlatformAuditEvents
  <2> QED
      BY <1>1, <2>1, AnswersPlain DEF ListPlatformAuditEvents, Calling
<1>2. ASSUME ListAuthProviders(c) \/ PreviewAuthInvitation(c) PROVE Plain(c)
  <2>1. Grows /\ Ends
      BY <1>2, SameTables DEF ListAuthProviders, PreviewAuthInvitation, Base
  <2>2. HistoryFields \subseteq DOMAIN history'
        /\ history'.tokens = history.tokens /\ history'.admitted = history.admitted
      BY <1>2, HistoryKept DEF ListAuthProviders, PreviewAuthInvitation
  <2>3. AnswersStayInTenant'
      BY <1>2 DEF ListAuthProviders, PreviewAuthInvitation, AnswersStayInTenant, Nobody
  <2>4. op' = op /\ scenario' = scenario /\ op[c].pc = "idle" /\ db' = db
      BY <1>2 DEF ListAuthProviders, PreviewAuthInvitation, Calling
  <2>5. Ready(op[c])'
      BY <2>1, <2>4, ReadyLasts DEF Base
  <2> QED
      BY <2>1, <2>2, <2>3, <2>4, <2>5 DEF Plain, Acts, LoginPlain, InvitePlain, Base
<1>3. CASE ListPlatformUsers(c)
    BY <1>3, AnswersPlain
       DEF ListPlatformUsers, Calling, Rows, UsersForTenant,
           ListPlatformUsersSql, UsersForTenantMemory, Where
<1>4. CASE GetPlatformUser(c)
    BY <1>4, AnswersPlain
       DEF GetPlatformUser, Calling, Rows, EnsureActorTenant
<1>5. CASE ListUserAuthSessions(c)
    BY <1>5, AnswersPlain
       DEF ListUserAuthSessions, Calling, Rows, EnsureActorTenant,
           AuthSessionsForPrincipal, ListAuthSessionsForPrincipalSql,
           SessionsForPrincipalMemory, Where
<1>6. CASE ListUserExternalIdentities(c)
    BY <1>6, AnswersPlain
       DEF ListUserExternalIdentities, Calling, Rows,
           ExternalIdentitiesForPrincipal, ListExternalIdentitiesSql,
           ExternalIdentitiesMemory, Where
<1>7. CASE GetUserExternalIdentity(c)
    BY <1>7, AnswersPlain
       DEF GetUserExternalIdentity, Calling, Rows, ExternalIdentityForActor
<1>8. CASE ListOrganizationMembers(c)
    BY <1>8, AnswersPlain
       DEF ListOrganizationMembers, Calling, Rows, Named
<1>9. CASE GetOrganizationMember(c)
    BY <1>9, AnswersPlain
       DEF GetOrganizationMember, Calling, Rows, OrganizationMemberForActor,
           Named
<1>10. CASE ListProjectMembers(c)
    BY <1>10, AnswersPlain
       DEF ListProjectMembers, Calling, Rows, Named
<1>11. CASE GetProjectMember(c)
    BY <1>11, AnswersPlain
       DEF GetProjectMember, Calling, Rows, ProjectMemberForActor, Named
<1>12. CASE ListRoleBindings(c)
    BY <1>12, AnswersPlain
       DEF ListRoleBindings, Calling, Rows, RoleBindingsForTenant,
           ListRoleBindingsSql, RoleBindingsForTenantMemory, Where
<1>13. CASE GetRoleBinding(c)
    BY <1>13, AnswersPlain
       DEF GetRoleBinding, Calling, Rows, AuthorizeServiceAction,
           FoundationAllows, InScopeOf, Resource
<1>14. CASE ListOrganizationInvitations(c)
    BY <1>14, AnswersPlain
       DEF ListOrganizationInvitations, Calling, Rows, OrganizationInvitations,
           ListOrganizationInvitationsSql, OrganizationInvitationsMemory, Where
<1>15. CASE GetOrganizationInvitation(c)
    BY <1>15, AnswersPlain
       DEF GetOrganizationInvitation, Calling, Rows,
           OrganizationInvitationForActor, Named
<1>16. CASE ListOidcIdentityProviders(c)
    BY <1>16, AnswersPlain
       DEF ListOidcIdentityProviders, Calling, Rows,
           OidcLoginProvidersForTenant, ListOidcLoginProvidersSql,
           ProvidersForTenant, Where
<1>17. CASE GetOidcIdentityProvider(c)
    BY <1>17, AnswersPlain
       DEF GetOidcIdentityProvider, Calling, Rows, AuthorizeServiceAction,
           FoundationAllows, TenantResource, Resource
<1>18. CASE ListPlatformSecretRefs(c)
    BY <1>18, AnswersPlain
       DEF ListPlatformSecretRefs, Calling, Rows, SecretRefsForTenant,
           ListSecretRefsSql, SecretRefsForTenantMemory, Where
<1>19. CASE GetPlatformSecretRef(c)
    BY <1>19, AnswersPlain
       DEF GetPlatformSecretRef, Calling, Rows, AuthorizeServiceAction,
           FoundationAllows, TenantResource, Resource
<1>20. CASE GetCurrentAuthSession(c)
    BY <1>20, AnswersPlain
       DEF GetCurrentAuthSession, Calling, Rows
<1>21. CASE HandleFoundationRequest(c)
  <2>1. PICK actor \in AuthenticatedActorFromHeaders :
          \/ Answers(c, actor, {})
          \/ \E i \in Ids("resource") :
               /\ InScopeOf(Row("resource", i)).tenant = actor.tenant
               /\ Answers(c, actor, Rows("resource", {i}))
      BY <1>21, Zenon DEF HandleFoundationRequest, AuthorizeServiceAction, FoundationAllows
  <2>2. op[c].pc = "idle"
      BY <1>21 DEF HandleFoundationRequest, Calling
  <2>3. CASE Answers(c, actor, {})
      BY <2>2, <2>3, AnswersPlain
  <2>4. ASSUME NEW i \in Ids("resource"), InScopeOf(Row("resource", i)).tenant = actor.tenant,
               Answers(c, actor, Rows("resource", {i}))
        PROVE  Plain(c)
      BY <2>2, <2>4, AnswersPlain DEF Rows, InScopeOf, Resource
  <2> QED
      BY <2>1, <2>3, <2>4
<1> QED
    BY <1>1, <1>2, <1>3, <1>4, <1>5, <1>6, <1>7, <1>8, <1>9, <1>10, <1>11, <1>12, <1>13,
       <1>14, <1>15, <1>16, <1>17, <1>18, <1>19, <1>20, <1>21

-----------------------------------------------------------------------------
(* Handlers that begin                                                     *)

\* The reads and the authorization of a handler leave it ready for its first write.
LEMMA StartsArePlain ==
    ASSUME Base, NEW c \in Clients,
           \/ UpdatePlatformUserStatus(c) \/ RevokeUserAuthSession(c) \/ UnlinkUserExternalIdentity(c)
           \/ CreateOrganizationMember(c) \/ UpdateOrganizationMemberStatus(c) \/ RemoveOrganizationMember(c)
           \/ CreateProjectMember(c) \/ UpdateProjectMemberStatus(c) \/ CreateRoleBinding(c)
           \/ UpdateRoleBindingStatus(c) \/ RevokeOrganizationInvitation(c) \/ CreateOidcIdentityProvider(c)
           \/ OidcLoginCallback(c) \/ SingleUserLogin(c) \/ UpdateActiveOrganization(c)
           \/ UpdateActiveProject(c) \/ LogoutCurrentAuthSession(c) \/ AcceptAuthInvitation(c)
    PROVE  Plain(c)
<1>1. CASE UpdatePlatformUserStatus(c)
  <2>1. op[c].pc = "idle"
      BY <1>1 DEF UpdatePlatformUserStatus, Calling
  <2>2. PICK held : /\ Starts(c, held)
                    /\ "pc" \in DOMAIN held /\ held.pc \in {"set_user_status"}
                    /\ held.status \in UserStatus
      BY <1>1
       DEF UpdatePlatformUserStatus
  <2>3. Ready(held) /\ Apart(held)
      BY <2>2 DEF Ready, Apart, LoginPcs, MemoryPcs, SqlPcs, InvitePcs
  <2> QED
      BY <2>1, <2>2, <2>3, StartsPlain
<1>2. CASE RevokeUserAuthSession(c)
  <2>1. op[c].pc = "idle"
      BY <1>2 DEF RevokeUserAuthSession, Calling
  <2>2. PICK held : /\ Starts(c, held)
                    /\ "pc" \in DOMAIN held /\ held.pc \in {"revoke_session"}
      BY <1>2
       DEF RevokeUserAuthSession
  <2>3. Ready(held) /\ Apart(held)
      BY <2>2 DEF Ready, Apart, LoginPcs, MemoryPcs, SqlPcs, InvitePcs
  <2> QED
      BY <2>1, <2>2, <2>3, StartsPlain
<1>3. CASE UnlinkUserExternalIdentity(c)
  <2>1. op[c].pc = "idle"
      BY <1>3 DEF UnlinkUserExternalIdentity, Calling
  <2>2. PICK held : /\ Starts(c, held)
                    /\ "pc" \in DOMAIN held /\ held.pc \in {"unlink"}
      BY <1>3
       DEF UnlinkUserExternalIdentity
  <2>3. Ready(held) /\ Apart(held)
      BY <2>2 DEF Ready, Apart, LoginPcs, MemoryPcs, SqlPcs, InvitePcs
  <2> QED
      BY <2>1, <2>2, <2>3, StartsPlain
<1>4. CASE CreateOrganizationMember(c)
  <2>1. op[c].pc = "idle"
      BY <1>4 DEF CreateOrganizationMember, Calling
  <2>2. PICK held : /\ Starts(c, held)
                    /\ "pc" \in DOMAIN held /\ held.pc \in {"upsert_org_member"}
                    /\ Written("org_member", held.row) /\ held.row.status = "active"
      BY <1>4
       DEF CreateOrganizationMember, OrganizationMembershipRecord, Written, WellFormed,
           Statuses, MembershipStatus
  <2>3. Ready(held) /\ Apart(held)
      BY <2>2 DEF Ready, Apart, LoginPcs, MemoryPcs, SqlPcs, InvitePcs
  <2> QED
      BY <2>1, <2>2, <2>3, StartsPlain
<1>5. CASE UpdateOrganizationMemberStatus(c)
  <2>1. op[c].pc = "idle"
      BY <1>5 DEF UpdateOrganizationMemberStatus, Calling
  <2>2. PICK held : /\ Starts(c, held)
                    /\ "pc" \in DOMAIN held /\ held.pc \in {"set_org_member"}
                    /\ held.id \in Ids("org_member") /\ held.status \in MembershipStatus
      BY <1>5
       DEF UpdateOrganizationMemberStatus
  <2>3. Ready(held) /\ Apart(held)
      BY <2>2 DEF Ready, Apart, LoginPcs, MemoryPcs, SqlPcs, InvitePcs
  <2> QED
      BY <2>1, <2>2, <2>3, StartsPlain
<1>6. CASE RemoveOrganizationMember(c)
  <2>1. op[c].pc = "idle"
      BY <1>6 DEF RemoveOrganizationMember, Calling
  <2>2. PICK held : /\ Starts(c, held)
                    /\ "pc" \in DOMAIN held /\ held.pc \in {"set_org_member"}
                    /\ held.id \in Ids("org_member") /\ held.status \in MembershipStatus
      BY <1>6
       DEF RemoveOrganizationMember, MembershipStatus
  <2>3. Ready(held) /\ Apart(held)
      BY <2>2 DEF Ready, Apart, LoginPcs, MemoryPcs, SqlPcs, InvitePcs
  <2> QED
      BY <2>1, <2>2, <2>3, StartsPlain
<1>7. CASE CreateProjectMember(c)
  <2>1. op[c].pc = "idle"
      BY <1>7 DEF CreateProjectMember, Calling
  <2>2. PICK held : /\ Starts(c, held)
                    /\ "pc" \in DOMAIN held /\ held.pc \in {"upsert_project_member"}
                    /\ Written("project_member", held.row)
      BY <1>7
       DEF CreateProjectMember, ProjectMembershipRecord, Written, WellFormed, Statuses,
           MembershipStatus
  <2>3. Ready(held) /\ Apart(held)
      BY <2>2 DEF Ready, Apart, LoginPcs, MemoryPcs, SqlPcs, InvitePcs
  <2> QED
      BY <2>1, <2>2, <2>3, StartsPlain
<1>8. CASE UpdateProjectMemberStatus(c)
  <2>1. op[c].pc = "idle"
      BY <1>8 DEF UpdateProjectMemberStatus, Calling
  <2>2. PICK held : /\ Starts(c, held)
                    /\ "pc" \in DOMAIN held /\ held.pc \in {"set_project_member"}
                    /\ held.id \in Ids("project_member") /\ held.status \in MembershipStatus
      BY <1>8
       DEF UpdateProjectMemberStatus
  <2>3. Ready(held) /\ Apart(held)
      BY <2>2 DEF Ready, Apart, LoginPcs, MemoryPcs, SqlPcs, InvitePcs
  <2> QED
      BY <2>1, <2>2, <2>3, StartsPlain
<1>9. CASE CreateRoleBinding(c)
  <2>1. op[c].pc = "idle"
      BY <1>9 DEF CreateRoleBinding, Calling
  <2>2. PICK held : /\ Starts(c, held)
                    /\ "pc" \in DOMAIN held /\ held.pc \in {"upsert_binding"}
                    /\ Written("binding", held.row)
      BY <1>9
       DEF CreateRoleBinding, RoleBindingRecord, Written, WellFormed, Statuses,
           RoleBindingStatus
  <2>3. Ready(held) /\ Apart(held)
      BY <2>2 DEF Ready, Apart, LoginPcs, MemoryPcs, SqlPcs, InvitePcs
  <2> QED
      BY <2>1, <2>2, <2>3, StartsPlain
<1>10. CASE UpdateRoleBindingStatus(c)
  <2>1. op[c].pc = "idle"
      BY <1>10 DEF UpdateRoleBindingStatus, Calling
  <2>2. PICK held : /\ Starts(c, held)
                    /\ "pc" \in DOMAIN held /\ held.pc \in {"set_binding"}
                    /\ held.id \in Ids("binding") /\ held.status \in RoleBindingStatus
      BY <1>10
       DEF UpdateRoleBindingStatus
  <2>3. Ready(held) /\ Apart(held)
      BY <2>2 DEF Ready, Apart, LoginPcs, MemoryPcs, SqlPcs, InvitePcs
  <2> QED
      BY <2>1, <2>2, <2>3, StartsPlain
<1>11. CASE RevokeOrganizationInvitation(c)
  <2>1. op[c].pc = "idle"
      BY <1>11 DEF RevokeOrganizationInvitation, Calling
  <2>2. PICK held : /\ Starts(c, held)
                    /\ "pc" \in DOMAIN held /\ held.pc \in {"revoke_invitation"}
                    /\ held.id \in Ids("invitation")
      BY <1>11
       DEF RevokeOrganizationInvitation
  <2>3. Ready(held) /\ Apart(held)
      BY <2>2 DEF Ready, Apart, LoginPcs, MemoryPcs, SqlPcs, InvitePcs
  <2> QED
      BY <2>1, <2>2, <2>3, StartsPlain
<1>12. CASE CreateOidcIdentityProvider(c)
  <2>1. op[c].pc = "idle"
      BY <1>12 DEF CreateOidcIdentityProvider, Calling
  <2>2. PICK held : /\ Starts(c, held)
                    /\ "pc" \in DOMAIN held /\ held.pc \in {"upsert_provider"}
      BY <1>12
       DEF CreateOidcIdentityProvider
  <2>3. Ready(held) /\ Apart(held)
      BY <2>2 DEF Ready, Apart, LoginPcs, MemoryPcs, SqlPcs, InvitePcs
  <2> QED
      BY <2>1, <2>2, <2>3, StartsPlain
<1>13. CASE OidcLoginCallback(c)
  <2>1. op[c].pc = "idle"
      BY <1>13 DEF OidcLoginCallback, Calling
  <2>2. PICK held : /\ Starts(c, held)
                    /\ "pc" \in DOMAIN held /\ held.pc \in {"exchange"}
                    /\ held.attempt \in Ids("attempt")
      BY <1>13
       DEF OidcLoginCallback
  <2>3. Ready(held) /\ Apart(held)
      BY <2>2 DEF Ready, Apart, LoginPcs, MemoryPcs, SqlPcs, InvitePcs
  <2> QED
      BY <2>1, <2>2, <2>3, StartsPlain
<1>14. CASE SingleUserLogin(c)
  <2>1. op[c].pc = "idle"
      BY <1>14 DEF SingleUserLogin, Calling
  <2>2. PICK held : /\ Starts(c, held)
                    /\ "pc" \in DOMAIN held /\ held.pc \in {"single_user_session"}
      BY <1>14
       DEF SingleUserLogin
  <2>3. Ready(held) /\ Apart(held)
      BY <2>2 DEF Ready, Apart, LoginPcs, MemoryPcs, SqlPcs, InvitePcs
  <2> QED
      BY <2>1, <2>2, <2>3, StartsPlain
<1>15. CASE UpdateActiveOrganization(c)
  <2>1. op[c].pc = "idle"
      BY <1>15 DEF UpdateActiveOrganization, Calling
  <2>2. PICK held : /\ Starts(c, held)
                    /\ "pc" \in DOMAIN held /\ held.pc \in {"update_context"}
      BY <1>15
       DEF UpdateActiveOrganization
  <2>3. Ready(held) /\ Apart(held)
      BY <2>2 DEF Ready, Apart, LoginPcs, MemoryPcs, SqlPcs, InvitePcs
  <2> QED
      BY <2>1, <2>2, <2>3, StartsPlain
<1>16. CASE UpdateActiveProject(c)
  <2>1. op[c].pc = "idle"
      BY <1>16 DEF UpdateActiveProject, Calling
  <2>2. PICK held : /\ Starts(c, held)
                    /\ "pc" \in DOMAIN held /\ held.pc \in {"update_context"}
      BY <1>16
       DEF UpdateActiveProject
  <2>3. Ready(held) /\ Apart(held)
      BY <2>2 DEF Ready, Apart, LoginPcs, MemoryPcs, SqlPcs, InvitePcs
  <2> QED
      BY <2>1, <2>2, <2>3, StartsPlain
<1>17. CASE LogoutCurrentAuthSession(c)
  <2>1. op[c].pc = "idle"
      BY <1>17 DEF LogoutCurrentAuthSession, Calling
  <2>2. PICK held : /\ Starts(c, held)
                    /\ "pc" \in DOMAIN held /\ held.pc \in {"logout"}
      BY <1>17
       DEF LogoutCurrentAuthSession
  <2>3. Ready(held) /\ Apart(held)
      BY <2>2 DEF Ready, Apart, LoginPcs, MemoryPcs, SqlPcs, InvitePcs
  <2> QED
      BY <2>1, <2>2, <2>3, StartsPlain
<1>18. CASE AcceptAuthInvitation(c)
  <2>1. op[c].pc = "idle"
      BY <1>18 DEF AcceptAuthInvitation, Calling
  <2>2. PICK held : /\ Starts(c, held)
                    /\ "pc" \in DOMAIN held /\ held.pc \in {"select_invitation", "accept_invitation"}
                    /\ held.id \in Ids("invitation")
      BY <1>18
       DEF AcceptAuthInvitation, OrganizationInvitationByRawToken, OrganizationInvitationByTokenHash,
           SelectOrganizationInvitationByTokenSql, Where
  <2>3. Ready(held) /\ Apart(held)
      BY <2>2 DEF Ready, Apart, LoginPcs, MemoryPcs, SqlPcs, InvitePcs
  <2> QED
      BY <2>1, <2>2, <2>3, StartsPlain
<1> QED
    BY <1>1, <1>2, <1>3, <1>4, <1>5, <1>6, <1>7, <1>8, <1>9, <1>10, <1>11, <1>12, <1>13,
       <1>14, <1>15, <1>16, <1>17, <1>18

-----------------------------------------------------------------------------
(* Rows that are written                                                   *)

\* The lists of statuses, by kind; none holds "absent".
LEMMA StatusLists ==
    /\ DOMAIN Statuses = {"user", "session", "org_member", "project_member", "binding",
                          "invitation", "identity", "attempt"}
    /\ Statuses["user"] = UserStatus /\ Statuses["session"] = AuthSessionStatus
    /\ Statuses["org_member"] = MembershipStatus
    /\ Statuses["project_member"] = MembershipStatus
    /\ Statuses["binding"] = RoleBindingStatus /\ Statuses["invitation"] = InvitationStatus
    /\ Statuses["identity"] = ExternalIdentityStatus
    /\ Statuses["attempt"] = LoginAttemptStatus
    /\ \A k \in DOMAIN Statuses : "absent" \notin Statuses[k]
BY DEF Statuses, UserStatus, AuthSessionStatus, MembershipStatus, RoleBindingStatus,
       InvitationStatus, ExternalIdentityStatus, LoginAttemptStatus

\* A row in use gets a new status and the next version.
LEMMA BumpedWritten ==
    ASSUME NEW k \in Versioned, NEW row, WellFormed(k, row), row.status # "absent",
           NEW status \in Statuses[k]
    PROVE  /\ Written(k, Bumped(row, status))
           /\ Bumped(row, status).status = status
           /\ {"status", "version"} \subseteq DOMAIN Bumped(row, status)
           /\ Bumped(row, status).version \in Nat \ {0}
<1>1. k \in DOMAIN Statuses
    BY StatusLists DEF Versioned
<1>2. /\ Bumped(row, status).status = status
      /\ DOMAIN Bumped(row, status) = DOMAIN row
      /\ Bumped(row, status).version = row.version + 1
    BY DEF WellFormed, Bumped
<1> QED
    BY <1>1, <1>2, StatusLists DEF WellFormed, Written

\* Rows in use are well formed.
LEMMA RowInUse ==
    ASSUME DbShape, TypeOK, NEW k \in DOMAIN Statuses, NEW i \in Ids(k)
    PROVE  WellFormed(k, Row(k, i)) /\ Row(k, i).status # "absent"
BY DEF TypeOK, Ids

\* The first of the rows in use that satisfy a condition is one of them.
LEMMA FirstInUse ==
    ASSUME DbShape, NEW k \in DOMAIN Statuses, NEW S, S \subseteq Ids(k), S # {}
    PROVE  First(S) \in S
BY FirstIn, IdsAreNumbers, SeedAssumption DEF Ids

\* What the upserts of memberships write.
LEMMA OrganizationMemberUpserts ==
    ASSUME DbShape, TypeOK, NEW i, NEW new, Written("org_member", new), new.status = "active",
           NEW x \in UpsertOrganizationMember(i, new) \cup UpsertOrganizationMemberMemory(i, new)
                       \cup UpsertInvitedOrganizationMemberSql(i, new)
    PROVE  Written("org_member", x[2]) /\ x[2].status = "active"
<1> DEFINE active(row) == Written("org_member", row) /\ row.status = "active"
           byThree == Where("org_member", LAMBDA row : /\ row.tenant = new.tenant
                                                       /\ row.org = new.org
                                                       /\ row.principal = new.principal)
           byTwo == Where("org_member", LAMBDA row : row.org = new.org /\ row.principal = new.principal)
<1>1. "org_member" \in DOMAIN Statuses /\ "org_member" \in Versioned
    BY StatusLists DEF Versioned
<1>2. byThree \subseteq Ids("org_member") /\ byTwo \subseteq Ids("org_member")
    BY DEF Where
<1>3. ASSUME NEW m \in Ids("org_member")
      PROVE  /\ Row("org_member", m).status = "active" => active(Row("org_member", m))
             /\ active([Bumped(Row("org_member", m), "active") EXCEPT !.kind = new.kind])
             /\ active([Bumped(Row("org_member", m), "active")
                          EXCEPT !.kind = new.kind, !.tenant = new.tenant])
  <2>1. WellFormed("org_member", Row("org_member", m)) /\ Row("org_member", m).status # "absent"
      BY <1>1, RowInUse
  <2>2. /\ Bumped(Row("org_member", m), "active").status = "active"
        /\ {"status", "version"} \subseteq DOMAIN Bumped(Row("org_member", m), "active")
        /\ Bumped(Row("org_member", m), "active").version \in Nat \ {0}
      BY <1>1, <2>1, BumpedWritten, StatusLists DEF MembershipStatus
  <2> HIDE DEF Bumped
  <2> QED
      BY <1>1, <2>1, <2>2, StatusLists DEF Written, WellFormed, MembershipStatus
<1>4. byThree # {} => First(byThree) \in Ids("org_member")
    BY <1>1, <1>2, FirstInUse
<1>5. byTwo # {} => First(byTwo) \in Ids("org_member")
    BY <1>1, <1>2, FirstInUse
<1>6. ASSUME x \in UpsertOrganizationMemberMemory(i, new) PROVE active(x[2])
  <2>1. \/ x[2] = new
        \/ \E m \in Ids("org_member") :
               \/ x[2] = Row("org_member", m) /\ Row("org_member", m).status = "active"
               \/ x[2] = [Bumped(Row("org_member", m), "active") EXCEPT !.kind = new.kind]
      BY <1>4, <1>6 DEF UpsertOrganizationMemberMemory, Where
  <2> QED
      BY <1>3, <2>1
<1>7. ASSUME x \in UpsertOrganizationMemberSql(i, new) PROVE active(x[2])
  <2> DEFINE m == First(byTwo)
             again == [Bumped(Row("org_member", m), "active")
                         EXCEPT !.kind = new.kind, !.tenant = new.tenant]
  <2>1. IF byTwo = {} THEN x[2] = new ELSE x = <<m, again>>
      BY <1>7 DEF UpsertOrganizationMemberSql, Provided, Where
  <2>2. byTwo # {} => active(again)
      BY <1>3, <1>5
  <2> HIDE DEF byTwo, again
  <2> QED
      BY <2>1, <2>2
<1>8. ASSUME x \in UpsertInvitedOrganizationMemberSql(i, new) PROVE active(x[2])
  <2>1. \/ x[2] = new
        \/ \E m \in Ids("org_member") :
               \/ x[2] = [Bumped(Row("org_member", m), "active") EXCEPT !.kind = new.kind]
      BY <1>5, <1>8 DEF UpsertInvitedOrganizationMemberSql, Provided, Where
  <2> QED
      BY <1>3, <2>1
<1> QED
    BY <1>6, <1>7, <1>8 DEF UpsertOrganizationMember

LEMMA ProjectMemberUpserts ==
    ASSUME DbShape, TypeOK, NEW i, NEW new, Written("project_member", new),
           NEW x \in UpsertProjectMember(i, new) \cup UpsertProjectMemberMemory(i, new)
                       \cup UpsertInvitedProjectMemberSql(i, new)
    PROVE  Written("project_member", x[2])
<1> DEFINE mine == Where("project_member", LAMBDA row : /\ row.project = new.project
                                                        /\ row.principal = new.principal)
<1>1. "project_member" \in DOMAIN Statuses /\ "project_member" \in Versioned
    BY StatusLists DEF Versioned
<1>2. mine \subseteq Ids("project_member")
    BY DEF Where
<1>3. ASSUME NEW m \in Ids("project_member")
      PROVE  /\ Written("project_member", Row("project_member", m))
             /\ Written("project_member", [Bumped(Row("project_member", m), "active")
                          EXCEPT !.kind = new.kind, !.member = new.member])
             /\ Written("project_member", [new EXCEPT !.version = Row("project_member", m).version + 1])
  <2>1. WellFormed("project_member", Row("project_member", m))
        /\ Row("project_member", m).status # "absent"
      BY <1>1, RowInUse
  <2>2. /\ Bumped(Row("project_member", m), "active").status = "active"
        /\ {"status", "version"} \subseteq DOMAIN Bumped(Row("project_member", m), "active")
        /\ Bumped(Row("project_member", m), "active").version \in Nat \ {0}
      BY <1>1, <2>1, BumpedWritten, StatusLists DEF MembershipStatus
  <2> HIDE DEF Bumped
  <2> QED
      BY <1>1, <2>1, <2>2, StatusLists DEF Written, WellFormed, MembershipStatus
<1>4. mine # {} => First(mine) \in Ids("project_member")
    BY <1>1, <1>2, FirstInUse
<1>6. ASSUME x \in UpsertProjectMemberMemory(i, new) PROVE Written("project_member", x[2])
  <2> DEFINE m == First(mine)
             again == [Bumped(Row("project_member", m), "active")
                         EXCEPT !.kind = new.kind, !.member = new.member]
  <2>1. IF mine = {} THEN x[2] = new
        ELSE x = <<m, again>> \/ x = <<m, Row("project_member", m)>>
      BY <1>6 DEF UpsertProjectMemberMemory, Where
  <2>2. mine # {} => /\ Written("project_member", again)
                     /\ Written("project_member", Row("project_member", m))
      BY <1>3, <1>4
  <2> HIDE DEF mine, again
  <2> QED
      BY <2>1, <2>2
<1>7. ASSUME x \in UpsertProjectMemberSql(i, new) PROVE Written("project_member", x[2])
  <2>1. \/ x[2] = new
        \/ \E m \in Ids("project_member") :
               \/ x[2] = [new EXCEPT !.version = Row("project_member", m).version + 1]
      BY <1>4, <1>7 DEF UpsertProjectMemberSql, Provided, Where
  <2> QED
      BY <1>3, <2>1
<1>8. ASSUME x \in UpsertInvitedProjectMemberSql(i, new) PROVE Written("project_member", x[2])
  <2> DEFINE m == First(mine)
             again == [Bumped(Row("project_member", m), "active")
                         EXCEPT !.kind = new.kind, !.member = new.member]
  <2>1. IF mine = {} THEN x[2] = new
        ELSE x = <<m, again>>
      BY <1>8 DEF UpsertInvitedProjectMemberSql, Provided, Where
  <2>2. mine # {} => /\ Written("project_member", again)
                     /\ Written("project_member", Row("project_member", m))
      BY <1>3, <1>4
  <2> HIDE DEF mine, again
  <2> QED
      BY <2>1, <2>2
<1> QED
    BY <1>6, <1>7, <1>8 DEF UpsertProjectMember

\* What the upsert of a role binding writes into the table.
LEMMA RoleBindingUpserts ==
    ASSUME DbShape, TypeOK, NEW i, NEW new, Written("binding", new),
           NEW x \in UpsertRoleBinding(i, new), x[1] \in DOMAIN db["binding"]
    PROVE  Written("binding", x[2])
<1> DEFINE same == Where("binding", LAMBDA row : SameGrant(row, new))
<1>1. "binding" \in DOMAIN Statuses /\ "binding" \in Versioned
    BY StatusLists DEF Versioned
<1>2. same \subseteq Ids("binding")
    BY DEF Where
<1>3. ASSUME NEW m \in Ids("binding")
      PROVE  /\ Written("binding", Row("binding", m))
             /\ Written("binding", Bumped(Row("binding", m), "active"))
             /\ Row("binding", m).version \in Nat
    BY <1>1, RowInUse, BumpedWritten, StatusLists DEF RoleBindingStatus, Written, WellFormed
<1>4. same # {} => First(same) \in Ids("binding")
    BY <1>1, <1>2, FirstInUse
<1>6. ASSUME x \in UpsertRoleBindingMemory(i, new) PROVE Written("binding", x[2])
  <2>1. \/ x[2] = new
        \/ \E m \in Ids("binding") :
               \/ x[2] = Row("binding", m)
               \/ x[2] = Bumped(Row("binding", m), "active")
      BY <1>4, <1>6 DEF UpsertRoleBindingMemory, Where
  <2> QED
      BY <1>3, <2>1
<1>7. ASSUME x \in UpsertRoleBindingSql(i, new) PROVE Written("binding", x[2])
  <2>1. i \in DOMAIN db["binding"] /\ (i \in Unused("binding") \/ i \in Ids("binding"))
      BY <1>7 DEF UpsertRoleBindingSql, Unused
  <2> DEFINE n == IF i \in Unused("binding") THEN 1 ELSE Row("binding", i).version + 1
  <2>2. n \in Nat \ {0}
      BY <1>3, <2>1
  <2>3. x[2] = [new EXCEPT !.version = n]
      BY <1>7 DEF UpsertRoleBindingSql
  <2> HIDE DEF n
  <2> QED
      BY <1>1, <2>2, <2>3 DEF Written, WellFormed
<1> QED
    BY <1>6, <1>7 DEF UpsertRoleBinding

\* What the upsert of an external identity writes.
LEMMA IdentityUpserts ==
    ASSUME DbShape, TypeOK, NEW i, NEW new, Written("identity", new),
           NEW x \in UpsertExternalIdentity(i, new) \cup UpsertOidcExternalIdentitySql(i, new)
    PROVE  Written("identity", x[2])
<1>1. "identity" \in DOMAIN Statuses /\ "identity" \notin Versioned
    BY StatusLists DEF Versioned
<1>2. SubjectOf(new) \subseteq Ids("identity")
    BY DEF SubjectOf, Where
<1>3. ASSUME NEW m \in Ids("identity")
      PROVE  Written("identity", [Row("identity", m) EXCEPT !.status = "active"])
    BY <1>1, RowInUse, StatusLists DEF ExternalIdentityStatus, Written, WellFormed
<1>4. SubjectOf(new) # {} => First(SubjectOf(new)) \in Ids("identity")
    BY <1>1, <1>2, FirstInUse
<1> QED
    BY <1>3, <1>4 DEF UpsertExternalIdentity, UpsertOidcExternalIdentitySql

-----------------------------------------------------------------------------
(* Handlers that write                                                     *)

LEMMA HistoryLate ==
    ASSUME Base, NEW late, history' = history \/ history' = [history EXCEPT !.late = late]
    PROVE  Unheard
BY DEF Base, Unheard, HistoryFields

LEMMA LateUnheard ==
    ASSUME Base, NEW k, NEW i, NEW row, history' = Late(k, i, row)
    PROVE  Unheard
BY HistoryLate DEF Late

\* The tables a lemma about a write is used for.
LEMMA TablesExist ==
    /\ {"user", "session", "org_member", "project_member", "binding", "invitation", "identity",
        "attempt", "provider", "secret"} \subseteq DOMAIN Seed
    /\ {"provider", "secret"} \cap DOMAIN Statuses = {}
BY SeedAssumption, StatusLists

\* A record with a step of its own to go to, from which nothing is required.
LEMMA FreePcReady ==
    ASSUME NEW x, "pc" \in DOMAIN x,
           x.pc \in {"idle", "audit", "disable_sessions", "cascade", "delete_org_bindings",
                     "delete_project_bindings", "record_org_member", "record_project_member",
                     "record_binding", "invited_org_member", "invited_project_member",
                     "upsert_secret"}
    PROVE  Ready(x) /\ Apart(x)
BY DEF Ready, Apart, LoginPcs, MemoryPcs, SqlPcs, InvitePcs

\* A session that is active is revoked, or used for another project.
LEMMA SessionWritesPlain ==
    ASSUME Base, NEW c \in Clients, NEW i, NEW row, NEW next,
           Writes(c, Put("session", i, row), next), history' = history,
           i \in DOMAIN db["session"] =>
             /\ Row("session", i).status = "active" /\ Written("session", row)
             /\ row.attempt = Row("session", i).attempt,
           op[c].pc # "record_session", Ready(next), Apart(next)
    PROVE  Plain(c)
<1>1. /\ Grows
      /\ \A j \in DOMAIN Seed : j # "session" => db'[j] = db[j]
      /\ \A n \in DOMAIN db["session"] :
           db'["session"][n] = IF n = i THEN row ELSE db["session"][n]
    BY PutGrows, TablesExist DEF Base, Writes
<1>2. Unheard
    BY HistoryLate
<1>3. Acts(c) /\ op'[c] = next
    BY <1>1, <1>2, WritesActs DEF Unheard
<1>4. "session" \in DOMAIN Statuses
    BY StatusLists
<1>5. Ends
    BY <1>1, <1>4 DEF Ends, Row, Written
<1> QED
    BY <1>1, <1>2, <1>3, <1>5, TablesExist DEF Plain, LoginPlain, InvitePlain, Unheard, Apart

\* The admin routes of users, sessions and identities.
LEMMA AdminWritesPlain ==
    ASSUME Base, NEW c \in Clients,
           \/ RecordPlatformAuditEvent(c) \/ SetUserStatus(c) \/ DisableAuthSessions(c)
           \/ RevokeSession(c) \/ Unlink(c)
    PROVE  Plain(c)
<1> USE DEF Unheard
<1>a. Ready(op[c]) /\ "pc" \in DOMAIN op[c]
    BY DEF Base, Ready
<1>b. \A event : Ready(Audit(event)) /\ Apart(Audit(event))
    BY FreePcReady DEF Audit
<1>1. CASE RecordPlatformAuditEvent(c)
  <2>1. HistoryFields \subseteq DOMAIN history'
        /\ history'.tokens = history.tokens /\ history'.admitted = history.admitted
      BY <1>1 DEF RecordPlatformAuditEvent, Base, HistoryFields
  <2> QED
      BY <1>1, <2>1, NoOpReady, MovesPlain DEF RecordPlatformAuditEvent, At
<1>2. CASE SetUserStatus(c)
  <2> DEFINE done == SetPlatformUserStatus(op[c].id, op[c].expected, op[c].status)
             next(row) == IF AcceptsAccess(row) THEN Audit(op[c].event)
                          ELSE [pc |-> "disable_sessions", id |-> op[c].id, tenant |-> row.tenant,
                                event |-> op[c].event]
  <2>1. CASE done = {} /\ Fails(c)
      BY <1>2, <2>1, FailsPlain DEF SetUserStatus, At
  <2>2. ASSUME NEW row \in done, Writes(c, Put("user", op[c].id, row), next(row)), UNCHANGED history
        PROVE  Plain(c)
    <3>1. op[c].pc = "set_user_status" /\ op[c].status \in UserStatus
        BY <1>2, <1>a DEF SetUserStatus, At, Ready
    <3>2. /\ Row("user", op[c].id).status # "absent"
          /\ row = Bumped(Row("user", op[c].id), op[c].status)
        BY <2>2 DEF SetPlatformUserStatus, UpdatePlatformUserStatusSql, UpdateUserStatusMemory, Provided
    <3>3. op[c].id \in DOMAIN db["user"] => Written("user", row)
        BY <3>1, <3>2, BumpedWritten, StatusLists DEF Base, TypeOK, Versioned
    <3>4. Ready(next(row)) /\ Apart(next(row))
        BY <1>b, FreePcReady
    <3>5. Unheard
        BY <2>2, HistoryLate
    <3> HIDE DEF next
    <3> QED
        BY <2>2, <3>1, <3>3, <3>4, <3>5, WritesPlain, TablesExist
  <2> QED
      BY <1>2, <2>1, <2>2 DEF SetUserStatus
<1>3. CASE DisableAuthSessions(c)
  <2> DEFINE theirs == {i \in Ids("session") : /\ Row("session", i).tenant = op[c].tenant
                                               /\ Row("session", i).principal = op[c].id
                                               /\ Row("session", i).status = "active"}
             table == [i \in DOMAIN db["session"] |->
                         IF i \in theirs THEN [db["session"][i] EXCEPT !.status = "principal_disabled"]
                         ELSE db["session"][i]]
  <2>1. Writes(c, [db EXCEPT !["session"] = table], Audit(op[c].event)) /\ history' = history
      BY <1>3, TablesExist
         DEF DisableAuthSessions, DisableAuthSessionsForPrincipal, DisableAuthSessionsForPrincipalSql,
             DisableAuthSessionsMemory, PutAll, Where, Base, DbShape
  <2>2. ASSUME NEW i \in DOMAIN db["session"], i \in theirs
        PROVE  /\ Written("session", table[i]) /\ db["session"][i].status = "active"
               /\ table[i].attempt = db["session"][i].attempt
      BY <2>2, StatusLists
         DEF Base, TypeOK, WellFormed, Written, Versioned, AuthSessionStatus, Row
  <2>3. IsFcn(table) /\ DOMAIN table = DOMAIN db["session"]
      BY DEF IsFcn
  <2>4. \A i \in DOMAIN db["session"] : i \notin theirs => table[i] = db["session"][i]
      OBVIOUS
  <2> HIDE DEF table, theirs
  <2>9. \A i \in DOMAIN db["session"] :
          table[i] = db["session"][i] \/ Written("session", table[i])
      BY <2>2, <2>4
  <2>10. DbShape /\ db' = [db EXCEPT !["session"] = table] /\ "session" \in DOMAIN Seed
      BY <2>1, TablesExist DEF Base, Writes
  <2>5. /\ Grows /\ db'["session"] = table
        /\ \A j \in DOMAIN Seed : j # "session" => db'[j] = db[j]
      BY <2>3, <2>9, <2>10, PutAllGrows
  <2>6. Ends
      BY <2>2, <2>4, <2>5, StatusLists DEF Ends, Written
  <2>7. Unheard
      BY <2>1, HistoryLate
  <2>8. Acts(c) /\ op'[c] = Audit(op[c].event)
      BY <1>b, <2>1, <2>5, <2>7, WritesActs
  <2> QED
      BY <1>3, <1>b, <2>5, <2>6, <2>7, <2>8, TablesExist
         DEF Plain, LoginPlain, InvitePlain, Apart, DisableAuthSessions, At
<1>4. CASE RevokeSession(c)
  <2> DEFINE done == RevokeAuthSessionById(op[c].id, op[c].tenant, op[c].user)
  <2>1. CASE done = {} /\ Fails(c)
      BY <1>4, <2>1, FailsPlain DEF RevokeSession, At
  <2>2. ASSUME NEW row \in done, UNCHANGED history,
               Writes(c, Put("session", op[c].id, row), Audit(op[c].event))
        PROVE  Plain(c)
    <3>1. /\ Row("session", op[c].id).status = "active"
          /\ row = [Row("session", op[c].id) EXCEPT !.status = "revoked"]
        BY <2>2 DEF RevokeAuthSessionById, RevokeAuthSessionByIdSql, RevokeAuthSessionByIdMemory,
                    Provided, ActiveSessionRecord
    <3>2. op[c].id \in DOMAIN db["session"] =>
            Written("session", row) /\ row.attempt = Row("session", op[c].id).attempt
        BY <3>1, StatusLists DEF Base, TypeOK, WellFormed, Written, Versioned, AuthSessionStatus
    <3> QED
        BY <1>4, <1>b, <2>2, <3>1, <3>2, SessionWritesPlain DEF RevokeSession, At
  <2> QED
      BY <1>4, <2>1, <2>2 DEF RevokeSession
<1>5. CASE Unlink(c)
  <2> DEFINE done == UnlinkExternalIdentity(op[c].id)
  <2>1. CASE done = {} /\ Fails(c)
      BY <1>5, <2>1, FailsPlain DEF Unlink, At
  <2>2. ASSUME NEW row \in done, UNCHANGED history,
               Writes(c, Put("identity", op[c].id, row), Audit(op[c].event))
        PROVE  Plain(c)
    <3>1. row = [Row("identity", op[c].id) EXCEPT !.status = "deleted"]
        BY <2>2 DEF UnlinkExternalIdentity, UnlinkExternalIdentitySql, UnlinkExternalIdentityMemory,
                    Provided
    <3>2. op[c].id \in DOMAIN db["identity"] => Written("identity", row)
        BY <3>1, StatusLists DEF Base, TypeOK, WellFormed, Written, Versioned, ExternalIdentityStatus
    <3>3. Unheard
        BY <2>2, HistoryLate
    <3> QED
        BY <1>5, <1>b, <2>2, <3>2, <3>3, WritesPlain, TablesExist DEF Unlink, At
  <2> QED
      BY <1>5, <2>1, <2>2 DEF Unlink
<1> QED
    BY <1>1, <1>2, <1>3, <1>4, <1>5

\* Several rows in use get a new status.
LEMMA BumpsAllPlain ==
    ASSUME Base, NEW c \in Clients, NEW k \in {"project_member", "binding"}, NEW S, S \subseteq Ids(k),
           NEW status \in Statuses[k], NEW next, history' = history,
           Writes(c, [db EXCEPT ![k] = [i \in DOMAIN db[k] |->
                        IF i \in S THEN Bumped(db[k][i], status) ELSE db[k][i]]], next),
           op[c].pc # "record_session", Ready(next), Apart(next)
    PROVE  Plain(c)
<1> DEFINE table == [i \in DOMAIN db[k] |-> IF i \in S THEN Bumped(db[k][i], status) ELSE db[k][i]]
<1>1. k \in Versioned /\ k \in DOMAIN Statuses /\ k \in DOMAIN Seed \ {"attempt", "session", "invitation"}
    BY TablesExist, StatusLists DEF Versioned
<1>2. ASSUME NEW i \in S PROVE Written(k, Bumped(db[k][i], status))
    BY <1>1, RowInUse, BumpedWritten DEF Base, Row
<1>3. IsFcn(table) /\ DOMAIN table = DOMAIN db[k]
      /\ \A i \in DOMAIN db[k] : table[i] = db[k][i] \/ Written(k, table[i])
    BY <1>2 DEF IsFcn
<1>4. Unheard
    BY HistoryLate
<1>5. Writes(c, [db EXCEPT ![k] = table], next)
    OBVIOUS
<1> HIDE DEF table
<1> QED
    BY <1>1, <1>3, <1>4, <1>5, WritesAllPlain

\* The admin routes of memberships.
LEMMA MembershipWritesPlain ==
    ASSUME Base, NEW c \in Clients,
           \/ StoreOrganizationMember(c) \/ SetOrganizationMember(c) \/ Cascade(c)
           \/ StoreProjectMember(c) \/ SetProjectMember(c)
    PROVE  Plain(c)
<1>a. Ready(op[c]) /\ DbShape /\ TypeOK
    BY DEF Base
<1>1. CASE StoreOrganizationMember(c)
  <2>1. CASE UpsertOrganizationMember(op[c].id, op[c].row) = {} /\ Fails(c)
      BY <1>1, <2>1, FailsPlain DEF StoreOrganizationMember, At
  <2>2. ASSUME NEW new \in UpsertOrganizationMember(op[c].id, op[c].row), UNCHANGED history,
               Writes(c, Put("org_member", new[1], new[2]), NoOp)
        PROVE  Plain(c)
    <3>1. /\ op[c].pc = "upsert_org_member"
          /\ Written("org_member", op[c].row) /\ op[c].row.status = "active"
        BY <1>1, <1>a DEF StoreOrganizationMember, At, Ready
    <3>2. Written("org_member", new[2])
        BY <1>a, <3>1, OrganizationMemberUpserts
    <3>3. Unheard
        BY <2>2, HistoryLate
    <3> QED
        BY <2>2, <3>1, <3>2, <3>3, NoOpReady, WritesPlain, TablesExist
  <2> QED
      BY <1>1, <2>1, <2>2 DEF StoreOrganizationMember
<1>2. CASE SetOrganizationMember(c)
  <2> DEFINE done == SetOrganizationMemberStatus(op[c].id, op[c].expected, op[c].status)
             next(row) == [pc |-> "cascade", id |-> op[c].id, member |-> row]
  <2>1. CASE done = {} /\ Fails(c)
      BY <1>2, <2>1, FailsPlain DEF SetOrganizationMember, At
  <2>2. ASSUME NEW row \in done, Writes(c, Put("org_member", op[c].id, row), next(row)), UNCHANGED history
        PROVE  Plain(c)
    <3>1. op[c].pc = "set_org_member" /\ op[c].id \in Ids("org_member") /\ op[c].status \in MembershipStatus
        BY <1>2, <1>a DEF SetOrganizationMember, At, Ready
    <3>2. row = Bumped(Row("org_member", op[c].id), op[c].status)
        BY <2>2 DEF SetOrganizationMemberStatus, UpdateOrganizationMemberStatusSql,
                    UpdateOrganizationMemberStatusMemory, Provided
    <3>3. Written("org_member", row)
        BY <1>a, <3>1, <3>2, RowInUse, BumpedWritten, StatusLists DEF Versioned
    <3>4. Ready(next(row)) /\ Apart(next(row))
        BY FreePcReady
    <3>5. Unheard
        BY <2>2, HistoryLate
    <3> HIDE DEF next
    <3> QED
        BY <2>2, <3>1, <3>3, <3>4, <3>5, WritesPlain, TablesExist
  <2> QED
      BY <1>2, <2>1, <2>2 DEF SetOrganizationMember
<1>3. CASE Cascade(c)
  <2> DEFINE member == op[c].member
             theirs == {i \in Ids("project_member") :
                          /\ Row("project_member", i).tenant = member.tenant
                          /\ Row("project_member", i).org = member.org
                          /\ Row("project_member", i).principal = member.principal
                          /\ CascadeTakes(Row("project_member", i), member.status)}
             next == IF member.status = "removed"
                     THEN [pc |-> "delete_org_bindings", id |-> op[c].id, member |-> member] ELSE NoOp
             table == [i \in DOMAIN db["project_member"] |->
                         IF i \in theirs THEN Bumped(db["project_member"][i], member.status)
                         ELSE db["project_member"][i]]
  <2>1. Writes(c, [db EXCEPT !["project_member"] = table], next) /\ history' = history
      BY <1>3, TablesExist
         DEF Cascade, CascadeProjectMemberships, CascadeProjectMembersSql, CascadeMemory, PutAll, Where,
             Base, DbShape
  <2>2. Ready(next) /\ Apart(next)
      BY NoOpReady, FreePcReady
  <2>3. op[c].pc # "record_session"
      BY <1>3 DEF Cascade, At
  <2>4. CASE member.status \in MembershipStatus
      BY <2>1, <2>2, <2>3, <2>4, BumpsAllPlain, StatusLists
  <2>5. CASE member.status \notin MembershipStatus
    <3>1. theirs = {}
        BY <2>5 DEF CascadeTakes, MembershipStatus
    <3>2. "active" \in Statuses["project_member"]
        BY StatusLists DEF MembershipStatus
    <3>3. table = [i \in DOMAIN db["project_member"] |->
                     IF i \in {} THEN Bumped(db["project_member"][i], "active")
                     ELSE db["project_member"][i]]
        BY <3>1
    <3>4. Writes(c, [db EXCEPT !["project_member"] =
                       [i \in DOMAIN db["project_member"] |->
                          IF i \in {} THEN Bumped(db["project_member"][i], "active")
                          ELSE db["project_member"][i]]], next)
        BY <2>1, <3>3
    <3>5. \E S \in SUBSET Ids("project_member") :
            Writes(c, [db EXCEPT !["project_member"] =
                         [i \in DOMAIN db["project_member"] |->
                            IF i \in S THEN Bumped(db["project_member"][i], "active")
                            ELSE db["project_member"][i]]], next)
      <4> WITNESS {} \in SUBSET Ids("project_member")
      <4> QED
          BY <3>4
    <3> HIDE DEF next, table
    <3> QED
        BY <2>1, <2>2, <2>3, <3>2, <3>5, BumpsAllPlain
  <2> QED
      BY <2>4, <2>5
<1>4. CASE StoreProjectMember(c)
  <2>1. CASE UpsertProjectMember(op[c].id, op[c].row) = {} /\ Fails(c)
      BY <1>4, <2>1, FailsPlain DEF StoreProjectMember, At
  <2>2. ASSUME NEW new \in UpsertProjectMember(op[c].id, op[c].row),
               Writes(c, Put("project_member", new[1], new[2]), NoOp),
               history' = Late("project_member", new[1], new[2])
        PROVE  Plain(c)
    <3>1. op[c].pc = "upsert_project_member" /\ Written("project_member", op[c].row)
        BY <1>4, <1>a DEF StoreProjectMember, At, Ready
    <3>2. Written("project_member", new[2])
        BY <1>a, <3>1, ProjectMemberUpserts
    <3>3. Unheard
        BY <2>2, LateUnheard
    <3> QED
        BY <2>2, <3>1, <3>2, <3>3, NoOpReady, WritesPlain, TablesExist
  <2> QED
      BY <1>4, <2>1, <2>2 DEF StoreProjectMember
<1>5. CASE SetProjectMember(c)
  <2> DEFINE done == SetProjectMemberStatus(op[c].id, op[c].expected, op[c].status)
             next(row) == IF row.status = "removed"
                          THEN [pc |-> "delete_project_bindings", member |-> row] ELSE NoOp
  <2>1. CASE done = {} /\ Fails(c)
      BY <1>5, <2>1, FailsPlain DEF SetProjectMember, At
  <2>2. ASSUME NEW row \in done, Writes(c, Put("project_member", op[c].id, row), next(row)),
               history' = Late("project_member", op[c].id, row)
        PROVE  Plain(c)
    <3>1. /\ op[c].pc = "set_project_member" /\ op[c].id \in Ids("project_member")
          /\ op[c].status \in MembershipStatus
        BY <1>5, <1>a DEF SetProjectMember, At, Ready
    <3>2. row = Bumped(Row("project_member", op[c].id), op[c].status)
        BY <2>2 DEF SetProjectMemberStatus, UpdateProjectMemberStatusSql,
                    UpdateProjectMemberStatusMemory, Provided
    <3>3. Written("project_member", row)
        BY <1>a, <3>1, <3>2, RowInUse, BumpedWritten, StatusLists DEF Versioned
    <3>4. Ready(next(row)) /\ Apart(next(row))
        BY FreePcReady, NoOpReady
    <3>5. Unheard
        BY <2>2, LateUnheard
    <3> HIDE DEF next
    <3> QED
        BY <2>2, <3>1, <3>3, <3>4, <3>5, WritesPlain, TablesExist
  <2> QED
      BY <1>5, <2>1, <2>2 DEF SetProjectMember
<1> QED
    BY <1>1, <1>2, <1>3, <1>4, <1>5

\* The admin routes of role bindings.
LEMMA BindingWritesPlain ==
    ASSUME Base, NEW c \in Clients,
           \/ StoreRoleBinding(c) \/ SetRoleBinding(c)
           \/ DeleteOrganizationBindings(c) \/ DeleteProjectBindings(c)
    PROVE  Plain(c)
<1>a. Ready(op[c]) /\ DbShape /\ TypeOK
    BY DEF Base
<1>1. CASE StoreRoleBinding(c)
  <2>1. PICK new \in UpsertRoleBinding(op[c].id, op[c].row) :
          /\ Writes(c, Put("binding", new[1], new[2]), NoOp)
          /\ history' = Late("binding", new[1], new[2])
      BY <1>1 DEF StoreRoleBinding
  <2>2. op[c].pc = "upsert_binding" /\ Written("binding", op[c].row)
      BY <1>1, <1>a DEF StoreRoleBinding, At, Ready
  <2>3. new[1] \in DOMAIN db["binding"] => Written("binding", new[2])
      BY <1>a, <2>2, RoleBindingUpserts
  <2>4. Unheard
      BY <2>1, LateUnheard
  <2> QED
      BY <2>1, <2>2, <2>3, <2>4, NoOpReady, WritesPlain, TablesExist
<1>2. CASE SetRoleBinding(c)
  <2> DEFINE done == SetRoleBindingStatus(op[c].id, op[c].expected, op[c].status)
  <2>1. CASE done = {} /\ Fails(c)
      BY <1>2, <2>1, FailsPlain DEF SetRoleBinding, At
  <2>2. ASSUME NEW row \in done, Writes(c, Put("binding", op[c].id, row), NoOp),
               history' = Late("binding", op[c].id, row)
        PROVE  Plain(c)
    <3>1. op[c].pc = "set_binding" /\ op[c].id \in Ids("binding") /\ op[c].status \in RoleBindingStatus
        BY <1>2, <1>a DEF SetRoleBinding, At, Ready
    <3>2. row = Bumped(Row("binding", op[c].id), op[c].status)
        BY <2>2 DEF SetRoleBindingStatus, UpdateRoleBindingStatusSql, UpdateRoleBindingStatusMemory,
                    Provided
    <3>3. Written("binding", row)
        BY <1>a, <3>1, <3>2, RowInUse, BumpedWritten, StatusLists DEF Versioned
    <3>5. Unheard
        BY <2>2, LateUnheard
    <3> QED
        BY <2>2, <3>1, <3>3, <3>5, NoOpReady, WritesPlain, TablesExist
  <2> QED
      BY <1>2, <2>1, <2>2 DEF SetRoleBinding
<1>3. ASSUME DeleteOrganizationBindings(c) \/ DeleteProjectBindings(c)
      PROVE  Plain(c)
  <2>1. PICK S \in SUBSET Ids("binding") :
          Writes(c, [db EXCEPT !["binding"] =
                       [i \in DOMAIN db["binding"] |->
                          IF i \in S THEN Bumped(db["binding"][i], "deleted") ELSE db["binding"][i]]], NoOp)
    <3> DEFINE result(S) == [db EXCEPT !["binding"] =
                       [i \in DOMAIN db["binding"] |->
                          IF i \in S THEN Bumped(db["binding"][i], "deleted") ELSE db["binding"][i]]]
               member == op[c].member
               s1 == {b \in ActiveRoleBindingsMemory(member.tenant, member.principal) :
                        Row("binding", b).org = member.org}
               s2 == {b \in ListRoleBindingsSql(member.tenant) :
                        Row("binding", b).org = member.org /\ Row("binding", b).principal = member.principal}
               s3 == {b \in ActiveRoleBindingsMemory(member.tenant, member.principal) :
                        Row("binding", b).project = member.project}
               s4 == {b \in ListRoleBindingsSql(member.tenant) :
                        Row("binding", b).project = member.project
                        /\ Row("binding", b).principal = member.principal}
    <3>1. /\ s1 \in SUBSET Ids("binding") /\ s2 \in SUBSET Ids("binding")
          /\ s3 \in SUBSET Ids("binding") /\ s4 \in SUBSET Ids("binding")
        BY DEF ActiveRoleBindingsMemory, ListRoleBindingsSql, Where
    <3>2. "binding" \in DOMAIN db
        BY <1>a, TablesExist DEF DbShape
    <3>3. \/ Writes(c, result(s1), NoOp) \/ Writes(c, result(s2), NoOp)
          \/ Writes(c, result(s3), NoOp) \/ Writes(c, result(s4), NoOp)
      <4>1. CASE DeleteOrganizationBindings(c)
          BY <4>1, <3>2
             DEF DeleteOrganizationBindings, DeleteRoleBindingsForOrganizationPrincipal, PutAll,
                 DeleteOrganizationBindingsMemory, DeleteRoleBindingsForOrganizationPrincipalSql
      <4>2. CASE DeleteProjectBindings(c)
          BY <4>2, <3>2
             DEF DeleteProjectBindings, DeleteRoleBindingsForProjectPrincipal, PutAll,
                 DeleteProjectBindingsMemory, DeleteRoleBindingsForProjectPrincipalSql
      <4> QED
          BY <1>3, <4>1, <4>2
    <3> HIDE DEF s1, s2, s3, s4
    <3> QED
        BY <3>1, <3>3
  <2>2. history' = history /\ op[c].pc # "record_session"
      BY <1>3 DEF DeleteOrganizationBindings, DeleteProjectBindings, At
  <2>3. "deleted" \in Statuses["binding"]
      BY StatusLists DEF RoleBindingStatus
  <2> QED
      BY <2>1, <2>2, <2>3, NoOpReady, BumpsAllPlain
<1> QED
    BY <1>1, <1>2, <1>3

\* Identity providers and secret references.
LEMMA ProviderWritesPlain ==
    ASSUME Base, NEW c \in Clients,
           \/ StoreOidcIdentityProvider(c) \/ CreatePlatformSecretRef(c) \/ StoreSecretRef(c)
    PROVE  Plain(c)
<1>a. \A row : Written("provider", row) /\ Written("secret", row)
    BY StatusLists DEF Written
<1>1. CASE StoreOidcIdentityProvider(c)
    BY <1>1, <1>a, HistoryLate, NoOpReady, WritesPlain, TablesExist
       DEF StoreOidcIdentityProvider, UpsertOidcLoginProvider, At
<1>2. CASE CreatePlatformSecretRef(c)
  <2>1. op[c].pc = "idle"
      BY <1>2 DEF CreatePlatformSecretRef, Calling
  <2>2. PICK held, i, row :
          /\ held = [pc |-> "upsert_secret", id |-> i, row |-> row]
          /\ \/ Starts(c, held)
             \/ /\ Writes(c, Put("secret", i, row), held)
                /\ history' = [history EXCEPT !.requests = @ + 1]
      BY <1>2 DEF CreatePlatformSecretRef, UpsertSecretRef
  <2>3. Ready(held) /\ Apart(held)
      BY <2>2, FreePcReady
  <2>4. CASE Starts(c, held)
      BY <2>1, <2>3, <2>4, StartsPlain
  <2>5. ASSUME Writes(c, Put("secret", i, row), held), history' = [history EXCEPT !.requests = @ + 1]
        PROVE  Plain(c)
    <3>1. Unheard
        BY <2>5, HistoryKept DEF Unheard
    <3> QED
        BY <1>a, <2>1, <2>3, <2>5, <3>1, WritesPlain, TablesExist
  <2> QED
      BY <2>2, <2>4, <2>5
<1>3. CASE StoreSecretRef(c)
  <2>1. Unheard /\ op[c].pc # "record_session"
      BY <1>3, HistoryLate DEF StoreSecretRef, At
  <2>2. CASE Writes(c, Put("secret", op[c].id, op[c].row), NoOp)
      BY <1>a, <2>1, <2>2, NoOpReady, WritesPlain, TablesExist
  <2>3. CASE Writes(c, db, NoOp)
      BY <2>1, <2>3, NoOpReady, MovesPlain DEF Writes, Unheard
  <2> QED
      BY <1>3, <2>2, <2>3 DEF StoreSecretRef, UpsertSecretRef
<1> QED
    BY <1>1, <1>2, <1>3

\* The handler's record with another step to go to.
LEMMA NextStep ==
    ASSUME Base, NEW c \in Clients, NEW pc
    PROVE  /\ "pc" \in DOMAIN Next1(c, pc) /\ Next1(c, pc).pc = pc
           /\ Next1(c, pc).attempt = op[c].attempt /\ Next1(c, pc).subject = op[c].subject
BY DEF Base, Ready, Next1

\* The steps of a login before it consumes its attempt.
LEMMA LoginMovesPlain ==
    ASSUME Base, NEW c \in Clients,
           ExchangeOidcAuthorizationCode(c) \/ EnsureCanLogin(c) \/ CompleteReadUser(c)
    PROVE  Plain(c)
<1>a. Ready(op[c]) /\ DbShape /\ TypeOK
    BY DEF Base
<1>b. ASSUME UNCHANGED history
      PROVE  HistoryFields \subseteq DOMAIN history'
             /\ history'.tokens = history.tokens /\ history'.admitted = history.admitted
    BY <1>b, HistoryLate DEF Unheard
<1>1. CASE ExchangeOidcAuthorizationCode(c)
  <2>1. op[c].pc = "exchange" /\ op[c].attempt \in Ids("attempt")
      BY <1>1, <1>a DEF ExchangeOidcAuthorizationCode, At, Ready, LoginPcs
  <2>2. CASE Fails(c)
      BY <2>1, <2>2, FailsPlain
  <2>3. ASSUME NEW subject, answer' = Nobody, UNCHANGED <<db, clock, history, scenario>>,
               op' = [op EXCEPT ![c] = [pc |-> "can_login", attempt |-> op[c].attempt,
                                        now |-> op[c].now, subject |-> subject]]
        PROVE  Plain(c)
    <3> DEFINE next == [pc |-> "can_login", attempt |-> op[c].attempt, now |-> op[c].now,
                        subject |-> subject]
    <3>1. Ready(next) /\ Apart(next)
        BY <2>1 DEF Ready, Apart, LoginPcs, MemoryPcs, SqlPcs, InvitePcs
    <3> HIDE DEF next
    <3> QED
        BY <1>b, <2>1, <2>3, <3>1, MovesPlain DEF next
  <2> QED
      BY <1>1, <2>2, <2>3 DEF ExchangeOidcAuthorizationCode
<1>2. CASE EnsureCanLogin(c)
  <2>1. op[c].pc = "can_login" /\ op[c].attempt \in Ids("attempt")
      BY <1>2, <1>a DEF EnsureCanLogin, At, Ready, LoginPcs
  <2>2. CASE Fails(c)
      BY <2>1, <2>2, FailsPlain
  <2> DEFINE pc == IF Postgres THEN "consume_sql" ELSE "read_user"
  <2>3. ASSUME answer' = Nobody, UNCHANGED <<db, clock, history, scenario>>,
               op' = [op EXCEPT ![c].pc = pc]
        PROVE  Plain(c)
    <3>1. op' = [op EXCEPT ![c] = Next1(c, pc)]
        BY <2>3 DEF Next1
    <3>2. Ready(Next1(c, pc)) /\ Apart(Next1(c, pc))
        BY <2>1, NextStep DEF Ready, Apart, LoginPcs, MemoryPcs, SqlPcs, InvitePcs
    <3> HIDE DEF pc
    <3> QED
        BY <1>b, <2>1, <2>3, <3>1, <3>2, MovesPlain
  <2> QED
      BY <1>2, <2>2, <2>3 DEF EnsureCanLogin
<1>3. CASE CompleteReadUser(c)
  <2>1. op[c].pc = "read_user" /\ op[c].attempt \in Ids("attempt") /\ ~Postgres
      BY <1>3, <1>a DEF CompleteReadUser, At, Ready, LoginPcs, MemoryPcs
  <2> DEFINE next == [pc |-> "record_user", attempt |-> op[c].attempt, now |-> op[c].now,
                      subject |-> op[c].subject, user |-> Row("user", Completion(c).user)]
  <2>2. Personal[next.subject].user \in DOMAIN Seed["user"] => WellFormed("user", next.user)
      BY <1>a, StatusLists, TablesExist DEF TypeOK, DbShape, Completion
  <2>3. Ready(next) /\ Apart(next)
    <3>1. /\ "pc" \in DOMAIN next /\ next.pc = "record_user" /\ next.attempt = op[c].attempt
        OBVIOUS
    <3> HIDE DEF next
    <3> QED
        BY <2>1, <2>2, <3>1 DEF Ready, Apart, LoginPcs, MemoryPcs, SqlPcs, InvitePcs
  <2>4. /\ op' = [op EXCEPT ![c] = next] /\ answer' = Nobody
        /\ UNCHANGED <<db, clock, history, scenario>>
      BY <1>3 DEF CompleteReadUser
  <2> HIDE DEF next
  <2> QED
      BY <1>b, <2>1, <2>3, <2>4, MovesPlain
<1> QED
    BY <1>1, <1>2, <1>3

\* What a login in memory writes beside the attempt and the session.
LEMMA LoginWritesPlain ==
    ASSUME Base, NEW c \in Clients,
           \/ CompleteRecordUser(c) \/ CompleteUpsertIdentity(c)
           \/ CompleteRecordOrganizationMember(c) \/ CompleteRecordProjectMember(c)
           \/ CompleteRecordRoleBinding(c)
    PROVE  Plain(c)
<1>a. Ready(op[c]) /\ DbShape /\ TypeOK
    BY DEF Base
<1>1. CASE CompleteRecordUser(c)
  <2>1. /\ op[c].pc = "record_user" /\ op[c].attempt \in Ids("attempt") /\ ~Postgres
        /\ Completion(c).user \in DOMAIN Seed["user"] => WellFormed("user", op[c].user)
      BY <1>1, <1>a DEF CompleteRecordUser, At, Ready, LoginPcs, MemoryPcs, Completion
  <2> DEFINE row == IF op[c].user.status = "absent"
                    THEN [tenant |-> Completion(c).tenant, status |-> "active", version |-> 1]
                    ELSE [op[c].user EXCEPT !.version = @ + 1]
  <2>2. Completion(c).user \in DOMAIN db["user"] => Written("user", row)
      BY <1>a, <2>1, StatusLists, TablesExist DEF DbShape, Written, WellFormed, Versioned, UserStatus
  <2>3. Ready(Next1(c, "upsert_identity")) /\ Apart(Next1(c, "upsert_identity"))
      BY <2>1, NextStep DEF Ready, Apart, LoginPcs, MemoryPcs, SqlPcs, InvitePcs
  <2>4. Unheard
      BY <1>1, HistoryLate DEF CompleteRecordUser
  <2>5. Writes(c, Put("user", Completion(c).user, row), Next1(c, "upsert_identity"))
      BY <1>1 DEF CompleteRecordUser
  <2> HIDE DEF row
  <2> QED
      BY <2>1, <2>2, <2>3, <2>4, <2>5, WritesPlain, TablesExist
<1>2. CASE CompleteUpsertIdentity(c)
  <2>1. op[c].pc = "upsert_identity" /\ op[c].attempt \in Ids("attempt") /\ ~Postgres
      BY <1>2, <1>a DEF CompleteUpsertIdentity, At, Ready, LoginPcs, MemoryPcs
  <2> DEFINE done == UpsertExternalIdentity(Completion(c).identity, NewIdentity(c))
  <2>2. CASE done = {} /\ Fails(c)
      BY <2>1, <2>2, FailsPlain
  <2>3. ASSUME NEW new \in done, UNCHANGED history,
               Writes(c, Put("identity", new[1], new[2]), Next1(c, "consume"))
        PROVE  Plain(c)
    <3>1. Written("identity", NewIdentity(c))
        BY StatusLists DEF NewIdentity, Written, WellFormed, Versioned, ExternalIdentityStatus
    <3>2. Written("identity", new[2])
        BY <1>a, <3>1, IdentityUpserts
    <3>3. Ready(Next1(c, "consume")) /\ Apart(Next1(c, "consume"))
        BY <2>1, NextStep DEF Ready, Apart, LoginPcs, MemoryPcs, SqlPcs, InvitePcs
    <3>4. Unheard
        BY <2>3, HistoryLate
    <3> QED
        BY <2>1, <2>3, <3>2, <3>3, <3>4, WritesPlain, TablesExist
  <2> QED
      BY <1>2, <2>2, <2>3 DEF CompleteUpsertIdentity
<1>b. \A p : /\ Written("org_member", NewOrganizationMember(p))
             /\ Written("project_member", NewProjectMember(p))
             /\ Written("binding", NewOrganizationAdmin(p))
    BY StatusLists
       DEF NewOrganizationMember, NewProjectMember, NewOrganizationAdmin, OrganizationMembershipRecord,
           ProjectMembershipRecord, Written, WellFormed, MembershipStatus, RoleBindingStatus
<1>c. \A pc \in {"record_project_member", "record_binding"} :
        Ready(Next1(c, pc)) /\ Apart(Next1(c, pc))
    BY NextStep, FreePcReady
<1>3. CASE CompleteRecordOrganizationMember(c)
    BY <1>3, <1>b, <1>c, HistoryLate, WritesPlain, TablesExist
       DEF CompleteRecordOrganizationMember, At
<1>4. CASE CompleteRecordProjectMember(c)
    BY <1>4, <1>b, <1>c, LateUnheard, WritesPlain, TablesExist
       DEF CompleteRecordProjectMember, At
<1>5. CASE CompleteRecordRoleBinding(c)
    BY <1>5, <1>b, NoOpReady, LateUnheard, WritesPlain, TablesExist
       DEF CompleteRecordRoleBinding, At
<1> QED
    BY <1>1, <1>2, <1>3, <1>4, <1>5

\* What the current session's routes write, and those of an invitation that is
\* taken up, beside the invitation.
LEMMA CurrentWritesPlain ==
    ASSUME Base, NEW c \in Clients,
           \/ UpdateContext(c) \/ Logout(c) \/ SelectInvitation(c)
           \/ UpsertInvitedOrganizationMember(c) \/ UpsertInvitedProjectMember(c)
    PROVE  Plain(c)
<1>a. Ready(op[c]) /\ DbShape /\ TypeOK
    BY DEF Base
<1>1. CASE UpdateContext(c)
  <2> DEFINE done == UpdateAuthSessionContext(op[c].id, op[c].org, op[c].project)
  <2>1. CASE done = {} /\ Fails(c)
      BY <1>1, <2>1, FailsPlain DEF UpdateContext, At
  <2>2. ASSUME NEW row \in done, UNCHANGED history, Writes(c, Put("session", op[c].id, row), NoOp)
        PROVE  Plain(c)
    <3>1. /\ Row("session", op[c].id).status = "active"
          /\ row = [Row("session", op[c].id) EXCEPT !.org = op[c].org, !.project = op[c].project]
        BY <2>2 DEF UpdateAuthSessionContext, UpdateAuthSessionContextByTokenSql,
                    UpdateAuthSessionContextByBearer, Provided, ActiveSessionRecord
    <3>2. op[c].id \in DOMAIN db["session"] =>
            Written("session", row) /\ row.attempt = Row("session", op[c].id).attempt
        BY <1>a, <3>1, StatusLists DEF TypeOK, WellFormed, Written, Versioned, AuthSessionStatus
    <3> QED
        BY <1>1, <2>2, <3>1, <3>2, NoOpReady, SessionWritesPlain DEF UpdateContext, At
  <2> QED
      BY <1>1, <2>1, <2>2 DEF UpdateContext
<1>2. CASE Logout(c)
  <2> DEFINE done == RevokeAuthSession(op[c].id)
  <2>1. CASE done = {} /\ Fails(c)
      BY <1>2, <2>1, FailsPlain DEF Logout, At
  <2>2. ASSUME NEW row \in done, UNCHANGED history, Writes(c, Put("session", op[c].id, row), NoOp)
        PROVE  Plain(c)
    <3>1. /\ Row("session", op[c].id).status = "active"
          /\ row = [Row("session", op[c].id) EXCEPT !.status = "revoked"]
        BY <2>2 DEF RevokeAuthSession, RevokeAuthSessionByTokenSql, RevokeAuthSessionByBearer,
                    AuthSessionForBearer, Where, ActiveSessionRecord
    <3>2. op[c].id \in DOMAIN db["session"] =>
            Written("session", row) /\ row.attempt = Row("session", op[c].id).attempt
        BY <1>a, <3>1, StatusLists DEF TypeOK, WellFormed, Written, Versioned, AuthSessionStatus
    <3> QED
        BY <1>2, <2>2, <3>1, <3>2, NoOpReady, SessionWritesPlain DEF Logout, At
  <2> QED
      BY <1>2, <2>1, <2>2 DEF Logout
<1>3. CASE SelectInvitation(c)
  <2>1. op[c].pc = "select_invitation" /\ op[c].id \in Ids("invitation")
      BY <1>3, <1>a DEF SelectInvitation, At, Ready, InvitePcs
  <2>2. CASE Fails(c)
      BY <2>1, <2>2, FailsPlain
  <2>3. ASSUME answer' = Nobody, UNCHANGED <<db, clock, history, scenario>>,
               op' = [op EXCEPT ![c] = Next1(c, "commit_invitation")]
        PROVE  Plain(c)
    <3>1. Ready(Next1(c, "commit_invitation")) /\ Apart(Next1(c, "commit_invitation"))
      <4>1. /\ "pc" \in DOMAIN Next1(c, "commit_invitation")
            /\ Next1(c, "commit_invitation").pc = "commit_invitation"
            /\ Next1(c, "commit_invitation").id = op[c].id
          BY <1>a DEF Next1, Ready
      <4> QED
          BY <2>1, <4>1 DEF Ready, Apart, LoginPcs, MemoryPcs, SqlPcs, InvitePcs
    <3>2. Unheard
        BY <2>3, HistoryLate
    <3> QED
        BY <2>1, <2>3, <3>1, <3>2, MovesPlain DEF Unheard
  <2> QED
      BY <1>3, <2>2, <2>3 DEF SelectInvitation
<1>4. CASE UpsertInvitedOrganizationMember(c)
  <2> DEFINE new == InvitedOrganizationMember(op[c].row)
             next(i) == IF op[c].row.project = None THEN NoOp
                        ELSE [pc |-> "invited_project_member", row |-> op[c].row, member |-> i]
  <2>1. PICK x \in UpsertOrganizationMemberMemory(NewId("org_member"), new) :
          Writes(c, Put("org_member", x[1], x[2]), next(x[1]))
      BY <1>4 DEF UpsertInvitedOrganizationMember
  <2>2. Written("org_member", new) /\ new.status = "active"
      BY StatusLists DEF InvitedOrganizationMember, OrganizationMembershipRecord, Written, WellFormed,
                         MembershipStatus
  <2>3. Ready(next(x[1])) /\ Apart(next(x[1]))
      BY NoOpReady, FreePcReady
  <2>4. Unheard /\ op[c].pc # "record_session"
      BY <1>4, HistoryLate DEF UpsertInvitedOrganizationMember, At
  <2> HIDE DEF new, next
  <2>5. Written("org_member", x[2])
      BY <1>a, <2>2, OrganizationMemberUpserts
  <2> QED
      BY <2>1, <2>3, <2>4, <2>5, WritesPlain, TablesExist
<1>5. CASE UpsertInvitedProjectMember(c)
  <2> DEFINE new == InvitedProjectMember(op[c].row, op[c].member)
  <2>1. PICK x \in UpsertProjectMemberMemory(NewId("project_member"), new) :
          /\ Writes(c, Put("project_member", x[1], x[2]), NoOp)
          /\ history' = Late("project_member", x[1], x[2])
      BY <1>5 DEF UpsertInvitedProjectMember
  <2>2. Written("project_member", new)
      BY StatusLists DEF InvitedProjectMember, ProjectMembershipRecord, Written, WellFormed,
                         MembershipStatus
  <2>3. Unheard /\ op[c].pc # "record_session"
      BY <1>5, <2>1, LateUnheard DEF UpsertInvitedProjectMember, At
  <2> HIDE DEF new
  <2>4. Written("project_member", x[2])
      BY <1>a, <2>2, ProjectMemberUpserts
  <2> QED
      BY <2>1, <2>3, <2>4, NoOpReady, WritesPlain, TablesExist
<1> QED
    BY <1>1, <1>2, <1>3, <1>4, <1>5

\* The rows of the single user, and the tables they are in.
LEMMA SingleUserWritten ==
    /\ Len(SingleUserRows) = 5 /\ DOMAIN SingleUserRows = 1 .. 5
    /\ \A n \in 1 .. 5 :
         /\ SingleUserRows[n][1] \in {"user", "identity", "org_member", "project_member", "binding"}
         /\ Written(SingleUserRows[n][1], SingleUserRows[n][3])
<1>1. Len(SingleUserRows) = 5 /\ DOMAIN SingleUserRows = 1 .. 5
    BY DEF SingleUserRows
<1>2. ASSUME NEW n \in 1 .. 5
      PROVE  LET row == SingleUserRows[n]
             IN /\ row[1] \in {"user", "identity", "org_member", "project_member", "binding"}
                /\ "status" \in DOMAIN row[3] /\ row[3].status = "active"
                /\ row[1] # "identity" => "version" \in DOMAIN row[3] /\ row[3].version = 1
  <2>1. CASE n = 1
      BY <2>1 DEF SingleUserRows
  <2>2. CASE n = 2
      BY <2>2 DEF SingleUserRows
  <2>3. CASE n = 3
      BY <2>3 DEF SingleUserRows, NewOrganizationMember, OrganizationMembershipRecord
  <2>4. CASE n = 4
      BY <2>4 DEF SingleUserRows, NewProjectMember, ProjectMembershipRecord
  <2>5. CASE n = 5
      BY <2>5 DEF SingleUserRows
  <2> QED
      BY <2>1, <2>2, <2>3, <2>4, <2>5
<1> QED
    BY <1>1, <1>2, StatusLists
       DEF Written, WellFormed, Versioned, UserStatus, ExternalIdentityStatus, MembershipStatus,
           RoleBindingStatus

LEMMA SingleUserPlain ==
    ASSUME Base, NEW c \in Clients, RecordSingleUserMemberships(c)
    PROVE  Plain(c)
<1>1. op[c].pc = "single_user_memberships" /\ op[c].step \in 1 .. 5 /\ {"pc", "step"} \subseteq DOMAIN op[c]
    BY DEF RecordSingleUserMemberships, At, Base, Ready
<1> DEFINE row == SingleUserRows[op[c].step]
           next == IF op[c].step = 5 THEN NoOp ELSE [op[c] EXCEPT !.step = op[c].step + 1]
<1>2. /\ Writes(c, Put(row[1], row[2], row[3]), next)
      /\ history' = Late(row[1], row[2], row[3]) \/ history' = history
    BY SingleUserWritten DEF RecordSingleUserMemberships
<1>3. Unheard
    BY <1>2, LateUnheard, HistoryLate
<1>4. Ready(next) /\ Apart(next)
  <2>1. CASE op[c].step = 5
      BY <2>1, NoOpReady
  <2>2. CASE op[c].step # 5
    <3>1. {"pc", "step"} \subseteq DOMAIN next /\ next.pc = "single_user_memberships"
        BY <1>1, <2>2
    <3>2. next.step \in 1 .. 5
        BY <1>1, <2>2
    <3> HIDE DEF next
    <3> QED
        BY <3>1, <3>2 DEF Ready, Apart, LoginPcs, MemoryPcs, SqlPcs, InvitePcs
  <2> QED
      BY <2>1, <2>2
<1>5. /\ row[1] \in DOMAIN Seed \ {"attempt", "session", "invitation"}
      /\ Written(row[1], row[3])
    BY <1>1, SingleUserWritten, TablesExist
<1> HIDE DEF row, next
<1> QED
    BY <1>1, <1>2, <1>3, <1>4, <1>5, WritesPlain

\* The timeout drops a handler: in memory, only one that waits for the provider.
LEMMA DropPlain ==
    ASSUME Base, NEW c \in Clients, DropHandler(c)
    PROVE  Plain(c)
<1>1. op[c].pc # "record_session"
    BY DEF DropHandler, At, Base, Ready, MemoryPcs
<1>2. Unheard
    BY DEF DropHandler, Base, Unheard, HistoryFields
<1> QED
    BY <1>1, <1>2, NoOpReady, MovesPlain DEF DropHandler, Unheard

-----------------------------------------------------------------------------
(* The inductive invariant                                                 *)

\* A handler that has an attempt to itself: consumed in memory, locked by the
\* transaction in Postgres.
Holds(c) == op[c].pc \in {"record_session", "commit_login"}
LoginInv ==
    /\ \A c \in Clients :
         /\ op[c].pc = "record_session" => Row("attempt", op[c].attempt).status = "consumed"
         /\ op[c].pc = "commit_login" => Row("attempt", op[c].attempt).status = "active"
    /\ \A c, d \in Clients : Holds(c) /\ Holds(d) /\ op[c].attempt = op[d].attempt => c = d

\* The invitations that are stored and those that are about to be have tokens of
\* their own, and a token that let somebody in is of neither, unless of one accepted.
Inserts(c) == op[c].pc = "insert_invitation"
Admitted == {history.admitted[j] : j \in DOMAIN history.admitted}
InviteInv ==
    /\ history.tokens \in Nat
    /\ history.admitted \in Seq(Nat) /\ Admitted \subseteq 1 .. history.tokens
    /\ \A j, n \in DOMAIN history.admitted : history.admitted[j] = history.admitted[n] => j = n
    /\ \A i \in Ids("invitation") :
         /\ Row("invitation", i).token \in 1 .. history.tokens
         /\ Row("invitation", i).token \in Admitted => Row("invitation", i).status = "accepted"
         /\ \A j \in Ids("invitation") :
              Row("invitation", i).token = Row("invitation", j).token => i = j
    /\ \A c \in Clients : Inserts(c) =>
         /\ op[c].row.token \in (1 .. history.tokens) \ Admitted
         /\ \A i \in Ids("invitation") : Row("invitation", i).token # op[c].row.token
         /\ \A d \in Clients : Inserts(d) /\ op[c].row.token = op[d].row.token => c = d

IInv == Base /\ AnswersStayInTenant /\ LoginInv /\ InviteInv

-----------------------------------------------------------------------------
(* The steps of logins and invitations                                     *)

\* One attempt changes its status; one session appears, of attempt a.
AttemptBecomes(a, old, new) ==
    /\ a \in DOMAIN db["attempt"]
    /\ db["attempt"][a].status = old /\ db'["attempt"][a].status = new
    /\ \A n \in DOMAIN db["attempt"] \ {a} : db'["attempt"][n] = db["attempt"][n]
SessionAppears(a) ==
    \E s \in DOMAIN db["session"] :
        /\ db["session"][s].status = "absent"
        /\ db'["session"][s].status = "active" /\ db'["session"][s].attempt = a
        /\ \A n \in DOMAIN db["session"] \ {s} : db'["session"][n] = db["session"][n]

\* What a client's step may be to logins: nothing, or the start of an attempt, its
\* consumption in memory, its lock in Postgres, the session in memory, the commit
\* in Postgres, or the single user's session.
LoginStep(c) ==
    \/ LoginPlain(c)
    \/ /\ db'["session"] = db["session"] /\ ~Holds(c) /\ ~Holds(c)'
       /\ \E a \in DOMAIN db["attempt"] : AttemptBecomes(a, "absent", "active")
    \/ /\ db'["session"] = db["session"] /\ ~Holds(c) /\ ~Postgres
       /\ op'[c].pc = "record_session" /\ op'[c].attempt = op[c].attempt
       /\ AttemptBecomes(op[c].attempt, "active", "consumed")
    \/ /\ db'["session"] = db["session"] /\ db'["attempt"] = db["attempt"] /\ ~Holds(c)
       /\ op'[c].pc = "commit_login" /\ op'[c].attempt = op[c].attempt
       /\ db["attempt"][op[c].attempt].status = "active"
       /\ \A d \in Clients : op[d].pc = "commit_login" => op[d].attempt # op[c].attempt
    \/ /\ op[c].pc = "record_session" /\ ~Holds(c)'
       /\ db'["attempt"] = db["attempt"] /\ SessionAppears(op[c].attempt)
    \/ /\ op[c].pc = "commit_login" /\ ~Holds(c)'
       /\ AttemptBecomes(op[c].attempt, "active", "consumed") /\ SessionAppears(op[c].attempt)
    \/ /\ ~Holds(c) /\ ~Holds(c)'
       /\ db'["attempt"] = db["attempt"] /\ SessionAppears(None)

\* What it may be to invitations: nothing, a new token, the row of one, or a pending
\* one that is revoked or lets somebody in.
InviteStep(c) ==
    \/ InvitePlain(c)
    \/ /\ db'["invitation"] = db["invitation"] /\ ~Inserts(c) /\ Inserts(c)'
       /\ history'.tokens = history.tokens + 1 /\ history'.admitted = history.admitted
       /\ op'[c].row.token = history'.tokens
    \/ /\ Inserts(c) /\ ~Inserts(c)'
       /\ history'.tokens = history.tokens /\ history'.admitted = history.admitted
       /\ \A n \in DOMAIN db["invitation"] :
            db'["invitation"][n] = IF n = op[c].id THEN op[c].row ELSE db["invitation"][n]
    \/ /\ ~Inserts(c)' /\ history'.tokens = history.tokens
       /\ \E i \in DOMAIN db["invitation"] :
            LET old == db["invitation"][i]
                new == db'["invitation"][i]
            IN /\ old.status = "pending" /\ new.token = old.token
               /\ \A n \in DOMAIN db["invitation"] \ {i} : db'["invitation"][n] = db["invitation"][n]
               /\ \/ new.status = "revoked" /\ history'.admitted = history.admitted
                  \/ /\ new.status = "accepted"
                     /\ history'.admitted = Append(history.admitted, old.token)

StepOf(c) == Acts(c) /\ LoginStep(c) /\ InviteStep(c)

LEMMA PlainStep ==
    ASSUME NEW c, Plain(c)
    PROVE  StepOf(c)
BY DEF Plain, StepOf, LoginStep, InviteStep

\* Rows of several tables are written, one of each at most.
LEMMA EditsGrow ==
    ASSUME DbShape, DOMAIN db' = DOMAIN db,
           \A k \in DOMAIN Seed :
               \/ db'[k] = db[k]
               \/ \E i, row : /\ db'[k] = [db[k] EXCEPT ![i] = row]
                              /\ i \in DOMAIN db[k] => Written(k, row)
    PROVE  Grows
<1>1. ASSUME NEW k \in DOMAIN Seed
      PROVE  /\ IsFcn(db'[k]) /\ DOMAIN db'[k] = DOMAIN Seed[k]
             /\ \A n \in DOMAIN Seed[k] : db'[k][n] = db[k][n] \/ Written(k, db'[k][n])
  <2>1. CASE db'[k] = db[k]
      BY <2>1 DEF DbShape
  <2>2. ASSUME NEW i, NEW row, db'[k] = [db[k] EXCEPT ![i] = row],
               i \in DOMAIN db[k] => Written(k, row)
        PROVE  /\ IsFcn(db'[k]) /\ DOMAIN db'[k] = DOMAIN Seed[k]
               /\ \A n \in DOMAIN Seed[k] : db'[k][n] = db[k][n] \/ Written(k, db'[k][n])
    <3>1. IsFcn(db'[k]) /\ DOMAIN db'[k] = DOMAIN db[k]
        BY <2>2 DEF IsFcn
    <3>2. \A n \in DOMAIN db[k] : db'[k][n] = IF n = i THEN row ELSE db[k][n]
        BY <2>2
    <3> QED
        BY <2>2, <3>1, <3>2 DEF DbShape
  <2> QED
      BY <2>1, <2>2
<1> QED
    BY <1>1 DEF DbShape, Grows

\* A login attempt is started.
LEMMA StartOidcLoginStep ==
    ASSUME Base, NEW c \in Clients, StartOidcLogin(c)
    PROVE  StepOf(c)
<1>1. /\ op[c].pc = "idle" /\ Unused("attempt") # {}
      /\ Unheard
    BY HistoryKept DEF StartOidcLogin, Calling, Unheard
<1> DEFINE a == NewId("attempt")
<1>2. PICK provider : Writes(c, Put("attempt", a, LoginAttemptRecord(provider, clock)), NoOp)
    BY DEF StartOidcLogin, RecordOidcLoginAttempt
<1> DEFINE row == LoginAttemptRecord(provider, clock)
<1>3. a \in DOMAIN db["attempt"] /\ db["attempt"][a].status = "absent"
    BY <1>1, NewIdUnused, TablesExist DEF Base, Row
<1>4. Written("attempt", row) /\ row.status = "active"
    BY StatusLists DEF LoginAttemptRecord, Written, WellFormed, Versioned, LoginAttemptStatus
<1> HIDE DEF a, row
<1>5. /\ Grows
      /\ \A j \in DOMAIN Seed : j # "attempt" => db'[j] = db[j]
      /\ \A n \in DOMAIN db["attempt"] : db'["attempt"][n] = IF n = a THEN row ELSE db["attempt"][n]
    BY <1>2, <1>4, PutGrows, TablesExist DEF Base, Writes, row
<1>6. Acts(c) /\ op'[c] = NoOp
    BY <1>1, <1>2, <1>5, NoOpReady, WritesActs DEF Unheard
<1>7. AttemptBecomes(a, "absent", "active")
    BY <1>3, <1>4, <1>5 DEF AttemptBecomes
<1>8. LoginStep(c)
    BY <1>1, <1>3, <1>5, <1>6, <1>7, TablesExist DEF LoginStep, Holds, NoOp
<1>9. InviteStep(c)
    BY <1>1, <1>5, <1>6, TablesExist DEF InviteStep, InvitePlain, Unheard, NoOp
<1> QED
    BY <1>6, <1>8, <1>9 DEF StepOf

\* Memory consumes the attempt, under the lock in which it is read.
LEMMA ConsumeStep ==
    ASSUME Base, NEW c \in Clients, CompleteConsumeAttempt(c)
    PROVE  StepOf(c)
<1>1. /\ op[c].pc = "consume" /\ op[c].attempt \in Ids("attempt") /\ ~Postgres
      /\ DbShape /\ TypeOK
    BY DEF CompleteConsumeAttempt, At, Base, Ready, LoginPcs, MemoryPcs
<1> DEFINE a == op[c].attempt
           done == ConsumeAttempt(a, op[c].now)
           next == Next1(c, "record_session")
<1>2. CASE done = {} /\ Fails(c)
    BY <1>1, <1>2, FailsPlain, PlainStep
<1>3. ASSUME NEW row \in done, Writes(c, Put("attempt", a, row), next), UNCHANGED history
      PROVE  StepOf(c)
  <2>1. /\ db["attempt"][a].status = "active"
        /\ row = [db["attempt"][a] EXCEPT !.status = "consumed"]
      BY <1>3 DEF ConsumeAttempt, Provided, Row
  <2>2. Written("attempt", row) /\ row.status = "consumed" /\ a \in DOMAIN db["attempt"]
      BY <1>1, <2>1, StatusLists
         DEF Ids, TypeOK, WellFormed, Written, Versioned, LoginAttemptStatus, Row
  <2>3. /\ Grows
        /\ \A j \in DOMAIN Seed : j # "attempt" => db'[j] = db[j]
        /\ \A n \in DOMAIN db["attempt"] : db'["attempt"][n] = IF n = a THEN row ELSE db["attempt"][n]
      BY <1>1, <1>3, <2>2, PutGrows, TablesExist DEF Writes
  <2>4. Ready(next) /\ next.pc = "record_session" /\ next.attempt = a
      BY <1>1, NextStep DEF Ready, LoginPcs, MemoryPcs, SqlPcs, InvitePcs
  <2>5. Unheard
      BY <1>3, HistoryLate
  <2>6. Acts(c) /\ op'[c] = next
      BY <1>3, <2>3, <2>4, <2>5, WritesActs DEF Unheard
  <2>7. AttemptBecomes(a, "active", "consumed")
      BY <2>1, <2>2, <2>3 DEF AttemptBecomes
  <2> HIDE DEF next
  <2>8. LoginStep(c)
      BY <1>1, <2>3, <2>4, <2>6, <2>7, TablesExist DEF LoginStep, Holds
  <2>9. InviteStep(c)
      BY <2>3, <2>4, <2>5, <2>6, TablesExist DEF InviteStep, InvitePlain, Unheard
  <2> QED
      BY <2>6, <2>8, <2>9 DEF StepOf
<1> QED
    BY <1>2, <1>3 DEF CompleteConsumeAttempt

\* Postgres locks the row of the attempt.
LEMMA LockStep ==
    ASSUME Base, NEW c \in Clients, CompleteConsumeSql(c)
    PROVE  StepOf(c)
<1>1. /\ op[c].pc = "consume_sql" /\ op[c].attempt \in Ids("attempt") /\ Postgres
      /\ DbShape /\ TypeOK
    BY DEF CompleteConsumeSql, At, Base, Ready, LoginPcs, SqlPcs
<1>2. CASE Fails(c)
    BY <1>1, <1>2, FailsPlain, PlainStep
<1> DEFINE next == Next1(c, "commit_login")
<1>3. ASSUME ConsumeOidcLoginAttemptSql(op[c].attempt) # {},
             op' = [op EXCEPT ![c] = next], answer' = Nobody, UNCHANGED <<db, clock, history, scenario>>
      PROVE  StepOf(c)
  <2>1. db["attempt"][op[c].attempt].status = "active"
      BY <1>3 DEF ConsumeOidcLoginAttemptSql, Provided, Row
  <2>2. Ready(next) /\ next.pc = "commit_login" /\ next.attempt = op[c].attempt
      BY <1>1, NextStep DEF Ready, LoginPcs, MemoryPcs, SqlPcs, InvitePcs
  <2>3. Grows /\ Unheard
      BY <1>1, <1>3, SameTables, HistoryLate
  <2>4. Writes(c, db, next)
      BY <1>3 DEF Writes
  <2>5. Acts(c) /\ op'[c] = next
      BY <2>2, <2>3, <2>4, WritesActs DEF Unheard
  <2> HIDE DEF next
  <2>6. LoginStep(c)
      BY <1>1, <1>3, <2>1, <2>2, <2>5 DEF LoginStep, Holds, CompleteConsumeSql, At
  <2>7. InviteStep(c)
      BY <1>3, <2>2, <2>3, <2>5 DEF InviteStep, InvitePlain, Unheard
  <2> QED
      BY <2>5, <2>6, <2>7 DEF StepOf
<1> QED
    BY <1>2, <1>3 DEF CompleteConsumeSql

\* A session is recorded under an unused id: in memory after the attempt, and the
\* single user's.
LEMMA RecordedSession ==
    ASSUME Base, NEW c \in Clients, NEW t, NEW org, NEW project, NEW u, NEW a, NEW next,
           Unused("session") # {},
           Writes(c, RecordAuthSession(NewId("session"), SessionRecord(t, org, project, u, a)), next),
           history' = [history EXCEPT !.late = @ \cup LateSession(NewId("session"), u)],
           Ready(next), Apart(next)
    PROVE  /\ Acts(c) /\ op'[c] = next /\ InviteStep(c)
           /\ db'["attempt"] = db["attempt"] /\ SessionAppears(a)
<1> DEFINE s == NewId("session")
           row == SessionRecord(t, org, project, u, a)
<1>1. s \in DOMAIN db["session"] /\ db["session"][s].status = "absent"
    BY NewIdUnused, TablesExist DEF Base, Row
<1>2. Written("session", row) /\ row.status = "active" /\ row.attempt = a
    BY StatusLists DEF SessionRecord, Written, WellFormed, Versioned, AuthSessionStatus
<1>3. Writes(c, Put("session", s, row), next)
    BY DEF RecordAuthSession, RecordAuthSessionSql, RecordAuthSessionMemory
<1>4. Unheard
    BY HistoryLate
<1> HIDE DEF s, row
<1>5. /\ Grows
      /\ \A j \in DOMAIN Seed : j # "session" => db'[j] = db[j]
      /\ \A n \in DOMAIN db["session"] : db'["session"][n] = IF n = s THEN row ELSE db["session"][n]
    BY <1>2, <1>3, PutGrows, TablesExist DEF Base, Writes
<1>6. Acts(c) /\ op'[c] = next
    BY <1>3, <1>4, <1>5, WritesActs DEF Unheard
<1>7. SessionAppears(a)
    BY <1>1, <1>2, <1>5 DEF SessionAppears
<1>8. InviteStep(c)
    BY <1>4, <1>5, <1>6, TablesExist DEF InviteStep, InvitePlain, Unheard, Apart
<1> QED
    BY <1>5, <1>6, <1>7, <1>8, TablesExist

LEMMA RecordSessionStep ==
    ASSUME Base, NEW c \in Clients, CompleteRecordSession(c)
    PROVE  StepOf(c)
<1> DEFINE next == [pc |-> "record_org_member", subject |-> op[c].subject]
<1>1. Ready(next) /\ Apart(next) /\ next.pc = "record_org_member"
    BY FreePcReady
<1> HIDE DEF next
<1>2. /\ Acts(c) /\ op'[c] = next /\ InviteStep(c)
      /\ db'["attempt"] = db["attempt"] /\ SessionAppears(op[c].attempt)
    BY <1>1, RecordedSession DEF CompleteRecordSession, next
<1> QED
    BY <1>1, <1>2 DEF StepOf, LoginStep, CompleteRecordSession, At, Holds

LEMMA RecordSingleUserSessionStep ==
    ASSUME Base, NEW c \in Clients, RecordSingleUserSession(c)
    PROVE  StepOf(c)
<1> DEFINE next == IF Postgres THEN NoOp ELSE [pc |-> "single_user_memberships", step |-> 1]
<1>1. Ready(next) /\ Apart(next)
  <2>1. CASE Postgres
      BY <2>1, NoOpReady
  <2>2. CASE ~Postgres
      BY <2>2 DEF Ready, Apart, LoginPcs, MemoryPcs, SqlPcs, InvitePcs
  <2> QED
      BY <2>1, <2>2
<1> HIDE DEF next
<1>2. /\ Acts(c) /\ op'[c] = next /\ InviteStep(c)
      /\ db'["attempt"] = db["attempt"] /\ SessionAppears(None)
    BY <1>1, RecordedSession DEF RecordSingleUserSession, next
<1> QED
    BY <1>1, <1>2 DEF StepOf, LoginStep, RecordSingleUserSession, At, Holds, Apart

\* What the transaction of a login writes beside the attempt and the session.
LEMMA LoginSqlWritten ==
    ASSUME Base, NEW p
    PROVE  /\ p.user \in DOMAIN db["user"] => Written("user", UpsertOidcUserSql(p))
           /\ Written("org_member", UpsertOidcOrganizationMembershipSql(p)[2])
           /\ Written("project_member", UpsertOidcProjectMembershipSql(p)[2])
           /\ p.binding \in DOMAIN db["binding"] => Written("binding", UpsertOidcOrganizationAdminRoleSql(p))
<1>a. /\ DbShape /\ TypeOK
      /\ {"user", "org_member", "project_member", "binding"} \subseteq DOMAIN Statuses \cap Versioned
    BY StatusLists DEF Base, Versioned
<1>1. p.user \in DOMAIN db["user"] => Written("user", UpsertOidcUserSql(p))
    BY <1>a, RowInUse, StatusLists DEF UpsertOidcUserSql, Written, WellFormed, UserStatus
<1>2. Written("org_member", UpsertOidcOrganizationMembershipSql(p)[2])
  <2> DEFINE mine == Where("org_member", LAMBDA row : row.org = p.org /\ row.principal = p.user)
             m == First(mine)
             new == NewOrganizationMember(p)
  <2>1. mine # {} => Row("org_member", m).version \in Nat
    <3>1. mine \subseteq Ids("org_member")
        BY DEF Where
    <3>2. mine # {} => m \in Ids("org_member")
        BY <1>a, <3>1, FirstInUse
    <3> QED
        BY <1>a, <3>2, RowInUse DEF WellFormed
  <2>2. UpsertOidcOrganizationMembershipSql(p)[2]
          = IF mine = {} THEN new ELSE [new EXCEPT !.version = Row("org_member", m).version + 1]
      BY DEF UpsertOidcOrganizationMembershipSql, Where
  <2> HIDE DEF mine, m
  <2> QED
      BY <1>a, <2>1, <2>2, StatusLists
         DEF NewOrganizationMember, OrganizationMembershipRecord, Written, WellFormed, MembershipStatus
<1>3. Written("project_member", UpsertOidcProjectMembershipSql(p)[2])
  <2> DEFINE mine == Where("project_member", LAMBDA row : row.project = p.project /\ row.principal = p.user)
             m == First(mine)
             new == NewProjectMember(p)
  <2>1. mine # {} => Row("project_member", m).version \in Nat
    <3>1. mine \subseteq Ids("project_member")
        BY DEF Where
    <3>2. mine # {} => m \in Ids("project_member")
        BY <1>a, <3>1, FirstInUse
    <3> QED
        BY <1>a, <3>2, RowInUse DEF WellFormed
  <2>2. UpsertOidcProjectMembershipSql(p)[2]
          = IF mine = {} THEN new ELSE [new EXCEPT !.version = Row("project_member", m).version + 1]
      BY DEF UpsertOidcProjectMembershipSql, Where
  <2> HIDE DEF mine, m
  <2> QED
      BY <1>a, <2>1, <2>2, StatusLists
         DEF NewProjectMember, ProjectMembershipRecord, Written, WellFormed, MembershipStatus
<1>4. ASSUME p.binding \in DOMAIN db["binding"]
      PROVE  Written("binding", UpsertOidcOrganizationAdminRoleSql(p))
  <2> DEFINE n == IF p.binding \in Unused("binding") THEN 1 ELSE Row("binding", p.binding).version + 1
  <2>1. n \in Nat \ {0}
      BY <1>a, <1>4, RowInUse DEF Unused, WellFormed
  <2>2. UpsertOidcOrganizationAdminRoleSql(p) = [NewOrganizationAdmin(p) EXCEPT !.version = n]
      BY DEF UpsertOidcOrganizationAdminRoleSql
  <2> HIDE DEF n
  <2> QED
      BY <1>a, <2>1, <2>2, StatusLists
         DEF NewOrganizationAdmin, Written, WellFormed, RoleBindingStatus
<1> QED
    BY <1>1, <1>2, <1>3, <1>4

\* The transaction commits: the attempt is consumed and the session appears.
LEMMA CommitLoginStep ==
    ASSUME Base, LoginInv, NEW c \in Clients, CompleteOidcLoginSql(c)
    PROVE  StepOf(c)
<1> DEFINE p == Completion(c)
           a == op[c].attempt
           s == NewId("session")
           o == UpsertOidcOrganizationMembershipSql(p)
           m == UpsertOidcProjectMembershipSql(p)
           u == UpsertOidcUserSql(p)
           b == UpsertOidcOrganizationAdminRoleSql(p)
           session == SessionRecord(p.tenant, p.org, p.project, p.user, a)
           done == UpsertOidcExternalIdentitySql(p.identity, NewIdentity(c))
<1>1. /\ op[c].pc = "commit_login" /\ a \in DOMAIN db["attempt"] /\ db["attempt"][a].status = "active"
      /\ DbShape /\ TypeOK /\ Unused("session") # {}
    BY DEF CompleteOidcLoginSql, At, Base, Ready, LoginPcs, LoginInv, Ids, Row
<1>2. CASE done = {} /\ Fails(c)
    BY <1>1, <1>2, FailsPlain, PlainStep
<1>3. ASSUME NEW new \in done, \E late : history' = [history EXCEPT !.late = late],
             Writes(c, [db EXCEPT !["attempt"][a].status = "consumed",
                                  !["user"][p.user] = u,
                                  !["org_member"][o[1]] = o[2],
                                  !["project_member"][m[1]] = m[2],
                                  !["identity"][new[1]] = new[2],
                                  !["binding"][p.binding] = b,
                                  !["session"][s] = session], NoOp)
      PROVE  StepOf(c)
  <2> DEFINE row == [db["attempt"][a] EXCEPT !.status = "consumed"]
  <2>1. Written("attempt", row) /\ row.status = "consumed"
      BY <1>1, StatusLists DEF TypeOK, WellFormed, Written, Versioned, LoginAttemptStatus, Row
  <2>2. Written("session", session) /\ session.status = "active" /\ session.attempt = a
      BY StatusLists DEF SessionRecord, Written, WellFormed, Versioned, AuthSessionStatus
  <2>3. /\ p.user \in DOMAIN db["user"] => Written("user", u)
        /\ Written("org_member", o[2]) /\ Written("project_member", m[2])
        /\ p.binding \in DOMAIN db["binding"] => Written("binding", b)
      BY LoginSqlWritten
  <2>4. Written("identity", new[2])
    <3>1. Written("identity", NewIdentity(c))
        BY StatusLists DEF NewIdentity, Written, WellFormed, Versioned, ExternalIdentityStatus
    <3> QED
        BY <1>1, <1>3, <3>1, IdentityUpserts
  <2>5. s \in DOMAIN db["session"] /\ db["session"][s].status = "absent"
      BY <1>1, NewIdUnused, TablesExist DEF Row
  <2>6. Unheard
      BY <1>3, HistoryLate
  <2> HIDE DEF p, a, s, o, m, u, b, session, done
  <2>7. /\ DOMAIN db' = DOMAIN db
        /\ db'["attempt"] = [db["attempt"] EXCEPT ![a] = row]
        /\ db'["user"] = [db["user"] EXCEPT ![p.user] = u]
        /\ db'["org_member"] = [db["org_member"] EXCEPT ![o[1]] = o[2]]
        /\ db'["project_member"] = [db["project_member"] EXCEPT ![m[1]] = m[2]]
        /\ db'["identity"] = [db["identity"] EXCEPT ![new[1]] = new[2]]
        /\ db'["binding"] = [db["binding"] EXCEPT ![p.binding] = b]
        /\ db'["session"] = [db["session"] EXCEPT ![s] = session]
        /\ \A k \in DOMAIN Seed \ {"attempt", "user", "org_member", "project_member", "identity",
                                   "binding", "session"} : db'[k] = db[k]
    <3>1. DOMAIN db = DOMAIN Seed
        BY <1>1 DEF DbShape
    <3> QED
        BY <1>3, <3>1, TablesExist DEF Writes
  <2> HIDE DEF row
  <2>8. Grows
    <3> SUFFICES ASSUME NEW k \in DOMAIN Seed
                 PROVE  \/ db'[k] = db[k]
                        \/ \E i, x : /\ db'[k] = [db[k] EXCEPT ![i] = x]
                                     /\ i \in DOMAIN db[k] => Written(k, x)
        BY <1>1, <2>7, EditsGrow
    <3>1. CASE k = "attempt"
        BY <2>1, <2>7, <3>1
    <3>2. CASE k = "user"
        BY <2>3, <2>7, <3>2
    <3>3. CASE k = "org_member"
        BY <2>3, <2>7, <3>3
    <3>4. CASE k = "project_member"
        BY <2>3, <2>7, <3>4
    <3>5. CASE k = "identity"
        BY <2>4, <2>7, <3>5
    <3>6. CASE k = "binding"
        BY <2>3, <2>7, <3>6
    <3>7. CASE k = "session"
        BY <2>2, <2>7, <3>7
    <3> QED
        BY <2>7, <3>1, <3>2, <3>3, <3>4, <3>5, <3>6, <3>7
  <2>9. Acts(c) /\ op'[c] = NoOp
      BY <1>3, <2>6, <2>8, NoOpReady, WritesActs DEF Unheard
  <2>10. AttemptBecomes(a, "active", "consumed")
      BY <1>1, <2>1, <2>7 DEF AttemptBecomes
  <2>11. SessionAppears(a)
      BY <2>2, <2>5, <2>7 DEF SessionAppears
  <2>12. LoginStep(c)
      BY <1>1, <2>9, <2>10, <2>11 DEF LoginStep, Holds, NoOp, a
  <2>13. InviteStep(c)
      BY <2>6, <2>7, <2>9, TablesExist DEF InviteStep, InvitePlain, Unheard, NoOp
  <2> QED
      BY <2>9, <2>12, <2>13 DEF StepOf
<1> QED
    BY <1>2, <1>3 DEF CompleteOidcLoginSql

\* An invitation is made, under a token of its own.
LEMMA MakeInvitationStep ==
    ASSUME Base, NEW c \in Clients, CreateOrganizationInvitation(c)
    PROVE  StepOf(c)
<1>a. PICK actor, request :
        op' = [op EXCEPT ![c] = [pc |-> "insert_invitation", id |-> request.id,
                                 row |-> InvitationRecord(actor, request)]]
    BY DEF CreateOrganizationInvitation
<1> DEFINE row == InvitationRecord(actor, request)
           next == [pc |-> "insert_invitation", id |-> request.id, row |-> row]
<1>b. /\ Written("invitation", row) /\ row.status = "pending" /\ row.token = history.tokens + 1
    BY StatusLists DEF InvitationRecord, Written, WellFormed, InvitationStatus
<1> HIDE DEF row
<1>1. /\ op' = [op EXCEPT ![c] = next]
      /\ "pc" \in DOMAIN next /\ next.pc = "insert_invitation"
      /\ Written("invitation", next.row) /\ next.row.status = "pending"
      /\ next.row.token = history.tokens + 1
    BY <1>a, <1>b DEF row
<1> HIDE DEF next
<1>2. /\ op[c].pc = "idle" /\ answer' = Nobody /\ UNCHANGED <<db, clock, scenario>>
      /\ history' = [history EXCEPT !.requests = @ + 1, !.tokens = @ + 1]
    BY DEF CreateOrganizationInvitation, Calling
<1>3. Ready(next)
    BY <1>1 DEF Ready, LoginPcs, MemoryPcs, SqlPcs, InvitePcs
<1>4. /\ HistoryFields \subseteq DOMAIN history'
      /\ history'.tokens = history.tokens + 1 /\ history'.admitted = history.admitted
    BY <1>2 DEF Base, HistoryFields
<1>5. Grows /\ Ends
    BY <1>2, SameTables DEF Base
<1>6. Writes(c, db, next)
    BY <1>1, <1>2 DEF Writes
<1>7. Acts(c) /\ op'[c] = next
    BY <1>3, <1>4, <1>5, <1>6, WritesActs
<1>8. LoginStep(c)
    BY <1>1, <1>2, <1>5, <1>7 DEF LoginStep, LoginPlain
<1>9. InviteStep(c)
    BY <1>1, <1>2, <1>4, <1>7 DEF InviteStep, Inserts
<1> QED
    BY <1>7, <1>8, <1>9 DEF StepOf

\* Its row is written; memory writes over whatever has the id.
LEMMA InsertInvitationStep ==
    ASSUME Base, NEW c \in Clients, InsertInvitation(c)
    PROVE  StepOf(c)
<1>1. op[c].pc = "insert_invitation" /\ Written("invitation", op[c].row) /\ DbShape
    BY DEF InsertInvitation, At, Base, Ready
<1> DEFINE done == InsertOrganizationInvitation(op[c].id, op[c].row)
<1>2. CASE done = {} /\ Fails(c)
    BY <1>1, <1>2, FailsPlain, PlainStep
<1>3. ASSUME NEW row \in done, Writes(c, Put("invitation", op[c].id, row), NoOp), UNCHANGED history
      PROVE  StepOf(c)
  <2>1. row = op[c].row
      BY <1>3 DEF InsertOrganizationInvitation, InsertOrganizationInvitationSql,
                  InsertInvitationMemory, Provided
  <2>2. /\ Grows
        /\ \A j \in DOMAIN Seed : j # "invitation" => db'[j] = db[j]
        /\ \A n \in DOMAIN db["invitation"] :
             db'["invitation"][n] = IF n = op[c].id THEN op[c].row ELSE db["invitation"][n]
      BY <1>1, <1>3, <2>1, PutGrows, TablesExist DEF Writes
  <2>3. Unheard
      BY <1>3, HistoryLate
  <2>4. Acts(c) /\ op'[c] = NoOp
      BY <1>3, <2>2, <2>3, NoOpReady, WritesActs DEF Unheard
  <2>5. LoginStep(c)
      BY <1>1, <2>2, <2>4, TablesExist DEF LoginStep, LoginPlain, Ends, NoOp
  <2>6. InviteStep(c)
      BY <1>1, <2>2, <2>3, <2>4 DEF InviteStep, Inserts, Unheard, NoOp
  <2> QED
      BY <2>4, <2>5, <2>6 DEF StepOf
<1> QED
    BY <1>2, <1>3 DEF InsertInvitation

\* A pending invitation is decided.
LEMMA Decided ==
    ASSUME Base, NEW i \in Ids("invitation"), NEW status \in {"revoked", "accepted"},
           Row("invitation", i).status = "pending"
    PROVE  LET row == Bumped(Row("invitation", i), status)
           IN /\ Written("invitation", row) /\ row.status = status
              /\ row.token = Row("invitation", i).token
<1>1. WellFormed("invitation", Row("invitation", i)) /\ Row("invitation", i).status # "absent"
    BY RowInUse, StatusLists DEF Base
<1>2. Written("invitation", Bumped(Row("invitation", i), status))
      /\ Bumped(Row("invitation", i), status).status = status
    BY <1>1, BumpedWritten, StatusLists DEF Versioned, InvitationStatus
<1>3. Bumped(Row("invitation", i), status).token = Row("invitation", i).token
    BY DEF Bumped
<1> QED
    BY <1>2, <1>3

\* It is revoked, if it is still pending.
LEMMA RevokeInvitationStep ==
    ASSUME Base, NEW c \in Clients, RevokeInvitation(c)
    PROVE  StepOf(c)
<1> DEFINE i == op[c].id
           done == RevokeOrganizationInvitationById(i, op[c].expected)
<1>1. op[c].pc = "revoke_invitation" /\ i \in Ids("invitation") /\ DbShape
    BY DEF RevokeInvitation, At, Base, Ready, InvitePcs
<1>2. CASE done = {} /\ Fails(c)
    BY <1>1, <1>2, FailsPlain, PlainStep
<1>3. ASSUME NEW row \in done, Writes(c, Put("invitation", i, row), NoOp), UNCHANGED history
      PROVE  StepOf(c)
  <2>1. Row("invitation", i).status = "pending" /\ row = Bumped(Row("invitation", i), "revoked")
      BY <1>3 DEF RevokeOrganizationInvitationById, RevokeOrganizationInvitationSql,
                  RevokeInvitationMemory, Provided
  <2>2. /\ Written("invitation", row) /\ row.status = "revoked"
        /\ row.token = db["invitation"][i].token /\ db["invitation"][i].status = "pending"
        /\ i \in DOMAIN db["invitation"]
      BY <1>1, <2>1, Decided DEF Row, Ids
  <2> HIDE DEF i
  <2>3. /\ Grows
        /\ \A j \in DOMAIN Seed : j # "invitation" => db'[j] = db[j]
        /\ \A n \in DOMAIN db["invitation"] :
             db'["invitation"][n] = IF n = i THEN row ELSE db["invitation"][n]
      BY <1>1, <1>3, <2>2, PutGrows, TablesExist DEF Writes
  <2>4. Unheard
      BY <1>3, HistoryLate
  <2>5. Acts(c) /\ op'[c] = NoOp
      BY <1>3, <2>3, <2>4, NoOpReady, WritesActs DEF Unheard
  <2>6. LoginStep(c)
      BY <1>1, <2>3, <2>5, TablesExist DEF LoginStep, LoginPlain, Ends, NoOp
  <2>7. InviteStep(c)
      BY <2>2, <2>3, <2>4, <2>5 DEF InviteStep, Inserts, Unheard, NoOp
  <2> QED
      BY <2>5, <2>6, <2>7 DEF StepOf
<1> QED
    BY <1>2, <1>3 DEF RevokeInvitation

\* The history of an admission.
LEMMA AdmitsHeard ==
    ASSUME Base, NEW token, NEW late,
           history' = Admits(token) \/ history' = [Admits(token) EXCEPT !.late = late]
    PROVE  /\ HistoryFields \subseteq DOMAIN history' /\ history'.tokens = history.tokens
           /\ history'.admitted = Append(history.admitted, token)
BY DEF Base, HistoryFields, Admits

\* Memory accepts it, if it is still pending.
LEMMA AcceptInvitationStep ==
    ASSUME Base, NEW c \in Clients, AcceptInvitation(c)
    PROVE  StepOf(c)
<1> DEFINE i == op[c].id
           done == AcceptInvitationMemory(i, op[c].principal, op[c].now)
           next(row) == [pc |-> "invited_org_member", row |-> row]
<1>1. op[c].pc = "accept_invitation" /\ i \in Ids("invitation") /\ DbShape
    BY DEF AcceptInvitation, At, Base, Ready, InvitePcs
<1>2. CASE done = {} /\ Fails(c)
    BY <1>1, <1>2, FailsPlain, PlainStep
<1>3. ASSUME NEW row \in done, Writes(c, Put("invitation", i, row), next(row)), history' = Admits(row.token)
      PROVE  StepOf(c)
  <2>1. Row("invitation", i).status = "pending" /\ row = Bumped(Row("invitation", i), "accepted")
      BY <1>3 DEF AcceptInvitationMemory, AcceptsAt, Provided
  <2>2. /\ Written("invitation", row) /\ row.status = "accepted"
        /\ row.token = db["invitation"][i].token /\ db["invitation"][i].status = "pending"
        /\ i \in DOMAIN db["invitation"]
      BY <1>1, <2>1, Decided DEF Row, Ids
  <2>a. Ready(next(row)) /\ Apart(next(row))
      BY FreePcReady
  <2> HIDE DEF i, next
  <2>3. /\ Grows
        /\ \A j \in DOMAIN Seed : j # "invitation" => db'[j] = db[j]
        /\ \A n \in DOMAIN db["invitation"] :
             db'["invitation"][n] = IF n = i THEN row ELSE db["invitation"][n]
      BY <1>1, <1>3, <2>2, PutGrows, TablesExist DEF Writes
  <2>4. /\ HistoryFields \subseteq DOMAIN history' /\ history'.tokens = history.tokens
        /\ history'.admitted = Append(history.admitted, row.token)
      BY <1>3, AdmitsHeard
  <2>5. Acts(c) /\ op'[c] = next(row)
      BY <1>3, <2>3, <2>4, <2>a, WritesActs
  <2>6. LoginStep(c)
      BY <1>1, <2>3, <2>5, <2>a, TablesExist DEF LoginStep, LoginPlain, Ends, Apart
  <2>7. InviteStep(c)
      BY <2>2, <2>3, <2>4, <2>5, <2>a DEF InviteStep, Inserts, Apart
  <2> QED
      BY <2>5, <2>6, <2>7 DEF StepOf
<1> QED
    BY <1>2, <1>3 DEF AcceptInvitation

\* Postgres accepts it, if it is still pending, with the memberships in one transaction.
LEMMA CommitInvitationStep ==
    ASSUME Base, NEW c \in Clients, CommitInvitation(c)
    PROVE  StepOf(c)
<1> DEFINE i == op[c].id
           done == AcceptOrganizationInvitationSql(i)
<1>1. op[c].pc = "commit_invitation" /\ i \in Ids("invitation") /\ DbShape /\ TypeOK
    BY DEF CommitInvitation, At, Base, Ready, InvitePcs
<1>2. CASE done = {} /\ Fails(c)
    BY <1>1, <1>2, FailsPlain, PlainStep
<1>3. ASSUME NEW row \in done,
             NEW member \in UpsertInvitedOrganizationMemberSql(NewId("org_member"), InvitedOrganizationMember(row)),
             \/ history' = Admits(row.token)
             \/ \E late : history' = [Admits(row.token) EXCEPT !.late = late],
             \/ Writes(c, [db EXCEPT !["invitation"][i] = row,
                                     !["org_member"][member[1]] = member[2]], NoOp)
             \/ \E new \in UpsertInvitedProjectMemberSql(NewId("project_member"),
                             InvitedProjectMember(row, member[1])) :
                  Writes(c, [db EXCEPT !["invitation"][i] = row,
                                       !["org_member"][member[1]] = member[2],
                                       !["project_member"][new[1]] = new[2]], NoOp)
      PROVE  StepOf(c)
  <2>1. Row("invitation", i).status = "pending" /\ row = Bumped(Row("invitation", i), "accepted")
      BY <1>3 DEF AcceptOrganizationInvitationSql, Provided
  <2>2. /\ Written("invitation", row) /\ row.status = "accepted"
        /\ row.token = db["invitation"][i].token /\ db["invitation"][i].status = "pending"
        /\ i \in DOMAIN db["invitation"]
      BY <1>1, <2>1, Decided DEF Row, Ids
  <2>3. Written("org_member", member[2])
    <3>1. /\ Written("org_member", InvitedOrganizationMember(row))
          /\ InvitedOrganizationMember(row).status = "active"
        BY StatusLists DEF InvitedOrganizationMember, OrganizationMembershipRecord, Written, WellFormed,
                           MembershipStatus
    <3> QED
        BY <1>1, <3>1, OrganizationMemberUpserts
  <2>4. \A new \in UpsertInvitedProjectMemberSql(NewId("project_member"),
                     InvitedProjectMember(row, member[1])) : Written("project_member", new[2])
    <3>1. Written("project_member", InvitedProjectMember(row, member[1]))
        BY StatusLists DEF InvitedProjectMember, ProjectMembershipRecord, Written, WellFormed,
                           MembershipStatus
    <3> QED
        BY <1>1, <3>1, ProjectMemberUpserts
  <2> HIDE DEF i
  <2>5. /\ DOMAIN db' = DOMAIN db
        /\ db'["invitation"] = [db["invitation"] EXCEPT ![i] = row]
        /\ db'["org_member"] = [db["org_member"] EXCEPT ![member[1]] = member[2]]
        /\ \/ db'["project_member"] = db["project_member"]
           \/ \E n, x : /\ db'["project_member"] = [db["project_member"] EXCEPT ![n] = x]
                        /\ Written("project_member", x)
        /\ \A k \in DOMAIN Seed \ {"invitation", "org_member", "project_member"} : db'[k] = db[k]
    <3>1. DOMAIN db = DOMAIN Seed
        BY <1>1 DEF DbShape
    <3>2. CASE Writes(c, [db EXCEPT !["invitation"][i] = row,
                                    !["org_member"][member[1]] = member[2]], NoOp)
        BY <3>1, <3>2, TablesExist DEF Writes
    <3>3. ASSUME NEW new, Written("project_member", new[2]),
                 Writes(c, [db EXCEPT !["invitation"][i] = row,
                                      !["org_member"][member[1]] = member[2],
                                      !["project_member"][new[1]] = new[2]], NoOp)
          PROVE  /\ DOMAIN db' = DOMAIN db
                 /\ db'["invitation"] = [db["invitation"] EXCEPT ![i] = row]
                 /\ db'["org_member"] = [db["org_member"] EXCEPT ![member[1]] = member[2]]
                 /\ db'["project_member"] = [db["project_member"] EXCEPT ![new[1]] = new[2]]
                 /\ \A k \in DOMAIN Seed \ {"invitation", "org_member", "project_member"} : db'[k] = db[k]
        BY <3>1, <3>3, TablesExist DEF Writes
    <3> QED
        BY <1>3, <2>4, <3>2, <3>3
  <2>6. Grows
    <3> SUFFICES ASSUME NEW k \in DOMAIN Seed
                 PROVE  \/ db'[k] = db[k]
                        \/ \E n, x : /\ db'[k] = [db[k] EXCEPT ![n] = x]
                                     /\ n \in DOMAIN db[k] => Written(k, x)
        BY <1>1, <2>5, EditsGrow
    <3>1. CASE k = "invitation"
        BY <2>2, <2>5, <3>1
    <3>2. CASE k = "org_member"
        BY <2>3, <2>5, <3>2
    <3>3. CASE k = "project_member"
        BY <2>5, <3>3
    <3> QED
        BY <2>5, <3>1, <3>2, <3>3
  <2>7. /\ HistoryFields \subseteq DOMAIN history' /\ history'.tokens = history.tokens
        /\ history'.admitted = Append(history.admitted, row.token)
      BY <1>3, AdmitsHeard
  <2>8. Acts(c) /\ op'[c] = NoOp
      BY <1>3, <2>6, <2>7, NoOpReady, WritesActs
  <2>9. LoginStep(c)
      BY <1>1, <2>5, <2>8, TablesExist DEF LoginStep, LoginPlain, Ends, NoOp
  <2>10. InviteStep(c)
      BY <2>2, <2>5, <2>7, <2>8 DEF InviteStep, Inserts, NoOp
  <2> QED
      BY <2>8, <2>9, <2>10 DEF StepOf
<1> QED
    BY <1>2, <1>3 DEF CommitInvitation

-----------------------------------------------------------------------------
(* Every step                                                              *)

LEMMA ClientStep ==
    ASSUME Base, LoginInv, NEW c \in Clients,
           AdminNext(c) \/ TenancyNext(c) \/ LoginNext(c) \/ DropHandler(c)
    PROVE  StepOf(c)
<1>1. CASE AdminNext(c)
    BY <1>1, ReadsPlain, StartsArePlain, AdminWritesPlain, PlainStep DEF AdminNext
<1>2. CASE TenancyNext(c)
    BY <1>2, ReadsPlain, StartsArePlain, MembershipWritesPlain, BindingWritesPlain,
       ProviderWritesPlain, MakeInvitationStep, InsertInvitationStep, RevokeInvitationStep, PlainStep
       DEF TenancyNext
<1>3. CASE LoginNext(c)
    BY <1>3, ReadsPlain, StartsArePlain, LoginMovesPlain, LoginWritesPlain, CurrentWritesPlain,
       SingleUserPlain, StartOidcLoginStep, ConsumeStep, LockStep, RecordSessionStep,
       RecordSingleUserSessionStep, CommitLoginStep, AcceptInvitationStep, CommitInvitationStep,
       PlainStep
       DEF LoginNext
<1>4. CASE DropHandler(c)
    BY <1>4, DropPlain, PlainStep
<1> QED
    BY <1>1, <1>2, <1>3, <1>4

\* The service starts again: the handlers are gone, and the single user's rows, none of
\* which is an attempt, a session or an invitation, are written.
LEMMA RestartStep ==
    ASSUME Base, Restart
    PROVE  /\ Grows /\ scenario' = scenario /\ op' = [c \in Clients |-> NoOp]
           /\ \A k \in {"attempt", "session", "invitation"} : db'[k] = db[k]
           /\ Unheard /\ AnswersStayInTenant'
           /\ \A c \in Clients : op[c].pc # "record_session"
<1> DEFINE named(k, i) == {n \in DOMAIN SingleUserRows :
                             SingleUserRows[n][1] = k /\ SingleUserRows[n][2] = i}
           restarted(k, i, row) ==
             IF i \in Unused(k) \/ "version" \notin DOMAIN row THEN row
             ELSE [row EXCEPT !.version = Row(k, i).version + 1]
           new(k, i) == IF named(k, i) = {} THEN Row(k, i)
                        ELSE restarted(k, i, SingleUserRows[First(named(k, i))][3])
           tables == [k \in DOMAIN db |-> [i \in DOMAIN db[k] |-> new(k, i)]]
<1>1. db' = IF scenario.single_user THEN tables ELSE db
    BY DEF Restart, BootstrapSingleUser
<1>2. DbShape /\ TypeOK
    BY DEF Base
<1>3. ASSUME NEW k \in DOMAIN db, NEW i \in DOMAIN db[k], named(k, i) # {}
      PROVE  /\ Written(k, new(k, i))
             /\ k \notin {"attempt", "session", "invitation"}
  <2>1. First(named(k, i)) \in named(k, i)
      BY <1>3, FirstIn, SingleUserWritten
  <2>2. PICK n \in 1 .. 5 : /\ SingleUserRows[n][1] = k /\ n = First(named(k, i))
      BY <2>1, SingleUserWritten
  <2> DEFINE row == SingleUserRows[n][3]
  <2>3. Written(k, row) /\ k \in {"user", "identity", "org_member", "project_member", "binding"}
      BY <2>2, SingleUserWritten
  <2>4. new(k, i) = restarted(k, i, row)
      BY <1>3, <2>2
  <2>5. k \in DOMAIN Statuses
      BY <2>3, StatusLists
  <2> HIDE DEF row, named, new
  <2>6. Written(k, restarted(k, i, row))
    <3>1. CASE i \in Unused(k) \/ "version" \notin DOMAIN row
        BY <2>3, <3>1
    <3>2. CASE i \in Ids(k) /\ "version" \in DOMAIN row
      <4>1. WellFormed(k, Row(k, i)) /\ Row(k, i).status # "absent"
          BY <1>2, <2>5, <3>2, RowInUse
      <4>2. i \notin Unused(k)
          BY <3>2 DEF Unused
      <4>3. k \in Versioned => Row(k, i).version + 1 \in Nat \ {0}
          BY <4>1 DEF WellFormed
      <4> DEFINE v == Row(k, i).version + 1
      <4>4. restarted(k, i, row) = [row EXCEPT !.version = v]
          BY <3>2, <4>2
      <4> HIDE DEF v, restarted
      <4> QED
          BY <2>3, <2>5, <4>3, <4>4 DEF Written, WellFormed, v
    <3> QED
        BY <1>3, <3>1, <3>2 DEF Unused
  <2> QED
      BY <2>3, <2>4, <2>6
<1>4. ASSUME NEW k \in DOMAIN db, NEW i \in DOMAIN db[k], named(k, i) = {}
      PROVE  new(k, i) = db[k][i]
    BY <1>4 DEF Row
<1> HIDE DEF named, new
<1>5. /\ Grows
      /\ \A k \in {"attempt", "session", "invitation"} : db'[k] = db[k]
  <2>1. CASE db' = db
      BY <1>2, <2>1, SameTables
  <2>2. CASE db' = tables
    <3>1. /\ DOMAIN db' = DOMAIN db
          /\ \A k \in DOMAIN db : /\ IsFcn(db'[k]) /\ DOMAIN db'[k] = DOMAIN db[k]
                                  /\ \A i \in DOMAIN db[k] : db'[k][i] = new(k, i)
        BY <2>2 DEF IsFcn
    <3>2. Grows
        BY <1>2, <1>3, <1>4, <3>1 DEF Grows, DbShape
    <3>3. ASSUME NEW k \in {"attempt", "session", "invitation"} PROVE db'[k] = db[k]
      <4>1. k \in DOMAIN db
          BY <1>2, TablesExist DEF DbShape
      <4>2. \A i \in DOMAIN db[k] : db'[k][i] = db[k][i]
          BY <1>3, <1>4, <3>1, <4>1
      <4>3. IsFcn(db[k]) /\ IsFcn(db'[k]) /\ DOMAIN db'[k] = DOMAIN db[k]
          BY <1>2, <3>1, <4>1 DEF DbShape
      <4> QED
          BY <4>2, <4>3 DEF IsFcn
    <3> QED
        BY <3>2, <3>3
  <2> QED
      BY <1>1, <2>1, <2>2
<1>6. Unheard /\ AnswersStayInTenant'
    BY DEF Restart, Base, Unheard, HistoryFields, AnswersStayInTenant, Nobody
<1>7. \A c \in Clients : op[c].pc # "record_session"
    BY DEF Restart, Base, Ready, MemoryPcs
<1> QED
    BY <1>5, <1>6, <1>7 DEF Restart

-----------------------------------------------------------------------------
(* The invariant is kept                                                   *)

LEMMA BaseKept ==
    ASSUME Base, NEW c \in Clients, Acts(c)
    PROVE  Base'
<1>1. DbShape' /\ TypeOK'
    BY GrowsKeeps DEF Acts, Base, Grows
<1>2. ASSUME NEW d \in Clients PROVE Ready(op[d])'
  <2>1. CASE d = c
      BY <2>1 DEF Acts
  <2>2. CASE d # c
    <3>1. Ready(op'[d])
        BY <2>2 DEF Acts, Base
    <3> QED
        BY <3>1, ReadyLasts DEF Acts, Base
  <2> QED
      BY <2>1, <2>2
<1> QED
    BY <1>1, <1>2 DEF Acts, Base

\* An attempt has one handler at most, whatever the other clients do.
LEMMA LoginKept ==
    ASSUME Base, LoginInv, NEW c \in Clients, Acts(c), LoginStep(c)
    PROVE  LoginInv'
<1>1. ASSUME NEW d \in Clients, Holds(d)
      PROVE  op[d].attempt \in DOMAIN db["attempt"]
    BY <1>1 DEF Base, Ready, Holds, LoginPcs, Ids
<1>2. ASSUME NEW d \in Clients \ {c}
      PROVE  op'[d] = op[d] /\ (Holds(d)' <=> Holds(d))
    BY DEF Acts, Holds
<1>3. ASSUME db'["attempt"] = db["attempt"], ~Holds(c)'
      PROVE  LoginInv'
    BY <1>2, <1>3 DEF LoginInv, Holds, Row
<1>4. ASSUME NEW a \in DOMAIN db["attempt"], AttemptBecomes(a, "absent", "active"), ~Holds(c)'
      PROVE  LoginInv'
    BY <1>1, <1>2, <1>4 DEF LoginInv, Holds, Row, AttemptBecomes
<1>5. ASSUME ~Holds(c), ~Postgres, op'[c].pc = "record_session", op'[c].attempt = op[c].attempt,
             AttemptBecomes(op[c].attempt, "active", "consumed")
      PROVE  LoginInv'
  <2>1. \A d \in Clients : op[d].pc # "commit_login"
      BY <1>5 DEF Base, Ready, SqlPcs
  <2>2. \A d \in Clients \ {c} : Holds(d) => op[d].attempt # op[c].attempt
      BY <1>5, <2>1 DEF LoginInv, Holds, Row, AttemptBecomes
  <2> QED
      BY <1>1, <1>2, <1>5, <2>1, <2>2 DEF LoginInv, Holds, Row, AttemptBecomes
<1>6. ASSUME db'["attempt"] = db["attempt"], ~Holds(c), op'[c].pc = "commit_login",
             op'[c].attempt = op[c].attempt, db["attempt"][op[c].attempt].status = "active",
             \A d \in Clients : op[d].pc = "commit_login" => op[d].attempt # op[c].attempt
      PROVE  LoginInv'
  <2>1. \A d \in Clients \ {c} : Holds(d) => op[d].attempt # op[c].attempt
      BY <1>6 DEF LoginInv, Holds, Row
  <2> QED
      BY <1>2, <1>6, <2>1 DEF LoginInv, Holds, Row
<1>7. ASSUME op[c].pc = "commit_login", ~Holds(c)', AttemptBecomes(op[c].attempt, "active", "consumed")
      PROVE  LoginInv'
  <2>1. \A d \in Clients \ {c} : Holds(d) => op[d].attempt # op[c].attempt
      BY <1>7 DEF LoginInv, Holds
  <2> QED
      BY <1>1, <1>2, <1>7, <2>1 DEF LoginInv, Holds, Row, AttemptBecomes
<1>8. LoginPlain(c) => db'["attempt"] = db["attempt"] /\ ~Holds(c)'
    BY DEF LoginPlain, Holds
<1> QED
    BY <1>3, <1>4, <1>5, <1>6, <1>7, <1>8 DEF LoginStep

\* A token lets somebody in while its invitation is pending, which it is not again.
LEMMA InviteKept ==
    ASSUME Base, InviteInv, NEW c \in Clients, Acts(c), InviteStep(c)
    PROVE  InviteInv'
<1>1. ASSUME NEW d \in Clients \ {c}
      PROVE  op'[d] = op[d] /\ (Inserts(d)' <=> Inserts(d))
    BY DEF Acts, Inserts
<1>2. DOMAIN db'["invitation"] = DOMAIN db["invitation"]
    BY TablesExist DEF Acts, Grows, Base, DbShape
<1>3. CASE InvitePlain(c)
  <2>1. /\ Ids("invitation")' = Ids("invitation") /\ Admitted' = Admitted /\ ~Inserts(c)'
        /\ \A i \in Ids("invitation") : Row("invitation", i)' = Row("invitation", i)
      BY <1>3 DEF InvitePlain, Ids, Row, Admitted, Inserts
  <2> QED
      BY <1>1, <1>3, <2>1 DEF InviteInv, InvitePlain
<1>4. ASSUME db'["invitation"] = db["invitation"], ~Inserts(c), Inserts(c)',
             history'.tokens = history.tokens + 1, history'.admitted = history.admitted,
             op'[c].row.token = history'.tokens
      PROVE  InviteInv'
  <2>1. /\ Ids("invitation")' = Ids("invitation") /\ Admitted' = Admitted
        /\ \A i \in Ids("invitation") : Row("invitation", i)' = Row("invitation", i)
      BY <1>4 DEF Ids, Row, Admitted
  <2>2. /\ history.tokens \in Nat /\ history'.tokens \in Nat
        /\ 1 .. history.tokens \subseteq 1 .. history'.tokens
        /\ history'.tokens \in (1 .. history'.tokens) \ (1 .. history.tokens)
      BY <1>4 DEF InviteInv
  <2>3. /\ history'.admitted \in Seq(Nat) /\ Admitted' \subseteq 1 .. history'.tokens
        /\ \A j, n \in DOMAIN history'.admitted : history'.admitted[j] = history'.admitted[n] => j = n
      BY <1>4, <2>1, <2>2 DEF InviteInv
  <2>4. \A i \in Ids("invitation")' :
          /\ Row("invitation", i)'.token \in 1 .. history'.tokens
          /\ Row("invitation", i)'.token \in Admitted' => Row("invitation", i)'.status = "accepted"
          /\ \A j \in Ids("invitation")' :
               Row("invitation", i)'.token = Row("invitation", j)'.token => i = j
      BY <2>1, <2>2 DEF InviteInv
  <2>5. ASSUME NEW d \in Clients, Inserts(d)'
        PROVE  /\ op'[d].row.token \in (1 .. history'.tokens) \ Admitted'
               /\ \A i \in Ids("invitation")' : Row("invitation", i)'.token # op'[d].row.token
               /\ \A e \in Clients : Inserts(e)' /\ op'[d].row.token = op'[e].row.token => d = e
    <3>1. \A e \in Clients \ {c} : Inserts(e)' => op'[e].row.token \in 1 .. history.tokens
        BY <1>1 DEF InviteInv
    <3>2. CASE d = c
        BY <1>4, <2>1, <2>2, <3>1, <3>2 DEF InviteInv
    <3>3. CASE d # c
        BY <1>1, <1>4, <2>1, <2>2, <2>5, <3>1, <3>3 DEF InviteInv
    <3> QED
        BY <3>2, <3>3
  <2> QED
      BY <2>2, <2>3, <2>4, <2>5 DEF InviteInv
<1>5. ASSUME Inserts(c), ~Inserts(c)',
             history'.tokens = history.tokens, history'.admitted = history.admitted,
             \A n \in DOMAIN db["invitation"] :
                 db'["invitation"][n] = IF n = op[c].id THEN op[c].row ELSE db["invitation"][n]
      PROVE  InviteInv'
  <2>1. /\ Admitted' = Admitted
        /\ Ids("invitation")' \subseteq Ids("invitation") \cup {op[c].id}
        /\ \A i \in Ids("invitation")' :
             \/ i \in Ids("invitation") /\ i # op[c].id /\ Row("invitation", i)' = Row("invitation", i)
             \/ i = op[c].id /\ Row("invitation", i)' = op[c].row
      BY <1>2, <1>5 DEF Ids, Row, Admitted
  <2>2. /\ op[c].row.token \in (1 .. history.tokens) \ Admitted
        /\ \A i \in Ids("invitation") : Row("invitation", i).token # op[c].row.token
        /\ \A d \in Clients \ {c} : Inserts(d) => op[d].row.token # op[c].row.token
      BY <1>5 DEF InviteInv
  <2>3. \A i \in Ids("invitation")' :
          /\ Row("invitation", i)'.token \in 1 .. history'.tokens
          /\ Row("invitation", i)'.token \in Admitted' => Row("invitation", i)'.status = "accepted"
          /\ \A j \in Ids("invitation")' :
               Row("invitation", i)'.token = Row("invitation", j)'.token => i = j
      BY <1>5, <2>1, <2>2 DEF InviteInv
  <2>4. ASSUME NEW d \in Clients, Inserts(d)'
        PROVE  /\ op'[d].row.token \in (1 .. history'.tokens) \ Admitted'
               /\ \A i \in Ids("invitation")' : Row("invitation", i)'.token # op'[d].row.token
               /\ \A e \in Clients : Inserts(e)' /\ op'[d].row.token = op'[e].row.token => d = e
      BY <1>1, <1>5, <2>1, <2>2, <2>4 DEF InviteInv
  <2>5. /\ history'.tokens \in Nat
        /\ history'.admitted \in Seq(Nat) /\ Admitted' \subseteq 1 .. history'.tokens
        /\ \A j, n \in DOMAIN history'.admitted : history'.admitted[j] = history'.admitted[n] => j = n
      BY <1>5, <2>1 DEF InviteInv
  <2> QED
      BY <2>3, <2>4, <2>5 DEF InviteInv
<1>6. ASSUME ~Inserts(c)', history'.tokens = history.tokens, NEW i \in DOMAIN db["invitation"],
             db["invitation"][i].status = "pending",
             db'["invitation"][i].token = db["invitation"][i].token,
             \A n \in DOMAIN db["invitation"] \ {i} : db'["invitation"][n] = db["invitation"][n],
             \/ /\ db'["invitation"][i].status = "revoked" /\ history'.admitted = history.admitted
             \/ /\ db'["invitation"][i].status = "accepted"
                /\ history'.admitted = Append(history.admitted, db["invitation"][i].token)
      PROVE  InviteInv'
  <2> DEFINE token == db["invitation"][i].token
  <2>1. /\ Ids("invitation")' = Ids("invitation") /\ i \in Ids("invitation")
        /\ \A n \in Ids("invitation") : Row("invitation", n)'.token = Row("invitation", n).token
        /\ \A n \in Ids("invitation") \ {i} : Row("invitation", n)' = Row("invitation", n)
        /\ Row("invitation", i).token = token /\ Row("invitation", i)'.token = token
        /\ Row("invitation", i).status = "pending"
      BY <1>2, <1>6 DEF Ids, Row
  <2>2. token \in (1 .. history.tokens) \ Admitted
      BY <2>1 DEF InviteInv
  <2>3. /\ history'.admitted \in Seq(Nat) /\ Admitted' \subseteq Admitted \cup {token}
        /\ token \in Admitted' => Row("invitation", i)'.status = "accepted"
        /\ \A j, n \in DOMAIN history'.admitted : history'.admitted[j] = history'.admitted[n] => j = n
    <3>1. history.admitted \in Seq(Nat) /\ token \in Nat
        BY <2>2 DEF InviteInv
    <3>2. CASE history'.admitted = history.admitted
        BY <2>2, <3>1, <3>2 DEF InviteInv, Admitted
    <3>3. CASE /\ db'["invitation"][i].status = "accepted"
               /\ history'.admitted = Append(history.admitted, token)
      <4>1. /\ history'.admitted \in Seq(Nat)
            /\ DOMAIN history'.admitted = 1 .. Len(history.admitted) + 1
            /\ DOMAIN history.admitted = 1 .. Len(history.admitted)
            /\ \A j \in DOMAIN history.admitted : history'.admitted[j] = history.admitted[j]
            /\ history'.admitted[Len(history.admitted) + 1] = token
            /\ Len(history.admitted) \in Nat
          BY <3>1, <3>3
      <4>2. \A j \in DOMAIN history'.admitted :
              j \in DOMAIN history.admitted \/ j = Len(history.admitted) + 1
          BY <4>1
      <4>3. Admitted' \subseteq Admitted \cup {token}
          BY <4>1, <4>2 DEF Admitted
      <4>4. \A j \in DOMAIN history.admitted : history.admitted[j] # token
          BY <2>2 DEF Admitted
      <4>5. \A j, n \in DOMAIN history'.admitted : history'.admitted[j] = history'.admitted[n] => j = n
          BY <4>1, <4>2, <4>4 DEF InviteInv
      <4> QED
          BY <3>3, <4>1, <4>3, <4>5 DEF Row
    <3> QED
        BY <1>6, <3>2, <3>3
  <2> HIDE DEF token
  <2>4. \A n \in Ids("invitation")' :
          /\ Row("invitation", n)'.token \in 1 .. history'.tokens
          /\ Row("invitation", n)'.token \in Admitted' => Row("invitation", n)'.status = "accepted"
          /\ \A j \in Ids("invitation")' :
               Row("invitation", n)'.token = Row("invitation", j)'.token => n = j
      BY <1>6, <2>1, <2>2, <2>3 DEF InviteInv
  <2>5. ASSUME NEW d \in Clients, Inserts(d)'
        PROVE  /\ op'[d].row.token \in (1 .. history'.tokens) \ Admitted'
               /\ \A n \in Ids("invitation")' : Row("invitation", n)'.token # op'[d].row.token
               /\ \A e \in Clients : Inserts(e)' /\ op'[d].row.token = op'[e].row.token => d = e
    <3>1. d # c /\ op'[d] = op[d] /\ Inserts(d)
        BY <1>1, <1>6, <2>5
    <3>2. op[d].row.token # token
        BY <2>1, <3>1 DEF InviteInv
    <3> QED
        BY <1>1, <1>6, <2>1, <2>3, <3>1, <3>2 DEF InviteInv
  <2> QED
      BY <1>6, <2>2, <2>3, <2>4, <2>5 DEF InviteInv
<1> QED
    BY <1>3, <1>4, <1>5, <1>6 DEF InviteStep

LEMMA Initially ==
    ASSUME Init
    PROVE  IInv
<1>1. DbShape
  <2>1. \A k \in DOMAIN Seed : Seed[k] \in Seq({Seed[k][i] : i \in DOMAIN Seed[k]})
      BY SeedAssumption
  <2>2. ASSUME NEW k \in DOMAIN Seed PROVE IsFcn(Seed[k])
    <3>1. Seed[k] \in [1 .. Len(Seed[k]) -> {Seed[k][i] : i \in DOMAIN Seed[k]}]
        BY <2>1, LenProperties
    <3> QED
        BY <3>1 DEF IsFcn
  <2> QED
      BY <2>2 DEF Init, DbShape
<1>2. TypeOK
    BY SeedAssumption DEF Init, TypeOK, Row
<1>3. DOMAIN op = Clients /\ \A c \in Clients : op[c] = NoOp
    BY DEF Init
<1>4. /\ HistoryFields \subseteq DOMAIN history
      /\ history.tokens = Len(Seed["invitation"]) /\ history.admitted = << >>
    BY DEF Init, HistoryFields
<1>5. Base
    BY <1>1, <1>2, <1>3, <1>4, NoOpReady DEF Base
<1>6. AnswersStayInTenant
    BY DEF Init, AnswersStayInTenant, Nobody
<1>7. LoginInv
    BY <1>3 DEF LoginInv, Holds, NoOp
<1>8. InviteInv
  <2>1. "invitation" \in DOMAIN Seed
      BY TablesExist
  <2>2. Len(Seed["invitation"]) \in Nat
      BY <2>1, SeedAssumption
  <2>3. Admitted = {} /\ DOMAIN history.admitted = {} /\ history.admitted \in Seq(Nat)
      BY <1>4 DEF Admitted
  <2>4. \A c \in Clients : ~Inserts(c)
      BY <1>3 DEF Inserts, NoOp
  <2>5. \A i \in Ids("invitation") :
          /\ Row("invitation", i).token \in 1 .. Len(Seed["invitation"])
          /\ \A j \in Ids("invitation") :
               Row("invitation", i).token = Row("invitation", j).token => i = j
      BY SeedAssumption DEF Init, Ids, Row
  <2> QED
      BY <1>4, <2>2, <2>3, <2>4, <2>5 DEF InviteInv
<1> QED
    BY <1>5, <1>6, <1>7, <1>8 DEF IInv

\* Handlers that are gone hold nothing.
LEMMA RestartKeeps ==
    ASSUME IInv, Restart
    PROVE  IInv'
<1>1. /\ Grows /\ scenario' = scenario /\ op' = [c \in Clients |-> NoOp]
      /\ \A k \in {"attempt", "session", "invitation"} : db'[k] = db[k]
      /\ Unheard /\ AnswersStayInTenant'
    BY RestartStep DEF IInv
<1>2. DbShape' /\ TypeOK'
    BY <1>1, GrowsKeeps DEF IInv, Base, Grows
<1>3. \A c \in Clients : Ready(op[c])'
    BY <1>1 DEF Ready, NoOp, LoginPcs, MemoryPcs, SqlPcs, InvitePcs
<1>4. Base'
    BY <1>1, <1>2, <1>3 DEF Base, Unheard
<1>5. LoginInv'
    BY <1>1 DEF LoginInv, Holds, NoOp
<1>6. InviteInv'
  <2>1. /\ Ids("invitation")' = Ids("invitation") /\ Admitted' = Admitted
        /\ \A i \in Ids("invitation") : Row("invitation", i)' = Row("invitation", i)
        /\ \A c \in Clients : ~Inserts(c)'
      BY <1>1 DEF Ids, Row, Admitted, Unheard, Inserts, NoOp
  <2> QED
      BY <1>1, <2>1 DEF IInv, InviteInv, Unheard
<1> QED
    BY <1>1, <1>4, <1>5, <1>6 DEF IInv

\* Nothing but the clock changes.
LEMMA IdleKeeps ==
    ASSUME IInv, UNCHANGED <<db, op, answer, history, scenario>>
    PROVE  IInv'
<1>1. Base' /\ AnswersStayInTenant'
    BY DEF IInv, Base, DbShape, TypeOK, Ready, Row, Ids, Postgres, AnswersStayInTenant
<1>2. LoginInv'
    BY DEF IInv, LoginInv, Holds, Row
<1>3. InviteInv'
    BY DEF IInv, InviteInv, Inserts, Row, Ids, Admitted
<1> QED
    BY <1>1, <1>2, <1>3 DEF IInv

LEMMA Kept ==
    ASSUME IInv, [PlatformNext]_vars
    PROVE  IInv'
<1>1. ASSUME NEW c \in Clients, AdminNext(c) \/ TenancyNext(c) \/ LoginNext(c) \/ DropHandler(c)
      PROVE  IInv'
  <2>1. StepOf(c)
      BY <1>1, ClientStep DEF IInv
  <2> QED
      BY <2>1, BaseKept, LoginKept, InviteKept DEF IInv, StepOf, Acts
<1>2. CASE Restart
    BY <1>2, RestartKeeps
<1>3. CASE Tick \/ UNCHANGED vars
    BY <1>3, IdleKeeps DEF Tick, vars
<1> QED
    BY <1>1, <1>2, <1>3 DEF PlatformNext

\* The invariant holds throughout.
THEOREM Invariant == Spec => []IInv
<1>1. Init => IInv
    BY Initially
<1>2. IInv /\ [PlatformNext]_vars => IInv'
    BY Kept
<1> QED
    BY <1>1, <1>2, PTL DEF Spec

\* Every row keeps a status of its kind and a version that counts from 1
\* (TypeOK), for any number of clients, in memory and in Postgres.
THEOREM PlatformTypes == Spec => []TypeOK
<1>1. IInv => TypeOK
    BY DEF IInv, Base
<1> QED
    BY <1>1, Invariant, PTL

\* No route of the platform hands out a row of another tenant (AnswersStayInTenant).
THEOREM AnswersKeepTenant == Spec => []AnswersStayInTenant
<1>1. IInv => AnswersStayInTenant
    BY DEF IInv
<1> QED
    BY <1>1, Invariant, PTL

\* A token admits once, and never once its invitation is revoked
\* (InvitationAdmitsOnce), however many handlers take it up or revoke it at once.
THEOREM InvitationsAdmitOnce == Spec => []InvitationAdmitsOnce
<1>1. ASSUME IInv PROVE InvitationAdmitsOnce
  <2>1. \A i, j \in DOMAIN history.admitted : history.admitted[i] = history.admitted[j] => i = j
      BY <1>1 DEF IInv, InviteInv
  <2>2. ASSUME NEW i \in Ids("invitation"), Row("invitation", i).status = "revoked",
               NEW j \in DOMAIN history.admitted
        PROVE  history.admitted[j] # Row("invitation", i).token
      BY <1>1, <2>2 DEF IInv, InviteInv, Admitted
  <2> QED
      BY <2>1, <2>2 DEF InvitationAdmitsOnce, Where
<1> QED
    BY <1>1, Invariant, PTL
-----------------------------------------------------------------------------
(* Logging in implements LoginSessions                                     *)

LEMMA LoginInitially ==
    ASSUME Init
    PROVE  Login!Init
<1>1. /\ {"attempt", "session"} \subseteq DOMAIN Seed /\ db = Seed
      /\ \A c \in Clients : op[c].pc = "idle"
    BY TablesExist DEF Init, NoOp
<1>2. \A a \in DOMAIN Seed["attempt"] : AttemptState(a) \in {"none", "open"}
    BY <1>1, SeedAssumption DEF AttemptState, Row
<1>3. \A s \in DOMAIN Seed["session"] :
        /\ SessionState(s) \in {"none", "live", "ended"}
        /\ Row("session", s).status = "absent" \/ Row("session", s).attempt = 0
    BY <1>1, SeedAssumption DEF SessionState, Row, None
<1>4. loginAttempt \in [DOMAIN Seed["attempt"] -> {"none", "open"}]
    BY <1>1, <1>2 DEF loginAttempt
<1>5. loginSession \in [DOMAIN Seed["session"] -> {"none", "live", "ended"}]
    BY <1>1, <1>3 DEF loginSession
<1>6. loginOrigin = [s \in DOMAIN Seed["session"] |-> 0]
    BY <1>1, <1>3 DEF loginOrigin, None
<1> QED
    BY <1>4, <1>5, <1>6 DEF Login!Init

\* The parts of the mapping in terms of what a step does to the tables.
LEMMA MappedDomains ==
    ASSUME Base, Base'
    PROVE  /\ DOMAIN db["attempt"] = DOMAIN Seed["attempt"]
           /\ DOMAIN db["session"] = DOMAIN Seed["session"]
           /\ DOMAIN db'["attempt"] = DOMAIN Seed["attempt"]
           /\ DOMAIN db'["session"] = DOMAIN Seed["session"]
BY TablesExist DEF Base, DbShape

\* The handlers between an attempt and its session are at the same attempts.
SameHolders == \A a : (\E c \in Clients : At(c, "record_session") /\ op[c].attempt = a)
                      <=> (\E c \in Clients : At(c, "record_session") /\ op[c].attempt = a)'
LEMMA SameAttempts ==
    ASSUME Base, Base', db'["attempt"] = db["attempt"], SameHolders
    PROVE  loginAttempt' = loginAttempt
<1>1. \A a : AttemptState(a)' = AttemptState(a)
    BY DEF SameHolders, AttemptState, Row
<1> QED
    BY <1>1 DEF loginAttempt

LEMMA SameSessions ==
    ASSUME db'["session"] = db["session"]
    PROVE  loginSession' = loginSession /\ loginOrigin' = loginOrigin
BY DEF loginSession, loginOrigin, SessionState, Row

\* A session appears.
LEMMA SessionBegins ==
    ASSUME Base, Base', NEW a, SessionAppears(a)
    PROVE  \E s \in DOMAIN Seed["session"] : Login!Begin(s, a)
<1>1. PICK s \in DOMAIN db["session"] :
        /\ db["session"][s].status = "absent"
        /\ db'["session"][s].status = "active" /\ db'["session"][s].attempt = a
        /\ \A n \in DOMAIN db["session"] \ {s} : db'["session"][n] = db["session"][n]
    BY DEF SessionAppears
<1>2. s \in DOMAIN Seed["session"] /\ DOMAIN db'["session"] = DOMAIN db["session"]
    BY MappedDomains
<1>3. loginSession[s] = "none"
    BY <1>1 DEF loginSession, SessionState, Row
<1>4. loginSession' = [loginSession EXCEPT ![s] = "live"]
    BY <1>1, <1>2 DEF loginSession, SessionState, Row
<1>5. loginOrigin' = [loginOrigin EXCEPT ![s] = a]
    BY <1>1, <1>2 DEF loginOrigin, Row
<1> QED
    BY <1>2, <1>3, <1>4, <1>5 DEF Login!Begin

\* Sessions end.
LEMMA SessionsEnd ==
    ASSUME Base, Base', Ends, loginAttempt' = loginAttempt
    PROVE  \E ended \in SUBSET DOMAIN Seed["session"] : Login!End(ended)
<1> DEFINE ended == {s \in DOMAIN Seed["session"] : loginSession[s] = "live" /\ loginSession'[s] = "ended"}
<1>1. /\ DOMAIN db["session"] = DOMAIN Seed["session"]
      /\ DOMAIN db'["session"] = DOMAIN Seed["session"]
    BY MappedDomains
<1>2. ASSUME NEW s \in DOMAIN Seed["session"]
      PROVE  /\ loginSession'[s] = IF s \in ended THEN "ended" ELSE loginSession[s]
             /\ loginOrigin'[s] = loginOrigin[s]
  <2>1. /\ loginSession[s] = SessionState(s) /\ loginSession'[s] = SessionState(s)'
        /\ loginOrigin[s] = IF db["session"][s].status = "absent" THEN None ELSE db["session"][s].attempt
        /\ loginOrigin'[s] = IF db'["session"][s].status = "absent" THEN None ELSE db'["session"][s].attempt
      BY <1>1 DEF loginSession, loginOrigin, Row
  <2>2. CASE db'["session"][s] = db["session"][s]
      BY <2>1, <2>2 DEF SessionState, Row
  <2>3. CASE /\ db["session"][s].status = "active" /\ db'["session"][s].status # "absent"
             /\ db'["session"][s].attempt = db["session"][s].attempt
    <3>1. SessionState(s) = "live" /\ SessionState(s)' \in {"live", "ended"}
        BY <2>3 DEF SessionState, Row
    <3> QED
        BY <2>1, <2>3, <3>1
  <2> QED
      BY <1>1, <2>2, <2>3 DEF Ends
<1>3. loginSession' = [s \in DOMAIN Seed["session"] |-> IF s \in ended THEN "ended" ELSE loginSession[s]]
  <2>1. loginSession' = [s \in DOMAIN Seed["session"] |-> loginSession'[s]]
      BY <1>1 DEF loginSession
  <2> HIDE DEF ended
  <2> QED
      BY <1>2, <2>1
<1>4. loginOrigin' = loginOrigin
  <2>1. /\ loginOrigin' = [s \in DOMAIN Seed["session"] |-> loginOrigin'[s]]
        /\ loginOrigin = [s \in DOMAIN Seed["session"] |-> loginOrigin[s]]
      BY <1>1 DEF loginOrigin
  <2> QED
      BY <1>2, <2>1
<1>5. \A s \in ended : loginSession[s] = "live"
    OBVIOUS
<1>6. ended \in SUBSET DOMAIN Seed["session"]
    OBVIOUS
<1> HIDE DEF ended
<1>7. Login!End(ended)
    BY <1>3, <1>4, <1>5 DEF Login!End
<1> QED
    BY <1>6, <1>7

\* A step of a client is a step of LoginSessions, or none.
LEMMA LoginStepRefines ==
    ASSUME IInv, IInv', NEW c \in Clients, StepOf(c)
    PROVE  Login!Next \/ UNCHANGED Login!vars
<1>1. Base /\ Base' /\ LoginInv /\ LoginInv' /\ LoginStep(c) /\ Acts(c)
    BY DEF IInv, StepOf
<1>2. ASSUME NEW d \in Clients \ {c} PROVE op'[d] = op[d]
    BY <1>1 DEF Acts
<1>3. /\ DOMAIN db["attempt"] = DOMAIN Seed["attempt"]
      /\ DOMAIN db'["attempt"] = DOMAIN Seed["attempt"]
    BY <1>1, MappedDomains
<1>4. ASSUME op[c].pc # "record_session", op'[c].pc # "record_session"
      PROVE  SameHolders
    BY <1>2, <1>4 DEF SameHolders, At
<1>5. CASE LoginPlain(c)
  <2>1. SameHolders
      BY <1>4, <1>5 DEF LoginPlain
  <2>2. loginAttempt' = loginAttempt
      BY <1>1, <1>5, <2>1, SameAttempts DEF LoginPlain
  <2> QED
      BY <1>1, <1>5, <2>2, SessionsEnd DEF LoginPlain, Login!Next
<1>6. ASSUME db'["session"] = db["session"], ~Holds(c), ~Holds(c)',
             NEW a \in DOMAIN db["attempt"], AttemptBecomes(a, "absent", "active")
      PROVE  Login!Next
  <2>1. SameHolders
      BY <1>4, <1>6 DEF Holds
  <2>2. AttemptState(a) = "none" /\ AttemptState(a)' = "open"
      BY <1>6 DEF AttemptBecomes, AttemptState, Row
  <2>3. \A n \in DOMAIN db["attempt"] \ {a} : AttemptState(n)' = AttemptState(n)
      BY <1>6, <2>1 DEF SameHolders, AttemptBecomes, AttemptState, Row
  <2>4. loginAttempt[a] = "none" /\ loginAttempt' = [loginAttempt EXCEPT ![a] = "open"]
      BY <1>3, <1>6, <2>2, <2>3 DEF loginAttempt
  <2>5. loginSession' = loginSession /\ loginOrigin' = loginOrigin
      BY <1>6, SameSessions
  <2> QED
      BY <1>3, <2>4, <2>5 DEF Login!Next, Login!Start
<1>7. ASSUME db'["session"] = db["session"], ~Holds(c), op'[c].pc = "record_session",
             op'[c].attempt = op[c].attempt, AttemptBecomes(op[c].attempt, "active", "consumed")
      PROVE  UNCHANGED Login!vars
  <2>a. PICK a : a = op[c].attempt
      OBVIOUS
  <2>1. AttemptState(a) = "open" /\ AttemptState(a)' = "open"
      BY <1>7, <2>a DEF AttemptBecomes, AttemptState, Row, At
  <2>2. ASSUME NEW n \in DOMAIN db["attempt"] \ {a}
        PROVE  AttemptState(n)' = AttemptState(n)
    <3>1. (\E d \in Clients : At(d, "record_session") /\ op[d].attempt = n)
            <=> (\E d \in Clients : At(d, "record_session") /\ op[d].attempt = n)'
        BY <1>2, <1>7, <2>a DEF At, Holds
    <3> QED
        BY <1>7, <2>a, <3>1 DEF AttemptBecomes, AttemptState, Row
  <2>3. loginAttempt' = loginAttempt
      BY <1>3, <2>a, <2>1, <2>2 DEF loginAttempt
  <2>4. loginSession' = loginSession /\ loginOrigin' = loginOrigin
      BY <1>7, SameSessions
  <2> QED
      BY <2>3, <2>4 DEF Login!vars
<1>8. ASSUME db'["session"] = db["session"], db'["attempt"] = db["attempt"], ~Holds(c),
             op'[c].pc = "commit_login"
      PROVE  UNCHANGED Login!vars
  <2>1. SameHolders
      BY <1>4, <1>8 DEF Holds
  <2> QED
      BY <1>1, <1>8, <2>1, SameAttempts, SameSessions DEF Login!vars
<1>9. ASSUME op[c].pc = "record_session", ~Holds(c)', db'["attempt"] = db["attempt"],
             SessionAppears(op[c].attempt)
      PROVE  Login!Next
  <2>a. PICK a : a = op[c].attempt
      OBVIOUS
  <2>1. a \in DOMAIN db["attempt"] /\ db["attempt"][a].status = "consumed"
      BY <1>1, <1>9, <2>a DEF Base, Ready, LoginPcs, Ids, LoginInv, Row
  <2>2. \A d \in Clients \ {c} : At(d, "record_session") => op[d].attempt # a
      BY <1>1, <1>9, <2>a DEF LoginInv, Holds, At
  <2>3. AttemptState(a) = "open"
      BY <1>9, <2>a, <2>1 DEF AttemptState, Row, At
  <2>4. AttemptState(a)' = "used"
    <3>1. \A d \in Clients : ~(At(d, "record_session")' /\ op'[d].attempt = a)
        BY <1>2, <1>9, <2>a, <2>2 DEF At, Holds
    <3> QED
        BY <1>9, <2>a, <2>1, <3>1 DEF AttemptState, Row
  <2>5. ASSUME NEW n \in DOMAIN db["attempt"] \ {a}
        PROVE  AttemptState(n)' = AttemptState(n)
    <3>1. (\E d \in Clients : At(d, "record_session") /\ op[d].attempt = n)
            <=> (\E d \in Clients : At(d, "record_session") /\ op[d].attempt = n)'
        BY <1>2, <1>9, <2>a DEF At, Holds
    <3> QED
        BY <1>9, <2>a, <3>1 DEF AttemptState, Row
  <2>6. loginAttempt[a] = "open" /\ loginAttempt' = [loginAttempt EXCEPT ![a] = "used"]
      BY <1>3, <2>1, <2>3, <2>4, <2>5 DEF loginAttempt
  <2>7. PICK s \in DOMAIN Seed["session"] : Login!Begin(s, a)
      BY <1>1, <1>9, <2>a, SessionBegins
  <2> QED
      BY <1>3, <2>1, <2>6, <2>7 DEF Login!Next, Login!LogIn
<1>10. ASSUME op[c].pc = "commit_login", ~Holds(c)',
              AttemptBecomes(op[c].attempt, "active", "consumed"), SessionAppears(op[c].attempt)
       PROVE  Login!Next
  <2>a. PICK a : a = op[c].attempt
      OBVIOUS
  <2>1. SameHolders
      BY <1>4, <1>10 DEF Holds
  <2>2. \A d \in Clients : ~(At(d, "record_session") /\ op[d].attempt = a)
      BY <1>1, <1>10, <2>a DEF LoginInv, AttemptBecomes, Row, At
  <2>3. AttemptState(a) = "open" /\ AttemptState(a)' = "used"
      BY <1>10, <2>a, <2>1, <2>2 DEF SameHolders, AttemptBecomes, AttemptState, Row
  <2>4. \A n \in DOMAIN db["attempt"] \ {a} : AttemptState(n)' = AttemptState(n)
      BY <1>10, <2>a, <2>1 DEF SameHolders, AttemptBecomes, AttemptState, Row
  <2>5. a \in DOMAIN db["attempt"]
      BY <1>10, <2>a DEF AttemptBecomes
  <2>6. loginAttempt[a] = "open" /\ loginAttempt' = [loginAttempt EXCEPT ![a] = "used"]
      BY <1>3, <2>3, <2>4, <2>5 DEF loginAttempt
  <2>7. PICK s \in DOMAIN Seed["session"] : Login!Begin(s, a)
      BY <1>1, <1>10, <2>a, SessionBegins
  <2> QED
      BY <1>3, <2>5, <2>6, <2>7 DEF Login!Next, Login!LogIn
<1>11. ASSUME ~Holds(c), ~Holds(c)', db'["attempt"] = db["attempt"], SessionAppears(None)
       PROVE  Login!Next
  <2>1. SameHolders
      BY <1>4, <1>11 DEF Holds
  <2>2. loginAttempt' = loginAttempt
      BY <1>1, <1>11, <2>1, SameAttempts
  <2>3. PICK s \in DOMAIN Seed["session"] : Login!Begin(s, None)
      BY <1>1, <1>11, SessionBegins
  <2> QED
      BY <2>2, <2>3 DEF Login!Next, Login!LogInWithPassword, None
<1> QED
    BY <1>1, <1>5, <1>6, <1>7, <1>8, <1>9, <1>10, <1>11 DEF LoginStep

\* Every step of the service is.
LEMMA StepRefines ==
    ASSUME IInv, IInv', [PlatformNext]_vars
    PROVE  Login!Next \/ UNCHANGED Login!vars
<1>1. ASSUME NEW c \in Clients, AdminNext(c) \/ TenancyNext(c) \/ LoginNext(c) \/ DropHandler(c)
      PROVE  Login!Next \/ UNCHANGED Login!vars
  <2>1. StepOf(c)
      BY <1>1, ClientStep DEF IInv
  <2> QED
      BY <2>1, LoginStepRefines
<1>2. CASE Restart
  <2>1. /\ \A k \in {"attempt", "session", "invitation"} : db'[k] = db[k]
        /\ \A c \in Clients : op[c].pc # "record_session" /\ op'[c].pc # "record_session"
      BY <1>2, RestartStep DEF IInv, NoOp
  <2>2. SameHolders
      BY <2>1 DEF SameHolders, At
  <2> QED
      BY <2>1, <2>2, SameAttempts, SameSessions DEF IInv, Login!vars
<1>3. CASE Tick \/ UNCHANGED vars
  <2>1. db' = db /\ op' = op
      BY <1>3 DEF Tick, vars
  <2>2. SameHolders
      BY <2>1 DEF SameHolders, At
  <2> QED
      BY <2>1, <2>2, SameAttempts, SameSessions DEF IInv, Login!vars
<1> QED
    BY <1>1, <1>2, <1>3 DEF PlatformNext

\* Logging in is atomic (LoginSpec): one session at most comes of an attempt, by the
\* step that uses it up, and an ended session stays ended, for any number of clients,
\* in memory and in Postgres, with timeouts, restarts and racing callbacks.
THEOREM LoginRefines == Spec => LoginSpec
<1>1. Init => Login!Init
    BY LoginInitially
<1>2. IInv /\ IInv' /\ [PlatformNext]_vars => [Login!Next]_(Login!vars)
    BY StepRefines
<1> QED
    BY <1>1, <1>2, Invariant, PTL DEF Spec, LoginSpec, Login!Spec

\* What LoginSessions keeps: a session that is of an attempt exists, and the attempt
\* is used and is no other session's.
OriginsInv ==
    /\ \A s \in DOMAIN Seed["session"] : loginOrigin[s] # 0 =>
         /\ loginSession[s] # "none"
         /\ loginOrigin[s] \in DOMAIN Seed["attempt"] /\ loginAttempt[loginOrigin[s]] = "used"
    /\ \A s, t \in DOMAIN Seed["session"] : loginOrigin[s] # 0 /\ loginOrigin[s] = loginOrigin[t] => s = t
LEMMA OriginsKept ==
    ASSUME Base, OriginsInv, Login!Next \/ UNCHANGED Login!vars
    PROVE  OriginsInv'
<1>1. /\ DOMAIN loginAttempt = DOMAIN Seed["attempt"]
      /\ DOMAIN loginSession = DOMAIN Seed["session"] /\ DOMAIN loginOrigin = DOMAIN Seed["session"]
    BY TablesExist DEF Base, DbShape, loginAttempt, loginSession, loginOrigin
<1> USE DEF OriginsInv
<1>2. ASSUME NEW a \in DOMAIN Seed["attempt"], Login!Start(a) PROVE OriginsInv'
    BY <1>1, <1>2 DEF Login!Start
<1>3. ASSUME NEW a \in DOMAIN Seed["attempt"], NEW s \in DOMAIN Seed["session"], Login!LogIn(a, s)
      PROVE  OriginsInv'
  <2>1. /\ loginAttempt[a] = "open" /\ loginAttempt' = [loginAttempt EXCEPT ![a] = "used"]
        /\ loginSession[s] = "none" /\ loginSession' = [loginSession EXCEPT ![s] = "live"]
        /\ loginOrigin' = [loginOrigin EXCEPT ![s] = a]
      BY <1>3 DEF Login!LogIn, Login!Begin
  <2> QED
      BY <1>1, <2>1
<1>4. ASSUME NEW s \in DOMAIN Seed["session"], Login!LogInWithPassword(s) PROVE OriginsInv'
  <2>1. /\ loginAttempt' = loginAttempt
        /\ loginSession[s] = "none" /\ loginSession' = [loginSession EXCEPT ![s] = "live"]
        /\ loginOrigin' = [loginOrigin EXCEPT ![s] = 0]
      BY <1>4 DEF Login!LogInWithPassword, Login!Begin
  <2> QED
      BY <1>1, <2>1
<1>5. ASSUME NEW ended \in SUBSET DOMAIN Seed["session"], Login!End(ended) PROVE OriginsInv'
  <2>1. /\ loginAttempt' = loginAttempt /\ loginOrigin' = loginOrigin
        /\ loginSession' = [s \in DOMAIN Seed["session"] |-> IF s \in ended THEN "ended" ELSE loginSession[s]]
      BY <1>5 DEF Login!End
  <2> QED
      BY <2>1
<1>6. CASE UNCHANGED Login!vars
    BY <1>6 DEF Login!vars
<1> QED
    BY <1>2, <1>3, <1>4, <1>5, <1>6 DEF Login!Next

\* No two sessions in the platform's table are of the same login attempt: what
\* LoginSessions promises, of the rows of complete_oidc_login and record_auth_session.
THEOREM OneSessionPerAttempt ==
    Spec => [](\A s, t \in Ids("session") :
                   (/\ Row("session", s).attempt # None
                    /\ Row("session", s).attempt = Row("session", t).attempt) => s = t)
<1> DEFINE Single == \A s, t \in Ids("session") :
                         (/\ Row("session", s).attempt # None
                          /\ Row("session", s).attempt = Row("session", t).attempt) => s = t
<1>1. Init => OriginsInv
  <2>1. Login!Init => OriginsInv
      BY DEF Login!Init, OriginsInv
  <2> QED
      BY <2>1, LoginInitially
<1>2. IInv /\ IInv' /\ OriginsInv /\ [PlatformNext]_vars => OriginsInv'
    BY StepRefines, OriginsKept DEF IInv
<1>3. ASSUME IInv, OriginsInv PROVE Single
  <2>1. DOMAIN db["session"] = DOMAIN Seed["session"]
      BY <1>3, TablesExist DEF IInv, Base, DbShape
  <2>2. \A s \in Ids("session") :
          s \in DOMAIN Seed["session"] /\ loginOrigin[s] = Row("session", s).attempt
      BY <2>1 DEF Ids, loginOrigin
  <2> QED
      BY <1>3, <2>2 DEF OriginsInv, None
<1> QED
    BY <1>1, <1>2, <1>3, Invariant, PTL DEF Spec
-----------------------------------------------------------------------------
(* Shutting somebody out                                                   *)

\* What is left to somebody who is shut out is late: sessions, and what a member
\* has in the organization's projects.
SessionsGone(u) ==
    \A s \in Ids("session") :
        /\ Row("session", s).status = "active"
        /\ Row("session", s).tenant = Row("user", u).tenant /\ Row("session", s).principal = u
        => <<"session", s>> \in history.late
Gone(k, m) ==
    \A i \in Ids(k) :
        Row(k, i).status = "active" /\ OfMember(Row(k, i), Row("org_member", m))
        => <<k, i>> \in history.late

\* A handler that is about to take it away, from the one the row is of now.
Disables(c, u) ==
    /\ op[c].pc = "disable_sessions" /\ op[c].id = u
    /\ op[c].tenant = Row("user", u).tenant
Cascades(c, m) ==
    /\ op[c].pc = "cascade" /\ op[c].id = m
    /\ op[c].member.status \in {"suspended", "removed"}
    /\ OfMember(op[c].member, Row("org_member", m))
Deletes(c, m) ==
    /\ op[c].pc \in {"cascade", "delete_org_bindings"} /\ op[c].id = m
    /\ op[c].member.status = "removed"
    /\ OfMember(op[c].member, Row("org_member", m))

ShutUsers ==
    \A u \in Ids("user") : Row("user", u).status # "active" =>
        \/ <<"user", u>> \in history.partial
        \/ SessionsGone(u)
        \/ \E c \in Clients : Disables(c, u)
ShutMembers ==
    \A m \in Ids("org_member") : Row("org_member", m).status # "active" =>
        \/ <<"org_member", m>> \in history.partial
        \/ Gone("project_member", m)
        \/ \E c \in Clients : Cascades(c, m)
ShutRoles ==
    \A m \in Ids("org_member") : Row("org_member", m).status = "removed" =>
        \/ <<"org_member", m>> \in history.partial
        \/ Gone("binding", m)
        \/ \E c \in Clients : Deletes(c, m)
ShutInv == ShutUsers /\ ShutMembers /\ ShutRoles

\* What a step of client c keeps of this.  What somebody who is shut out has, and is
\* not late, was theirs before; and they were shut out before, or c has the
\* consequences before it.
SessionsKept ==
    \A s \in DOMAIN Seed["session"] :
        LET old == db["session"][s]
            new == db'["session"][s]
        IN /\ new.status = "active" /\ <<"session", s>> \notin history'.late
           /\ \E u \in DOMAIN Seed["user"] :
                /\ db'["user"][u].status \notin {"absent", "active"}
                /\ new.tenant = db'["user"][u].tenant /\ new.principal = u
           =>
             /\ old.status = "active" /\ <<"session", s>> \notin history.late
             /\ new.tenant = old.tenant /\ new.principal = old.principal
RowsKept(k) ==
    \A i \in DOMAIN Seed[k] :
        LET old == db[k][i]
            new == db'[k][i]
        IN new.status = "active" /\ <<k, i>> \notin history'.late /\ ShutOut(db', new) =>
             old.status = "active" /\ <<k, i>> \notin history.late /\ OfMember(new, old)
UsersKept(c) ==
    \A u \in DOMAIN Seed["user"] :
        LET old == db["user"][u]
            new == db'["user"][u]
        IN new.status \notin {"absent", "active"} =>
             \/ SessionsGone(u)' \/ Disables(c, u)'
             \/ /\ old.status \notin {"absent", "active"} /\ new.tenant = old.tenant
                /\ ~ Disables(c, u)
MembersKept(c) ==
    \A m \in DOMAIN Seed["org_member"] :
        LET old == db["org_member"][m]
            new == db'["org_member"][m]
        IN new.status \notin {"absent", "active"} =>
             \/ Cascades(c, m)' /\ (new.status = "removed" => Deletes(c, m)')
             \/ /\ new.status = old.status /\ OfMember(new, old)
                /\ Cascades(c, m) => Gone("project_member", m)'
                /\ Deletes(c, m) => Deletes(c, m)' \/ Gone("binding", m)'
ShutStep(c) ==
    /\ SessionsKept /\ RowsKept("project_member") /\ RowsKept("binding")
    /\ UsersKept(c) /\ MembersKept(c)
    /\ history'.partial = history.partial

\* What is gone stays gone, while the member stays shut out.
LEMMA GoneStays ==
    ASSUME Base, DbShape', NEW k \in {"project_member", "binding"}, RowsKept(k),
           NEW m \in DOMAIN Seed["org_member"], db'["org_member"][m].status \notin {"absent", "active"},
           OfMember(db'["org_member"][m], db["org_member"][m]), Gone(k, m)
    PROVE  Gone(k, m)'
<1>1. \A j \in {k, "org_member"} : DOMAIN db[j] = DOMAIN Seed[j] /\ DOMAIN db'[j] = DOMAIN Seed[j]
    BY TablesExist DEF Base, DbShape
<1> SUFFICES ASSUME NEW i \in Ids(k)', Row(k, i)'.status = "active",
                    OfMember(Row(k, i), Row("org_member", m))', <<k, i>> \notin history'.late
             PROVE  FALSE
    BY DEF Gone
<1>2. ShutOut(db', db'[k][i])
    BY <1>1 DEF ShutOut, OfMember, Row
<1>3. i \in DOMAIN Seed[k] /\ db'[k][i].status = "active"
    BY <1>1 DEF Ids, Row
<1>4. /\ db[k][i].status = "active" /\ <<k, i>> \notin history.late
      /\ OfMember(db'[k][i], db[k][i])
    BY <1>2, <1>3 DEF RowsKept
<1>5. OfMember(db[k][i], db["org_member"][m])
    BY <1>4 DEF OfMember, Row
<1> QED
    BY <1>1, <1>3, <1>4, <1>5 DEF Gone, Ids, Row

\* The same of sessions.
LEMMA SessionsStayGone ==
    ASSUME Base, DbShape', SessionsKept, NEW u \in DOMAIN Seed["user"],
           db'["user"][u].status \notin {"absent", "active"},
           db'["user"][u].tenant = db["user"][u].tenant, SessionsGone(u)
    PROVE  SessionsGone(u)'
<1>1. DOMAIN db["session"] = DOMAIN Seed["session"] /\ DOMAIN db'["session"] = DOMAIN Seed["session"]
    BY TablesExist DEF Base, DbShape
<1> QED
    BY <1>1 DEF SessionsGone, SessionsKept, Ids, Row

LEMMA ShutKept ==
    ASSUME Base, ShutInv, NEW c \in Clients, Acts(c), ShutStep(c)
    PROVE  ShutInv'
<1>1. /\ {"user", "session", "org_member", "project_member", "binding"} \subseteq DOMAIN Seed
      /\ \A k \in {"user", "session", "org_member", "project_member", "binding"} :
           DOMAIN db[k] = DOMAIN Seed[k] /\ DOMAIN db'[k] = DOMAIN Seed[k]
    BY TablesExist DEF Base, DbShape, Acts, Grows
<1>2. \A d \in Clients : d # c => op'[d] = op[d]
    BY DEF Acts
<1>3. ShutUsers'
  <2> SUFFICES ASSUME NEW u \in Ids("user")', Row("user", u)'.status # "active",
                      <<"user", u>> \notin history'.partial, ~ SessionsGone(u)',
                      ~ \E d \in Clients : Disables(d, u)'
               PROVE  FALSE
      BY DEF ShutUsers
  <2>1. u \in DOMAIN Seed["user"] /\ db'["user"][u].status \notin {"absent", "active"}
      BY <1>1 DEF Ids, Row
  <2>2. /\ db["user"][u].status \notin {"absent", "active"}
        /\ db'["user"][u].tenant = db["user"][u].tenant /\ ~ Disables(c, u)
      BY <2>1 DEF ShutStep, UsersKept
  <2>3. SessionsGone(u) \/ \E d \in Clients : Disables(d, u)
      BY <1>1, <2>1, <2>2 DEF ShutInv, ShutUsers, Ids, Row, ShutStep
  <2>4. ~ \E d \in Clients : Disables(d, u)
      BY <1>2, <2>2 DEF Disables, Row
  <2>5. SessionsGone(u)'
      BY <2>1, <2>2, <2>3, <2>4, SessionsStayGone DEF ShutStep, Acts, Grows
  <2> QED
      BY <2>5
<1>4. ShutMembers'
  <2> SUFFICES ASSUME NEW m \in Ids("org_member")', Row("org_member", m)'.status # "active",
                      <<"org_member", m>> \notin history'.partial, ~ Gone("project_member", m)',
                      ~ \E d \in Clients : Cascades(d, m)'
               PROVE  FALSE
      BY DEF ShutMembers
  <2>1. m \in DOMAIN Seed["org_member"] /\ db'["org_member"][m].status \notin {"absent", "active"}
      BY <1>1 DEF Ids, Row
  <2>2. /\ db'["org_member"][m].status = db["org_member"][m].status
        /\ OfMember(db'["org_member"][m], db["org_member"][m]) /\ ~ Cascades(c, m)
      BY <2>1 DEF ShutStep, MembersKept
  <2>3. Gone("project_member", m) \/ \E d \in Clients : Cascades(d, m)
      BY <1>1, <2>1, <2>2 DEF ShutInv, ShutMembers, Ids, Row, ShutStep
  <2>4. ~ \E d \in Clients : Cascades(d, m)
      BY <1>2, <2>2 DEF Cascades, Row, OfMember
  <2> QED
      BY <2>1, <2>2, <2>3, <2>4, GoneStays DEF ShutStep, Acts, Grows
<1>5. ShutRoles'
  <2> SUFFICES ASSUME NEW m \in Ids("org_member")', Row("org_member", m)'.status = "removed",
                      <<"org_member", m>> \notin history'.partial, ~ Gone("binding", m)',
                      ~ \E d \in Clients : Deletes(d, m)'
               PROVE  FALSE
      BY DEF ShutRoles
  <2>1. m \in DOMAIN Seed["org_member"] /\ db'["org_member"][m].status = "removed"
      BY <1>1 DEF Ids, Row
  <2>2. /\ db'["org_member"][m].status = db["org_member"][m].status
        /\ OfMember(db'["org_member"][m], db["org_member"][m]) /\ ~ Deletes(c, m)
      BY <2>1 DEF ShutStep, MembersKept
  <2>3. Gone("binding", m) \/ \E d \in Clients : Deletes(d, m)
      BY <1>1, <2>1, <2>2 DEF ShutInv, ShutRoles, Ids, Row, ShutStep
  <2>4. ~ \E d \in Clients : Deletes(d, m)
      BY <1>2, <2>2 DEF Deletes, Row, OfMember
  <2> QED
      BY <2>1, <2>2, <2>3, <2>4, GoneStays DEF ShutStep, Acts, Grows
<1> QED
    BY <1>3, <1>4, <1>5 DEF ShutInv

\* What a handler that is cut off would have taken away.
LEMMA HalfMadeIs ==
    ASSUME NEW c
    PROVE  /\ \A u : Disables(c, u) => <<"user", u>> \in HalfMade(c)
           /\ \A m : Cascades(c, m) \/ Deletes(c, m) => <<"org_member", m>> \in HalfMade(c)
<1>1. op[c].pc = "disable_sessions" => HalfMade(c) = {<<"user", op[c].id>>}
    BY Zenon DEF HalfMade, At
<1>2. op[c].pc \in {"cascade", "delete_org_bindings"} => HalfMade(c) = {<<"org_member", op[c].id>>}
    BY Zenon DEF HalfMade, At
<1> QED
    BY <1>1, <1>2 DEF Disables, Cascades, Deletes

\* A step that cuts handlers off, and shuts nobody out.
LEMMA CutKept ==
    ASSUME Base, ShutInv, DbShape', SessionsKept, RowsKept("project_member"), RowsKept("binding"),
           \A k \in {"user", "org_member"} : \A i \in DOMAIN Seed[k] :
             db'[k][i] = db[k][i] \/ db'[k][i].status = "active",
           history.partial \subseteq history'.partial,
           \A c \in Clients : op'[c] = op[c] \/ HalfMade(c) \subseteq history'.partial
    PROVE  ShutInv'
<1>1. \A k \in {"user", "org_member"} : DOMAIN db[k] = DOMAIN Seed[k] /\ DOMAIN db'[k] = DOMAIN Seed[k]
    BY TablesExist DEF Base, DbShape
<1>2. ShutUsers'
  <2> SUFFICES ASSUME NEW u \in Ids("user")', Row("user", u)'.status # "active",
                      <<"user", u>> \notin history'.partial, ~ SessionsGone(u)',
                      ~ \E c \in Clients : Disables(c, u)'
               PROVE  FALSE
      BY DEF ShutUsers
  <2>1. /\ u \in DOMAIN Seed["user"] /\ db'["user"][u] = db["user"][u]
        /\ db'["user"][u].status \notin {"absent", "active"}
      BY <1>1 DEF Ids, Row
  <2>2. SessionsGone(u) \/ \E c \in Clients : Disables(c, u)
      BY <1>1, <2>1 DEF ShutInv, ShutUsers, Ids, Row
  <2>3. \A c \in Clients : ~ Disables(c, u)
      BY <2>1, HalfMadeIs DEF Disables, Row
  <2> QED
      BY <2>1, <2>2, <2>3, SessionsStayGone
<1>3. ASSUME NEW m \in Ids("org_member")', Row("org_member", m)'.status # "active",
             <<"org_member", m>> \notin history'.partial
      PROVE  /\ m \in Ids("org_member") /\ db'["org_member"][m] = db["org_member"][m]
             /\ m \in DOMAIN Seed["org_member"] /\ db'["org_member"][m].status \notin {"absent", "active"}
             /\ OfMember(db'["org_member"][m], db["org_member"][m])
             /\ \A c \in Clients : /\ Cascades(c, m) => Cascades(c, m)'
                                   /\ Deletes(c, m) => Deletes(c, m)'
  <2>1. /\ m \in DOMAIN Seed["org_member"] /\ db'["org_member"][m] = db["org_member"][m]
        /\ db'["org_member"][m].status \notin {"absent", "active"}
      BY <1>1, <1>3 DEF Ids, Row
  <2> QED
      BY <1>1, <1>3, <2>1, HalfMadeIs DEF Cascades, Deletes, OfMember, Ids, Row
<1>4. ShutMembers'
  <2> SUFFICES ASSUME NEW m \in Ids("org_member")', Row("org_member", m)'.status # "active",
                      <<"org_member", m>> \notin history'.partial, ~ Gone("project_member", m)',
                      ~ \E c \in Clients : Cascades(c, m)'
               PROVE  FALSE
      BY DEF ShutMembers
  <2>1. Gone("project_member", m) \/ \E c \in Clients : Cascades(c, m)
      BY <1>3 DEF ShutInv, ShutMembers, Row
  <2> QED
      BY <1>3, <2>1, GoneStays
<1>5. ShutRoles'
  <2> SUFFICES ASSUME NEW m \in Ids("org_member")', Row("org_member", m)'.status = "removed",
                      <<"org_member", m>> \notin history'.partial, ~ Gone("binding", m)',
                      ~ \E c \in Clients : Deletes(c, m)'
               PROVE  FALSE
      BY DEF ShutRoles
  <2>1. Gone("binding", m) \/ \E c \in Clients : Deletes(c, m)
      BY <1>3 DEF ShutInv, ShutRoles, Row
  <2> QED
      BY <1>3, <2>1, GoneStays
<1> QED
    BY <1>2, <1>4, <1>5 DEF ShutInv

\* The steps at which a handler is to take something away.
ShutPcs == {"disable_sessions", "cascade", "delete_org_bindings"}
LateSame(k) == \A i : (<<k, i>> \in history'.late) = (<<k, i>> \in history.late)

\* What a step leaves alone is kept.
LEMMA SessionsStay ==
    ASSUME db'["session"] = db["session"], LateSame("session")
    PROVE  SessionsKept
BY DEF SessionsKept, LateSame

LEMMA RowsStay ==
    ASSUME NEW k, db'[k] = db[k], LateSame(k)
    PROVE  RowsKept(k)
BY DEF RowsKept, LateSame, OfMember

LEMMA UsersStay ==
    ASSUME NEW c, db'["user"] = db["user"], op[c].pc \notin ShutPcs
    PROVE  UsersKept(c)
BY DEF UsersKept, ShutPcs, Disables

LEMMA MembersStay ==
    ASSUME NEW c, op[c].pc \notin ShutPcs,
           \A m \in DOMAIN Seed["org_member"] :
             db'["org_member"][m] = db["org_member"][m] \/ db'["org_member"][m].status = "active"
    PROVE  MembersKept(c)
BY DEF MembersKept, ShutPcs, Cascades, Deletes, OfMember

ShutTables == {"user", "session", "org_member", "project_member", "binding"}
Quiet(c) ==
    /\ \A k \in ShutTables : db'[k] = db[k]
    /\ history'.late = history.late /\ history'.partial = history.partial
    /\ op[c].pc \notin ShutPcs

LEMMA QuietStep ==
    ASSUME NEW c, Quiet(c)
    PROVE  ShutStep(c)
<1>1. \A k : LateSame(k)
    BY DEF Quiet, LateSame
<1>2. SessionsKept /\ RowsKept("project_member") /\ RowsKept("binding")
    BY <1>1, SessionsStay, RowsStay DEF Quiet, ShutTables
<1>3. UsersKept(c) /\ MembersKept(c)
    BY UsersStay, MembersStay DEF Quiet, ShutTables
<1> QED
    BY <1>2, <1>3 DEF ShutStep, Quiet

\* The history of a step that counts a request.
LEMMA CountedQuiet ==
    ASSUME Base, NEW n, NEW t,
           \/ history' = history \/ history' = [history EXCEPT !.requests = n]
           \/ history' = [history EXCEPT !.requests = n, !.tokens = t]
           \/ history' = [history EXCEPT !.audits = n] \/ history' = Admits(n)
    PROVE  history'.late = history.late /\ history'.partial = history.partial
BY DEF Base, HistoryFields, Admits

\* Handlers that read, or begin, touch none of this.
LEMMA CallsQuiet ==
    ASSUME Base, NEW c, NEW route, Calling(c, route), db' = db, NEW n, NEW t,
           \/ history' = [history EXCEPT !.requests = n]
           \/ history' = [history EXCEPT !.requests = n, !.tokens = t]
    PROVE  Quiet(c)
<1>1. history'.late = history.late /\ history'.partial = history.partial
    BY CountedQuiet
<1> QED
    BY <1>1 DEF Quiet, Calling, ShutPcs

LEMMA CallsShutStep ==
    ASSUME Base, NEW c \in Clients,
           \/ ListPlatformAuditEvents(c) \/ ListAuthProviders(c) \/ PreviewAuthInvitation(c)
           \/ ListPlatformUsers(c) \/ GetPlatformUser(c) \/ ListUserAuthSessions(c)
           \/ ListUserExternalIdentities(c) \/ GetUserExternalIdentity(c) \/ ListOrganizationMembers(c)
           \/ GetOrganizationMember(c) \/ ListProjectMembers(c) \/ GetProjectMember(c)
           \/ ListRoleBindings(c) \/ GetRoleBinding(c) \/ ListOrganizationInvitations(c)
           \/ GetOrganizationInvitation(c) \/ ListOidcIdentityProviders(c) \/ GetOidcIdentityProvider(c)
           \/ ListPlatformSecretRefs(c) \/ GetPlatformSecretRef(c) \/ GetCurrentAuthSession(c)
           \/ HandleFoundationRequest(c)
           \/ UpdatePlatformUserStatus(c) \/ RevokeUserAuthSession(c) \/ UnlinkUserExternalIdentity(c)
           \/ CreateOrganizationMember(c) \/ UpdateOrganizationMemberStatus(c) \/ RemoveOrganizationMember(c)
           \/ CreateProjectMember(c) \/ UpdateProjectMemberStatus(c) \/ CreateRoleBinding(c)
           \/ UpdateRoleBindingStatus(c) \/ RevokeOrganizationInvitation(c) \/ CreateOidcIdentityProvider(c)
           \/ OidcLoginCallback(c) \/ SingleUserLogin(c) \/ UpdateActiveOrganization(c)
           \/ UpdateActiveProject(c) \/ LogoutCurrentAuthSession(c) \/ AcceptAuthInvitation(c)
           \/ CreateOrganizationInvitation(c)
    PROVE  ShutStep(c)
<1> SUFFICES Quiet(c)
    BY QuietStep
<1> DEFINE counted == history' = [history EXCEPT !.requests = history.requests + 1]
           added == history' = [history EXCEPT !.requests = history.requests + 1, !.tokens = history.tokens + 1]
           called == db' = db /\ (counted \/ added) /\ \E route : Calling(c, route)
<1>a. called => Quiet(c)
    BY CallsQuiet
<1>b. \A actor, rows : Answers(c, actor, rows) => counted /\ db' = db
    BY DEF Answers
<1>c. \A held : Starts(c, held) => counted /\ db' = db
    BY DEF Starts
<1>d. ListAuthProviders(c) \/ PreviewAuthInvitation(c) => called
    BY DEF ListAuthProviders, PreviewAuthInvitation
<1>e. CreateOrganizationInvitation(c) => called
    BY DEF CreateOrganizationInvitation
<1> HIDE DEF counted, added
<1>1. ListPlatformAuditEvents(c) => called
    BY <1>b DEF ListPlatformAuditEvents
<1>2. ListPlatformUsers(c) => called
    BY <1>b DEF ListPlatformUsers
<1>3. GetPlatformUser(c) => called
    BY <1>b DEF GetPlatformUser
<1>4. ListUserAuthSessions(c) => called
    BY <1>b DEF ListUserAuthSessions
<1>5. ListUserExternalIdentities(c) => called
    BY <1>b DEF ListUserExternalIdentities
<1>6. GetUserExternalIdentity(c) => called
    BY <1>b DEF GetUserExternalIdentity
<1>7. ListOrganizationMembers(c) => called
    BY <1>b DEF ListOrganizationMembers
<1>8. GetOrganizationMember(c) => called
    BY <1>b DEF GetOrganizationMember
<1>9. ListProjectMembers(c) => called
    BY <1>b DEF ListProjectMembers
<1>10. GetProjectMember(c) => called
    BY <1>b DEF GetProjectMember
<1>11. ListRoleBindings(c) => called
    BY <1>b DEF ListRoleBindings
<1>12. GetRoleBinding(c) => called
    BY <1>b DEF GetRoleBinding
<1>13. ListOrganizationInvitations(c) => called
    BY <1>b DEF ListOrganizationInvitations
<1>14. GetOrganizationInvitation(c) => called
    BY <1>b DEF GetOrganizationInvitation
<1>15. ListOidcIdentityProviders(c) => called
    BY <1>b DEF ListOidcIdentityProviders
<1>16. GetOidcIdentityProvider(c) => called
    BY <1>b DEF GetOidcIdentityProvider
<1>17. ListPlatformSecretRefs(c) => called
    BY <1>b DEF ListPlatformSecretRefs
<1>18. GetPlatformSecretRef(c) => called
    BY <1>b DEF GetPlatformSecretRef
<1>19. GetCurrentAuthSession(c) => called
    BY <1>b DEF GetCurrentAuthSession
<1>20. HandleFoundationRequest(c) => called
    BY <1>b DEF HandleFoundationRequest
<1>21. UpdatePlatformUserStatus(c) => called
    BY <1>c DEF UpdatePlatformUserStatus
<1>22. RevokeUserAuthSession(c) => called
    BY <1>c DEF RevokeUserAuthSession
<1>23. UnlinkUserExternalIdentity(c) => called
    BY <1>c DEF UnlinkUserExternalIdentity
<1>24. CreateOrganizationMember(c) => called
    BY <1>c DEF CreateOrganizationMember
<1>25. UpdateOrganizationMemberStatus(c) => called
    BY <1>c DEF UpdateOrganizationMemberStatus
<1>26. RemoveOrganizationMember(c) => called
    BY <1>c DEF RemoveOrganizationMember
<1>27. CreateProjectMember(c) => called
    BY <1>c DEF CreateProjectMember
<1>28. UpdateProjectMemberStatus(c) => called
    BY <1>c DEF UpdateProjectMemberStatus
<1>29. CreateRoleBinding(c) => called
    BY <1>c DEF CreateRoleBinding
<1>30. UpdateRoleBindingStatus(c) => called
    BY <1>c DEF UpdateRoleBindingStatus
<1>31. RevokeOrganizationInvitation(c) => called
    BY <1>c DEF RevokeOrganizationInvitation
<1>32. CreateOidcIdentityProvider(c) => called
    BY <1>c DEF CreateOidcIdentityProvider
<1>33. OidcLoginCallback(c) => called
    BY <1>c DEF OidcLoginCallback
<1>34. SingleUserLogin(c) => called
    BY <1>c DEF SingleUserLogin
<1>35. UpdateActiveOrganization(c) => called
    BY <1>c DEF UpdateActiveOrganization
<1>36. UpdateActiveProject(c) => called
    BY <1>c DEF UpdateActiveProject
<1>37. LogoutCurrentAuthSession(c) => called
    BY <1>c DEF LogoutCurrentAuthSession
<1>38. AcceptAuthInvitation(c) => called
    BY <1>c DEF AcceptAuthInvitation
<1> HIDE DEF called
<1> QED
    BY <1>a, <1>d, <1>e, <1>1, <1>2, <1>3, <1>4, <1>5, <1>6, <1>7, <1>8, <1>9, <1>10, <1>11, <1>12, <1>13,
       <1>14, <1>15, <1>16, <1>17, <1>18, <1>19, <1>20, <1>21, <1>22, <1>23, <1>24,
       <1>25, <1>26, <1>27, <1>28, <1>29, <1>30, <1>31, <1>32, <1>33, <1>34, <1>35,
       <1>36, <1>37, <1>38

\* One row of one table is written.
LEMMA PutRow ==
    ASSUME Base, NEW k \in DOMAIN Seed, NEW i, NEW row, db' = Put(k, i, row)
    PROVE  /\ \A j \in DOMAIN Seed : j # k => db'[j] = db[j]
           /\ \A n \in DOMAIN Seed[k] : db'[k][n] = IF n = i THEN row ELSE db[k][n]
<1>1. DOMAIN db = DOMAIN Seed /\ DOMAIN db[k] = DOMAIN Seed[k]
    BY DEF Base, DbShape
<1>2. db'[k] = [db[k] EXCEPT ![i] = row] /\ \A j \in DOMAIN Seed : j # k => db'[j] = db[j]
    BY <1>1 DEF Put
<1> QED
    BY <1>1, <1>2

LEMMA ShutTablesExist == ShutTables \subseteq DOMAIN Seed
BY TablesExist DEF ShutTables

\* A write to another table.
LEMMA WritesQuiet ==
    ASSUME Base, NEW c, NEW k \in DOMAIN Seed \ ShutTables, NEW i, NEW row,
           db' = Put(k, i, row), op[c].pc \notin ShutPcs,
           history'.late = history.late /\ history'.partial = history.partial
    PROVE  Quiet(c)
<1>1. \A j \in DOMAIN Seed : j # k => db'[j] = db[j]
    BY PutRow
<1> QED
    BY <1>1, ShutTablesExist DEF Quiet

LEMMA OthersShutStep ==
    ASSUME Base, NEW c \in Clients,
           \/ RecordPlatformAuditEvent(c) \/ Unlink(c) \/ StoreOidcIdentityProvider(c)
           \/ CreatePlatformSecretRef(c) \/ StoreSecretRef(c) \/ InsertInvitation(c)
           \/ RevokeInvitation(c) \/ StartOidcLogin(c) \/ ExchangeOidcAuthorizationCode(c)
           \/ EnsureCanLogin(c) \/ CompleteReadUser(c) \/ CompleteUpsertIdentity(c)
           \/ CompleteConsumeAttempt(c) \/ CompleteConsumeSql(c) \/ AcceptInvitation(c)
           \/ SelectInvitation(c)
    PROVE  ShutStep(c)
<1> SUFFICES Quiet(c)
    BY QuietStep
<1> DEFINE heard == history'.late = history.late /\ history'.partial = history.partial
           free == op[c].pc \notin ShutPcs
           elsewhere(k, i, row) == db' = Put(k, i, row)
<1>a. free /\ heard /\ db' = db => Quiet(c)
    BY DEF Quiet
<1>b. {"attempt", "identity", "provider", "secret", "invitation"} \subseteq DOMAIN Seed \ ShutTables
    BY TablesExist DEF ShutTables
<1>c. ASSUME NEW k \in {"attempt", "identity", "provider", "secret", "invitation"}, NEW i, NEW row,
             free, heard, elsewhere(k, i, row)
      PROVE  Quiet(c)
    BY <1>b, <1>c, WritesQuiet
<1>d. history' = history => heard
    OBVIOUS
<1>e. \A n : history' = [history EXCEPT !.requests = n] => heard
    BY CountedQuiet
<1>f. Fails(c) => heard /\ db' = db
    BY DEF Fails
<1>g. \A tables, next : Writes(c, tables, next) => db' = tables
    BY DEF Writes
<1>h. \A k, i, row : db' = Put(k, i, row) => elsewhere(k, i, row)
    OBVIOUS
<1>i. \A n : history' = Admits(n) => heard
    BY CountedQuiet
<1>1. RecordPlatformAuditEvent(c) => free /\ heard /\ db' = db
    BY CountedQuiet DEF RecordPlatformAuditEvent, At, ShutPcs
<1> HIDE DEF heard, elsewhere
<1>2. Unlink(c) => free /\ heard /\ (db' = db \/ \E i, row : elsewhere("identity", i, row))
    BY <1>d, <1>f, <1>g, <1>h DEF Unlink, At, ShutPcs
<1>3. StoreOidcIdentityProvider(c) => free /\ heard /\ \E i, row : elsewhere("provider", i, row)
    BY <1>d, <1>g, <1>h DEF StoreOidcIdentityProvider, At, ShutPcs, UpsertOidcLoginProvider
<1>4. CreatePlatformSecretRef(c) => free /\ heard /\ (db' = db \/ \E i, row : elsewhere("secret", i, row))
    BY <1>e, <1>g, <1>h DEF CreatePlatformSecretRef, Calling, ShutPcs, UpsertSecretRef, Starts
<1>5. StoreSecretRef(c) => free /\ heard /\ (db' = db \/ \E i, row : elsewhere("secret", i, row))
    BY <1>d, <1>g, <1>h DEF StoreSecretRef, At, ShutPcs, UpsertSecretRef
<1>6. InsertInvitation(c) => free /\ heard /\ (db' = db \/ \E i, row : elsewhere("invitation", i, row))
    BY <1>d, <1>f, <1>g, <1>h DEF InsertInvitation, At, ShutPcs
<1>7. RevokeInvitation(c) => free /\ heard /\ (db' = db \/ \E i, row : elsewhere("invitation", i, row))
    BY <1>d, <1>f, <1>g, <1>h DEF RevokeInvitation, At, ShutPcs
<1>8. StartOidcLogin(c) => free /\ heard /\ \E i, row : elsewhere("attempt", i, row)
    BY <1>e, <1>g, <1>h DEF StartOidcLogin, Calling, ShutPcs, RecordOidcLoginAttempt
<1>9. ExchangeOidcAuthorizationCode(c) => free /\ heard /\ db' = db
    BY <1>d, <1>f DEF ExchangeOidcAuthorizationCode, At, ShutPcs
<1>10. EnsureCanLogin(c) => free /\ heard /\ db' = db
    BY <1>d, <1>f DEF EnsureCanLogin, At, ShutPcs
<1>11. CompleteReadUser(c) => free /\ heard /\ db' = db
    BY <1>d DEF CompleteReadUser, At, ShutPcs
<1>12. CompleteUpsertIdentity(c) => free /\ heard /\ (db' = db \/ \E i, row : elsewhere("identity", i, row))
    BY <1>d, <1>f, <1>g, <1>h DEF CompleteUpsertIdentity, At, ShutPcs
<1>13. CompleteConsumeAttempt(c) => free /\ heard /\ (db' = db \/ \E i, row : elsewhere("attempt", i, row))
    BY <1>d, <1>f, <1>g, <1>h DEF CompleteConsumeAttempt, At, ShutPcs
<1>14. CompleteConsumeSql(c) => free /\ heard /\ db' = db
    BY <1>d, <1>f DEF CompleteConsumeSql, At, ShutPcs
<1>15. AcceptInvitation(c) => free /\ heard /\ (db' = db \/ \E i, row : elsewhere("invitation", i, row))
    BY <1>i, <1>f, <1>g, <1>h DEF AcceptInvitation, At, ShutPcs
<1>16. SelectInvitation(c) => free /\ heard /\ db' = db
    BY <1>d, <1>f DEF SelectInvitation, At, ShutPcs
<1> HIDE DEF free
<1> QED
    BY <1>a, <1>c, <1>1, <1>2, <1>3, <1>4, <1>5, <1>6, <1>7, <1>8, <1>9, <1>10, <1>11, <1>12,
       <1>13, <1>14, <1>15, <1>16

\* A step that writes one of the tables alone.
OnlyTable(k) == \A j \in ShutTables : j # k => db'[j] = db[j]

LEMMA PutOnly ==
    ASSUME Base, NEW k \in ShutTables, NEW i, NEW row, db' = Put(k, i, row)
    PROVE  /\ OnlyTable(k)
           /\ \A n \in DOMAIN Seed[k] : db'[k][n] = IF n = i THEN row ELSE db[k][n]
BY PutRow, ShutTablesExist DEF OnlyTable

\* A membership of a project, or a role, is written, and late if its principal is
\* shut out.
LEMMA LateStep ==
    ASSUME Base, NEW c \in Clients, NEW k \in {"project_member", "binding"}, NEW i, NEW row,
           db' = Put(k, i, row), history' = Late(k, i, row), op[c].pc \notin ShutPcs
    PROVE  ShutStep(c)
<1>1. k \in ShutTables
    BY DEF ShutTables
<1>2. /\ OnlyTable(k)
      /\ \A n \in DOMAIN Seed[k] : db'[k][n] = IF n = i THEN row ELSE db[k][n]
    BY <1>1, PutOnly
<1>3. /\ history'.late = LateAfter(db', {<<k, i>>}) /\ history'.partial = history.partial
    BY DEF Late, Base, HistoryFields
<1>4. /\ \A j, n : j # k \/ n # i => (<<j, n>> \in history'.late) = (<<j, n>> \in history.late)
      /\ db'[k][i].status = "active" /\ ShutOut(db', db'[k][i]) => <<k, i>> \in history'.late
  <2> DEFINE w == <<k, i>>
  <2>1. w[1] = k /\ w[2] = i
      OBVIOUS
  <2>2. \A v : v # w => (v \in history'.late) = (v \in history.late)
      BY <1>3 DEF LateAfter
  <2>3. db'[k][i].status = "active" /\ ShutOut(db', db'[k][i]) => w \in history'.late
      BY <1>3, <2>1 DEF LateAfter
  <2> QED
      BY <2>2, <2>3
<1>5. RowsKept(k)
    BY <1>2, <1>4 DEF RowsKept, OfMember
<1>6. \A j \in {"project_member", "binding"} : j # k => RowsKept(j)
    BY <1>2, <1>4, RowsStay DEF OnlyTable, LateSame, ShutTables
<1>7. SessionsKept
    BY <1>2, <1>4, SessionsStay DEF OnlyTable, LateSame, ShutTables
<1>8. UsersKept(c) /\ MembersKept(c)
    BY <1>2, UsersStay, MembersStay DEF OnlyTable, ShutTables
<1> QED
    BY <1>3, <1>5, <1>6, <1>7, <1>8 DEF ShutStep

\* A membership of an organization becomes active.
LEMMA ActiveMemberStep ==
    ASSUME Base, NEW c \in Clients, NEW i, NEW row, db' = Put("org_member", i, row),
           row.status = "active", history' = history, op[c].pc \notin ShutPcs
    PROVE  ShutStep(c)
<1>1. /\ OnlyTable("org_member")
      /\ \A n \in DOMAIN Seed["org_member"] :
           db'["org_member"][n] = IF n = i THEN row ELSE db["org_member"][n]
    BY PutOnly DEF ShutTables
<1>2. \A k : LateSame(k)
    BY DEF LateSame
<1>3. SessionsKept /\ RowsKept("project_member") /\ RowsKept("binding")
    BY <1>1, <1>2, SessionsStay, RowsStay DEF OnlyTable, ShutTables
<1>4. UsersKept(c) /\ MembersKept(c)
    BY <1>1, UsersStay, MembersStay DEF OnlyTable, ShutTables
<1> QED
    BY <1>3, <1>4 DEF ShutStep

\* A session is written: one that ends, one that stays of its user, or one that is late
\* if the user may not come in.
LEMMA SessionStep ==
    ASSUME Base, NEW c \in Clients, NEW i, NEW row, db' = Put("session", i, row),
           history' = history, op[c].pc \notin ShutPcs,
           i \in DOMAIN Seed["session"] /\ row.status = "active" =>
             /\ Row("session", i).status = "active"
             /\ row.tenant = Row("session", i).tenant /\ row.principal = Row("session", i).principal
    PROVE  ShutStep(c)
<1>1. /\ OnlyTable("session")
      /\ \A n \in DOMAIN Seed["session"] :
           db'["session"][n] = IF n = i THEN row ELSE db["session"][n]
    BY PutOnly DEF ShutTables
<1>2. \A k : LateSame(k)
    BY DEF LateSame
<1>3. SessionsKept
    BY <1>1 DEF SessionsKept, Row
<1>4. RowsKept("project_member") /\ RowsKept("binding")
    BY <1>1, <1>2, RowsStay DEF OnlyTable, ShutTables
<1>5. UsersKept(c) /\ MembersKept(c)
    BY <1>1, UsersStay, MembersStay DEF OnlyTable, ShutTables
<1> QED
    BY <1>3, <1>4, <1>5 DEF ShutStep

LEMMA FailsShut ==
    ASSUME NEW c, Fails(c), op[c].pc \notin ShutPcs
    PROVE  ShutStep(c)
BY QuietStep DEF Fails, Quiet

\* Memberships of organizations are made active.
LEMMA MembersShutStep ==
    ASSUME Base, NEW c \in Clients,
           \/ StoreOrganizationMember(c) \/ UpsertInvitedOrganizationMember(c)
           \/ CompleteRecordOrganizationMember(c)
    PROVE  ShutStep(c)
<1>a. Ready(op[c]) /\ DbShape /\ TypeOK
    BY DEF Base
<1>1. CASE StoreOrganizationMember(c)
  <2>1. /\ op[c].pc = "upsert_org_member"
        /\ Written("org_member", op[c].row) /\ op[c].row.status = "active"
      BY <1>1, <1>a DEF StoreOrganizationMember, At, Ready
  <2>2. CASE Fails(c)
      BY <2>1, <2>2, FailsShut DEF ShutPcs
  <2>3. ASSUME NEW new \in UpsertOrganizationMember(op[c].id, op[c].row), UNCHANGED history,
               Writes(c, Put("org_member", new[1], new[2]), NoOp)
        PROVE  ShutStep(c)
    <3>1. new[2].status = "active"
        BY <1>a, <2>1, OrganizationMemberUpserts
    <3> QED
        BY <2>1, <2>3, <3>1, ActiveMemberStep DEF Writes, ShutPcs
  <2> QED
      BY <1>1, <2>2, <2>3 DEF StoreOrganizationMember
<1>2. CASE UpsertInvitedOrganizationMember(c)
  <2> DEFINE new == InvitedOrganizationMember(op[c].row)
  <2>1. PICK x \in UpsertOrganizationMemberMemory(NewId("org_member"), new) :
          db' = Put("org_member", x[1], x[2])
      BY <1>2 DEF UpsertInvitedOrganizationMember, Writes
  <2>2. Written("org_member", new) /\ new.status = "active"
      BY StatusLists DEF InvitedOrganizationMember, OrganizationMembershipRecord, Written, WellFormed,
                         MembershipStatus
  <2> HIDE DEF new
  <2>3. x[2].status = "active"
      BY <1>a, <2>2, OrganizationMemberUpserts
  <2> QED
      BY <1>2, <2>1, <2>3, ActiveMemberStep DEF UpsertInvitedOrganizationMember, At, ShutPcs
<1>3. CASE CompleteRecordOrganizationMember(c)
  <2>1. NewOrganizationMember(Completion(c)).status = "active"
      BY DEF NewOrganizationMember, OrganizationMembershipRecord
  <2> QED
      BY <1>3, <2>1, ActiveMemberStep DEF CompleteRecordOrganizationMember, Writes, At, ShutPcs
<1> QED
    BY <1>1, <1>2, <1>3

\* Memberships of projects, and roles, are written.
LEMMA RowsShutStep ==
    ASSUME Base, NEW c \in Clients,
           \/ StoreProjectMember(c) \/ SetProjectMember(c) \/ UpsertInvitedProjectMember(c)
           \/ CompleteRecordProjectMember(c) \/ StoreRoleBinding(c) \/ SetRoleBinding(c)
           \/ CompleteRecordRoleBinding(c)
    PROVE  ShutStep(c)
<1>1. op[c].pc \notin ShutPcs
    BY DEF StoreProjectMember, SetProjectMember, UpsertInvitedProjectMember, CompleteRecordProjectMember,
           StoreRoleBinding, SetRoleBinding, CompleteRecordRoleBinding, At, ShutPcs
<1> DEFINE late(k, i, row) == db' = Put(k, i, row) /\ history' = Late(k, i, row)
<1>2. CASE Fails(c)
    BY <1>1, <1>2, FailsShut
<1>3. ASSUME NEW k \in {"project_member", "binding"}, NEW i, NEW row, late(k, i, row)
      PROVE  ShutStep(c)
    BY <1>1, <1>3, LateStep
<1>4. Fails(c) \/ \E k \in {"project_member", "binding"} : \E i, row : late(k, i, row)
  <2>1. StoreProjectMember(c) => Fails(c) \/ \E i, row : late("project_member", i, row)
      BY DEF StoreProjectMember, Writes
  <2>2. SetProjectMember(c) => Fails(c) \/ \E i, row : late("project_member", i, row)
      BY DEF SetProjectMember, Writes
  <2>3. UpsertInvitedProjectMember(c) => \E i, row : late("project_member", i, row)
      BY DEF UpsertInvitedProjectMember, Writes
  <2>4. CompleteRecordProjectMember(c) => \E i, row : late("project_member", i, row)
      BY DEF CompleteRecordProjectMember, Writes
  <2>5. StoreRoleBinding(c) => \E i, row : late("binding", i, row)
      BY DEF StoreRoleBinding, Writes
  <2>6. SetRoleBinding(c) => Fails(c) \/ \E i, row : late("binding", i, row)
      BY DEF SetRoleBinding, Writes
  <2>7. CompleteRecordRoleBinding(c) => \E i, row : late("binding", i, row)
      BY DEF CompleteRecordRoleBinding, Writes
  <2> HIDE DEF late
  <2> QED
      BY <2>1, <2>2, <2>3, <2>4, <2>5, <2>6, <2>7
<1> QED
    BY <1>2, <1>3, <1>4

\* Sessions end, or are used for another project.
LEMMA SessionsShutStep ==
    ASSUME Base, NEW c \in Clients,
           \/ RevokeSession(c) \/ UpdateContext(c) \/ Logout(c)
    PROVE  ShutStep(c)
<1>1. op[c].pc \notin ShutPcs
    BY DEF RevokeSession, UpdateContext, Logout, At, ShutPcs
<1>2. CASE Fails(c)
    BY <1>1, <1>2, FailsShut
<1>3. \A i \in DOMAIN Seed["session"] : "status" \in DOMAIN Row("session", i)
    BY TablesExist, StatusLists DEF Base, DbShape, TypeOK, WellFormed
<1>4. ASSUME NEW i, NEW row, db' = Put("session", i, row), history' = history,
             \/ row = [Row("session", i) EXCEPT !.status = "revoked"]
             \/ /\ Row("session", i).status = "active"
                /\ \E org, project : row = [Row("session", i) EXCEPT !.org = org, !.project = project]
      PROVE  ShutStep(c)
  <2>1. CASE row = [Row("session", i) EXCEPT !.status = "revoked"]
    <3>1. i \in DOMAIN Seed["session"] => row.status # "active"
        BY <1>3, <2>1
    <3> QED
        BY <1>1, <1>4, <3>1, SessionStep
  <2>2. ASSUME Row("session", i).status = "active", NEW org, NEW project,
               row = [Row("session", i) EXCEPT !.org = org, !.project = project]
        PROVE  ShutStep(c)
    <3>1. row.tenant = Row("session", i).tenant /\ row.principal = Row("session", i).principal
        BY <2>2
    <3> QED
        BY <1>1, <1>4, <2>2, <3>1, SessionStep
  <2> QED
      BY <1>4, <2>1, <2>2
<1>5. CASE RevokeSession(c)
    BY <1>2, <1>4, <1>5
       DEF RevokeSession, RevokeAuthSessionById, RevokeAuthSessionByIdSql, RevokeAuthSessionByIdMemory,
           Provided, Writes
<1>6. CASE UpdateContext(c)
    BY <1>2, <1>4, <1>6
       DEF UpdateContext, UpdateAuthSessionContext, UpdateAuthSessionContextByTokenSql,
           UpdateAuthSessionContextByBearer, Provided, ActiveSessionRecord, Writes
<1>7. CASE Logout(c)
    BY <1>2, <1>4, <1>7
       DEF Logout, RevokeAuthSession, RevokeAuthSessionByTokenSql, RevokeAuthSessionByBearer,
           AuthSessionForBearer, Where, Writes
<1> QED
    BY <1>5, <1>6, <1>7

\* Rows of a table are taken from their principals.
LEMMA TakesKept ==
    ASSUME Base, NEW k \in {"session", "project_member", "binding"}, NEW table,
           db' = [db EXCEPT ![k] = table], history' = history,
           \A i \in DOMAIN Seed[k] : table[i] = db[k][i] \/ table[i].status # "active"
    PROVE  /\ OnlyTable(k) /\ db'[k] = table
           /\ SessionsKept /\ RowsKept("project_member") /\ RowsKept("binding")
<1>1. k \in DOMAIN db
    BY TablesExist DEF Base, DbShape
<1>2. OnlyTable(k) /\ db'[k] = table
    BY <1>1, ShutTablesExist DEF OnlyTable, Base, DbShape
<1>3. \A j : LateSame(j)
    BY DEF LateSame
<1>4. SessionsKept
  <2>1. CASE k = "session"
      BY <1>2, <2>1 DEF SessionsKept
  <2>2. CASE k # "session"
      BY <1>2, <1>3, <2>2, SessionsStay DEF OnlyTable, ShutTables
  <2> QED
      BY <2>1, <2>2
<1>5. ASSUME NEW j \in {"project_member", "binding"} PROVE RowsKept(j)
  <2>1. CASE j = k
      BY <1>2, <2>1 DEF RowsKept, OfMember
  <2>2. CASE j # k
      BY <1>2, <1>3, <2>2, RowsStay DEF OnlyTable, ShutTables
  <2> QED
      BY <2>1, <2>2
<1> QED
    BY <1>2, <1>4, <1>5

\* The sessions of a user who is shut out end.
LEMMA DisableShutStep ==
    ASSUME Base, NEW c \in Clients, DisableAuthSessions(c)
    PROVE  ShutStep(c)
<1> DEFINE t == op[c].tenant
           u == op[c].id
           theirs == {i \in Ids("session") : /\ Row("session", i).tenant = t
                                             /\ Row("session", i).principal = u
                                             /\ Row("session", i).status = "active"}
           table == [i \in DOMAIN db["session"] |->
                       IF i \in theirs THEN [db["session"][i] EXCEPT !.status = "principal_disabled"]
                       ELSE db["session"][i]]
<1>1. db' = [db EXCEPT !["session"] = table] /\ history' = history /\ op[c].pc = "disable_sessions"
    BY TablesExist
       DEF DisableAuthSessions, DisableAuthSessionsForPrincipal, DisableAuthSessionsForPrincipalSql,
           DisableAuthSessionsMemory, PutAll, Where, Writes, At, Base, DbShape
<1>2. DOMAIN db["session"] = DOMAIN Seed["session"]
    BY TablesExist DEF Base, DbShape
<1>3. \A i \in DOMAIN Seed["session"] : "status" \in DOMAIN db["session"][i]
    BY <1>2, StatusLists DEF Base, TypeOK, WellFormed, Row
<1>4. \A i \in DOMAIN Seed["session"] :
        /\ table[i] = db["session"][i] \/ table[i].status # "active"
        /\ table[i].status = "active" => table[i] = db["session"][i] /\ i \notin theirs
    BY <1>2, <1>3
<1> HIDE DEF table
<1>5. /\ OnlyTable("session") /\ db'["session"] = table
      /\ SessionsKept /\ RowsKept("project_member") /\ RowsKept("binding")
    BY <1>1, <1>4, TakesKept
<1>6. db'["user"] = db["user"] /\ db'["org_member"] = db["org_member"]
    BY <1>5 DEF OnlyTable, ShutTables
<1>7. ASSUME NEW v \in DOMAIN Seed["user"], Disables(c, v) PROVE SessionsGone(v)'
  <2> SUFFICES ASSUME NEW s \in Ids("session")', db'["session"][s].status = "active",
                      db'["session"][s].tenant = db'["user"][v].tenant, db'["session"][s].principal = v
               PROVE  FALSE
      BY DEF SessionsGone, Row
  <2>1. s \in DOMAIN Seed["session"]
      BY <1>2, <1>5 DEF Ids, table
  <2>2. v = u /\ t = db["user"][v].tenant
      BY <1>7 DEF Disables, Row
  <2>3. db'["session"][s] = db["session"][s] /\ s \notin theirs
      BY <1>4, <1>5, <2>1
  <2> QED
      BY <1>2, <1>6, <2>1, <2>2, <2>3 DEF Ids, Row
<1>8. UsersKept(c)
    BY <1>6, <1>7 DEF UsersKept
<1>9. MembersKept(c)
    BY <1>1, <1>6 DEF MembersKept, Cascades, Deletes, OfMember
<1> QED
    BY <1>1, <1>5, <1>8, <1>9 DEF ShutStep

\* The memberships of projects follow that of the organization.
LEMMA CascadeShutStep ==
    ASSUME Base, NEW c \in Clients, Cascade(c)
    PROVE  ShutStep(c)
<1> DEFINE member == op[c].member
           theirs == {i \in Ids("project_member") :
                        /\ Row("project_member", i).tenant = member.tenant
                        /\ Row("project_member", i).org = member.org
                        /\ Row("project_member", i).principal = member.principal
                        /\ CascadeTakes(Row("project_member", i), member.status)}
           next == IF member.status = "removed"
                   THEN [pc |-> "delete_org_bindings", id |-> op[c].id, member |-> member] ELSE NoOp
           table == [i \in DOMAIN db["project_member"] |->
                       IF i \in theirs THEN Bumped(db["project_member"][i], member.status)
                       ELSE db["project_member"][i]]
<1>1. /\ Writes(c, [db EXCEPT !["project_member"] = table], next) /\ history' = history
      /\ op[c].pc = "cascade"
    BY TablesExist
       DEF Cascade, CascadeProjectMemberships, CascadeProjectMembersSql, CascadeMemory, PutAll, Where,
           Base, DbShape, At
<1>2. db' = [db EXCEPT !["project_member"] = table] /\ op'[c] = next
    BY <1>1 DEF Writes, Base
<1>3. DOMAIN db["project_member"] = DOMAIN Seed["project_member"]
    BY TablesExist DEF Base, DbShape
<1>4. ASSUME NEW i \in DOMAIN Seed["project_member"]
      PROVE  /\ table[i] = db["project_member"][i] \/ table[i].status # "active"
             /\ table[i].status = "active" => table[i] = db["project_member"][i] /\ i \notin theirs
  <2>1. ASSUME i \in theirs PROVE Bumped(db["project_member"][i], member.status).status # "active"
    <3>1. "status" \in DOMAIN db["project_member"][i]
        BY <1>3, StatusLists DEF Base, TypeOK, WellFormed, Row
    <3>2. Bumped(db["project_member"][i], member.status).status = member.status
        BY <3>1 DEF Bumped
    <3>3. member.status \in {"suspended", "removed"}
        BY <2>1 DEF CascadeTakes
    <3> QED
        BY <3>2, <3>3
  <2> QED
      BY <1>3, <2>1
<1> HIDE DEF table
<1>5. /\ OnlyTable("project_member") /\ db'["project_member"] = table
      /\ SessionsKept /\ RowsKept("project_member") /\ RowsKept("binding")
    BY <1>1, <1>2, <1>4, TakesKept
<1>6. db'["user"] = db["user"] /\ db'["org_member"] = db["org_member"]
    BY <1>5 DEF OnlyTable, ShutTables
<1>7. ASSUME NEW m \in DOMAIN Seed["org_member"], Cascades(c, m) PROVE Gone("project_member", m)'
  <2> SUFFICES ASSUME NEW i \in Ids("project_member")', db'["project_member"][i].status = "active",
                      OfMember(db'["project_member"][i], db'["org_member"][m])
               PROVE  FALSE
      BY DEF Gone, Row
  <2>1. i \in DOMAIN Seed["project_member"]
      BY <1>3, <1>5 DEF Ids, table
  <2>2. db'["project_member"][i] = db["project_member"][i] /\ i \notin theirs
      BY <1>4, <1>5, <2>1
  <2>3. /\ member.status \in {"suspended", "removed"}
        /\ OfMember(db["project_member"][i], member)
      BY <1>6, <1>7, <2>2 DEF Cascades, OfMember, Row
  <2> QED
      BY <1>3, <2>1, <2>2, <2>3 DEF Ids, Row, OfMember, CascadeTakes
<1>8. ASSUME NEW m, Deletes(c, m) PROVE Deletes(c, m)'
    BY <1>2, <1>6, <1>8 DEF Deletes, OfMember, Row
<1>9. MembersKept(c)
    BY <1>6, <1>7, <1>8 DEF MembersKept, OfMember
<1>10. UsersKept(c)
    BY <1>1, <1>6 DEF UsersKept, Disables
<1> QED
    BY <1>1, <1>5, <1>9, <1>10 DEF ShutStep

\* The roles of one who is removed from an organization, or a project, are deleted.
LEMMA DeletesShutStep ==
    ASSUME Base, NEW c \in Clients, DeleteOrganizationBindings(c) \/ DeleteProjectBindings(c)
    PROVE  ShutStep(c)
<1> DEFINE member == op[c].member
           result(S) == [db EXCEPT !["binding"] =
                           [i \in DOMAIN db["binding"] |->
                              IF i \in S THEN Bumped(db["binding"][i], "deleted") ELSE db["binding"][i]]]
           s1 == {b \in ActiveRoleBindingsMemory(member.tenant, member.principal) :
                    Row("binding", b).org = member.org}
           s2 == {b \in ListRoleBindingsSql(member.tenant) :
                    Row("binding", b).org = member.org /\ Row("binding", b).principal = member.principal}
           s3 == {b \in ActiveRoleBindingsMemory(member.tenant, member.principal) :
                    Row("binding", b).project = member.project}
           s4 == {b \in ListRoleBindingsSql(member.tenant) :
                    Row("binding", b).project = member.project
                    /\ Row("binding", b).principal = member.principal}
<1>1. "binding" \in DOMAIN db /\ DOMAIN db["binding"] = DOMAIN Seed["binding"]
    BY TablesExist DEF Base, DbShape
<1>2. \A i \in Ids("binding") :
        db["binding"][i].status = "active" /\ OfMember(db["binding"][i], member) => i \in s1 /\ i \in s2
    BY DEF ActiveRoleBindingsMemory, ListRoleBindingsSql, Where, OfMember, Row
<1>3. PICK S : /\ db' = result(S)
               /\ op[c].pc = "delete_org_bindings" =>
                    \A i \in Ids("binding") :
                      db["binding"][i].status = "active" /\ OfMember(db["binding"][i], member) => i \in S
  <2>1. CASE DeleteOrganizationBindings(c)
    <3>1. db' = result(s1) \/ db' = result(s2)
        BY <1>1, <2>1
           DEF DeleteOrganizationBindings, DeleteRoleBindingsForOrganizationPrincipal, PutAll, Writes,
               DeleteOrganizationBindingsMemory, DeleteRoleBindingsForOrganizationPrincipalSql
    <3> HIDE DEF s1, s2, result
    <3> QED
        BY <1>2, <3>1
  <2>2. CASE DeleteProjectBindings(c)
    <3>1. db' = result(s3) \/ db' = result(s4)
        BY <1>1, <2>2
           DEF DeleteProjectBindings, DeleteRoleBindingsForProjectPrincipal, PutAll, Writes,
               DeleteProjectBindingsMemory, DeleteRoleBindingsForProjectPrincipalSql
    <3>2. op[c].pc # "delete_org_bindings"
        BY <2>2 DEF DeleteProjectBindings, At
    <3> HIDE DEF s3, s4, result
    <3> QED
        BY <3>1, <3>2
  <2> QED
      BY <2>1, <2>2
<1>4. history' = history /\ op[c].pc \in {"delete_org_bindings", "delete_project_bindings"}
    BY DEF DeleteOrganizationBindings, DeleteProjectBindings, At
<1> DEFINE table == [i \in DOMAIN db["binding"] |->
                       IF i \in S THEN Bumped(db["binding"][i], "deleted") ELSE db["binding"][i]]
<1>5. ASSUME NEW i \in DOMAIN Seed["binding"]
      PROVE  /\ table[i] = db["binding"][i] \/ table[i].status # "active"
             /\ table[i].status = "active" => table[i] = db["binding"][i] /\ i \notin S
  <2>1. "status" \in DOMAIN db["binding"][i]
      BY <1>1, StatusLists DEF Base, TypeOK, WellFormed, Row
  <2>2. Bumped(db["binding"][i], "deleted").status = "deleted"
      BY <2>1 DEF Bumped
  <2> QED
      BY <1>1, <2>2
<1>a. db' = [db EXCEPT !["binding"] = table]
    BY <1>3
<1> HIDE DEF table, s1, s2, s3, s4, result
<1>6. /\ OnlyTable("binding") /\ db'["binding"] = table
      /\ SessionsKept /\ RowsKept("project_member") /\ RowsKept("binding")
    BY <1>4, <1>5, <1>a, TakesKept
<1>7. db'["user"] = db["user"] /\ db'["org_member"] = db["org_member"]
    BY <1>6 DEF OnlyTable, ShutTables
<1>8. ASSUME NEW m \in DOMAIN Seed["org_member"], Deletes(c, m) PROVE Gone("binding", m)'
  <2> SUFFICES ASSUME NEW i \in Ids("binding")', db'["binding"][i].status = "active",
                      OfMember(db'["binding"][i], db'["org_member"][m])
               PROVE  FALSE
      BY DEF Gone, Row
  <2>1. i \in DOMAIN Seed["binding"]
      BY <1>1, <1>6 DEF Ids, table
  <2>2. db'["binding"][i] = db["binding"][i] /\ i \notin S
      BY <1>5, <1>6, <2>1
  <2>3. OfMember(db["binding"][i], member) /\ op[c].pc = "delete_org_bindings"
      BY <1>4, <1>7, <1>8, <2>2 DEF Deletes, OfMember, Row
  <2> QED
      BY <1>1, <1>3, <2>1, <2>2, <2>3 DEF Ids, Row
<1>9. MembersKept(c)
    BY <1>4, <1>7, <1>8 DEF MembersKept, OfMember, Cascades
<1>10. UsersKept(c)
    BY <1>4, <1>7 DEF UsersKept, Disables
<1> QED
    BY <1>4, <1>6, <1>9, <1>10 DEF ShutStep

\* A user's row is written, and what becomes of the sessions is due or late.
LEMMA UserStep ==
    ASSUME Base, NEW c \in Clients, NEW u, NEW row, db' = Put("user", u, row),
           op[c].pc \notin ShutPcs, history'.partial = history.partial,
           history.late \subseteq history'.late,
           LateSame("project_member"), LateSame("binding"),
           u \in DOMAIN Seed["user"] /\ row.status \notin {"absent", "active"} =>
             \/ SessionsGone(u)' \/ Disables(c, u)'
    PROVE  ShutStep(c)
<1>1. /\ OnlyTable("user")
      /\ \A n \in DOMAIN Seed["user"] : db'["user"][n] = IF n = u THEN row ELSE db["user"][n]
    BY PutOnly DEF ShutTables
<1>2. \A k \in ShutTables \ {"user"} : db'[k] = db[k]
    BY <1>1 DEF OnlyTable
<1>3. SessionsKept
    BY <1>2 DEF SessionsKept, ShutTables
<1>4. RowsKept("project_member") /\ RowsKept("binding") /\ MembersKept(c)
    BY <1>2, RowsStay, MembersStay DEF ShutTables
<1>5. UsersKept(c)
    BY <1>1 DEF UsersKept, Disables, ShutPcs
<1> QED
    BY <1>3, <1>4, <1>5 DEF ShutStep

\* update_platform_user_status: the sessions of one who is shut out are next.
LEMMA SetUserShutStep ==
    ASSUME Base, NEW c \in Clients, SetUserStatus(c)
    PROVE  ShutStep(c)
<1>a. PICK u : u = op[c].id
    OBVIOUS
<1> DEFINE next(row) == IF AcceptsAccess(row) THEN Audit(op[c].event)
                        ELSE [pc |-> "disable_sessions", id |-> u, tenant |-> row.tenant,
                              event |-> op[c].event]
<1>1. op[c].pc = "set_user_status"
    BY DEF SetUserStatus, At
<1>2. CASE Fails(c)
    BY <1>1, <1>2, FailsShut DEF ShutPcs
<1>3. ASSUME NEW row, Writes(c, Put("user", u, row), next(row)), history' = history
      PROVE  ShutStep(c)
  <2>1. db' = Put("user", u, row) /\ op'[c] = next(row)
      BY <1>3 DEF Writes, Base
  <2>2. ASSUME u \in DOMAIN Seed["user"], row.status \notin {"absent", "active"} PROVE Disables(c, u)'
    <3>1. db'["user"][u] = row
        BY <2>1, <2>2, PutOnly DEF ShutTables
    <3> QED
        BY <2>1, <2>2, <3>1 DEF Disables, AcceptsAccess, Row
  <2> HIDE DEF next
  <2> QED
      BY <1>1, <1>3, <2>1, <2>2, UserStep DEF ShutPcs, LateSame
<1> QED
    BY <1>a, <1>2, <1>3 DEF SetUserStatus

\* The login that writes a user back: if shut out, every session of theirs is late.
LEMMA RecordUserShutStep ==
    ASSUME Base, NEW c \in Clients, CompleteRecordUser(c)
    PROVE  ShutStep(c)
<1>a. PICK u : u = Completion(c).user
    OBVIOUS
<1> DEFINE row == IF op[c].user.status = "absent"
                  THEN [tenant |-> Completion(c).tenant, status |-> "active", version |-> 1]
                  ELSE [op[c].user EXCEPT !.version = @ + 1]
           theirs == {<<"session", s>> : s \in AuthSessionsForPrincipal(op[c].user.tenant, u)}
<1>1. /\ op[c].pc = "record_user"
      /\ u \in DOMAIN Seed["user"] => WellFormed("user", op[c].user)
    BY <1>a DEF CompleteRecordUser, At, Base, Ready, Completion
<1>2. db' = Put("user", u, row)
    BY <1>a DEF CompleteRecordUser, Writes
<1>3. IF op[c].user.status \notin {"disabled", "deleted"} THEN history' = history
      ELSE history' = [history EXCEPT !.late = @ \cup theirs]
    BY <1>a DEF CompleteRecordUser
<1>4. /\ history'.partial = history.partial /\ history.late \subseteq history'.late
      /\ op[c].user.status \in {"disabled", "deleted"} => theirs \subseteq history'.late
      /\ LateSame("project_member") /\ LateSame("binding")
    BY <1>3 DEF Base, HistoryFields, LateSame
<1>5. ASSUME u \in DOMAIN Seed["user"], row.status \notin {"absent", "active"} PROVE SessionsGone(u)'
  <2>1. /\ row.status = op[c].user.status /\ row.tenant = op[c].user.tenant
        /\ op[c].user.status \in {"disabled", "deleted"}
      BY <1>1, <1>5, StatusLists DEF WellFormed, UserStatus
  <2> HIDE DEF row
  <2>2. db'["user"][u] = row /\ db'["session"] = db["session"]
      BY <1>2, <1>5, PutOnly DEF ShutTables, OnlyTable
  <2> SUFFICES ASSUME NEW s \in Ids("session")', db'["session"][s].status = "active",
                      db'["session"][s].tenant = db'["user"][u].tenant, db'["session"][s].principal = u
               PROVE  <<"session", s>> \in history'.late
      BY DEF SessionsGone, Row
  <2>3. s \in AuthSessionsForPrincipal(op[c].user.tenant, u)
      BY <2>1, <2>2
         DEF AuthSessionsForPrincipal, ListAuthSessionsForPrincipalSql, SessionsForPrincipalMemory,
             Where, Ids, Row
  <2> QED
      BY <1>4, <2>1, <2>3
<1> HIDE DEF theirs
<1>6. PICK written : written = row
    OBVIOUS
<1> HIDE DEF row
<1> QED
    BY <1>1, <1>2, <1>4, <1>5, <1>6, UserStep DEF ShutPcs

\* update_organization_member_status: the memberships of projects are next, then the roles.
LEMMA SetMemberShutStep ==
    ASSUME Base, NEW c \in Clients, SetOrganizationMember(c)
    PROVE  ShutStep(c)
<1>a. PICK i : i = op[c].id
    OBVIOUS
<1> DEFINE next(row) == [pc |-> "cascade", id |-> i, member |-> row]
           done == SetOrganizationMemberStatus(i, op[c].expected, op[c].status)
<1>1. op[c].pc = "set_org_member" /\ i \in Ids("org_member") /\ op[c].status \in MembershipStatus
    BY <1>a DEF SetOrganizationMember, At, Base, Ready
<1>2. CASE Fails(c)
    BY <1>1, <1>2, FailsShut DEF ShutPcs
<1>3. ASSUME NEW row \in done, Writes(c, Put("org_member", i, row), next(row)), history' = history
      PROVE  ShutStep(c)
  <2>1. db' = Put("org_member", i, row) /\ op'[c] = next(row)
      BY <1>3 DEF Writes, Base
  <2>2. row.status \in MembershipStatus
    <3>1. row = Bumped(Row("org_member", i), op[c].status)
        BY <1>3 DEF SetOrganizationMemberStatus, UpdateOrganizationMemberStatusSql,
                    UpdateOrganizationMemberStatusMemory, Provided
    <3> QED
        BY <1>1, <3>1, RowInUse, BumpedWritten, StatusLists DEF Versioned, Base
  <2>3. /\ OnlyTable("org_member")
        /\ \A n \in DOMAIN Seed["org_member"] :
             db'["org_member"][n] = IF n = i THEN row ELSE db["org_member"][n]
      BY <2>1, PutOnly DEF ShutTables
  <2>4. \A k \in ShutTables \ {"org_member"} : db'[k] = db[k] /\ LateSame(k)
      BY <1>3, <2>3 DEF OnlyTable, LateSame
  <2>5. SessionsKept /\ RowsKept("project_member") /\ RowsKept("binding") /\ UsersKept(c)
      BY <1>1, <2>4, SessionsStay, RowsStay, UsersStay DEF ShutTables, ShutPcs
  <2>6. ASSUME i \in DOMAIN Seed["org_member"], row.status \notin {"absent", "active"}
        PROVE  Cascades(c, i)' /\ (row.status = "removed" => Deletes(c, i)')
      BY <2>1, <2>2, <2>3, <2>6 DEF Cascades, Deletes, OfMember, Row, MembershipStatus
  <2> HIDE DEF next
  <2>7. MembersKept(c)
      BY <1>1, <2>3, <2>6 DEF MembersKept, Cascades, Deletes, OfMember
  <2> QED
      BY <1>3, <2>5, <2>7 DEF ShutStep
<1> QED
    BY <1>a, <1>2, <1>3 DEF SetOrganizationMember

\* A session is recorded, late if its user may not come in.
LEMMA NewSessionKept ==
    ASSUME Base, NEW s, NEW session, NEW u, session.principal = u,
           \A n \in DOMAIN Seed["session"] :
             db'["session"][n] = IF n = s THEN session ELSE db["session"][n],
           \A v \in DOMAIN Seed["user"] : db'["user"][v].status \notin {"absent", "active"} =>
             db["user"][v].status \notin {"absent", "active"},
           LateSession(s, u) \subseteq history'.late,
           \A n : <<"session", n>> \in history.late => <<"session", n>> \in history'.late
    PROVE  SessionsKept
<1>1. DOMAIN db["user"] = DOMAIN Seed["user"]
    BY TablesExist DEF Base, DbShape
<1>2. ASSUME u \in DOMAIN Seed["user"], db["user"][u].status \notin {"absent", "active"}
      PROVE  <<"session", s>> \in history'.late
  <2>1. u \in {j \in {u} \cap Ids("user") : ~AcceptsAccess(Row("user", j))}
      BY <1>1, <1>2 DEF Ids, Row, AcceptsAccess
  <2> QED
      BY <2>1 DEF LateSession
<1> QED
    BY <1>2 DEF SessionsKept

LEMMA RecordSessionsShutStep ==
    ASSUME Base, NEW c \in Clients, CompleteRecordSession(c) \/ RecordSingleUserSession(c)
    PROVE  ShutStep(c)
<1>1. PICK s, session, u :
        /\ db' = Put("session", s, session) /\ session.principal = u
        /\ history' = [history EXCEPT !.late = @ \cup LateSession(s, u)]
    BY DEF CompleteRecordSession, RecordSingleUserSession, Writes, RecordAuthSession, RecordAuthSessionSql,
           RecordAuthSessionMemory, SessionRecord
<1>2. op[c].pc \notin ShutPcs
    BY DEF CompleteRecordSession, RecordSingleUserSession, At, ShutPcs
<1>3. history'.late = history.late \cup LateSession(s, u) /\ history'.partial = history.partial
    BY <1>1 DEF Base, HistoryFields
<1>4. /\ OnlyTable("session")
      /\ \A n \in DOMAIN Seed["session"] :
           db'["session"][n] = IF n = s THEN session ELSE db["session"][n]
    BY <1>1, PutOnly DEF ShutTables
<1>5. LateSame("project_member") /\ LateSame("binding")
    BY <1>3 DEF LateSame, LateSession
<1>6. \A k \in ShutTables \ {"session"} : db'[k] = db[k]
    BY <1>4 DEF OnlyTable
<1>7. SessionsKept
    BY <1>1, <1>3, <1>4, <1>6, NewSessionKept DEF ShutTables
<1>8. RowsKept("project_member") /\ RowsKept("binding") /\ UsersKept(c) /\ MembersKept(c)
    BY <1>2, <1>5, <1>6, RowsStay, UsersStay, MembersStay DEF ShutTables
<1> QED
    BY <1>3, <1>7, <1>8 DEF ShutStep

\* The single user's rows, written one by one.
LEMMA SingleUserShutStep ==
    ASSUME Base, NEW c \in Clients, RecordSingleUserMemberships(c)
    PROVE  ShutStep(c)
<1>1. op[c].pc = "single_user_memberships" /\ op[c].step \in 1 .. 5
    BY DEF RecordSingleUserMemberships, At, Base, Ready
<1> DEFINE row == SingleUserRows[op[c].step]
<1>2. /\ db' = Put(row[1], row[2], row[3])
      /\ IF row[1] \in {"project_member", "binding"} THEN history' = Late(row[1], row[2], row[3])
         ELSE history' = history
    BY DEF RecordSingleUserMemberships, Writes
<1>3. row[1] \in {"user", "identity", "org_member", "project_member", "binding"} /\ row[3].status = "active"
  <2>1. CASE op[c].step = 1
      BY <2>1 DEF SingleUserRows
  <2>2. CASE op[c].step = 2
      BY <2>2 DEF SingleUserRows
  <2>3. CASE op[c].step = 3
      BY <2>3 DEF SingleUserRows, NewOrganizationMember, OrganizationMembershipRecord
  <2>4. CASE op[c].step = 4
      BY <2>4 DEF SingleUserRows, NewProjectMember, ProjectMembershipRecord
  <2>5. CASE op[c].step = 5
      BY <2>5 DEF SingleUserRows
  <2> QED
      BY <1>1, <2>1, <2>2, <2>3, <2>4, <2>5
<1>4. op[c].pc \notin ShutPcs
    BY <1>1 DEF ShutPcs
<1> HIDE DEF row
<1>5. CASE row[1] \in {"project_member", "binding"}
    BY <1>2, <1>4, <1>5, LateStep
<1>6. CASE row[1] = "org_member"
    BY <1>2, <1>3, <1>4, <1>6, ActiveMemberStep
<1>7. CASE row[1] = "user"
    BY <1>2, <1>3, <1>4, <1>7, UserStep DEF LateSame
<1>8. CASE row[1] = "identity"
    BY <1>2, <1>4, <1>8, WritesQuiet, QuietStep, TablesExist DEF ShutTables
<1> QED
    BY <1>3, <1>5, <1>6, <1>7, <1>8

\* Of the rows written in one transaction the late ones are told from the tables after it.
LEMMA RowsLate ==
    ASSUME NEW k, NEW written, LateAfter(db', written) \subseteq history'.late,
           \A i \in DOMAIN Seed[k] : db'[k][i] = db[k][i] \/ <<k, i>> \in written
    PROVE  RowsKept(k)
<1> SUFFICES ASSUME NEW i \in DOMAIN Seed[k], db'[k][i].status = "active",
                    <<k, i>> \notin history'.late, ShutOut(db', db'[k][i])
             PROVE  /\ db[k][i].status = "active" /\ <<k, i>> \notin history.late
                    /\ OfMember(db'[k][i], db[k][i])
    BY DEF RowsKept
<1> DEFINE w == <<k, i>>
<1>1. w[1] = k /\ w[2] = i
    OBVIOUS
<1>2. w \notin written
    BY <1>1 DEF LateAfter
<1>3. w \notin history.late
    BY <1>2 DEF LateAfter
<1> QED
    BY <1>2, <1>3 DEF OfMember

\* A login's transaction.
LEMMA CommitLoginShutStep ==
    ASSUME Base, NEW c \in Clients, CompleteOidcLoginSql(c)
    PROVE  ShutStep(c)
<1> DEFINE p == Completion(c)
           s == NewId("session")
           o == UpsertOidcOrganizationMembershipSql(p)
           m == UpsertOidcProjectMembershipSql(p)
           u == UpsertOidcUserSql(p)
           b == UpsertOidcOrganizationAdminRoleSql(p)
           session == SessionRecord(p.tenant, p.org, p.project, p.user, op[c].attempt)
           written == {<<"project_member", m[1]>>, <<"binding", p.binding>>}
           done == UpsertOidcExternalIdentitySql(p.identity, NewIdentity(c))
<1>1. op[c].pc \notin ShutPcs
    BY DEF CompleteOidcLoginSql, At, ShutPcs
<1>2. CASE Fails(c)
    BY <1>1, <1>2, FailsShut
<1>3. ASSUME NEW new \in done,
             history' = [history EXCEPT !.late = LateAfter(db', written) \cup LateSession(s, p.user)],
             Writes(c, [db EXCEPT !["attempt"][op[c].attempt].status = "consumed",
                                  !["user"][p.user] = u,
                                  !["org_member"][o[1]] = o[2],
                                  !["project_member"][m[1]] = m[2],
                                  !["identity"][new[1]] = new[2],
                                  !["binding"][p.binding] = b,
                                  !["session"][s] = session], NoOp)
      PROVE  ShutStep(c)
  <2>1. o[2].status = "active" /\ session.principal = p.user
      BY DEF UpsertOidcOrganizationMembershipSql, NewOrganizationMember, OrganizationMembershipRecord,
             SessionRecord
  <2>2. IF p.user \in Ids("user") THEN u.status = Row("user", p.user).status /\ u.tenant = Row("user", p.user).tenant
        ELSE u.status = "active"
      BY DEF UpsertOidcUserSql
  <2>3. history'.late = LateAfter(db', written) \cup LateSession(s, p.user) /\ history'.partial = history.partial
      BY <1>3 DEF Base, HistoryFields
  <2> HIDE DEF p, s, o, m, u, b, session, done
  <2>4. DOMAIN db = DOMAIN Seed /\ \A k \in DOMAIN Seed : DOMAIN db[k] = DOMAIN Seed[k]
      BY DEF Base, DbShape
  <2>5. /\ db'["user"] = [db["user"] EXCEPT ![p.user] = u]
        /\ db'["org_member"] = [db["org_member"] EXCEPT ![o[1]] = o[2]]
        /\ db'["project_member"] = [db["project_member"] EXCEPT ![m[1]] = m[2]]
        /\ db'["binding"] = [db["binding"] EXCEPT ![p.binding] = b]
        /\ db'["session"] = [db["session"] EXCEPT ![s] = session]
      BY <1>3, <2>4, TablesExist DEF Writes
  <2>6. RowsKept("project_member") /\ RowsKept("binding")
    <3>1. \A i \in DOMAIN Seed["project_member"] :
            db'["project_member"][i] = db["project_member"][i] \/ <<"project_member", i>> \in written
        BY <2>4, <2>5, TablesExist
    <3>2. \A i \in DOMAIN Seed["binding"] :
            db'["binding"][i] = db["binding"][i] \/ <<"binding", i>> \in written
        BY <2>4, <2>5, TablesExist
    <3> HIDE DEF written
    <3> QED
        BY <2>3, <3>1, <3>2, RowsLate
  <2>7. \A v \in DOMAIN Seed["user"] : db'["user"][v].status \notin {"absent", "active"} =>
          /\ db["user"][v].status \notin {"absent", "active"}
          /\ db'["user"][v].tenant = db["user"][v].tenant
      BY <2>2, <2>4, <2>5, TablesExist DEF Ids, Row
  <2>8. SessionsKept
    <3>1. \A n \in DOMAIN Seed["session"] :
            db'["session"][n] = IF n = s THEN session ELSE db["session"][n]
        BY <2>4, <2>5, TablesExist
    <3>2. \A n : <<"session", n>> \in history.late => <<"session", n>> \in history'.late
        BY <2>3 DEF LateAfter
    <3>3. \A v \in DOMAIN Seed["user"] : db'["user"][v].status \notin {"absent", "active"} =>
            db["user"][v].status \notin {"absent", "active"}
        BY <2>7
    <3>4. LateSession(s, p.user) \subseteq history'.late
        BY <2>3
    <3>5. session.principal = p.user
        BY <2>1
    <3> HIDE DEF written
    <3> QED
        BY <3>1, <3>2, <3>3, <3>4, <3>5, NewSessionKept
  <2>9. UsersKept(c)
      BY <1>1, <2>7 DEF UsersKept, Disables, ShutPcs
  <2>10. MembersKept(c)
      BY <1>1, <2>1, <2>4, <2>5, TablesExist, MembersStay
  <2> QED
      BY <2>3, <2>6, <2>8, <2>9, <2>10 DEF ShutStep
<1> QED
    BY <1>2, <1>3 DEF CompleteOidcLoginSql

\* An invitation's transaction.
LEMMA CommitInvitationShutStep ==
    ASSUME Base, NEW c \in Clients, CommitInvitation(c)
    PROVE  ShutStep(c)
<1> DEFINE i == op[c].id
<1>1. op[c].pc \notin ShutPcs /\ DbShape /\ TypeOK
    BY DEF CommitInvitation, At, ShutPcs, Base
<1>2. CASE Fails(c)
    BY <1>1, <1>2, FailsShut
<1>3. ASSUME NEW row, 
             NEW member \in UpsertInvitedOrganizationMemberSql(NewId("org_member"), InvitedOrganizationMember(row)),
             \/ /\ Writes(c, [db EXCEPT !["invitation"][i] = row,
                                        !["org_member"][member[1]] = member[2]], NoOp)
                /\ history' = Admits(row.token)
             \/ \E new : /\ Writes(c, [db EXCEPT !["invitation"][i] = row,
                                                  !["org_member"][member[1]] = member[2],
                                                  !["project_member"][new[1]] = new[2]], NoOp)
                         /\ history' = [Admits(row.token) EXCEPT
                                          !.late = LateAfter(db', {<<"project_member", new[1]>>})]
      PROVE  ShutStep(c)
  <2>1. member[2].status = "active"
    <3>1. /\ Written("org_member", InvitedOrganizationMember(row))
          /\ InvitedOrganizationMember(row).status = "active"
        BY StatusLists DEF InvitedOrganizationMember, OrganizationMembershipRecord, Written, WellFormed,
                           MembershipStatus
    <3> QED
        BY <1>1, <3>1, OrganizationMemberUpserts
  <2> HIDE DEF i
  <2>2. DOMAIN db = DOMAIN Seed /\ \A k \in DOMAIN Seed : DOMAIN db[k] = DOMAIN Seed[k]
      BY <1>1 DEF DbShape
  <2>3. PICK written :
          /\ db'["org_member"] = [db["org_member"] EXCEPT ![member[1]] = member[2]]
          /\ db'["user"] = db["user"] /\ db'["session"] = db["session"] /\ db'["binding"] = db["binding"]
          /\ \A n \in DOMAIN Seed["project_member"] :
               db'["project_member"][n] = db["project_member"][n] \/ <<"project_member", n>> \in written
          /\ LateAfter(db', written) \subseteq history'.late
          /\ LateSame("session") /\ LateSame("binding")
          /\ history'.partial = history.partial
    <3> DEFINE good(written) ==
          /\ db'["org_member"] = [db["org_member"] EXCEPT ![member[1]] = member[2]]
          /\ db'["user"] = db["user"] /\ db'["session"] = db["session"] /\ db'["binding"] = db["binding"]
          /\ \A n \in DOMAIN Seed["project_member"] :
               db'["project_member"][n] = db["project_member"][n] \/ <<"project_member", n>> \in written
          /\ LateAfter(db', written) \subseteq history'.late
          /\ LateSame("session") /\ LateSame("binding")
          /\ history'.partial = history.partial
    <3>1. ASSUME Writes(c, [db EXCEPT !["invitation"][i] = row,
                                      !["org_member"][member[1]] = member[2]], NoOp),
                 history' = Admits(row.token)
          PROVE  good({})
      <4>1. history'.late = history.late /\ history'.partial = history.partial
          BY <3>1 DEF Base, HistoryFields, Admits
      <4>2. LateAfter(db', {}) = history.late
          BY DEF LateAfter
      <4> QED
          BY <2>2, <3>1, <4>1, <4>2, TablesExist DEF Writes, LateSame
    <3>2. ASSUME NEW new,
                 Writes(c, [db EXCEPT !["invitation"][i] = row,
                                      !["org_member"][member[1]] = member[2],
                                      !["project_member"][new[1]] = new[2]], NoOp),
                 history' = [Admits(row.token) EXCEPT
                               !.late = LateAfter(db', {<<"project_member", new[1]>>})]
          PROVE  good({<<"project_member", new[1]>>})
      <4> DEFINE written == {<<"project_member", new[1]>>}
      <4>1. history'.late = LateAfter(db', written) /\ history'.partial = history.partial
          BY <3>2 DEF Base, HistoryFields, Admits
      <4>2. \A w : w \notin written => (w \in history'.late) = (w \in history.late)
          BY <4>1 DEF LateAfter
      <4>3. LateSame("session") /\ LateSame("binding")
          BY <4>2 DEF LateSame
      <4>4. /\ db'["org_member"] = [db["org_member"] EXCEPT ![member[1]] = member[2]]
            /\ db'["project_member"] = [db["project_member"] EXCEPT ![new[1]] = new[2]]
            /\ db'["user"] = db["user"] /\ db'["session"] = db["session"] /\ db'["binding"] = db["binding"]
          BY <2>2, <3>2, TablesExist DEF Writes
      <4>5. \A n \in DOMAIN Seed["project_member"] :
              db'["project_member"][n] = db["project_member"][n] \/ <<"project_member", n>> \in written
          BY <2>2, <4>4, TablesExist
      <4> HIDE DEF written
      <4> QED
          BY <4>1, <4>3, <4>4, <4>5 DEF written
    <3> HIDE DEF good
    <3>3. \E written : good(written)
        BY <1>3, <3>1, <3>2
    <3> QED
        BY <3>3 DEF good
  <2>4. SessionsKept /\ RowsKept("binding") /\ UsersKept(c)
      BY <1>1, <2>3, SessionsStay, RowsStay, UsersStay
  <2>5. RowsKept("project_member")
      BY <2>3, RowsLate
  <2>6. MembersKept(c)
      BY <1>1, <2>1, <2>2, <2>3, TablesExist, MembersStay
  <2> QED
      BY <2>3, <2>4, <2>5, <2>6 DEF ShutStep
<1> QED
    BY <1>2, <1>3 DEF CommitInvitation

LEMMA ClientShutStep ==
    ASSUME Base, NEW c \in Clients, AdminNext(c) \/ TenancyNext(c) \/ LoginNext(c)
    PROVE  ShutStep(c)
<1>1. CASE AdminNext(c)
    BY <1>1, CallsShutStep, OthersShutStep, SetUserShutStep, DisableShutStep, SessionsShutStep
       DEF AdminNext
<1>2. CASE TenancyNext(c)
    BY <1>2, CallsShutStep, OthersShutStep, MembersShutStep, SetMemberShutStep, CascadeShutStep,
       DeletesShutStep, RowsShutStep
       DEF TenancyNext
<1>3. CASE LoginNext(c)
    BY <1>3, CallsShutStep, OthersShutStep, RecordUserShutStep, RecordSessionsShutStep,
       MembersShutStep, RowsShutStep, CommitLoginShutStep, SingleUserShutStep, SessionsShutStep,
       CommitInvitationShutStep
       DEF LoginNext
<1> QED
    BY <1>1, <1>2, <1>3

\* A step that leaves the tables alone, and may cut a handler off.
LEMMA CutStep ==
    ASSUME Base, ShutInv, db' = db, history'.late = history.late,
           history.partial \subseteq history'.partial,
           \A c \in Clients : op'[c] = op[c] \/ HalfMade(c) \subseteq history'.partial
    PROVE  ShutInv'
<1>1. DbShape'
    BY DEF Base, DbShape
<1>2. SessionsKept /\ RowsKept("project_member") /\ RowsKept("binding")
    BY SessionsStay, RowsStay DEF LateSame
<1>3. \A k \in {"user", "org_member"} : \A i \in DOMAIN Seed[k] :
        db'[k][i] = db[k][i] \/ db'[k][i].status = "active"
    OBVIOUS
<1> QED
    BY <1>1, <1>2, <1>3, CutKept

LEMMA DropShut ==
    ASSUME Base, ShutInv, NEW c \in Clients, DropHandler(c)
    PROVE  ShutInv'
<1>1. history'.late = history.late /\ history'.partial = history.partial \cup HalfMade(c)
    BY DEF DropHandler, Base, HistoryFields
<1>2. db' = db /\ op' = [op EXCEPT ![c] = NoOp] /\ DOMAIN op = Clients
    BY DEF DropHandler, Base
<1>3. \A d \in Clients : op'[d] = op[d] \/ d = c
    BY <1>2
<1> QED
    BY <1>1, <1>2, <1>3, CutStep

\* The single user's rows, as they are written when the service starts.
LEMMA RestartRows ==
    ASSUME Base, Restart, scenario.single_user, NEW k \in DOMAIN Seed, NEW i \in DOMAIN Seed[k]
    PROVE  \/ db'[k][i] = db[k][i]
           \/ /\ db'[k][i].status = "active"
              /\ k = "project_member" => i = SingleUser.project_member
              /\ k = "binding" => i = SingleUser.binding
<1> DEFINE mine == {n \in DOMAIN SingleUserRows :
                      SingleUserRows[n][1] = k /\ SingleUserRows[n][2] = i}
           row == SingleUserRows[First(mine)][3]
           next == IF i \in Unused(k) \/ "version" \notin DOMAIN row THEN row
                   ELSE [row EXCEPT !.version = Row(k, i).version + 1]
<1>1. k \in DOMAIN db /\ i \in DOMAIN db[k]
    BY DEF Base, DbShape
<1>2. db'[k][i] = IF mine = {} THEN Row(k, i) ELSE next
    BY <1>1 DEF Restart, BootstrapSingleUser
<1>3. CASE mine = {}
    BY <1>2, <1>3 DEF Row
<1>4. CASE mine # {}
  <2>1. First(mine) \in mine
      BY <1>4, FirstIn, SingleUserWritten
  <2>2. PICK n \in 1 .. 5 : /\ SingleUserRows[n][1] = k /\ SingleUserRows[n][2] = i /\ n = First(mine)
      BY <2>1, SingleUserWritten
  <2>3. /\ SingleUserRows[n][3].status = "active" /\ "status" \in DOMAIN SingleUserRows[n][3]
        /\ k = "project_member" => i = SingleUser.project_member
        /\ k = "binding" => i = SingleUser.binding
    <3>1. CASE n = 1
        BY <2>2, <3>1 DEF SingleUserRows
    <3>2. CASE n = 2
        BY <2>2, <3>2 DEF SingleUserRows
    <3>3. CASE n = 3
        BY <2>2, <3>3 DEF SingleUserRows, NewOrganizationMember, OrganizationMembershipRecord
    <3>4. CASE n = 4
        BY <2>2, <3>4 DEF SingleUserRows, NewProjectMember, ProjectMembershipRecord
    <3>5. CASE n = 5
        BY <2>2, <3>5 DEF SingleUserRows
    <3> QED
        BY <3>1, <3>2, <3>3, <3>4, <3>5
  <2>4. row = SingleUserRows[n][3]
      BY <2>2
  <2> DEFINE v == Row(k, i).version + 1
  <2>5. db'[k][i] = row \/ db'[k][i] = [row EXCEPT !.version = v]
      BY <1>2, <1>4
  <2> HIDE DEF mine, row, next, v
  <2> QED
      BY <2>3, <2>4, <2>5
<1> QED
    BY <1>3, <1>4

LEMMA RestartShut ==
    ASSUME Base, ShutInv, Restart
    PROVE  ShutInv'
<1> DEFINE written == {<<"project_member", SingleUser.project_member>>, <<"binding", SingleUser.binding>>}
<1>1. /\ history'.partial = history.partial \cup UNION {HalfMade(c) : c \in Clients}
      /\ history'.late = IF scenario.single_user THEN LateAfter(db', written) ELSE history.late
    BY DEF Restart, Base, HistoryFields
<1>2. DbShape' /\ db'["session"] = db["session"]
    BY RestartStep DEF Grows
<1>3. /\ history.partial \subseteq history'.partial
      /\ \A c \in Clients : HalfMade(c) \subseteq history'.partial
    BY <1>1
<1>4. CASE ~ scenario.single_user
  <2>1. db' = db
      BY <1>4 DEF Restart, BootstrapSingleUser
  <2> QED
      BY <1>1, <1>3, <1>4, <2>1, CutStep
<1>5. CASE scenario.single_user
  <2>1. history'.late = LateAfter(db', written)
      BY <1>1, <1>5
  <2>2. LateSame("session")
      BY <2>1 DEF LateSame, LateAfter
  <2>3. SessionsKept
      BY <1>2, <2>2, SessionsStay
  <2>4. \A k \in {"project_member", "binding"} : \A i \in DOMAIN Seed[k] :
          db'[k][i] = db[k][i] \/ <<k, i>> \in written
      BY <1>5, RestartRows, TablesExist
  <2>5. \A k \in {"user", "org_member"} : \A i \in DOMAIN Seed[k] :
          db'[k][i] = db[k][i] \/ db'[k][i].status = "active"
      BY <1>5, RestartRows, TablesExist
  <2> HIDE DEF written
  <2>6. RowsKept("project_member") /\ RowsKept("binding")
      BY <2>1, <2>4, RowsLate
  <2> QED
      BY <1>2, <1>3, <2>3, <2>5, <2>6, CutKept
<1> QED
    BY <1>4, <1>5

LEMMA ShutInitially == Init => ShutInv
<1> SUFFICES ASSUME Init PROVE ShutInv
    OBVIOUS
<1>1. db = Seed
    BY DEF Init
<1>2. /\ {"user", "org_member"} \subseteq DOMAIN Statuses /\ Statuses["org_member"] = MembershipStatus
    BY StatusLists
<1>3. \A m \in DOMAIN Seed["org_member"] :
        Seed["org_member"][m].status \in {"absent", "active", "suspended", "removed"}
    BY <1>2, SeedAssumption DEF WellFormed, MembershipStatus
<1>4. ShutUsers
  <2> SUFFICES ASSUME NEW u \in Ids("user"), Row("user", u).status # "active"
               PROVE  SessionsGone(u)
      BY DEF ShutUsers
  <2> QED
      BY <1>1, ShutOutAssumption DEF SessionsGone, Ids, Row
<1>5. ShutMembers
  <2> SUFFICES ASSUME NEW m \in Ids("org_member"), Row("org_member", m).status # "active"
               PROVE  Gone("project_member", m)
      BY DEF ShutMembers
  <2>1. m \in DOMAIN Seed["org_member"] /\ Seed["org_member"][m].status \in {"suspended", "removed"}
      BY <1>1, <1>3 DEF Ids, Row
  <2>2. ~ \E i \in DOMAIN Seed["project_member"] :
            /\ Seed["project_member"][i].status = "active"
            /\ OfMember(Seed["project_member"][i], Seed["org_member"][m])
      BY <2>1, ShutOutAssumption
  <2> QED
      BY <1>1, <2>2 DEF Gone, Ids, Row
<1>6. ShutRoles
  <2> SUFFICES ASSUME NEW m \in Ids("org_member"), Row("org_member", m).status = "removed"
               PROVE  Gone("binding", m)
      BY DEF ShutRoles
  <2>1. m \in DOMAIN Seed["org_member"] /\ Seed["org_member"][m].status = "removed"
      BY <1>1 DEF Ids, Row
  <2>2. ~ \E i \in DOMAIN Seed["binding"] :
            Seed["binding"][i].status = "active" /\ OfMember(Seed["binding"][i], Seed["org_member"][m])
      BY <2>1, ShutOutAssumption
  <2> QED
      BY <1>1, <2>2 DEF Gone, Ids, Row
<1> QED
    BY <1>4, <1>5, <1>6 DEF ShutInv

LEMMA ShutNext ==
    ASSUME IInv, ShutInv, [PlatformNext]_vars
    PROVE  ShutInv'
<1>1. ASSUME NEW c \in Clients, AdminNext(c) \/ TenancyNext(c) \/ LoginNext(c)
      PROVE  ShutInv'
    BY <1>1, ClientStep, ClientShutStep, ShutKept DEF IInv, StepOf
<1>2. ASSUME NEW c \in Clients, DropHandler(c) PROVE ShutInv'
    BY <1>2, DropShut DEF IInv
<1>3. CASE Restart
    BY <1>3, RestartShut DEF IInv
<1>4. CASE Tick \/ UNCHANGED vars
  <2>1. db' = db /\ history' = history /\ op' = op
      BY <1>4 DEF Tick, vars
  <2> QED
      BY <2>1, CutStep DEF IInv
<1> QED
    BY <1>1, <1>2, <1>3, <1>4 DEF PlatformNext

\* Whoever is shut out has kept nothing but what was written late, unless the
\* handler that takes it away is still to do so or was cut off (ShutOutHolds): for
\* any number of clients and rows, in memory and in Postgres, with timeouts that
\* drop handlers and with restarts.
THEOREM ShutOutStays == Spec => []ShutOutHolds
<1>1. ASSUME ShutInv PROVE ShutOutHolds
  <2>1. \A k, i : ~ Unfinished(k, i) =>
          <<k, i>> \notin history.partial /\ \A c \in Clients : <<k, i>> \notin HalfMade(c)
      BY DEF Unfinished
  <2>2. ASSUME NEW u \in Ids("user"), ~AcceptsAccess(Row("user", u)), ~Unfinished("user", u),
               NEW s \in AuthSessionsForPrincipal(Row("user", u).tenant, u),
               Row("session", s).status = "active"
        PROVE  <<"session", s>> \in history.late
    <3>1. SessionsGone(u)
        BY <1>1, <2>1, <2>2, HalfMadeIs DEF ShutInv, ShutUsers, AcceptsAccess
    <3> QED
        BY <2>2, <3>1 DEF SessionsGone, AuthSessionsForPrincipal, ListAuthSessionsForPrincipalSql,
                          SessionsForPrincipalMemory, Where
  <2>3. ASSUME NEW m \in Ids("org_member"), Row("org_member", m).status # "active",
               ~Unfinished("org_member", m)
        PROVE  /\ Gone("project_member", m)
               /\ Row("org_member", m).status = "removed" => Gone("binding", m)
      BY <1>1, <2>1, <2>3, HalfMadeIs DEF ShutInv, ShutMembers, ShutRoles
  <2>4. ASSUME NEW m \in Ids("org_member"), NEW k, Gone(k, m), NEW i \in Ids(k),
               OfMember(Row(k, i), Row("org_member", m)) /\ Row(k, i).status = "active"
        PROVE  <<k, i>> \in history.late
      BY <2>4 DEF Gone
  <2> QED
      BY <2>2, <2>3, <2>4, Zenon DEF ShutOutHolds, Where
<1> QED
    BY <1>1, ShutInitially, ShutNext, Invariant, PTL DEF Spec
=============================================================================
