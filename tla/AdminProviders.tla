---------------------------- MODULE AdminProviders ----------------------------
(***************************************************************************)
(* Secret refs, provider endpoints, upstream credentials, Codex OAuth      *)
(* connections and sessions, pricing SKUs, model targets and catalog       *)
(* imports: for each kind what the handler's validation accepts, what the  *)
(* store accepts, the row a create inserts, and one action per handler and *)
(* per store write.  In the actions r is a request body.                   *)
(***************************************************************************)
EXTENDS AdminState

CredentialStatus == {"active", "rotating", "disabled", "deleted"}
-----------------------------------------------------------------------------
(* Secret refs                                                             *)

\* validate_secret_ref_request: the handler has no validation of its own.
ValidateSecretRefRequest(t, r) ==
    /\ r.shape
    /\ r.backend \in {"memory", "file"}
    /\ OptionalProjectScope(t, r.org, r.project)

\* ensure_secret_ref_usable, as the store checks a secret another row names.
EnsureSecretRefUsable(t, org, project, secret) ==
    /\ secret \in Ids("secret_ref")
    /\ LET row == Row("secret_ref", secret)
       IN /\ row.tenant = t
          /\ row.status \in {"active", "rotating"}
          /\ row.f.org \in {None, org}
          /\ row.f.project \in {None, project}

\* Mistake: the handlers accept a secret that is disabled or deleted.
SecretRefScopeOfAnyStatus(a, org, project, secret) ==
    /\ ForActor("secret_ref", a, secret)
    /\ Row("secret_ref", secret).f.org \in {None, org}
    /\ Row("secret_ref", secret).f.project \in {None, project}

\* validate_secret_ref_scope_fields, as the handlers check it.
SecretRefScopeFields(a, org, project, secret) ==
    /\ ForActor("secret_ref", a, secret)
    /\ Row("secret_ref", secret).status \in {"active", "rotating"}
    /\ Row("secret_ref", secret).f.org \in {None, org}
    /\ Row("secret_ref", secret).f.project \in {None, project}

SecretRefRecord(t, r) ==
    NewRow(t, [org |-> InferredOrganization(t, r.org, r.project), project |-> r.project,
               backend |-> r.backend, fingerprint |-> r.value], "active")

ListSecretRefs(a) == Lists(a, "list_secret_refs", "secret_ref", ForTenant("secret_ref", a))
GetSecretRef(a) == Gets(a, "get_secret_ref", "secret_ref")
GetSecretRefLocator(a) == Gets(a, "get_secret_ref_locator", "secret_ref")

CreateSecretRef(a) ==
    /\ Mutating(a, "create_secret_ref")
    /\ \E r \in Requests["secret_ref"] :
         Creates(a, "create_secret_ref", "secret_ref", r, TRUE,
                 ValidateSecretRefRequest(TenantOf[a], r), SecretRefRecord(TenantOf[a], r))

\* create_secret_ref of the store: a file is written before the ref is
\* inserted, a value kept in memory after it, under a lock of its own.
StoreSecretRef(a) ==
    /\ op[a].pc = "insert" /\ op[a].kind = "secret_ref"
    /\ LET id == Len(db["secret_ref"]) + 1
           memory == op[a].row.f.backend = "memory"
       IN /\ db' = [db EXCEPT !["secret_ref"] = Append(@, op[a].row)]
          /\ secrets' = IF memory THEN secrets ELSE [x \in {id} |-> op[a].row.f.fingerprint] ++ secrets
          /\ op' = [op EXCEPT ![a] =
                     [id |-> id, after |-> 1, value |-> op[a].row.f.fingerprint,
                      pc |-> IF memory THEN "store_value" ELSE "finish"] ++ @]
    /\ answer' = Nobody
    /\ UNCHANGED <<idem, records, fixed>>

UpdateSecretRef(a) == UpdatesStatus(a, "update_secret_ref", "secret_ref", CredentialStatus)
UpdateSecretRefStatus(a) == op[a].route = "update_secret_ref" /\ CompareAndSet(a, "secret_ref")

\* rotate_secret_ref, the handler: the row is looked up before the key.
RotateSecretRef(a) ==
    /\ Mutating(a, "rotate_secret_ref")
    /\ \E id \in Ids("secret_ref"), expected \in 1 .. MaxVersion, key \in Keys,
        value \in Requests["secret_value"] :
         Request(a, "rotate_secret_ref", ForActor("secret_ref", a, id),
                 <<"rotate_secret_ref", id>>, key, <<expected, value>>, TRUE,
                 [value |-> value]
                   ++ Writing("secret_ref", id, expected, NewStatus("rotating")))

\* rotate_secret_ref of the store: version, status and fingerprint under the
\* lock of the refs (and the file, if the backend is one); the value kept in
\* memory is replaced afterwards.
StoreRotatedSecretRef(a) ==
    /\ op[a].pc = "write" /\ op[a].route = "rotate_secret_ref"
    /\ LET id == op[a].id
           row == Row("secret_ref", id)
           value == op[a].value
       IN IF row.version # op[a].expected \/ row.status = "deleted"
          THEN op' = [op EXCEPT ![a] = NoOp] /\ UNCHANGED <<db, secrets>>
          ELSE /\ db' = [db EXCEPT !["secret_ref"][id] =
                          Patched(@, [status |-> "rotating", f |-> [fingerprint |-> value]])]
               /\ secrets' = IF row.f.backend = "file" THEN [secrets EXCEPT ![id] = value]
                             ELSE secrets
               /\ op' = [op EXCEPT ![a] =
                          [after |-> row.version + 1,
                           pc |-> IF row.f.backend = "file" THEN "finish" ELSE "store_value"] ++ @]
    /\ answer' = Nobody
    /\ UNCHANGED <<idem, records, fixed>>

\* write_lock(&self.secret_values).insert(..)
StoreSecretValue(a) ==
    /\ op[a].pc = "store_value"
    /\ secrets' = [x \in {op[a].id} |-> op[a].value] ++ secrets
    /\ op' = [op EXCEPT ![a].pc = "finish"]
    /\ answer' = Nobody
    /\ UNCHANGED <<db, idem, records, fixed>>
-----------------------------------------------------------------------------
(* Provider endpoints                                                      *)

NoRepeats(s) == \A i, j \in DOMAIN s : s[i] = s[j] => i = j

ProviderEndpointValidation(a, r) ==
    /\ r.shape
    /\ Len(r.families) > 0
    /\ NoRepeats(r.families)
    /\ HandlerOrganization(a, r.org)

ProviderEndpointRecord(t, r) ==
    NewRow(t, [org |-> r.org, provider |-> r.provider,
               families |-> {r.families[i] : i \in DOMAIN r.families}], "active")

ListProviderEndpoints(a) ==
    Lists(a, "list_provider_endpoints", "provider_endpoint", ForTenant("provider_endpoint", a))
GetProviderEndpoint(a) == Gets(a, "get_provider_endpoint", "provider_endpoint")

ValidateProviderEndpoint(a) ==
    /\ Calling(a, "validate_provider_endpoint")
    /\ \E r \in Requests["provider_endpoint"] :
         Validates(a, "provider_endpoint",
                   ProviderEndpointValidation(a, r))

CreateProviderEndpoint(a) ==
    /\ Mutating(a, "create_provider_endpoint")
    /\ \E r \in Requests["provider_endpoint"] :
         CreatesValidFirst(a, "create_provider_endpoint", "provider_endpoint", r,
                           ProviderEndpointValidation(a, r),
                           OptionalOrganizationScope(TenantOf[a], r.org),
                           ProviderEndpointRecord(TenantOf[a], r))
StoreProviderEndpoint(a) == InsertRow(a, "provider_endpoint")

UpdateProviderEndpoint(a) ==
    UpdatesStatus(a, "update_provider_endpoint", "provider_endpoint", ResourceStatus)
UpdateProviderEndpointStatus(a) == CompareAndSet(a, "provider_endpoint")
-----------------------------------------------------------------------------
(* Upstream credentials                                                    *)

UpstreamCredentialValidation(a, r) ==
    /\ r.shape
    /\ SecretRefScopeFields(a, r.org, None, r.secret)
    /\ ForActor("provider_endpoint", a, r.endpoint)
    /\ ~ OrganizationMismatch(r.org, Row("provider_endpoint", r.endpoint).f.org)
    /\ HandlerOrganization(a, r.org)

ValidateUpstreamCredentialEndpoint(t, r) ==
    /\ OptionalOrganizationScope(t, r.org)
    /\ r.endpoint \in Ids("provider_endpoint")
    /\ Row("provider_endpoint", r.endpoint).tenant = t
    /\ ~ OrganizationMismatch(r.org, Row("provider_endpoint", r.endpoint).f.org)
    /\ EnsureSecretRefUsable(t, r.org, None, r.secret)

UpstreamCredentialRecord(t, r) ==
    NewRow(t, [org |-> r.org, endpoint |-> r.endpoint, secret |-> r.secret], "active")

ListUpstreamCredentials(a) ==
    Lists(a, "list_upstream_credentials", "upstream_credential",
          ForTenant("upstream_credential", a))
GetUpstreamCredential(a) == Gets(a, "get_upstream_credential", "upstream_credential")

ValidateUpstreamCredential(a) ==
    /\ Calling(a, "validate_upstream_credential")
    /\ \E r \in Requests["upstream_credential"] :
         Validates(a, "upstream_credential",
                   UpstreamCredentialValidation(a, r))

CreateUpstreamCredential(a) ==
    /\ Mutating(a, "create_upstream_credential")
    /\ \E r \in Requests["upstream_credential"] :
         CreatesValidFirst(a, "create_upstream_credential", "upstream_credential", r,
                           UpstreamCredentialValidation(a, r),
                           ValidateUpstreamCredentialEndpoint(TenantOf[a], r),
                           UpstreamCredentialRecord(TenantOf[a], r))
StoreUpstreamCredential(a) ==
    op[a].route = "create_upstream_credential" /\ InsertRow(a, "upstream_credential")

UpdateUpstreamCredential(a) ==
    UpdatesStatus(a, "update_upstream_credential", "upstream_credential", CredentialStatus)
UpdateUpstreamCredentialStatus(a) == CompareAndSet(a, "upstream_credential")
-----------------------------------------------------------------------------
(* Codex OAuth connections and sessions                                    *)

ValidateCodexOauthConnectionRequest(t, r) ==
    /\ OptionalOrganizationScope(t, r.org)
    /\ r.shape
    /\ r.endpoint \in Ids("provider_endpoint")
    /\ LET endpoint == Row("provider_endpoint", r.endpoint)
       IN /\ endpoint.tenant = t
          /\ endpoint.f.provider = "codex"
          /\ "openai_responses" \in endpoint.f.families
          /\ ~ OrganizationMismatch(r.org, endpoint.f.org)
    /\ ~ \E c \in Rows("codex_connection") :
            /\ c.tenant = t /\ c.f.org = r.org /\ c.f.name = r.name
            /\ c.status # "disabled"

CodexOauthConnectionRecord(t, r) ==
    NewRow(t, [org |-> r.org, endpoint |-> r.endpoint, credential |-> None, name |-> r.name],
           "unauthenticated")

ListCodexOauthConnections(a) ==
    Lists(a, "list_codex_oauth_connections", "codex_connection",
          ForTenant("codex_connection", a))
GetCodexOauthConnection(a) == Gets(a, "get_codex_oauth_connection", "codex_connection")

CreateCodexOauthConnection(a) ==
    /\ Mutating(a, "create_codex_oauth_connection")
    /\ \E r \in Requests["codex_connection"] :
         Creates(a, "create_codex_oauth_connection", "codex_connection", r, TRUE,
                 ValidateCodexOauthConnectionRequest(TenantOf[a], r),
                 CodexOauthConnectionRecord(TenantOf[a], r))
StoreCodexOauthConnection(a) == InsertRow(a, "codex_connection")

\* validate_codex_oauth_connection_status_update
UpdateCodexOauthConnection(a) ==
    UpdatesStatus(a, "update_codex_oauth_connection", "codex_connection",
                  {"unauthenticated", "expired", "error", "disabled"})

\* disable_upstream_credential_if_current: no version is compared.
Disabled(row) == [row EXCEPT !.status = "disabled", !.version = @ + 1]
CredentialDisabled(credentials, id) == [credentials EXCEPT ![id] = Disabled(@)]

\* update_codex_oauth_connection_status: disabling a connection disables its
\* credential under the same lock, logging it out forgets the credential.
UpdateCodexOauthConnectionStatus(a) ==
    /\ op[a].pc = "write" /\ op[a].kind = "codex_connection"
    /\ LET id == op[a].id
           row == Row("codex_connection", id)
           status == op[a].patch.status
           forgets == status = "unauthenticated"
       IN IF row.version # op[a].expected
          THEN op' = [op EXCEPT ![a] = NoOp] /\ UNCHANGED db
          ELSE /\ db' = [db EXCEPT
                     !["codex_connection"][id] =
                        Patched(@, [status |-> status,
                                    f |-> [credential |-> IF forgets THEN None
                                                          ELSE row.f.credential]]),
                     !["upstream_credential"] =
                        IF status = "disabled" /\ row.f.credential # None
                        THEN CredentialDisabled(@, row.f.credential) ELSE @]
               /\ op' = [op EXCEPT ![a] = [after |-> row.version + 1, pc |-> "finish"] ++ @]
    /\ answer' = Nobody
    /\ UNCHANGED <<secrets, idem, records, fixed>>

\* validate_codex_oauth_session_request
ValidateCodexOauthSessionRequest(t, connection, r) ==
    /\ connection \in Ids("codex_connection")
    /\ LET row == Row("codex_connection", connection)
       IN /\ row.tenant = t
          /\ row.status # "disabled"
          /\ EnsureSecretRefUsable(t, row.f.org, None, r.secret)

\* start_codex_oauth_session, the handler and the checks of the store; a token
\* that has an expiry must not have expired.
StartCodexOauthSession(a) ==
    /\ Mutating(a, "start_codex_oauth_session")
    /\ \E id \in Ids("codex_connection"), r \in Requests["codex_session"], key \in Keys :
         LET credential == [org |-> Row("codex_connection", id).f.org,
                            endpoint |-> Row("codex_connection", id).f.endpoint,
                            secret |-> r.secret]
         IN
         Request(a, "start_codex_oauth_session", ForActor("codex_connection", a, id),
                 <<"start_codex_oauth_session", id>>, key, r,
                 /\ r.expires # None => r.expires > clock
                 /\ ValidateCodexOauthSessionRequest(TenantOf[a], id, r)
                 /\ ValidateUpstreamCredentialEndpoint(TenantOf[a], credential),
                 [pc |-> "credential", kind |-> "codex_session", connection |-> id,
                  row |-> NewRow(TenantOf[a], credential, "active"),
                  expires |-> r.expires, before |-> None])

\* Mistake: the connection is given the credential before the session is stored.
ConnectBeforeSession(a) ==
    /\ op[a].pc = "credential"
    /\ LET credential == Len(db["upstream_credential"]) + 1
       IN /\ db' = [db EXCEPT
                !["upstream_credential"] = Append(@, op[a].row),
                !["codex_connection"][op[a].connection].f.credential = credential]
          /\ op' = [op EXCEPT ![a] = [credential |-> credential, pc |-> "session"] ++ @]
    /\ answer' = Nobody
    /\ UNCHANGED <<secrets, idem, records, fixed>>

\* start_codex_oauth_session of the store, three writes under three locks: the
\* credential, the session, and the connection, which is made active whatever
\* its status is by then.
StoreSessionCredential(a) ==
    /\ op[a].pc = "credential"
    /\ db' = [db EXCEPT !["upstream_credential"] = Append(@, op[a].row)]
    /\ op' = [op EXCEPT ![a] = [credential |-> Len(db["upstream_credential"]) + 1,
                                pc |-> "session"] ++ @]
    /\ answer' = Nobody
    /\ UNCHANGED <<secrets, idem, records, fixed>>
StoreSession(a) ==
    /\ op[a].pc = "session"
    /\ db' = [db EXCEPT !["codex_session"] =
                Append(@, NewRow(TenantOf[a], [connection |-> op[a].connection,
                                               credential |-> op[a].credential,
                                               secret |-> op[a].row.f.secret,
                                               expires |-> op[a].expires], "active"))]
    /\ op' = [op EXCEPT ![a] = [id |-> Len(db["codex_session"]) + 1, after |-> 1,
                                pc |-> "connect"] ++ @]
    /\ answer' = Nobody
    /\ UNCHANGED <<secrets, idem, records, fixed>>
ConnectSession(a) ==
    /\ op[a].pc = "connect"
    /\ db' = [db EXCEPT !["codex_connection"][op[a].connection] =
                Patched(@, [status |-> "active", f |-> [credential |-> op[a].credential]])]
    /\ op' = [op EXCEPT ![a].pc = "finish"]
    /\ answer' = Nobody
    /\ UNCHANGED <<secrets, idem, records, fixed>>

ListCodexOauthSessions(a) ==
    /\ Calling(a, "list_codex_oauth_sessions")
    /\ \E id \in Ids("codex_connection") :
         /\ ForActor("codex_connection", a, id)
         /\ Reads(a, {<<"codex_session", s>> :
                     s \in {x \in ForTenant("codex_session", a) :
                              Row("codex_session", x).f.connection = id}})
GetCodexOauthSession(a) == Gets(a, "get_codex_oauth_session", "codex_session")

\* revoke_codex_oauth_session: no version and no key; session, credential and
\* connection are written under three locks.
RevokeCodexOauthSession(a) ==
    /\ Mutating(a, "revoke_codex_oauth_session")
    /\ \E id \in Ids("codex_session") :
         Request(a, "revoke_codex_oauth_session", ForActor("codex_session", a, id),
                 <<"revoke_codex_oauth_session">>, NoKey, id, TRUE,
                 [pc |-> "revoke", kind |-> "codex_session", id |-> id,
                  before |-> Row("codex_session", id).version])
RevokeSession(a) ==
    /\ op[a].pc = "revoke"
    /\ db' = [db EXCEPT !["codex_session"][op[a].id] = Patched(@, NewStatus("revoked"))]
    /\ op' = [op EXCEPT ![a] = [after |-> Row("codex_session", op[a].id).version + 1,
                                pc |-> "disable"] ++ @]
    /\ answer' = Nobody
    /\ UNCHANGED <<secrets, idem, records, fixed>>
DisableUpstreamCredentialIfCurrent(a) ==
    /\ op[a].pc = "disable"
    /\ db' = [db EXCEPT !["upstream_credential"][Row("codex_session", op[a].id).f.credential] =
                Disabled(@)]
    /\ op' = [op EXCEPT ![a].pc = "disconnect"]
    /\ answer' = Nobody
    /\ UNCHANGED <<secrets, idem, records, fixed>>
DisconnectSession(a) ==
    /\ op[a].pc = "disconnect"
    /\ LET session == Row("codex_session", op[a].id)
           id == session.f.connection
       IN db' = IF Row("codex_connection", id).f.credential = session.f.credential
                THEN [db EXCEPT !["codex_connection"][id] =
                        Patched(@, [status |-> "unauthenticated", f |-> [credential |-> None]])]
                ELSE db
    /\ op' = [op EXCEPT ![a].pc = "finish"]
    /\ answer' = Nobody
    /\ UNCHANGED <<secrets, idem, records, fixed>>

\* codex_oauth_refresh_status: the newest session whose credential the
\* connection holds.
GetCodexOauthRefreshStatus(a) ==
    /\ Calling(a, "get_codex_oauth_refresh_status")
    /\ \E id \in Ids("codex_connection") :
         /\ ForActor("codex_connection", a, id)
         /\ Reads(a, {<<"codex_session", s>> :
                     s \in {x \in ForTenant("codex_session", a) :
                              /\ Row("codex_session", x).f.connection = id
                              /\ Row("codex_session", x).f.credential
                                   = Row("codex_connection", id).f.credential}}
                  \cup {<<"codex_connection", id>>})
-----------------------------------------------------------------------------
(* Pricing SKUs                                                            *)

\* pricing_sku_validation_errors and pricing_document_validation_errors; the
\* document must name the SKU's currency and unit.
PricingSkuValidation(a, r) ==
    /\ r.shape
    /\ r.unit = "micro_usd"
    /\ r.document = [currency |-> r.currency, unit |-> r.unit]
    /\ HandlerOrganization(a, r.org)
    /\ ~ Duplicate("pricing_sku", TenantOf[a], [org |-> r.org, name |-> r.name])

\* validate_pricing_sku_request and validate_pricing_document
ValidatePricingSkuRequest(t, r) ==
    /\ OptionalOrganizationScope(t, r.org)
    /\ r.shape
    /\ r.unit = "micro_usd"
    /\ r.document = [currency |-> r.currency, unit |-> r.unit]
    /\ ~ Duplicate("pricing_sku", t, [org |-> r.org, name |-> r.name])

PricingSkuRecord(t, r) == NewRow(t, [org |-> r.org, name |-> r.name], "active")

ListPricingSkus(a) == Lists(a, "list_pricing_skus", "pricing_sku", ForTenant("pricing_sku", a))
GetPricingSku(a) == Gets(a, "get_pricing_sku", "pricing_sku")
ValidatePricingSku(a) ==
    /\ Calling(a, "validate_pricing_sku")
    /\ \E r \in Requests["pricing_sku"] :
         Validates(a, "pricing_sku", PricingSkuValidation(a, r))
CreatePricingSku(a) ==
    /\ Mutating(a, "create_pricing_sku")
    /\ \E r \in Requests["pricing_sku"] :
         Creates(a, "create_pricing_sku", "pricing_sku", r, PricingSkuValidation(a, r),
                 ValidatePricingSkuRequest(TenantOf[a], r), PricingSkuRecord(TenantOf[a], r))
StorePricingSku(a) == InsertRow(a, "pricing_sku")
UpdatePricingSku(a) == UpdatesStatus(a, "update_pricing_sku", "pricing_sku", ResourceStatus)
UpdatePricingSkuStatus(a) == CompareAndSet(a, "pricing_sku")
-----------------------------------------------------------------------------
(* Model targets                                                           *)

\* model_target_validation_errors: unlike the store it also compares the
\* organizations of the request and of the endpoint.
ModelTargetValidation(a, r) ==
    /\ r.shape
    /\ ForActor("provider_endpoint", a, r.endpoint)
    /\ LET endpoint == Row("provider_endpoint", r.endpoint)
       IN r.family \in endpoint.f.families /\ ~ OrganizationMismatch(r.org, endpoint.f.org)
    /\ r.credential # None =>
         /\ ForActor("upstream_credential", a, r.credential)
         /\ Row("upstream_credential", r.credential).f.endpoint = r.endpoint
    /\ r.sku # None =>
         /\ ForActor("pricing_sku", a, r.sku)
         /\ Row("pricing_sku", r.sku).status = "active"
         /\ Row("pricing_sku", r.sku).f.org \in {None, r.org}
    /\ HandlerOrganization(a, r.org)

ValidateModelTargetRefs(t, r) ==
    /\ OptionalOrganizationScope(t, r.org)
    /\ r.endpoint \in Ids("provider_endpoint")
    /\ Row("provider_endpoint", r.endpoint).tenant = t
    /\ r.family \in Row("provider_endpoint", r.endpoint).f.families
    /\ r.credential # None =>
         /\ r.credential \in Ids("upstream_credential")
         /\ Row("upstream_credential", r.credential).tenant = t
         /\ Row("upstream_credential", r.credential).f.endpoint = r.endpoint
    /\ r.sku # None =>
         /\ r.sku \in Ids("pricing_sku")
         /\ Row("pricing_sku", r.sku).tenant = t
         /\ Row("pricing_sku", r.sku).status = "active"
         /\ Row("pricing_sku", r.sku).f.org \in {None, r.org}

ModelTargetRecord(t, r) ==
    NewRow(t, [org |-> r.org, endpoint |-> r.endpoint, credential |-> r.credential,
               family |-> r.family, sku |-> r.sku], "active")

ListModelTargets(a) ==
    Lists(a, "list_model_targets", "model_target", ForTenant("model_target", a))
GetModelTarget(a) == Gets(a, "get_model_target", "model_target")
ValidateModelTarget(a) ==
    /\ Calling(a, "validate_model_target")
    /\ \E r \in Requests["model_target"] :
         Validates(a, "model_target", ModelTargetValidation(a, r))
CreateModelTarget(a) ==
    /\ Mutating(a, "create_model_target")
    /\ \E r \in Requests["model_target"] :
         CreatesValidFirst(a, "create_model_target", "model_target", r,
                           ModelTargetValidation(a, r),
                           ValidateModelTargetRefs(TenantOf[a], r),
                           ModelTargetRecord(TenantOf[a], r))
StoreModelTarget(a) == InsertRow(a, "model_target")
UpdateModelTarget(a) == UpdatesStatus(a, "update_model_target", "model_target", ResourceStatus)
UpdateModelTargetStatus(a) == CompareAndSet(a, "model_target")
-----------------------------------------------------------------------------
(* Catalog imports: a document of resources kept as a draft.               *)

\* catalog_import_resource_kind_supported
CatalogImportKinds ==
    {"model_target", "model_alias", "routing_group", "routing_group_target", "route_policy",
     "provider_grant", "pricing_sku"}

\* catalog_import_validation_errors; a resource is its kind and whether the
\* document holds raw secret material anywhere below it.
CatalogImportValidation(a, r) ==
    /\ r.mode = "draft"
    /\ HandlerProject(a, r.org, r.project)
    /\ r.shape
    /\ r.tenant \in {None, TenantOf[a]}
    /\ Len(r.resources) \in 1 .. 100
    /\ \A i \in DOMAIN r.resources :
         r.resources[i].kind \in CatalogImportKinds /\ ~ r.resources[i].secret

ValidateCatalogImportRequest(t, r) ==
    /\ OptionalProjectScope(t, r.org, r.project)
    /\ r.mode = "draft"
    /\ Len(r.resources) > 0

CatalogImportRecord(t, r) ==
    NewRow(t, [org |-> r.org, project |-> r.project, resources |-> Len(r.resources)], "active")

ListCatalogImports(a) ==
    Lists(a, "list_catalog_imports", "catalog_import", ForTenant("catalog_import", a))
GetCatalogImport(a) == Gets(a, "get_catalog_import", "catalog_import")
ValidateCatalogImport(a) ==
    /\ Calling(a, "validate_catalog_import")
    /\ \E r \in Requests["catalog_import"] :
         Validates(a, "catalog_import", CatalogImportValidation(a, r))

\* create_catalog_import stores the diagnostic of its validation too, whether
\* or not the import is accepted.
CreateCatalogImport(a) ==
    /\ Mutating(a, "create_catalog_import")
    /\ \E r \in Requests["catalog_import"], key \in Keys :
         RequestNoting(a, "create_catalog_import", TRUE, <<"create_catalog_import">>, key, r,
                       {Diagnostic(a, "catalog_import", CatalogImportValidation(a, r))},
                       /\ CatalogImportValidation(a, r)
                       /\ ValidateCatalogImportRequest(TenantOf[a], r),
                       Inserting("catalog_import", CatalogImportRecord(TenantOf[a], r)))
StoreCatalogImport(a) == InsertRow(a, "catalog_import")
=============================================================================
