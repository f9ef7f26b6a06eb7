--------------------------- MODULE AdminOperations ---------------------------
(***************************************************************************)
(* Export jobs, emergency operations and maintenance windows.              *)
(*                                                                         *)
(* These are the admin handlers that await something in the middle (an     *)
(* object store, the shared hot state): the server drops a handler whose   *)
(* client has gone at such a point, and what it did so far stays.          *)
(***************************************************************************)
EXTENDS AdminPolicies

(* Maintenance windows                                                     *)

MaintenanceWindowValidation(a, r) ==
    /\ r.shape
    /\ r.starts < r.ends
    /\ r.ends > clock
    /\ HandlerProject(a, r.org, r.project)

ValidateMaintenanceWindowRequest(t, r) ==
    /\ OptionalProjectScope(t, r.org, r.project)
    /\ r.shape
    /\ ~ (r.starts >= r.ends)
    /\ ~ (r.ends <= clock)

MaintenanceWindowRecord(t, r) ==
    NewRow(t, [org |-> r.org, project |-> r.project, starts |-> r.starts, ends |-> r.ends],
           "active")

ListMaintenanceWindows(a) ==
    Lists(a, "list_maintenance_windows", "maintenance_window", ForTenant("maintenance_window", a))
GetMaintenanceWindow(a) == Gets(a, "get_maintenance_window", "maintenance_window")
ValidateMaintenanceWindow(a) ==
    /\ Calling(a, "validate_maintenance_window")
    /\ \E r \in Requests["maintenance_window"] :
         Validates(a, "maintenance_window",
                   MaintenanceWindowValidation(a, r))
CreateMaintenanceWindow(a) ==
    /\ Mutating(a, "create_maintenance_window")
    /\ \E r \in Requests["maintenance_window"] :
         Creates(a, "create_maintenance_window", "maintenance_window", r,
                 MaintenanceWindowValidation(a, r),
                 ValidateMaintenanceWindowRequest(TenantOf[a], r),
                 MaintenanceWindowRecord(TenantOf[a], r))
StoreMaintenanceWindow(a) == InsertRow(a, "maintenance_window")
UpdateMaintenanceWindow(a) ==
    UpdatesStatus(a, "update_maintenance_window", "maintenance_window", ResourceStatus)
UpdateMaintenanceWindowStatus(a) == CompareAndSet(a, "maintenance_window")
-----------------------------------------------------------------------------
(* Emergency operations                                                    *)

ListEmergencyOperations(a) ==
    Lists(a, "list_emergency_operations", "emergency_operation",
          ForTenant("emergency_operation", a))
GetEmergencyOperation(a) == Gets(a, "get_emergency_operation", "emergency_operation")

\* validate_emergency_operation_request
ValidateEmergencyOperationRequest(r) == r.shape /\ r.expires > clock

EmergencyOperationRecord(t, operation, target, expires) ==
    NewRow(t, [operation |-> operation, target |-> target, expires |-> expires], "applied")

\* The handler of an emergency operation r on row id of kind k: the request is
\* checked, the key looked up, then the row is; "late" is what else must hold
\* and "next" what follows.
Emergency(a, route, operation, k, id, r, late, next) ==
    \E key \in Keys :
        Request(a, route, ValidateEmergencyOperationRequest(r),
                <<operation, id>>, key, r,
                ForActor(k, a, id) /\ r.expected > 0 /\ late,
                [row |-> EmergencyOperationRecord(TenantOf[a], operation, <<k, id>>, r.expires)]
                  ++ next)

EmergencyDisableUpstreamCredential(a) ==
    /\ Mutating(a, "emergency_disable_upstream_credential")
    /\ \E id \in Ids("upstream_credential"), r \in Requests["emergency"] :
         Emergency(a, "emergency_disable_upstream_credential",
                   "disable_upstream_credential", "upstream_credential", id, r, TRUE,
                   [then |-> "emergency"]
                     ++ Writing("upstream_credential", id, r.expected, NewStatus("disabled")))
EmergencyDisableProviderEndpoint(a) ==
    /\ Mutating(a, "emergency_disable_provider_endpoint")
    /\ \E id \in Ids("provider_endpoint"), r \in Requests["emergency"] :
         Emergency(a, "emergency_disable_provider_endpoint",
                   "disable_provider_endpoint", "provider_endpoint", id, r, TRUE,
                   [then |-> "drain"]
                     ++ Writing("provider_endpoint", id, r.expected, NewStatus("disabled")))
EmergencyDrainRoutingGroup(a) ==
    /\ Mutating(a, "emergency_drain_routing_group")
    /\ \E id \in Ids("routing_group"), r \in Requests["emergency"] :
         Emergency(a, "emergency_drain_routing_group",
                   "drain_routing_group", "routing_group", id, r, TRUE,
                   [then |-> "emergency"]
                     ++ Writing("routing_group", id, r.expected, NewStatus("draining")))
\* force_budget_block compares the version of the policy and leaves it alone.
EmergencyForceBudgetBlock(a) ==
    /\ Mutating(a, "emergency_force_budget_block")
    /\ \E id \in Ids("budget_policy"), r \in Requests["emergency"] :
         Emergency(a, "emergency_force_budget_block",
                   "force_budget_block", "budget_policy", id, r,
                   r.expected = Row("budget_policy", id).version,
                   [pc |-> "emergency", before |-> r.expected, after |-> r.expected])
EmergencyFreezeConfig(a) ==
    /\ Mutating(a, "emergency_freeze_config")
    /\ \E r \in Requests["emergency"], key \in Keys :
         Request(a, "emergency_freeze_config", ValidateEmergencyOperationRequest(r),
                 <<"freeze_config", TenantOf[a]>>, key, r, TRUE,
                 [pc |-> "emergency", before |-> None, after |-> 1,
                  row |-> EmergencyOperationRecord(TenantOf[a], "freeze_config",
                                                   <<"config", TenantOf[a]>>, r.expires)])

\* set_endpoint_drain: the drain of an endpoint replaces the one before.  Redis
\* takes no record that has expired, and loses one when it cannot be reached.
SetEndpointDrain(drains, drain) ==
    LET stored == Upsert(drains, drain, LAMBDA d : d.tenant = drain.tenant
                                                     /\ d.f.endpoint = drain.f.endpoint)
    IN IF ~ scenario.redis THEN {stored}
       ELSE IF drain.f.expires <= clock THEN {drains} ELSE {drains, stored}

\* set_endpoint_emergency_drain: written to the hot state for the published
\* config version, when there is one.
SetEndpointEmergencyDrain(a) ==
    /\ op[a].pc = "drain"
    /\ LET published == {row \in Rows("config_publication") : row.tenant = TenantOf[a]}
           drain(p) == NewRow(TenantOf[a], [endpoint |-> op[a].id, version |-> p.f.version,
                                            expires |-> op[a].row.f.expires],
                              "active")
       IN \E drains \in IF published = {} THEN {db["endpoint_drain"]}
                         ELSE SetEndpointDrain(db["endpoint_drain"],
                                               drain(CHOOSE p \in published : TRUE)) :
            db' = [db EXCEPT !["endpoint_drain"] = drains]
    /\ op' = [op EXCEPT ![a].pc = "emergency"]
    /\ answer' = Nobody
    /\ UNCHANGED <<secrets, idem, records, fixed>>

\* create_emergency_operation; record_emergency_operation_audit names the
\* operation and gives the versions of its target.
StoreEmergencyOperation(a) ==
    /\ op[a].pc = "emergency"
    /\ db' = [db EXCEPT !["emergency_operation"] = Append(@, op[a].row)]
    /\ op' = [op EXCEPT ![a] = [kind |-> "emergency_operation",
                                id |-> Len(db["emergency_operation"]) + 1,
                                pc |-> "finish"] ++ @]
    /\ answer' = Nobody
    /\ UNCHANGED <<secrets, idem, records, fixed>>
-----------------------------------------------------------------------------
(* Export jobs                                                             *)

\* usage_scope_from_query, for the scopes that are resources of this module.
UsageScope(a, r) ==
    \/ r.scope = "tenant" /\ r.scope_id \in {None, TenantOf[a]}
    \/ /\ r.scope \in {"organization", "project", "model_alias", "model_target",
                       "provider_endpoint", "route_policy", "routing_group"}
       /\ ForActor(r.scope, a, r.scope_id)

ExportJobRequest(r) ==
    /\ r.export_kind \in {"usage", "audit"}
    /\ r.backend \in {"inline_manifest", "object_storage", "file_object_storage"}
\* export_list_limit and export_retention_days
ExportLimits(r) == r.limit \in 1 .. 200 /\ r.retention \in 1 .. 365

ListExportJobs(a) == Lists(a, "list_export_jobs", "export_job", ForTenant("export_job", a))
GetExportJob(a) == Gets(a, "get_export_job", "export_job")

\* export_manifest_for_job: the job's manifest, until it expires.
GetExportJobManifest(a) ==
    /\ Calling(a, "get_export_job_manifest")
    /\ \E id \in Ids("export_job"), m \in Ids("export_manifest") :
         /\ ForActor("export_job", a, id)
         /\ Row("export_manifest", m).f.job = id
         /\ Row("export_manifest", m).tenant = TenantOf[a]
         /\ Row("export_manifest", m).f.expires > clock
         /\ Reads(a, {<<"export_manifest", m>>})

CreateExportJob(a) ==
    /\ Mutating(a, "create_export_job")
    /\ \E r \in Requests["export_job"], key \in Keys :
         Request(a, "create_export_job", ExportJobRequest(r) /\ UsageScope(a, r),
                 <<"create_export_job">>, key, r, ExportLimits(r),
                 [then |-> "build", expires |-> clock + r.retention, backend |-> r.backend]
                   ++ Inserting("export_job", NewRow(TenantOf[a], [export_kind |-> r.export_kind],
                                                     "pending")))
StoreExportJob(a) == InsertRow(a, "export_job")

\* build_export_result and complete_export_job: storage that is not configured
\* or does not answer makes the job fail, it is not an error of the handler.
CompleteExportJob(a) ==
    /\ op[a].pc = "build"
    /\ \E status \in IF op[a].backend = "inline_manifest" THEN {"completed"}
                     ELSE {"completed", "failed"} :
         db' = [db EXCEPT !["export_job"][op[a].id] = Patched(@, NewStatus(status))]
    /\ op' = [op EXCEPT ![a] = [after |-> Row("export_job", op[a].id).version + 1,
                                pc |-> "manifest"] ++ @]
    /\ answer' = Nobody
    /\ UNCHANGED <<secrets, idem, records, fixed>>
StoreExportManifest(a) ==
    /\ op[a].pc = "manifest"
    /\ db' = [db EXCEPT !["export_manifest"] =
                Append(@, NewRow(TenantOf[a], [job |-> op[a].id, expires |-> op[a].expires],
                                 "active"))]
    /\ op' = [op EXCEPT ![a].pc = "finish"]
    /\ answer' = Nobody
    /\ UNCHANGED <<secrets, idem, records, fixed>>
-----------------------------------------------------------------------------
\* The client of a handler that awaits the object store or the hot state has
\* gone: the handler is dropped there.
Disconnect(a) ==
    /\ \/ op[a].pc = "drain"
       \/ op[a].pc = "build" /\ op[a].backend = "object_storage"
    /\ op' = [op EXCEPT ![a] = NoOp]
    /\ dropped' = dropped + 1
    /\ answer' = Nobody
    /\ UNCHANGED <<store, idem, records, clock, scenario>>
=============================================================================
