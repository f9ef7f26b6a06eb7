--------------------------- MODULE ConfigPublication ---------------------------
(***************************************************************************)
(* How a routing configuration becomes the one requests are planned under: *)
(* publication, rollback and emergency rollback of config snapshots, the   *)
(* reload records of the workers, and the hot state of the endpoints that  *)
(* is valid for one published version only.                                *)
(*                                                                         *)
(* insert_config_snapshot takes four locks one after the other, so that    *)
(* publications of a tenant overlap: a snapshot is pushed, the tenant's    *)
(* publication pointer is set, an invalidation event is pushed, and the    *)
(* gateway-wide latest snapshot is set.  In Postgres ("durable_snapshot")  *)
(* it is one transaction; no handler calls it, another program does.       *)
(*                                                                         *)
(* A snapshot's f.earlier is history for the properties: the snapshots of  *)
(* its tenant whose handlers were done when its own began.                 *)
(***************************************************************************)
EXTENDS AdminOperations, GatewayCatalog

CONSTANTS
    Documents,       \* the payloads of snapshots, by the name that stands for one
    Workers,         \* the worker ids that report what they have loaded
    MaxSnapshots     \* bound on the snapshots of one store

OnlyStore == answer' = Nobody /\ UNCHANGED <<secrets, idem, records, fixed>>

\* The rows of a tenant.
OfTenant(k, t) == {id \in Ids(k) : Row(k, id).tenant = t}

\* max_by_key version: among equal ones the last.
Newest(k, ids) ==
    CHOOSE id \in ids : \A other \in ids :
        \/ Row(k, other).f.version < Row(k, id).f.version
        \/ Row(k, other).f.version = Row(k, id).f.version /\ other <= id

\* latest_published_snapshot_for_tenant: where the pointer leads; without a
\* pointer the snapshot of the highest version.  None without a snapshot.
LatestPublishedSnapshotForTenant(t) ==
    LET pointer == OfTenant("config_publication", t)
        snapshots == OfTenant("config_snapshot", t)
    IN IF pointer # {} THEN Row("config_publication", CHOOSE p \in pointer : TRUE).f.snapshot
       ELSE IF snapshots # {} THEN Newest("config_snapshot", snapshots)
       ELSE None

\* The same in Postgres: the highest version.
LatestDurableSnapshotForTenant(t) ==
    LET snapshots == OfTenant("durable_snapshot", t)
    IN IF snapshots = {} THEN None ELSE Newest("durable_snapshot", snapshots)

\* latest_snapshot_for_actor: the snapshot requests are served under.
SnapshotKind == IF scenario.postgres THEN "durable_snapshot" ELSE "config_snapshot"
LatestSnapshotForActor(t) ==
    IF scenario.postgres THEN LatestDurableSnapshotForTenant(t)
    ELSE LatestPublishedSnapshotForTenant(t)

\* validate_config_snapshot_payload: only the Cedar bundle is looked at, and the
\* catalog is not.
ValidateConfigSnapshotPayload(payload) == Documents[payload].cedar # "invalid"
-----------------------------------------------------------------------------
(* Publication                                                             *)

\* The snapshots of a tenant that no handler in flight has in its hands.
Settled(t) ==
    {id \in OfTenant("config_snapshot", t) :
       \A b \in InFlight : "snapshot_id" \in DOMAIN op[b] => op[b].snapshot_id # id}

\* Mistake: the next version is the one that was read.
SameVersion(t) ==
    LET latest == LatestPublishedSnapshotForTenant(t)
    IN IF latest = None THEN 1 ELSE Row("config_snapshot", latest).f.version

\* publish_document: one more than the version that was read.
NextVersion(t) ==
    LET latest == LatestPublishedSnapshotForTenant(t)
    IN IF latest = None THEN 1 ELSE Row("config_snapshot", latest).f.version + 1

BeforeVersion(t) ==
    LET latest == LatestPublishedSnapshotForTenant(t)
    IN IF latest = None THEN None ELSE Row("config_snapshot", latest).f.version

\* What publish_document goes on with.
PublishDocument(a, payload, rollback_of) ==
    LET t == TenantOf[a]
    IN [pc |-> "push_snapshot", kind |-> "config_snapshot", then |-> "finish",
        before |-> BeforeVersion(t), after |-> NextVersion(t),
        snapshot |-> NewRow(t, [payload |-> payload, version |-> NextVersion(t),
                                rollback_of |-> rollback_of, earlier |-> Settled(t)],
                            "published")]

PublishConfigSnapshot(a) ==
    /\ Mutating(a, "publish_config_snapshot") /\ Len(db["config_snapshot"]) < MaxSnapshots
    /\ \E payload \in Requests["payload"], key \in Keys :
         Request(a, "publish_config_snapshot", TRUE, <<"config_snapshots:publish">>, key,
                 payload, ValidateConfigSnapshotPayload(payload),
                 PublishDocument(a, payload, None))

\* rollback_config_snapshot: the document of a snapshot of the tenant, published
\* again as it is.
RollbackConfigSnapshot(a) ==
    /\ Mutating(a, "rollback_config_snapshot") /\ Len(db["config_snapshot"]) < MaxSnapshots
    /\ \E source \in Ids("config_snapshot"), reason \in Requests["reason"], key \in Keys :
         Request(a, "rollback_config_snapshot", reason, <<"config_snapshots:rollback">>, key,
                 source, ForActor("config_snapshot", a, source),
                 PublishDocument(a, Row("config_snapshot", source).f.payload, source))

EmergencyRollbackConfigSnapshot(a) ==
    /\ Mutating(a, "emergency_rollback_config_snapshot")
    /\ Len(db["config_snapshot"]) < MaxSnapshots
    /\ \E source \in Ids("config_snapshot"), r \in Requests["emergency"], key \in Keys :
         Request(a, "emergency_rollback_config_snapshot", ValidateEmergencyOperationRequest(r),
                 <<"rollback_config_snapshot", source>>, key, r,
                 ForActor("config_snapshot", a, source),
                 [then |-> "emergency",
                  row |-> EmergencyOperationRecord(TenantOf[a], "rollback_config_snapshot",
                                                   <<"config_snapshot", source>>, r.expires)]
                   ++ PublishDocument(a, Row("config_snapshot", source).f.payload, source))

\* insert_config_snapshot, lock by lock.
PushConfigSnapshot(a) ==
    /\ op[a].pc = "push_snapshot"
    /\ db' = [db EXCEPT !["config_snapshot"] = Append(@, op[a].snapshot)]
    /\ LET id == Len(db["config_snapshot"]) + 1
       IN op' = [op EXCEPT ![a] = [pc |-> "set_pointer", id |-> id, snapshot_id |-> id] ++ @]
    /\ OnlyStore

ConfigPublicationPointerRecord(a) ==
    NewRow(TenantOf[a], [snapshot |-> op[a].snapshot_id, version |-> op[a].snapshot.f.version],
           "active")
SetConfigPublication(a) ==
    /\ op[a].pc = "set_pointer"
    /\ db' = [db EXCEPT !["config_publication"] =
                Upsert(@, ConfigPublicationPointerRecord(a), LAMBDA p : p.tenant = TenantOf[a])]
    /\ op' = [op EXCEPT ![a].pc = "push_invalidation"]
    /\ OnlyStore

PushConfigInvalidation(a) ==
    /\ op[a].pc = "push_invalidation"
    /\ db' = [db EXCEPT !["config_invalidation"] =
                Append(@, ConfigPublicationPointerRecord(a))]
    /\ op' = [op EXCEPT ![a].pc = "set_latest"]
    /\ OnlyStore

\* set_latest_snapshot: whichever tenant published last.
SetLatestSnapshot(a) ==
    /\ op[a].pc = "set_latest"
    /\ db' = [db EXCEPT !["latest_snapshot"] =
                Upsert(@, ConfigPublicationPointerRecord(a), LAMBDA p : TRUE)]
    /\ op' = [op EXCEPT ![a].pc = op[a].then]
    /\ OnlyStore

\* insert_config_snapshot of the Postgres store: snapshot, invalidation and
\* pointer in one transaction, a version of a tenant once.
InsertConfigSnapshotPostgres ==
    /\ scenario.postgres /\ Len(db["durable_snapshot"]) < MaxSnapshots
    /\ \E a \in Admins, version \in 1 .. MaxVersion, payload \in Requests["payload"] :
         /\ \A id \in OfTenant("durable_snapshot", TenantOf[a]) :
              Row("durable_snapshot", id).f.version # version
         /\ db' = [db EXCEPT !["durable_snapshot"] =
                     Append(@, NewRow(TenantOf[a], [payload |-> payload, version |-> version],
                                      "published"))]
    /\ UNCHANGED op
    /\ OnlyStore
-----------------------------------------------------------------------------
(* Dry run and reads                                                       *)

ValidateConfigSnapshot(a) ==
    /\ Calling(a, "validate_config_snapshot")
    /\ \E payload \in Requests["payload"] :
         Validates(a, "config_snapshot", ValidateConfigSnapshotPayload(payload))

\* config_snapshots_for_actor and config_snapshot_for_actor
ListConfigSnapshots(a) ==
    /\ Calling(a, "list_config_snapshots")
    /\ Reads(a, {<<SnapshotKind, id>> : id \in OfTenant(SnapshotKind, TenantOf[a])})
GetConfigSnapshot(a) == Gets(a, "get_config_snapshot", SnapshotKind)
ListValidationDiagnostics(a) ==
    /\ Calling(a, "list_validation_diagnostics")
    /\ Reads(a, {<<"validation_diagnostic", d>> : d \in {x \in diagnostics :
                                                            x.tenant = TenantOf[a]}})
-----------------------------------------------------------------------------
(* Worker reloads                                                          *)

LoadedVersion(t, worker) ==
    LET loaded == {r \in Rows("worker_reload") : r.tenant = t /\ r.f.worker = worker}
    IN IF loaded = {} THEN 0 ELSE (CHOOSE r \in loaded : TRUE).f.version

\* count_missed_invalidations
CountMissedInvalidations(t, previous, target) ==
    Cardinality({id \in OfTenant("config_invalidation", t) :
                   Row("config_invalidation", id).f.version \in previous + 1 .. target})

\* config_worker_reload_record
ConfigWorkerReloadRecord(t, worker, version, source, missed) ==
    NewRow(t, [worker |-> worker, version |-> version, source |-> source, missed |-> missed],
           "loaded")
StoreWorkerReload(record) ==
    /\ db' = [db EXCEPT !["worker_reload"] =
                Upsert(@, record, LAMBDA r : r.tenant = record.tenant
                                               /\ r.f.worker = record.f.worker)]
    /\ UNCHANGED op
    /\ OnlyStore

\* reload_config_worker_from_invalidation: whichever event the worker was sent,
\* an old one too.
ReloadConfigWorkerFromInvalidation(worker) ==
    /\ "reload_worker" \in scenario.routes
    /\ \E id \in Ids("config_invalidation") :
         LET event == Row("config_invalidation", id)
             missed == CountMissedInvalidations(event.tenant,
                                                LoadedVersion(event.tenant, worker),
                                                event.f.version)
         IN StoreWorkerReload(ConfigWorkerReloadRecord(event.tenant, worker, event.f.version,
                                "invalidation", IF missed = 0 THEN 0 ELSE missed - 1))

\* reload_config_worker_by_polling: where the pointer leads.
ReloadConfigWorkerByPolling(worker) ==
    /\ "reload_worker" \in scenario.routes
    /\ \E id \in Ids("config_publication") :
         LET pointer == Row("config_publication", id)
         IN StoreWorkerReload(ConfigWorkerReloadRecord(pointer.tenant, worker,
                                pointer.f.version, "polling",
                                CountMissedInvalidations(pointer.tenant,
                                  LoadedVersion(pointer.tenant, worker), pointer.f.version)))
-----------------------------------------------------------------------------
(* Hot state of the endpoints                                              *)

\* Mistake: a record of another config version still counts.
IsFreshForAnyVersion(record, version, now) == record.f.expires > now

\* is_fresh_for
IsFreshFor(record, version, now) == record.f.version = version /\ record.f.expires > now

\* The values a read of the hot state may give: what is stored, and with Redis
\* also the value that stands for a read that failed.
HotRead(stored, failed) == IF scenario.redis THEN {stored, failed} ELSE {stored}

\* endpoint_is_drained
EndpointIsDrained(t, endpoint, version, now) ==
    \E d \in Rows("endpoint_drain") :
        d.tenant = t /\ d.f.endpoint = endpoint /\ IsFreshFor(d, version, now)

\* endpoint_health_state
EndpointHealthState(t, endpoint, version, now) ==
    LET fresh == {h \in Rows("endpoint_health") :
                    h.tenant = t /\ h.f.endpoint = endpoint /\ IsFreshFor(h, version, now)}
    IN IF fresh = {} THEN "unknown" ELSE (CHOOSE h \in fresh : TRUE).f.health

\* set_endpoint_health, by the program that probes the endpoints.
SetEndpointHealth ==
    /\ "set_endpoint_health" \in scenario.routes
    /\ \E a \in Admins, r \in Requests["health"] :
         db' = [db EXCEPT !["endpoint_health"] =
                  Upsert(@, NewRow(TenantOf[a], r, "active"),
                         LAMBDA h : h.tenant = TenantOf[a] /\ h.f.endpoint = r.endpoint)]
    /\ db' # db
    /\ UNCHANGED op
    /\ OnlyStore
=============================================================================
