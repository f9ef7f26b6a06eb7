------------------------- MODULE GatewayRuntimeProofs -------------------------
(***************************************************************************)
(* What the data plane keeps to, for any documents, callers and            *)
(* interleavings of publications, requests, reads and exports: the order   *)
(* of publication, answers that stay in their tenant, and the types of the *)
(* store.                                                                  *)
(*                                                                         *)
(* The invariant is over tables and requests given as values, so that the  *)
(* lemmas speak of a table or a request before and after a step.  "s" is   *)
(* the table of config snapshots, "d" the whole store, "o" the requests in *)
(* flight and "x" one of them.                                             *)
(***************************************************************************)
EXTENDS GatewayRuntime, FiniteSetTheorems, TLAPS

-----------------------------------------------------------------------------
(* The invariant                                                           *)

RowOK(row) ==
    /\ {"tenant", "f", "status", "version"} \subseteq DOMAIN row
    /\ row.tenant \in Nat /\ row.version \in Nat \ {0}
IsRows(rows) ==
    /\ rows \in Seq({rows[i] : i \in DOMAIN rows})
    /\ \A i \in DOMAIN rows : RowOK(rows[i])
DbOK(d) == DOMAIN d = Kinds /\ \A k \in Kinds : IsRows(d[k])

\* The snapshots of a tenant, and the overlap of GatewayRuntime, by the table.
SnapshotsOf(s, t) == {id \in 1 .. Len(s) : s[id].tenant = t}
OverlappedIn(s, p) ==
    \E x \in SnapshotsOf(s, s[p].tenant) \ {p} :
        x \notin s[p].f.earlier /\ p \notin s[x].f.earlier

\* A version that comes after those of the snapshots that were done before.
After(s, version, earlier) ==
    \A p \in earlier : version > s[p].f.version \/ OverlappedIn(s, p)
SnapshotOK(s, row) ==
    /\ row.f.version \in Nat /\ row.f.earlier \subseteq SnapshotsOf(s, row.tenant)
    /\ After(s, row.f.version, row.f.earlier)
SnapshotsOK(s) == \A q \in 1 .. Len(s) : SnapshotOK(s, s[q])

\* A request that is about to push a snapshot, one that has one in its hands.
Pending(x) == x.pc = "push_snapshot"
Holds(x) == "snapshot_id" \in DOMAIN x

\* Nobody counts a snapshot as done that a handler has in its hands.
Unsettled(s, o) ==
    \A b \in Admins :
        Holds(o[b]) =>
          /\ \A q \in 1 .. Len(s) : o[b].snapshot_id \notin s[q].f.earlier
          /\ \A c \in Admins : Pending(o[c]) => o[b].snapshot_id \notin o[c].snapshot.f.earlier

\* Rows that lead to a snapshot of their tenant and version; one pointer a tenant.
LeadOK(s, rows) ==
    \A i \in 1 .. Len(rows) :
        /\ rows[i].f.snapshot \in SnapshotsOf(s, rows[i].tenant)
        /\ s[rows[i].f.snapshot].f.version = rows[i].f.version
OnePointer(pointers) ==
    \A i, j \in 1 .. Len(pointers) : pointers[i].tenant = pointers[j].tenant => i = j

\* Once the pointer was set to a snapshot, or past it, it never goes back to one
\* that was done before that snapshot began.
NotYetSet(o, p) == \E b \in Admins : o[b].pc = "set_pointer" /\ o[b].snapshot_id = p
Ahead(s, pointers, o) ==
    \A p \in 1 .. Len(s) :
        \/ NotYetSet(o, p)
        \/ \E i \in 1 .. Len(pointers) :
             pointers[i].tenant = s[p].tenant /\ pointers[i].f.snapshot \notin s[p].f.earlier

PublicationOK(d, o) ==
    LET s == d["config_snapshot"]
    IN /\ SnapshotsOK(s) /\ Unsettled(s, o)
       /\ LeadOK(s, d["config_publication"]) /\ OnePointer(d["config_publication"])
       /\ LeadOK(s, d["config_invalidation"]) /\ LeadOK(s, d["latest_snapshot"])
       /\ Ahead(s, d["config_publication"], o)

\* What a request is planned under has not been replaced by one of the snapshots
\* that were settled when it was planned.
NotReplaced(s, snapshot, settled) ==
    snapshot[1] = "config_snapshot" =>
      \A q \in settled : q \in 1 .. Len(s) /\ snapshot[2] \notin s[q].f.earlier
DecisionsOK(d) ==
    \A i \in 1 .. Len(d["route_decision"]) :
        LET row == d["route_decision"][i]
        IN NotReplaced(d["config_snapshot"], row.f.snapshot, row.f.settled)

\* The steps of a model request or WebSocket turn that has a plan.
RequestPcs ==
    {"sticky", "candidates", "decide", "map", "authorize", "preflight", "connect", "call",
     "attempt", "usage", "fold", "store_usage"}
Planned(s, x) ==
    {"snapshot", "settled"} \subseteq DOMAIN x /\ NotReplaced(s, x.snapshot, x.settled)
RequestReady(s, x) ==
    /\ {"pc", "key", "pinned"} \subseteq DOMAIN x /\ x.key = NoKey /\ ~ Holds(x)
    /\ \/ x.pc \in RequestPcs /\ Planned(s, x)
       \/ x.pc = "ws_idle" /\ (x.pinned # NoPin => Planned(s, x))

\* The exporter has configs of one tenant in its hands.
ExportReady(x) ==
    /\ {"pc", "key", "tenant", "configs"} \subseteq DOMAIN x /\ x.key = NoKey /\ ~ Holds(x)
    /\ x.pc \in {"otel_next", "otel_health"}
    /\ x.tenant \in Nat /\ \A c \in x.configs : c.config.tenant = x.tenant

\* The rows an admin's request answers with, which no step changes.
AnsweredKinds == {"config_snapshot", "emergency_operation"}
IsAnswer(d, t, kind, id) ==
    kind \in AnsweredKinds /\ id \in 1 .. Len(d[kind]) /\ d[kind][id].tenant = t

\* The steps of an admin's request: what each is ready to do.
HasEmergency(a, x) == "row" \in DOMAIN x /\ RowOK(x.row) /\ x.row.tenant = TenantOf[a]
GoesOn(a, x) ==
    "then" \in DOMAIN x /\ (x.then = "finish" \/ (x.then = "emergency" /\ HasEmergency(a, x)))
HasSnapshot(d, a, x) ==
    LET s == d["config_snapshot"]
    IN /\ {"kind", "id", "snapshot_id", "snapshot"} \subseteq DOMAIN x
       /\ x.kind = "config_snapshot" /\ x.id = x.snapshot_id
       /\ x.id \in SnapshotsOf(s, TenantOf[a])
       /\ s[x.id].f.version = x.snapshot.f.version
AdminReady(d, a, x) ==
    /\ {"pc", "key"} \subseteq DOMAIN x /\ "tenant" \notin DOMAIN x
    /\ x.key \in Keys \cup {NoKey}
    /\ \/ /\ Pending(x) /\ ~ Holds(x) /\ GoesOn(a, x)
          /\ {"kind", "snapshot"} \subseteq DOMAIN x /\ x.kind = "config_snapshot"
          /\ RowOK(x.snapshot) /\ x.snapshot.tenant = TenantOf[a]
          /\ SnapshotOK(d["config_snapshot"], x.snapshot)
       \/ /\ x.pc \in {"set_pointer", "push_invalidation", "set_latest"}
          /\ GoesOn(a, x) /\ HasSnapshot(d, a, x)
       \/ /\ x.pc = "write" /\ ~ Holds(x) /\ {"kind", "id", "then"} \subseteq DOMAIN x
          /\ x.then = "drain" /\ HasEmergency(a, x) /\ x.kind = "provider_endpoint"
          /\ x.id \in 1 .. Len(d["provider_endpoint"])
       \/ x.pc = "drain" /\ ~ Holds(x) /\ HasEmergency(a, x)
       \/ x.pc = "emergency" /\ HasEmergency(a, x)
       \/ /\ x.pc = "finish" /\ {"kind", "id"} \subseteq DOMAIN x
          /\ IsAnswer(d, TenantOf[a], x.kind, x.id)

Ready(d, a, x) ==
    x = NoOp \/ AdminReady(d, a, x) \/ RequestReady(d["config_snapshot"], x) \/ ExportReady(x)
OpsReady(d, o) == DOMAIN o = Admins /\ \A a \in Admins : Ready(d, a, o[a])

RecordsOK(d, i) ==
    \A r \in i : \E k, id : r.response = <<k, id>> /\ IsAnswer(d, r.tenant, k, id)

EvidenceOK(d) ==
    /\ \A i \in 1 .. Len(d["worker_reload"]) :
         LET row == d["worker_reload"][i] IN row.f.worker \in Workers /\ row.f.missed \in Nat
    /\ \A i \in 1 .. Len(d["otel_health"]) :
         LET row == d["otel_health"][i]
         IN /\ row.f.failures \in Nat
            /\ (row.f.failures = 0) = (row.status \in {"succeeded", "disabled"})

StateOK(d, o, i) ==
    /\ DbOK(d) /\ PublicationOK(d, o) /\ DecisionsOK(d) /\ OpsReady(d, o) /\ RecordsOK(d, i)
    /\ EvidenceOK(d)
ClockOK == scenario \in Scenarios /\ clock \in 0 .. scenario.horizon
Inv == StateOK(db, op, idem) /\ ClockOK /\ AnswersStayInTenant

-----------------------------------------------------------------------------
(* Tables                                                                  *)

LEMMA KindsKnown == RuntimeKinds \subseteq Kinds
BY RuntimeAssumption

LEMMA RowsAreSeq ==
    ASSUME NEW rows, IsRows(rows)
    PROVE  Len(rows) \in Nat /\ DOMAIN rows = 1 .. Len(rows)
BY DEF IsRows

LEMMA TablesAreSeq ==
    ASSUME NEW d, DbOK(d)
    PROVE  \A k \in RuntimeKinds : Len(d[k]) \in Nat /\ DOMAIN d[k] = 1 .. Len(d[k]) /\ IsRows(d[k])
BY RowsAreSeq, KindsKnown DEF DbOK

LEMMA NewRowOK ==
    ASSUME NEW t \in Nat, NEW f, NEW status
    PROVE  /\ RowOK(NewRow(t, f, status)) /\ NewRow(t, f, status).tenant = t
           /\ NewRow(t, f, status).f = f /\ NewRow(t, f, status).status = status
BY DEF RowOK, NewRow

\* A table with more rows at its end.
Longer(rows, new) == Len(rows) <= Len(new) /\ \A i \in 1 .. Len(rows) : new[i] = rows[i]

LEMMA AppendRows ==
    ASSUME NEW rows, NEW row, IsRows(rows), RowOK(row)
    PROVE  /\ IsRows(Append(rows, row))
           /\ Len(Append(rows, row)) = Len(rows) + 1
           /\ Longer(rows, Append(rows, row))
           /\ Append(rows, row)[Len(rows) + 1] = row
<1> DEFINE new == Append(rows, row)
           S == {rows[i] : i \in DOMAIN rows} \cup {row}
<1>1. rows \in Seq(S) /\ row \in S
    BY DEF IsRows
<1>2. /\ new \in Seq(S) /\ Len(new) = Len(rows) + 1 /\ DOMAIN new = 1 .. Len(new)
      /\ \A i \in 1 .. Len(rows) : new[i] = rows[i]
      /\ new[Len(rows) + 1] = row
  <2> HIDE DEF S
  <2> QED
      BY <1>1
<1>3. Len(rows) \in Nat /\ DOMAIN rows = 1 .. Len(rows)
    BY RowsAreSeq
<1> HIDE DEF new
<1>4. \A i \in DOMAIN new : new[i] = row \/ (i \in DOMAIN rows /\ new[i] = rows[i])
    BY <1>2, <1>3
<1>5. new \in Seq({new[i] : i \in DOMAIN new})
    BY <1>2
<1>6. \A i \in DOMAIN new : RowOK(new[i])
    BY <1>4 DEF IsRows
<1>7. Longer(rows, new)
    BY <1>2, <1>3 DEF Longer
<1> QED
    BY <1>2, <1>5, <1>6, <1>7 DEF IsRows, new

\* "new" has the same number of rows, each well-formed.
LEMMA MappedRows ==
    ASSUME NEW new, NEW n \in Nat, new = [i \in 1 .. n |-> new[i]],
           \A i \in 1 .. n : RowOK(new[i])
    PROVE  IsRows(new) /\ Len(new) = n
<1> DEFINE S == {new[j] : j \in DOMAIN new}
<1>1. DOMAIN new = 1 .. n
    OBVIOUS
<1>2. \A j \in 1 .. n : new[j] \in S
    BY <1>1
<1> HIDE DEF S
<1>3. new \in [1 .. n -> S]
    BY <1>2
<1>4. new \in Seq(S) /\ Len(new) = n
    BY <1>3
<1> QED
    BY <1>1, <1>4 DEF IsRows, S

\* A row is replaced in a table, or added to it.
Put(rows, new, row) ==
    \/ new = Append(rows, row)
    \/ \E i \in DOMAIN rows : new = [rows EXCEPT ![i] = row]

LEMMA PutRows ==
    ASSUME NEW rows, NEW new, NEW row, IsRows(rows), RowOK(row), Put(rows, new, row)
    PROVE  /\ IsRows(new) /\ Len(rows) <= Len(new)
           /\ \A i \in 1 .. Len(new) : new[i] = row \/ (i \in 1 .. Len(rows) /\ new[i] = rows[i])
<1>1. Len(rows) \in Nat /\ DOMAIN rows = 1 .. Len(rows)
    BY RowsAreSeq
<1>2. CASE new = Append(rows, row)
  <2>1. /\ IsRows(new) /\ Len(new) = Len(rows) + 1 /\ Longer(rows, new)
        /\ new[Len(rows) + 1] = row
      BY <1>2, AppendRows
  <2> QED
      BY <1>1, <2>1 DEF Longer
<1>3. ASSUME NEW i \in DOMAIN rows, new = [rows EXCEPT ![i] = row]
      PROVE  /\ IsRows(new) /\ Len(new) = Len(rows)
             /\ \A j \in 1 .. Len(rows) : new[j] = row \/ new[j] = rows[j]
  <2>1. /\ new = [j \in 1 .. Len(rows) |-> new[j]]
        /\ \A j \in 1 .. Len(rows) : new[j] = row \/ new[j] = rows[j]
      BY <1>1, <1>3
  <2>2. \A j \in 1 .. Len(rows) : RowOK(new[j])
      BY <1>1, <2>1 DEF IsRows
  <2> QED
      BY <1>1, <2>1, <2>2, MappedRows
<1> QED
    BY <1>1, <1>2, <1>3 DEF Put

\* A step that changes only one table, and leaves rows in it.
Changes(d, e, k) ==
    /\ DOMAIN e = Kinds /\ IsRows(e[k]) /\ \A j \in Kinds \ {k} : e[j] = d[j]

LEMMA ChangesOK ==
    ASSUME NEW d, NEW e, NEW k \in Kinds, DbOK(d), Changes(d, e, k)
    PROVE  DbOK(e)
BY DEF DbOK, Changes

LEMMA AppendChanges ==
    ASSUME NEW d, NEW e, NEW k \in Kinds, NEW row, DbOK(d), RowOK(row),
           e = [d EXCEPT ![k] = Append(@, row)]
    PROVE  /\ Changes(d, e, k) /\ e[k] = Append(d[k], row)
           /\ Longer(d[k], e[k]) /\ Len(e[k]) = Len(d[k]) + 1 /\ e[k][Len(d[k]) + 1] = row
<1>1. DOMAIN e = Kinds /\ e[k] = Append(d[k], row) /\ \A j \in Kinds \ {k} : e[j] = d[j]
    BY DEF DbOK
<1>2. IsRows(d[k])
    BY DEF DbOK
<1> QED
    BY <1>1, <1>2, AppendRows DEF Changes

LEMMA PutChanges ==
    ASSUME NEW d, NEW e, NEW k \in Kinds, NEW row, NEW new, DbOK(d), RowOK(row),
           e = [d EXCEPT ![k] = new], Put(d[k], new, row)
    PROVE  /\ Changes(d, e, k) /\ e[k] = new /\ Len(d[k]) <= Len(e[k])
           /\ \A i \in 1 .. Len(e[k]) : e[k][i] = row \/ (i \in 1 .. Len(d[k]) /\ e[k][i] = d[k][i])
<1>1. DOMAIN e = Kinds /\ e[k] = new /\ \A j \in Kinds \ {k} : e[j] = d[j]
    BY DEF DbOK
<1>2. IsRows(d[k])
    BY DEF DbOK
<1>3. /\ IsRows(new) /\ Len(d[k]) <= Len(new)
      /\ \A i \in 1 .. Len(new) : new[i] = row \/ (i \in 1 .. Len(d[k]) /\ new[i] = d[k][i])
    BY <1>2, PutRows
<1> QED
    BY <1>1, <1>3 DEF Changes

-----------------------------------------------------------------------------
(* What stays true when tables grow                                        *)

LEMMA OverlapKept ==
    ASSUME NEW s, NEW n, Len(s) \in Nat, Len(n) \in Nat, Longer(s, n),
           NEW p \in 1 .. Len(s), OverlappedIn(s, p)
    PROVE  OverlappedIn(n, p)
BY DEF OverlappedIn, SnapshotsOf, Longer

LEMMA AfterKept ==
    ASSUME NEW s, NEW n, Len(s) \in Nat, Len(n) \in Nat, Longer(s, n),
           NEW version, NEW earlier, earlier \subseteq 1 .. Len(s), After(s, version, earlier)
    PROVE  After(n, version, earlier)
BY OverlapKept DEF After, Longer

LEMMA SnapshotKept ==
    ASSUME NEW s, NEW n, Len(s) \in Nat, Len(n) \in Nat, Longer(s, n),
           NEW row, SnapshotOK(s, row)
    PROVE  SnapshotOK(n, row)
<1>1. row.f.earlier \subseteq 1 .. Len(s) /\ row.f.earlier \subseteq SnapshotsOf(n, row.tenant)
    BY DEF SnapshotOK, SnapshotsOf, Longer
<1> QED
    BY <1>1, AfterKept DEF SnapshotOK

LEMMA PlanKept ==
    ASSUME NEW s, NEW n, Len(s) \in Nat, Len(n) \in Nat, Longer(s, n),
           NEW snapshot, NEW settled, NotReplaced(s, snapshot, settled)
    PROVE  NotReplaced(n, snapshot, settled)
BY DEF NotReplaced, Longer

LEMMA LeadKept ==
    ASSUME NEW s, NEW n, Len(s) \in Nat, Len(n) \in Nat, Longer(s, n), NEW rows, LeadOK(s, rows)
    PROVE  LeadOK(n, rows)
BY DEF LeadOK, SnapshotsOf, Longer

\* The tables whose rows a request in flight relies on have grown at most.
Grown(d, e) ==
    /\ Longer(d["config_snapshot"], e["config_snapshot"])
    /\ Longer(d["emergency_operation"], e["emergency_operation"])
    /\ Len(d["provider_endpoint"]) <= Len(e["provider_endpoint"])

LEMMA AnswerKept ==
    ASSUME NEW d, NEW e, DbOK(d), DbOK(e), Grown(d, e), NEW t, NEW k, NEW id, IsAnswer(d, t, k, id)
    PROVE  IsAnswer(e, t, k, id)
<1>1. Len(d[k]) \in Nat /\ Len(e[k]) \in Nat
    BY TablesAreSeq DEF IsAnswer, AnsweredKinds, RuntimeKinds
<1>2. Longer(d[k], e[k])
    BY DEF IsAnswer, AnsweredKinds, Grown
<1> QED
    BY <1>1, <1>2 DEF IsAnswer, Longer

LEMMA RecordsKept ==
    ASSUME NEW d, NEW e, DbOK(d), DbOK(e), Grown(d, e), NEW i, NEW j, RecordsOK(d, i),
           j \subseteq i
    PROVE  RecordsOK(e, j)
BY AnswerKept DEF RecordsOK

LEMMA ReadyKept ==
    ASSUME NEW d, NEW e, DbOK(d), DbOK(e), Grown(d, e), NEW a, NEW x, Ready(d, a, x)
    PROVE  Ready(e, a, x)
<1> DEFINE s == d["config_snapshot"]
           n == e["config_snapshot"]
<1>1. /\ Len(s) \in Nat /\ Len(n) \in Nat
      /\ Len(d["provider_endpoint"]) \in Nat /\ Len(e["provider_endpoint"]) \in Nat
    BY TablesAreSeq DEF RuntimeKinds
<1>2. Longer(s, n) /\ Len(d["provider_endpoint"]) <= Len(e["provider_endpoint"])
    BY DEF Grown
<1>3. ASSUME RequestReady(s, x) PROVE RequestReady(n, x)
  <2> HIDE DEF s, n
  <2> QED
      BY <1>1, <1>2, <1>3, PlanKept DEF RequestReady, Planned
<1>4. ASSUME AdminReady(d, a, x) PROVE AdminReady(e, a, x)
  <2>1. SnapshotOK(s, x.snapshot) => SnapshotOK(n, x.snapshot)
    <3> HIDE DEF s, n
    <3> QED
        BY <1>1, <1>2, SnapshotKept
  <2>2. HasSnapshot(d, a, x) => HasSnapshot(e, a, x)
    <3>1. \A i \in SnapshotsOf(s, TenantOf[a]) : i \in SnapshotsOf(n, TenantOf[a]) /\ n[i] = s[i]
      <4> HIDE DEF s, n
      <4> QED
          BY <1>1, <1>2 DEF SnapshotsOf, Longer
    <3> QED
        BY <3>1 DEF HasSnapshot
  <2>3. IsAnswer(d, TenantOf[a], x.kind, x.id) => IsAnswer(e, TenantOf[a], x.kind, x.id)
      BY AnswerKept
  <2>4. x.id \in 1 .. Len(d["provider_endpoint"]) => x.id \in 1 .. Len(e["provider_endpoint"])
      BY <1>1, <1>2
  <2> QED
      BY <1>4, <2>1, <2>2, <2>3, <2>4 DEF AdminReady
<1> QED
    BY <1>3, <1>4 DEF Ready

-----------------------------------------------------------------------------
(* The order of publication                                                *)

\* A step of a request that is not one of publication: it takes nothing into its
\* hands, does not begin to publish, and is not about to set the pointer.
Quiet(x, y) ==
    /\ Holds(y) => Holds(x) /\ y.snapshot_id = x.snapshot_id
    /\ Pending(y) => Pending(x) /\ y.snapshot = x.snapshot
    /\ x.pc = "set_pointer" => y.pc = "set_pointer" /\ y.snapshot_id = x.snapshot_id

LEMMA PublicationKept ==
    ASSUME NEW d, NEW e, NEW o, NEW u, PublicationOK(d, o),
           e["config_snapshot"] = d["config_snapshot"],
           e["config_publication"] = d["config_publication"],
           LeadOK(d["config_snapshot"], e["config_invalidation"]),
           LeadOK(d["config_snapshot"], e["latest_snapshot"]),
           \A b \in Admins : Quiet(o[b], u[b])
    PROVE  PublicationOK(e, u)
<1> DEFINE s == d["config_snapshot"]
           pointers == d["config_publication"]
<1>1. Unsettled(s, o) /\ Ahead(s, pointers, o)
    BY DEF PublicationOK
<1>2. Unsettled(s, u)
  <2> HIDE DEF s
  <2> QED
      BY <1>1 DEF Unsettled, Quiet
<1>3. Ahead(s, pointers, u)
  <2> HIDE DEF s, pointers
  <2>1. \A p : NotYetSet(o, p) => NotYetSet(u, p)
      BY DEF NotYetSet, Quiet
  <2> QED
      BY <1>1, <2>1 DEF Ahead
<1> QED
    BY <1>2, <1>3 DEF PublicationOK

\* A request that begins to publish counts as done what nobody has in his hands.
LEMMA PublicationBegun ==
    ASSUME NEW d, NEW o, NEW u, NEW a \in Admins, PublicationOK(d, o),
           o[a].pc # "set_pointer", ~ Holds(u[a]),
           \A b \in Admins :
             Pending(u[a]) /\ Holds(o[b]) => o[b].snapshot_id \notin u[a].snapshot.f.earlier,
           \A b \in Admins \ {a} : Quiet(o[b], u[b])
    PROVE  PublicationOK(d, u)
<1> DEFINE s == d["config_snapshot"]
           pointers == d["config_publication"]
<1>1. Unsettled(s, o) /\ Ahead(s, pointers, o)
    BY DEF PublicationOK
<1>2. Unsettled(s, u)
  <2> HIDE DEF s
  <2>1. ASSUME NEW b \in Admins, Holds(u[b])
        PROVE  b # a /\ Holds(o[b]) /\ u[b].snapshot_id = o[b].snapshot_id
      BY <2>1 DEF Quiet
  <2>2. ASSUME NEW b \in Admins, Holds(u[b]), NEW c \in Admins, Pending(u[c])
        PROVE  u[b].snapshot_id \notin u[c].snapshot.f.earlier
    <3>1. CASE c = a
        BY <2>1, <2>2, <3>1
    <3>2. CASE c # a
        BY <1>1, <2>1, <2>2, <3>2 DEF Unsettled, Quiet
    <3> QED
        BY <3>1, <3>2
  <2> QED
      BY <1>1, <2>1, <2>2 DEF Unsettled
<1>3. Ahead(s, pointers, u)
  <2> HIDE DEF s, pointers
  <2>1. \A p : NotYetSet(o, p) => NotYetSet(u, p)
      BY DEF NotYetSet, Quiet
  <2> QED
      BY <1>1, <2>1 DEF Ahead
<1> QED
    BY <1>2, <1>3 DEF PublicationOK

LEMMA PublicationPushed ==
    ASSUME NEW s, NEW n, NEW row, NEW pointers, NEW o, NEW u, NEW a \in Admins,
           Len(s) \in Nat, Len(n) = Len(s) + 1, Longer(s, n), n[Len(s) + 1] = row,
           SnapshotsOK(s), Unsettled(s, o), Ahead(s, pointers, o),
           Pending(o[a]), o[a].snapshot = row, SnapshotOK(s, row),
           \A c \in Admins : Pending(o[c]) => o[c].snapshot.f.earlier \subseteq 1 .. Len(s),
           u[a].pc = "set_pointer", u[a].snapshot_id = Len(s) + 1,
           \A b \in Admins \ {a} : u[b] = o[b]
    PROVE  SnapshotsOK(n) /\ Unsettled(n, u) /\ Ahead(n, pointers, u)
<1>1. SnapshotsOK(n)
  <2>1. \A q \in 1 .. Len(n) : SnapshotOK(s, n[q])
      BY DEF SnapshotsOK, Longer
  <2> QED
      BY <2>1, SnapshotKept DEF SnapshotsOK
<1>2. \A q \in 1 .. Len(n) : n[q] = row \/ (q \in 1 .. Len(s) /\ n[q] = s[q])
    BY DEF Longer
<1>3. \A q \in 1 .. Len(n) : n[q].f.earlier \subseteq 1 .. Len(s)
    BY <1>2 DEF SnapshotsOK, SnapshotOK, SnapshotsOf
<1>4. \A c \in Admins : Pending(u[c]) => c # a /\ Pending(o[c]) /\ u[c].snapshot = o[c].snapshot
    BY DEF Pending
<1>5. Unsettled(n, u)
  <2>1. ASSUME NEW b \in Admins \ {a}, Holds(u[b])
        PROVE  /\ \A q \in 1 .. Len(n) : u[b].snapshot_id \notin n[q].f.earlier
               /\ \A c \in Admins : Pending(u[c]) =>
                    u[b].snapshot_id \notin u[c].snapshot.f.earlier
    <3>1. u[b] = o[b] /\ u[b].snapshot_id \notin row.f.earlier
        BY <2>1 DEF Unsettled
    <3>2. \A q \in 1 .. Len(s) : u[b].snapshot_id \notin s[q].f.earlier
        BY <2>1, <3>1 DEF Unsettled
    <3>3. \A c \in Admins : Pending(o[c]) => u[b].snapshot_id \notin o[c].snapshot.f.earlier
        BY <2>1, <3>1 DEF Unsettled
    <3> QED
        BY <1>2, <1>4, <3>1, <3>2, <3>3
  <2>2. /\ \A q \in 1 .. Len(n) : u[a].snapshot_id \notin n[q].f.earlier
        /\ \A c \in Admins : Pending(u[c]) => u[a].snapshot_id \notin u[c].snapshot.f.earlier
      BY <1>3, <1>4
  <2> QED
      BY <2>1, <2>2 DEF Unsettled
<1>6. Ahead(n, pointers, u)
  <2>1. \A p : NotYetSet(o, p) => NotYetSet(u, p)
      BY DEF NotYetSet, Pending
  <2>2. NotYetSet(u, Len(s) + 1)
      BY DEF NotYetSet
  <2> QED
      BY <2>1, <2>2 DEF Ahead, Longer
<1> QED
    BY <1>1, <1>5, <1>6

\* The pointer of the row's tenant is replaced, or becomes the first one.
PointerSet(pointers, new, row) ==
    \/ new = Append(pointers, row) /\ \A i \in DOMAIN pointers : pointers[i].tenant # row.tenant
    \/ \E i \in DOMAIN pointers :
         pointers[i].tenant = row.tenant /\ new = [pointers EXCEPT ![i] = row]

LEMMA PointerSetOK ==
    ASSUME NEW pointers, NEW new, NEW row, IsRows(pointers), RowOK(row), OnePointer(pointers),
           PointerSet(pointers, new, row)
    PROVE  /\ IsRows(new) /\ OnePointer(new) /\ Put(pointers, new, row)
           /\ \E m \in 1 .. Len(new) : new[m] = row
           /\ \A i \in 1 .. Len(pointers) :
                pointers[i].tenant # row.tenant => \E j \in 1 .. Len(new) : new[j] = pointers[i]
<1>1. Len(pointers) \in Nat /\ DOMAIN pointers = 1 .. Len(pointers)
    BY RowsAreSeq
<1>2. Put(pointers, new, row)
    BY DEF Put, PointerSet
<1>3. IsRows(new)
    BY <1>2, PutRows
<1>4. CASE /\ new = Append(pointers, row)
           /\ \A i \in DOMAIN pointers : pointers[i].tenant # row.tenant
  <2>1. Len(new) = Len(pointers) + 1 /\ Longer(pointers, new) /\ new[Len(pointers) + 1] = row
      BY <1>4, AppendRows
  <2>2. OnePointer(new)
      BY <1>1, <1>4, <2>1 DEF OnePointer, Longer
  <2> QED
      BY <1>1, <1>2, <1>3, <2>1, <2>2 DEF Longer
<1>5. ASSUME NEW i \in DOMAIN pointers, pointers[i].tenant = row.tenant,
             new = [pointers EXCEPT ![i] = row]
      PROVE  /\ OnePointer(new)
             /\ \E m \in 1 .. Len(new) : new[m] = row
             /\ \A k \in 1 .. Len(pointers) :
                  pointers[k].tenant # row.tenant => \E j \in 1 .. Len(new) : new[j] = pointers[k]
  <2>1. /\ new = [j \in 1 .. Len(pointers) |-> new[j]]
        /\ \A j \in 1 .. Len(pointers) : new[j] = IF j = i THEN row ELSE pointers[j]
      BY <1>1, <1>5
  <2>2. \A j \in 1 .. Len(pointers) : RowOK(new[j])
      BY <1>1, <2>1 DEF IsRows
  <2>3. Len(new) = Len(pointers)
      BY <1>1, <2>1, <2>2, MappedRows
  <2> QED
      BY <1>1, <1>5, <2>1, <2>3 DEF OnePointer
<1> QED
    BY <1>2, <1>3, <1>4, <1>5 DEF PointerSet

LEMMA AheadSet ==
    ASSUME NEW s, NEW pointers, NEW new, NEW row, NEW o, NEW u, NEW a \in Admins,
           Unsettled(s, o), Ahead(s, pointers, o),
           \E m \in 1 .. Len(new) : new[m] = row,
           \A i \in 1 .. Len(pointers) :
             pointers[i].tenant # row.tenant => \E j \in 1 .. Len(new) : new[j] = pointers[i],
           Holds(o[a]), o[a].snapshot_id \in SnapshotsOf(s, row.tenant),
           row.f.snapshot = o[a].snapshot_id,
           \A b \in Admins \ {a} : u[b] = o[b]
    PROVE  Ahead(s, new, u)
<1> SUFFICES ASSUME NEW p \in 1 .. Len(s), ~ NotYetSet(u, p)
             PROVE  \E j \in 1 .. Len(new) :
                      new[j].tenant = s[p].tenant /\ new[j].f.snapshot \notin s[p].f.earlier
    BY DEF Ahead
<1>1. row.f.snapshot \notin s[p].f.earlier
    BY DEF Unsettled
<1>2. PICK m \in 1 .. Len(new) : new[m] = row
    OBVIOUS
<1>3. CASE NotYetSet(o, p)
  <2>1. o[a].snapshot_id = p
      BY <1>3 DEF NotYetSet
  <2>2. row.tenant = s[p].tenant
      BY <2>1 DEF SnapshotsOf
  <2> QED
      BY <1>1, <1>2, <2>2
<1>4. CASE ~ NotYetSet(o, p)
  <2>1. PICK i \in 1 .. Len(pointers) :
           pointers[i].tenant = s[p].tenant /\ pointers[i].f.snapshot \notin s[p].f.earlier
      BY <1>4 DEF Ahead
  <2>2. CASE pointers[i].tenant = row.tenant
      BY <1>1, <1>2, <2>1, <2>2
  <2>3. CASE pointers[i].tenant # row.tenant
      BY <2>1, <2>3
  <2> QED
      BY <2>2, <2>3
<1> QED
    BY <1>3, <1>4

LEMMA LeadSet ==
    ASSUME NEW s, NEW rows, NEW new, NEW row, LeadOK(s, rows),
           row.f.snapshot \in SnapshotsOf(s, row.tenant),
           s[row.f.snapshot].f.version = row.f.version,
           \A i \in 1 .. Len(new) : new[i] = row \/ (i \in 1 .. Len(rows) /\ new[i] = rows[i])
    PROVE  LeadOK(s, new)
BY DEF LeadOK

-----------------------------------------------------------------------------
(* What a publication and a request are planned under                      *)

\* Among finitely many snapshots there is a newest one.
LEMMA NewestIn ==
    ASSUME NEW ids, ids \subseteq 1 .. Len(db["config_snapshot"]), ids # {},
           Len(db["config_snapshot"]) \in Nat,
           \A id \in ids : Row("config_snapshot", id).f.version \in Nat
    PROVE  Newest("config_snapshot", ids) \in ids
<1> DEFINE V(id) == Row("config_snapshot", id).f.version
           Newer(x, y) == V(y) < V(x) \/ (V(y) = V(x) /\ y < x)
           U(y) == {x \in ids : Newer(x, y)}
           T == {U(y) : y \in ids}
           R == StrictSubsetOrdering(ids)
<1>1. \A id \in ids : V(id) \in Nat /\ id \in Nat
    OBVIOUS
<1> HIDE DEF V
<1>2. IsFiniteSet(ids)
  <2>1. IsFiniteSet(1 .. Len(db["config_snapshot"]))
      BY FS_Interval
  <2> QED
      BY <2>1, FS_Subset
<1>3. IsWellFoundedOn(R, SUBSET ids)
  <2>1. FiniteSubsetsOf(ids) = SUBSET ids
      BY <1>2, FS_FiniteSubsetsOfFinite
  <2>2. IsWellFoundedOn(R, FiniteSubsetsOf(ids))
      BY FS_StrictSubsetOrderingWellFounded, Zenon
  <2> QED
      BY <2>1, <2>2, Zenon
<1>4. T \subseteq SUBSET ids /\ T # {}
    OBVIOUS
<1>5. PICK u \in T : \A v \in T : ~ (<<v, u>> \in R)
  <2> HIDE DEF T, R
  <2> QED
      BY <1>3, <1>4, WFMin, Zenon
<1>6. PICK y \in ids : u = U(y)
    OBVIOUS
<1>7. ASSUME NEW x \in ids, Newer(x, y) PROVE FALSE
  <2>1. U(x) \subseteq U(y) /\ U(x) # U(y)
    <3>1. \A z \in ids : Newer(z, x) => Newer(z, y)
        BY <1>1, <1>7
    <3>2. x \in U(y) /\ x \notin U(x)
        BY <1>1, <1>7
    <3> QED
        BY <3>1, <3>2
  <2>2. U(x) \in T /\ <<U(x), u>> \in R
      BY <1>6, <2>1 DEF StrictSubsetOrdering
  <2> QED
      BY <1>5, <2>2
<1>8. \A x \in ids : V(x) < V(y) \/ (V(x) = V(y) /\ x <= y)
    BY <1>1, <1>7
<1> QED
    BY <1>8 DEF Newest, V

LEMMA ReadyAtSet ==
    ASSUME NEW d, NEW a, NEW x, Ready(d, a, x), x.pc = "set_pointer"
    PROVE  Holds(x) /\ HasSnapshot(d, a, x) /\ GoesOn(a, x) /\ AdminReady(d, a, x)
BY DEF Ready, AdminReady, RequestReady, ExportReady, Pending, RequestPcs, NoOp, HasSnapshot, Holds

\* A settled snapshot is in nobody's hands.
LEMMA SettledFree ==
    ASSUME OpsReady(db, op), NEW t, NEW q \in Settled(t)
    PROVE  /\ q \in SnapshotsOf(db["config_snapshot"], t)
           /\ \A b \in Admins : Holds(op[b]) => op[b].snapshot_id # q
           /\ ~ NotYetSet(op, q)
<1>1. q \in SnapshotsOf(db["config_snapshot"], t)
    BY DEF Settled, OfTenant, SnapshotsOf, Ids, Row
<1>2. \A b \in Admins : Holds(op[b]) => op[b] # NoOp
    BY DEF Holds, NoOp
<1>3. \A b \in Admins : Holds(op[b]) => op[b].snapshot_id # q
    BY <1>2 DEF Settled, InFlight, Holds
<1>4. ~ NotYetSet(op, q)
    BY <1>3, ReadyAtSet DEF NotYetSet, OpsReady
<1> QED
    BY <1>1, <1>3, <1>4

\* The snapshot that is read is one of the tenant, and none that was done before a
\* settled one.
LEMMA LatestPublished ==
    ASSUME DbOK(db), PublicationOK(db, op), OpsReady(db, op), NEW t
    PROVE  LET s == db["config_snapshot"]
               latest == LatestPublishedSnapshotForTenant(t)
           IN /\ latest = None \/ latest \in SnapshotsOf(s, t)
              /\ \A q \in Settled(t) : latest # None /\ latest \notin s[q].f.earlier
<1> DEFINE s == db["config_snapshot"]
           pointers == db["config_publication"]
           latest == LatestPublishedSnapshotForTenant(t)
           mine == OfTenant("config_publication", t)
<1>1. Len(s) \in Nat /\ Len(pointers) \in Nat
    BY TablesAreSeq DEF RuntimeKinds
<1>2. SnapshotsOf(s, t) = OfTenant("config_snapshot", t)
    BY DEF SnapshotsOf, OfTenant, Ids, Row
<1>3. mine = {i \in 1 .. Len(pointers) : pointers[i].tenant = t}
    BY DEF OfTenant, Ids, Row
<1>4. CASE mine # {}
  <2>1. PICK i \in mine : latest = pointers[i].f.snapshot
      BY <1>4 DEF LatestPublishedSnapshotForTenant, Row
  <2>2. latest \in SnapshotsOf(s, t)
    <3>1. LeadOK(s, pointers) /\ i \in 1 .. Len(pointers) /\ pointers[i].tenant = t
        BY <1>3, <2>1 DEF PublicationOK
    <3> HIDE DEF s, pointers, latest
    <3> QED
        BY <2>1, <3>1 DEF LeadOK
  <2>3. latest # None
      BY <1>1, <2>2 DEF SnapshotsOf
  <2>4. ASSUME NEW q \in Settled(t) PROVE latest \notin s[q].f.earlier
    <3>1. q \in SnapshotsOf(s, t) /\ ~ NotYetSet(op, q)
        BY SettledFree
    <3>2. Ahead(s, pointers, op) /\ OnePointer(pointers)
        BY DEF PublicationOK
    <3>3. PICK j \in 1 .. Len(pointers) :
             pointers[j].tenant = s[q].tenant /\ pointers[j].f.snapshot \notin s[q].f.earlier
        BY <3>1, <3>2 DEF Ahead, SnapshotsOf
    <3>4. j = i
        BY <1>3, <2>1, <3>1, <3>2, <3>3 DEF OnePointer, SnapshotsOf
    <3> QED
        BY <2>1, <3>3, <3>4
  <2> QED
      BY <2>2, <2>3, <2>4
<1>5. CASE mine = {}
  <2>1. ASSUME NEW q \in Settled(t) PROVE FALSE
    <3>1. q \in SnapshotsOf(s, t) /\ ~ NotYetSet(op, q)
        BY SettledFree
    <3>2. \E j \in 1 .. Len(pointers) : pointers[j].tenant = s[q].tenant
        BY <3>1 DEF Ahead, SnapshotsOf, PublicationOK
    <3> QED
        BY <1>3, <1>5, <3>1, <3>2 DEF SnapshotsOf
  <2>2. CASE SnapshotsOf(s, t) = {}
    <3>1. latest = None
        BY <1>2, <1>5, <2>2 DEF LatestPublishedSnapshotForTenant
    <3> QED
        BY <2>1, <3>1
  <2>3. CASE SnapshotsOf(s, t) # {}
    <3>1. latest = Newest("config_snapshot", SnapshotsOf(s, t))
        BY <1>2, <1>5, <2>3 DEF LatestPublishedSnapshotForTenant
    <3>2. /\ SnapshotsOf(s, t) \subseteq 1 .. Len(s)
          /\ \A id \in SnapshotsOf(s, t) : Row("config_snapshot", id).f.version \in Nat
        BY DEF SnapshotsOf, PublicationOK, SnapshotsOK, SnapshotOK, Row
    <3>3. latest \in SnapshotsOf(s, t)
        BY <1>1, <2>3, <3>1, <3>2, NewestIn
    <3> QED
        BY <2>1, <3>3
  <2> QED
      BY <2>2, <2>3
<1> QED
    BY <1>4, <1>5

\* The version of the next snapshot comes after those that are settled.
LEMMA NextVersionAfter ==
    ASSUME DbOK(db), PublicationOK(db, op), OpsReady(db, op), NEW t
    PROVE  /\ NextVersion(t) \in Nat
           /\ Settled(t) \subseteq SnapshotsOf(db["config_snapshot"], t)
           /\ After(db["config_snapshot"], NextVersion(t), Settled(t))
<1> DEFINE s == db["config_snapshot"]
           latest == LatestPublishedSnapshotForTenant(t)
<1>1. /\ latest = None \/ latest \in SnapshotsOf(s, t)
      /\ \A q \in Settled(t) : latest # None /\ latest \notin s[q].f.earlier
    BY LatestPublished
<1>2. /\ \A q \in 1 .. Len(s) : s[q].f.version \in Nat
      /\ \A q \in 1 .. Len(s) : After(s, s[q].f.version, s[q].f.earlier)
    BY DEF PublicationOK, SnapshotsOK, SnapshotOK
<1>3. latest # None => latest \in 1 .. Len(s) /\ NextVersion(t) = s[latest].f.version + 1
    BY <1>1 DEF NextVersion, Row, SnapshotsOf
<1>4. NextVersion(t) \in Nat
  <2>1. CASE latest = None
      BY <2>1 DEF NextVersion
  <2>2. CASE latest # None
      BY <1>2, <1>3, <2>2
  <2> QED
      BY <2>1, <2>2
<1>5. ASSUME NEW p \in Settled(t)
      PROVE  /\ p \in SnapshotsOf(s, t)
             /\ NextVersion(t) > s[p].f.version \/ OverlappedIn(s, p)
  <2>1. p \in SnapshotsOf(s, t)
      BY SettledFree
  <2>2. latest \in SnapshotsOf(s, t) /\ latest \notin s[p].f.earlier
      BY <1>1
  <2>3. NextVersion(t) = s[latest].f.version + 1 /\ s[latest].f.version \in Nat /\ s[p].f.version \in Nat
      BY <1>1, <1>2, <1>3, <2>1, <2>2 DEF SnapshotsOf
  <2> HIDE DEF s, latest
  <2>4. CASE latest = p
      BY <2>1, <2>3, <2>4
  <2>5. CASE latest # p /\ p \in s[latest].f.earlier
    <3>1. s[latest].f.version > s[p].f.version \/ OverlappedIn(s, p)
        BY <1>2, <2>2, <2>5 DEF After, SnapshotsOf
    <3> QED
        BY <2>1, <2>3, <3>1
  <2>6. CASE latest # p /\ p \notin s[latest].f.earlier
    <3>1. OverlappedIn(s, p)
        BY <2>1, <2>2, <2>6 DEF OverlappedIn, SnapshotsOf
    <3> QED
        BY <2>1, <3>1
  <2> QED
      BY <2>4, <2>5, <2>6
<1> QED
    BY <1>4, <1>5 DEF After

LEMMA PublishDocumentReady ==
    ASSUME DbOK(db), PublicationOK(db, op), OpsReady(db, op), NEW a \in Admins,
           NEW payload, NEW source
    PROVE  LET x == PublishDocument(a, payload, source)
           IN /\ DOMAIN x = {"pc", "kind", "then", "before", "after", "snapshot"}
              /\ Pending(x) /\ x.kind = "config_snapshot" /\ x.then = "finish"
              /\ RowOK(x.snapshot) /\ x.snapshot.tenant = TenantOf[a]
              /\ SnapshotOK(db["config_snapshot"], x.snapshot)
              /\ x.snapshot.f.earlier = Settled(TenantOf[a])
<1> DEFINE t == TenantOf[a]
           f == [payload |-> payload, version |-> NextVersion(t), rollback_of |-> source,
                 earlier |-> Settled(t)]
           row == NewRow(t, f, "published")
           x == PublishDocument(a, payload, source)
<1>1. t \in Nat
    BY AdminAssumption
<1>2. /\ DOMAIN x = {"pc", "kind", "then", "before", "after", "snapshot"}
      /\ x.pc = "push_snapshot" /\ x.kind = "config_snapshot" /\ x.then = "finish"
      /\ x.snapshot = row
    BY DEF PublishDocument
<1>3. RowOK(row) /\ row.tenant = t /\ row.f = f
    BY <1>1, NewRowOK
<1>4. f.version = NextVersion(t) /\ f.earlier = Settled(t)
    OBVIOUS
<1>5. SnapshotOK(db["config_snapshot"], row)
    BY <1>3, <1>4, NextVersionAfter DEF SnapshotOK
<1> HIDE DEF f, row, x
<1>6. x.snapshot.f.earlier = Settled(t)
    BY <1>2, <1>3, <1>4
<1> QED
    BY <1>2, <1>3, <1>5, <1>6 DEF Pending, x

-----------------------------------------------------------------------------
(* Steps of one request                                                    *)

\* Tables that no publication, answer or evidence invariant is about change, or
\* grow as they may.
Benign(d, e) ==
    /\ DbOK(e) /\ DecisionsOK(e) /\ EvidenceOK(e) /\ Grown(d, e)
    /\ \A k \in {"config_snapshot", "config_publication", "config_invalidation",
                 "latest_snapshot"} : e[k] = d[k]

\* The tables of which something is said.
KnownKinds ==
    {"config_snapshot", "config_publication", "config_invalidation", "latest_snapshot",
     "emergency_operation", "provider_endpoint", "route_decision", "worker_reload", "otel_health"}

LEMMA LongerSelf ==
    ASSUME NEW rows, Len(rows) \in Nat
    PROVE  Longer(rows, rows)
BY DEF Longer

LEMMA GrownSelf ==
    ASSUME NEW d, NEW e, DbOK(d), e["config_snapshot"] = d["config_snapshot"],
           e["emergency_operation"] = d["emergency_operation"],
           e["provider_endpoint"] = d["provider_endpoint"]
    PROVE  Grown(d, e)
<1>1. /\ Len(d["config_snapshot"]) \in Nat /\ Len(d["emergency_operation"]) \in Nat
      /\ Len(d["provider_endpoint"]) \in Nat
    BY TablesAreSeq DEF RuntimeKinds
<1> QED
    BY <1>1, LongerSelf DEF Grown

LEMMA ChangesBenign ==
    ASSUME NEW d, NEW e, NEW k \in Kinds \ KnownKinds, DbOK(d), DecisionsOK(d), EvidenceOK(d),
           Changes(d, e, k)
    PROVE  Benign(d, e)
<1>1. \A j \in KnownKinds : e[j] = d[j]
    BY KindsKnown DEF Changes, KnownKinds, RuntimeKinds
<1>2. DbOK(e)
    BY ChangesOK
<1>3. Grown(d, e)
    BY <1>1, GrownSelf DEF KnownKinds
<1>4. DecisionsOK(e) /\ EvidenceOK(e)
    BY <1>1 DEF KnownKinds, DecisionsOK, EvidenceOK
<1> QED
    BY <1>1, <1>2, <1>3, <1>4 DEF Benign, KnownKinds

LEMMA SameBenign ==
    ASSUME NEW d, DbOK(d), DecisionsOK(d), EvidenceOK(d)
    PROVE  Benign(d, d)
BY GrownSelf DEF Benign

\* Only admin a's request moves.
Moves(o, u, a) == DOMAIN u = Admins /\ \A b \in Admins \ {a} : u[b] = o[b]

LEMMA QuietSelf == \A x : Quiet(x, x)
BY DEF Quiet

LEMMA BenignMove ==
    ASSUME NEW d, NEW e, NEW o, NEW u, NEW i, NEW j, NEW a \in Admins, StateOK(d, o, i),
           Benign(d, e), j \subseteq i, Moves(o, u, a), Quiet(o[a], u[a]), Ready(e, a, u[a])
    PROVE  StateOK(e, u, j)
<1>1. /\ DbOK(d) /\ PublicationOK(d, o) /\ OpsReady(d, o) /\ RecordsOK(d, i)
      /\ DbOK(e) /\ Grown(d, e) /\ DecisionsOK(e) /\ EvidenceOK(e)
    BY DEF StateOK, Benign
<1>2. /\ e["config_snapshot"] = d["config_snapshot"]
      /\ e["config_publication"] = d["config_publication"]
      /\ e["config_invalidation"] = d["config_invalidation"]
      /\ e["latest_snapshot"] = d["latest_snapshot"]
    BY DEF Benign
<1>3. \A b \in Admins : Quiet(o[b], u[b])
    BY QuietSelf DEF Moves
<1>4. PublicationOK(e, u)
  <2>1. /\ LeadOK(d["config_snapshot"], e["config_invalidation"])
        /\ LeadOK(d["config_snapshot"], e["latest_snapshot"])
      BY <1>1, <1>2 DEF PublicationOK
  <2> QED
      BY <1>1, <1>2, <1>3, <2>1, PublicationKept
<1>5. OpsReady(e, u)
  <2>1. ASSUME NEW b \in Admins \ {a} PROVE Ready(e, b, u[b])
    <3>1. Ready(d, b, o[b]) /\ u[b] = o[b]
        BY <1>1 DEF OpsReady, Moves
    <3> QED
        BY <1>1, <3>1, ReadyKept
  <2> QED
      BY <2>1 DEF OpsReady, Moves
<1>6. RecordsOK(e, j)
    BY <1>1, RecordsKept
<1> QED
    BY <1>1, <1>4, <1>5, <1>6 DEF StateOK

LEMMA MergeAt ==
    ASSUME NEW f, NEW g
    PROVE  /\ DOMAIN (f ++ g) = DOMAIN f \cup DOMAIN g
           /\ \A x \in DOMAIN f : (f ++ g)[x] = f[x]
           /\ \A x \in DOMAIN g \ DOMAIN f : (f ++ g)[x] = g[x]
BY DEF ++

LEMMA NoOpQuiet ==
    ASSUME NEW x, x.pc # "set_pointer"
    PROVE  Quiet(x, NoOp)
BY DEF Quiet, Holds, Pending, NoOp

LEMMA RequestQuiet ==
    ASSUME NEW s, NEW x, NEW y, x.pc # "set_pointer", RequestReady(s, y)
    PROVE  Quiet(x, y)
BY DEF Quiet, Holds, Pending, RequestReady, RequestPcs

LEMMA AtRequest ==
    ASSUME NEW d, NEW a, NEW x, Ready(d, a, x), x.pc \in RequestPcs \cup {"ws_idle"}
    PROVE  RequestReady(d["config_snapshot"], x)
BY DEF Ready, AdminReady, ExportReady, Pending, RequestPcs, NoOp

LEMMA RequestMerge ==
    ASSUME NEW s, NEW x, NEW more, RequestReady(s, x), Planned(s, x),
           DOMAIN more \cap {"key", "snapshot", "settled", "snapshot_id"} = {},
           (more ++ x).pc \in RequestPcs
    PROVE  RequestReady(s, more ++ x)
<1> DEFINE y == more ++ x
<1>1. DOMAIN y = DOMAIN more \cup DOMAIN x /\ \A z \in DOMAIN x \ DOMAIN more : y[z] = x[z]
    BY MergeAt
<1>2. y.pc \in RequestPcs
    OBVIOUS
<1> HIDE DEF y
<1>3. /\ {"pc", "key", "pinned", "snapshot", "settled"} \subseteq DOMAIN y
      /\ y.key = x.key /\ y.snapshot = x.snapshot /\ y.settled = x.settled
      /\ "snapshot_id" \notin DOMAIN y
    BY <1>1 DEF RequestReady, Planned, Holds
<1> QED
    BY <1>2, <1>3 DEF RequestReady, Planned, Holds, y

\* A step of a model request or turn: it goes on, ends, or begins.
RequestStep(a) ==
    /\ Benign(db, db') /\ idem' = idem /\ UNCHANGED <<clock, scenario>> /\ answer' = Nobody
    /\ Moves(op, op', a) /\ op[a].pc # "set_pointer"
    /\ op'[a] = NoOp \/ RequestReady(db'["config_snapshot"], op'[a])

LEMMA NobodyAnswered ==
    ASSUME answer' = Nobody
    PROVE  AnswersStayInTenant'
BY DEF AnswersStayInTenant, Nobody

LEMMA RequestStepOK ==
    ASSUME Inv, NEW a \in Admins, RequestStep(a)
    PROVE  Inv'
<1>1. Quiet(op[a], op'[a]) /\ Ready(db', a, op'[a])
    BY NoOpQuiet, RequestQuiet DEF RequestStep, Ready
<1>2. StateOK(db', op', idem')
    BY <1>1, BenignMove DEF Inv, RequestStep
<1>3. ClockOK'
    BY DEF Inv, ClockOK, RequestStep
<1>4. AnswersStayInTenant'
    BY NobodyAnswered DEF RequestStep
<1> QED
    BY <1>2, <1>3, <1>4 DEF Inv

-----------------------------------------------------------------------------
(* Requests                                                                *)

Goes(a) ==
    Moves(op, op', a) /\ (op'[a] = NoOp \/ RequestReady(db["config_snapshot"], op'[a]))

LEMMA OnlyOpFrame ==
    ASSUME OnlyOp
    PROVE  /\ db' = db /\ idem' = idem /\ clock' = clock /\ scenario' = scenario
           /\ answer' = Nobody
BY DEF OnlyOp, store, fixed
LEMMA OnlyStoreFrame ==
    ASSUME OnlyStore
    PROVE  idem' = idem /\ clock' = clock /\ scenario' = scenario /\ answer' = Nobody
BY DEF OnlyStore, fixed

LEMMA OpStepOK ==
    ASSUME Inv, NEW a \in Admins, Goes(a), op[a].pc # "set_pointer", OnlyOp
    PROVE  Inv'
<1>1. Benign(db, db')
    BY OnlyOpFrame, SameBenign DEF Inv, StateOK
<1>2. db'["config_snapshot"] = db["config_snapshot"]
    BY OnlyOpFrame
<1>3. RequestStep(a)
    BY <1>1, <1>2, OnlyOpFrame DEF RequestStep, Goes
<1> QED
    BY <1>3, RequestStepOK

LEMMA StoreStepOK ==
    ASSUME Inv, NEW a \in Admins, Goes(a), op[a].pc # "set_pointer", OnlyStore, Benign(db, db')
    PROVE  Inv'
<1>1. db'["config_snapshot"] = db["config_snapshot"]
    BY DEF Benign
<1>2. RequestStep(a)
    BY <1>1, OnlyStoreFrame DEF RequestStep, Goes
<1> QED
    BY <1>2, RequestStepOK

LEMMA InvParts ==
    ASSUME Inv
    PROVE  /\ DbOK(db) /\ PublicationOK(db, op) /\ DecisionsOK(db) /\ OpsReady(db, op)
           /\ RecordsOK(db, idem) /\ EvidenceOK(db) /\ DOMAIN op = Admins /\ DOMAIN db = Kinds
           /\ \A a \in Admins : Ready(db, a, op[a])
BY DEF Inv, StateOK, OpsReady, DbOK

LEMMA PlannedAt ==
    ASSUME Inv, NEW a \in Admins, op[a].pc \in RequestPcs
    PROVE  /\ RequestReady(db["config_snapshot"], op[a]) /\ Planned(db["config_snapshot"], op[a])
           /\ op[a].pc # "set_pointer"
<1>1. RequestReady(db["config_snapshot"], op[a])
    BY InvParts, AtRequest
<1> QED
    BY <1>1 DEF RequestReady, RequestPcs

LEMMA GoesTo ==
    ASSUME Inv, NEW a \in Admins, NEW y, op' = [op EXCEPT ![a] = y],
           y = NoOp \/ RequestReady(db["config_snapshot"], y)
    PROVE  Goes(a)
BY InvParts DEF Goes, Moves

LEMMA GoesOnWith ==
    ASSUME Inv, NEW a \in Admins, op[a].pc \in RequestPcs, NEW more,
           op' = [op EXCEPT ![a] = more ++ op[a]],
           DOMAIN more \cap {"key", "snapshot", "settled", "snapshot_id"} = {},
           "pc" \in DOMAIN more => more.pc \in RequestPcs
    PROVE  Goes(a)
<1>1. "pc" \in DOMAIN op[a]
    BY PlannedAt DEF RequestReady
<1>2. (more ++ op[a]).pc \in RequestPcs
  <2>1. PICK x : x = op[a]
      OBVIOUS
  <2>2. PICK y : y = more ++ x
      OBVIOUS
  <2>3. /\ \A z \in DOMAIN more : y[z] = more[z]
        /\ \A z \in DOMAIN x \ DOMAIN more : y[z] = x[z]
      BY <2>2 DEF ++
  <2>4. y.pc \in RequestPcs
      BY <1>1, <2>1, <2>3
  <2> QED
      BY <2>1, <2>2, <2>4
<1>3. RequestReady(db["config_snapshot"], more ++ op[a])
    BY <1>2, PlannedAt, RequestMerge
<1> QED
    BY <1>3, GoesTo

LEMMA ProceedsGoes ==
    ASSUME Inv, NEW a \in Admins, op[a].pc \in RequestPcs, NEW pc \in RequestPcs, Proceeds(a, pc)
    PROVE  Goes(a)
<1>1. PICK y : y = [op[a] EXCEPT !.pc = pc]
    OBVIOUS
<1>2. RequestReady(db["config_snapshot"], y)
    BY <1>1, PlannedAt DEF RequestReady, Planned, Holds
<1>3. op' = [op EXCEPT ![a] = y]
    BY <1>1 DEF Proceeds
<1> QED
    BY <1>2, <1>3, GoesTo

LEMMA ClosesGoes ==
    ASSUME Inv, NEW a \in Admins, Closes(a)
    PROVE  Goes(a)
BY GoesTo DEF Closes

LEMMA IdleReady ==
    ASSUME NEW s, NEW a \in Admins, RequestReady(s, op[a]),
           op[a].pc \in RequestPcs => Planned(s, op[a])
    PROVE  RequestReady(s, Idle(a))
<1>1. \A n : LET y == [op[a] EXCEPT !.pc = "ws_idle", !.turns = n]
             IN /\ DOMAIN y = DOMAIN op[a] /\ y.pc = "ws_idle"
                /\ \A z \in DOMAIN op[a] \ {"pc", "turns"} : y[z] = op[a][z]
    BY DEF RequestReady
<1>2. PICK y : y = Idle(a)
    OBVIOUS
<1>3. /\ DOMAIN y = DOMAIN op[a] /\ y.pc = "ws_idle"
      /\ \A z \in DOMAIN op[a] \ {"pc", "turns"} : y[z] = op[a][z]
    BY <1>1, <1>2 DEF Idle
<1>4. Planned(s, op[a]) => Planned(s, y)
    BY <1>3 DEF Planned
<1>5. RequestReady(s, y)
    BY <1>3, <1>4 DEF RequestReady, Holds, RequestPcs
<1> QED
    BY <1>2, <1>5

LEMMA EndsTurnGoes ==
    ASSUME Inv, NEW a \in Admins, op[a].pc \in RequestPcs, EndsTurn(a)
    PROVE  Goes(a)
<1>1. PICK y : y = (IF IsWebSocket(a) THEN Idle(a) ELSE NoOp)
    OBVIOUS
<1>2. y = NoOp \/ RequestReady(db["config_snapshot"], y)
    BY <1>1, PlannedAt, IdleReady
<1>3. op' = [op EXCEPT ![a] = y]
    BY <1>1 DEF EndsTurn
<1> QED
    BY <1>2, <1>3, GoesTo

\* A plan that has just been made is under the latest snapshot.
LEMMA LoadCatalogReady ==
    ASSUME Inv, NEW a \in Admins, NEW begun, NEW request,
           {"key", "pinned"} \subseteq DOMAIN begun, begun.key = NoKey, ~ Holds(begun)
    PROVE  \/ LoadCatalog(a, begun, request) = NoOp
           \/ RequestReady(db["config_snapshot"], LoadCatalog(a, begun, request))
<1> DEFINE s == db["config_snapshot"]
           id == LatestSnapshotForActor(TenantOf[a])
           fresh == [request |-> request, now |-> clock, next |-> 1, denied |-> FALSE,
                     blind |-> FALSE, sticky_version |-> None, selected |-> NoSelection,
                     settled |-> Settled(TenantOf[a]),
                     drains |-> Rows("endpoint_drain")]
           planned == [pc |-> "sticky", outcome |-> "none", snapshot |-> <<SnapshotKind, id>>,
                       version |-> Row(SnapshotKind, id).f.version] ++ fresh
           unrouted == [pc |-> "authorize", outcome |-> "unrouted",
                        snapshot |-> <<"none", None>>, version |-> None] ++ fresh
<1>1. LoadCatalog(a, begun, request) \in {unrouted ++ begun, planned ++ begun, NoOp}
    BY Zenon DEF LoadCatalog
<1>2. NotReplaced(s, <<SnapshotKind, id>>, Settled(TenantOf[a]))
  <2>1. SnapshotKind = "config_snapshot" => id = LatestPublishedSnapshotForTenant(TenantOf[a])
      BY DEF SnapshotKind, LatestSnapshotForActor
  <2>2. \A q \in Settled(TenantOf[a]) :
           q \in SnapshotsOf(s, TenantOf[a])
             /\ LatestPublishedSnapshotForTenant(TenantOf[a]) \notin s[q].f.earlier
      BY InvParts, SettledFree, LatestPublished
  <2> QED
      BY <2>1, <2>2 DEF NotReplaced, SnapshotsOf
<1>3. NotReplaced(s, <<"none", None>>, Settled(TenantOf[a]))
    BY DEF NotReplaced
<1>4. ASSUME NEW head, NEW snapshot, NotReplaced(s, snapshot, Settled(TenantOf[a])),
             DOMAIN head = {"pc", "outcome", "snapshot", "version"}, head.pc \in RequestPcs,
             head.snapshot = snapshot
      PROVE  RequestReady(s, (head ++ fresh) ++ begun)
  <2>1. PICK f : f = fresh
      OBVIOUS
  <2>2. /\ DOMAIN f = {"request", "now", "next", "denied", "blind", "sticky_version", "selected",
                       "settled", "drains"}
        /\ f.settled = Settled(TenantOf[a])
      BY <2>1
  <2> HIDE DEF fresh
  <2>3. PICK g : g = head ++ f
      OBVIOUS
  <2>4. /\ DOMAIN g = DOMAIN head \cup DOMAIN f
        /\ g.pc = head.pc /\ g.snapshot = snapshot /\ g.settled = Settled(TenantOf[a])
    <3>1. /\ DOMAIN g = DOMAIN head \cup DOMAIN f
          /\ \A z \in DOMAIN head : g[z] = head[z]
          /\ \A z \in DOMAIN f \ DOMAIN head : g[z] = f[z]
        BY <2>3 DEF ++
    <3> QED
        BY <1>4, <2>2, <3>1
  <2>5. PICK x : x = g ++ begun
      OBVIOUS
  <2>6. /\ DOMAIN x = DOMAIN g \cup DOMAIN begun
        /\ x.pc = head.pc /\ x.snapshot = snapshot /\ x.settled = Settled(TenantOf[a])
        /\ x.key = begun.key
    <3>1. /\ DOMAIN x = DOMAIN g \cup DOMAIN begun
          /\ \A z \in DOMAIN g : x[z] = g[z]
          /\ \A z \in DOMAIN begun \ DOMAIN g : x[z] = begun[z]
        BY <2>5 DEF ++
    <3> QED
        BY <1>4, <2>2, <2>4, <3>1
  <2>7. RequestReady(s, x)
      BY <1>4, <2>2, <2>4, <2>6 DEF RequestReady, Planned, Holds
  <2> QED
      BY <2>1, <2>3, <2>5, <2>7
<1>5. RequestReady(s, unrouted ++ begun)
  <2> HIDE DEF s, fresh
  <2> QED
      BY <1>3, <1>4 DEF RequestPcs
<1>6. RequestReady(s, planned ++ begun)
  <2> HIDE DEF s, fresh, id
  <2> QED
      BY <1>2, <1>4 DEF RequestPcs
<1> QED
  <2> HIDE DEF planned, unrouted
  <2> QED
      BY <1>1, <1>5, <1>6

\* A row is added to a table of which nothing else is said.
LEMMA AppendBenign ==
    ASSUME Inv, NEW k \in RuntimeKinds \ KnownKinds, NEW row, RowOK(row),
           db' = [db EXCEPT ![k] = Append(@, row)]
    PROVE  Benign(db, db')
<1>1. k \in Kinds
    BY KindsKnown
<1>2. Changes(db, db', k)
    BY <1>1, InvParts, AppendChanges
<1> QED
    BY <1>1, <1>2, InvParts, ChangesBenign

LEMMA PutBenign ==
    ASSUME Inv, NEW k \in RuntimeKinds \ KnownKinds, NEW row, NEW new, RowOK(row),
           db' = [db EXCEPT ![k] = new], Put(db[k], new, row)
    PROVE  Benign(db, db')
<1>1. k \in Kinds
    BY KindsKnown
<1>2. Changes(db, db', k)
    BY <1>1, InvParts, PutChanges
<1> QED
    BY <1>1, <1>2, InvParts, ChangesBenign

LEMMA UnchangedBenign ==
    ASSUME Inv, db' = db
    PROVE  Benign(db, db')
BY InvParts, SameBenign

LEMMA TenantRow ==
    ASSUME NEW a \in Admins, NEW f, NEW status
    PROVE  RowOK(NewRow(TenantOf[a], f, status)) /\ NewRow(TenantOf[a], f, status).f = f
BY AdminAssumption, NewRowOK

LEMMA CallingIdle ==
    ASSUME NEW a, NEW route, Calling(a, route)
    PROVE  op[a] = NoOp /\ op[a].pc # "set_pointer"
BY DEF Calling, NoOp

LEMMA BegunFields ==
    ASSUME NEW a, NEW route, NEW id, NEW more, DOMAIN more \subseteq {"pc"}
    PROVE  LET begun == Begun(a, route, id, more)
           IN /\ {"key", "pinned"} \subseteq DOMAIN begun /\ begun.key = NoKey /\ ~ Holds(begun)
              /\ begun.pinned = NoPin
              /\ "pc" \in DOMAIN more => "pc" \in DOMAIN begun /\ begun.pc = more.pc
<1> DEFINE rest == [route |-> route, scope |-> <<route>>, key |-> NoKey, kind |-> "request",
                    id |-> id, pinned |-> NoPin, turns |-> 0]
<1>1. PICK r : r = rest
    OBVIOUS
<1>2. /\ DOMAIN r = {"route", "scope", "key", "kind", "id", "pinned", "turns"}
      /\ r.key = NoKey /\ r.pinned = NoPin
    BY <1>1
<1>3. PICK begun : begun = more ++ r
    OBVIOUS
<1>4. Begun(a, route, id, more) = begun
    BY <1>1, <1>3 DEF Begun
<1> HIDE DEF rest
<1>5. /\ DOMAIN begun = DOMAIN more \cup DOMAIN r
      /\ \A z \in DOMAIN more : begun[z] = more[z]
      /\ \A z \in DOMAIN r \ DOMAIN more : begun[z] = r[z]
    BY <1>3 DEF ++
<1>6. /\ {"key", "pinned"} \subseteq DOMAIN begun /\ begun.key = NoKey /\ ~ Holds(begun)
      /\ begun.pinned = NoPin
      /\ "pc" \in DOMAIN more => "pc" \in DOMAIN begun /\ begun.pc = more.pc
    BY <1>2, <1>5 DEF Holds
<1> QED
    BY <1>4, <1>6

LEMMA ModelIngressOK ==
    ASSUME Inv, NEW a \in Admins, ModelIngress(a)
    PROVE  Inv'
<1>1. op[a].pc # "set_pointer"
    BY CallingIdle DEF ModelIngress
<1>2. PICK request, id :
         op' = [op EXCEPT ![a] = LoadCatalog(a, Begun(a, "model_ingress", id, << >>), request)]
    BY DEF ModelIngress
<1>3. Goes(a)
  <2>1. PICK begun : begun = Begun(a, "model_ingress", id, << >>)
      OBVIOUS
  <2>2. {"key", "pinned"} \subseteq DOMAIN begun /\ begun.key = NoKey /\ ~ Holds(begun)
    <3>1. DOMAIN << >> \subseteq {"pc"}
        OBVIOUS
    <3> QED
        BY <2>1, <3>1, BegunFields
  <2>3. PICK y : y = LoadCatalog(a, begun, request)
      OBVIOUS
  <2>4. y = NoOp \/ RequestReady(db["config_snapshot"], y)
      BY <2>2, <2>3, LoadCatalogReady
  <2> QED
      BY <1>2, <2>1, <2>3, <2>4, GoesTo
<1>4. Benign(db, db')
  <2>1. db' = [db EXCEPT !["request"] = Append(@, NewRow(TenantOf[a], << >>, "begun"))]
      BY DEF ModelIngress
  <2> QED
      BY <2>1, TenantRow, AppendBenign DEF RuntimeKinds, KnownKinds
<1> QED
    BY <1>1, <1>3, <1>4, StoreStepOK DEF ModelIngress

LEMMA RunRouteSimulationOK ==
    ASSUME Inv, NEW a \in Admins, RunRouteSimulation(a)
    PROVE  Inv'
<1>1. op[a].pc # "set_pointer" /\ OnlyOp
    BY CallingIdle DEF RunRouteSimulation
<1>2. PICK request \in Requests["model"] :
         LET planned == LoadCatalog(a, Begun(a, "run_route_simulation", NewRequestId, << >>),
                                    [request EXCEPT !.affinity = None])
         IN op' = [op EXCEPT ![a] = IF planned # NoOp /\ planned.outcome = "none"
                                    THEN planned ELSE NoOp]
    BY DEF RunRouteSimulation
<1>3. PICK begun : begun = Begun(a, "run_route_simulation", NewRequestId, << >>)
    OBVIOUS
<1>4. {"key", "pinned"} \subseteq DOMAIN begun /\ begun.key = NoKey /\ ~ Holds(begun)
  <2>1. DOMAIN << >> \subseteq {"pc"}
      OBVIOUS
  <2> QED
      BY <1>3, <2>1, BegunFields
<1>5. PICK planned : planned = LoadCatalog(a, begun, [request EXCEPT !.affinity = None])
    OBVIOUS
<1>6. planned = NoOp \/ RequestReady(db["config_snapshot"], planned)
    BY <1>4, <1>5, LoadCatalogReady
<1>7. PICK y : y = (IF planned # NoOp /\ planned.outcome = "none" THEN planned ELSE NoOp)
    OBVIOUS
<1>8. op' = [op EXCEPT ![a] = y]
    BY <1>2, <1>3, <1>5, <1>7
<1>9. Goes(a)
    BY <1>6, <1>7, <1>8, GoesTo
<1> QED
    BY <1>1, <1>9, OpStepOK

\* What the planner adds to a request; it leaves the snapshot alone.
PlannerFields == {"pc", "outcome", "blind", "selected", "sticky_version", "denied", "next"}

LEMMA PlannerGoes ==
    ASSUME Inv, NEW a \in Admins, op[a].pc \in RequestPcs, NEW more,
           op' = [op EXCEPT ![a] = more ++ op[a]], DOMAIN more \subseteq PlannerFields,
           "pc" \in DOMAIN more => more.pc \in RequestPcs
    PROVE  Goes(a)
<1>1. DOMAIN more \cap {"key", "snapshot", "settled", "snapshot_id"} = {}
    BY DEF PlannerFields
<1> QED
    BY <1>1, GoesOnWith

LEMMA TryStickyRouteSelectionOK ==
    ASSUME Inv, NEW a \in Admins, TryStickyRouteSelection(a)
    PROVE  Inv'
<1>1. op[a].pc = "sticky" /\ op[a].pc \in RequestPcs /\ OnlyOp
    BY DEF TryStickyRouteSelection, RequestPcs
<1> DEFINE missed(more) == op' = [op EXCEPT ![a] = (more ++ [pc |-> "candidates"]) ++ op[a]]
           found(e, selection, version) ==
             op' = [op EXCEPT ![a] = [pc |-> "decide", outcome |-> "selected",
                                      blind |-> op[a].blind \/ e.blind, selected |-> selection,
                                      sticky_version |-> version] ++ op[a]]
<1>2. \/ missed(<< >>)
      \/ \E blind, denied : missed([blind |-> blind, denied |-> denied])
      \/ \E e, selection, version : found(e, selection, version)
  <2>1. MissesSticky(a, << >>) \/ \E sticky : FollowsSticky(a, sticky)
      BY DEF TryStickyRouteSelection
  <2>2. \A more : MissesSticky(a, more) => missed(more)
      BY DEF MissesSticky
  <2>3. ASSUME NEW sticky, FollowsSticky(a, sticky), ~ MissesSticky(a, << >>)
        PROVE  \/ \E blind, denied : MissesSticky(a, [blind |-> blind, denied |-> denied])
               \/ \E e, selection, version : found(e, selection, version)
    <3> DEFINE candidates == Candidates(Catalog(a), Binding(a).group.id)
               at == {i \in DOMAIN candidates : candidates[i].target = sticky.f.target}
               candidate == candidates[CHOOSE i \in at : \A j \in at : i <= j]
    <3>1. \E e \in Evaluations(a, candidate) :
            IF e.reason = "selected" /\ Selection(a, candidate).endpoint = sticky.f.endpoint
            THEN found(e, Selection(a, candidate), sticky.f.version)
            ELSE MissesSticky(a, [blind |-> op[a].blind \/ e.blind,
                                  denied |-> e.reason = "provider_grant_denied"])
        BY <2>3 DEF FollowsSticky
    <3> HIDE DEF candidate
    <3> HIDE DEF found
    <3> QED
        BY <3>1, Zenon
  <2> HIDE DEF missed, found
  <2> QED
      BY <2>1, <2>2, <2>3
<1>3. ASSUME NEW more, DOMAIN more \subseteq {"blind", "denied"}, missed(more) PROVE Goes(a)
  <2>1. PICK all : all = more ++ [pc |-> "candidates"]
      OBVIOUS
  <2>2. DOMAIN all \subseteq PlannerFields /\ "pc" \in DOMAIN all /\ all.pc = "candidates"
      BY <1>3, <2>1 DEF ++, PlannerFields
  <2>3. op' = [op EXCEPT ![a] = all ++ op[a]]
      BY <1>3, <2>1
  <2> QED
      BY <1>1, <2>2, <2>3, PlannerGoes DEF RequestPcs
<1>4. ASSUME NEW e, NEW selection, NEW version, found(e, selection, version) PROVE Goes(a)
  <2>1. PICK all : all = [pc |-> "decide", outcome |-> "selected",
                          blind |-> op[a].blind \/ e.blind, selected |-> selection,
                          sticky_version |-> version]
      OBVIOUS
  <2>2. DOMAIN all \subseteq PlannerFields /\ "pc" \in DOMAIN all /\ all.pc = "decide"
      BY <2>1 DEF PlannerFields
  <2>3. op' = [op EXCEPT ![a] = all ++ op[a]]
      BY <1>4, <2>1
  <2> QED
      BY <1>1, <2>2, <2>3, PlannerGoes DEF RequestPcs
<1>5. Goes(a)
  <2>1. DOMAIN << >> \subseteq {"blind", "denied"}
      OBVIOUS
  <2>2. \A blind, denied : DOMAIN [blind |-> blind, denied |-> denied] \subseteq {"blind", "denied"}
      OBVIOUS
  <2> HIDE DEF missed, found
  <2> QED
      BY <1>2, <1>3, <1>4, <2>1, <2>2
<1> QED
    BY <1>1, <1>5, PlannedAt, OpStepOK

LEMMA FirstEligibleRouteSelectionOK ==
    ASSUME Inv, NEW a \in Admins, FirstEligibleRouteSelection(a)
    PROVE  Inv'
<1>1. op[a].pc = "candidates" /\ op[a].pc \in RequestPcs /\ OnlyOp
    BY DEF FirstEligibleRouteSelection, RequestPcs
<1>2. \/ \E outcome : op' = [op EXCEPT ![a].pc = "decide", ![a].outcome = outcome]
      \/ \E e, selection, next :
           op' = [op EXCEPT ![a] =
                    ((IF e.reason = "selected"
                      THEN [pc |-> "decide", outcome |-> "selected", selected |-> selection]
                      ELSE [next |-> next,
                            denied |-> op[a].denied \/ e.reason = "provider_grant_denied"])
                       ++ [blind |-> op[a].blind \/ e.blind]) ++ op[a]]
    BY DEF FirstEligibleRouteSelection
<1>3. ASSUME NEW outcome, op' = [op EXCEPT ![a].pc = "decide", ![a].outcome = outcome]
      PROVE  Goes(a)
  <2>1. PICK y : y = [op[a] EXCEPT !.pc = "decide", !.outcome = outcome]
      OBVIOUS
  <2>2. RequestReady(db["config_snapshot"], y)
      BY <1>1, <2>1, PlannedAt DEF RequestReady, Planned, Holds, RequestPcs
  <2>3. op' = [op EXCEPT ![a] = y]
      BY <1>3, <2>1
  <2> QED
      BY <2>2, <2>3, GoesTo
<1>4. ASSUME NEW head, NEW blind, op' = [op EXCEPT ![a] = (head ++ [blind |-> blind]) ++ op[a]],
             DOMAIN head \subseteq PlannerFields, "pc" \in DOMAIN head => head.pc = "decide"
      PROVE  Goes(a)
  <2>1. PICK all : all = head ++ [blind |-> blind]
      OBVIOUS
  <2>2. DOMAIN all \subseteq PlannerFields /\ ("pc" \in DOMAIN all => all.pc = "decide")
      BY <1>4, <2>1 DEF ++, PlannerFields
  <2>3. op' = [op EXCEPT ![a] = all ++ op[a]]
      BY <1>4, <2>1
  <2> QED
      BY <1>1, <2>2, <2>3, PlannerGoes DEF RequestPcs
<1>5. ASSUME NEW e, NEW selection, NEW next,
             op' = [op EXCEPT ![a] =
                      ((IF e.reason = "selected"
                        THEN [pc |-> "decide", outcome |-> "selected", selected |-> selection]
                        ELSE [next |-> next,
                              denied |-> op[a].denied \/ e.reason = "provider_grant_denied"])
                         ++ [blind |-> op[a].blind \/ e.blind]) ++ op[a]]
      PROVE  Goes(a)
  <2>1. PICK head :
          head = (IF e.reason = "selected"
                  THEN [pc |-> "decide", outcome |-> "selected", selected |-> selection]
                  ELSE [next |-> next,
                        denied |-> op[a].denied \/ e.reason = "provider_grant_denied"])
      OBVIOUS
  <2>2. DOMAIN head \subseteq PlannerFields /\ ("pc" \in DOMAIN head => head.pc = "decide")
      BY <2>1 DEF PlannerFields
  <2>3. PICK blind : blind = (op[a].blind \/ e.blind)
      OBVIOUS
  <2>4. op' = [op EXCEPT ![a] = (head ++ [blind |-> blind]) ++ op[a]]
      BY <1>5, <2>1, <2>3
  <2> QED
      BY <1>4, <2>2, <2>4
<1>6. Goes(a)
    BY <1>2, <1>3, <1>5
<1> QED
    BY <1>1, <1>6, PlannedAt, OpStepOK

LEMMA AnswerRouteSimulationOK ==
    ASSUME Inv, NEW a \in Admins, AnswerRouteSimulation(a)
    PROVE  Inv'
BY ClosesGoes, OpStepOK DEF AnswerRouteSimulation

\* A decision is recorded of a request that was planned.
LEMMA DecisionBenign ==
    ASSUME Inv, NEW a \in Admins, op[a].pc \in RequestPcs, NEW status, NEW durable,
           db' = [db EXCEPT !["route_decision"] =
                    Append(@, RouteDecisionRecord(a, status, durable))]
    PROVE  Benign(db, db')
<1>1. PICK row : row = RouteDecisionRecord(a, status, durable)
    OBVIOUS
<1>2. RowOK(row) /\ row.f.snapshot = op[a].snapshot /\ row.f.settled = op[a].settled
    BY <1>1, TenantRow DEF RouteDecisionRecord
<1>3. PICK e : e = db'
    OBVIOUS
<1>4. e = [db EXCEPT !["route_decision"] = Append(@, row)]
    BY <1>1, <1>3
<1>5. /\ Changes(db, e, "route_decision")
      /\ Longer(db["route_decision"], e["route_decision"])
      /\ Len(e["route_decision"]) = Len(db["route_decision"]) + 1
      /\ e["route_decision"][Len(db["route_decision"]) + 1] = row
      /\ Len(db["route_decision"]) \in Nat
  <2>1. DbOK(db) /\ "route_decision" \in Kinds
      BY KindsKnown, InvParts DEF RuntimeKinds
  <2>2. Len(db["route_decision"]) \in Nat
      BY <2>1, TablesAreSeq DEF RuntimeKinds
  <2> QED
    <3>1. PICK k : k = "route_decision"
        OBVIOUS
    <3>2. DbOK(db) /\ k \in Kinds /\ e = [db EXCEPT ![k] = Append(@, row)] /\ RowOK(row)
        BY <1>2, <1>4, <2>1, <3>1
    <3>3. /\ Changes(db, e, k) /\ Longer(db[k], e[k]) /\ Len(e[k]) = Len(db[k]) + 1
          /\ e[k][Len(db[k]) + 1] = row
      <4>1. Changes(db, e, k)
          BY <3>2, AppendChanges
      <4>2. Longer(db[k], e[k])
          BY <3>2, AppendChanges
      <4>3. Len(e[k]) = Len(db[k]) + 1
          BY <3>2, AppendChanges
      <4>4. e[k][Len(db[k]) + 1] = row
          BY <3>2, AppendChanges
      <4> QED
          BY <4>1, <4>2, <4>3, <4>4
    <3> QED
        BY <2>2, <3>1, <3>3
<1>6. \A j \in KnownKinds \ {"route_decision"} : e[j] = db[j]
    BY <1>5, KindsKnown DEF Changes, KnownKinds, RuntimeKinds
<1>7. DecisionsOK(e)
  <2>1. e["config_snapshot"] = db["config_snapshot"]
      BY <1>6 DEF KnownKinds
  <2>2. NotReplaced(e["config_snapshot"], row.f.snapshot, row.f.settled)
      BY <1>2, <2>1, PlannedAt DEF Planned
  <2>3. ASSUME NEW i \in 1 .. Len(e["route_decision"])
        PROVE  NotReplaced(e["config_snapshot"], e["route_decision"][i].f.snapshot,
                           e["route_decision"][i].f.settled)
    <3>1. CASE i = Len(db["route_decision"]) + 1
        BY <1>5, <2>2, <3>1
    <3>2. CASE i \in 1 .. Len(db["route_decision"])
        BY <1>5, <2>1, <3>2, InvParts DEF DecisionsOK, Longer
    <3> QED
        BY <1>5, <3>1, <3>2
  <2> QED
      BY <2>3 DEF DecisionsOK
<1>8. DbOK(e)
    BY <1>5, KindsKnown, InvParts, ChangesOK DEF RuntimeKinds
<1>9. Grown(db, e) /\ EvidenceOK(e)
    BY <1>6, InvParts, GrownSelf DEF KnownKinds, EvidenceOK
<1>10. Benign(db, e)
    BY <1>6, <1>7, <1>8, <1>9 DEF Benign, KnownKinds
<1> QED
    BY <1>3, <1>10

LEMMA RecordRouteDecisionOK ==
    ASSUME Inv, NEW a \in Admins, RecordRouteDecision(a)
    PROVE  Inv'
<1>1. op[a].pc \in RequestPcs /\ OnlyStore
    BY DEF RecordRouteDecision, RequestPcs
<1>2. PICK kept :
         /\ db' = [db EXCEPT !["route_decision"] =
                     Append(@, RouteDecisionRecord(a, op[a].outcome, kept))]
         /\ \/ op' = [op EXCEPT ![a] = [pc |-> "map",
                                        decision |-> Len(db["route_decision"]) + 1] ++ op[a]]
            \/ Closes(a)
    BY DEF RecordRouteDecision
<1>3. Benign(db, db')
    BY <1>1, <1>2, DecisionBenign
<1>4. Goes(a)
  <2>1. PICK more : more = [pc |-> "map", decision |-> Len(db["route_decision"]) + 1]
      OBVIOUS
  <2>2. /\ DOMAIN more \cap {"key", "snapshot", "settled", "snapshot_id"} = {}
        /\ more.pc \in RequestPcs
      BY <2>1 DEF RequestPcs
  <2> QED
      BY <1>1, <1>2, <2>1, <2>2, GoesOnWith, ClosesGoes
<1> QED
    BY <1>1, <1>3, <1>4, PlannedAt, StoreStepOK

LEMMA RecordStickyRouteMappingOK ==
    ASSUME Inv, NEW a \in Admins, RecordStickyRouteMapping(a)
    PROVE  Inv'
<1>1. op[a].pc \in RequestPcs /\ OnlyStore /\ Proceeds(a, "authorize")
    BY DEF RecordStickyRouteMapping, RequestPcs
<1> DEFINE new == Upsert(db["sticky_route"], StickyRouteRecord(a),
                         LAMBDA s : /\ s.tenant = TenantOf[a]
                                    /\ s.f.project = Actor(a).project
                                    /\ s.f.alias = op[a].selected.alias
                                    /\ s.f.affinity = op[a].request.affinity)
<1>2. db' = db \/ db' = [db EXCEPT !["sticky_route"] = new]
    BY DEF RecordStickyRouteMapping
<1>3. Put(db["sticky_route"], new, StickyRouteRecord(a))
    BY DEF Upsert, Put
<1>4. RowOK(StickyRouteRecord(a))
    BY TenantRow DEF StickyRouteRecord
<1>5. Benign(db, db')
  <2> HIDE DEF new
  <2> QED
      BY <1>2, <1>3, <1>4, UnchangedBenign, PutBenign DEF RuntimeKinds, KnownKinds
<1>6. Goes(a)
    BY <1>1, ProceedsGoes DEF RequestPcs
<1> QED
    BY <1>1, <1>5, <1>6, PlannedAt, StoreStepOK

LEMMA AuthorizeRuntimeProviderTargetOK ==
    ASSUME Inv, NEW a \in Admins, AuthorizeRuntimeProviderTarget(a)
    PROVE  Inv'
<1>1. op[a].pc \in RequestPcs /\ OnlyStore
    BY DEF AuthorizeRuntimeProviderTarget, RequestPcs
<1>2. RuntimeAuthorization(a) \in {"error", "denied", "allowed"}
    BY Zenon DEF RuntimeAuthorization
<1>3. \/ db' = db
      \/ \E authorization :
           db' = [db EXCEPT !["authorization_decision"] =
                    Append(@, NewRow(TenantOf[a], [request |-> op[a].id], authorization))]
    BY DEF AuthorizeRuntimeProviderTarget
<1>4. Proceeds(a, "preflight") \/ EndsTurn(a) \/ Closes(a)
  <2>1. CASE RuntimeAuthorization(a) = "allowed"
      BY <2>1, Zenon DEF AuthorizeRuntimeProviderTarget
  <2>2. CASE RuntimeAuthorization(a) = "denied"
    <3>1. ~ ("denied" = "allowed")
        OBVIOUS
    <3> QED
        BY <2>2, <3>1, Zenon DEF AuthorizeRuntimeProviderTarget
  <2>3. CASE RuntimeAuthorization(a) = "error"
    <3>1. ~ ("error" = "allowed") /\ ~ ("error" = "denied")
        OBVIOUS
    <3> QED
        BY <2>3, <3>1, Zenon DEF AuthorizeRuntimeProviderTarget
  <2> QED
      BY <1>2, <2>1, <2>2, <2>3
<1>5. Benign(db, db')
  <2>1. "authorization_decision" \in RuntimeKinds \ KnownKinds
      BY DEF RuntimeKinds, KnownKinds
  <2>2. ASSUME NEW authorization,
               db' = [db EXCEPT !["authorization_decision"] =
                        Append(@, NewRow(TenantOf[a], [request |-> op[a].id], authorization))]
        PROVE  Benign(db, db')
    <3>1. PICK row : row = NewRow(TenantOf[a], [request |-> op[a].id], authorization)
        OBVIOUS
    <3>2. RowOK(row)
        BY <3>1, TenantRow
    <3> QED
        BY <2>1, <2>2, <3>1, <3>2, AppendBenign
  <2> QED
      BY <1>3, <2>2, UnchangedBenign
<1>6. Goes(a)
    BY <1>1, <1>4, ProceedsGoes, EndsTurnGoes, ClosesGoes DEF RequestPcs
<1> QED
    BY <1>1, <1>5, <1>6, PlannedAt, StoreStepOK

LEMMA EnforceRuntimePolicyPreflightOK ==
    ASSUME Inv, NEW a \in Admins, EnforceRuntimePolicyPreflight(a)
    PROVE  Inv'
<1>1. op[a].pc \in RequestPcs /\ OnlyStore
    BY DEF EnforceRuntimePolicyPreflight, RequestPcs
<1>2. \/ db' = db
      \/ \E kept : db' = [db EXCEPT !["route_decision"] =
                            Append(@, RouteDecisionRecord(a, "blocked", kept))]
    BY DEF EnforceRuntimePolicyPreflight
<1>3. Proceeds(a, "connect") \/ Proceeds(a, "call") \/ EndsTurn(a)
    BY DEF EnforceRuntimePolicyPreflight
<1>4. Benign(db, db')
    BY <1>1, <1>2, UnchangedBenign, DecisionBenign
<1>5. Goes(a)
    BY <1>1, <1>3, ProceedsGoes, EndsTurnGoes DEF RequestPcs
<1> QED
    BY <1>1, <1>4, <1>5, PlannedAt, StoreStepOK

\* What the call of a provider adds to a request.
CallFields == {"pc", "result", "closing", "ended", "secret", "pinned"}

LEMMA CallGoes ==
    ASSUME Inv, NEW a \in Admins, op[a].pc \in RequestPcs, NEW more,
           op' = [op EXCEPT ![a] = more ++ op[a]], DOMAIN more \subseteq CallFields,
           more.pc \in RequestPcs
    PROVE  Goes(a)
<1>1. DOMAIN more \cap {"key", "snapshot", "settled", "snapshot_id"} = {}
    BY DEF CallFields
<1> QED
    BY <1>1, GoesOnWith

LEMMA CallProviderOK ==
    ASSUME Inv, NEW a \in Admins, CallProvider(a)
    PROVE  Inv'
<1>1. op[a].pc \in RequestPcs /\ OnlyOp
    BY DEF CallProvider, RequestPcs
<1>2. PICK more : /\ op' = [op EXCEPT ![a] = more ++ op[a]]
                  /\ \E outcome, secret :
                       more = [pc |-> "attempt", result |-> outcome, closing |-> FALSE,
                               ended |-> clock, secret |-> secret]
    BY DEF CallProvider
<1>3. DOMAIN more \subseteq CallFields /\ more.pc \in RequestPcs
    BY <1>2 DEF CallFields, RequestPcs
<1> QED
    BY <1>1, <1>2, <1>3, CallGoes, PlannedAt, OpStepOK

LEMMA ConnectResponsesWebSocketUpstreamOK ==
    ASSUME Inv, NEW a \in Admins, ConnectResponsesWebSocketUpstream(a)
    PROVE  Inv'
<1>1. op[a].pc \in RequestPcs /\ OnlyOp
    BY DEF ConnectResponsesWebSocketUpstream, RequestPcs
<1>2. PICK more : /\ op' = [op EXCEPT ![a] = more ++ op[a]]
                  /\ \/ \E name : more = [pc |-> "call", pinned |-> [name |-> name]]
                     \/ more = [pc |-> "attempt", result |-> "failed", closing |-> FALSE,
                                ended |-> clock]
    BY DEF ConnectResponsesWebSocketUpstream
<1>3. DOMAIN more \subseteq CallFields /\ more.pc \in RequestPcs
    BY <1>2 DEF CallFields, RequestPcs
<1> QED
    BY <1>1, <1>2, <1>3, CallGoes, PlannedAt, OpStepOK

LEMMA ProxyResponsesWebSocketTurnOK ==
    ASSUME Inv, NEW a \in Admins, ProxyResponsesWebSocketTurn(a)
    PROVE  Inv'
<1>1. op[a].pc \in RequestPcs /\ OnlyOp
    BY DEF ProxyResponsesWebSocketTurn, RequestPcs
<1>2. PICK more : /\ op' = [op EXCEPT ![a] = more ++ op[a]]
                  /\ \E outcome : more = [pc |-> "attempt", result |-> outcome[1],
                                          closing |-> outcome[2], ended |-> clock]
    BY DEF ProxyResponsesWebSocketTurn
<1>3. DOMAIN more \subseteq CallFields /\ more.pc \in RequestPcs
    BY <1>2 DEF CallFields, RequestPcs
<1> QED
    BY <1>1, <1>2, <1>3, CallGoes, PlannedAt, OpStepOK

LEMMA RecordRouteAttemptOK ==
    ASSUME Inv, NEW a \in Admins, RecordRouteAttempt(a)
    PROVE  Inv'
<1>1. op[a].pc \in RequestPcs /\ OnlyStore
    BY DEF RecordRouteAttempt, RequestPcs
<1>2. \/ db' = db
      \/ \E kept : db' = [db EXCEPT !["route_attempt"] = Append(@, RouteAttemptRecord(a, kept))]
    BY DEF RecordRouteAttempt
<1>3. Proceeds(a, "usage") \/ Closes(a) \/ EndsTurn(a)
    BY DEF RecordRouteAttempt
<1>4. Benign(db, db')
  <2>1. "route_attempt" \in RuntimeKinds \ KnownKinds
      BY DEF RuntimeKinds, KnownKinds
  <2>2. \A kept : RowOK(RouteAttemptRecord(a, kept))
      BY TenantRow DEF RouteAttemptRecord
  <2> QED
      BY <1>2, <2>1, <2>2, UnchangedBenign, AppendBenign
<1>5. Goes(a)
    BY <1>1, <1>3, ProceedsGoes, EndsTurnGoes, ClosesGoes DEF RequestPcs
<1> QED
    BY <1>1, <1>4, <1>5, PlannedAt, StoreStepOK

LEMMA AfterUsageGoes ==
    ASSUME Inv, NEW a \in Admins, op[a].pc \in RequestPcs, AfterUsage(a)
    PROVE  Goes(a)
BY ProceedsGoes, EndsTurnGoes DEF AfterUsage, RequestPcs

LEMMA UsageEventOK ==
    ASSUME NEW a \in Admins
    PROVE  RowOK(UsageEventRecord(a))
BY TenantRow DEF UsageEventRecord

LEMMA RecordUsageEventOK ==
    ASSUME Inv, NEW a \in Admins, RecordUsageEvent(a)
    PROVE  Inv'
<1>1. op[a].pc \in RequestPcs /\ OnlyStore
    BY DEF RecordUsageEvent, RequestPcs
<1>2. \/ db' = db
      \/ db' = [db EXCEPT !["usage_event"] = Append(@, UsageEventRecord(a))]
    BY DEF RecordUsageEvent
<1>3. AfterUsage(a) \/ Proceeds(a, "fold")
    BY DEF RecordUsageEvent
<1>4. Benign(db, db')
    BY <1>2, UsageEventOK, UnchangedBenign, AppendBenign DEF RuntimeKinds, KnownKinds
<1>5. Goes(a)
    BY <1>1, <1>3, ProceedsGoes, AfterUsageGoes DEF RequestPcs
<1> QED
    BY <1>1, <1>4, <1>5, PlannedAt, StoreStepOK

\* A finite set as a sequence of its elements.
LEMMA SetToSeqOf ==
    ASSUME NEW S, IsFiniteSet(S)
    PROVE  Cardinality(S) \in Nat /\ SetToSeq(S) \in [1 .. Cardinality(S) -> S]
<1>1. PICK f \in Bijection(1 .. Cardinality(S), S) : TRUE
    BY FS_CardinalityType DEF ExistsBijection
<1>2. f \in [1 .. Cardinality(S) -> S] /\ IsInjective(f)
    BY <1>1 DEF Bijection, Injection
<1> QED
    BY <1>2, FS_CardinalityType DEF SetToSeq

LEMMA ConcatRows ==
    ASSUME NEW rows, NEW more, NEW n \in Nat, NEW S, IsRows(rows), more \in [1 .. n -> S],
           \A row \in S : RowOK(row)
    PROVE  IsRows(rows \o more)
<1> DEFINE T == {rows[i] : i \in DOMAIN rows} \cup S
<1>1. rows \in Seq(T) /\ more \in Seq(T) /\ Len(more) = n
    BY DEF IsRows
<1>2. PICK new : new = rows \o more
    OBVIOUS
<1>3. /\ new = [i \in 1 .. Len(rows) + n |-> new[i]] /\ Len(rows) + n \in Nat
      /\ \A i \in 1 .. Len(rows) + n :
           new[i] = IF i <= Len(rows) THEN rows[i] ELSE more[i - Len(rows)]
  <2> HIDE DEF T
  <2>1. /\ new \in Seq(T) /\ Len(new) = Len(rows) + n /\ Len(rows) \in Nat
    <3>1. new \in Seq(T)
        BY <1>1, <1>2
    <3>2. Len(rows) \in Nat
        BY <1>1
    <3>3. Len(rows \o more) = Len(rows) + Len(more)
        BY <1>1
    <3> QED
        BY <1>1, <1>2, <3>1, <3>2, <3>3
  <2>2. DOMAIN new = 1 .. Len(rows) + n
      BY <2>1
  <2>3. new = [i \in 1 .. Len(rows) + n |-> new[i]]
      BY <2>1, <2>2
  <2>4. ASSUME NEW i \in 1 .. Len(rows) + n
        PROVE  new[i] = IF i <= Len(rows) THEN rows[i] ELSE more[i - Len(rows)]
      BY <1>1, <1>2, <2>1
  <2> QED
      BY <2>1, <2>3, <2>4
<1>4. \A i \in 1 .. Len(rows) + n : RowOK(new[i])
    BY <1>3, RowsAreSeq DEF IsRows
<1> QED
    BY <1>2, <1>3, <1>4, MappedRows

\* The buckets of a usage event: every one counts on, the missing ones are new.
LEMMA FoldRows ==
    ASSUME NEW a \in Admins, NEW buckets, IsRows(buckets)
    PROVE  IsRows(FoldUsageEvent(buckets, a))
<1> DEFINE kinds == DOMAIN BucketWidth
           missing == {kind \in kinds : \A i \in DOMAIN buckets : ~ BucketOf(buckets[i], a, kind)}
           counted == [i \in DOMAIN buckets |->
                         IF \E kind \in kinds : BucketOf(buckets[i], a, kind)
                         THEN [buckets[i] EXCEPT !.f.count = @ + 1] ELSE buckets[i]]
           new == {NewBucket(a, kind) : kind \in missing}
<1>1. Len(buckets) \in Nat /\ DOMAIN buckets = 1 .. Len(buckets)
    BY RowsAreSeq
<1>2. \A i \in DOMAIN buckets : RowOK(counted[i])
    BY DEF IsRows, RowOK
<1>3. IsRows(counted)
  <2> HIDE DEF missing, new
  <2>1. counted = [i \in 1 .. Len(buckets) |-> counted[i]]
      BY <1>1
  <2> HIDE DEF counted
  <2> QED
      BY <1>1, <1>2, <2>1, MappedRows
<1>4. IsFiniteSet(new)
  <2>1. IsFiniteSet(missing)
    <3>1. IsFiniteSet(kinds) /\ missing \in SUBSET kinds
        BY RuntimeAssumption
    <3> HIDE DEF kinds, missing
    <3> QED
        BY <3>1, FS_Subset
  <2>2. PICK f : f = [kind \in missing |-> NewBucket(a, kind)]
      OBVIOUS
  <2> HIDE DEF missing
  <2>3. f \in Surjection(missing, new)
      BY <2>2 DEF Surjection
  <2> HIDE DEF new
  <2> QED
      BY <2>1, <2>3, FS_Surjection
<1>5. \A row \in new : RowOK(row)
    BY TenantRow DEF NewBucket
<1>6. FoldUsageEvent(buckets, a) = counted \o SetToSeq(new)
    BY DEF FoldUsageEvent
<1> HIDE DEF new, counted
<1>7. IsRows(counted \o SetToSeq(new))
    BY <1>3, <1>4, <1>5, SetToSeqOf, ConcatRows
<1> QED
    BY <1>6, <1>7

LEMMA RecordLedgerBucketsOK ==
    ASSUME Inv, NEW a \in Admins, RecordLedgerBuckets(a)
    PROVE  Inv'
<1>1. op[a].pc \in RequestPcs /\ OnlyStore /\ AfterUsage(a)
    BY DEF RecordLedgerBuckets, RequestPcs
<1>2. PICK new : new = FoldUsageEvent(db["ledger_bucket"], a)
    OBVIOUS
<1>3. db' = [db EXCEPT !["ledger_bucket"] = new]
    BY <1>2 DEF RecordLedgerBuckets
<1>4. "ledger_bucket" \in Kinds \ KnownKinds /\ IsRows(new)
    BY <1>2, InvParts, TablesAreSeq, FoldRows, KindsKnown DEF RuntimeKinds, KnownKinds
<1>5. Changes(db, db', "ledger_bucket")
    BY <1>3, <1>4, InvParts DEF Changes
<1>6. Benign(db, db')
    BY <1>4, <1>5, InvParts, ChangesBenign
<1> QED
    BY <1>1, <1>6, AfterUsageGoes, PlannedAt, StoreStepOK

LEMMA InsertUsageEventOK ==
    ASSUME Inv, NEW a \in Admins, InsertUsageEvent(a)
    PROVE  Inv'
<1>1. op[a].pc \in RequestPcs /\ OnlyStore
    BY DEF InsertUsageEvent, RequestPcs
<1>2. EndsTurn(a) \/ Closes(a)
    BY DEF InsertUsageEvent
<1>3. \/ db' = db
      \/ db' = [db EXCEPT !["durable_usage_event"] = Append(@, UsageEventRecord(a)),
                          !["durable_ledger_bucket"] = FoldUsageEvent(@, a)]
    BY DEF InsertUsageEvent
<1>4. ASSUME db' = [db EXCEPT !["durable_usage_event"] = Append(@, UsageEventRecord(a)),
                              !["durable_ledger_bucket"] = FoldUsageEvent(@, a)]
      PROVE  Benign(db, db')
  <2>1. PICK events, buckets : /\ events = Append(db["durable_usage_event"], UsageEventRecord(a))
                               /\ buckets = FoldUsageEvent(db["durable_ledger_bucket"], a)
      OBVIOUS
  <2>2. PICK e, g : /\ e = [db EXCEPT !["durable_usage_event"] = events]
                    /\ g = [e EXCEPT !["durable_ledger_bucket"] = buckets]
      OBVIOUS
  <2>3. db' = g
      BY <1>4, <2>1, <2>2
  <2>4. /\ "durable_usage_event" \in Kinds \ KnownKinds
        /\ "durable_ledger_bucket" \in Kinds \ KnownKinds
        /\ IsRows(db["durable_usage_event"]) /\ IsRows(db["durable_ledger_bucket"])
      BY InvParts, TablesAreSeq, KindsKnown DEF RuntimeKinds, KnownKinds
  <2>5. IsRows(events) /\ IsRows(buckets)
      BY <2>1, <2>4, UsageEventOK, AppendRows, FoldRows
  <2>6. Changes(db, e, "durable_usage_event")
      BY <2>2, <2>4, <2>5, InvParts DEF Changes
  <2>7. Benign(db, e)
      BY <2>4, <2>6, InvParts, ChangesBenign
  <2>8. DbOK(e) /\ DecisionsOK(e) /\ EvidenceOK(e) /\ DOMAIN e = Kinds
      BY <2>6, <2>7 DEF Benign, Changes
  <2>9. Changes(e, g, "durable_ledger_bucket")
      BY <2>2, <2>4, <2>5, <2>8 DEF Changes
  <2>10. Benign(e, g)
      BY <2>4, <2>8, <2>9, ChangesBenign
  <2>11. \A k \in KnownKinds : g[k] = db[k]
    <3>1. \A k \in KnownKinds : e[k] = db[k] /\ g[k] = e[k]
        BY <2>4, <2>6, <2>9, KindsKnown DEF Changes, KnownKinds, RuntimeKinds
    <3> QED
        BY <3>1
  <2>12. Grown(db, g)
      BY <2>11, InvParts, GrownSelf DEF KnownKinds
  <2>13. Benign(db, g)
      BY <2>10, <2>11, <2>12 DEF Benign, KnownKinds
  <2> QED
      BY <2>3, <2>13
<1>5. Benign(db, db')
    BY <1>3, <1>4, UnchangedBenign
<1>6. Goes(a)
    BY <1>1, <1>2, EndsTurnGoes, ClosesGoes
<1> QED
    BY <1>1, <1>5, <1>6, PlannedAt, StoreStepOK

LEMMA DropRequestOK ==
    ASSUME Inv, NEW a \in Admins, DropRequest(a)
    PROVE  Inv'
<1>1. op[a].pc # "set_pointer" /\ Closes(a) /\ OnlyOp
    BY DEF DropRequest
<1> QED
    BY <1>1, ClosesGoes, OpStepOK

LEMMA ResponsesWebSocketIngressOK ==
    ASSUME Inv, NEW a \in Admins, ResponsesWebSocketIngress(a)
    PROVE  Inv'
<1>1. op[a].pc # "set_pointer"
    BY CallingIdle DEF ResponsesWebSocketIngress
<1>2. PICK more : more = [pc |-> "ws_idle"]
    OBVIOUS
<1>3. PICK id, begun : /\ begun = Begun(a, "responses_websocket", id, more)
                       /\ op' = [op EXCEPT ![a] = begun]
    BY <1>2 DEF ResponsesWebSocketIngress
<1>4. /\ {"key", "pinned", "pc"} \subseteq DOMAIN begun /\ begun.key = NoKey /\ ~ Holds(begun)
      /\ begun.pinned = NoPin /\ begun.pc = "ws_idle"
  <2>1. DOMAIN more \subseteq {"pc"} /\ "pc" \in DOMAIN more /\ more.pc = "ws_idle"
      BY <1>2
  <2> QED
      BY <1>3, <2>1, BegunFields
<1>5. RequestReady(db["config_snapshot"], begun)
    BY <1>4 DEF RequestReady
<1>6. Goes(a)
    BY <1>3, <1>5, GoesTo
<1>7. Benign(db, db')
  <2>1. db' = [db EXCEPT !["request"] = Append(@, NewRow(TenantOf[a], << >>, "begun"))]
      BY DEF ResponsesWebSocketIngress
  <2> QED
      BY <2>1, TenantRow, AppendBenign DEF RuntimeKinds, KnownKinds
<1> QED
    BY <1>1, <1>6, <1>7, StoreStepOK DEF ResponsesWebSocketIngress

LEMMA HandleResponseCreateOK ==
    ASSUME Inv, NEW a \in Admins, HandleResponseCreate(a)
    PROVE  Inv'
<1>1. op[a].pc = "ws_idle" /\ op[a].pc # "set_pointer" /\ OnlyOp
    BY DEF HandleResponseCreate
<1>2. PICK x : x = op[a]
    OBVIOUS
<1>3. RequestReady(db["config_snapshot"], x)
    BY <1>1, <1>2, InvParts, AtRequest
<1>4. PICK request :
         \/ op' = [op EXCEPT ![a] = Idle(a)]
         \/ op' = [op EXCEPT ![a] = NoOp]
         \/ x.pinned # NoPin /\ op' = [op EXCEPT ![a] = [pc |-> "authorize",
                                                         request |-> request] ++ x]
         \/ op' = [op EXCEPT ![a] = LoadCatalog(a, x, request)]
    BY <1>2 DEF HandleResponseCreate
<1>5. ASSUME op' = [op EXCEPT ![a] = Idle(a)] PROVE Goes(a)
  <2>1. RequestReady(db["config_snapshot"], Idle(a))
    <3>1. RequestReady(db["config_snapshot"], op[a]) /\ op[a].pc \notin RequestPcs
        BY <1>1, <1>2, <1>3 DEF RequestPcs
    <3> QED
        BY <3>1, IdleReady
  <2> QED
      BY <1>5, <2>1, GoesTo
<1>6. ASSUME op' = [op EXCEPT ![a] = NoOp] PROVE Goes(a)
    BY <1>6, GoesTo
<1>7. ASSUME x.pinned # NoPin,
             op' = [op EXCEPT ![a] = [pc |-> "authorize", request |-> request] ++ x]
      PROVE  Goes(a)
  <2>1. Planned(db["config_snapshot"], x)
      BY <1>1, <1>2, <1>3, <1>7 DEF RequestReady, RequestPcs
  <2>2. PICK more : more = [pc |-> "authorize", request |-> request]
      OBVIOUS
  <2>3. PICK y : y = more ++ x
      OBVIOUS
  <2>4. y.pc = "authorize"
      BY <2>2, <2>3 DEF ++
  <2>5. RequestReady(db["config_snapshot"], y)
    <3>1. /\ DOMAIN more \cap {"key", "snapshot", "settled", "snapshot_id"} = {}
          /\ (more ++ x).pc \in RequestPcs
        BY <2>2, <2>3, <2>4 DEF RequestPcs
    <3> QED
        BY <1>3, <2>1, <2>3, <3>1, RequestMerge
  <2> QED
      BY <1>7, <2>2, <2>3, <2>5, GoesTo
<1>8. ASSUME op' = [op EXCEPT ![a] = LoadCatalog(a, x, request)] PROVE Goes(a)
  <2>1. PICK y : y = LoadCatalog(a, x, request)
      OBVIOUS
  <2>2. y = NoOp \/ RequestReady(db["config_snapshot"], y)
    <3>1. {"key", "pinned"} \subseteq DOMAIN x /\ x.key = NoKey /\ ~ Holds(x)
        BY <1>3 DEF RequestReady
    <3> QED
        BY <2>1, <3>1, LoadCatalogReady
  <2> QED
      BY <1>8, <2>1, <2>2, GoesTo
<1>9. Goes(a)
    BY <1>4, <1>5, <1>6, <1>7, <1>8
<1> QED
    BY <1>1, <1>9, OpStepOK

LEMMA CloseResponsesWebSocketOK ==
    ASSUME Inv, NEW a \in Admins, CloseResponsesWebSocket(a)
    PROVE  Inv'
<1>1. op[a].pc # "set_pointer" /\ Closes(a) /\ OnlyOp
    BY DEF CloseResponsesWebSocket
<1> QED
    BY <1>1, ClosesGoes, OpStepOK

LEMMA RequestNextOK ==
    ASSUME Inv, NEW a \in Admins, RequestNext(a)
    PROVE  Inv'
BY ModelIngressOK, RunRouteSimulationOK, TryStickyRouteSelectionOK,
   FirstEligibleRouteSelectionOK, AnswerRouteSimulationOK, RecordRouteDecisionOK,
   RecordStickyRouteMappingOK, AuthorizeRuntimeProviderTargetOK,
   EnforceRuntimePolicyPreflightOK, CallProviderOK, RecordRouteAttemptOK, RecordUsageEventOK,
   RecordLedgerBucketsOK, InsertUsageEventOK, DropRequestOK, ResponsesWebSocketIngressOK,
   HandleResponseCreateOK, ConnectResponsesWebSocketUpstreamOK,
   ProxyResponsesWebSocketTurnOK, CloseResponsesWebSocketOK
   DEF RequestNext

-----------------------------------------------------------------------------
(* Answers                                                                 *)

\* The kinds an answer shows that are not tables with a tenant.
OddKinds == {"route_attempt", "audit_event", "validation_diagnostic"}

LEMMA ShownRow ==
    ASSUME NEW k, k \notin OddKinds, NEW id
    PROVE  TenantOfShown(<<k, id>>)' = db'[k][id].tenant
<1>1. k # "route_attempt" /\ k # "audit_event" /\ k # "validation_diagnostic"
    BY DEF OddKinds
<1>2. PICK r : r = <<k, id>>
    OBVIOUS
<1>3. r[1] = k /\ r[2] = id
    BY <1>2
<1>4. TenantOfShown(r)' = db'[r[1]][r[2]].tenant
    BY <1>1, <1>3, Zenon DEF TenantOfShown, Row
<1> QED
    BY <1>2, <1>3, <1>4

\* What may be shown to tenant t.
Owned(r, t) ==
    \/ \E k, id : r = <<k, id>> /\ k \notin OddKinds /\ db[k][id].tenant = t
    \/ \E id : /\ r = <<"route_attempt", id>>
               /\ db["route_decision"][db["route_attempt"][id].f.decision].tenant = t
    \/ \E i : r = <<"audit_event", i>> /\ audit[i].tenant = t
    \/ \E d : r = <<"validation_diagnostic", d>> /\ d.tenant = t

LEMMA OwnedShown ==
    ASSUME NEW r, NEW t, Owned(r, t), db' = db, audit' = audit
    PROVE  TenantOfShown(r)' = t
<1>1. ASSUME NEW k, NEW id, r = <<k, id>>, k \notin OddKinds, db[k][id].tenant = t
      PROVE  TenantOfShown(r)' = t
    BY <1>1, ShownRow
<1>2. ASSUME NEW id, r = <<"route_attempt", id>>,
             db["route_decision"][db["route_attempt"][id].f.decision].tenant = t
      PROVE  TenantOfShown(r)' = t
  <2>1. r[1] = "route_attempt" /\ r[2] = id
      BY <1>2
  <2>2. TenantOfShown(r)' = db'["route_decision"][db'["route_attempt"][r[2]].f.decision].tenant
      BY <2>1, Zenon DEF TenantOfShown, Row
  <2> QED
      BY <1>2, <2>1, <2>2
<1>3. ASSUME NEW i, r = <<"audit_event", i>>, audit[i].tenant = t
      PROVE  TenantOfShown(r)' = t
  <2>1. r[1] = "audit_event" /\ r[2] = i /\ r[1] # "route_attempt"
      BY <1>3
  <2>2. TenantOfShown(r)' = audit'[r[2]].tenant
      BY <2>1, Zenon DEF TenantOfShown, Row
  <2> QED
      BY <1>3, <2>1, <2>2
<1>4. ASSUME NEW d, r = <<"validation_diagnostic", d>>, d.tenant = t
      PROVE  TenantOfShown(r)' = t
  <2>1. r[1] = "validation_diagnostic" /\ r[2] = d /\ r[1] # "route_attempt" /\ r[1] # "audit_event"
      BY <1>4
  <2>2. TenantOfShown(r)' = r[2].tenant
      BY <2>1, Zenon DEF TenantOfShown, Row
  <2> QED
      BY <1>4, <2>1, <2>2
<1> QED
    BY <1>1, <1>2, <1>3, <1>4 DEF Owned

LEMMA OwnedAnswered ==
    ASSUME NEW t, NEW rows, answer' = [tenant |-> t, rows |-> rows], db' = db, audit' = audit,
           \A r \in rows : Owned(r, t)
    PROVE  AnswersStayInTenant'
<1>1. answer'.tenant = t /\ answer'.rows = rows
    OBVIOUS
<1>2. \A r \in rows : TenantOfShown(r)' = t
    BY OwnedShown
<1> QED
    BY <1>1, <1>2 DEF AnswersStayInTenant

-----------------------------------------------------------------------------
(* Admin requests                                                          *)

\* What a handler goes on with after its first step.
Begins(a, x) ==
    /\ "pc" \in DOMAIN x /\ DOMAIN x \cap {"tenant", "key", "snapshot_id"} = {}
    /\ \/ /\ Pending(x) /\ GoesOn(a, x)
          /\ {"kind", "snapshot"} \subseteq DOMAIN x /\ x.kind = "config_snapshot"
          /\ RowOK(x.snapshot) /\ x.snapshot.tenant = TenantOf[a]
          /\ SnapshotOK(db["config_snapshot"], x.snapshot)
          /\ x.snapshot.f.earlier = Settled(TenantOf[a])
       \/ /\ x.pc = "write" /\ {"kind", "id", "then"} \subseteq DOMAIN x
          /\ x.then = "drain" /\ HasEmergency(a, x) /\ x.kind = "provider_endpoint"
          /\ x.id \in 1 .. Len(db["provider_endpoint"])
       \/ x.pc = "emergency" /\ HasEmergency(a, x)

LEMMA BeginsReady ==
    ASSUME NEW a, NEW x, NEW base, Begins(a, x), "key" \in DOMAIN base, base.key \in Keys,
           "tenant" \notin DOMAIN base, "snapshot_id" \notin DOMAIN base
    PROVE  LET y == x ++ base
           IN /\ AdminReady(db, a, y) /\ ~ Holds(y) /\ y.pc # "set_pointer"
              /\ Pending(y) => y.snapshot.f.earlier = Settled(TenantOf[a])
<1>1. PICK y : y = x ++ base
    OBVIOUS
<1>2. /\ DOMAIN y = DOMAIN x \cup DOMAIN base
      /\ \A z \in DOMAIN x : y[z] = x[z]
      /\ \A z \in DOMAIN base \ DOMAIN x : y[z] = base[z]
    BY <1>1 DEF ++
<1>3. {"pc", "key"} \subseteq DOMAIN y /\ "tenant" \notin DOMAIN y /\ ~ Holds(y) /\ y.key \in Keys
    BY <1>2 DEF Begins, Holds
<1>4. HasEmergency(a, x) => HasEmergency(a, y)
    BY <1>2 DEF HasEmergency
<1>5. GoesOn(a, x) => GoesOn(a, y)
    BY <1>2, <1>4 DEF GoesOn
<1>6. CASE Pending(x)
  <2>1. /\ Pending(y) /\ GoesOn(a, y) /\ {"kind", "snapshot"} \subseteq DOMAIN y
        /\ y.kind = "config_snapshot" /\ y.snapshot = x.snapshot
      BY <1>2, <1>5, <1>6 DEF Begins, Pending
  <2> QED
      BY <1>1, <1>3, <1>6, <2>1 DEF Begins, AdminReady, Pending
<1>7. CASE x.pc = "write"
  <2>1. /\ y.pc = "write" /\ {"kind", "id", "then"} \subseteq DOMAIN y /\ y.then = "drain"
        /\ HasEmergency(a, y) /\ y.kind = "provider_endpoint"
        /\ y.id \in 1 .. Len(db["provider_endpoint"])
      BY <1>2, <1>4, <1>7 DEF Begins, Pending
  <2> QED
      BY <1>1, <1>3, <2>1 DEF AdminReady, Pending
<1>8. CASE x.pc = "emergency"
  <2>1. y.pc = "emergency" /\ HasEmergency(a, y)
      BY <1>2, <1>4, <1>8 DEF Begins, Pending
  <2> QED
      BY <1>1, <1>3, <2>1 DEF AdminReady, Pending
<1> QED
    BY <1>6, <1>7, <1>8 DEF Begins

\* A request that learns that it is not alone goes on as before.
LEMMA NotAlone ==
    ASSUME NEW d, NEW a, NEW x, x # NoOp, Ready(d, a, x)
    PROVE  LET y == [x EXCEPT !.alone = FALSE] IN Ready(d, a, y) /\ Quiet(x, y)
<1>1. PICK y : y = [x EXCEPT !.alone = FALSE]
    OBVIOUS
<1>2. DOMAIN y = DOMAIN x /\ \A z \in DOMAIN x \ {"alone"} : y[z] = x[z]
    BY <1>1
<1>3. "pc" \in DOMAIN x
    BY DEF Ready, AdminReady, RequestReady, ExportReady
<1>4. y.pc = x.pc /\ (Holds(y) = Holds(x))
    BY <1>2, <1>3 DEF Holds
<1>5. Quiet(x, y)
  <2>1. Pending(x) => "snapshot" \in DOMAIN x
      BY DEF Ready, AdminReady, RequestReady, ExportReady, Pending, RequestPcs
  <2>2. x.pc = "set_pointer" => Holds(x)
      BY ReadyAtSet
  <2> QED
      BY <1>2, <1>4, <2>1, <2>2 DEF Quiet, Pending, Holds
<1>6. ASSUME RequestReady(d["config_snapshot"], x) PROVE RequestReady(d["config_snapshot"], y)
    BY <1>2, <1>4, <1>6 DEF RequestReady, Planned
<1>7. ASSUME ExportReady(x) PROVE ExportReady(y)
    BY <1>2, <1>4, <1>7 DEF ExportReady
<1>8. ASSUME AdminReady(d, a, x) PROVE AdminReady(d, a, y)
  <2>1. HasEmergency(a, x) => HasEmergency(a, y)
      BY <1>2 DEF HasEmergency
  <2>2. GoesOn(a, x) => GoesOn(a, y)
      BY <1>2, <2>1 DEF GoesOn
  <2>3. HasSnapshot(d, a, x) => HasSnapshot(d, a, y)
      BY <1>2 DEF HasSnapshot
  <2> QED
      BY <1>2, <1>4, <1>8, <2>1, <2>2, <2>3 DEF AdminReady, Pending
<1>9. Ready(d, a, y)
    BY <1>6, <1>7, <1>8 DEF Ready
<1> QED
    BY <1>1, <1>5, <1>9

LEMMA RequestBegins ==
    ASSUME Inv, NEW a \in Admins, op[a] = NoOp, NEW route, NEW early, NEW scope,
           NEW key \in Keys, NEW hash, NEW late, NEW next, Begins(a, next),
           Request(a, route, early, scope, key, hash, late, next)
    PROVE  Inv'
<1> DEFINE stored == Stored(TenantOf[a], scope, key)
           live == {r \in stored : r.expires > clock}
           rivals == Rivals(a, scope, key)
           base == [route |-> route, scope |-> scope, key |-> key, hash |-> hash, at |-> clock,
                    alone |-> rivals = {}, wrote |-> << >>]
<1>1. /\ db' = db /\ audit' = audit /\ clock' = clock /\ scenario' = scenario
    BY DEF Request, RequestNoting, store, fixed
<1>2. idem' \in {idem \ (stored \ live), idem}
    BY DEF Request, RequestNoting
<1>3. answer' = Nobody \/ answer' = [tenant |-> TenantOf[a], rows |-> {r.response : r \in live}]
    BY DEF Request, RequestNoting
<1>4. \/ op' = op
      \/ op' = [b \in Admins |->
                  IF b = a THEN next ++ base
                  ELSE IF b \in rivals THEN [op[b] EXCEPT !.alone = FALSE] ELSE op[b]]
    BY DEF Request, RequestNoting
<1>5. AnswersStayInTenant'
  <2>1. ASSUME NEW r \in live PROVE Owned(r.response, TenantOf[a])
    <3>1. r \in idem /\ r.tenant = TenantOf[a]
        BY DEF Stored
    <3>2. PICK k, id : r.response = <<k, id>> /\ IsAnswer(db, r.tenant, k, id)
        BY <3>1, InvParts DEF RecordsOK
    <3> QED
        BY <3>1, <3>2 DEF IsAnswer, AnsweredKinds, OddKinds, Owned
  <2>2. PICK rows : rows = {r.response : r \in live}
      OBVIOUS
  <2>3. \A r \in rows : Owned(r, TenantOf[a])
      BY <2>1, <2>2
  <2> HIDE DEF live
  <2> QED
      BY <1>1, <1>3, <2>2, <2>3, OwnedAnswered, NobodyAnswered
<1>6. idem' \subseteq idem
  <2> HIDE DEF stored, live
  <2> QED
      BY <1>2
<1>7. ClockOK'
    BY <1>1 DEF Inv, ClockOK
<1>8. CASE op' = op
  <2>1. StateOK(db', op', idem')
    <3>1. RecordsOK(db, idem')
        BY <1>6, InvParts DEF RecordsOK
    <3> QED
        BY <1>1, <1>8, <3>1, InvParts DEF StateOK
  <2> QED
      BY <1>5, <1>7, <2>1 DEF Inv
<1>9. CASE op' = [b \in Admins |->
                    IF b = a THEN next ++ base
                    ELSE IF b \in rivals THEN [op[b] EXCEPT !.alone = FALSE] ELSE op[b]]
  <2>1. PICK y : y = next ++ base
      OBVIOUS
  <2>2. /\ AdminReady(db, a, y) /\ ~ Holds(y) /\ y.pc # "set_pointer"
        /\ Pending(y) => y.snapshot.f.earlier = Settled(TenantOf[a])
    <3>1. PICK m : m = base
        OBVIOUS
    <3>2. /\ "key" \in DOMAIN m /\ m.key \in Keys /\ "tenant" \notin DOMAIN m
          /\ "snapshot_id" \notin DOMAIN m
        BY <3>1
    <3> HIDE DEF base
    <3> QED
        BY <2>1, <3>1, <3>2, BeginsReady
  <2>3. PICK u : u = op'
      OBVIOUS
  <2>4. DOMAIN u = Admins /\ u[a] = y
      BY <1>9, <2>1, <2>3
  <2>5. \A b \in Admins \ {a} : \/ u[b] = op[b]
                                \/ op[b] # NoOp /\ u[b] = [op[b] EXCEPT !.alone = FALSE]
    <3>1. \A b \in rivals : op[b] # NoOp
        BY DEF Rivals
    <3> HIDE DEF rivals, base
    <3>2. ASSUME NEW b \in Admins \ {a}
          PROVE  u[b] = IF b \in rivals THEN [op[b] EXCEPT !.alone = FALSE] ELSE op[b]
        BY <1>9, <2>3
    <3> QED
        BY <3>1, <3>2
  <2>6. ASSUME NEW b \in Admins \ {a} PROVE Ready(db, b, u[b]) /\ Quiet(op[b], u[b])
    <3>1. Ready(db, b, op[b])
        BY InvParts
    <3>2. CASE u[b] = op[b]
        BY <3>1, <3>2, QuietSelf
    <3>3. CASE op[b] # NoOp /\ u[b] = [op[b] EXCEPT !.alone = FALSE]
        BY <3>1, <3>3, NotAlone
    <3> QED
        BY <2>5, <3>2, <3>3
  <2>7. OpsReady(db, u)
    <3>1. Ready(db, a, u[a])
        BY <2>2, <2>4 DEF Ready
    <3> QED
        BY <2>4, <2>6, <3>1 DEF OpsReady
  <2>8. PublicationOK(db, u)
    <3>1. \A b \in Admins :
            Pending(u[a]) /\ Holds(op[b]) => op[b].snapshot_id \notin u[a].snapshot.f.earlier
        BY <2>2, <2>4, InvParts, SettledFree
    <3>2. op[a].pc # "set_pointer" /\ ~ Holds(u[a])
        BY <2>2, <2>4 DEF NoOp
    <3> QED
        BY <2>6, <3>1, <3>2, InvParts, PublicationBegun
  <2>9. RecordsOK(db, idem')
      BY <1>6, InvParts DEF RecordsOK
  <2>10. StateOK(db', op', idem')
      BY <1>1, <2>3, <2>7, <2>8, <2>9, InvParts DEF StateOK
  <2> QED
      BY <1>5, <1>7, <2>10 DEF Inv
<1> QED
  <2> HIDE DEF base, rivals
  <2> QED
      BY <1>4, <1>8, <1>9

LEMMA MutatingIdle ==
    ASSUME NEW a, NEW route, Mutating(a, route)
    PROVE  op[a] = NoOp
BY DEF Mutating, Calling

LEMMA PublishBegins ==
    ASSUME Inv, NEW a \in Admins, NEW payload, NEW source
    PROVE  Begins(a, PublishDocument(a, payload, source))
<1>1. PICK x : x = PublishDocument(a, payload, source)
    OBVIOUS
<1>2. /\ DOMAIN x = {"pc", "kind", "then", "before", "after", "snapshot"}
      /\ Pending(x) /\ x.kind = "config_snapshot" /\ x.then = "finish"
      /\ RowOK(x.snapshot) /\ x.snapshot.tenant = TenantOf[a]
      /\ SnapshotOK(db["config_snapshot"], x.snapshot)
      /\ x.snapshot.f.earlier = Settled(TenantOf[a])
    BY <1>1, InvParts, PublishDocumentReady
<1>3. Begins(a, x)
    BY <1>2 DEF Begins, GoesOn
<1> QED
    BY <1>1, <1>3

LEMMA PublishConfigSnapshotOK ==
    ASSUME Inv, NEW a \in Admins, PublishConfigSnapshot(a)
    PROVE  Inv'
<1>1. op[a] = NoOp
    BY MutatingIdle DEF PublishConfigSnapshot
<1>2. PICK payload \in Requests["payload"], key \in Keys :
         Request(a, "publish_config_snapshot", TRUE, <<"config_snapshots:publish">>, key,
                 payload, ValidateConfigSnapshotPayload(payload),
                 PublishDocument(a, payload, None))
    BY DEF PublishConfigSnapshot
<1>3. Begins(a, PublishDocument(a, payload, None))
    BY PublishBegins
<1> QED
    BY <1>1, <1>2, <1>3, RequestBegins

LEMMA RollbackConfigSnapshotOK ==
    ASSUME Inv, NEW a \in Admins, RollbackConfigSnapshot(a)
    PROVE  Inv'
<1>1. op[a] = NoOp
    BY MutatingIdle DEF RollbackConfigSnapshot
<1>2. PICK source \in Ids("config_snapshot"), reason \in Requests["reason"], key \in Keys :
         Request(a, "rollback_config_snapshot", reason, <<"config_snapshots:rollback">>, key,
                 source, ForActor("config_snapshot", a, source),
                 PublishDocument(a, Row("config_snapshot", source).f.payload, source))
    BY DEF RollbackConfigSnapshot
<1>3. Begins(a, PublishDocument(a, Row("config_snapshot", source).f.payload, source))
    BY PublishBegins
<1> QED
    BY <1>1, <1>2, <1>3, RequestBegins

\* The row of an emergency operation that is stored at the end of a handler.
LEMMA EmergencyRow ==
    ASSUME NEW a \in Admins, NEW operation, NEW target, NEW expires
    PROVE  LET row == EmergencyOperationRecord(TenantOf[a], operation, target, expires)
           IN RowOK(row) /\ row.tenant = TenantOf[a]
BY AdminAssumption, NewRowOK DEF EmergencyOperationRecord

LEMMA EmergencyRollbackConfigSnapshotOK ==
    ASSUME Inv, NEW a \in Admins, EmergencyRollbackConfigSnapshot(a)
    PROVE  Inv'
<1>1. op[a] = NoOp
    BY MutatingIdle DEF EmergencyRollbackConfigSnapshot
<1>2. PICK source \in Ids("config_snapshot"), r \in Requests["emergency"], key \in Keys :
         Request(a, "emergency_rollback_config_snapshot", ValidateEmergencyOperationRequest(r),
                 <<"rollback_config_snapshot", source>>, key, r,
                 ForActor("config_snapshot", a, source),
                 [then |-> "emergency",
                  row |-> EmergencyOperationRecord(TenantOf[a], "rollback_config_snapshot",
                                                   <<"config_snapshot", source>>, r.expires)]
                   ++ PublishDocument(a, Row("config_snapshot", source).f.payload, source))
    BY DEF EmergencyRollbackConfigSnapshot
<1>3. PICK row : row = EmergencyOperationRecord(TenantOf[a], "rollback_config_snapshot",
                                                <<"config_snapshot", source>>, r.expires)
    OBVIOUS
<1>4. PICK x : x = PublishDocument(a, Row("config_snapshot", source).f.payload, source)
    OBVIOUS
<1>5. PICK head : head = [then |-> "emergency", row |-> row]
    OBVIOUS
<1>6. PICK next : next = head ++ x
    OBVIOUS
<1>7. Begins(a, next)
  <2>1. /\ DOMAIN next = DOMAIN head \cup DOMAIN x
        /\ \A z \in DOMAIN head : next[z] = head[z]
        /\ \A z \in DOMAIN x \ DOMAIN head : next[z] = x[z]
      BY <1>6 DEF ++
  <2>2. /\ DOMAIN x = {"pc", "kind", "then", "before", "after", "snapshot"}
        /\ Pending(x) /\ x.kind = "config_snapshot"
        /\ RowOK(x.snapshot) /\ x.snapshot.tenant = TenantOf[a]
        /\ SnapshotOK(db["config_snapshot"], x.snapshot)
        /\ x.snapshot.f.earlier = Settled(TenantOf[a])
      BY <1>4, InvParts, PublishDocumentReady
  <2>3. DOMAIN head = {"then", "row"} /\ head.then = "emergency" /\ head.row = row
      BY <1>5
  <2>4. RowOK(row) /\ row.tenant = TenantOf[a]
      BY <1>3, EmergencyRow
  <2>5. /\ DOMAIN next = {"pc", "kind", "then", "before", "after", "snapshot", "row"}
        /\ next.pc = x.pc /\ next.kind = x.kind /\ next.snapshot = x.snapshot
        /\ next.then = "emergency" /\ next.row = row
      BY <2>1, <2>2, <2>3
  <2> QED
      BY <2>2, <2>4, <2>5 DEF Begins, GoesOn, HasEmergency, Pending
<1> QED
    BY <1>1, <1>2, <1>3, <1>4, <1>5, <1>6, <1>7, RequestBegins

LEMMA EmergencyDisableProviderEndpointOK ==
    ASSUME Inv, NEW a \in Admins, EmergencyDisableProviderEndpoint(a)
    PROVE  Inv'
<1>1. op[a] = NoOp
    BY MutatingIdle DEF EmergencyDisableProviderEndpoint
<1>2. PICK id \in Ids("provider_endpoint"), r \in Requests["emergency"], key \in Keys :
         Request(a, "emergency_disable_provider_endpoint", ValidateEmergencyOperationRequest(r),
                 <<"disable_provider_endpoint", id>>, key, r,
                 ForActor("provider_endpoint", a, id) /\ r.expected > 0 /\ TRUE,
                 [row |-> EmergencyOperationRecord(TenantOf[a], "disable_provider_endpoint",
                                                   <<"provider_endpoint", id>>, r.expires)]
                   ++ ([then |-> "drain"]
                     ++ Writing("provider_endpoint", id, r.expected, NewStatus("disabled"))))
    BY DEF EmergencyDisableProviderEndpoint, Emergency
<1>3. PICK row : row = EmergencyOperationRecord(TenantOf[a], "disable_provider_endpoint",
                                                <<"provider_endpoint", id>>, r.expires)
    OBVIOUS
<1>4. PICK x : x = Writing("provider_endpoint", id, r.expected, NewStatus("disabled"))
    OBVIOUS
<1>5. PICK head, then : head = [row |-> row] /\ then = [then |-> "drain"]
    OBVIOUS
<1>6. PICK y : y = then ++ x
    OBVIOUS
<1>7. PICK next : next = head ++ y
    OBVIOUS
<1>8. Begins(a, next)
  <2>1. /\ DOMAIN next = DOMAIN head \cup DOMAIN y
        /\ \A z \in DOMAIN head : next[z] = head[z]
        /\ \A z \in DOMAIN y \ DOMAIN head : next[z] = y[z]
      BY <1>7 DEF ++
  <2>2. /\ DOMAIN y = DOMAIN then \cup DOMAIN x
        /\ \A z \in DOMAIN then : y[z] = then[z]
        /\ \A z \in DOMAIN x \ DOMAIN then : y[z] = x[z]
      BY <1>6 DEF ++
  <2>3. /\ DOMAIN x = {"pc", "kind", "id", "expected", "patch", "before", "then", "wrote"}
        /\ x.pc = "write" /\ x.kind = "provider_endpoint" /\ x.id = id
      BY <1>4 DEF Writing
  <2>4. /\ DOMAIN head = {"row"} /\ head.row = row
        /\ DOMAIN then = {"then"} /\ then.then = "drain"
      BY <1>5
  <2>5. RowOK(row) /\ row.tenant = TenantOf[a]
      BY <1>3, EmergencyRow
  <2>6. /\ DOMAIN y = DOMAIN x /\ y.pc = "write" /\ y.kind = "provider_endpoint"
        /\ y.id = id /\ y.then = "drain"
      BY <2>2, <2>3, <2>4
  <2>7. /\ DOMAIN next = {"pc", "kind", "id", "expected", "patch", "before", "then", "wrote", "row"}
        /\ next.pc = "write" /\ next.kind = "provider_endpoint" /\ next.id = id
        /\ next.then = "drain" /\ next.row = row
      BY <2>1, <2>3, <2>4, <2>6
  <2>8. id \in 1 .. Len(db["provider_endpoint"])
      BY DEF Ids
  <2> QED
      BY <2>5, <2>7, <2>8 DEF Begins, HasEmergency, Pending
<1> QED
    BY <1>1, <1>2, <1>3, <1>4, <1>5, <1>6, <1>7, <1>8, RequestBegins

LEMMA EmergencyFreezeConfigOK ==
    ASSUME Inv, NEW a \in Admins, EmergencyFreezeConfig(a)
    PROVE  Inv'
<1>1. op[a] = NoOp
    BY MutatingIdle DEF EmergencyFreezeConfig
<1>2. PICK r \in Requests["emergency"], key \in Keys :
         \E before :
           Request(a, "emergency_freeze_config", ValidateEmergencyOperationRequest(r),
                   <<"freeze_config", TenantOf[a]>>, key, r, TRUE,
                   [pc |-> "emergency", before |-> before, after |-> 1,
                    row |-> EmergencyOperationRecord(TenantOf[a], "freeze_config",
                                                     <<"config", TenantOf[a]>>, r.expires)])
    BY DEF EmergencyFreezeConfig
<1>3. PICK before :
         Request(a, "emergency_freeze_config", ValidateEmergencyOperationRequest(r),
                 <<"freeze_config", TenantOf[a]>>, key, r, TRUE,
                 [pc |-> "emergency", before |-> before, after |-> 1,
                  row |-> EmergencyOperationRecord(TenantOf[a], "freeze_config",
                                                   <<"config", TenantOf[a]>>, r.expires)])
    BY <1>2
<1>4. PICK row : row = EmergencyOperationRecord(TenantOf[a], "freeze_config",
                                                <<"config", TenantOf[a]>>, r.expires)
    OBVIOUS
<1>5. PICK next : next = [pc |-> "emergency", before |-> before, after |-> 1, row |-> row]
    OBVIOUS
<1>6. Begins(a, next)
  <2>1. RowOK(row) /\ row.tenant = TenantOf[a]
      BY <1>4, EmergencyRow
  <2> QED
      BY <1>5, <2>1 DEF Begins, HasEmergency, Pending
<1> QED
    BY <1>1, <1>3, <1>4, <1>5, <1>6, RequestBegins

-----------------------------------------------------------------------------
(* The steps of insert_config_snapshot                                     *)

AdminPcs == {"push_snapshot", "set_pointer", "push_invalidation", "set_latest", "write", "drain",
             "build", "emergency", "finish"}

LEMMA AdminAt ==
    ASSUME Inv, NEW a \in Admins, op[a].pc \in AdminPcs
    PROVE  AdminReady(db, a, op[a])
<1>1. Ready(db, a, op[a])
    BY InvParts
<1> QED
    BY <1>1 DEF Ready, AdminPcs, RequestReady, ExportReady, RequestPcs, NoOp

LEMMA ChangeGrown ==
    ASSUME NEW d, NEW e, NEW k \in Kinds, DbOK(d), Changes(d, e, k),
           k \in {"config_snapshot", "emergency_operation"} => Longer(d[k], e[k]),
           k = "provider_endpoint" => Len(d[k]) <= Len(e[k])
    PROVE  Grown(d, e)
<1>1. \A j \in {"config_snapshot", "emergency_operation", "provider_endpoint"} :
         Len(d[j]) \in Nat /\ (j # k => e[j] = d[j])
    BY TablesAreSeq, KindsKnown DEF Changes, RuntimeKinds
<1> QED
    BY <1>1, LongerSelf DEF Grown

LEMMA MovesReady ==
    ASSUME NEW d, NEW e, NEW o, NEW u, NEW a \in Admins, DbOK(d), DbOK(e), Grown(d, e),
           OpsReady(d, o), Moves(o, u, a), Ready(e, a, u[a])
    PROVE  OpsReady(e, u)
<1>1. ASSUME NEW b \in Admins \ {a} PROVE Ready(e, b, u[b])
  <2>1. Ready(d, b, o[b]) /\ u[b] = o[b]
      BY DEF OpsReady, Moves
  <2> QED
      BY <2>1, ReadyKept
<1> QED
    BY <1>1 DEF OpsReady, Moves

LEMMA MovesTo ==
    ASSUME Inv, NEW a \in Admins, NEW y, op' = [op EXCEPT ![a] = y]
    PROVE  Moves(op, op', a) /\ op'[a] = y
BY InvParts DEF Moves

LEMMA PushConfigSnapshotOK ==
    ASSUME Inv, NEW a \in Admins, PushConfigSnapshot(a)
    PROVE  Inv'
<1>1. PICK x, e, u : x = op[a] /\ e = db' /\ u = op'
    OBVIOUS
<1>2. AdminReady(db, a, x) /\ Pending(x)
    BY <1>1, AdminAt DEF PushConfigSnapshot, AdminPcs, Pending
<1>3. PICK s, n, row : s = db["config_snapshot"] /\ n = e["config_snapshot"] /\ row = x.snapshot
    OBVIOUS
<1>4. /\ GoesOn(a, x) /\ {"kind", "snapshot", "pc", "key"} \subseteq DOMAIN x
      /\ x.kind = "config_snapshot" /\ RowOK(row) /\ row.tenant = TenantOf[a]
      /\ SnapshotOK(s, row) /\ x.key \in Keys \cup {NoKey} /\ "tenant" \notin DOMAIN x
    BY <1>2, <1>3 DEF AdminReady, Pending
<1>5. Len(s) \in Nat /\ "config_snapshot" \in Kinds /\ DbOK(db)
    BY <1>3, InvParts, TablesAreSeq, KindsKnown DEF RuntimeKinds
<1>6. e = [db EXCEPT !["config_snapshot"] = Append(@, row)]
    BY <1>1, <1>3 DEF PushConfigSnapshot
<1>7. /\ Changes(db, e, "config_snapshot") /\ Longer(s, n) /\ Len(n) = Len(s) + 1
      /\ n[Len(s) + 1] = row
  <2>1. Changes(db, e, "config_snapshot")
    <3>1. PICK k : k = "config_snapshot"
        OBVIOUS
    <3>2. k \in Kinds /\ DbOK(db) /\ RowOK(row) /\ e = [db EXCEPT ![k] = Append(@, row)]
        BY <1>4, <1>5, <1>6, <3>1
    <3>3. Changes(db, e, k)
        BY <3>2, AppendChanges
    <3> QED
        BY <3>1, <3>3
  <2>2. n = Append(s, row)
      BY <1>3, <1>5, <1>6, InvParts
  <2>3. IsRows(s)
      BY <1>3, <1>5 DEF DbOK
  <2> QED
      BY <1>4, <2>1, <2>2, <2>3, AppendRows
<1>8. PICK y : y = [pc |-> "set_pointer", id |-> Len(s) + 1, snapshot_id |-> Len(s) + 1] ++ x
    OBVIOUS
<1>9. op' = [op EXCEPT ![a] = y]
    BY <1>1, <1>3, <1>8 DEF PushConfigSnapshot
<1>10. Moves(op, u, a) /\ u[a] = y
    BY <1>1, <1>9, MovesTo
<1>11. /\ DOMAIN y = DOMAIN x \cup {"pc", "id", "snapshot_id"}
       /\ y.pc = "set_pointer" /\ y.id = Len(s) + 1 /\ y.snapshot_id = Len(s) + 1
       /\ \A z \in DOMAIN x \ {"pc", "id", "snapshot_id"} : y[z] = x[z]
  <2>1. PICK m : m = [pc |-> "set_pointer", id |-> Len(s) + 1, snapshot_id |-> Len(s) + 1]
      OBVIOUS
  <2>2. /\ DOMAIN m = {"pc", "id", "snapshot_id"} /\ m.pc = "set_pointer"
        /\ m.id = Len(s) + 1 /\ m.snapshot_id = Len(s) + 1
      BY <2>1
  <2>3. y = m ++ x
      BY <1>8, <2>1
  <2>4. /\ DOMAIN y = DOMAIN m \cup DOMAIN x
        /\ \A z \in DOMAIN m : y[z] = m[z]
        /\ \A z \in DOMAIN x \ DOMAIN m : y[z] = x[z]
      BY <2>3 DEF ++
  <2> QED
      BY <2>2, <2>4
<1>12. DbOK(e) /\ Grown(db, e)
    BY <1>3, <1>5, <1>7, ChangesOK, ChangeGrown
<1>13. PublicationOK(e, u)
  <2>1. \A k \in {"config_publication", "config_invalidation", "latest_snapshot"} : e[k] = db[k]
      BY <1>7, KindsKnown DEF Changes, RuntimeKinds
  <2>2. /\ SnapshotsOK(s) /\ Unsettled(s, op) /\ Ahead(s, db["config_publication"], op)
        /\ LeadOK(s, db["config_publication"]) /\ OnePointer(db["config_publication"])
        /\ LeadOK(s, db["config_invalidation"]) /\ LeadOK(s, db["latest_snapshot"])
      BY <1>3, InvParts DEF PublicationOK
  <2>3. Len(n) \in Nat
      BY <1>5, <1>7
  <2>4. /\ LeadOK(n, db["config_publication"]) /\ LeadOK(n, db["config_invalidation"])
        /\ LeadOK(n, db["latest_snapshot"])
      BY <1>5, <1>7, <2>2, <2>3, LeadKept
  <2>5. \A c \in Admins : Pending(op[c]) => op[c].snapshot.f.earlier \subseteq 1 .. Len(s)
    <3>1. ASSUME NEW c \in Admins, Pending(op[c]) PROVE SnapshotOK(s, op[c].snapshot)
      <4>1. AdminReady(db, c, op[c])
          BY <3>1, AdminAt DEF Pending, AdminPcs
      <4> QED
          BY <1>3, <3>1, <4>1 DEF AdminReady, Pending
    <3> QED
        BY <3>1 DEF SnapshotOK, SnapshotsOf
  <2>6. /\ Pending(op[a]) /\ op[a].snapshot = row
        /\ u[a].pc = "set_pointer" /\ u[a].snapshot_id = Len(s) + 1
        /\ \A b \in Admins \ {a} : u[b] = op[b]
      BY <1>1, <1>2, <1>3, <1>10, <1>11 DEF Moves
  <2>7. SnapshotsOK(n) /\ Unsettled(n, u) /\ Ahead(n, db["config_publication"], u)
      BY <1>4, <1>5, <1>7, <2>2, <2>5, <2>6, PublicationPushed
  <2> QED
      BY <1>3, <2>1, <2>2, <2>4, <2>7 DEF PublicationOK
<1>14. OpsReady(e, u)
  <2>1. HasEmergency(a, x) => HasEmergency(a, y)
      BY <1>11 DEF HasEmergency
  <2>2. GoesOn(a, y)
      BY <1>4, <1>11, <2>1 DEF GoesOn
  <2>3. HasSnapshot(e, a, y)
    <3>1. Len(s) + 1 \in SnapshotsOf(n, TenantOf[a])
        BY <1>4, <1>5, <1>7 DEF SnapshotsOf
    <3> QED
        BY <1>3, <1>4, <1>7, <1>11, <3>1 DEF HasSnapshot
  <2>4. Ready(e, a, u[a])
      BY <1>4, <1>10, <1>11, <2>2, <2>3 DEF Ready, AdminReady
  <2> QED
      BY <1>10, <1>12, <2>4, InvParts, MovesReady
<1>15. DecisionsOK(e)
  <2>1. e["route_decision"] = db["route_decision"]
      BY <1>7, KindsKnown DEF Changes, RuntimeKinds
  <2>2. Len(n) \in Nat
      BY <1>5, <1>7
  <2>3. \A snapshot, settled : NotReplaced(s, snapshot, settled) => NotReplaced(n, snapshot, settled)
      BY <1>5, <1>7, <2>2, PlanKept
  <2> QED
      BY <1>3, <2>1, <2>3, InvParts DEF DecisionsOK
<1>16. EvidenceOK(e)
  <2>1. e["worker_reload"] = db["worker_reload"] /\ e["otel_health"] = db["otel_health"]
      BY <1>7, KindsKnown DEF Changes, RuntimeKinds
  <2> QED
      BY <2>1, InvParts DEF EvidenceOK
<1>17. /\ idem' = idem /\ clock' = clock /\ scenario' = scenario /\ answer' = Nobody
    BY OnlyStoreFrame DEF PushConfigSnapshot
<1>18. RecordsOK(e, idem)
    BY <1>5, <1>12, InvParts, RecordsKept
<1>19. StateOK(db', op', idem')
    BY <1>1, <1>12, <1>13, <1>14, <1>15, <1>16, <1>17, <1>18 DEF StateOK
<1>20. ClockOK' /\ AnswersStayInTenant'
    BY <1>17, NobodyAnswered DEF Inv, ClockOK
<1> QED
    BY <1>19, <1>20 DEF Inv

LEMMA UnsettledKept ==
    ASSUME NEW s, NEW o, NEW u, Unsettled(s, o),
           \A b \in Admins : /\ Holds(u[b]) => Holds(o[b]) /\ u[b].snapshot_id = o[b].snapshot_id
                             /\ Pending(u[b]) => Pending(o[b]) /\ u[b].snapshot = o[b].snapshot
    PROVE  Unsettled(s, u)
BY DEF Unsettled

\* The record that leads to the snapshot a handler has in its hands.
LEMMA PointerRecord ==
    ASSUME Inv, NEW a \in Admins, op[a].pc \in {"set_pointer", "push_invalidation", "set_latest"}
    PROVE  LET row == ConfigPublicationPointerRecord(a)
               s == db["config_snapshot"]
           IN /\ RowOK(row) /\ row.tenant = TenantOf[a]
              /\ row.f.snapshot = op[a].snapshot_id
              /\ row.f.snapshot \in SnapshotsOf(s, TenantOf[a])
              /\ s[row.f.snapshot].f.version = row.f.version
<1>1. HasSnapshot(db, a, op[a])
    BY AdminAt DEF AdminPcs, AdminReady, Pending
<1>2. PICK row, f : /\ f = [snapshot |-> op[a].snapshot_id, version |-> op[a].snapshot.f.version]
                    /\ row = NewRow(TenantOf[a], f, "active")
    OBVIOUS
<1>3. RowOK(row) /\ row.tenant = TenantOf[a] /\ row.f = f
    BY <1>2, AdminAssumption, NewRowOK
<1>4. ConfigPublicationPointerRecord(a) = row
    BY <1>2 DEF ConfigPublicationPointerRecord
<1>5. f.snapshot = op[a].snapshot_id /\ f.version = op[a].snapshot.f.version
    BY <1>2
<1> QED
    BY <1>1, <1>3, <1>4, <1>5 DEF HasSnapshot

\* A request that has a snapshot in its hands goes on to the next of the locks.
LEMMA NextLock ==
    ASSUME Inv, NEW a \in Admins, op[a].pc \in {"set_pointer", "push_invalidation", "set_latest"},
           NEW pc, pc \in {"push_invalidation", "set_latest"} \/ pc = op[a].then,
           NEW y, y = [op[a] EXCEPT !.pc = pc]
    PROVE  /\ Ready(db, a, y) /\ ~ Pending(y)
           /\ Holds(op[a]) /\ (Holds(y) => y.snapshot_id = op[a].snapshot_id)
<1>1. /\ AdminReady(db, a, op[a]) /\ HasSnapshot(db, a, op[a]) /\ GoesOn(a, op[a])
      /\ {"pc", "key"} \subseteq DOMAIN op[a] /\ "tenant" \notin DOMAIN op[a]
      /\ op[a].key \in Keys \cup {NoKey} /\ Holds(op[a])
    BY AdminAt DEF AdminPcs, AdminReady, Pending, HasSnapshot, Holds
<1>2. PICK x : x = op[a]
    OBVIOUS
<1>3. DOMAIN y = DOMAIN x /\ y.pc = pc /\ \A z \in DOMAIN x \ {"pc"} : y[z] = x[z]
    BY <1>1, <1>2
<1>4. HasSnapshot(db, a, y) /\ y.snapshot_id = x.snapshot_id
    BY <1>1, <1>2, <1>3 DEF HasSnapshot
<1>5. HasEmergency(a, x) => HasEmergency(a, y)
    BY <1>3 DEF HasEmergency
<1>6. GoesOn(a, y)
    BY <1>1, <1>2, <1>3, <1>5 DEF GoesOn
<1>7. {"pc", "key"} \subseteq DOMAIN y /\ "tenant" \notin DOMAIN y /\ y.key \in Keys \cup {NoKey}
    BY <1>1, <1>2, <1>3
<1>8. CASE pc \in {"push_invalidation", "set_latest"}
  <2>1. AdminReady(db, a, y)
      BY <1>3, <1>4, <1>6, <1>7, <1>8 DEF AdminReady
  <2> QED
      BY <1>1, <1>2, <1>3, <1>4, <1>8, <2>1 DEF Ready, Pending
<1>9. CASE pc = "finish"
  <2>1. IsAnswer(db, TenantOf[a], y.kind, y.id) /\ {"kind", "id"} \subseteq DOMAIN y
      BY <1>4 DEF HasSnapshot, IsAnswer, AnsweredKinds, SnapshotsOf
  <2>2. AdminReady(db, a, y)
      BY <1>3, <1>7, <1>9, <2>1 DEF AdminReady
  <2> QED
      BY <1>1, <1>2, <1>3, <1>4, <1>9, <2>2 DEF Ready, Pending
<1>10. CASE pc = "emergency" /\ HasEmergency(a, x)
  <2>1. AdminReady(db, a, y)
      BY <1>3, <1>5, <1>7, <1>10 DEF AdminReady
  <2> QED
      BY <1>1, <1>2, <1>3, <1>4, <1>10, <2>1 DEF Ready, Pending
<1> QED
    BY <1>1, <1>2, <1>8, <1>9, <1>10 DEF GoesOn

LEMMA SetConfigPublicationOK ==
    ASSUME Inv, NEW a \in Admins, SetConfigPublication(a)
    PROVE  Inv'
<1>1. PICK row, s, pointers, x : /\ row = ConfigPublicationPointerRecord(a) /\ x = op[a]
                                 /\ s = db["config_snapshot"] /\ pointers = db["config_publication"]
    OBVIOUS
<1>2. x.pc = "set_pointer"
    BY <1>1 DEF SetConfigPublication
<1>3. /\ RowOK(row) /\ row.tenant = TenantOf[a] /\ row.f.snapshot = x.snapshot_id
      /\ row.f.snapshot \in SnapshotsOf(s, TenantOf[a]) /\ s[row.f.snapshot].f.version = row.f.version
    BY <1>1, <1>2, PointerRecord
<1>4. PICK new : new = Upsert(pointers, row, LAMBDA p : p.tenant = TenantOf[a])
    OBVIOUS
<1>5. PICK e, u : e = db' /\ u = op'
    OBVIOUS
<1>6. e = [db EXCEPT !["config_publication"] = new]
    BY <1>1, <1>4, <1>5 DEF SetConfigPublication
<1>7. PointerSet(pointers, new, row)
    BY <1>3, <1>4 DEF Upsert, PointerSet
<1>8. /\ IsRows(pointers) /\ OnePointer(pointers) /\ "config_publication" \in Kinds
      /\ Unsettled(s, op) /\ Ahead(s, pointers, op) /\ LeadOK(s, pointers) /\ SnapshotsOK(s)
      /\ LeadOK(s, db["config_invalidation"]) /\ LeadOK(s, db["latest_snapshot"])
    BY <1>1, InvParts, TablesAreSeq, KindsKnown DEF PublicationOK, RuntimeKinds
<1>9. /\ IsRows(new) /\ OnePointer(new) /\ Put(pointers, new, row)
      /\ \E m \in 1 .. Len(new) : new[m] = row
      /\ \A i \in 1 .. Len(pointers) :
           pointers[i].tenant # row.tenant => \E j \in 1 .. Len(new) : new[j] = pointers[i]
    BY <1>3, <1>7, <1>8, PointerSetOK
<1>10. /\ Changes(db, e, "config_publication") /\ e["config_publication"] = new
       /\ e["config_snapshot"] = s
    BY <1>1, <1>6, <1>8, <1>9, InvParts, KindsKnown DEF Changes, RuntimeKinds
<1>11. DbOK(e) /\ Grown(db, e)
    BY <1>8, <1>10, InvParts, ChangesOK, ChangeGrown
<1>12. PICK y : y = [x EXCEPT !.pc = "push_invalidation"]
    OBVIOUS
<1>13. op' = [op EXCEPT ![a] = y]
    BY <1>1, <1>12 DEF SetConfigPublication
<1>14. Moves(op, u, a) /\ u[a] = y
    BY <1>5, <1>13, MovesTo
<1>15. /\ Ready(db, a, y) /\ ~ Pending(y) /\ Holds(x) /\ (Holds(y) => y.snapshot_id = x.snapshot_id)
    BY <1>1, <1>2, <1>12, NextLock
<1>16. PublicationOK(e, u)
  <2>1. Unsettled(s, u)
      BY <1>1, <1>8, <1>14, <1>15, UnsettledKept DEF Moves
  <2>2. LeadOK(s, new)
    <3>1. \A i \in 1 .. Len(new) : new[i] = row \/ (i \in 1 .. Len(pointers) /\ new[i] = pointers[i])
      <4>1. IsRows(pointers) /\ RowOK(row) /\ Put(pointers, new, row)
          BY <1>3, <1>8, <1>9
      <4> QED
          BY <4>1, PutRows
    <3>2. /\ LeadOK(s, pointers) /\ row.f.snapshot \in SnapshotsOf(s, row.tenant)
          /\ s[row.f.snapshot].f.version = row.f.version
        BY <1>3, <1>8
    <3> QED
        BY <3>1, <3>2, LeadSet
  <2>3. Ahead(s, new, u)
    <3>1. /\ Holds(op[a]) /\ op[a].snapshot_id \in SnapshotsOf(s, row.tenant)
          /\ row.f.snapshot = op[a].snapshot_id /\ \A b \in Admins \ {a} : u[b] = op[b]
        BY <1>1, <1>3, <1>14, <1>15 DEF Moves
    <3> QED
        BY <1>8, <1>9, <3>1, AheadSet
  <2>4. /\ e["config_invalidation"] = db["config_invalidation"]
        /\ e["latest_snapshot"] = db["latest_snapshot"]
      BY <1>10, KindsKnown DEF Changes, RuntimeKinds
  <2> QED
      BY <1>8, <1>9, <1>10, <2>1, <2>2, <2>3, <2>4 DEF PublicationOK
<1>17. OpsReady(e, u)
    BY <1>11, <1>14, <1>15, InvParts, ReadyKept, MovesReady
<1>18. DecisionsOK(e) /\ EvidenceOK(e)
  <2>1. \A k \in {"route_decision", "worker_reload", "otel_health", "config_snapshot"} : e[k] = db[k]
      BY <1>10, KindsKnown DEF Changes, RuntimeKinds
  <2> QED
      BY <2>1, InvParts DEF DecisionsOK, EvidenceOK
<1>19. /\ idem' = idem /\ clock' = clock /\ scenario' = scenario /\ answer' = Nobody
    BY OnlyStoreFrame DEF SetConfigPublication
<1>20. RecordsOK(e, idem)
    BY <1>11, InvParts, RecordsKept
<1>21. StateOK(db', op', idem')
    BY <1>5, <1>11, <1>16, <1>17, <1>18, <1>19, <1>20 DEF StateOK
<1>22. ClockOK' /\ AnswersStayInTenant'
    BY <1>19, NobodyAnswered DEF Inv, ClockOK
<1> QED
    BY <1>21, <1>22 DEF Inv

\* Records that lead to a published snapshot are added to a table.
LEMMA LeadStepOK ==
    ASSUME Inv, NEW a \in Admins, op[a].pc \in {"push_invalidation", "set_latest"},
           NEW k \in {"config_invalidation", "latest_snapshot"}, NEW new,
           Put(db[k], new, ConfigPublicationPointerRecord(a)), db' = [db EXCEPT ![k] = new],
           NEW pc, pc = "set_latest" \/ pc = op[a].then, op' = [op EXCEPT ![a].pc = pc], OnlyStore
    PROVE  Inv'
<1>1. PICK row, s, x : /\ row = ConfigPublicationPointerRecord(a) /\ x = op[a]
                       /\ s = db["config_snapshot"]
    OBVIOUS
<1>2. PICK e, u : e = db' /\ u = op'
    OBVIOUS
<1>3. /\ RowOK(row) /\ row.f.snapshot \in SnapshotsOf(s, row.tenant)
      /\ s[row.f.snapshot].f.version = row.f.version
    BY <1>1, PointerRecord
<1>4. k \in Kinds /\ IsRows(db[k]) /\ LeadOK(s, db[k])
    BY <1>1, InvParts, TablesAreSeq, KindsKnown DEF PublicationOK, RuntimeKinds
<1>5. /\ IsRows(new)
      /\ \A i \in 1 .. Len(new) : new[i] = row \/ (i \in 1 .. Len(db[k]) /\ new[i] = db[k][i])
    BY <1>1, <1>3, <1>4, PutRows
<1>6. Changes(db, e, k) /\ e[k] = new
  <2>1. e = [db EXCEPT ![k] = new] /\ DOMAIN db = Kinds /\ k \in Kinds
      BY <1>2, <1>4, InvParts
  <2>2. DOMAIN e = Kinds /\ e[k] = new /\ \A j \in Kinds \ {k} : e[j] = db[j]
      BY <2>1
  <2>3. IsRows(e[k])
      BY <1>5, <2>2
  <2> QED
      BY <2>2, <2>3 DEF Changes
<1>7. LeadOK(s, e[k])
  <2>1. PICK rows : rows = db[k]
      OBVIOUS
  <2>2. /\ LeadOK(s, rows)
        /\ \A i \in 1 .. Len(new) : new[i] = row \/ (i \in 1 .. Len(rows) /\ new[i] = rows[i])
      BY <1>4, <1>5, <2>1
  <2>3. LeadOK(s, new)
      BY <1>3, <2>2 DEF LeadOK
  <2> QED
      BY <1>6, <2>3
<1>8. \A j \in KnownKinds \ {k} : e[j] = db[j]
    BY <1>6, KindsKnown DEF Changes, KnownKinds, RuntimeKinds
<1>9. DbOK(e) /\ Grown(db, e)
    BY <1>4, <1>6, InvParts, ChangesOK, ChangeGrown
<1>10. PICK y : y = [x EXCEPT !.pc = pc]
    OBVIOUS
<1>11. op' = [op EXCEPT ![a] = y]
    BY <1>1, <1>10
<1>12. Moves(op, u, a) /\ u[a] = y
    BY <1>2, <1>11, MovesTo
<1>13. /\ Ready(db, a, y) /\ ~ Pending(y) /\ Holds(x) /\ (Holds(y) => y.snapshot_id = x.snapshot_id)
    BY <1>1, <1>10, NextLock
<1>14. PublicationOK(e, u)
  <2>1. \A b \in Admins : Quiet(op[b], u[b])
    <3>1. Quiet(op[a], u[a])
        BY <1>1, <1>12, <1>13 DEF Quiet
    <3> QED
        BY <1>12, <3>1, QuietSelf DEF Moves
  <2>2. e["config_snapshot"] = s /\ e["config_publication"] = db["config_publication"]
      BY <1>1, <1>8 DEF KnownKinds
  <2>3. LeadOK(s, e["config_invalidation"]) /\ LeadOK(s, e["latest_snapshot"])
    <3>1. LeadOK(s, db["config_invalidation"]) /\ LeadOK(s, db["latest_snapshot"])
        BY <1>1, InvParts DEF PublicationOK
    <3> QED
        BY <1>7, <1>8, <3>1 DEF KnownKinds
  <2> QED
      BY <1>1, <2>1, <2>2, <2>3, InvParts, PublicationKept
<1>15. OpsReady(e, u)
    BY <1>9, <1>12, <1>13, InvParts, ReadyKept, MovesReady
<1>16. DecisionsOK(e) /\ EvidenceOK(e)
    BY <1>8, InvParts DEF DecisionsOK, EvidenceOK, KnownKinds
<1>17. /\ idem' = idem /\ clock' = clock /\ scenario' = scenario /\ answer' = Nobody
    BY OnlyStoreFrame
<1>18. RecordsOK(e, idem)
    BY <1>9, InvParts, RecordsKept
<1>19. StateOK(db', op', idem')
    BY <1>2, <1>9, <1>14, <1>15, <1>16, <1>17, <1>18 DEF StateOK
<1>20. ClockOK' /\ AnswersStayInTenant'
    BY <1>17, NobodyAnswered DEF Inv, ClockOK
<1> QED
    BY <1>19, <1>20 DEF Inv

LEMMA PushConfigInvalidationOK ==
    ASSUME Inv, NEW a \in Admins, PushConfigInvalidation(a)
    PROVE  Inv'
<1>1. op[a].pc = "push_invalidation" /\ OnlyStore /\ op' = [op EXCEPT ![a].pc = "set_latest"]
    BY DEF PushConfigInvalidation
<1>2. PICK new : new = Append(db["config_invalidation"], ConfigPublicationPointerRecord(a))
    OBVIOUS
<1>3. db' = [db EXCEPT !["config_invalidation"] = new]
    BY <1>2 DEF PushConfigInvalidation
<1>4. Put(db["config_invalidation"], new, ConfigPublicationPointerRecord(a))
    BY <1>2 DEF Put
<1> QED
    BY <1>1, <1>3, <1>4, LeadStepOK

LEMMA SetLatestSnapshotOK ==
    ASSUME Inv, NEW a \in Admins, SetLatestSnapshot(a)
    PROVE  Inv'
<1>1. op[a].pc = "set_latest" /\ OnlyStore
    BY DEF SetLatestSnapshot
<1>2. PICK pc : pc = op[a].then
    OBVIOUS
<1>3. op' = [op EXCEPT ![a].pc = pc]
    BY <1>2 DEF SetLatestSnapshot
<1>4. PICK new : new = Upsert(db["latest_snapshot"], ConfigPublicationPointerRecord(a),
                              LAMBDA p : TRUE)
    OBVIOUS
<1>5. db' = [db EXCEPT !["latest_snapshot"] = new]
    BY <1>4 DEF SetLatestSnapshot
<1>6. Put(db["latest_snapshot"], new, ConfigPublicationPointerRecord(a))
    BY <1>4 DEF Put, Upsert
<1> QED
    BY <1>1, <1>2, <1>3, <1>5, <1>6, LeadStepOK

-----------------------------------------------------------------------------
(* Emergencies and the end of a handler                                    *)

LEMMA AdminStepOK ==
    ASSUME Inv, NEW a \in Admins, Benign(db, db'), idem' = idem, clock' = clock,
           scenario' = scenario, answer' = Nobody, NEW y, op' = [op EXCEPT ![a] = y],
           Quiet(op[a], y), Ready(db', a, y)
    PROVE  Inv'
<1>1. Moves(op, op', a) /\ op'[a] = y
    BY MovesTo
<1>2. StateOK(db', op', idem')
    BY <1>1, BenignMove DEF Inv
<1>3. ClockOK' /\ AnswersStayInTenant'
    BY NobodyAnswered DEF Inv, ClockOK
<1> QED
    BY <1>2, <1>3 DEF Inv

\* A row of a table on whose length requests rely is replaced, or one is added.
LEMMA GrowsBenign ==
    ASSUME NEW d, NEW e, NEW k \in {"provider_endpoint", "emergency_operation"}, DbOK(d),
           DecisionsOK(d), EvidenceOK(d), Changes(d, e, k),
           k = "emergency_operation" => Longer(d[k], e[k]), Len(d[k]) <= Len(e[k])
    PROVE  Benign(d, e)
<1>1. k \in Kinds
    BY KindsKnown DEF RuntimeKinds
<1>2. \A j \in KnownKinds \ {"provider_endpoint", "emergency_operation"} : e[j] = d[j]
    BY <1>1, KindsKnown DEF Changes, KnownKinds, RuntimeKinds
<1>3. DbOK(e) /\ Grown(d, e)
    BY <1>1, ChangesOK, ChangeGrown
<1>4. DecisionsOK(e) /\ EvidenceOK(e)
    BY <1>2 DEF DecisionsOK, EvidenceOK, KnownKinds
<1> QED
    BY <1>2, <1>3, <1>4 DEF Benign, KnownKinds

LEMMA PatchedOK ==
    ASSUME NEW row, NEW patch, RowOK(row)
    PROVE  RowOK(Patched(row, patch))
<1>1. PICK status, f : Patched(row, patch) = [row EXCEPT !.status = status, !.f = f,
                                                         !.version = row.version + 1]
    BY DEF Patched, RowOK
<1>2. PICK new : new = [row EXCEPT !.status = status, !.f = f, !.version = row.version + 1]
    OBVIOUS
<1>3. DOMAIN new = DOMAIN row /\ new.tenant = row.tenant /\ new.version = row.version + 1
    BY <1>2 DEF RowOK
<1> QED
    BY <1>1, <1>2, <1>3 DEF RowOK

LEMMA CompareAndSetOK ==
    ASSUME Inv, NEW a \in Admins, CompareAndSet(a, "provider_endpoint")
    PROVE  Inv'
<1>1. PICK x, k, rows : x = op[a] /\ k = "provider_endpoint" /\ rows = db[k]
    OBVIOUS
<1>2. /\ AdminReady(db, a, x) /\ x.pc = "write"
      /\ idem' = idem /\ clock' = clock /\ scenario' = scenario /\ answer' = Nobody
    BY <1>1, AdminAt DEF CompareAndSet, AdminPcs, fixed
<1>3. /\ ~ Holds(x) /\ {"pc", "key", "kind", "id", "then", "row"} \subseteq DOMAIN x
      /\ x.then = "drain" /\ HasEmergency(a, x) /\ x.id \in 1 .. Len(rows)
      /\ x.key \in Keys \cup {NoKey} /\ "tenant" \notin DOMAIN x
    BY <1>1, <1>2 DEF AdminReady, Pending, HasEmergency
<1>4. CASE db' = db /\ op' = [op EXCEPT ![a] = NoOp]
  <2>1. Benign(db, db')
      BY <1>4, UnchangedBenign
  <2>2. Quiet(op[a], NoOp) /\ Ready(db', a, NoOp)
      BY <1>1, <1>2, NoOpQuiet DEF Ready
  <2> QED
      BY <1>2, <1>4, <2>1, <2>2, AdminStepOK
<1>5. ASSUME db' = [db EXCEPT ![k][x.id] = Patched(@, x.patch)],
             op' = [op EXCEPT ![a] = [after |-> db[k][x.id].version + 1, pc |-> x.then] ++ x]
      PROVE  Inv'
  <2>1. k \in Kinds /\ IsRows(rows) /\ DOMAIN rows = 1 .. Len(rows)
      BY <1>1, InvParts, TablesAreSeq, KindsKnown DEF RuntimeKinds
  <2>2. PICK row, new : row = Patched(rows[x.id], x.patch) /\ new = [rows EXCEPT ![x.id] = row]
      OBVIOUS
  <2>3. RowOK(row)
      BY <1>3, <2>1, <2>2, PatchedOK DEF IsRows
  <2>4. Put(rows, new, row)
      BY <1>3, <2>1, <2>2 DEF Put
  <2>5. IsRows(new) /\ Len(rows) <= Len(new)
      BY <2>1, <2>3, <2>4, PutRows
  <2>6. db' = [db EXCEPT ![k] = new]
      BY <1>1, <1>5, <2>2
  <2>7. Changes(db, db', k) /\ db'[k] = new
      BY <2>1, <2>5, <2>6, InvParts DEF Changes
  <2>8. Benign(db, db')
      BY <1>1, <2>5, <2>7, InvParts, GrowsBenign
  <2>9. PICK m : m = [after |-> db[k][x.id].version + 1, pc |-> x.then]
      OBVIOUS
  <2>10. DOMAIN m = {"after", "pc"} /\ m.pc = "drain"
      BY <1>3, <2>9
  <2>11. PICK y : y = m ++ x
      OBVIOUS
  <2>12. /\ DOMAIN y = DOMAIN x \cup {"after"} /\ y.pc = "drain"
         /\ \A z \in DOMAIN x \ {"after", "pc"} : y[z] = x[z]
    <3>1. /\ DOMAIN y = DOMAIN m \cup DOMAIN x
          /\ \A z \in DOMAIN m : y[z] = m[z]
          /\ \A z \in DOMAIN x \ DOMAIN m : y[z] = x[z]
        BY <2>11 DEF ++
    <3> QED
        BY <1>3, <2>10, <3>1
  <2>13. ~ Holds(y) /\ HasEmergency(a, y) /\ y.key = x.key
      BY <1>3, <2>12 DEF Holds, HasEmergency
  <2>14. Ready(db', a, y)
      BY <1>3, <2>12, <2>13 DEF Ready, AdminReady
  <2>15. Quiet(op[a], y)
      BY <1>1, <1>2, <2>12, <2>13 DEF Quiet, Pending
  <2>16. op' = [op EXCEPT ![a] = y]
      BY <1>5, <2>9, <2>11
  <2> QED
      BY <1>2, <2>8, <2>14, <2>15, <2>16, AdminStepOK
<1> QED
    BY <1>1, <1>4, <1>5 DEF CompareAndSet, Row

LEMMA SetEndpointEmergencyDrainOK ==
    ASSUME Inv, NEW a \in Admins, SetEndpointEmergencyDrain(a)
    PROVE  Inv'
<1>1. PICK x, drains, y : /\ x = op[a] /\ drains = db["endpoint_drain"]
                          /\ y = [x EXCEPT !.pc = "emergency"]
    OBVIOUS
<1>2. /\ AdminReady(db, a, x) /\ x.pc = "drain" /\ op' = [op EXCEPT ![a] = y]
      /\ idem' = idem /\ clock' = clock /\ scenario' = scenario /\ answer' = Nobody
    BY <1>1, AdminAt DEF SetEndpointEmergencyDrain, AdminPcs, fixed
<1>3. /\ ~ Holds(x) /\ HasEmergency(a, x) /\ {"pc", "key", "row"} \subseteq DOMAIN x
      /\ x.key \in Keys \cup {NoKey} /\ "tenant" \notin DOMAIN x
    BY <1>2 DEF AdminReady, Pending, HasEmergency
<1>4. PICK new : /\ db' = [db EXCEPT !["endpoint_drain"] = new]
                 /\ \/ new = drains
                    \/ \E f : new \in SetEndpointDrain(drains, NewRow(TenantOf[a], f, "active"))
    BY <1>1 DEF SetEndpointEmergencyDrain
<1>5. new = drains \/ \E f : Put(drains, new, NewRow(TenantOf[a], f, "active"))
  <2>1. ASSUME NEW drain, new \in SetEndpointDrain(drains, drain)
        PROVE  new = drains \/ Put(drains, new, drain)
    <3>1. new = drains \/ new = Upsert(drains, drain, LAMBDA d : d.tenant = drain.tenant
                                                           /\ d.f.endpoint = drain.f.endpoint)
        BY <2>1 DEF SetEndpointDrain
    <3> QED
        BY <3>1 DEF Upsert, Put
  <2> QED
      BY <1>4, <2>1
<1>6. Benign(db, db')
  <2>1. "endpoint_drain" \in RuntimeKinds \ KnownKinds
      BY DEF RuntimeKinds, KnownKinds
  <2>2. ASSUME NEW f, Put(drains, new, NewRow(TenantOf[a], f, "active"))
        PROVE  Benign(db, db')
    <3>1. PICK row, k : row = NewRow(TenantOf[a], f, "active") /\ k = "endpoint_drain"
        OBVIOUS
    <3>2. RowOK(row) /\ Put(db[k], new, row) /\ db' = [db EXCEPT ![k] = new]
        BY <1>1, <1>4, <2>2, <3>1, TenantRow
    <3>3. k \in RuntimeKinds \ KnownKinds
        BY <2>1, <3>1
    <3> QED
        BY <3>2, <3>3, PutBenign
  <2>3. ASSUME new = drains PROVE Benign(db, db')
    <3>1. PICK k : k = "endpoint_drain"
        OBVIOUS
    <3>2. k \in Kinds \ KnownKinds /\ k \in Kinds /\ IsRows(db[k])
        BY <2>1, <3>1, KindsKnown, InvParts DEF DbOK
    <3>3. db' = [db EXCEPT ![k] = db[k]] /\ DOMAIN db = Kinds
        BY <1>1, <1>4, <2>3, <3>1, InvParts
    <3>4. Changes(db, db', k)
        BY <3>2, <3>3 DEF Changes
    <3> QED
        BY <3>2, <3>4, InvParts, ChangesBenign
  <2> QED
      BY <1>5, <2>2, <2>3
<1>7. DOMAIN y = DOMAIN x /\ y.pc = "emergency" /\ \A z \in DOMAIN x \ {"pc"} : y[z] = x[z]
    BY <1>1, <1>3
<1>8. ~ Holds(y) /\ HasEmergency(a, y) /\ y.key = x.key
    BY <1>3, <1>7 DEF Holds, HasEmergency
<1>9. Ready(db', a, y)
    BY <1>3, <1>7, <1>8 DEF Ready, AdminReady
<1>10. Quiet(op[a], y)
    BY <1>1, <1>2, <1>7, <1>8 DEF Quiet, Pending
<1> QED
    BY <1>2, <1>6, <1>9, <1>10, AdminStepOK

LEMMA StoreEmergencyOperationOK ==
    ASSUME Inv, NEW a \in Admins, StoreEmergencyOperation(a)
    PROVE  Inv'
<1>1. PICK x, k, rows, row : /\ x = op[a] /\ k = "emergency_operation" /\ rows = db[k]
                             /\ row = x.row
    OBVIOUS
<1>2. /\ AdminReady(db, a, x) /\ x.pc = "emergency"
      /\ idem' = idem /\ clock' = clock /\ scenario' = scenario /\ answer' = Nobody
    BY <1>1, AdminAt DEF StoreEmergencyOperation, AdminPcs, fixed
<1>3. /\ HasEmergency(a, x) /\ {"pc", "key", "row"} \subseteq DOMAIN x
      /\ x.key \in Keys \cup {NoKey} /\ "tenant" \notin DOMAIN x
      /\ RowOK(row) /\ row.tenant = TenantOf[a]
    BY <1>1, <1>2 DEF AdminReady, Pending, HasEmergency
<1>4. k \in Kinds /\ DbOK(db) /\ IsRows(rows) /\ Len(rows) \in Nat
    BY <1>1, InvParts, TablesAreSeq, KindsKnown DEF RuntimeKinds
<1>5. db' = [db EXCEPT ![k] = Append(@, row)]
    BY <1>1 DEF StoreEmergencyOperation
<1>6. /\ Changes(db, db', k) /\ Longer(rows, db'[k]) /\ Len(db'[k]) = Len(rows) + 1
      /\ db'[k][Len(rows) + 1] = row
  <2>1. /\ Changes(db, db', k) /\ Longer(db[k], db'[k]) /\ Len(db'[k]) = Len(db[k]) + 1
        /\ db'[k][Len(db[k]) + 1] = row
    <3>1. k \in Kinds /\ DbOK(db) /\ RowOK(row) /\ db' = [db EXCEPT ![k] = Append(@, row)]
        BY <1>3, <1>4, <1>5
    <3>2. Changes(db, db', k)
        BY <3>1, AppendChanges
    <3> QED
        BY <3>1, <3>2, AppendChanges
  <2> QED
      BY <1>1, <2>1
<1>7. Benign(db, db')
  <2>1. Longer(db[k], db'[k]) /\ Len(db[k]) <= Len(db'[k])
      BY <1>1, <1>4, <1>6
  <2> QED
      BY <1>1, <1>6, <2>1, InvParts, GrowsBenign
<1>8. PICK m : m = [kind |-> "emergency_operation", id |-> Len(rows) + 1, pc |-> "finish"]
    OBVIOUS
<1>9. PICK y : y = m ++ x
    OBVIOUS
<1>10. op' = [op EXCEPT ![a] = y]
    BY <1>1, <1>8, <1>9 DEF StoreEmergencyOperation
<1>11. /\ DOMAIN y = DOMAIN x \cup {"kind", "id", "pc"}
       /\ y.kind = k /\ y.id = Len(rows) + 1 /\ y.pc = "finish"
       /\ \A z \in DOMAIN x \ {"kind", "id", "pc"} : y[z] = x[z]
  <2>1. /\ DOMAIN m = {"kind", "id", "pc"} /\ m.kind = k /\ m.id = Len(rows) + 1
        /\ m.pc = "finish"
      BY <1>1, <1>8
  <2>2. /\ DOMAIN y = DOMAIN m \cup DOMAIN x
        /\ \A z \in DOMAIN m : y[z] = m[z]
        /\ \A z \in DOMAIN x \ DOMAIN m : y[z] = x[z]
      BY <1>9 DEF ++
  <2> QED
      BY <2>1, <2>2
<1>12. IsAnswer(db', TenantOf[a], y.kind, y.id)
    BY <1>1, <1>3, <1>4, <1>6, <1>11 DEF IsAnswer, AnsweredKinds
<1>13. Ready(db', a, y)
    BY <1>3, <1>11, <1>12 DEF Ready, AdminReady
<1>14. Quiet(op[a], y)
    BY <1>1, <1>2, <1>11 DEF Quiet, Pending, Holds
<1> QED
    BY <1>2, <1>7, <1>10, <1>13, <1>14, AdminStepOK

LEMMA FinishOK ==
    ASSUME Inv, NEW a \in Admins, Finish(a)
    PROVE  Inv'
<1>1. PICK x : x = op[a]
    OBVIOUS
<1>2. /\ AdminReady(db, a, x) /\ x.pc = "finish" /\ db' = db
      /\ clock' = clock /\ scenario' = scenario /\ op' = [op EXCEPT ![a] = NoOp]
    BY <1>1, AdminAt DEF Finish, AdminPcs, fixed, store
<1>3. "tenant" \notin DOMAIN x /\ IsAnswer(db, TenantOf[a], x.kind, x.id)
    BY <1>2 DEF AdminReady, Pending
<1>4. StateOK(db, op', idem)
  <2>1. Moves(op, op', a) /\ op'[a] = NoOp
      BY <1>2, MovesTo
  <2>2. Quiet(op[a], op'[a]) /\ Ready(db, a, op'[a])
      BY <1>1, <1>2, <2>1, NoOpQuiet DEF Ready
  <2>3. Benign(db, db)
      BY InvParts, SameBenign
  <2> QED
      BY <2>1, <2>2, <2>3, BenignMove DEF Inv
<1>5. RecordsOK(db, idem')
  <2>1. PICK new : new = IdempotencyRecord(a, IdempotencyTtl)
      OBVIOUS
  <2>2. idem' \subseteq idem \cup {new}
      BY <2>1 DEF Finish, IdempotencyRecords
  <2>3. new.tenant = TenantOf[a] /\ new.response = <<x.kind, x.id>>
      BY <1>1, <2>1 DEF IdempotencyRecord
  <2>4. \E k, id : new.response = <<k, id>> /\ IsAnswer(db, new.tenant, k, id)
      BY <1>3, <2>3
  <2> QED
      BY <2>2, <2>4, InvParts DEF RecordsOK
<1>6. AnswersStayInTenant'
  <2>1. PICK k, id : k = x.kind /\ id = x.id
      OBVIOUS
  <2>2. answer'.tenant = TenantOf[a] /\ answer'.rows = {<<k, id>>}
      BY <1>1, <1>3, <2>1 DEF Finish, ActingTenant
  <2>3. k \notin OddKinds /\ db'[k][id].tenant = TenantOf[a]
      BY <1>2, <1>3, <2>1 DEF IsAnswer, AnsweredKinds, OddKinds
  <2>4. TenantOfShown(<<k, id>>)' = TenantOf[a]
      BY <2>3, ShownRow
  <2> QED
      BY <2>2, <2>4 DEF AnswersStayInTenant
<1>7. StateOK(db', op', idem')
    BY <1>2, <1>4, <1>5 DEF StateOK
<1>8. ClockOK'
    BY <1>2 DEF Inv, ClockOK
<1> QED
    BY <1>6, <1>7, <1>8 DEF Inv

LEMMA DisconnectOK ==
    ASSUME Inv, NEW a \in Admins, Disconnect(a)
    PROVE  Inv'
<1>1. /\ db' = db /\ idem' = idem /\ clock' = clock /\ scenario' = scenario /\ answer' = Nobody
      /\ op' = [op EXCEPT ![a] = NoOp] /\ op[a].pc # "set_pointer"
    BY DEF Disconnect, store
<1>2. Benign(db, db') /\ Quiet(op[a], NoOp) /\ Ready(db', a, NoOp)
    BY <1>1, UnchangedBenign, NoOpQuiet DEF Ready
<1> QED
    BY <1>1, <1>2, AdminStepOK

-----------------------------------------------------------------------------
(* Reads                                                                   *)

\* A step that only answers.
LEMMA AnswerOK ==
    ASSUME Inv, db' = db, op' = op, idem' = idem, clock' = clock, scenario' = scenario,
           AnswersStayInTenant'
    PROVE  Inv'
BY DEF Inv, ClockOK

LEMMA ReadOK ==
    ASSUME Inv, NEW a \in Admins, NEW rows, Reads(a, rows), \A r \in rows : Owned(r, TenantOf[a])
    PROVE  Inv'
<1>1. /\ db' = db /\ op' = op /\ idem' = idem /\ clock' = clock /\ scenario' = scenario
      /\ audit' = audit /\ answer' = [tenant |-> TenantOf[a], rows |-> rows]
    BY DEF Reads, store, records, fixed
<1> QED
    BY <1>1, OwnedAnswered, AnswerOK

\* The rows of a table that are the tenant's, and the attempts of its decisions.
LEMMA OwnedRows ==
    ASSUME NEW k, k \notin OddKinds, NEW t, NEW ids, ids \subseteq OfTenant(k, t)
    PROVE  \A r \in Shown(k, ids) : Owned(r, t)
BY DEF Shown, OfTenant, Row, Owned

LEMMA OwnedAttempts ==
    ASSUME NEW t, NEW ids,
           \A id \in ids : Row("route_attempt", id).f.decision \in OfTenant("route_decision", t)
    PROVE  \A r \in Shown("route_attempt", ids) : Owned(r, t)
<1>1. ASSUME NEW id \in ids PROVE Owned(<<"route_attempt", id>>, t)
  <2>1. db["route_decision"][db["route_attempt"][id].f.decision].tenant = t
      BY DEF OfTenant, Row
  <2> QED
      BY <2>1 DEF Owned
<1> QED
    BY <1>1 DEF Shown

LEMMA GetsOK ==
    ASSUME Inv, NEW a \in Admins, NEW route, NEW k, k \notin OddKinds, Gets(a, route, k)
    PROVE  Inv'
<1>1. PICK id \in Ids(k) : ForActor(k, a, id) /\ Reads(a, {<<k, id>>})
    BY DEF Gets
<1>2. \A r \in {<<k, id>>} : Owned(r, TenantOf[a])
    BY <1>1 DEF Owned, ForActor, Row
<1> QED
    BY <1>1, <1>2, ReadOK

LEMMA SnapshotKindPlain == SnapshotKind \notin OddKinds
BY DEF SnapshotKind, OddKinds

LEMMA ValidateConfigSnapshotOK ==
    ASSUME Inv, NEW a \in Admins, ValidateConfigSnapshot(a)
    PROVE  Inv'
<1>1. /\ db' = db /\ op' = op /\ idem' = idem /\ clock' = clock /\ scenario' = scenario
      /\ audit' = audit /\ answer' = [tenant |-> TenantOf[a], rows |-> {}]
    BY DEF ValidateConfigSnapshot, Validates, store, fixed
<1> QED
    BY <1>1, OwnedAnswered, AnswerOK

LEMMA ListConfigSnapshotsOK ==
    ASSUME Inv, NEW a \in Admins, ListConfigSnapshots(a)
    PROVE  Inv'
<1>1. PICK rows : rows = {<<SnapshotKind, id>> : id \in OfTenant(SnapshotKind, TenantOf[a])}
    OBVIOUS
<1>2. Reads(a, rows)
    BY <1>1 DEF ListConfigSnapshots
<1>3. \A r \in rows : Owned(r, TenantOf[a])
    BY <1>1, SnapshotKindPlain, OwnedRows DEF Shown
<1> QED
    BY <1>2, <1>3, ReadOK

LEMMA ListValidationDiagnosticsOK ==
    ASSUME Inv, NEW a \in Admins, ListValidationDiagnostics(a)
    PROVE  Inv'
<1>1. PICK rows : rows = {<<"validation_diagnostic", d>> : d \in {x \in diagnostics :
                                                              x.tenant = TenantOf[a]}}
    OBVIOUS
<1>2. Reads(a, rows)
    BY <1>1 DEF ListValidationDiagnostics
<1>3. \A r \in rows : Owned(r, TenantOf[a])
    BY <1>1 DEF Owned
<1> QED
    BY <1>2, <1>3, ReadOK

LEMMA PublicationNextOK ==
    ASSUME Inv, NEW a \in Admins, PublicationNext(a)
    PROVE  Inv'
<1>1. GetConfigSnapshot(a) => Inv'
    BY SnapshotKindPlain, GetsOK DEF GetConfigSnapshot
<1> QED
    BY <1>1, PublishConfigSnapshotOK, RollbackConfigSnapshotOK, EmergencyRollbackConfigSnapshotOK,
       PushConfigSnapshotOK, SetConfigPublicationOK, PushConfigInvalidationOK, SetLatestSnapshotOK,
       ValidateConfigSnapshotOK, ListConfigSnapshotsOK, ListValidationDiagnosticsOK,
       EmergencyDisableProviderEndpointOK, CompareAndSetOK, SetEndpointEmergencyDrainOK,
       EmergencyFreezeConfigOK, StoreEmergencyOperationOK, FinishOK, DisconnectOK
    DEF PublicationNext

-----------------------------------------------------------------------------
(* Evidence                                                                *)

AllOwned(rows, t) == \A r \in rows : Owned(r, t)

LEMMA UsageKindsPlain == UsageKind \notin OddKinds /\ LedgerKind \notin OddKinds
BY DEF UsageKind, LedgerKind, OddKinds

LEMMA DecisionsOwned ==
    ASSUME NEW t, NEW ids, ids \subseteq RouteDecisionEvidenceForTenant(t)
    PROVE  AllOwned(Shown("route_decision", ids), t)
<1>1. PICK k : k = "route_decision"
    OBVIOUS
<1>2. k \notin OddKinds /\ ids \subseteq OfTenant(k, t)
    BY <1>1 DEF OddKinds, RouteDecisionEvidenceForTenant
<1> QED
    BY <1>1, <1>2, OwnedRows DEF AllOwned

LEMMA AttemptsOwned ==
    ASSUME NEW t, NEW ids, ids \subseteq RouteAttemptEvidenceForTenant(t)
    PROVE  AllOwned(Shown("route_attempt", ids), t)
<1>1. \A id \in ids : Row("route_attempt", id).f.decision \in OfTenant("route_decision", t)
    BY DEF RouteAttemptEvidenceForTenant, RouteDecisionEvidenceForTenant
<1> QED
    BY <1>1, OwnedAttempts DEF AllOwned

\* A query of Postgres returns rows of the tenant.
LEMMA ScannedOwn ==
    ASSUME NEW t
    PROVE  /\ UsageEventsForAnalytics(t) \subseteq OfTenant(UsageKind, t)
           /\ LedgerBucketsForAnalytics(t) \subseteq OfTenant(LedgerKind, t)
BY DEF UsageEventsForAnalytics, LedgerBucketsForAnalytics, Scanned

LEMMA EventsOwned ==
    ASSUME NEW t, NEW ids, ids \subseteq OfTenant(UsageKind, t)
    PROVE  AllOwned(Shown(UsageKind, ids), t)
BY UsageKindsPlain, OwnedRows DEF AllOwned

LEMMA BucketsOwned ==
    ASSUME NEW t, NEW ids, ids \subseteq OfTenant(LedgerKind, t)
    PROVE  AllOwned(Shown(LedgerKind, ids), t)
BY UsageKindsPlain, OwnedRows DEF AllOwned

LEMMA TableOwned ==
    ASSUME NEW t, NEW k \in RuntimeKinds \ OddKinds, NEW ids, ids \subseteq OfTenant(k, t)
    PROVE  AllOwned(Shown(k, ids), t)
BY OwnedRows DEF AllOwned

LEMMA ActorOwned ==
    ASSUME NEW a, NEW k, k \notin OddKinds, NEW id, ForActor(k, a, id)
    PROVE  AllOwned({<<k, id>>}, TenantOf[a])
BY DEF AllOwned, Owned, ForActor, Row

LEMMA UnionOwned ==
    ASSUME NEW t, NEW S, NEW T, AllOwned(S, t), AllOwned(T, t)
    PROVE  AllOwned(S \cup T, t)
BY DEF AllOwned

LEMMA ScopedOwned ==
    ASSUME NEW t, NEW scope
    PROVE  /\ AllOwned(Shown(UsageKind, ScopedEvents(t, scope)), t)
           /\ \A kind : AllOwned(Shown(LedgerKind, ScopedBuckets(t, scope, kind)), t)
           /\ AllOwned(Shown("route_decision", ScopedDecisions(t, scope)), t)
<1>1. ScopedEvents(t, scope) \subseteq OfTenant(UsageKind, t)
    BY ScannedOwn DEF ScopedEvents
<1>2. \A kind : ScopedBuckets(t, scope, kind) \subseteq OfTenant(LedgerKind, t)
    BY ScannedOwn DEF ScopedBuckets
<1>3. ScopedDecisions(t, scope) \subseteq RouteDecisionEvidenceForTenant(t)
    BY DEF ScopedDecisions
<1> QED
    BY <1>1, <1>2, <1>3, EventsOwned, BucketsOwned, DecisionsOwned

LEMMA AttemptsOfOwned ==
    ASSUME NEW t, NEW decisions
    PROVE  AllOwned(Shown("route_attempt", AttemptsOf(t, decisions)), t)
<1>1. AttemptsOf(t, decisions) \subseteq RouteAttemptEvidenceForTenant(t)
    BY DEF AttemptsOf
<1> QED
    BY <1>1, AttemptsOwned

LEMMA AttemptsAtOwned ==
    ASSUME NEW t, NEW endpoint
    PROVE  AllOwned(Shown("route_attempt", AttemptsAt(t, endpoint)), t)
<1>1. AttemptsAt(t, endpoint) \subseteq RouteAttemptEvidenceForTenant(t)
    BY DEF AttemptsAt
<1> QED
    BY <1>1, AttemptsOwned

LEMMA LiveOwned ==
    ASSUME NEW t, NEW k \in RuntimeKinds \ OddKinds
    PROVE  AllOwned(Shown(k, Live(k, t)), t)
<1>1. Live(k, t) \subseteq OfTenant(k, t)
    BY DEF Live
<1> QED
    BY <1>1, TableOwned

\* A read that shows its tenant what is the tenant's.
Proper(a) == \E rows : Reads(a, rows) /\ AllOwned(rows, TenantOf[a])

LEMMA ProperOK ==
    ASSUME Inv, NEW a \in Admins, Proper(a)
    PROVE  Inv'
BY ReadOK DEF Proper, AllOwned

LEMMA RouteEvidenceProper ==
    ASSUME NEW a \in Admins,
           \/ ListRouteDecisions(a) \/ GetRouteDecision(a) \/ ListRouteAttempts(a)
           \/ GetRouteAttempt(a) \/ ListAuditEvents(a)
    PROVE  Proper(a)
<1>1. CASE ListRouteDecisions(a)
    BY <1>1, DecisionsOwned DEF ListRouteDecisions, Proper
<1>2. CASE GetRouteDecision(a)
  <2>1. PICK id \in RouteDecisionEvidenceForTenant(TenantOf[a]) :
           Reads(a, {<<"route_decision", id>>}
                      \cup Shown("route_attempt", AttemptsOf(TenantOf[a], {id})))
      BY <1>2 DEF GetRouteDecision
  <2>2. {<<"route_decision", id>>} = Shown("route_decision", {id})
      BY DEF Shown
  <2>3. AllOwned({<<"route_decision", id>>}, TenantOf[a])
      BY <2>2, DecisionsOwned
  <2> QED
      BY <2>1, <2>3, AttemptsOfOwned, UnionOwned DEF Proper
<1>3. CASE ListRouteAttempts(a)
    BY <1>3, AttemptsOwned DEF ListRouteAttempts, Proper
<1>4. CASE GetRouteAttempt(a)
  <2>1. PICK id \in RouteAttemptEvidenceForTenant(TenantOf[a]) :
           Reads(a, {<<"route_attempt", id>>,
                     <<"route_decision", Row("route_attempt", id).f.decision>>})
      BY <1>4 DEF GetRouteAttempt
  <2>2. PICK decision : decision = Row("route_attempt", id).f.decision
      OBVIOUS
  <2>3. decision \in RouteDecisionEvidenceForTenant(TenantOf[a])
      BY <2>1, <2>2 DEF RouteAttemptEvidenceForTenant
  <2>4. /\ {<<"route_decision", decision>>} = Shown("route_decision", {decision})
        /\ {<<"route_attempt", id>>} = Shown("route_attempt", {id})
      BY DEF Shown
  <2>5. AllOwned({<<"route_attempt", id>>} \cup {<<"route_decision", decision>>}, TenantOf[a])
    <3>1. AllOwned({<<"route_decision", decision>>}, TenantOf[a])
        BY <2>3, <2>4, DecisionsOwned
    <3>2. AllOwned({<<"route_attempt", id>>}, TenantOf[a])
        BY <2>1, <2>4, AttemptsOwned
    <3> QED
        BY <3>1, <3>2, UnionOwned
  <2>6. {<<"route_attempt", id>>, <<"route_decision", decision>>}
          = {<<"route_attempt", id>>} \cup {<<"route_decision", decision>>}
      OBVIOUS
  <2> QED
      BY <2>1, <2>2, <2>5, <2>6 DEF Proper
<1>5. CASE ListAuditEvents(a)
  <2>1. PICK rows : rows = {<<"audit_event", e>> : e \in {i \in DOMAIN audit :
                                                             audit[i].tenant = TenantOf[a]}}
      OBVIOUS
  <2>2. Reads(a, rows)
      BY <1>5, <2>1 DEF ListAuditEvents
  <2>3. \A r \in rows : Owned(r, TenantOf[a])
      BY <2>1 DEF Owned
  <2> QED
      BY <2>2, <2>3 DEF Proper, AllOwned
<1> QED
    BY <1>1, <1>2, <1>3, <1>4, <1>5

LEMMA UsageProper ==
    ASSUME NEW a \in Admins,
           \/ ListUsageEvents(a) \/ GetUsageSummary(a) \/ GetUsageTimeseries(a)
           \/ GetUsageBreakdown(a)
    PROVE  Proper(a)
<1>1. CASE ListUsageEvents(a)
    BY <1>1, ScopedOwned DEF ListUsageEvents, InScope, Proper
<1>2. CASE GetUsageSummary(a)
  <2>1. PICK scope : Reads(a, Shown(UsageKind, ScopedEvents(TenantOf[a], scope))
                        \cup Shown(LedgerKind, ScopedBuckets(TenantOf[a], scope, "event")))
      BY <1>2 DEF GetUsageSummary, InScope
  <2> QED
      BY <2>1, ScopedOwned, UnionOwned DEF Proper
<1>3. CASE GetUsageTimeseries(a)
  <2>1. PICK scope : \E kind : Reads(a, Shown(LedgerKind, ScopedBuckets(TenantOf[a], scope, kind)))
      BY <1>3 DEF GetUsageTimeseries, InScope
  <2> QED
      BY <2>1, ScopedOwned DEF Proper
<1>4. CASE GetUsageBreakdown(a)
  <2>1. PICK scope : \E dimension :
           Reads(a, Shown(LedgerKind, {id \in ScopedBuckets(TenantOf[a], scope, "event") :
                                         Row(LedgerKind, id).f[dimension] # None}))
      BY <1>4 DEF GetUsageBreakdown, InScope
  <2>2. ScopedBuckets(TenantOf[a], scope, "event") \subseteq OfTenant(LedgerKind, TenantOf[a])
      BY ScannedOwn DEF ScopedBuckets
  <2>3. PICK ids : /\ ids \subseteq OfTenant(LedgerKind, TenantOf[a])
                   /\ Reads(a, Shown(LedgerKind, ids))
      BY <2>1, <2>2
  <2> QED
      BY <2>3, BucketsOwned DEF Proper
<1> QED
    BY <1>1, <1>2, <1>3, <1>4

LEMMA OverviewOwned ==
    ASSUME NEW t, NEW scope
    PROVE  AllOwned(DashboardOverviewResponse(t, scope), t)
BY ScopedOwned, AttemptsOfOwned, UnionOwned DEF DashboardOverviewResponse

LEMMA OverviewProper ==
    ASSUME NEW a \in Admins,
           \/ GetTenantDashboardOverview(a) \/ GetOrganizationDashboardOverview(a)
           \/ GetProjectDashboardOverview(a) \/ GetProjectMemberDashboardOverview(a)
           \/ GetApiKeyDashboardOverview(a) \/ GetServiceAccountDashboardOverview(a)
           \/ GetModelAliasDashboardOverview(a) \/ GetModelTargetDashboardOverview(a)
           \/ GetProviderEndpointUsage(a)
    PROVE  Proper(a)
<1>1. CASE GetTenantDashboardOverview(a)
    BY <1>1, OverviewOwned DEF GetTenantDashboardOverview, Proper
<1>2. ASSUME NEW route, NEW kind, DashboardOverview(a, route, kind) PROVE Proper(a)
    BY <1>2, OverviewOwned DEF DashboardOverview, Proper
<1> QED
    BY <1>1, <1>2
    DEF GetOrganizationDashboardOverview, GetProjectDashboardOverview,
        GetProjectMemberDashboardOverview, GetApiKeyDashboardOverview,
        GetServiceAccountDashboardOverview, GetModelAliasDashboardOverview,
        GetModelTargetDashboardOverview, GetProviderEndpointUsage

LEMMA AliasRoutesOwned ==
    ASSUME NEW t, NEW alias
    PROVE  AllOwned(ModelAliasRouteObservability(t, alias), t)
BY ScopedOwned, AttemptsOfOwned, UnionOwned DEF ModelAliasRouteObservability

\* A route about one resource shows it with evidence that is the tenant's.
LEMMA ObservedProper ==
    ASSUME NEW a \in Admins, NEW k, k \notin OddKinds, NEW id, ForActor(k, a, id), NEW rows,
           AllOwned(rows, TenantOf[a]), Reads(a, {<<k, id>>} \cup rows)
    PROVE  Proper(a)
BY ActorOwned, UnionOwned DEF Proper

LEMMA ObservabilityProper ==
    ASSUME NEW a \in Admins,
           \/ GetModelAliasRoutesObservability(a) \/ GetModelAliasQualityObservability(a)
           \/ GetProviderEndpointModelTargets(a) \/ GetProviderEndpointHealth(a)
           \/ GetProviderEndpointFailover(a) \/ GetProviderEndpointCredentials(a)
    PROVE  Proper(a)
<1>1. "model_alias" \notin OddKinds /\ "provider_endpoint" \notin OddKinds
    BY DEF OddKinds
<1>2. CASE GetModelAliasRoutesObservability(a)
  <2>1. PICK id : /\ ForActor("model_alias", a, id)
                  /\ Reads(a, {<<"model_alias", id>>} \cup ModelAliasRouteObservability(TenantOf[a], id))
      BY <1>2 DEF GetModelAliasRoutesObservability, Observes
  <2> QED
      BY <1>1, <2>1, AliasRoutesOwned, ObservedProper
<1>3. CASE GetModelAliasQualityObservability(a)
  <2>1. PICK id : /\ ForActor("model_alias", a, id)
                  /\ \E scope :
                       Reads(a, {<<"model_alias", id>>}
                                  \cup (ModelAliasRouteObservability(TenantOf[a], id)
                                         \cup Shown(UsageKind, ScopedEvents(TenantOf[a], scope))))
      BY <1>3 DEF GetModelAliasQualityObservability, Observes
  <2> QED
      BY <1>1, <2>1, AliasRoutesOwned, ScopedOwned, UnionOwned, ObservedProper
<1>4. CASE GetProviderEndpointModelTargets(a)
  <2>1. PICK id : /\ ForActor("provider_endpoint", a, id)
                  /\ \E scope :
                       Reads(a, {<<"provider_endpoint", id>>}
                                  \cup (Shown("route_attempt", AttemptsAt(TenantOf[a], id))
                                         \cup Shown(UsageKind, ScopedEvents(TenantOf[a], scope))))
      BY <1>4 DEF GetProviderEndpointModelTargets, Observes
  <2> QED
      BY <1>1, <2>1, AttemptsAtOwned, ScopedOwned, UnionOwned, ObservedProper
<1>5. CASE GetProviderEndpointHealth(a)
  <2>1. PICK id : /\ ForActor("provider_endpoint", a, id)
                  /\ Reads(a, {<<"provider_endpoint", id>>}
                                \cup Shown("route_attempt", AttemptsAt(TenantOf[a], id)))
      BY <1>5 DEF GetProviderEndpointHealth, Observes
  <2> QED
      BY <1>1, <2>1, AttemptsAtOwned, ObservedProper
<1>6. CASE GetProviderEndpointFailover(a)
  <2>1. PICK id : /\ ForActor("provider_endpoint", a, id)
                  /\ \E decisions :
                       Reads(a, {<<"provider_endpoint", id>>}
                                  \cup Shown("route_attempt", AttemptsAt(TenantOf[a], id)
                                                   \cup AttemptsOf(TenantOf[a], decisions)))
      BY <1>6 DEF GetProviderEndpointFailover, Observes
  <2>2. \A decisions : AttemptsAt(TenantOf[a], id) \cup AttemptsOf(TenantOf[a], decisions)
                         \subseteq RouteAttemptEvidenceForTenant(TenantOf[a])
      BY DEF AttemptsAt, AttemptsOf
  <2> QED
      BY <1>1, <2>1, <2>2, AttemptsOwned, ObservedProper
<1>7. CASE GetProviderEndpointCredentials(a)
  <2>1. PICK id : /\ ForActor("provider_endpoint", a, id)
                  /\ \E ids : /\ ids \subseteq OfTenant("upstream_credential", TenantOf[a])
                              /\ Reads(a, {<<"provider_endpoint", id>>}
                                            \cup Shown("upstream_credential", ids))
      BY <1>7 DEF GetProviderEndpointCredentials, Observes
  <2>2. "upstream_credential" \in RuntimeKinds \ OddKinds
      BY DEF RuntimeKinds, OddKinds
  <2> QED
      BY <1>1, <2>1, <2>2, TableOwned, ObservedProper
<1> QED
    BY <1>2, <1>3, <1>4, <1>5, <1>6, <1>7

LEMMA PlainKinds ==
    {"provider_endpoint", "budget_policy", "quota_policy", "worker_reload", "otel_config",
     "otel_health", "config_publication", "route_decision"} \subseteq RuntimeKinds \ OddKinds
BY DEF RuntimeKinds, OddKinds

LEMMA RealtimeOwned ==
    ASSUME NEW t
    PROVE  /\ AllOwned(RealtimeProviderSummary(t), t) /\ AllOwned(RealtimeRouteSummary(t), t)
           /\ AllOwned(RealtimeBudgetSummary(t), t) /\ AllOwned(RealtimeQuotaSummary(t), t)
           /\ AllOwned(RealtimeWorkerSummary(t), t) /\ AllOwned(RealtimeOtelExporterSummary(t), t)
<1>1. AllOwned(RealtimeProviderSummary(t), t)
    BY PlainKinds, LiveOwned DEF RealtimeProviderSummary
<1>2. AllOwned(RealtimeRouteSummary(t), t)
  <2>1. PICK decisions : decisions = OfTenant("route_decision", t)
      OBVIOUS
  <2>2. PICK ids : ids = {id \in Ids("route_attempt") :
                            Row("route_attempt", id).f.decision \in decisions}
      OBVIOUS
  <2>3. RealtimeRouteSummary(t) = Shown("route_decision", decisions) \cup Shown("route_attempt", ids)
      BY <2>1, <2>2 DEF RealtimeRouteSummary
  <2>4. AllOwned(Shown("route_decision", decisions), t)
      BY <2>1, PlainKinds, TableOwned
  <2>5. AllOwned(Shown("route_attempt", ids), t)
      BY <2>1, <2>2, OwnedAttempts DEF AllOwned
  <2> QED
      BY <2>3, <2>4, <2>5, UnionOwned
<1>3. AllOwned(RealtimeBudgetSummary(t), t)
    BY PlainKinds, LiveOwned DEF RealtimeBudgetSummary
<1>4. AllOwned(RealtimeQuotaSummary(t), t)
    BY PlainKinds, LiveOwned DEF RealtimeQuotaSummary
<1>5. AllOwned(RealtimeWorkerSummary(t), t)
    BY PlainKinds, TableOwned DEF RealtimeWorkerSummary
<1>6. AllOwned(RealtimeOtelExporterSummary(t), t)
  <2>1. AllOwned(Shown("otel_config", Live("otel_config", t)), t)
      BY PlainKinds, LiveOwned
  <2>2. AllOwned(Shown("otel_health", OfTenant("otel_health", t)), t)
      BY PlainKinds, TableOwned
  <2> QED
      BY <2>1, <2>2, UnionOwned DEF RealtimeOtelExporterSummary
<1> QED
    BY <1>1, <1>2, <1>3, <1>4, <1>5, <1>6

LEMMA RealtimeProper ==
    ASSUME NEW a \in Admins, GetRealtimeSection(a) \/ GetRealtimeOverview(a)
    PROVE  Proper(a)
<1>1. PICK t : t = TenantOf[a]
    OBVIOUS
<1>2. CASE GetRealtimeSection(a)
  <2>1. PICK sections : sections = [get_realtime_providers |-> RealtimeProviderSummary(t),
                                    get_realtime_routes |-> RealtimeRouteSummary(t),
                                    get_realtime_budgets |-> RealtimeBudgetSummary(t),
                                    get_realtime_quotas |-> RealtimeQuotaSummary(t),
                                    get_realtime_workers |-> RealtimeWorkerSummary(t)]
      OBVIOUS
  <2>2. \E route \in DOMAIN sections : Reads(a, sections[route])
      BY <1>1, <1>2, <2>1 DEF GetRealtimeSection
  <2>3. \A route \in DOMAIN sections : AllOwned(sections[route], t)
      BY <2>1, RealtimeOwned
  <2> QED
      BY <1>1, <2>2, <2>3 DEF Proper
<1>3. CASE GetRealtimeOverview(a)
  <2>1. PICK sections : sections = {RealtimeProviderSummary(t), RealtimeRouteSummary(t),
                                    RealtimeWorkerSummary(t), RealtimeOtelExporterSummary(t),
                                    RealtimeBudgetSummary(t), RealtimeQuotaSummary(t),
                                    Shown("config_publication", OfTenant("config_publication", t))}
      OBVIOUS
  <2>2. Reads(a, UNION sections)
      BY <1>1, <1>3, <2>1 DEF GetRealtimeOverview
  <2>3. AllOwned(Shown("config_publication", OfTenant("config_publication", t)), t)
      BY PlainKinds, TableOwned
  <2>4. \A section \in sections : AllOwned(section, t)
      BY <2>1, <2>3, RealtimeOwned
  <2>5. AllOwned(UNION sections, t)
      BY <2>4 DEF AllOwned
  <2> QED
      BY <1>1, <2>2, <2>5 DEF Proper
<1> QED
    BY <1>2, <1>3

LEMMA PolicyBucketsOwned ==
    ASSUME NEW policy, NEW t
    PROVE  /\ PolicyBuckets(policy, t) \subseteq OfTenant(LedgerKind, t)
           /\ AllOwned(Shown(LedgerKind, PolicyBuckets(policy, t)), t)
<1>1. PolicyBuckets(policy, t) \subseteq OfTenant(LedgerKind, t)
    BY ScannedOwn DEF PolicyBuckets
<1> QED
    BY <1>1, BucketsOwned

LEMMA DashboardOwned ==
    ASSUME NEW k \in RuntimeKinds \ OddKinds, NEW t, NEW scope
    PROVE  AllOwned(DashboardRows(k, t, scope), t)
<1>1. PICK policies : policies = {id \in Live(k, t) : PolicyMatchesDashboardScope(Row(k, id), t, scope)}
    OBVIOUS
<1>2. PICK buckets : buckets = UNION {PolicyBuckets(Row(k, id), t) : id \in policies}
    OBVIOUS
<1>3. DashboardRows(k, t, scope) = Shown(k, policies) \cup Shown(LedgerKind, buckets)
    BY <1>1, <1>2 DEF DashboardRows
<1>4. policies \subseteq OfTenant(k, t)
    BY <1>1 DEF Live
<1>5. buckets \subseteq OfTenant(LedgerKind, t)
    BY <1>2, PolicyBucketsOwned
<1> QED
    BY <1>3, <1>4, <1>5, TableOwned, BucketsOwned, UnionOwned

LEMMA PolicyProper ==
    ASSUME NEW a \in Admins,
           \/ GetBudgetDashboard(a) \/ GetQuotaDashboard(a)
           \/ GetBudgetPolicyTimeseries(a) \/ GetRateLimitTimeseries(a)
    PROVE  Proper(a)
<1>1. "budget_policy" \notin OddKinds /\ "quota_policy" \notin OddKinds
    BY DEF OddKinds
<1>2. CASE GetBudgetDashboard(a)
  <2>1. PICK scope : Reads(a, DashboardRows("budget_policy", TenantOf[a], scope)
                                \cup RealtimeBudgetSummary(TenantOf[a]))
      BY <1>2 DEF GetBudgetDashboard, InScope
  <2>2. AllOwned(DashboardRows("budget_policy", TenantOf[a], scope), TenantOf[a])
      BY PlainKinds, DashboardOwned
  <2> QED
      BY <2>1, <2>2, RealtimeOwned, UnionOwned DEF Proper
<1>3. CASE GetQuotaDashboard(a)
  <2>1. PICK scope : Reads(a, DashboardRows("quota_policy", TenantOf[a], scope)
                                \cup RealtimeQuotaSummary(TenantOf[a]))
      BY <1>3 DEF GetQuotaDashboard, InScope
  <2>2. AllOwned(DashboardRows("quota_policy", TenantOf[a], scope), TenantOf[a])
      BY PlainKinds, DashboardOwned
  <2> QED
      BY <2>1, <2>2, RealtimeOwned, UnionOwned DEF Proper
<1>4. CASE GetBudgetPolicyTimeseries(a)
  <2>1. PICK id : /\ ForActor("budget_policy", a, id)
                  /\ \E policy : Reads(a, {<<"budget_policy", id>>}
                                            \cup Shown(LedgerKind, PolicyBuckets(policy, TenantOf[a])))
      BY <1>4 DEF GetBudgetPolicyTimeseries, Observes
  <2> QED
      BY <1>1, <2>1, PolicyBucketsOwned, ObservedProper
<1>5. CASE GetRateLimitTimeseries(a)
  <2>1. PICK id : /\ ForActor("quota_policy", a, id)
                  /\ \E policy : Reads(a, {<<"quota_policy", id>>}
                                            \cup Shown(LedgerKind, PolicyBuckets(policy, TenantOf[a])))
      BY <1>5 DEF GetRateLimitTimeseries, Observes
  <2> QED
      BY <1>1, <2>1, PolicyBucketsOwned, ObservedProper
<1> QED
    BY <1>2, <1>3, <1>4, <1>5

-----------------------------------------------------------------------------
(* The exporter                                                            *)

LEMMA MetricsOwned ==
    ASSUME NEW config
    PROVE  AllOwned(OtelExportMetrics(config), config.tenant)
<1>1. PICK t : t = config.tenant
    OBVIOUS
<1>2. PICK buckets, events, decisions :
         /\ buckets = {id \in LedgerBucketsForAnalytics(t) :
                         OtelConfigScopeMatches(config, Row(LedgerKind, id).f.organization,
                                                Row(LedgerKind, id).f.project)}
         /\ events = {id \in UsageEventsForAnalytics(t) :
                        OtelConfigScopeMatches(config, Row(UsageKind, id).f.organization,
                                               Row(UsageKind, id).f.project)}
         /\ decisions = {id \in RouteDecisionEvidenceForTenant(t) :
                           OtelConfigScopeMatches(config, Row("route_decision", id).f.actor.org,
                                                  Row("route_decision", id).f.actor.project)}
    OBVIOUS
<1>3. OtelExportMetrics(config) =
         Shown(LedgerKind, buckets) \cup Shown(UsageKind, events)
           \cup Shown("route_decision", decisions)
           \cup Shown("route_attempt", AttemptsOf(t, decisions))
           \cup RealtimeWorkerSummary(t) \cup Shown("otel_health", OfTenant("otel_health", t))
    BY <1>1, <1>2 DEF OtelExportMetrics
<1>4. AllOwned(Shown(LedgerKind, buckets), t) /\ AllOwned(Shown(UsageKind, events), t)
  <2>1. buckets \subseteq OfTenant(LedgerKind, t) /\ events \subseteq OfTenant(UsageKind, t)
      BY <1>2, ScannedOwn
  <2> QED
      BY <2>1, BucketsOwned, EventsOwned
<1>5. AllOwned(Shown("route_decision", decisions), t)
    BY <1>2, DecisionsOwned
<1>6. AllOwned(Shown("otel_health", OfTenant("otel_health", t)), t)
    BY PlainKinds, TableOwned
<1>7. AllOwned(Shown("route_attempt", AttemptsOf(t, decisions)), t) /\ AllOwned(RealtimeWorkerSummary(t), t)
    BY AttemptsOfOwned, RealtimeOwned
<1>8. AllOwned(OtelExportMetrics(config), t)
  <2>1. PICK A, B, C, D, E, F :
           /\ A = Shown(LedgerKind, buckets) /\ B = Shown(UsageKind, events)
           /\ C = Shown("route_decision", decisions)
           /\ D = Shown("route_attempt", AttemptsOf(t, decisions))
           /\ E = RealtimeWorkerSummary(t) /\ F = Shown("otel_health", OfTenant("otel_health", t))
      OBVIOUS
  <2>2. /\ AllOwned(A, t) /\ AllOwned(B, t) /\ AllOwned(C, t) /\ AllOwned(D, t)
        /\ AllOwned(E, t) /\ AllOwned(F, t)
      BY <1>4, <1>5, <1>6, <1>7, <2>1
  <2>3. OtelExportMetrics(config) = A \cup B \cup C \cup D \cup E \cup F
      BY <1>3, <2>1
  <2> QED
      BY <2>2, <2>3 DEF AllOwned
<1> QED
    BY <1>1, <1>8

LEMMA ExportAt ==
    ASSUME Inv, NEW a \in Admins, op[a].pc \in {"otel_next", "otel_health"}
    PROVE  ExportReady(op[a])
<1>1. Ready(db, a, op[a])
    BY InvParts
<1> QED
    BY <1>1 DEF Ready, AdminReady, RequestReady, RequestPcs, Pending, NoOp

LEMMA ExportQuiet ==
    ASSUME NEW x, NEW y, x.pc # "set_pointer", ExportReady(y)
    PROVE  Quiet(x, y)
BY DEF Quiet, Holds, Pending, ExportReady

\* A step of one request that leaves the store alone.
LEMMA MoveOK ==
    ASSUME Inv, NEW a \in Admins, db' = db, idem' = idem, clock' = clock, scenario' = scenario,
           AnswersStayInTenant', NEW y, op' = [op EXCEPT ![a] = y], Quiet(op[a], y),
           Ready(db, a, y)
    PROVE  Inv'
<1>1. Moves(op, op', a) /\ op'[a] = y
    BY MovesTo
<1>2. Benign(db, db)
    BY InvParts, SameBenign
<1>3. StateOK(db, op', idem)
    BY <1>1, <1>2, BenignMove DEF Inv
<1> QED
    BY <1>3 DEF Inv, ClockOK

LEMMA RunDueOtelExporterOK ==
    ASSUME Inv, NEW a \in Admins, RunDueOtelExporter(a)
    PROVE  Inv'
<1>1. /\ db' = db /\ idem' = idem /\ clock' = clock /\ scenario' = scenario /\ answer' = Nobody
      /\ op[a].pc # "set_pointer"
    BY OnlyOpFrame, CallingIdle DEF RunDueOtelExporter
<1>2. PICK t, y : /\ t \in {Row("otel_config", id).tenant : id \in Ids("otel_config")}
                  /\ y = [pc |-> "otel_next", route |-> "run_due_otel_exporter", key |-> NoKey,
                          scope |-> << >>, tenant |-> t, now |-> clock,
                          configs |-> {[id |-> id, config |-> Row("otel_config", id)] :
                                         id \in OfTenant("otel_config", t)}]
                  /\ op' = [op EXCEPT ![a] = y]
    BY DEF RunDueOtelExporter
<1>3. t \in Nat
  <2>1. \A id \in Ids("otel_config") : RowOK(Row("otel_config", id))
      BY InvParts, TablesAreSeq DEF RuntimeKinds, IsRows, Ids, Row
  <2> QED
      BY <1>2, <2>1 DEF RowOK
<1>4. ExportReady(y)
  <2>1. /\ DOMAIN y = {"pc", "route", "key", "scope", "tenant", "now", "configs"}
        /\ y.pc = "otel_next" /\ y.key = NoKey /\ y.tenant = t
        /\ y.configs = {[id |-> id, config |-> Row("otel_config", id)] :
                          id \in OfTenant("otel_config", t)}
      BY <1>2
  <2>2. \A c \in y.configs : c.config.tenant = t
      BY <2>1 DEF OfTenant
  <2> QED
      BY <1>3, <2>1, <2>2 DEF ExportReady, Holds
<1>5. Quiet(op[a], y) /\ Ready(db, a, y)
    BY <1>1, <1>4, ExportQuiet DEF Ready
<1> QED
    BY <1>1, <1>2, <1>5, NobodyAnswered, MoveOK

LEMMA ExportNextOtelConfigOK ==
    ASSUME Inv, NEW a \in Admins, ExportNextOtelConfig(a)
    PROVE  Inv'
<1>1. PICK x : x = op[a]
    OBVIOUS
<1>2. /\ db' = db /\ idem' = idem /\ clock' = clock /\ scenario' = scenario /\ audit' = audit
      /\ x.pc = "otel_next" /\ ExportReady(x)
    BY <1>1, ExportAt DEF ExportNextOtelConfig, store, records, fixed
<1>3. CASE Closes(a) /\ answer' = Nobody
  <2>1. op' = [op EXCEPT ![a] = NoOp]
      BY <1>3 DEF Closes
  <2>2. Quiet(op[a], NoOp) /\ Ready(db, a, NoOp)
      BY <1>1, <1>2, NoOpQuiet DEF Ready
  <2> QED
      BY <1>2, <1>3, <2>1, <2>2, NobodyAnswered, MoveOK
<1>4. ASSUME NEW next \in x.configs, op' = [op EXCEPT ![a].configs = x.configs \ {next}],
             answer' = Nobody
      PROVE  Inv'
  <2>1. PICK y : y = [x EXCEPT !.configs = x.configs \ {next}]
      OBVIOUS
  <2>2. op' = [op EXCEPT ![a] = y]
      BY <1>1, <1>4, <2>1
  <2>3. /\ DOMAIN y = DOMAIN x /\ (\A z \in DOMAIN x \ {"configs"} : y[z] = x[z])
        /\ y.configs \subseteq x.configs
      BY <1>2, <2>1 DEF ExportReady
  <2>4. ExportReady(y)
      BY <1>2, <2>3 DEF ExportReady, Holds
  <2>5. Quiet(op[a], y) /\ Ready(db, a, y)
      BY <1>1, <1>2, <2>4, ExportQuiet DEF Ready
  <2> QED
      BY <1>2, <1>4, <2>2, <2>5, NobodyAnswered, MoveOK
<1>5. ASSUME NEW next \in x.configs, NEW result,
             op' = [op EXCEPT ![a] = [pc |-> "otel_health", result |-> result,
                                      exported |-> next.id, configs |-> x.configs \ {next}] ++ @],
             \/ answer' = Nobody
             \/ answer' = [tenant |-> x.tenant, rows |-> OtelExportMetrics(next.config)]
      PROVE  Inv'
  <2>1. PICK m : m = [pc |-> "otel_health", result |-> result, exported |-> next.id,
                      configs |-> x.configs \ {next}]
      OBVIOUS
  <2>2. PICK y : y = m ++ x
      OBVIOUS
  <2>3. op' = [op EXCEPT ![a] = y]
      BY <1>1, <1>5, <2>1, <2>2
  <2>4. /\ DOMAIN m = {"pc", "result", "exported", "configs"} /\ m.pc = "otel_health"
        /\ m.configs \subseteq x.configs
      BY <2>1
  <2>5. /\ DOMAIN y = DOMAIN m \cup DOMAIN x
        /\ \A z \in DOMAIN m : y[z] = m[z]
        /\ \A z \in DOMAIN x \ DOMAIN m : y[z] = x[z]
      BY <2>2 DEF ++
  <2>6. ExportReady(y)
      BY <1>2, <2>4, <2>5 DEF ExportReady, Holds
  <2>7. Quiet(op[a], y) /\ Ready(db, a, y)
      BY <1>1, <1>2, <2>6, ExportQuiet DEF Ready
  <2>8. AnswersStayInTenant'
    <3>1. PICK rows, t : rows = OtelExportMetrics(next.config) /\ t = x.tenant
        OBVIOUS
    <3>2. \A r \in rows : Owned(r, t)
        BY <1>2, <3>1, MetricsOwned DEF AllOwned, ExportReady
    <3>3. answer' = Nobody \/ answer' = [tenant |-> t, rows |-> rows]
        BY <1>5, <3>1
    <3> QED
        BY <1>2, <3>2, <3>3, NobodyAnswered, OwnedAnswered
  <2> QED
      BY <1>2, <2>3, <2>7, <2>8, MoveOK
<1> QED
    BY <1>1, <1>3, <1>4, <1>5 DEF ExportNextOtelConfig

\* The reloads of the workers and the health of the exporters are all that changes.
LEMMA EvidenceBenign ==
    ASSUME NEW d, NEW e, NEW k \in {"worker_reload", "otel_health"}, DbOK(d), DecisionsOK(d),
           EvidenceOK(e), Changes(d, e, k)
    PROVE  Benign(d, e)
<1>1. k \in Kinds
    BY KindsKnown DEF RuntimeKinds
<1>2. \A j \in KnownKinds \ {"worker_reload", "otel_health"} : e[j] = d[j]
    BY <1>1, KindsKnown DEF Changes, KnownKinds, RuntimeKinds
<1>3. DbOK(e) /\ Grown(d, e)
    BY <1>1, ChangesOK, ChangeGrown
<1>4. DecisionsOK(e)
    BY <1>2 DEF DecisionsOK, KnownKinds
<1> QED
    BY <1>2, <1>3, <1>4 DEF Benign, KnownKinds

HealthOK(row) ==
    /\ row.f.failures \in Nat
    /\ (row.f.failures = 0) = (row.status \in {"succeeded", "disabled"})

LEMMA RecordOtelExporterHealthOK ==
    ASSUME Inv, NEW a \in Admins, RecordOtelExporterHealth(a)
    PROVE  Inv'
<1> DEFINE previous == {Row("otel_health", id) : id \in HealthOf(op[a].exported)}
           failures == IF previous = {} THEN 0 ELSE (CHOOSE h \in previous : TRUE).f.failures
           success == IF previous = {} THEN None ELSE (CHOOSE h \in previous : TRUE).f.succeeded
           record == NewRow(op[a].tenant,
                       [config |-> op[a].exported, attempted |-> op[a].now,
                        failures |-> ConsecutiveFailures(op[a].result, failures),
                        succeeded |-> IF op[a].result = "succeeded" THEN op[a].now + 1
                                      ELSE success],
                       op[a].result)
<1>1. PICK x, k, rows : x = op[a] /\ k = "otel_health" /\ rows = db[k]
    OBVIOUS
<1>2. /\ x.pc = "otel_health" /\ ExportReady(x) /\ op' = [op EXCEPT ![a].pc = "otel_next"]
      /\ idem' = idem /\ clock' = clock /\ scenario' = scenario /\ answer' = Nobody
    BY <1>1, ExportAt, OnlyStoreFrame DEF RecordOtelExporterHealth, Proceeds
<1>3. k \in Kinds /\ DbOK(db) /\ IsRows(rows)
    BY <1>1, InvParts, TablesAreSeq, KindsKnown DEF RuntimeKinds
<1>4. db' = [db EXCEPT !["otel_health"] =
               Upsert(@, record, LAMBDA h : h.f.config = op[a].exported)]
    BY DEF RecordOtelExporterHealth
<1>5. failures \in Nat
  <2>1. \A h \in previous : h.f.failures \in Nat
      BY InvParts DEF EvidenceOK, HealthOf, Ids, Row
  <2> HIDE DEF previous
  <2> QED
      BY <2>1
<1> HIDE DEF failures, success
<1>6. PICK row : /\ row = record
                 /\ \E f : row = NewRow(x.tenant, f, x.result)
                         /\ f.failures = ConsecutiveFailures(x.result, failures)
    BY <1>1
<1> HIDE DEF record
<1>20. PICK new : new = Upsert(db["otel_health"], row, LAMBDA h : h.f.config = op[a].exported)
    OBVIOUS
<1>21. db' = [db EXCEPT ![k] = new]
    BY <1>1, <1>4, <1>6, <1>20
<1>7. RowOK(row) /\ HealthOK(row)
  <2>1. PICK f : /\ row = NewRow(x.tenant, f, x.result)
                 /\ f.failures = ConsecutiveFailures(x.result, failures)
      BY <1>6
  <2>2. x.tenant \in Nat
      BY <1>2 DEF ExportReady
  <2>3. RowOK(row) /\ row.f = f /\ row.status = x.result
      BY <2>1, <2>2, NewRowOK
  <2> QED
      BY <1>5, <2>1, <2>3 DEF HealthOK, ConsecutiveFailures
<1>8. Put(rows, new, row)
    BY <1>1, <1>20 DEF Put, Upsert
<1>9. PICK e : e = db'
    OBVIOUS
<1>10. /\ Changes(db, e, k) /\ e[k] = new
       /\ \A i \in 1 .. Len(new) : new[i] = row \/ (i \in 1 .. Len(rows) /\ new[i] = rows[i])
  <2>1. /\ IsRows(new)
        /\ \A i \in 1 .. Len(new) : new[i] = row \/ (i \in 1 .. Len(rows) /\ new[i] = rows[i])
      BY <1>3, <1>7, <1>8, PutRows
  <2>2. e = [db EXCEPT ![k] = new] /\ DOMAIN db = Kinds
      BY <1>9, <1>21, InvParts
  <2>3. DOMAIN e = Kinds /\ e[k] = new /\ \A j \in Kinds \ {k} : e[j] = db[j]
      BY <1>3, <2>2
  <2> QED
      BY <2>1, <2>3 DEF Changes
<1>11. EvidenceOK(e)
  <2>1. e["worker_reload"] = db["worker_reload"]
      BY <1>1, <1>10, KindsKnown DEF Changes, RuntimeKinds
  <2>2. \A i \in 1 .. Len(rows) : HealthOK(rows[i])
      BY <1>1, InvParts DEF EvidenceOK, HealthOK
  <2>3. \A i \in 1 .. Len(new) : HealthOK(new[i])
      BY <1>7, <1>10, <2>2
  <2> QED
      BY <1>1, <1>10, <2>1, <2>3, InvParts DEF EvidenceOK, HealthOK
<1>12. Benign(db, db')
    BY <1>1, <1>3, <1>9, <1>10, <1>11, InvParts, EvidenceBenign
<1>13. PICK y : y = [x EXCEPT !.pc = "otel_next"]
    OBVIOUS
<1>14. op' = [op EXCEPT ![a] = y]
    BY <1>1, <1>2, <1>13
<1>15. ExportReady(y)
  <2>1. DOMAIN y = DOMAIN x /\ y.pc = "otel_next" /\ \A z \in DOMAIN x \ {"pc"} : y[z] = x[z]
      BY <1>2, <1>13 DEF ExportReady
  <2> QED
      BY <1>2, <2>1 DEF ExportReady, Holds
<1>16. Quiet(op[a], y) /\ Ready(db', a, y)
    BY <1>1, <1>2, <1>15, ExportQuiet DEF Ready
<1> QED
    BY <1>2, <1>12, <1>14, <1>16, AdminStepOK

LEMMA ReadyzOK ==
    ASSUME Inv, NEW a \in Admins, Readyz(a)
    PROVE  Inv'
<1>1. /\ db' = db /\ op' = op /\ idem' = idem /\ clock' = clock /\ scenario' = scenario
      /\ answer'.tenant = 0
  <2>1. \E rows : answer' = [tenant |-> 0, rows |-> rows]
      BY DEF Readyz
  <2> QED
      BY <2>1 DEF Readyz, store, fixed
<1>2. AnswersStayInTenant'
    BY <1>1 DEF AnswersStayInTenant
<1> QED
    BY <1>1, <1>2, AnswerOK

LEMMA EvidenceNextOK ==
    ASSUME Inv, NEW a \in Admins, EvidenceNext(a)
    PROVE  Inv'
BY RouteEvidenceProper, UsageProper, OverviewProper, ObservabilityProper, RealtimeProper,
   PolicyProper, ProperOK, RunDueOtelExporterOK, ExportNextOtelConfigOK,
   RecordOtelExporterHealthOK, ReadyzOK
DEF EvidenceNext

-----------------------------------------------------------------------------
(* Workers, hot state and time                                             *)

\* A step that leaves the requests alone.
LEMMA StoreOnlyOK ==
    ASSUME Inv, Benign(db, db'), op' = op, OnlyStore
    PROVE  Inv'
<1>1. PICK e : e = db'
    OBVIOUS
<1>2. /\ DbOK(e) /\ Grown(db, e) /\ DecisionsOK(e) /\ EvidenceOK(e)
      /\ e["config_snapshot"] = db["config_snapshot"]
      /\ e["config_publication"] = db["config_publication"]
      /\ e["config_invalidation"] = db["config_invalidation"]
      /\ e["latest_snapshot"] = db["latest_snapshot"]
    BY <1>1 DEF Benign
<1>3. PublicationOK(e, op)
    BY <1>2, InvParts DEF PublicationOK
<1>4. OpsReady(e, op)
    BY <1>2, InvParts, ReadyKept DEF OpsReady
<1>5. RecordsOK(e, idem)
    BY <1>2, InvParts, RecordsKept
<1>6. StateOK(db', op', idem')
    BY <1>1, <1>2, <1>3, <1>4, <1>5, OnlyStoreFrame DEF StateOK
<1>7. ClockOK' /\ AnswersStayInTenant'
    BY OnlyStoreFrame, NobodyAnswered DEF Inv, ClockOK
<1> QED
    BY <1>6, <1>7 DEF Inv

LEMMA MissedCounted ==
    ASSUME Inv, NEW t, NEW previous, NEW target
    PROVE  CountMissedInvalidations(t, previous, target) \in Nat
<1>1. PICK n : n = Len(db["config_invalidation"])
    OBVIOUS
<1>2. n \in Nat
    BY <1>1, InvParts, TablesAreSeq DEF RuntimeKinds
<1>3. IsFiniteSet(1 .. n)
    BY <1>2, FS_Interval
<1>4. PICK ids : ids = {id \in OfTenant("config_invalidation", t) :
                          Row("config_invalidation", id).f.version \in previous + 1 .. target}
    OBVIOUS
<1>5. ids \subseteq 1 .. n
    BY <1>1, <1>4 DEF OfTenant, Ids
<1>6. Cardinality(ids) \in Nat
    BY <1>3, <1>5, FS_Subset, FS_CardinalityType
<1> QED
    BY <1>4, <1>6 DEF CountMissedInvalidations

ReloadOK(row) == row.f.worker \in Workers /\ row.f.missed \in Nat

LEMMA StoreWorkerReloadOK ==
    ASSUME Inv, NEW worker \in Workers, NEW t \in Nat, NEW version, NEW source,
           NEW missed \in Nat,
           StoreWorkerReload(ConfigWorkerReloadRecord(t, worker, version, source, missed))
    PROVE  Inv'
<1>1. PICK row : row = ConfigWorkerReloadRecord(t, worker, version, source, missed)
    OBVIOUS
<1>2. RowOK(row) /\ ReloadOK(row)
  <2>1. PICK f : /\ f = [worker |-> worker, version |-> version, source |-> source,
                         missed |-> missed]
                 /\ row = NewRow(t, f, "loaded")
      BY <1>1 DEF ConfigWorkerReloadRecord
  <2>2. f.worker = worker /\ f.missed = missed
      BY <2>1
  <2>3. RowOK(row) /\ row.f = f
      BY <2>1, NewRowOK
  <2> QED
      BY <2>2, <2>3 DEF ReloadOK
<1>3. PICK k, rows, e : k = "worker_reload" /\ rows = db[k] /\ e = db'
    OBVIOUS
<1>4. k \in Kinds /\ DbOK(db) /\ IsRows(rows)
    BY <1>3, InvParts, TablesAreSeq, KindsKnown DEF RuntimeKinds
<1>5. PICK new : new = Upsert(db["worker_reload"], row, LAMBDA r : r.tenant = row.tenant
                                                        /\ r.f.worker = row.f.worker)
    OBVIOUS
<1>6. e = [db EXCEPT ![k] = new] /\ op' = op /\ OnlyStore
    BY <1>1, <1>3, <1>5 DEF StoreWorkerReload
<1>7. Put(rows, new, row)
    BY <1>3, <1>5 DEF Put, Upsert
<1>8. /\ Changes(db, e, k) /\ e[k] = new
      /\ \A i \in 1 .. Len(new) : new[i] = row \/ (i \in 1 .. Len(rows) /\ new[i] = rows[i])
  <2>1. /\ IsRows(new)
        /\ \A i \in 1 .. Len(new) : new[i] = row \/ (i \in 1 .. Len(rows) /\ new[i] = rows[i])
      BY <1>2, <1>4, <1>7, PutRows
  <2>2. DOMAIN db = Kinds
      BY InvParts
  <2>3. DOMAIN e = Kinds /\ e[k] = new /\ \A j \in Kinds \ {k} : e[j] = db[j]
      BY <1>4, <1>6, <2>2
  <2> QED
      BY <2>1, <2>3 DEF Changes
<1>9. EvidenceOK(e)
  <2>1. e["otel_health"] = db["otel_health"]
      BY <1>3, <1>8, KindsKnown DEF Changes, RuntimeKinds
  <2>2. \A i \in 1 .. Len(rows) : ReloadOK(rows[i])
      BY <1>3, InvParts DEF EvidenceOK, ReloadOK
  <2>3. \A i \in 1 .. Len(new) : ReloadOK(new[i])
      BY <1>2, <1>8, <2>2
  <2> QED
      BY <1>3, <1>8, <2>1, <2>3, InvParts DEF EvidenceOK, ReloadOK
<1>10. Benign(db, db')
    BY <1>3, <1>4, <1>8, <1>9, InvParts, EvidenceBenign
<1> QED
    BY <1>6, <1>10, StoreOnlyOK

LEMMA RowTenant ==
    ASSUME Inv, NEW k \in RuntimeKinds, NEW id \in Ids(k)
    PROVE  Row(k, id).tenant \in Nat
BY InvParts, TablesAreSeq DEF IsRows, RowOK, Ids, Row

LEMMA ReloadConfigWorkerFromInvalidationOK ==
    ASSUME Inv, NEW worker \in Workers, ReloadConfigWorkerFromInvalidation(worker)
    PROVE  Inv'
<1>1. PICK id \in Ids("config_invalidation") :
         LET event == Row("config_invalidation", id)
             missed == CountMissedInvalidations(event.tenant,
                                                LoadedVersion(event.tenant, worker),
                                                event.f.version)
         IN StoreWorkerReload(ConfigWorkerReloadRecord(event.tenant, worker, event.f.version,
                                "invalidation", IF missed = 0 THEN 0 ELSE missed - 1))
    BY DEF ReloadConfigWorkerFromInvalidation
<1>2. PICK event : event = Row("config_invalidation", id)
    OBVIOUS
<1>3. PICK missed : missed = CountMissedInvalidations(event.tenant,
                                LoadedVersion(event.tenant, worker), event.f.version)
    OBVIOUS
<1>4. PICK other : other = IF missed = 0 THEN 0 ELSE missed - 1
    OBVIOUS
<1>5. other \in Nat
  <2>1. missed \in Nat
      BY <1>3, MissedCounted
  <2> QED
      BY <1>4, <2>1
<1>6. event.tenant \in Nat
    BY <1>2, RowTenant DEF RuntimeKinds
<1>7. StoreWorkerReload(ConfigWorkerReloadRecord(event.tenant, worker, event.f.version,
                                                 "invalidation", other))
    BY <1>1, <1>2, <1>3, <1>4
<1> QED
    BY <1>5, <1>6, <1>7, StoreWorkerReloadOK

LEMMA ReloadConfigWorkerByPollingOK ==
    ASSUME Inv, NEW worker \in Workers, ReloadConfigWorkerByPolling(worker)
    PROVE  Inv'
<1>1. PICK id \in Ids("config_publication") :
         LET pointer == Row("config_publication", id)
         IN StoreWorkerReload(ConfigWorkerReloadRecord(pointer.tenant, worker,
                                pointer.f.version, "polling",
                                CountMissedInvalidations(pointer.tenant,
                                  LoadedVersion(pointer.tenant, worker), pointer.f.version)))
    BY DEF ReloadConfigWorkerByPolling
<1>2. PICK pointer : pointer = Row("config_publication", id)
    OBVIOUS
<1>3. PICK missed : missed = CountMissedInvalidations(pointer.tenant,
                                LoadedVersion(pointer.tenant, worker), pointer.f.version)
    OBVIOUS
<1>4. missed \in Nat
    BY <1>3, MissedCounted
<1>5. pointer.tenant \in Nat
    BY <1>2, RowTenant DEF RuntimeKinds
<1>6. StoreWorkerReload(ConfigWorkerReloadRecord(pointer.tenant, worker, pointer.f.version,
                                                 "polling", missed))
    BY <1>1, <1>2, <1>3
<1> QED
    BY <1>4, <1>5, <1>6, StoreWorkerReloadOK

LEMMA InsertConfigSnapshotPostgresOK ==
    ASSUME Inv, InsertConfigSnapshotPostgres
    PROVE  Inv'
<1>1. PICK a \in Admins : \E f : db' = [db EXCEPT !["durable_snapshot"] =
                                          Append(@, NewRow(TenantOf[a], f, "published"))]
    BY DEF InsertConfigSnapshotPostgres
<1>2. op' = op /\ OnlyStore
    BY DEF InsertConfigSnapshotPostgres
<1>3. PICK k, row : /\ k = "durable_snapshot" /\ RowOK(row)
                    /\ db' = [db EXCEPT ![k] = Append(@, row)]
    BY <1>1, TenantRow
<1>4. k \in RuntimeKinds \ KnownKinds
    BY <1>3 DEF RuntimeKinds, KnownKinds
<1>5. Benign(db, db')
    BY <1>3, <1>4, AppendBenign
<1> QED
    BY <1>2, <1>5, StoreOnlyOK

LEMMA SetEndpointHealthOK ==
    ASSUME Inv, SetEndpointHealth
    PROVE  Inv'
<1>1. PICK a \in Admins, r \in Requests["health"] :
         db' = [db EXCEPT !["endpoint_health"] =
                  Upsert(@, NewRow(TenantOf[a], r, "active"),
                         LAMBDA h : h.tenant = TenantOf[a] /\ h.f.endpoint = r.endpoint)]
    BY DEF SetEndpointHealth
<1>2. op' = op /\ OnlyStore
    BY DEF SetEndpointHealth
<1>3. PICK row : row = NewRow(TenantOf[a], r, "active")
    OBVIOUS
<1>4. PICK new : new = Upsert(db["endpoint_health"], row,
                              LAMBDA h : h.tenant = TenantOf[a] /\ h.f.endpoint = r.endpoint)
    OBVIOUS
<1>5. Put(db["endpoint_health"], new, row)
    BY <1>4 DEF Put, Upsert
<1>6. PICK k : k = "endpoint_health"
    OBVIOUS
<1>7. /\ k \in RuntimeKinds \ KnownKinds /\ RowOK(row) /\ Put(db[k], new, row)
      /\ db' = [db EXCEPT ![k] = new]
  <2>1. RowOK(row)
      BY <1>3, TenantRow
  <2> QED
      BY <1>1, <1>3, <1>4, <1>5, <1>6, <2>1 DEF RuntimeKinds, KnownKinds
<1>8. Benign(db, db')
    BY <1>7, PutBenign
<1> QED
    BY <1>2, <1>8, StoreOnlyOK

LEMMA TickOK ==
    ASSUME Inv, Tick
    PROVE  Inv'
<1>1. /\ db' = db /\ op' = op /\ idem' = idem /\ scenario' = scenario /\ answer' = Nobody
      /\ clock < scenario.horizon /\ clock' = clock + 1
    BY DEF Tick, store
<1>2. scenario.horizon \in Nat /\ clock \in 0 .. scenario.horizon /\ scenario \in Scenarios
    BY RuntimeAssumption DEF Inv, ClockOK
<1>3. ClockOK'
    BY <1>1, <1>2 DEF ClockOK
<1> QED
    BY <1>1, <1>3, NobodyAnswered DEF Inv

-----------------------------------------------------------------------------
(* The theorems                                                            *)

LEMMA InitOK ==
    ASSUME AdminInit
    PROVE  Inv
<1>1. /\ db = Seed /\ idem = {} /\ op = [a \in Admins |-> NoOp] /\ answer = Nobody
      /\ clock = 0 /\ scenario \in Scenarios
    BY DEF AdminInit
<1>2. DbOK(db)
  <2>1. ASSUME NEW k \in Kinds PROVE IsRows(Seed[k])
    <3>1. /\ Seed[k] \in Seq({Seed[k][i] : i \in DOMAIN Seed[k]})
          /\ \A i \in DOMAIN Seed[k] :
               Seed[k][i] = NewRow(Seed[k][i].tenant, Seed[k][i].f, Seed[k][i].status)
                 /\ Seed[k][i].tenant \in Nat
        BY RuntimeAssumption
    <3>2. \A i \in DOMAIN Seed[k] : RowOK(Seed[k][i])
        BY <3>1, NewRowOK
    <3> QED
        BY <3>1, <3>2 DEF IsRows
  <2> QED
      BY <1>1, <2>1 DEF DbOK, Kinds
<1>3. \A k \in RuntimeKinds : DOMAIN Seed[k] = 1 .. Len(Seed[k])
    BY <1>1, <1>2, TablesAreSeq
<1>4. \A a \in Admins : ~ Holds(op[a]) /\ ~ Pending(op[a]) /\ op[a].pc # "set_pointer"
    BY <1>1 DEF Holds, Pending, NoOp
<1>5. PublicationOK(db, op)
  <2>1. PICK s, pointers : s = Seed["config_snapshot"] /\ pointers = Seed["config_publication"]
      OBVIOUS
  <2>2. /\ DOMAIN s = 1 .. Len(s) /\ DOMAIN pointers = 1 .. Len(pointers)
        /\ DOMAIN Seed["config_invalidation"] = 1 .. Len(Seed["config_invalidation"])
        /\ DOMAIN Seed["latest_snapshot"] = 1 .. Len(Seed["latest_snapshot"])
      BY <1>3, <2>1 DEF RuntimeKinds
  <2>3. /\ \A p \in 1 .. Len(s) :
             /\ s[p].f.version \in Nat /\ s[p].f.earlier = {}
             /\ \E i \in 1 .. Len(pointers) : pointers[i].tenant = s[p].tenant
        /\ \A i, j \in 1 .. Len(pointers) : pointers[i].tenant = pointers[j].tenant => i = j
    <3>1. \A p \in DOMAIN s :
             /\ s[p].f.version \in Nat /\ s[p].f.earlier = {}
             /\ \E i \in DOMAIN pointers : pointers[i].tenant = s[p].tenant
        BY <2>1, RuntimeAssumption
    <3>2. \A i, j \in DOMAIN pointers : pointers[i].tenant = pointers[j].tenant => i = j
        BY <2>1, RuntimeAssumption
    <3> QED
        BY <2>2, <3>1, <3>2
  <2>4. SnapshotsOK(s)
      BY <2>3 DEF SnapshotsOK, SnapshotOK, After
  <2>5. Unsettled(s, op)
      BY <1>4 DEF Unsettled
  <2>6. OnePointer(pointers) /\ Ahead(s, pointers, op)
      BY <2>3 DEF OnePointer, Ahead
  <2>7. ASSUME NEW k \in {"config_publication", "config_invalidation", "latest_snapshot"}
        PROVE  LeadOK(s, Seed[k])
    <3>1. DOMAIN Seed[k] = 1 .. Len(Seed[k])
        BY <1>3 DEF RuntimeKinds
    <3>2. \A i \in DOMAIN Seed[k] :
             /\ Seed[k][i].f.snapshot \in DOMAIN s
             /\ s[Seed[k][i].f.snapshot].tenant = Seed[k][i].tenant
             /\ s[Seed[k][i].f.snapshot].f.version = Seed[k][i].f.version
        BY <2>1, RuntimeAssumption
    <3> QED
        BY <2>2, <3>1, <3>2 DEF LeadOK, SnapshotsOf
  <2> QED
      BY <1>1, <2>1, <2>4, <2>5, <2>6, <2>7 DEF PublicationOK
<1>6. DecisionsOK(db)
  <2>1. DOMAIN Seed["route_decision"] = 1 .. Len(Seed["route_decision"])
      BY <1>3 DEF RuntimeKinds
  <2>2. \A i \in 1 .. Len(Seed["route_decision"]) : Seed["route_decision"][i].f.settled = {}
      BY <2>1, RuntimeAssumption
  <2> QED
      BY <1>1, <2>2 DEF DecisionsOK, NotReplaced
<1>7. EvidenceOK(db)
  <2>1. /\ DOMAIN Seed["worker_reload"] = 1 .. Len(Seed["worker_reload"])
        /\ DOMAIN Seed["otel_health"] = 1 .. Len(Seed["otel_health"])
      BY <1>3 DEF RuntimeKinds
  <2>2. \A i \in 1 .. Len(Seed["worker_reload"]) : ReloadOK(Seed["worker_reload"][i])
      BY <2>1, RuntimeAssumption DEF ReloadOK
  <2>3. \A i \in 1 .. Len(Seed["otel_health"]) : HealthOK(Seed["otel_health"][i])
      BY <2>1, RuntimeAssumption DEF HealthOK
  <2> QED
      BY <1>1, <2>2, <2>3 DEF EvidenceOK, ReloadOK, HealthOK
<1>8. OpsReady(db, op) /\ RecordsOK(db, idem)
    BY <1>1 DEF OpsReady, Ready, RecordsOK
<1>9. ClockOK
    BY <1>1, RuntimeAssumption DEF ClockOK
<1>10. AnswersStayInTenant
    BY <1>1 DEF AnswersStayInTenant, Nobody
<1> QED
    BY <1>2, <1>5, <1>6, <1>7, <1>8, <1>9, <1>10 DEF Inv, StateOK

LEMMA NextOK ==
    ASSUME Inv, Next
    PROVE  Inv'
BY PublicationNextOK, RequestNextOK, EvidenceNextOK, ReloadConfigWorkerFromInvalidationOK,
   ReloadConfigWorkerByPollingOK, InsertConfigSnapshotPostgresOK, SetEndpointHealthOK, TickOK
DEF Next

LEMMA StutterOK ==
    ASSUME Inv, UNCHANGED vars
    PROVE  Inv'
<1>1. /\ db' = db /\ op' = op /\ idem' = idem /\ clock' = clock /\ scenario' = scenario
      /\ audit' = audit /\ answer' = answer
    BY DEF vars
<1>2. AnswersStayInTenant'
    BY <1>1, Zenon DEF Inv, AnswersStayInTenant, TenantOfShown, Row
<1> QED
    BY <1>1, <1>2, AnswerOK

\* The invariant holds of every behaviour.
THEOREM InvHolds == Spec => []Inv
<1>1. AdminInit => Inv
    BY InitOK
<1>2. Inv /\ [Next]_vars => Inv'
    BY NextOK, StutterOK
<1> QED
    BY <1>1, <1>2, PTL DEF Spec

LEMMA InvTypes == Inv => TypeOK
<1> SUFFICES ASSUME Inv PROVE TypeOK
    OBVIOUS
<1>1. DOMAIN db = Kinds
    BY InvParts
<1>2. \A k \in Kinds : \A row \in Rows(k) : row.version \in Nat \ {0} /\ row.tenant \in Nat
  <2>1. ASSUME NEW k \in Kinds, NEW row \in Rows(k) PROVE RowOK(row)
    <3>1. IsRows(db[k])
        BY InvParts DEF DbOK
    <3> QED
        BY <3>1, RowsAreSeq DEF IsRows, Rows, Ids
  <2> QED
      BY <2>1 DEF RowOK
<1>3. \A k \in {"config_publication", "config_invalidation", "latest_snapshot"} :
        \A p \in Rows(k) :
           /\ p.f.snapshot \in Ids("config_snapshot")
           /\ Row("config_snapshot", p.f.snapshot).tenant = p.tenant
           /\ Row("config_snapshot", p.f.snapshot).f.version = p.f.version
  <2>1. ASSUME NEW k \in {"config_publication", "config_invalidation", "latest_snapshot"}
        PROVE  LeadOK(db["config_snapshot"], db[k])
      BY InvParts DEF PublicationOK
  <2>2. ASSUME NEW k \in {"config_publication", "config_invalidation", "latest_snapshot"},
               NEW p \in Rows(k)
        PROVE  /\ p.f.snapshot \in Ids("config_snapshot")
               /\ Row("config_snapshot", p.f.snapshot).tenant = p.tenant
               /\ Row("config_snapshot", p.f.snapshot).f.version = p.f.version
    <3>1. PICK i \in 1 .. Len(db[k]) : p = db[k][i]
        BY DEF Rows, Ids
    <3>2. /\ p.f.snapshot \in SnapshotsOf(db["config_snapshot"], p.tenant)
          /\ db["config_snapshot"][p.f.snapshot].f.version = p.f.version
        BY <2>1, <3>1 DEF LeadOK
    <3> QED
        BY <3>2 DEF SnapshotsOf, Ids, Row
  <2> QED
      BY <2>2
<1>4. /\ \A r \in Rows("worker_reload") : r.f.worker \in Workers /\ r.f.missed \in Nat
      /\ \A h \in Rows("otel_health") :
           (h.f.failures = 0) = (h.status \in {"succeeded", "disabled"})
    BY InvParts DEF EvidenceOK, Rows, Ids
<1>5. \A a \in Admins : op[a] = NoOp \/ op[a].key \in Keys \cup {NoKey}
    BY InvParts DEF Ready, AdminReady, RequestReady, ExportReady
<1>6. clock \in 0 .. scenario.horizon
    BY DEF Inv, ClockOK
<1> QED
    BY <1>1, <1>2, <1>3, <1>4, <1>5, <1>6 DEF TypeOK

LEMMA InvOrders == Inv => PublicationOrder
<1> SUFFICES ASSUME Inv PROVE PublicationOrder
    OBVIOUS
<1>1. PICK s : s = db["config_snapshot"]
    OBVIOUS
<1>2. \A p : OverlappedIn(s, p) => Overlapped(p)
    BY <1>1 DEF Overlapped, OverlappedIn, SnapshotsOf, OfTenant, Ids, Row
<1>3. SnapshotsOK(s)
    BY <1>1, InvParts DEF PublicationOK
<1>4. \A q \in Ids("config_snapshot") : \A p \in Row("config_snapshot", q).f.earlier :
        \/ Row("config_snapshot", q).f.version > Row("config_snapshot", p).f.version
        \/ Overlapped(p)
    BY <1>1, <1>2, <1>3 DEF SnapshotsOK, SnapshotOK, After, Ids, Row
<1>5. \A d \in Rows("route_decision") :
        d.f.snapshot[1] = "config_snapshot" =>
          \A q \in d.f.settled : d.f.snapshot[2] \notin Row("config_snapshot", q).f.earlier
    BY InvParts DEF DecisionsOK, NotReplaced, Rows, Ids, Row
<1> QED
    BY <1>4, <1>5 DEF PublicationOrder

\* Every variable holds what the store and the handlers keep in it; the pointer of
\* a tenant, its invalidations and the latest snapshot lead to a snapshot of the
\* tenant and version, and an exporter's failures are those since it last was not
\* failing (insert_config_snapshot, record_otel_exporter_health).
THEOREM TypesHold == Spec => []TypeOK
BY InvHolds, InvTypes, PTL

\* Publication goes forward, however publications, rollbacks and requests
\* interleave: insert_config_snapshot takes its four locks one by one, and still
\* versions only rise between publications that do not overlap, and no request is
\* planned under a snapshot that was replaced before it began (publish_document,
\* latest_published_snapshot_for_tenant).
THEOREM PublicationGoesForward == Spec => []PublicationOrder
BY InvHolds, InvOrders, PTL

\* No answer of the data plane's admin routes, no replayed response and nothing the
\* exporter sends shows a tenant another tenant's evidence
\* (route_attempt_evidence_for_tenant, dashboard_overview_response,
\* idempotency_response, otel_export_metrics).
THEOREM AnswersHold == Spec => []AnswersStayInTenant
<1>1. Inv => AnswersStayInTenant
    BY DEF Inv
<1> QED
    BY <1>1, InvHolds, PTL
=============================================================================
