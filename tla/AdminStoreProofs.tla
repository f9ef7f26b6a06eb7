--------------------------- MODULE AdminStoreProofs ---------------------------
(***************************************************************************)
(* What the admin API keeps in its store, for any rows, requests and       *)
(* interleavings: rows never leave their tenant, every handler works on    *)
(* rows of its own tenant from its first step to its answer, each version  *)
(* of a row is replaced once and audited once, and a freeze stops the      *)
(* writes of the requests that come after it.                              *)
(*                                                                         *)
(* The actions are split once more, by what they do to the store: the      *)
(* first step of a request (Begins) and its later steps (MoveOK).  The     *)
(* inductive invariant says what a request is ready to do at each of its   *)
(* steps (Ready).                                                          *)
(***************************************************************************)
EXTENDS AdminProofs, FiniteSetTheorems

-----------------------------------------------------------------------------
(* Rows                                                                    *)

\* A row as the store keeps it, and one that was just made for admin a.
IsFcn(f) == f = [x \in DOMAIN f |-> f[x]]
RowShape(row) ==
    /\ {"tenant", "f", "status", "version"} \subseteq DOMAIN row
    /\ row.tenant \in Nat /\ row.version \in Nat \ {0} /\ IsFcn(row.f)
FreshRow(a, row) == RowShape(row) /\ row.tenant = TenantOf[a] /\ row.version = 1

IsRows(rows) ==
    /\ rows \in Seq({rows[i] : i \in DOMAIN rows})
    /\ \A i \in DOMAIN rows : RowShape(rows[i])

\* The store is a table of rows for each kind; what an emergency operation did
\* has been applied.
DbOK ==
    /\ DOMAIN db = Kinds
    /\ \A k \in Kinds : IsRows(db[k])
    /\ \A i \in Ids("emergency_operation") : Row("emergency_operation", i).status = "applied"

\* The kinds with rows whose fields change after they were created.
ChangingKinds ==
    {"secret_ref", "codex_connection", "model_alias", "otel_config", "sink", "endpoint_drain"}

\* Rows are added, not removed, stay in their tenant and, but for these kinds, keep
\* their fields; emergency operations do not change at all.
Grows ==
    /\ DbOK'
    /\ \A k \in Kinds : Len(db[k]) <= Len(db'[k])
    /\ \A k \in Kinds : \A id \in Ids(k) : db'[k][id].tenant = Row(k, id).tenant
    /\ \A k \in Kinds \ ChangingKinds : \A id \in Ids(k) : db'[k][id].f = Row(k, id).f
    /\ \A i \in Ids("emergency_operation") :
         db'["emergency_operation"][i] = Row("emergency_operation", i)

\* No version of a row that is compared and set changes; new rows have version 1.
VersionsKept ==
    \A k \in VersionedKinds :
        /\ \A id \in Ids(k) : db'[k][id].version = Row(k, id).version
        /\ \A id \in (1 .. Len(db'[k])) \ Ids(k) : db'[k][id].version = 1

LEMMA KindsKnown == AdminKinds \subseteq Kinds /\ VersionedKinds \subseteq Kinds
BY SeedAssumption DEF AdminKinds, VersionedKinds

LEMMA RowsAreSeq ==
    ASSUME NEW rows, IsRows(rows)
    PROVE  Len(rows) \in Nat /\ DOMAIN rows = 1 .. Len(rows)
BY DEF IsRows

LEMMA AppendRows ==
    ASSUME NEW rows, NEW row, IsRows(rows), RowShape(row)
    PROVE  /\ IsRows(Append(rows, row))
           /\ Len(Append(rows, row)) = Len(rows) + 1
           /\ \A i \in 1 .. Len(rows) : Append(rows, row)[i] = rows[i]
           /\ Append(rows, row)[Len(rows) + 1] = row
<1> DEFINE new == Append(rows, row)
           S == {rows[i] : i \in DOMAIN rows} \cup {row}
<1>1. rows \in Seq(S) /\ row \in S
    BY DEF IsRows
<1>2. /\ new \in Seq(S) /\ Len(new) = Len(rows) + 1 /\ DOMAIN new = 1 .. Len(new)
      /\ \A i \in 1 .. Len(rows) : new[i] = rows[i]
      /\ new[Len(rows) + 1] = row
  <2> HIDE DEF S
  <2> QED
      BY <1>1
<1>3. Len(rows) \in Nat /\ DOMAIN rows = 1 .. Len(rows)
    BY RowsAreSeq
<1>4. \A i \in DOMAIN new : new[i] = row \/ (i \in DOMAIN rows /\ new[i] = rows[i])
  <2> HIDE DEF new
  <2> QED
      BY <1>2, <1>3
<1>5. new \in Seq({new[i] : i \in DOMAIN new})
  <2> HIDE DEF new
  <2> QED
      BY <1>2
<1>6. \A i \in DOMAIN new : RowShape(new[i])
  <2> HIDE DEF new
  <2> QED
      BY <1>4 DEF IsRows
<1> QED
    BY <1>2, <1>5, <1>6 DEF IsRows

\* "new" is "rows" with row i replaced.
SetAt(new, rows, i, row) ==
    /\ IsFcn(new) /\ DOMAIN new = DOMAIN rows
    /\ \A j \in DOMAIN rows : new[j] = IF j = i THEN row ELSE rows[j]

\* A step that replaces row i of table k and nothing else.
Sets(k, i, row) ==
    /\ DOMAIN db' = Kinds /\ SetAt(db'[k], db[k], i, row)
    /\ \A j \in Kinds \ {k} : db'[j] = db[j]

LEMMA ExceptSets ==
    ASSUME DbOK, NEW k \in Kinds, NEW i, NEW row, db' = [db EXCEPT ![k] = [@ EXCEPT ![i] = row]]
    PROVE  Sets(k, i, row)
<1>1. SetAt([db[k] EXCEPT ![i] = row], db[k], i, row)
    BY DEF SetAt, IsFcn
<1> QED
    BY <1>1 DEF Sets, DbOK

LEMMA SetRows ==
    ASSUME NEW new, NEW rows, NEW i, NEW row, IsRows(rows), SetAt(new, rows, i, row),
           i \in DOMAIN rows => RowShape(row)
    PROVE  /\ IsRows(new) /\ Len(new) = Len(rows)
           /\ \A j \in 1 .. Len(rows) : new[j] = IF j = i THEN row ELSE rows[j]
<1>1. Len(rows) \in Nat /\ DOMAIN rows = 1 .. Len(rows)
    BY RowsAreSeq
<1>2. /\ DOMAIN new = 1 .. Len(rows)
      /\ \A j \in 1 .. Len(rows) : new[j] = IF j = i THEN row ELSE rows[j]
      /\ new = [j \in 1 .. Len(rows) |-> new[j]]
    BY <1>1 DEF SetAt, IsFcn
<1>3. new \in Seq({new[j] : j \in DOMAIN new}) /\ Len(new) = Len(rows)
  <2> DEFINE S == {new[j] : j \in DOMAIN new}
  <2>1. \A j \in 1 .. Len(rows) : new[j] \in S
      BY <1>2
  <2> HIDE DEF S
  <2>2. new \in [1 .. Len(rows) -> S]
      BY <1>2, <2>1
  <2>3. new \in Seq(S) /\ Len(new) = Len(rows)
      BY <1>1, <2>2
  <2> QED
      BY <2>3 DEF S
<1>4. \A j \in DOMAIN new : RowShape(new[j])
    BY <1>1, <1>2 DEF IsRows
<1> QED
    BY <1>2, <1>3, <1>4 DEF IsRows

\* A row is added to one table.
LEMMA AppendGrows ==
    ASSUME DbOK, NEW k \in Kinds, NEW row, RowShape(row), row.version = 1,
           k = "emergency_operation" => row.status = "applied",
           db' = [db EXCEPT ![k] = Append(@, row)]
    PROVE  /\ Grows /\ VersionsKept
           /\ Len(db'[k]) = Len(db[k]) + 1 /\ db'[k][Len(db[k]) + 1] = row
           /\ \A j \in Kinds : \A id \in Ids(j) : db'[j][id] = Row(j, id)
           /\ \A j \in Kinds \ {k} : db'[j] = db[j]
<1>1. DOMAIN db' = Kinds /\ db'[k] = Append(db[k], row) /\ \A j \in Kinds \ {k} : db'[j] = db[j]
    BY DEF DbOK
<1>2. /\ IsRows(db'[k]) /\ Len(db'[k]) = Len(db[k]) + 1 /\ db'[k][Len(db[k]) + 1] = row
      /\ \A i \in 1 .. Len(db[k]) : db'[k][i] = db[k][i]
    BY <1>1, AppendRows DEF DbOK
<1>3. \A j \in Kinds : IsRows(db'[j])
    BY <1>1, <1>2 DEF DbOK
<1>4. \A j \in Kinds : Len(db[j]) \in Nat /\ DOMAIN db[j] = 1 .. Len(db[j])
    BY RowsAreSeq DEF DbOK
<1>5. \A j \in Kinds : \A id \in Ids(j) : db'[j][id] = Row(j, id)
    BY <1>1, <1>2 DEF Ids, Row
<1>6. \A j \in Kinds : Len(db[j]) <= Len(db'[j])
    BY <1>1, <1>2, <1>4
<1>7. \A j \in Kinds : \A id \in (1 .. Len(db'[j])) \ Ids(j) :
         j = k /\ id = Len(db[k]) + 1
    BY <1>1, <1>2, <1>4 DEF Ids
<1>8. DbOK'
  <2>1. ASSUME NEW i \in 1 .. Len(db'["emergency_operation"])
        PROVE  db'["emergency_operation"][i].status = "applied"
    <3>1. "emergency_operation" \in Kinds
        BY KindsKnown DEF AdminKinds
    <3>2. CASE i \in Ids("emergency_operation")
        BY <1>5, <3>1, <3>2 DEF DbOK
    <3>3. CASE i \notin Ids("emergency_operation")
        BY <1>2, <1>7, <3>1, <3>3
    <3> QED
        BY <3>2, <3>3
  <2> QED
      BY <1>1, <1>3, <2>1 DEF DbOK, Ids, Row
<1>9. Grows
    BY <1>5, <1>6, <1>8, KindsKnown DEF Grows, AdminKinds
<1>10. VersionsKept
    BY <1>2, <1>5, <1>7, KindsKnown DEF VersionsKept
<1> QED
    BY <1>1, <1>2, <1>5, <1>9, <1>10

\* A row of one table is replaced by one of the same tenant.
RowSet(k, i, row) ==
    /\ Grows
    /\ k \notin VersionedKinds => VersionsKept
    /\ \A j \in Kinds : Len(db'[j]) = Len(db[j])
    /\ \A j \in Kinds : \A id \in Ids(j) :
          db'[j][id] = IF j = k /\ id = i THEN row ELSE Row(j, id)

LEMMA SetGrows ==
    ASSUME DbOK, NEW k \in Kinds \ {"emergency_operation"}, NEW i, NEW row,
           i \in Ids(k) => /\ RowShape(row) /\ row.tenant = Row(k, i).tenant
                           /\ k \in ChangingKinds \/ row.f = Row(k, i).f,
           Sets(k, i, row)
    PROVE  RowSet(k, i, row)
<1>1. /\ DOMAIN db' = Kinds /\ SetAt(db'[k], db[k], i, row)
      /\ \A j \in Kinds \ {k} : db'[j] = db[j]
    BY DEF Sets
<1>2. \A j \in Kinds : IsRows(db[j]) /\ Len(db[j]) \in Nat /\ DOMAIN db[j] = 1 .. Len(db[j])
    BY RowsAreSeq DEF DbOK
<1>3. /\ IsRows(db'[k]) /\ Len(db'[k]) = Len(db[k])
      /\ \A j \in 1 .. Len(db[k]) : db'[k][j] = IF j = i THEN row ELSE db[k][j]
  <2>1. i \in DOMAIN db[k] => RowShape(row)
      BY <1>2 DEF Ids
  <2> QED
      BY <1>1, <1>2, <2>1, SetRows
<1>4. \A j \in Kinds : IsRows(db'[j]) /\ Len(db'[j]) = Len(db[j])
    BY <1>1, <1>2, <1>3
<1>5. \A j \in Kinds : \A id \in Ids(j) :
         db'[j][id] = IF j = k /\ id = i THEN row ELSE Row(j, id)
    BY <1>1, <1>3 DEF Ids, Row
<1>6. "emergency_operation" \in Kinds /\ VersionedKinds \subseteq Kinds
    BY KindsKnown DEF AdminKinds
<1>7. db'["emergency_operation"] = db["emergency_operation"]
    BY <1>1, <1>6
<1>8. DbOK'
    BY <1>1, <1>4, <1>7 DEF DbOK, Ids, Row
<1>9. Grows
    BY <1>2, <1>4, <1>5, <1>7, <1>8, <1>6 DEF Grows, Row
<1>10. ASSUME k \notin VersionedKinds PROVE VersionsKept
    BY <1>4, <1>5, <1>6, <1>10 DEF VersionsKept, Ids
<1> QED
    BY <1>4, <1>5, <1>9, <1>10 DEF RowSet

\* Nothing changes.
LEMMA SameGrows ==
    ASSUME DbOK, db' = db
    PROVE  Grows /\ VersionsKept
<1>1. \A k \in Kinds : Len(db[k]) \in Nat
    BY RowsAreSeq DEF DbOK
<1>2. DbOK'
    BY DEF DbOK, Ids, Row
<1>3. VersionsKept
    BY DEF VersionsKept, Ids, Row
<1> QED
    BY <1>1, <1>2, <1>3 DEF Grows, Row

\* The functions records are made of; a patch without fields changes none.
LEMMA MergedIsFcn ==
    ASSUME NEW f, NEW g
    PROVE  IsFcn(f ++ g) /\ (f = << >> /\ IsFcn(g) => f ++ g = g)
<1>1. IsFcn(f ++ g)
    BY DEF IsFcn, ++
<1>2. ASSUME f = << >>, IsFcn(g) PROVE f ++ g = g
  <2>1. DOMAIN f = {}
      BY <1>2
  <2>2. f ++ g = [x \in DOMAIN g |-> g[x]]
      BY <2>1 DEF ++
  <2> QED
      BY <1>2, <2>2 DEF IsFcn
<1> QED
    BY <1>1, <1>2

\* What Patched and Disabled make of a row.
LEMMA PatchedRow ==
    ASSUME NEW row, NEW patch, RowShape(row)
    PROVE  /\ RowShape(Patched(row, patch)) /\ Patched(row, patch).tenant = row.tenant
           /\ Patched(row, patch).version = row.version + 1
           /\ Patched(row, patch).f = patch.f ++ row.f
<1> DEFINE f == patch.f ++ row.f
<1>1. IsFcn(f)
    BY MergedIsFcn
<1>2. /\ DOMAIN Patched(row, patch) = DOMAIN row
      /\ Patched(row, patch).tenant = row.tenant
      /\ Patched(row, patch).version = row.version + 1
      /\ Patched(row, patch).f = f
  <2> HIDE DEF f
  <2>1. \A status, v :
           LET new == [row EXCEPT !.status = status, !.f = f, !.version = v]
           IN DOMAIN new = DOMAIN row /\ new.tenant = row.tenant /\ new.version = v /\ new.f = f
      BY DEF RowShape
  <2> QED
      BY <2>1 DEF Patched, RowShape, f
<1> HIDE DEF f
<1>3. row.tenant \in Nat /\ row.version + 1 \in Nat \ {0}
    BY DEF RowShape
<1> QED
    BY <1>1, <1>2, <1>3 DEF RowShape, f

LEMMA DisabledRow ==
    ASSUME NEW row, RowShape(row)
    PROVE  /\ RowShape(Disabled(row)) /\ Disabled(row).tenant = row.tenant
           /\ Disabled(row).f = row.f
BY DEF RowShape, Disabled

\* NewRow makes a fresh row.
LEMMA NewRowFresh ==
    ASSUME NEW a \in Admins, NEW f, NEW status, IsFcn(f)
    PROVE  FreshRow(a, NewRow(TenantOf[a], f, status))
BY AdminAssumption DEF FreshRow, RowShape, NewRow

-----------------------------------------------------------------------------
(* What a request in flight is ready to do                                 *)

\* It names a row of its admin's tenant.
HasRow(a, x) ==
    {"kind", "id"} \subseteq DOMAIN x /\ x.kind \in Kinds /\ OwnRow(a, x.kind, x.id)

\* It has not replaced a version that the audit log must account for.
Unversioned(x) == x.wrote = << >> \/ x.wrote[1] \notin VersionedKinds

\* An emergency operation: its record, already marked as applied.
EmergencyReady(a, x) ==
    "row" \in DOMAIN x /\ FreshRow(a, x.row) /\ x.row.status = "applied"

\* A create: the row; only an export job goes on building something.
InsertReady(a, x) ==
    /\ {"kind", "row", "then"} \subseteq DOMAIN x
    /\ x.kind \in Kinds \ {"emergency_operation"}
    /\ FreshRow(a, x.row)
    /\ x.then = "finish" \/ (x.then = "build" /\ x.kind = "export_job")
    /\ x.wrote = << >>

\* An update: the row it compares and sets, and what an emergency does after it.
WriteReady(a, x) ==
    /\ HasRow(a, x) /\ {"expected", "patch", "then"} \subseteq DOMAIN x
    /\ x.kind # "emergency_operation"
    /\ x.kind \notin ChangingKinds => x.patch.f = << >>
    /\ x.wrote = <<x.kind, x.id, x.expected>>
    /\ x.route = "rotate_secret_ref" => x.kind = "secret_ref"
    /\ \/ x.then = "finish"
       \/ x.then = "emergency" /\ EmergencyReady(a, x)
       \/ x.then = "drain" /\ EmergencyReady(a, x) /\ x.kind = "provider_endpoint"

\* The steps of Codex OAuth sessions and of export jobs.
SessionPcs == {"credential", "session", "connect", "revoke", "disable", "disconnect"}
JobPcs == {"build", "manifest"}
SessionReady(a, x) ==
    /\ "kind" \in DOMAIN x /\ x.kind = "codex_session" /\ x.wrote = << >>
    /\ x.pc = "credential" => "row" \in DOMAIN x /\ FreshRow(a, x.row)
    /\ x.pc \notin {"credential", "session"} => HasRow(a, x)

Ready(a, x) ==
    /\ x.pc \in {"insert", "write", "drain", "emergency", "store_value", "finish"}
                  \cup SessionPcs \cup JobPcs
    /\ x.pc \notin {"insert", "write"} /\ x.wrote # << >> => "after" \in DOMAIN x
    /\ x.pc = "insert" => InsertReady(a, x)
    /\ x.pc = "write" => WriteReady(a, x)
    /\ x.pc \in {"drain", "emergency"} => EmergencyReady(a, x)
    /\ x.pc = "drain" => Unversioned(x)
    /\ x.pc \in SessionPcs => SessionReady(a, x)
    /\ x.pc \in JobPcs => HasRow(a, x) /\ x.kind = "export_job" /\ x.wrote = << >>
    /\ x.pc = "store_value" => HasRow(a, x) /\ x.kind = "secret_ref"
    /\ x.pc = "finish" => HasRow(a, x)

StoreInv ==
    /\ DbOK
    /\ DOMAIN secrets \subseteq Ids("secret_ref")
    /\ \A a \in Admins : op[a] = NoOp \/ Ready(a, op[a])

\* A row a request names stays there, and it stays ready.
LEMMA ReadyStays ==
    ASSUME Grows, DbOK, NEW a \in Admins, op[a] # NoOp, Ready(a, op[a]), op'[a] = op[a]
    PROVE  Ready(a, op[a])'
<1>1. \A k \in Kinds : \A id : OwnRow(a, k, id) => OwnRow(a, k, id)'
  <2>1. \A k \in Kinds : Len(db[k]) \in Nat /\ Len(db'[k]) \in Nat
      BY RowsAreSeq DEF DbOK, Grows
  <2> QED
      BY <2>1 DEF Grows, OwnRow, Ids, Row
<1>2. HasRow(a, op[a]) => HasRow(a, op[a])'
    BY <1>1 DEF HasRow
<1>3. WriteReady(a, op[a]) => WriteReady(a, op[a])'
    BY <1>2 DEF WriteReady, EmergencyReady, FreshRow
<1>4. SessionReady(a, op[a]) => SessionReady(a, op[a])'
    BY <1>2 DEF SessionReady, FreshRow
<1> QED
    BY <1>2, <1>3, <1>4 DEF Ready, InsertReady, EmergencyReady, FreshRow, Unversioned

\* Learning of a rival changes nothing a request is ready to do.
LEMMA RivalReady ==
    ASSUME NEW a \in Admins, NEW x, Whole(x), Ready(a, x)
    PROVE  Ready(a, [x EXCEPT !.alone = FALSE])
<1> DEFINE y == [x EXCEPT !.alone = FALSE]
<1>1. DOMAIN y = DOMAIN x /\ \A f \in DOMAIN x \ {"alone"} : y[f] = x[f]
    OBVIOUS
<1> HIDE DEF y
<1>2. y.pc = x.pc /\ y.wrote = x.wrote /\ y.route = x.route
    BY <1>1 DEF Whole, Carried
<1>3. HasRow(a, x) => HasRow(a, y)
    BY <1>1 DEF HasRow
<1>4. EmergencyReady(a, x) => EmergencyReady(a, y)
    BY <1>1 DEF EmergencyReady
<1>5. InsertReady(a, x) => InsertReady(a, y)
    BY <1>1, <1>2 DEF InsertReady
<1>6. WriteReady(a, x) => WriteReady(a, y)
  <2> SUFFICES ASSUME WriteReady(a, x) PROVE WriteReady(a, y)
      OBVIOUS
  <2>1. y.kind = x.kind /\ y.id = x.id /\ y.expected = x.expected /\ y.patch = x.patch
        /\ y.then = x.then
      BY <1>1 DEF WriteReady, HasRow
  <2> QED
      BY <1>1, <1>2, <1>3, <1>4, <2>1 DEF WriteReady
<1>7. SessionReady(a, x) => SessionReady(a, y)
    BY <1>1, <1>2, <1>3 DEF SessionReady
<1>8. HasRow(a, x) => y.kind = x.kind
    BY <1>1 DEF HasRow
<1> QED
    BY <1>1, <1>2, <1>3, <1>4, <1>5, <1>6, <1>7, <1>8 DEF Ready, Unversioned, y

\* A request is as ready afterwards when the step leaves the store alone.
LEMMA ReadyNow ==
    ASSUME UNCHANGED db, NEW a \in Admins, Ready(a, op'[a])
    PROVE  Ready(a, op[a])'
BY DEF Ready, HasRow, OwnRow, Ids, Row, EmergencyReady, InsertReady, WriteReady, SessionReady,
       Unversioned, FreshRow, SessionPcs, JobPcs
-----------------------------------------------------------------------------
(* What the steps do to the store                                          *)

\* A first step: the store is left alone, and the request is ready to go on.
Begins(a) ==
    /\ op[a] = NoOp
    /\ UNCHANGED <<db, secrets>>
    /\ op' = op \/ (/\ Ready(a, op[a])'
                    /\ op'[a].pc = "write" \/ op'[a].wrote = << >>)

\* A compare-and-set that succeeds: one version of one row is replaced.
Replaces(a) ==
    LET k == op[a].kind
        id == op[a].id
    IN /\ op[a].pc = "write" /\ op'[a] # NoOp
       /\ op[a].expected = Row(k, id).version
       /\ op'[a].after = Row(k, id).version + 1
       /\ db'[k][id].version = Row(k, id).version + 1
       /\ \A j \in VersionedKinds :
            /\ Len(db'[j]) = Len(db[j])
            /\ \A i \in Ids(j) : (j # k \/ i # id) => db'[j][i].version = Row(j, i).version

\* Another step of a request in flight.
MoveOK(a) ==
    /\ op[a] # NoOp
    /\ Grows
    /\ DOMAIN secrets' \subseteq 1 .. Len(db'["secret_ref"])
    /\ op'[a] # NoOp => Ready(a, op[a])' /\ op'[a].pc # "write"
    /\ \/ /\ VersionsKept
          /\ op'[a] = NoOp \/ op[a].pc # "write" \/ Unversioned(op[a])
       \/ Replaces(a)
    /\ op'[a] # NoOp /\ op[a].pc # "write" /\ op[a].wrote # << >>
         => op'[a].after = op[a].after
    /\ op'[a] = NoOp => op[a].pc = "write" \/ Unversioned(op[a])

StoreSteps(a) == UNCHANGED <<db, secrets, op>> \/ Begins(a) \/ MoveOK(a)

LEMMA ChangedFields ==
    ASSUME NEW changes, NEW x
    PROVE  /\ DOMAIN (changes ++ x) = DOMAIN changes \cup DOMAIN x
           /\ \A f \in DOMAIN changes : (changes ++ x)[f] = changes[f]
           /\ \A f \in DOMAIN x \ DOMAIN changes : (changes ++ x)[f] = x[f]
BY DEF ++

LEMMA OwnRowGrows ==
    ASSUME Grows, DbOK, NEW a, NEW k \in Kinds, NEW id, OwnRow(a, k, id)
    PROVE  OwnRow(a, k, id)'
<1>1. Len(db[k]) \in Nat /\ Len(db'[k]) \in Nat
    BY RowsAreSeq DEF DbOK, Grows
<1> QED
    BY <1>1 DEF Grows, OwnRow, Ids, Row

LEMMA SecretsGrow ==
    ASSUME Grows, DbOK, DOMAIN secrets \subseteq Ids("secret_ref"), secrets' = secrets
    PROVE  DOMAIN secrets' \subseteq 1 .. Len(db'["secret_ref"])
<1>1. "secret_ref" \in Kinds
    BY KindsKnown DEF AdminKinds
<1>2. Len(db["secret_ref"]) \in Nat /\ Len(db'["secret_ref"]) \in Nat
    BY <1>1, RowsAreSeq DEF DbOK, Grows
<1> QED
    BY <1>1, <1>2 DEF Grows, Ids

\* A request whose handler has only the end before it.
LEMMA FinishReady ==
    ASSUME NEW a \in Admins, op'[a].pc = "finish", HasRow(a, op[a])',
           "after" \in DOMAIN op'[a] \/ op'[a].wrote = << >>
    PROVE  Ready(a, op[a])'
BY DEF Ready, SessionPcs, JobPcs

\* The row of a create is inserted.
LEMMA InsertRowStores ==
    ASSUME StoreInv, OpShape, NEW a \in Admins, NEW k, InsertRow(a, k)
    PROVE  MoveOK(a)
<1> DEFINE changes == [id |-> Len(db[k]) + 1, after |-> 1, pc |-> op[a].then]
           y == changes ++ op[a]
<1>1. op[a] # NoOp /\ op[a].pc = "insert" /\ op[a].kind = k
    BY DEF InsertRow, NoOp
<1>2. DbOK /\ DOMAIN secrets \subseteq Ids("secret_ref") /\ InsertReady(a, op[a])
    BY <1>1 DEF StoreInv, Ready
<1>3. /\ k \in Kinds \ {"emergency_operation"} /\ FreshRow(a, op[a].row) /\ op[a].wrote = << >>
      /\ op[a].then = "finish" \/ (op[a].then = "build" /\ k = "export_job")
      /\ "kind" \in DOMAIN op[a]
    BY <1>1, <1>2 DEF InsertReady
<1>4. /\ Grows /\ VersionsKept
      /\ Len(db'[k]) = Len(db[k]) + 1 /\ db'[k][Len(db[k]) + 1] = op[a].row
    BY <1>2, <1>3, AppendGrows DEF InsertRow, FreshRow
<1>5. Len(db[k]) \in Nat
    BY <1>2, <1>3, RowsAreSeq DEF DbOK
<1>6. op'[a] = y
    BY DEF InsertRow, OpShape
<1>7. Whole(op[a])
    BY <1>1 DEF OpShape
<1>8. /\ y.id = Len(db[k]) + 1 /\ y.pc = op[a].then /\ y.kind = k /\ y.wrote = << >>
      /\ {"kind", "id"} \subseteq DOMAIN y
    BY <1>1, <1>3, <1>7 DEF Whole, ++
<1> HIDE DEF y
<1>9. HasRow(a, op[a])'
    BY <1>3, <1>4, <1>5, <1>6, <1>8 DEF HasRow, OwnRow, Ids, Row, FreshRow
<1>10. Ready(a, op[a])' /\ op'[a].pc # "write"
    BY <1>3, <1>6, <1>8, <1>9 DEF Ready, SessionPcs, JobPcs
<1>11. DOMAIN secrets' \subseteq 1 .. Len(db'["secret_ref"])
    BY <1>2, <1>4, SecretsGrow DEF InsertRow
<1>12. op'[a] # NoOp
    BY <1>3, <1>6, <1>8 DEF NoOp
<1> QED
    BY <1>1, <1>3, <1>4, <1>10, <1>11, <1>12 DEF MoveOK

\* A row is replaced by a patched one.
LEMMA PatchGrows ==
    ASSUME DbOK, NEW k \in Kinds \ {"emergency_operation"}, NEW id, NEW patch,
           k \notin ChangingKinds => patch.f = << >>,
           Sets(k, id, Patched(Row(k, id), patch))
    PROVE  /\ RowSet(k, id, Patched(Row(k, id), patch))
           /\ id \in Ids(k) => Patched(Row(k, id), patch).version = Row(k, id).version + 1
<1> PICK row : row = Patched(Row(k, id), patch)
    OBVIOUS
<1>1. Sets(k, id, row)
    OBVIOUS
<1>2. ASSUME id \in Ids(k)
      PROVE  /\ RowShape(row) /\ row.tenant = Row(k, id).tenant
             /\ row.version = Row(k, id).version + 1
             /\ k \in ChangingKinds \/ row.f = Row(k, id).f
  <2>1. RowShape(Row(k, id))
      BY <1>2, RowsAreSeq DEF DbOK, IsRows, Ids, Row
  <2>2. /\ RowShape(row) /\ row.tenant = Row(k, id).tenant
        /\ row.version = Row(k, id).version + 1
        /\ row.f = patch.f ++ Row(k, id).f
      BY <2>1, PatchedRow
  <2>3. IsFcn(Row(k, id).f)
      BY <2>1 DEF RowShape
  <2> QED
      BY <2>2, <2>3, MergedIsFcn
<1>3. RowSet(k, id, row)
  <2>1. id \in Ids(k) => /\ RowShape(row) /\ row.tenant = Row(k, id).tenant
                         /\ k \in ChangingKinds \/ row.f = Row(k, id).f
      BY <1>2
  <2> QED
      BY <1>1, <2>1, SetGrows
<1> QED
    BY <1>2, <1>3

LEMMA PatchSets ==
    ASSUME DbOK, NEW k \in Kinds, NEW id, NEW patch,
           db' = [db EXCEPT ![k][id] = Patched(@, patch)]
    PROVE  Sets(k, id, Patched(Row(k, id), patch))
<1>1. db' = [db EXCEPT ![k] = [@ EXCEPT ![id] = Patched(Row(k, id), patch)]]
    BY DEF Row
<1> QED
    BY <1>1, ExceptSets

\* A step that sets one row leaves the versions of all others alone.
LEMMA OtherVersions ==
    ASSUME DbOK, NEW k \in Kinds, NEW id \in Ids(k), NEW row, RowSet(k, id, row)
    PROVE  /\ db'[k][id] = row
           /\ \A j \in VersionedKinds :
                /\ Len(db'[j]) = Len(db[j])
                /\ \A i \in Ids(j) : (j # k \/ i # id) => db'[j][i].version = Row(j, i).version
BY KindsKnown DEF RowSet

\* The row of an update is compared and set.
LEMMA CompareAndSetStores ==
    ASSUME StoreInv, OpShape, NEW a \in Admins, NEW k, CompareAndSet(a, k)
    PROVE  MoveOK(a)
<1> DEFINE id == op[a].id
           changes == [after |-> Row(k, id).version + 1, pc |-> op[a].then]
           y == changes ++ op[a]
<1>1. op[a] # NoOp /\ op[a].pc = "write" /\ op[a].kind = k
    BY DEF CompareAndSet, NoOp
<1>2. DbOK /\ DOMAIN secrets \subseteq Ids("secret_ref") /\ WriteReady(a, op[a])
    BY <1>1 DEF StoreInv, Ready
<1>3. /\ k \in Kinds \ {"emergency_operation"} /\ OwnRow(a, k, id) /\ id \in Ids(k)
      /\ k \notin ChangingKinds => op[a].patch.f = << >>
      /\ {"kind", "id"} \subseteq DOMAIN op[a]
    BY <1>1, <1>2 DEF WriteReady, HasRow, OwnRow
<1>4. CASE Row(k, id).version # op[a].expected
  <2>1. op'[a] = NoOp /\ UNCHANGED <<db, secrets>>
      BY <1>4 DEF CompareAndSet, OpShape
  <2>2. Grows /\ VersionsKept
      BY <1>2, <2>1, SameGrows
  <2> QED
      BY <1>1, <1>2, <2>1, <2>2, SecretsGrow DEF MoveOK
<1>5. CASE Row(k, id).version = op[a].expected
  <2>1. op'[a] = y /\ secrets' = secrets /\ db' = [db EXCEPT ![k][id] = Patched(@, op[a].patch)]
      BY <1>5 DEF CompareAndSet, OpShape
  <2>2. Sets(k, id, Patched(Row(k, id), op[a].patch))
      BY <1>2, <1>3, <2>1, PatchSets
  <2>3. /\ RowSet(k, id, Patched(Row(k, id), op[a].patch))
        /\ Patched(Row(k, id), op[a].patch).version = Row(k, id).version + 1
      BY <1>2, <1>3, <2>2, PatchGrows
  <2>4. Grows
      BY <2>3 DEF RowSet
  <2>5. Whole(op[a])
      BY <1>1 DEF OpShape
  <2>6. /\ y.after = Row(k, id).version + 1 /\ y.pc = op[a].then /\ y.kind = k /\ y.id = id
        /\ y.wrote = op[a].wrote /\ {"kind", "id", "after"} \subseteq DOMAIN y
      BY <1>1, <1>3, <2>5 DEF Whole, ++
  <2>7. EmergencyReady(a, op[a]) => EmergencyReady(a, y)
      BY DEF EmergencyReady, ++
  <2> HIDE DEF y
  <2>8. id \in 1 .. Len(db'[k]) /\ db'[k][id].tenant = TenantOf[a]
      BY <1>2, <1>3, <2>4, OwnRowGrows DEF OwnRow, Ids, Row
  <2>9. HasRow(a, op[a])'
      BY <1>3, <2>1, <2>6, <2>8 DEF HasRow, OwnRow, Ids, Row
  <2>10. op[a].then = "drain" => Unversioned(y)
      BY <1>1, <1>2, <2>6 DEF WriteReady, Unversioned, VersionedKinds
  <2>11. Ready(a, op[a])' /\ op'[a].pc # "write" /\ op'[a] # NoOp
    <3>1. CASE op[a].then = "finish"
        BY <2>1, <2>6, <2>9, <3>1, FinishReady DEF NoOp
    <3>2. CASE op[a].then = "emergency" /\ EmergencyReady(a, op[a])
        BY <2>1, <2>6, <2>7, <3>2
           DEF Ready, SessionPcs, JobPcs, EmergencyReady, FreshRow, NoOp
    <3>3. CASE op[a].then = "drain" /\ EmergencyReady(a, op[a])
        BY <2>1, <2>6, <2>7, <2>10, <3>3
           DEF Ready, SessionPcs, JobPcs, EmergencyReady, FreshRow, Unversioned, NoOp
    <3> QED
        BY <1>2, <3>1, <3>2, <3>3 DEF WriteReady
  <2>12. Replaces(a)
      BY <1>1, <1>2, <1>3, <1>5, <2>1, <2>3, <2>6, <2>11, OtherVersions DEF Replaces
  <2> QED
      BY <1>1, <1>2, <2>1, <2>4, <2>11, <2>12, SecretsGrow DEF MoveOK
<1> QED
    BY <1>4, <1>5

\* The two updates that do not compare the version again.
LEMMA WriteUncheckedStores ==
    ASSUME StoreInv, OpShape, NEW a \in Admins, NEW k \in {"otel_config", "sink"},
           WriteUnchecked(a, k)
    PROVE  MoveOK(a)
<1> DEFINE id == op[a].id
           changes == [after |-> Row(k, id).version + 1, pc |-> "finish"]
           y == changes ++ op[a]
<1>1. op[a] # NoOp /\ op[a].pc = "write" /\ op[a].kind = k
    BY DEF WriteUnchecked, NoOp
<1>2. DbOK /\ DOMAIN secrets \subseteq Ids("secret_ref") /\ WriteReady(a, op[a])
    BY <1>1 DEF StoreInv, Ready
<1>3. /\ k \in Kinds \ {"emergency_operation"} /\ OwnRow(a, k, id)
      /\ k \in ChangingKinds /\ k \notin VersionedKinds
      /\ {"kind", "id"} \subseteq DOMAIN op[a]
    BY <1>1, <1>2 DEF WriteReady, HasRow, ChangingKinds, VersionedKinds
<1>4. op'[a] = y /\ secrets' = secrets /\ db' = [db EXCEPT ![k][id] = Patched(@, op[a].patch)]
    BY DEF WriteUnchecked, OpShape
<1>5. Grows /\ VersionsKept
    BY <1>2, <1>3, <1>4, PatchSets, PatchGrows DEF RowSet
<1>6. Whole(op[a])
    BY <1>1 DEF OpShape
<1>7. /\ y.pc = "finish" /\ y.kind = k /\ y.id = id
      /\ y.wrote = op[a].wrote /\ {"kind", "id", "after"} \subseteq DOMAIN y
    BY <1>1, <1>3, <1>6 DEF Whole, ++
<1> HIDE DEF y
<1>8. HasRow(a, op[a])'
    BY <1>2, <1>3, <1>4, <1>5, <1>7, OwnRowGrows DEF HasRow, OwnRow, Ids, Row
<1>9. Ready(a, op[a])' /\ op'[a].pc # "write" /\ op'[a] # NoOp
    BY <1>4, <1>7, <1>8, FinishReady DEF NoOp
<1>10. Unversioned(op[a])
    BY <1>1, <1>2, <1>3 DEF WriteReady, Unversioned
<1> QED
    BY <1>1, <1>2, <1>4, <1>5, <1>9, <1>10, SecretsGrow DEF MoveOK
-----------------------------------------------------------------------------
(* The steps that are not just an insert or a compare-and-set              *)

\* create_secret_ref of the store.
LEMMA StoreSecretRefStores ==
    ASSUME StoreInv, OpShape, NEW a \in Admins, StoreSecretRef(a)
    PROVE  MoveOK(a)
<1> DEFINE k == "secret_ref"
           id == Len(db[k]) + 1
           memory == op[a].row.f.backend = "memory"
           changes == [id |-> id, after |-> 1, value |-> op[a].row.f.fingerprint,
                       pc |-> IF memory THEN "store_value" ELSE "finish"]
           y == changes ++ op[a]
<1>1. op[a] # NoOp /\ op[a].pc = "insert" /\ op[a].kind = k
    BY DEF StoreSecretRef, NoOp
<1>2. DbOK /\ DOMAIN secrets \subseteq Ids(k) /\ InsertReady(a, op[a])
    BY <1>1 DEF StoreInv, Ready
<1>3. /\ k \in Kinds \ {"emergency_operation"} /\ FreshRow(a, op[a].row) /\ op[a].wrote = << >>
      /\ "kind" \in DOMAIN op[a]
    BY <1>1, <1>2 DEF InsertReady
<1>4. Grows /\ VersionsKept /\ Len(db'[k]) = id /\ db'[k][id] = op[a].row
    BY <1>2, <1>3, AppendGrows DEF StoreSecretRef, FreshRow
<1>5. Len(db[k]) \in Nat
    BY <1>2, <1>3, RowsAreSeq DEF DbOK
<1>6. op'[a] = y
    BY DEF StoreSecretRef, OpShape
<1>7. Whole(op[a])
    BY <1>1 DEF OpShape
<1>8. /\ y.id = id /\ y.pc \in {"store_value", "finish"} /\ y.kind = k /\ y.wrote = << >>
      /\ {"kind", "id"} \subseteq DOMAIN y
    BY <1>1, <1>3, <1>7 DEF Whole, ++
<1> HIDE DEF y
<1>9. HasRow(a, op[a])' /\ op'[a].kind = k
    BY <1>3, <1>4, <1>5, <1>6, <1>8 DEF HasRow, OwnRow, Ids, Row, FreshRow
<1>10. Ready(a, op[a])' /\ op'[a].pc # "write" /\ op'[a] # NoOp
    BY <1>6, <1>8, <1>9 DEF Ready, SessionPcs, JobPcs, NoOp
<1>11. DOMAIN secrets' \subseteq 1 .. Len(db'[k])
  <2>1. DOMAIN secrets' \subseteq DOMAIN secrets \cup {id}
      BY DEF StoreSecretRef, ++
  <2> QED
      BY <1>2, <1>4, <1>5, <2>1 DEF Ids
<1> QED
    BY <1>1, <1>3, <1>4, <1>10, <1>11 DEF MoveOK

\* rotate_secret_ref of the store.
LEMMA StoreRotatedSecretRefStores ==
    ASSUME StoreInv, OpShape, NEW a \in Admins, StoreRotatedSecretRef(a)
    PROVE  MoveOK(a)
<1> DEFINE k == "secret_ref"
           id == op[a].id
           file == Row(k, id).f.backend = "file"
           patch == [status |-> "rotating", f |-> [fingerprint |-> op[a].value]]
           changes == [after |-> Row(k, id).version + 1,
                       pc |-> IF file THEN "finish" ELSE "store_value"]
           y == changes ++ op[a]
<1>1. op[a] # NoOp /\ op[a].pc = "write" /\ op[a].route = "rotate_secret_ref"
    BY DEF StoreRotatedSecretRef, NoOp
<1>2. DbOK /\ DOMAIN secrets \subseteq Ids(k) /\ WriteReady(a, op[a])
    BY <1>1 DEF StoreInv, Ready
<1>3. /\ op[a].kind = k /\ k \in Kinds \ {"emergency_operation"} /\ OwnRow(a, k, id)
      /\ id \in Ids(k) /\ k \in ChangingKinds /\ {"kind", "id"} \subseteq DOMAIN op[a]
    BY <1>1, <1>2 DEF WriteReady, HasRow, OwnRow, ChangingKinds
<1>4. CASE Row(k, id).version # op[a].expected \/ Row(k, id).status = "deleted"
  <2>1. op'[a] = NoOp /\ UNCHANGED <<db, secrets>>
      BY <1>4 DEF StoreRotatedSecretRef, OpShape
  <2>2. Grows /\ VersionsKept
      BY <1>2, <2>1, SameGrows
  <2> QED
      BY <1>1, <1>2, <2>1, <2>2, SecretsGrow DEF MoveOK
<1>5. CASE ~ (Row(k, id).version # op[a].expected \/ Row(k, id).status = "deleted")
  <2>1. op'[a] = y /\ db' = [db EXCEPT ![k][id] = Patched(@, patch)]
      BY <1>5 DEF StoreRotatedSecretRef, OpShape
  <2>2. DOMAIN secrets' = DOMAIN secrets
      BY <1>5 DEF StoreRotatedSecretRef
  <2>3. /\ RowSet(k, id, Patched(Row(k, id), patch))
        /\ Patched(Row(k, id), patch).version = Row(k, id).version + 1
    <3> HIDE DEF patch
    <3> QED
        BY <1>2, <1>3, <2>1, PatchSets, PatchGrows
  <2>4. Grows /\ Len(db'[k]) = Len(db[k])
      BY <1>3, <2>3 DEF RowSet
  <2>5. Whole(op[a])
      BY <1>1 DEF OpShape
  <2>6. /\ y.after = Row(k, id).version + 1 /\ y.pc \in {"finish", "store_value"}
        /\ y.kind = k /\ y.id = id /\ {"kind", "id", "after"} \subseteq DOMAIN y
      BY <1>1, <1>3, <2>5 DEF Whole, ++
  <2> HIDE DEF y, patch
  <2>7. id \in 1 .. Len(db'[k]) /\ db'[k][id].tenant = TenantOf[a]
      BY <1>2, <1>3, <2>4, OwnRowGrows DEF OwnRow, Ids, Row
  <2>8. HasRow(a, op[a])' /\ op'[a].kind = k
      BY <1>3, <2>1, <2>6, <2>7 DEF HasRow, OwnRow, Ids, Row
  <2>9. Ready(a, op[a])' /\ op'[a].pc # "write" /\ op'[a] # NoOp
      BY <2>1, <2>6, <2>8 DEF Ready, SessionPcs, JobPcs, NoOp
  <2>10. Replaces(a)
      BY <1>1, <1>2, <1>3, <1>5, <2>1, <2>3, <2>6, <2>9, OtherVersions DEF Replaces
  <2> QED
      BY <1>1, <1>2, <2>2, <2>4, <2>9, <2>10 DEF MoveOK, Ids
<1> QED
    BY <1>4, <1>5

\* Only the step the request is at changes.
Repoints(a, pc) ==
    /\ op'[a] # NoOp /\ op'[a].pc = pc /\ DOMAIN op'[a] = DOMAIN op[a]
    /\ \A f \in DOMAIN op[a] \ {"pc"} : op'[a][f] = op[a][f]
    /\ op'[a].wrote = op[a].wrote

\* write_lock(&self.secret_values).insert(..)
LEMMA StoreSecretValueStores ==
    ASSUME StoreInv, OpShape, NEW a \in Admins, StoreSecretValue(a)
    PROVE  MoveOK(a)
<1>1. op[a] # NoOp /\ op[a].pc = "store_value" /\ op' = [op EXCEPT ![a].pc = "finish"]
    BY DEF StoreSecretValue, NoOp
<1>2. /\ DbOK /\ DOMAIN secrets \subseteq Ids("secret_ref")
      /\ HasRow(a, op[a]) /\ op[a].kind = "secret_ref" /\ Ready(a, op[a])
    BY <1>1 DEF StoreInv, Ready
<1>3. Grows /\ VersionsKept /\ db' = db
    BY <1>2, SameGrows DEF StoreSecretValue
<1>4. Repoints(a, "finish")
  <2>1. Whole(op[a]) /\ op'[a] = [op[a] EXCEPT !.pc = "finish"]
      BY <1>1 DEF OpShape
  <2> QED
      BY <2>1 DEF Repoints, Whole, NoOp
<1>5. HasRow(a, op[a])'
    BY <1>2, <1>3, <1>4 DEF HasRow, OwnRow, Ids, Row, Repoints
<1>6. op[a].wrote # << >> => "after" \in DOMAIN op[a]
    BY <1>1, <1>2 DEF Ready
<1>7. Ready(a, op[a])'
    BY <1>4, <1>5, <1>6, FinishReady DEF Repoints
<1>8. op[a].wrote # << >> => op'[a].after = op[a].after
    BY <1>4, <1>6 DEF Repoints
<1>9. DOMAIN secrets' \subseteq 1 .. Len(db'["secret_ref"])
  <2>1. DOMAIN secrets' \subseteq DOMAIN secrets \cup {op[a].id}
      BY DEF StoreSecretValue, ++
  <2> QED
      BY <1>2, <1>3, <2>1 DEF Ids, HasRow, OwnRow
<1> QED
    BY <1>1, <1>3, <1>4, <1>7, <1>8, <1>9 DEF MoveOK, Repoints

\* Each table is as it was, or has one row replaced by one of the same tenant.
TableKept(k) ==
    \/ db'[k] = db[k]
    \/ /\ k # "emergency_operation"
       /\ \E i, row : /\ SetAt(db'[k], db[k], i, row)
                      /\ i \in Ids(k) => /\ RowShape(row) /\ row.tenant = Row(k, i).tenant
                                         /\ k \in ChangingKinds \/ row.f = Row(k, i).f

LEMMA TablesGrow ==
    ASSUME DbOK, DOMAIN db' = Kinds, \A k \in Kinds : TableKept(k)
    PROVE  Grows /\ ((\A k \in VersionedKinds : db'[k] = db[k]) => VersionsKept)
<1>1. \A k \in Kinds : IsRows(db[k]) /\ Len(db[k]) \in Nat /\ DOMAIN db[k] = 1 .. Len(db[k])
    BY RowsAreSeq DEF DbOK
<1>2. ASSUME NEW k \in Kinds
      PROVE  /\ IsRows(db'[k]) /\ Len(db'[k]) = Len(db[k])
             /\ \A id \in Ids(k) :
                  /\ db'[k][id].tenant = Row(k, id).tenant
                  /\ k \notin ChangingKinds => db'[k][id].f = Row(k, id).f
             /\ k = "emergency_operation" => db'[k] = db[k]
  <2>1. CASE db'[k] = db[k]
      BY <1>1, <2>1 DEF Row
  <2>2. CASE db'[k] # db[k]
    <3>1. PICK i, row : /\ SetAt(db'[k], db[k], i, row)
                        /\ i \in Ids(k) => /\ RowShape(row) /\ row.tenant = Row(k, i).tenant
                                           /\ k \in ChangingKinds \/ row.f = Row(k, i).f
        BY <1>2, <2>2 DEF TableKept
    <3>2. i \in DOMAIN db[k] => RowShape(row)
        BY <1>1, <3>1 DEF Ids
    <3>3. /\ IsRows(db'[k]) /\ Len(db'[k]) = Len(db[k])
          /\ \A j \in 1 .. Len(db[k]) : db'[k][j] = IF j = i THEN row ELSE db[k][j]
        BY <1>1, <3>1, <3>2, SetRows
    <3>4. k # "emergency_operation"
        BY <1>2, <2>2 DEF TableKept
    <3> QED
        BY <3>1, <3>3, <3>4 DEF Ids, Row
  <2> QED
      BY <2>1, <2>2
<1>3. "emergency_operation" \in Kinds /\ VersionedKinds \subseteq Kinds
    BY KindsKnown DEF AdminKinds
<1>4. db'["emergency_operation"] = db["emergency_operation"]
    BY <1>2, <1>3
<1>5. DbOK'
    BY <1>2, <1>4 DEF DbOK, Ids, Row
<1>6. Grows
    BY <1>1, <1>2, <1>4, <1>5 DEF Grows, Row
<1>7. ASSUME \A k \in VersionedKinds : db'[k] = db[k] PROVE VersionsKept
    BY <1>7 DEF VersionsKept, Ids, Row
<1> QED
    BY <1>6, <1>7

\* update_codex_oauth_connection_status writes two tables under one lock.
LEMMA UpdateCodexStatusStores ==
    ASSUME StoreInv, OpShape, NEW a \in Admins, UpdateCodexOauthConnectionStatus(a)
    PROVE  MoveOK(a)
<1> DEFINE k == "codex_connection"
           id == op[a].id
           credential == Row(k, id).f.credential
           patch == [status |-> op[a].patch.status,
                     f |-> [credential |-> IF op[a].patch.status = "unauthenticated" THEN None
                                           ELSE credential]]
           old == db["upstream_credential"]
           disabled == IF op[a].patch.status = "disabled" /\ credential # None
                       THEN CredentialDisabled(old, credential) ELSE old
           changes == [after |-> Row(k, id).version + 1, pc |-> "finish"]
           y == changes ++ op[a]
<1>1. op[a] # NoOp /\ op[a].pc = "write" /\ op[a].kind = k
    BY DEF UpdateCodexOauthConnectionStatus, NoOp
<1>2. DbOK /\ DOMAIN secrets \subseteq Ids("secret_ref") /\ WriteReady(a, op[a])
    BY <1>1 DEF StoreInv, Ready
<1>3. /\ OwnRow(a, k, id) /\ id \in Ids(k) /\ {"kind", "id"} \subseteq DOMAIN op[a]
      /\ k \in ChangingKinds /\ k \notin VersionedKinds /\ k \in Kinds
      /\ "upstream_credential" \notin VersionedKinds /\ "upstream_credential" \in Kinds
    BY <1>1, <1>2, KindsKnown
       DEF WriteReady, HasRow, OwnRow, ChangingKinds, VersionedKinds, AdminKinds
<1>4. Unversioned(op[a])
    BY <1>1, <1>2, <1>3 DEF WriteReady, Unversioned
<1>5. CASE Row(k, id).version # op[a].expected
  <2>1. op'[a] = NoOp /\ UNCHANGED <<db, secrets>>
      BY <1>5 DEF UpdateCodexOauthConnectionStatus, OpShape
  <2>2. Grows /\ VersionsKept
      BY <1>2, <2>1, SameGrows
  <2> QED
      BY <1>1, <1>2, <2>1, <2>2, SecretsGrow DEF MoveOK
<1>6. CASE Row(k, id).version = op[a].expected
  <2>1. /\ op'[a] = y /\ secrets' = secrets
        /\ db' = [db EXCEPT
                     ![k] = [@ EXCEPT ![id] = Patched(db[k][id], patch)],
                     !["upstream_credential"] =
                        IF op[a].patch.status = "disabled" /\ credential # None
                        THEN CredentialDisabled(@, credential) ELSE @]
      BY <1>6 DEF UpdateCodexOauthConnectionStatus, OpShape
  <2>2. \A j \in Kinds : \A i \in Ids(j) : RowShape(Row(j, i))
      BY <1>2, RowsAreSeq DEF DbOK, IsRows, Ids, Row
  <2>3. TableKept(k)
    <3> DEFINE row == Patched(Row(k, id), patch)
    <3>1. RowShape(row) /\ row.tenant = Row(k, id).tenant
      <4> HIDE DEF patch
      <4> QED
          BY <1>3, <2>2, PatchedRow
    <3>2. db'[k] = [db[k] EXCEPT ![id] = row]
        BY <1>2, <1>3, <2>1 DEF DbOK, Row
    <3> HIDE DEF row
    <3>3. SetAt(db'[k], db[k], id, row)
        BY <3>2 DEF SetAt, IsFcn
    <3> QED
        BY <1>3, <3>1, <3>3 DEF TableKept
  <2>4. TableKept("upstream_credential")
    <3> DEFINE j == "upstream_credential"
               row == Disabled(Row(j, credential))
    <3>1. db'[j] = disabled
      <4>1. "upstream_credential" \in DOMAIN db
          BY <1>2, <1>3 DEF DbOK
      <4>2. CASE op[a].patch.status = "disabled" /\ credential # None
          BY <1>6, <4>1, <4>2 DEF UpdateCodexOauthConnectionStatus
      <4>3. CASE ~(op[a].patch.status = "disabled" /\ credential # None)
          BY <1>6, <4>1, <4>3 DEF UpdateCodexOauthConnectionStatus
      <4> QED
          BY <4>2, <4>3
    <3>2. CASE op[a].patch.status = "disabled" /\ credential # None
      <4>1. credential \in Ids(j) =>
              /\ RowShape(row) /\ row.tenant = Row(j, credential).tenant
              /\ row.f = Row(j, credential).f
          BY <1>3, <2>2, DisabledRow
      <4>2. db'[j] = [db[j] EXCEPT ![credential] = row]
          BY <3>1, <3>2 DEF Row, CredentialDisabled
      <4> HIDE DEF row, credential
      <4>3. SetAt(db'[j], db[j], credential, row)
          BY <4>2 DEF SetAt, IsFcn
      <4> QED
          BY <4>1, <4>3 DEF TableKept
    <3>3. CASE ~ (op[a].patch.status = "disabled" /\ credential # None)
      <4>1. db'[j] = db[j]
          BY <3>1, <3>3
      <4> QED
          BY <4>1 DEF TableKept
    <3> QED
        BY <3>2, <3>3
  <2>5. DOMAIN db' = Kinds /\ \A j \in Kinds \ {k, "upstream_credential"} : db'[j] = db[j]
      BY <1>2, <2>1 DEF DbOK
  <2>6. \A j \in Kinds : TableKept(j)
      BY <2>3, <2>4, <2>5 DEF TableKept
  <2>7. Grows /\ VersionsKept
      BY <1>2, <1>3, <2>5, <2>6, TablesGrow, KindsKnown
  <2>8. Whole(op[a])
      BY <1>1 DEF OpShape
  <2>9. /\ y.pc = "finish" /\ y.kind = k /\ y.id = id
        /\ {"kind", "id", "after"} \subseteq DOMAIN y
      BY <1>1, <1>3, <2>8 DEF Whole, ++
  <2> HIDE DEF y
  <2>10. HasRow(a, op[a])'
    <3>1. id \in 1 .. Len(db'[k]) /\ db'[k][id].tenant = TenantOf[a]
        BY <1>2, <1>3, <2>7, OwnRowGrows DEF OwnRow, Ids, Row
    <3>2. op'[a] = y
        BY <2>1
    <3> QED
        BY <1>3, <2>9, <3>1, <3>2 DEF HasRow, OwnRow, Ids, Row
  <2>11. Ready(a, op[a])' /\ op'[a].pc # "write" /\ op'[a] # NoOp
      BY <2>1, <2>9, <2>10, FinishReady DEF NoOp
  <2> QED
      BY <1>1, <1>2, <1>4, <2>1, <2>7, <2>11, SecretsGrow DEF MoveOK
<1> QED
    BY <1>5, <1>6

\* A row named by a request stays its own when only the request's step changes.
LEMMA RepointsHasRow ==
    ASSUME DbOK, Grows, NEW a \in Admins, HasRow(a, op[a]), NEW pc, Repoints(a, pc)
    PROVE  HasRow(a, op[a])' /\ op'[a].kind = op[a].kind
<1>1. /\ op'[a].kind = op[a].kind /\ op'[a].id = op[a].id
      /\ {"kind", "id"} \subseteq DOMAIN op'[a] /\ op[a].kind \in Kinds
    BY DEF Repoints, HasRow
<1>2. /\ op[a].id \in 1 .. Len(db'[op[a].kind])
      /\ db'[op[a].kind][op[a].id].tenant = TenantOf[a]
    BY OwnRowGrows DEF HasRow, OwnRow, Ids, Row
<1> QED
    BY <1>1, <1>2 DEF HasRow, OwnRow, Ids, Row

\* start_codex_oauth_session of the store, its three writes.
LEMMA SessionStartStores ==
    ASSUME StoreInv, OpShape, NEW a \in Admins,
           StoreSessionCredential(a) \/ StoreSession(a) \/ ConnectSession(a)
    PROVE  MoveOK(a)
<1>1. op[a] # NoOp /\ op[a].pc \in {"credential", "session", "connect"}
    BY DEF StoreSessionCredential, StoreSession, ConnectSession, NoOp
<1>2. /\ DbOK /\ DOMAIN secrets \subseteq Ids("secret_ref") /\ secrets' = secrets
      /\ SessionReady(a, op[a]) /\ Whole(op[a])
    BY <1>1 DEF StoreInv, Ready, SessionPcs, OpShape, StoreSessionCredential, StoreSession,
        ConnectSession
<1>3. op[a].wrote = << >> /\ "kind" \in DOMAIN op[a] /\ op[a].kind = "codex_session"
    BY <1>2 DEF SessionReady
<1>4. /\ {"upstream_credential", "codex_session", "codex_connection"} \subseteq Kinds
      /\ \A k \in {"upstream_credential", "codex_session", "codex_connection"} :
            k # "emergency_operation" /\ k \notin VersionedKinds
      /\ "codex_connection" \in ChangingKinds
    BY KindsKnown DEF AdminKinds, VersionedKinds, ChangingKinds
<1>5. CASE StoreSessionCredential(a)
  <2> DEFINE changes == [credential |-> Len(db["upstream_credential"]) + 1, pc |-> "session"]
             y == changes ++ op[a]
  <2>1. FreshRow(a, op[a].row)
      BY <1>2, <1>5 DEF SessionReady, StoreSessionCredential
  <2>2. Grows /\ VersionsKept
      BY <1>2, <1>4, <1>5, <2>1, AppendGrows DEF StoreSessionCredential, FreshRow
  <2>3. op'[a] = y
      BY <1>5 DEF StoreSessionCredential, OpShape
  <2>4. y.pc = "session" /\ y.kind = "codex_session" /\ y.wrote = << >> /\ "kind" \in DOMAIN y
      BY <1>2, <1>3 DEF Whole, ++
  <2> HIDE DEF y
  <2>5. Ready(a, op[a])' /\ op'[a].pc # "write" /\ op'[a] # NoOp
      BY <2>3, <2>4 DEF Ready, SessionReady, SessionPcs, JobPcs, NoOp
  <2> QED
      BY <1>1, <1>2, <1>3, <2>2, <2>5, SecretsGrow DEF MoveOK
<1>6. CASE StoreSession(a)
  <2> DEFINE fields == [connection |-> op[a].connection, credential |-> op[a].credential,
                        secret |-> op[a].row.f.secret, expires |-> op[a].expires]
             row == NewRow(TenantOf[a], fields, "active")
             k == "codex_session"
             changes == [id |-> Len(db[k]) + 1, after |-> 1, pc |-> "connect"]
             y == changes ++ op[a]
  <2>1. IsFcn(fields)
      BY DEF IsFcn
  <2>2. FreshRow(a, row)
    <3> HIDE DEF fields
    <3> QED
        BY <2>1, NewRowFresh
  <2>3. op'[a] = y /\ db' = [db EXCEPT ![k] = Append(@, row)]
      BY <1>6 DEF StoreSession, OpShape
  <2>4. y.pc = "connect" /\ y.kind = k /\ y.wrote = << >> /\ y.id = Len(db[k]) + 1
        /\ {"kind", "id"} \subseteq DOMAIN y
      BY <1>2, <1>3 DEF Whole, ++
  <2> HIDE DEF y, row
  <2>5. Grows /\ VersionsKept /\ Len(db'[k]) = Len(db[k]) + 1 /\ db'[k][Len(db[k]) + 1] = row
      BY <1>2, <1>4, <2>2, <2>3, AppendGrows DEF FreshRow
  <2>6. Len(db[k]) \in Nat
      BY <1>2, <1>4, RowsAreSeq DEF DbOK
  <2>7. HasRow(a, op[a])'
      BY <1>4, <2>2, <2>3, <2>4, <2>5, <2>6 DEF HasRow, OwnRow, Ids, Row, FreshRow
  <2>8. Ready(a, op[a])' /\ op'[a].pc # "write" /\ op'[a] # NoOp
      BY <2>3, <2>4, <2>7 DEF Ready, SessionReady, SessionPcs, JobPcs, NoOp
  <2> QED
      BY <1>1, <1>2, <1>3, <2>5, <2>8, SecretsGrow DEF MoveOK
<1>7. CASE ConnectSession(a)
  <2> DEFINE k == "codex_connection"
             id == op[a].connection
             patch == [status |-> "active", f |-> [credential |-> op[a].credential]]
  <2>1. db' = [db EXCEPT ![k][id] = Patched(@, patch)]
      BY <1>7 DEF ConnectSession
  <2> HIDE DEF patch, id
  <2>2. Grows /\ VersionsKept
    <3>1. Sets(k, id, Patched(Row(k, id), patch))
        BY <1>2, <1>4, <2>1, PatchSets
    <3>2. RowSet(k, id, Patched(Row(k, id), patch))
        BY <1>2, <1>4, <3>1, PatchGrows
    <3> QED
        BY <1>4, <3>2 DEF RowSet
  <2>3. op'[a] = [op[a] EXCEPT !.pc = "finish"]
      BY <1>7 DEF ConnectSession, OpShape
  <2>4. Repoints(a, "finish")
      BY <1>2, <2>3 DEF Repoints, Whole, NoOp
  <2>5. HasRow(a, op[a])
      BY <1>2, <1>7 DEF SessionReady, ConnectSession
  <2>6. HasRow(a, op[a])'
      BY <1>2, <2>2, <2>4, <2>5, RepointsHasRow
  <2>7. Ready(a, op[a])' /\ op'[a].pc # "write" /\ op'[a] # NoOp
      BY <1>3, <2>4, <2>6, FinishReady DEF Repoints
  <2> QED
      BY <1>1, <1>2, <1>3, <2>2, <2>7, SecretsGrow DEF MoveOK
<1> QED
    BY <1>5, <1>6, <1>7

\* revoke_codex_oauth_session of the store, its three writes.
LEMMA SessionEndStores ==
    ASSUME StoreInv, OpShape, NEW a \in Admins,
           RevokeSession(a) \/ DisableUpstreamCredentialIfCurrent(a) \/ DisconnectSession(a)
    PROVE  MoveOK(a)
<1>1. op[a] # NoOp /\ op[a].pc \in {"revoke", "disable", "disconnect"}
    BY DEF RevokeSession, DisableUpstreamCredentialIfCurrent, DisconnectSession, NoOp
<1>2. /\ DbOK /\ DOMAIN secrets \subseteq Ids("secret_ref") /\ secrets' = secrets
      /\ SessionReady(a, op[a]) /\ Whole(op[a])
    BY <1>1 DEF StoreInv, Ready, SessionPcs, OpShape, RevokeSession,
        DisableUpstreamCredentialIfCurrent, DisconnectSession
<1>3. op[a].wrote = << >> /\ HasRow(a, op[a]) /\ op[a].kind = "codex_session"
    BY <1>1, <1>2 DEF SessionReady
<1>4. /\ {"upstream_credential", "codex_session", "codex_connection"} \subseteq Kinds
      /\ \A k \in {"upstream_credential", "codex_session", "codex_connection"} :
            k # "emergency_operation" /\ k \notin VersionedKinds
      /\ "codex_connection" \in ChangingKinds
    BY KindsKnown DEF AdminKinds, VersionedKinds, ChangingKinds
<1>5. CASE RevokeSession(a)
  <2> DEFINE k == "codex_session"
             changes == [after |-> Row(k, op[a].id).version + 1, pc |-> "disable"]
             y == changes ++ op[a]
  <2>1. db' = [db EXCEPT ![k][op[a].id] = Patched(@, NewStatus("revoked"))] /\ op'[a] = y
      BY <1>5 DEF RevokeSession, OpShape
  <2>2. NewStatus("revoked").f = << >>
      BY DEF NewStatus
  <2>3. Grows /\ VersionsKept
    <3> DEFINE patch == NewStatus("revoked")
    <3> HIDE DEF patch
    <3>1. Sets(k, op[a].id, Patched(Row(k, op[a].id), patch))
        BY <1>2, <1>4, <2>1, PatchSets DEF patch
    <3>2. RowSet(k, op[a].id, Patched(Row(k, op[a].id), patch))
        BY <1>2, <1>4, <2>2, <3>1, PatchGrows DEF patch
    <3> QED
        BY <1>4, <3>2 DEF RowSet
  <2>4. /\ y.pc = "disable" /\ y.kind = k /\ y.wrote = << >> /\ y.id = op[a].id
        /\ {"kind", "id"} \subseteq DOMAIN y
      BY <1>2, <1>3 DEF Whole, HasRow, ++
  <2> HIDE DEF y
  <2>5. op[a].id \in 1 .. Len(db'[k]) /\ db'[k][op[a].id].tenant = TenantOf[a]
      BY <1>2, <1>3, <1>4, <2>3, OwnRowGrows DEF HasRow, OwnRow, Ids, Row
  <2>6. HasRow(a, op[a])'
      BY <1>4, <2>1, <2>4, <2>5 DEF HasRow, OwnRow, Ids, Row
  <2>7. Ready(a, op[a])' /\ op'[a].pc # "write" /\ op'[a] # NoOp
      BY <2>1, <2>4, <2>6 DEF Ready, SessionReady, SessionPcs, JobPcs, NoOp
  <2> QED
      BY <1>1, <1>2, <1>3, <2>3, <2>7, SecretsGrow DEF MoveOK
<1>6. CASE DisableUpstreamCredentialIfCurrent(a)
  <2> DEFINE k == "upstream_credential"
             id == Row("codex_session", op[a].id).f.credential
             row == Disabled(Row(k, id))
  <2>1. db' = [db EXCEPT ![k] = [@ EXCEPT ![id] = row]]
      BY <1>6 DEF DisableUpstreamCredentialIfCurrent, Row
  <2>2. id \in Ids(k) => RowShape(Row(k, id))
      BY <1>2, <1>4, RowsAreSeq DEF DbOK, IsRows, Ids, Row
  <2>3. id \in Ids(k) => /\ RowShape(row) /\ row.tenant = Row(k, id).tenant
                         /\ k \in ChangingKinds \/ row.f = Row(k, id).f
      BY <2>2, DisabledRow
  <2> HIDE DEF row, id
  <2>4. Grows /\ VersionsKept
      BY <1>2, <1>4, <2>1, <2>3, ExceptSets, SetGrows DEF RowSet
  <2>5. op'[a] = [op[a] EXCEPT !.pc = "disconnect"]
      BY <1>6 DEF DisableUpstreamCredentialIfCurrent, OpShape
  <2>6. Repoints(a, "disconnect")
      BY <1>2, <2>5 DEF Repoints, Whole, NoOp
  <2>7. HasRow(a, op[a])' /\ op'[a].kind = op[a].kind
      BY <1>2, <1>3, <2>4, <2>6, RepointsHasRow
  <2>8. Ready(a, op[a])' /\ op'[a].pc # "write" /\ op'[a] # NoOp
      BY <1>3, <2>6, <2>7 DEF Ready, SessionReady, SessionPcs, JobPcs, Repoints, HasRow
  <2> QED
      BY <1>1, <1>2, <1>3, <2>4, <2>8, SecretsGrow DEF MoveOK
<1>7. CASE DisconnectSession(a)
  <2> DEFINE k == "codex_connection"
             id == Row("codex_session", op[a].id).f.connection
             patch == [status |-> "unauthenticated", f |-> [credential |-> None]]
  <2>1. db' = db \/ db' = [db EXCEPT ![k][id] = Patched(@, patch)]
      BY <1>7 DEF DisconnectSession
  <2> HIDE DEF patch, id
  <2>2. Grows /\ VersionsKept
    <3>1. CASE db' = db
        BY <1>2, <3>1, SameGrows
    <3>2. CASE db' = [db EXCEPT ![k][id] = Patched(@, patch)]
        BY <1>2, <1>4, <3>2, PatchSets, PatchGrows DEF RowSet
    <3> QED
        BY <2>1, <3>1, <3>2
  <2>3. op'[a] = [op[a] EXCEPT !.pc = "finish"]
      BY <1>7 DEF DisconnectSession, OpShape
  <2>4. Repoints(a, "finish")
      BY <1>2, <2>3 DEF Repoints, Whole, NoOp
  <2>5. HasRow(a, op[a])' /\ op'[a].kind = op[a].kind
      BY <1>2, <1>3, <2>2, <2>4, RepointsHasRow
  <2>6. Ready(a, op[a])' /\ op'[a].pc # "write" /\ op'[a] # NoOp
      BY <1>3, <2>4, <2>5, FinishReady DEF Repoints
  <2> QED
      BY <1>1, <1>2, <1>3, <2>2, <2>6, SecretsGrow DEF MoveOK
<1> QED
    BY <1>5, <1>6, <1>7

\* set_endpoint_drain appends a drain, replaces the one of the same endpoint, or
\* leaves the table alone.
LEMMA DrainTable ==
    ASSUME NEW drains, NEW drain, NEW new \in SetEndpointDrain(drains, drain)
    PROVE  \/ new = drains
           \/ new = Append(drains, drain)
           \/ \E i \in DOMAIN drains : /\ new = [drains EXCEPT ![i] = drain]
                                       /\ drains[i].tenant = drain.tenant
<1> DEFINE same(d) == d.tenant = drain.tenant /\ d.f.endpoint = drain.f.endpoint
           i == CHOOSE j \in DOMAIN drains : same(drains[j])
           stored == IF \E j \in DOMAIN drains : same(drains[j])
                     THEN [drains EXCEPT ![i] = drain] ELSE Append(drains, drain)
<1>1. new = drains \/ new = stored
    BY DEF SetEndpointDrain, Upsert
<1>2. (\E j \in DOMAIN drains : same(drains[j])) => i \in DOMAIN drains /\ same(drains[i])
    OBVIOUS
<1> QED
    BY <1>1, <1>2

LEMMA DrainStores ==
    ASSUME StoreInv, OpShape, NEW a \in Admins, SetEndpointEmergencyDrain(a)
    PROVE  MoveOK(a)
<1> DEFINE k == "endpoint_drain"
<1>1. op[a] # NoOp /\ op[a].pc = "drain"
    BY DEF SetEndpointEmergencyDrain, NoOp
<1>2. /\ DbOK /\ DOMAIN secrets \subseteq Ids("secret_ref") /\ secrets' = secrets
      /\ EmergencyReady(a, op[a]) /\ Whole(op[a]) /\ Unversioned(op[a])
      /\ op[a].wrote # << >> => "after" \in DOMAIN op[a]
    BY <1>1 DEF StoreInv, Ready, OpShape, SetEndpointEmergencyDrain
<1>3. /\ k \in Kinds /\ k # "emergency_operation" /\ k \notin VersionedKinds
      /\ k \in ChangingKinds
    BY KindsKnown DEF AdminKinds, VersionedKinds, ChangingKinds
<1>4. IsRows(db[k]) /\ Len(db[k]) \in Nat /\ DOMAIN db[k] = 1 .. Len(db[k])
    BY <1>2, <1>3, RowsAreSeq DEF DbOK
<1>5. PICK drains, fields :
         /\ db' = [db EXCEPT ![k] = drains] /\ IsFcn(fields)
         /\ \/ drains = db[k]
            \/ drains \in SetEndpointDrain(db[k], NewRow(TenantOf[a], fields, "active"))
  <2> DEFINE published == {row \in Rows("config_publication") : row.tenant = TenantOf[a]}
             fields(p) == [endpoint |-> op[a].id, version |-> p.f.version,
                           expires |-> op[a].row.f.expires]
             chosen == fields(CHOOSE p \in published : TRUE)
  <2>1. PICK drains \in IF published = {} THEN {db[k]}
                        ELSE SetEndpointDrain(db[k], NewRow(TenantOf[a], chosen, "active")) :
           db' = [db EXCEPT ![k] = drains]
      BY DEF SetEndpointEmergencyDrain
  <2>2. IsFcn(chosen)
      BY DEF IsFcn
  <2> HIDE DEF chosen, published
  <2> QED
      BY <2>1, <2>2
<1> DEFINE row == NewRow(TenantOf[a], fields, "active")
<1>6. FreshRow(a, row)
    BY <1>5, NewRowFresh
<1> HIDE DEF row
<1>7. Grows /\ VersionsKept
  <2>1. CASE drains = db[k]
    <3>1. DOMAIN db' = Kinds /\ \A j \in Kinds : db'[j] = db[j]
        BY <1>2, <1>5, <2>1 DEF DbOK
    <3> QED
        BY <1>2, <3>1, KindsKnown, TablesGrow DEF TableKept
  <2>2. CASE drains = Append(db[k], row)
      BY <1>2, <1>3, <1>5, <1>6, <2>2, AppendGrows DEF FreshRow
  <2>3. ASSUME NEW i \in DOMAIN db[k], drains = [db[k] EXCEPT ![i] = row],
               db[k][i].tenant = row.tenant
        PROVE  Grows /\ VersionsKept
    <3>1. SetAt(drains, db[k], i, row)
        BY <2>3 DEF SetAt, IsFcn
    <3>2. /\ DOMAIN db' = Kinds /\ db'[k] = drains
          /\ \A j \in Kinds \ {k} : db'[j] = db[j]
        BY <1>2, <1>3, <1>5 DEF DbOK
    <3>3. Sets(k, i, row)
        BY <3>1, <3>2 DEF Sets
    <3>4. RowSet(k, i, row)
        BY <1>2, <1>3, <1>6, <2>3, <3>3, SetGrows DEF FreshRow, Row
    <3> QED
        BY <1>3, <3>4 DEF RowSet
  <2> QED
      BY <1>5, <2>1, <2>2, <2>3, DrainTable DEF row
<1>8. op'[a] = [op[a] EXCEPT !.pc = "emergency"]
    BY DEF SetEndpointEmergencyDrain, OpShape
<1>9. Repoints(a, "emergency")
    BY <1>2, <1>8 DEF Repoints, Whole, NoOp
<1>10. Ready(a, op[a])' /\ op'[a].pc # "write" /\ op'[a] # NoOp
  <2>1. EmergencyReady(a, op[a])'
      BY <1>2, <1>9 DEF EmergencyReady, Repoints, FreshRow
  <2> QED
      BY <1>2, <1>9, <2>1 DEF Ready, SessionPcs, JobPcs, Repoints
<1>11. op[a].wrote # << >> => op'[a].after = op[a].after
    BY <1>2, <1>9 DEF Repoints
<1> QED
    BY <1>1, <1>2, <1>7, <1>10, <1>11, SecretsGrow DEF MoveOK

\* create_emergency_operation.
LEMMA EmergencyStores ==
    ASSUME StoreInv, OpShape, NEW a \in Admins, StoreEmergencyOperation(a)
    PROVE  MoveOK(a)
<1> DEFINE k == "emergency_operation"
           changes == [kind |-> k, id |-> Len(db[k]) + 1, pc |-> "finish"]
           y == changes ++ op[a]
<1>1. op[a] # NoOp /\ op[a].pc = "emergency"
    BY DEF StoreEmergencyOperation, NoOp
<1>2. /\ DbOK /\ DOMAIN secrets \subseteq Ids("secret_ref") /\ secrets' = secrets
      /\ EmergencyReady(a, op[a]) /\ Whole(op[a])
      /\ op[a].wrote # << >> => "after" \in DOMAIN op[a]
    BY <1>1 DEF StoreInv, Ready, OpShape, StoreEmergencyOperation
<1>3. k \in Kinds
    BY KindsKnown DEF AdminKinds
<1>4. /\ Grows /\ VersionsKept
      /\ Len(db'[k]) = Len(db[k]) + 1 /\ db'[k][Len(db[k]) + 1] = op[a].row
    BY <1>2, <1>3, AppendGrows DEF StoreEmergencyOperation, EmergencyReady, FreshRow
<1>5. Len(db[k]) \in Nat
    BY <1>2, <1>3, RowsAreSeq DEF DbOK
<1>6. op'[a] = y
    BY DEF StoreEmergencyOperation, OpShape
<1>7. /\ y.kind = k /\ y.id = Len(db[k]) + 1 /\ y.pc = "finish" /\ y.wrote = op[a].wrote
      /\ {"kind", "id"} \subseteq DOMAIN y
      /\ "after" \in DOMAIN op[a] => "after" \in DOMAIN y /\ y.after = op[a].after
    BY <1>2 DEF Whole, ++
<1> HIDE DEF y
<1>8. HasRow(a, op[a])'
    BY <1>2, <1>3, <1>4, <1>5, <1>6, <1>7
       DEF HasRow, OwnRow, Ids, Row, FreshRow, EmergencyReady
<1>9. Ready(a, op[a])' /\ op'[a].pc # "write" /\ op'[a] # NoOp
    BY <1>2, <1>6, <1>7, <1>8, FinishReady DEF NoOp
<1>10. op[a].wrote # << >> => op'[a].after = op[a].after
    BY <1>2, <1>6, <1>7
<1> QED
    BY <1>1, <1>2, <1>4, <1>9, <1>10, SecretsGrow DEF MoveOK

\* complete_export_job and the manifest.
LEMMA ExportStores ==
    ASSUME StoreInv, OpShape, NEW a \in Admins, CompleteExportJob(a) \/ StoreExportManifest(a)
    PROVE  MoveOK(a)
<1>1. op[a] # NoOp /\ op[a].pc \in JobPcs
    BY DEF CompleteExportJob, StoreExportManifest, NoOp, JobPcs
<1>2. /\ DbOK /\ DOMAIN secrets \subseteq Ids("secret_ref") /\ secrets' = secrets
      /\ Whole(op[a]) /\ HasRow(a, op[a]) /\ op[a].kind = "export_job" /\ op[a].wrote = << >>
      /\ op[a].pc # "write"
    BY <1>1 DEF StoreInv, Ready, OpShape, CompleteExportJob, StoreExportManifest, JobPcs
<1>3. /\ {"export_job", "export_manifest"} \subseteq Kinds
      /\ \A k \in {"export_job", "export_manifest"} :
            k # "emergency_operation" /\ k \notin VersionedKinds
    BY KindsKnown DEF AdminKinds, VersionedKinds
<1>4. CASE CompleteExportJob(a)
  <2> DEFINE k == "export_job"
             changes == [after |-> Row(k, op[a].id).version + 1, pc |-> "manifest"]
             y == changes ++ op[a]
  <2>1. PICK status : db' = [db EXCEPT ![k][op[a].id] = Patched(@, NewStatus(status))]
      BY <1>4 DEF CompleteExportJob
  <2>2. op'[a] = y
      BY <1>4 DEF CompleteExportJob, OpShape
  <2>3. /\ y.pc = "manifest" /\ y.kind = k /\ y.id = op[a].id /\ y.wrote = << >>
        /\ {"kind", "id"} \subseteq DOMAIN y
      BY <1>2 DEF Whole, HasRow, ++
  <2> DEFINE patch == NewStatus(status)
  <2>4. patch.f = << >> /\ db' = [db EXCEPT ![k][op[a].id] = Patched(@, patch)]
      BY <2>1 DEF NewStatus
  <2> HIDE DEF y, patch
  <2>5. Grows /\ VersionsKept
    <3>1. Sets(k, op[a].id, Patched(Row(k, op[a].id), patch))
        BY <1>2, <1>3, <2>4, PatchSets
    <3>2. RowSet(k, op[a].id, Patched(Row(k, op[a].id), patch))
        BY <1>2, <1>3, <2>4, <3>1, PatchGrows
    <3> QED
        BY <1>3, <3>2 DEF RowSet
  <2>6. op[a].id \in 1 .. Len(db'[k]) /\ db'[k][op[a].id].tenant = TenantOf[a]
      BY <1>2, <1>3, <2>5, OwnRowGrows DEF HasRow, OwnRow, Ids, Row
  <2>7. HasRow(a, op[a])' /\ op'[a].kind = k
      BY <1>3, <2>2, <2>3, <2>6 DEF HasRow, OwnRow, Ids, Row
  <2>8. Ready(a, op[a])' /\ op'[a].pc # "write" /\ op'[a] # NoOp
      BY <2>2, <2>3, <2>7 DEF Ready, SessionPcs, JobPcs, NoOp
  <2> QED
      BY <1>1, <1>2, <2>5, <2>8, SecretsGrow DEF MoveOK
<1>5. CASE StoreExportManifest(a)
  <2> DEFINE k == "export_manifest"
             fields == [job |-> op[a].id, expires |-> op[a].expires]
             row == NewRow(TenantOf[a], fields, "active")
  <2>1. IsFcn(fields)
      BY DEF IsFcn
  <2>2. db' = [db EXCEPT ![k] = Append(@, row)] /\ op'[a] = [op[a] EXCEPT !.pc = "finish"]
      BY <1>5 DEF StoreExportManifest, OpShape
  <2> HIDE DEF fields
  <2>3. FreshRow(a, row)
      BY <2>1, NewRowFresh
  <2> HIDE DEF row
  <2>4. Grows /\ VersionsKept
      BY <1>2, <1>3, <2>2, <2>3, AppendGrows DEF FreshRow
  <2>5. Repoints(a, "finish")
      BY <1>2, <2>2 DEF Repoints, Whole, NoOp
  <2>6. HasRow(a, op[a])'
      BY <1>2, <2>4, <2>5, RepointsHasRow
  <2>7. Ready(a, op[a])' /\ op'[a].pc # "write" /\ op'[a] # NoOp
      BY <1>2, <2>5, <2>6, FinishReady DEF Repoints
  <2> QED
      BY <1>1, <1>2, <2>4, <2>7, SecretsGrow DEF MoveOK
<1> QED
    BY <1>4, <1>5

\* The handler is dropped while it awaits.
LEMMA DisconnectStores ==
    ASSUME StoreInv, OpShape, NEW a \in Admins, Disconnect(a)
    PROVE  MoveOK(a)
<1>1. op[a] # NoOp /\ op[a].pc \in {"drain", "build"} /\ op'[a] = NoOp
      /\ UNCHANGED <<db, secrets>>
    BY DEF Disconnect, NoOp, OpShape, store
<1>2. DbOK /\ DOMAIN secrets \subseteq Ids("secret_ref") /\ Unversioned(op[a])
    BY <1>1 DEF StoreInv, Ready, JobPcs, Unversioned
<1>3. Grows /\ VersionsKept
    BY <1>1, <1>2, SameGrows
<1> QED
    BY <1>1, <1>2, <1>3, SecretsGrow DEF MoveOK
-----------------------------------------------------------------------------
(* What first steps go on with                                             *)

\* What Request adds to it.
EntryOf(route, entry) ==
    /\ DOMAIN entry = Carried \cup {"wrote"}
    /\ entry.route = route /\ entry.wrote = << >>

Opening(a, route, next) ==
    \A entry : EntryOf(route, entry) =>
        /\ Ready(a, next ++ entry)
        /\ (next ++ entry).pc = "write" \/ (next ++ entry).wrote = << >>

LEMMA RequestBegins ==
    ASSUME NEW a \in Admins, NEW route, NEW early, NEW scope, NEW key, NEW hash, NEW noted,
           NEW late, NEW next,
           Mutating(a, route),
           RequestNoting(a, route, early, scope, key, hash, noted, late, next),
           early /\ late => Opening(a, route, next)
    PROVE  Begins(a)
<1> DEFINE entry == [route |-> route, scope |-> scope, key |-> key, hash |-> hash,
                     at |-> clock, alone |-> Rivals(a, scope, key) = {},
                     wrote |-> << >>]
<1>1. EntryOf(route, entry)
    BY DEF EntryOf, Carried
<1>2. op[a] = NoOp /\ UNCHANGED <<db, secrets>>
    BY DEF Mutating, Calling, RequestNoting, store
<1>3. op' = op \/ (early /\ late /\ op'[a] = next ++ entry)
    BY DEF RequestNoting
<1> HIDE DEF entry
<1>4. ASSUME early, late, op'[a] = next ++ entry
      PROVE  Ready(a, op'[a]) /\ (op'[a].pc = "write" \/ op'[a].wrote = << >>)
    BY <1>1, <1>4 DEF Opening
<1> QED
    BY <1>2, <1>3, <1>4, ReadyNow DEF Begins

\* A create: a fresh row of a kind that handlers create.
InsertNext(a, next) ==
    /\ {"pc", "kind", "row", "then"} \subseteq DOMAIN next /\ "wrote" \notin DOMAIN next
    /\ next.pc = "insert" /\ next.kind \in Kinds \ {"emergency_operation"}
    /\ FreshRow(a, next.row)
    /\ next.then = "finish" \/ (next.then = "build" /\ next.kind = "export_job")

LEMMA InsertOpens ==
    ASSUME NEW a \in Admins, NEW route, NEW next, InsertNext(a, next)
    PROVE  Opening(a, route, next)
<1> SUFFICES ASSUME NEW entry, EntryOf(route, entry)
             PROVE  Ready(a, next ++ entry) /\ (next ++ entry).wrote = << >>
    BY DEF Opening
<1> DEFINE y == next ++ entry
<1>0. "wrote" \in DOMAIN entry \ DOMAIN next
    BY DEF EntryOf, InsertNext
<1>1. /\ DOMAIN next \subseteq DOMAIN y /\ \A f \in DOMAIN next : y[f] = next[f]
      /\ y.wrote = entry.wrote
    BY <1>0 DEF ++
<1> HIDE DEF y
<1>2. y.pc = "insert" /\ InsertReady(a, y)
    BY <1>1 DEF InsertNext, InsertReady, EntryOf
<1> QED
    BY <1>1, <1>2 DEF EntryOf, Ready, SessionPcs, JobPcs, y

\* An update: a row of the admin's tenant and the version its client saw.
WriteNext(a, route, next) ==
    /\ {"pc", "kind", "id", "expected", "patch", "then", "wrote"} \subseteq DOMAIN next
    /\ "route" \notin DOMAIN next
    /\ next.pc = "write" /\ next.kind \in Kinds \ {"emergency_operation"}
    /\ ForActor(next.kind, a, next.id)
    /\ next.kind \notin ChangingKinds => next.patch.f = << >>
    /\ next.wrote = <<next.kind, next.id, next.expected>>
    /\ route = "rotate_secret_ref" => next.kind = "secret_ref"
    /\ \/ next.then = "finish"
       \/ next.then = "emergency" /\ EmergencyReady(a, next)
       \/ next.then = "drain" /\ EmergencyReady(a, next) /\ next.kind = "provider_endpoint"

LEMMA WriteOpens ==
    ASSUME NEW a \in Admins, NEW route, NEW next, WriteNext(a, route, next)
    PROVE  Opening(a, route, next)
<1> SUFFICES ASSUME NEW entry, EntryOf(route, entry)
             PROVE  Ready(a, next ++ entry) /\ (next ++ entry).pc = "write"
    BY DEF Opening
<1> DEFINE y == next ++ entry
<1>0. "route" \in DOMAIN entry \ DOMAIN next
    BY DEF EntryOf, WriteNext, Carried
<1>1. /\ DOMAIN next \subseteq DOMAIN y /\ \A f \in DOMAIN next : y[f] = next[f]
      /\ y.route = entry.route
    BY <1>0 DEF ++
<1> HIDE DEF y
<1>2. /\ y.pc = "write" /\ y.kind = next.kind /\ y.id = next.id /\ y.patch = next.patch
      /\ y.expected = next.expected /\ y.then = next.then /\ y.wrote = next.wrote
    BY <1>1 DEF WriteNext
<1>3. EmergencyReady(a, next) => EmergencyReady(a, y)
    BY <1>1 DEF EmergencyReady
<1>4. HasRow(a, y) /\ {"expected", "patch", "then"} \subseteq DOMAIN y
    BY <1>1, <1>2 DEF WriteNext, HasRow, OwnRow, ForActor
<1>5. WriteReady(a, y)
    BY <1>1, <1>2, <1>3, <1>4 DEF EntryOf, WriteNext, WriteReady
<1> QED
    BY <1>2, <1>5 DEF Ready, SessionPcs, JobPcs, y

LEMMA CreatesBegins ==
    ASSUME NEW a \in Admins, NEW route, NEW k \in Kinds \ {"emergency_operation"},
           NEW req, NEW valid, NEW accepted, NEW row,
           Mutating(a, route), FreshRow(a, row),
           \/ Creates(a, route, k, req, valid, accepted, row)
           \/ CreatesValidFirst(a, route, k, req, valid, accepted, row)
    PROVE  Begins(a)
<1>1. PICK key \in Keys :
         \/ RequestNoting(a, route, TRUE, <<route>>, key, req, {}, valid /\ accepted,
                          Inserting(k, row))
         \/ RequestNoting(a, route, valid, <<route>>, key, req, {}, accepted,
                          Inserting(k, row))
    BY DEF Creates, CreatesValidFirst, Request
<1>2. InsertNext(a, Inserting(k, row))
    BY DEF InsertNext, Inserting
<1> QED
    BY <1>1, <1>2, InsertOpens, RequestBegins

LEMMA WritingNext ==
    ASSUME NEW a \in Admins, NEW route, NEW k \in Kinds \ {"emergency_operation"}, NEW id,
           NEW expected, NEW patch, ForActor(k, a, id),
           k \notin ChangingKinds => patch.f = << >>,
           route = "rotate_secret_ref" => k = "secret_ref"
    PROVE  WriteNext(a, route, Writing(k, id, expected, patch))
BY DEF WriteNext, Writing

LEMMA UpdatesStatusBegins ==
    ASSUME NEW a \in Admins, NEW route, NEW k \in Kinds \ {"emergency_operation"},
           NEW statuses, route # "rotate_secret_ref", UpdatesStatus(a, route, k, statuses)
    PROVE  Begins(a)
<1>1. PICK id \in Ids(k), expected \in 1 .. MaxVersion, status \in statuses :
         RequestNoting(a, route, ForActor(k, a, id), <<route>>, NoKey, id, {}, TRUE,
                       Writing(k, id, expected, NewStatus(status)))
    BY DEF UpdatesStatus, Request
<1>2. Mutating(a, route)
    BY DEF UpdatesStatus
<1>3. NewStatus(status).f = << >>
    BY DEF NewStatus
<1>4. ForActor(k, a, id) => Opening(a, route, Writing(k, id, expected, NewStatus(status)))
    BY <1>3, WritingNext, WriteOpens
<1> QED
    BY <1>1, <1>2, <1>4, RequestBegins

\* The rows creates insert are fresh rows of the admin's tenant.
LEMMA RecordsFresh ==
    ASSUME NEW a \in Admins, NEW i, NEW r
    PROVE  /\ FreshRow(a, SecretRefRecord(TenantOf[a], r))
           /\ FreshRow(a, ProviderEndpointRecord(TenantOf[a], r))
           /\ FreshRow(a, UpstreamCredentialRecord(TenantOf[a], r))
           /\ FreshRow(a, CodexOauthConnectionRecord(TenantOf[a], r))
           /\ FreshRow(a, PricingSkuRecord(TenantOf[a], r))
           /\ FreshRow(a, ModelTargetRecord(TenantOf[a], r))
           /\ FreshRow(a, CatalogImportRecord(TenantOf[a], r))
           /\ FreshRow(a, RoutingGroupRecord(TenantOf[a], r))
           /\ FreshRow(a, RoutingGroupTargetRecord(TenantOf[a], i, r))
           /\ FreshRow(a, ModelAliasRecord(TenantOf[a], r))
           /\ FreshRow(a, RoutePolicyRecord(TenantOf[a], r))
           /\ FreshRow(a, ProviderGrantRecord(TenantOf[a], r))
           /\ FreshRow(a, BudgetPolicyRecord(TenantOf[a], r))
           /\ FreshRow(a, QuotaPolicyRecord(TenantOf[a], r))
           /\ FreshRow(a, NotificationSubscriptionRecord(TenantOf[a], i, r))
           /\ FreshRow(a, LoginProviderRecord(TenantOf[a], r))
           /\ FreshRow(a, MaintenanceWindowRecord(TenantOf[a], r))
           /\ FreshRow(a, NewRow(TenantOf[a], Scoped(TenantOf[a], r), "active"))
<1>1. FreshRow(a, SecretRefRecord(TenantOf[a], r))
    BY NewRowFresh DEF SecretRefRecord, IsFcn
<1>2. FreshRow(a, ProviderEndpointRecord(TenantOf[a], r))
    BY NewRowFresh DEF ProviderEndpointRecord, IsFcn
<1>3. FreshRow(a, UpstreamCredentialRecord(TenantOf[a], r))
    BY NewRowFresh DEF UpstreamCredentialRecord, IsFcn
<1>4. FreshRow(a, CodexOauthConnectionRecord(TenantOf[a], r))
    BY NewRowFresh DEF CodexOauthConnectionRecord, IsFcn
<1>5. FreshRow(a, PricingSkuRecord(TenantOf[a], r))
    BY NewRowFresh DEF PricingSkuRecord, IsFcn
<1>6. FreshRow(a, ModelTargetRecord(TenantOf[a], r))
    BY NewRowFresh DEF ModelTargetRecord, IsFcn
<1>7. FreshRow(a, CatalogImportRecord(TenantOf[a], r))
    BY NewRowFresh DEF CatalogImportRecord, IsFcn
<1>8. FreshRow(a, RoutingGroupRecord(TenantOf[a], r))
    BY NewRowFresh DEF RoutingGroupRecord, IsFcn
<1>9. FreshRow(a, RoutingGroupTargetRecord(TenantOf[a], i, r))
    BY NewRowFresh DEF RoutingGroupTargetRecord, IsFcn
<1>10. FreshRow(a, ModelAliasRecord(TenantOf[a], r))
    BY NewRowFresh DEF ModelAliasRecord, IsFcn
<1>11. FreshRow(a, RoutePolicyRecord(TenantOf[a], r))
    BY NewRowFresh DEF RoutePolicyRecord, IsFcn
<1>12. FreshRow(a, ProviderGrantRecord(TenantOf[a], r))
    BY NewRowFresh, MergedIsFcn DEF ProviderGrantRecord
<1>13. FreshRow(a, BudgetPolicyRecord(TenantOf[a], r))
    BY NewRowFresh, MergedIsFcn DEF BudgetPolicyRecord
<1>14. FreshRow(a, QuotaPolicyRecord(TenantOf[a], r))
  <2> DEFINE f == IF r.scope = "protocol_family"
                  THEN [org |-> None, project |-> None] ++ QuotaKey(r)
                  ELSE [org |-> ScopeOrganization(r), project |-> ScopeProject(r)] ++ QuotaKey(r)
  <2>1. IsFcn(f)
      BY MergedIsFcn
  <2>2. QuotaPolicyRecord(TenantOf[a], r) = NewRow(TenantOf[a], f, "active")
      BY DEF QuotaPolicyRecord
  <2> QED
      BY <2>1, <2>2, NewRowFresh
<1>15. FreshRow(a, NotificationSubscriptionRecord(TenantOf[a], i, r))
    BY NewRowFresh, MergedIsFcn DEF NotificationSubscriptionRecord
<1>16. FreshRow(a, LoginProviderRecord(TenantOf[a], r))
    BY NewRowFresh DEF LoginProviderRecord, IsFcn, LoginProviderKey
<1>17. FreshRow(a, MaintenanceWindowRecord(TenantOf[a], r))
    BY NewRowFresh DEF MaintenanceWindowRecord, IsFcn
<1>18. FreshRow(a, NewRow(TenantOf[a], Scoped(TenantOf[a], r), "active"))
    BY NewRowFresh DEF Scoped, IsFcn
<1> QED
    BY <1>1, <1>2, <1>3, <1>4, <1>5, <1>6, <1>7, <1>8, <1>9, <1>10, <1>11, <1>12, <1>13, <1>14,
       <1>15, <1>16, <1>17, <1>18

\* More fields in front of what a create or an update goes on with.
LEMMA MoreInsert ==
    ASSUME NEW a, NEW about, NEW next, InsertNext(a, next)
    PROVE  InsertNext(a, [about |-> about] ++ next)
BY DEF InsertNext, ++

LEMMA MoreWrite ==
    ASSUME NEW a, NEW route, NEW more, NEW next, WriteNext(a, route, next),
           DOMAIN more \in {{"about"}, {"value"}}
    PROVE  WriteNext(a, route, more ++ next)
<1>1. /\ DOMAIN next \subseteq DOMAIN (more ++ next) /\ "route" \notin DOMAIN (more ++ next)
      /\ \A f \in DOMAIN next \ {"about", "value"} : (more ++ next)[f] = next[f]
    BY DEF ++, WriteNext
<1> DEFINE y == more ++ next
<1> HIDE DEF y
<1>2. /\ y.pc = "write" /\ y.kind = next.kind /\ y.id = next.id /\ y.patch = next.patch
      /\ y.expected = next.expected /\ y.then = next.then /\ y.wrote = next.wrote
    BY <1>1 DEF WriteNext, y
<1>3. EmergencyReady(a, next) => EmergencyReady(a, y)
    BY <1>1 DEF EmergencyReady, y
<1> QED
    BY <1>1, <1>2, <1>3 DEF WriteNext, y

LEMMA EmergencyRecordReady ==
    ASSUME NEW a \in Admins, NEW operation, NEW target, NEW expires
    PROVE  LET row == EmergencyOperationRecord(TenantOf[a], operation, target, expires)
           IN FreshRow(a, row) /\ row.status = "applied"
<1>1. IsFcn([operation |-> operation, target |-> target, expires |-> expires])
    BY DEF IsFcn
<1> QED
    BY <1>1, NewRowFresh DEF EmergencyOperationRecord, NewRow

\* An emergency operation that writes only its record.
LEMMA EmergencyOpens ==
    ASSUME NEW a \in Admins, NEW route, NEW next,
           {"pc", "row", "after"} \subseteq DOMAIN next, "wrote" \notin DOMAIN next,
           next.pc = "emergency", FreshRow(a, next.row), next.row.status = "applied"
    PROVE  Opening(a, route, next)
<1> SUFFICES ASSUME NEW entry, EntryOf(route, entry)
             PROVE  Ready(a, next ++ entry) /\ (next ++ entry).wrote = << >>
    BY DEF Opening
<1> DEFINE y == next ++ entry
<1>1. "wrote" \in DOMAIN entry \ DOMAIN next
    BY DEF EntryOf
<1>2. /\ DOMAIN next \subseteq DOMAIN y /\ \A f \in DOMAIN next : y[f] = next[f]
      /\ y.wrote = entry.wrote
    BY <1>1 DEF ++
<1> HIDE DEF y
<1>3. y.pc = "emergency" /\ EmergencyReady(a, y) /\ y.wrote = << >>
    BY <1>2 DEF EmergencyReady, EntryOf
<1> QED
    BY <1>3 DEF Ready, SessionPcs, JobPcs, y

\* The start and the revocation of a Codex session.
LEMMA SessionOpens ==
    ASSUME NEW a \in Admins, NEW route, NEW next,
           {"pc", "kind"} \subseteq DOMAIN next, "wrote" \notin DOMAIN next,
           next.kind = "codex_session",
           \/ /\ next.pc = "credential" /\ "row" \in DOMAIN next /\ FreshRow(a, next.row)
           \/ /\ next.pc = "revoke" /\ "id" \in DOMAIN next
              /\ ForActor("codex_session", a, next.id)
    PROVE  Opening(a, route, next)
<1> SUFFICES ASSUME NEW entry, EntryOf(route, entry)
             PROVE  Ready(a, next ++ entry) /\ (next ++ entry).wrote = << >>
    BY DEF Opening
<1> DEFINE y == next ++ entry
<1>1. "wrote" \in DOMAIN entry \ DOMAIN next
    BY DEF EntryOf
<1>2. /\ DOMAIN next \subseteq DOMAIN y /\ \A f \in DOMAIN next : y[f] = next[f]
      /\ y.wrote = entry.wrote
    BY <1>1 DEF ++
<1> HIDE DEF y
<1>3. y.pc = next.pc /\ y.pc \in {"credential", "revoke"} /\ y.kind = "codex_session"
      /\ y.wrote = << >> /\ "kind" \in DOMAIN y
    BY <1>2 DEF EntryOf
<1>4. "codex_session" \in Kinds
    BY KindsKnown DEF AdminKinds
<1>5. SessionReady(a, y)
    BY <1>2, <1>3, <1>4 DEF SessionReady, HasRow, OwnRow, ForActor
<1> QED
    BY <1>3, <1>5 DEF Ready, SessionPcs, JobPcs, y

\* The emergencies that set a row's status first, and the one that does not.
LEMMA EmergencyWriteBegins ==
    ASSUME NEW a \in Admins, NEW route, NEW operation,
           NEW k \in Kinds \ {"emergency_operation"}, NEW id, NEW r, NEW status,
           NEW then \in {"emergency", "drain"}, then = "drain" => k = "provider_endpoint",
           k \notin ChangingKinds, route # "rotate_secret_ref", Mutating(a, route),
           Emergency(a, route, operation, k, id, r, TRUE,
                     [then |-> then] ++ Writing(k, id, r.expected, NewStatus(status)))
    PROVE  Begins(a)
<1> DEFINE write == Writing(k, id, r.expected, NewStatus(status))
           row == EmergencyOperationRecord(TenantOf[a], operation, <<k, id>>, r.expires)
           next == [row |-> row] ++ ([then |-> then] ++ write)
<1>1. PICK key \in Keys :
         RequestNoting(a, route, ValidateEmergencyOperationRequest(r), <<operation, id>>, key, r,
                       {}, ForActor(k, a, id) /\ r.expected > 0 /\ TRUE, next)
    BY DEF Emergency, Request
<1>2. ASSUME ForActor(k, a, id) PROVE WriteNext(a, route, next)
  <2>1. WriteNext(a, route, write)
      BY <1>2, WritingNext DEF NewStatus
  <2>2. FreshRow(a, row) /\ row.status = "applied"
      BY EmergencyRecordReady
  <2> HIDE DEF write, row
  <2>3. /\ DOMAIN write \cup {"row", "then"} \subseteq DOMAIN next
        /\ "route" \notin DOMAIN write => "route" \notin DOMAIN next
        /\ next.row = row /\ next.then = then
        /\ \A f \in DOMAIN write \ {"row", "then"} : next[f] = write[f]
      BY DEF ++
  <2>4. /\ next.pc = "write" /\ next.kind = write.kind /\ next.id = write.id
        /\ next.patch = write.patch /\ next.expected = write.expected
        /\ next.wrote = write.wrote
      BY <2>1, <2>3 DEF WriteNext
  <2>5. write.kind = k
      BY DEF write, Writing
  <2> HIDE DEF next
  <2>6. EmergencyReady(a, next)
      BY <2>2, <2>3 DEF EmergencyReady
  <2> QED
      BY <2>1, <2>3, <2>4, <2>5, <2>6 DEF WriteNext
<1> HIDE DEF next
<1>3. ForActor(k, a, id) => Opening(a, route, next)
    BY <1>2, WriteOpens
<1> QED
    BY <1>1, <1>3, RequestBegins

LEMMA EmergencyBlockBegins ==
    ASSUME NEW a \in Admins, NEW route, NEW operation, NEW k, NEW id, NEW r, NEW late,
           Mutating(a, route),
           Emergency(a, route, operation, k, id, r, late,
                     [pc |-> "emergency", before |-> r.expected, after |-> r.expected])
    PROVE  Begins(a)
<1> DEFINE block == [pc |-> "emergency", before |-> r.expected, after |-> r.expected]
           row == EmergencyOperationRecord(TenantOf[a], operation, <<k, id>>, r.expires)
           next == [row |-> row] ++ block
<1>1. PICK key \in Keys :
         RequestNoting(a, route, ValidateEmergencyOperationRequest(r), <<operation, id>>, key, r,
                       {}, ForActor(k, a, id) /\ r.expected > 0 /\ late, next)
    BY DEF Emergency, Request
<1>2. FreshRow(a, row) /\ row.status = "applied"
    BY EmergencyRecordReady
<1> HIDE DEF row
<1>3. /\ {"pc", "row", "after"} \subseteq DOMAIN next /\ "wrote" \notin DOMAIN next
      /\ next.pc = "emergency" /\ next.row = row
    BY DEF ++
<1> HIDE DEF next
<1>4. Opening(a, route, next)
    BY <1>2, <1>3, EmergencyOpens
<1> QED
    BY <1>1, <1>4, RequestBegins

-----------------------------------------------------------------------------
(* Every action, by what it does to the store                              *)

LEMMA ProviderStores ==
    ASSUME StoreInv, OpShape, NEW a \in Admins, ProviderNext(a)
    PROVE  StoreSteps(a)
<1>1. CASE ListSecretRefs(a) \/ GetSecretRef(a) \/ GetSecretRefLocator(a) \/
          ListProviderEndpoints(a) \/ GetProviderEndpoint(a) \/ ValidateProviderEndpoint(a) \/
          ListUpstreamCredentials(a) \/ GetUpstreamCredential(a) \/ ValidateUpstreamCredential(a) \/
          ListPricingSkus(a) \/ GetPricingSku(a) \/ ValidatePricingSku(a) \/ ListModelTargets(a) \/
          GetModelTarget(a) \/ ValidateModelTarget(a) \/ ListCatalogImports(a) \/ GetCatalogImport(a)
          \/ ValidateCatalogImport(a)
    BY <1>1 DEF StoreSteps, Lists, Gets, Reads, Validates, store, ListSecretRefs, GetSecretRef,
       GetSecretRefLocator, ListProviderEndpoints, GetProviderEndpoint,
       ValidateProviderEndpoint, ListUpstreamCredentials, GetUpstreamCredential,
       ValidateUpstreamCredential, ListPricingSkus, GetPricingSku, ValidatePricingSku,
       ListModelTargets, GetModelTarget, ValidateModelTarget, ListCatalogImports,
       GetCatalogImport, ValidateCatalogImport
<1>2. CASE CreateSecretRef(a)
    BY <1>2, CreatesBegins, RecordsFresh, KindsKnown DEF CreateSecretRef, StoreSteps,
       AdminKinds
<1>3. CASE StoreSecretRef(a)
    BY <1>3, StoreSecretRefStores DEF StoreSteps
<1>4. CASE UpdateSecretRef(a)
    BY <1>4, UpdatesStatusBegins, KindsKnown DEF UpdateSecretRef, StoreSteps, AdminKinds
<1>5. CASE UpdateSecretRefStatus(a)
    BY <1>5, CompareAndSetStores DEF UpdateSecretRefStatus, StoreSteps
<1>6. CASE RotateSecretRef(a)
  <2> DEFINE next(id, expected, key, value) ==
                 [value |-> value]
                   ++ Writing("secret_ref", id, expected, NewStatus("rotating"))
  <2>1. PICK id \in Ids("secret_ref"), expected \in 1 .. MaxVersion, key \in Keys,
              value \in Requests["secret_value"] :
           RequestNoting(a, "rotate_secret_ref", ForActor("secret_ref", a, id),
                         <<"rotate_secret_ref", id>>, key, <<expected, value>>, {}, TRUE,
                         next(id, expected, key, value))
      BY <1>6 DEF RotateSecretRef, Request
  <2>2. Mutating(a, "rotate_secret_ref")
      BY <1>6 DEF RotateSecretRef
  <2>3. ForActor("secret_ref", a, id) => Opening(a, "rotate_secret_ref", next(id, expected, key, value))
      BY WritingNext, MoreWrite, WriteOpens, KindsKnown DEF AdminKinds, NewStatus
  <2> HIDE DEF next
  <2> QED
      BY <2>1, <2>2, <2>3, RequestBegins DEF StoreSteps
<1>7. CASE StoreRotatedSecretRef(a)
    BY <1>7, StoreRotatedSecretRefStores DEF StoreSteps
<1>8. CASE StoreSecretValue(a)
    BY <1>8, StoreSecretValueStores DEF StoreSteps
<1>9. CASE CreateProviderEndpoint(a)
    BY <1>9, CreatesBegins, RecordsFresh, KindsKnown DEF CreateProviderEndpoint, StoreSteps,
       AdminKinds
<1>10. CASE StoreProviderEndpoint(a)
    BY <1>10, InsertRowStores DEF StoreProviderEndpoint, StoreSteps
<1>11. CASE UpdateProviderEndpoint(a)
    BY <1>11, UpdatesStatusBegins, KindsKnown DEF UpdateProviderEndpoint, StoreSteps,
       AdminKinds
<1>12. CASE UpdateProviderEndpointStatus(a)
    BY <1>12, CompareAndSetStores DEF UpdateProviderEndpointStatus, StoreSteps
<1>13. CASE CreateUpstreamCredential(a)
    BY <1>13, CreatesBegins, RecordsFresh, KindsKnown DEF CreateUpstreamCredential, StoreSteps,
       AdminKinds
<1>14. CASE StoreUpstreamCredential(a)
    BY <1>14, InsertRowStores DEF StoreUpstreamCredential, StoreSteps
<1>15. CASE UpdateUpstreamCredential(a)
    BY <1>15, UpdatesStatusBegins, KindsKnown DEF UpdateUpstreamCredential, StoreSteps,
       AdminKinds
<1>16. CASE UpdateUpstreamCredentialStatus(a)
    BY <1>16, CompareAndSetStores DEF UpdateUpstreamCredentialStatus, StoreSteps
<1>17. CASE CreatePricingSku(a)
    BY <1>17, CreatesBegins, RecordsFresh, KindsKnown DEF CreatePricingSku, StoreSteps,
       AdminKinds
<1>18. CASE StorePricingSku(a)
    BY <1>18, InsertRowStores DEF StorePricingSku, StoreSteps
<1>19. CASE UpdatePricingSku(a)
    BY <1>19, UpdatesStatusBegins, KindsKnown DEF UpdatePricingSku, StoreSteps, AdminKinds
<1>20. CASE UpdatePricingSkuStatus(a)
    BY <1>20, CompareAndSetStores DEF UpdatePricingSkuStatus, StoreSteps
<1>21. CASE CreateModelTarget(a)
    BY <1>21, CreatesBegins, RecordsFresh, KindsKnown DEF CreateModelTarget, StoreSteps,
       AdminKinds
<1>22. CASE StoreModelTarget(a)
    BY <1>22, InsertRowStores DEF StoreModelTarget, StoreSteps
<1>23. CASE UpdateModelTarget(a)
    BY <1>23, UpdatesStatusBegins, KindsKnown DEF UpdateModelTarget, StoreSteps, AdminKinds
<1>24. CASE UpdateModelTargetStatus(a)
    BY <1>24, CompareAndSetStores DEF UpdateModelTargetStatus, StoreSteps
<1>25. CASE CreateCatalogImport(a)
  <2> DEFINE next(r, key) ==
                 Inserting("catalog_import", CatalogImportRecord(TenantOf[a], r))
  <2>1. PICK r \in Requests["catalog_import"], key \in Keys :
           RequestNoting(a, "create_catalog_import", TRUE, <<"create_catalog_import">>, key, r,
                         {Diagnostic(a, "catalog_import", CatalogImportValidation(a, r))},
                         /\ CatalogImportValidation(a, r)
                         /\ ValidateCatalogImportRequest(TenantOf[a], r),
                         next(r, key))
      BY <1>25 DEF CreateCatalogImport, Request
  <2>2. Mutating(a, "create_catalog_import")
      BY <1>25 DEF CreateCatalogImport
  <2>3. Opening(a, "create_catalog_import", next(r, key))
      BY RecordsFresh, InsertOpens, KindsKnown DEF AdminKinds, InsertNext, Inserting
  <2> HIDE DEF next
  <2> QED
      BY <2>1, <2>2, <2>3, RequestBegins DEF StoreSteps
<1>26. CASE StoreCatalogImport(a)
    BY <1>26, InsertRowStores DEF StoreCatalogImport, StoreSteps
<1> QED
    BY <1>1, <1>2, <1>3, <1>4, <1>5, <1>6, <1>7, <1>8, <1>9, <1>10, <1>11, <1>12, <1>13, <1>14,
       <1>15, <1>16, <1>17, <1>18, <1>19, <1>20, <1>21, <1>22, <1>23, <1>24, <1>25, <1>26 DEF
       ProviderNext

LEMMA CodexStores ==
    ASSUME StoreInv, OpShape, NEW a \in Admins, CodexNext(a)
    PROVE  StoreSteps(a)
<1>1. CASE ListCodexOauthConnections(a) \/ GetCodexOauthConnection(a) \/
          ListCodexOauthSessions(a) \/ GetCodexOauthSession(a) \/ GetCodexOauthRefreshStatus(a)
    BY <1>1 DEF StoreSteps, Lists, Gets, Reads, Validates, store, ListCodexOauthConnections,
       GetCodexOauthConnection, ListCodexOauthSessions, GetCodexOauthSession,
       GetCodexOauthRefreshStatus
<1>2. CASE CreateCodexOauthConnection(a)
    BY <1>2, CreatesBegins, RecordsFresh, KindsKnown DEF CreateCodexOauthConnection,
       StoreSteps, AdminKinds
<1>3. CASE StoreCodexOauthConnection(a)
    BY <1>3, InsertRowStores DEF StoreCodexOauthConnection, StoreSteps
<1>4. CASE UpdateCodexOauthConnection(a)
    BY <1>4, UpdatesStatusBegins, KindsKnown DEF UpdateCodexOauthConnection, StoreSteps,
       AdminKinds
<1>5. CASE UpdateCodexOauthConnectionStatus(a)
    BY <1>5, UpdateCodexStatusStores DEF StoreSteps
<1>6. CASE StartCodexOauthSession(a)
  <2> DEFINE credential(id, r) == [org |-> Row("codex_connection", id).f.org,
                                    endpoint |-> Row("codex_connection", id).f.endpoint,
                                    secret |-> r.secret]
             next(id, r) == [pc |-> "credential", kind |-> "codex_session", connection |-> id,
                             row |-> NewRow(TenantOf[a], credential(id, r), "active"),
                             expires |-> r.expires, before |-> None]
             late(id, r) ==
                 /\ r.expires # None => r.expires > clock
                 /\ ValidateCodexOauthSessionRequest(TenantOf[a], id, r)
                 /\ ValidateUpstreamCredentialEndpoint(TenantOf[a], credential(id, r))
  <2>1. PICK id \in Ids("codex_connection"), r \in Requests["codex_session"], key \in Keys :
           RequestNoting(a, "start_codex_oauth_session", ForActor("codex_connection", a, id),
                         <<"start_codex_oauth_session", id>>, key, r, {}, late(id, r),
                         next(id, r))
      BY <1>6 DEF StartCodexOauthSession, Request
  <2>2. Mutating(a, "start_codex_oauth_session")
      BY <1>6 DEF StartCodexOauthSession
  <2>3. FreshRow(a, NewRow(TenantOf[a], credential(id, r), "active"))
      BY NewRowFresh DEF IsFcn
  <2>4. Opening(a, "start_codex_oauth_session", next(id, r))
      BY <2>3, SessionOpens
  <2> HIDE DEF next, late
  <2> QED
      BY <2>1, <2>2, <2>4, RequestBegins DEF StoreSteps
<1>7. CASE StoreSessionCredential(a)
    BY <1>7, SessionStartStores DEF StoreSteps
<1>8. CASE StoreSession(a)
    BY <1>8, SessionStartStores DEF StoreSteps
<1>9. CASE ConnectSession(a)
    BY <1>9, SessionStartStores DEF StoreSteps
<1>10. CASE RevokeCodexOauthSession(a)
  <2> DEFINE next(id) ==
                 [pc |-> "revoke", kind |-> "codex_session", id |-> id,
                  before |-> Row("codex_session", id).version]
  <2>1. PICK id \in Ids("codex_session") :
           RequestNoting(a, "revoke_codex_oauth_session", ForActor("codex_session", a, id),
                         <<"revoke_codex_oauth_session">>, NoKey, id, {}, TRUE,
                         next(id))
      BY <1>10 DEF RevokeCodexOauthSession, Request
  <2>2. Mutating(a, "revoke_codex_oauth_session")
      BY <1>10 DEF RevokeCodexOauthSession
  <2>3. ForActor("codex_session", a, id) => Opening(a, "revoke_codex_oauth_session", next(id))
      BY SessionOpens, KindsKnown DEF AdminKinds
  <2> HIDE DEF next
  <2> QED
      BY <2>1, <2>2, <2>3, RequestBegins DEF StoreSteps
<1>11. CASE RevokeSession(a)
    BY <1>11, SessionEndStores DEF StoreSteps
<1>12. CASE DisableUpstreamCredentialIfCurrent(a)
    BY <1>12, SessionEndStores DEF StoreSteps
<1>13. CASE DisconnectSession(a)
    BY <1>13, SessionEndStores DEF StoreSteps
<1> QED
    BY <1>1, <1>2, <1>3, <1>4, <1>5, <1>6, <1>7, <1>8, <1>9, <1>10, <1>11, <1>12, <1>13 DEF
       CodexNext

LEMMA RoutingStores ==
    ASSUME StoreInv, OpShape, NEW a \in Admins, RoutingNext(a)
    PROVE  StoreSteps(a)
<1>1. CASE ListRoutingGroups(a) \/ GetRoutingGroup(a) \/ ValidateRoutingGroup(a) \/
          ListRoutingGroupTargets(a) \/ GetRoutingGroupTarget(a) \/ ValidateRoutingGroupTarget(a) \/
          ListModelAliases(a) \/ GetModelAlias(a) \/ ValidateModelAlias(a) \/ ListRoutePolicies(a) \/
          GetRoutePolicy(a) \/ ValidateRoutePolicy(a) \/ ListProviderGrants(a) \/ GetProviderGrant(a)
          \/ ValidateProviderGrant(a)
    BY <1>1 DEF StoreSteps, Lists, Gets, Reads, Validates, store, ListRoutingGroups,
       GetRoutingGroup, ValidateRoutingGroup, ListRoutingGroupTargets, GetRoutingGroupTarget,
       ValidateRoutingGroupTarget, ListModelAliases, GetModelAlias, ValidateModelAlias,
       ListRoutePolicies, GetRoutePolicy, ValidateRoutePolicy, ListProviderGrants,
       GetProviderGrant, ValidateProviderGrant
<1>2. CASE CreateRoutingGroup(a)
    BY <1>2, CreatesBegins, RecordsFresh, KindsKnown DEF CreateRoutingGroup, StoreSteps,
       AdminKinds
<1>3. CASE StoreRoutingGroup(a)
    BY <1>3, InsertRowStores DEF StoreRoutingGroup, StoreSteps
<1>4. CASE UpdateRoutingGroup(a)
    BY <1>4, UpdatesStatusBegins, KindsKnown DEF UpdateRoutingGroup, StoreSteps, AdminKinds
<1>5. CASE UpdateRoutingGroupStatus(a)
    BY <1>5, CompareAndSetStores DEF UpdateRoutingGroupStatus, StoreSteps
<1>6. CASE CreateRoutingGroupTarget(a)
  <2> DEFINE next(group, r, key) ==
                 Inserting("group_target", RoutingGroupTargetRecord(TenantOf[a], group, r))
  <2>1. PICK group \in Ids("routing_group"), r \in Requests["group_target"], key \in Keys :
           RequestNoting(a, "create_routing_group_target", TRUE,
                         <<"create_routing_group_target", group>>, key, r, {},
                         /\ RoutingGroupTargetValidation(a, group, r)
                         /\ ValidateRoutingGroupTargetRefs(TenantOf[a], group, r),
                         next(group, r, key))
      BY <1>6 DEF CreateRoutingGroupTarget, Request
  <2>2. Mutating(a, "create_routing_group_target")
      BY <1>6 DEF CreateRoutingGroupTarget
  <2>3. Opening(a, "create_routing_group_target", next(group, r, key))
      BY RecordsFresh, InsertOpens, KindsKnown DEF AdminKinds, InsertNext, Inserting
  <2> HIDE DEF next
  <2> QED
      BY <2>1, <2>2, <2>3, RequestBegins DEF StoreSteps
<1>7. CASE StoreRoutingGroupTarget(a)
    BY <1>7, InsertRowStores DEF StoreRoutingGroupTarget, StoreSteps
<1>8. CASE UpdateRoutingGroupTarget(a)
  <2> DEFINE next(group, id, expected, status) ==
                 Writing("group_target", id, expected, NewStatus(status))
  <2>1. PICK group \in Ids("routing_group"), id \in Ids("group_target"),
              expected \in 1 .. MaxVersion, status \in ResourceStatus :
           RequestNoting(a, "update_routing_group_target", GroupTargetForActor(a, group, id),
                         <<"update_routing_group_target">>, NoKey, id, {}, TRUE,
                         next(group, id, expected, status))
      BY <1>8 DEF UpdateRoutingGroupTarget, Request
  <2>2. Mutating(a, "update_routing_group_target")
      BY <1>8 DEF UpdateRoutingGroupTarget
  <2>3. GroupTargetForActor(a, group, id) => Opening(a, "update_routing_group_target", next(group, id, expected, status))
      BY WritingNext, WriteOpens, KindsKnown DEF AdminKinds, ChangingKinds, NewStatus, GroupTargetForActor
  <2> HIDE DEF next
  <2> QED
      BY <2>1, <2>2, <2>3, RequestBegins DEF StoreSteps
<1>9. CASE UpdateRoutingGroupTargetStatus(a)
    BY <1>9, CompareAndSetStores DEF UpdateRoutingGroupTargetStatus, StoreSteps
<1>10. CASE CreateModelAlias(a)
    BY <1>10, CreatesBegins, RecordsFresh, KindsKnown DEF CreateModelAlias, StoreSteps,
       AdminKinds
<1>11. CASE StoreModelAlias(a)
    BY <1>11, InsertRowStores DEF StoreModelAlias, StoreSteps
<1>12. CASE UpdateModelAlias(a)
  <2> DEFINE next(id, expected, u) ==
                 Writing("model_alias", id, expected,
                         [status |-> u.status,
                          f |-> IF u.policy = None THEN << >> ELSE [policy |-> u.policy]])
  <2>1. PICK id \in Ids("model_alias"), expected \in 1 .. MaxVersion,
              u \in Requests["model_alias_update"] :
           RequestNoting(a, "update_model_alias", ForActor("model_alias", a, id),
                         <<"update_model_alias">>, NoKey, id, {},
                         /\ ModelAliasUpdateValidation(a, id, u)
                         /\ u.policy # None => ValidateModelAliasRoutePolicyBinding(id, u.policy),
                         next(id, expected, u))
      BY <1>12 DEF UpdateModelAlias, Request
  <2>2. Mutating(a, "update_model_alias")
      BY <1>12 DEF UpdateModelAlias
  <2>3. ForActor("model_alias", a, id) => Opening(a, "update_model_alias", next(id, expected, u))
      BY WritingNext, WriteOpens, KindsKnown DEF AdminKinds, ChangingKinds
  <2> HIDE DEF next
  <2> QED
      BY <2>1, <2>2, <2>3, RequestBegins DEF StoreSteps
<1>13. CASE WriteModelAlias(a)
    BY <1>13, CompareAndSetStores DEF WriteModelAlias, StoreSteps
<1>14. CASE CreateRoutePolicy(a)
    BY <1>14, CreatesBegins, RecordsFresh, KindsKnown DEF CreateRoutePolicy, StoreSteps,
       AdminKinds
<1>15. CASE StoreRoutePolicy(a)
    BY <1>15, InsertRowStores DEF StoreRoutePolicy, StoreSteps
<1>16. CASE UpdateRoutePolicy(a)
    BY <1>16, UpdatesStatusBegins, KindsKnown DEF UpdateRoutePolicy, StoreSteps, AdminKinds
<1>17. CASE UpdateRoutePolicyStatus(a)
    BY <1>17, CompareAndSetStores DEF UpdateRoutePolicyStatus, StoreSteps
<1>18. CASE CreateProviderGrant(a)
    BY <1>18, CreatesBegins, RecordsFresh, KindsKnown DEF CreateProviderGrant, StoreSteps,
       AdminKinds
<1>19. CASE StoreProviderGrant(a)
    BY <1>19, InsertRowStores DEF StoreProviderGrant, StoreSteps
<1>20. CASE UpdateProviderGrant(a)
    BY <1>20, UpdatesStatusBegins, KindsKnown DEF UpdateProviderGrant, StoreSteps, AdminKinds
<1>21. CASE UpdateProviderGrantStatus(a)
    BY <1>21, CompareAndSetStores DEF UpdateProviderGrantStatus, StoreSteps
<1> QED
    BY <1>1, <1>2, <1>3, <1>4, <1>5, <1>6, <1>7, <1>8, <1>9, <1>10, <1>11, <1>12, <1>13, <1>14,
       <1>15, <1>16, <1>17, <1>18, <1>19, <1>20, <1>21 DEF RoutingNext

LEMMA PolicyStores ==
    ASSUME StoreInv, OpShape, NEW a \in Admins, PolicyNext(a)
    PROVE  StoreSteps(a)
<1>1. CASE ListBudgetPolicies(a) \/ GetBudgetPolicy(a) \/ ValidateBudgetPolicy(a) \/
          ListQuotaPolicies(a) \/ GetQuotaPolicy(a) \/ ValidateQuotaPolicy(a) \/
          ListOtelExportConfigs(a) \/ GetOtelExportConfig(a) \/ ValidateOtelExportConfig(a) \/
          ListNotificationSinks(a) \/ GetNotificationSink(a) \/ ValidateNotificationSink(a) \/
          ListNotificationSubscriptions(a) \/ GetNotificationSubscription(a) \/
          ValidateNotificationSubscription(a) \/ ListLoginProviders(a) \/ GetLoginProvider(a) \/
          ValidateLoginProvider(a)
    BY <1>1 DEF StoreSteps, Lists, Gets, Reads, Validates, store, ListBudgetPolicies,
       GetBudgetPolicy, ValidateBudgetPolicy, ListQuotaPolicies, GetQuotaPolicy,
       ValidateQuotaPolicy, ListOtelExportConfigs, GetOtelExportConfig,
       ValidateOtelExportConfig, ListNotificationSinks, GetNotificationSink,
       ValidateNotificationSink, ListNotificationSubscriptions, GetNotificationSubscription,
       ValidateNotificationSubscription, ListLoginProviders, GetLoginProvider,
       ValidateLoginProvider
<1>2. CASE CreateBudgetPolicy(a)
    BY <1>2, CreatesBegins, RecordsFresh, KindsKnown DEF CreateBudgetPolicy, StoreSteps,
       AdminKinds
<1>3. CASE StoreBudgetPolicy(a)
    BY <1>3, InsertRowStores DEF StoreBudgetPolicy, StoreSteps
<1>4. CASE UpdateBudgetPolicy(a)
    BY <1>4, UpdatesStatusBegins, KindsKnown DEF UpdateBudgetPolicy, StoreSteps, AdminKinds
<1>5. CASE UpdateBudgetPolicyStatus(a)
    BY <1>5, CompareAndSetStores DEF UpdateBudgetPolicyStatus, StoreSteps
<1>6. CASE CreateQuotaPolicy(a)
    BY <1>6, CreatesBegins, RecordsFresh, KindsKnown DEF CreateQuotaPolicy, StoreSteps,
       AdminKinds
<1>7. CASE StoreQuotaPolicy(a)
    BY <1>7, InsertRowStores DEF StoreQuotaPolicy, StoreSteps
<1>8. CASE UpdateQuotaPolicy(a)
    BY <1>8, UpdatesStatusBegins, KindsKnown DEF UpdateQuotaPolicy, StoreSteps, AdminKinds
<1>9. CASE UpdateQuotaPolicyStatus(a)
    BY <1>9, CompareAndSetStores DEF UpdateQuotaPolicyStatus, StoreSteps
<1>10. CASE CreateOtelExportConfig(a)
    BY <1>10, CreatesBegins, RecordsFresh, KindsKnown DEF CreateOtelExportConfig, StoreSteps,
       AdminKinds
<1>11. CASE StoreOtelExportConfig(a)
    BY <1>11, InsertRowStores DEF StoreOtelExportConfig, StoreSteps
<1>12. CASE UpdateOtelExportConfig(a)
  <2> DEFINE next(id, expected, u) ==
                 Writing("otel_config", id, expected,
                         [status |-> u.status,
                          f |-> Scoped(TenantOf[a], Merged("otel_config", id, u))])
  <2>1. PICK id \in Ids("otel_config"), expected \in 1 .. MaxVersion,
              u \in Requests["otel_config_update"] :
           RequestNoting(a, "update_otel_export_config", ForActor("otel_config", a, id),
                         <<"update_otel_export_config">>, NoKey, id, {},
                         /\ OtelExportConfigValidation(a, Merged("otel_config", id, u), {id})
                         /\ Row("otel_config", id).version = expected
                         /\ ValidateOtelExportConfigRequest(TenantOf[a], Merged("otel_config", id, u), {id}),
                         next(id, expected, u))
      BY <1>12 DEF UpdateOtelExportConfig, Request
  <2>2. Mutating(a, "update_otel_export_config")
      BY <1>12 DEF UpdateOtelExportConfig
  <2>3. ForActor("otel_config", a, id) => Opening(a, "update_otel_export_config", next(id, expected, u))
      BY WritingNext, WriteOpens, KindsKnown DEF AdminKinds, ChangingKinds
  <2> HIDE DEF next
  <2> QED
      BY <2>1, <2>2, <2>3, RequestBegins DEF StoreSteps
<1>13. CASE DisableOtelExportConfig(a)
  <2> DEFINE next(id, expected) ==
                 Writing("otel_config", id, expected,
                         [status |-> "disabled",
                          f |-> Scoped(TenantOf[a], Row("otel_config", id).f)])
  <2>1. PICK id \in Ids("otel_config"), expected \in 1 .. MaxVersion :
           RequestNoting(a, "disable_otel_export_config", ForActor("otel_config", a, id),
                         <<"disable_otel_export_config">>, NoKey, id, {},
                         /\ Row("otel_config", id).version = expected
                         /\ ValidateOtelExportConfigRequest(TenantOf[a], Row("otel_config", id).f, {id}),
                         next(id, expected))
      BY <1>13 DEF DisableOtelExportConfig, Request
  <2>2. Mutating(a, "disable_otel_export_config")
      BY <1>13 DEF DisableOtelExportConfig
  <2>3. ForActor("otel_config", a, id) => Opening(a, "disable_otel_export_config", next(id, expected))
      BY WritingNext, WriteOpens, KindsKnown DEF AdminKinds, ChangingKinds
  <2> HIDE DEF next
  <2> QED
      BY <2>1, <2>2, <2>3, RequestBegins DEF StoreSteps
<1>14. CASE WriteOtelExportConfig(a)
    BY <1>14, WriteUncheckedStores DEF WriteOtelExportConfig, StoreSteps
<1>15. CASE CreateNotificationSink(a)
    BY <1>15, CreatesBegins, RecordsFresh, KindsKnown DEF CreateNotificationSink, StoreSteps,
       AdminKinds
<1>16. CASE StoreNotificationSink(a)
    BY <1>16, InsertRowStores DEF StoreNotificationSink, StoreSteps
<1>17. CASE UpdateNotificationSink(a)
  <2> DEFINE next(id, expected, u) ==
                 Writing("sink", id, expected, [status |-> u.status, f |-> Merged("sink", id, u)])
  <2>1. PICK id \in Ids("sink"), expected \in 1 .. MaxVersion, u \in Requests["sink_update"] :
           RequestNoting(a, "update_notification_sink", u.status \in SinkStatus \cup {"keep"} /\ ForActor("sink", a, id),
                         <<"update_notification_sink">>, NoKey, id, {},
                         /\ NotificationSinkValidation(a, Merged("sink", id, u), {id})
                         /\ Row("sink", id).version = expected
                         /\ ValidateNotificationSinkRequest(TenantOf[a], Merged("sink", id, u), {id}),
                         next(id, expected, u))
      BY <1>17 DEF UpdateNotificationSink, Request
  <2>2. Mutating(a, "update_notification_sink")
      BY <1>17 DEF UpdateNotificationSink
  <2>3. ForActor("sink", a, id) => Opening(a, "update_notification_sink", next(id, expected, u))
      BY WritingNext, WriteOpens, KindsKnown DEF AdminKinds, ChangingKinds
  <2> HIDE DEF next
  <2> QED
      BY <2>1, <2>2, <2>3, RequestBegins DEF StoreSteps
<1>18. CASE WriteNotificationSink(a)
    BY <1>18, WriteUncheckedStores DEF WriteNotificationSink, StoreSteps
<1>19. CASE CreateNotificationSubscription(a)
  <2> DEFINE next(sink, r, key) ==
                 [about |-> <<"sink", sink>>]
                   ++ Inserting("subscription",
                                NotificationSubscriptionRecord(TenantOf[a], sink, r))
  <2>1. PICK sink \in Ids("sink"), r \in Requests["subscription"], key \in Keys :
           RequestNoting(a, "create_notification_subscription", TRUE,
                         <<"create_notification_subscription", sink>>, key, r, {},
                         /\ NotificationSubscriptionValidation(a, sink, r)
                         /\ ValidateNotificationSubscriptionRequest(TenantOf[a], sink, r),
                         next(sink, r, key))
      BY <1>19 DEF CreateNotificationSubscription, Request
  <2>2. Mutating(a, "create_notification_subscription")
      BY <1>19 DEF CreateNotificationSubscription
  <2>3. InsertNext(a, Inserting("subscription",
                                NotificationSubscriptionRecord(TenantOf[a], sink, r)))
      BY RecordsFresh, KindsKnown DEF AdminKinds, InsertNext, Inserting
  <2>4. Opening(a, "create_notification_subscription", next(sink, r, key))
      BY <2>3, InsertOpens, MoreInsert
  <2> HIDE DEF next
  <2> QED
      BY <2>1, <2>2, <2>4, RequestBegins DEF StoreSteps
<1>20. CASE StoreNotificationSubscription(a)
    BY <1>20, InsertRowStores DEF StoreNotificationSubscription, StoreSteps
<1>21. CASE UpdateNotificationSubscription(a)
  <2> DEFINE next(sink, id, expected, status) ==
                 [about |-> <<"sink", sink>>]
                   ++ Writing("subscription", id, expected, NewStatus(status))
  <2>1. PICK sink \in Ids("sink"), id \in Ids("subscription"),
              expected \in 1 .. MaxVersion, status \in {"active", "disabled", "deleted"} :
           RequestNoting(a, "update_notification_subscription", SubscriptionForActor(a, sink, id),
                         <<"update_notification_subscription">>, NoKey, id, {}, TRUE,
                         next(sink, id, expected, status))
      BY <1>21 DEF UpdateNotificationSubscription, Request
  <2>2. Mutating(a, "update_notification_subscription")
      BY <1>21 DEF UpdateNotificationSubscription
  <2>3. SubscriptionForActor(a, sink, id)
          => Opening(a, "update_notification_subscription", next(sink, id, expected, status))
      BY WritingNext, MoreWrite, WriteOpens, KindsKnown
         DEF AdminKinds, NewStatus, SubscriptionForActor
  <2> HIDE DEF next
  <2> QED
      BY <2>1, <2>2, <2>3, RequestBegins DEF StoreSteps
<1>22. CASE UpdateNotificationSubscriptionStatus(a)
    BY <1>22, CompareAndSetStores DEF UpdateNotificationSubscriptionStatus, StoreSteps
<1>23. CASE CreateLoginProvider(a)
    BY <1>23, CreatesBegins, RecordsFresh, KindsKnown DEF CreateLoginProvider, StoreSteps,
       AdminKinds
<1>24. CASE StoreLoginProvider(a)
    BY <1>24, InsertRowStores DEF StoreLoginProvider, StoreSteps
<1>25. CASE UpdateLoginProvider(a)
    BY <1>25, UpdatesStatusBegins, KindsKnown DEF UpdateLoginProvider, StoreSteps, AdminKinds
<1>26. CASE UpdateLoginProviderStatus(a)
    BY <1>26, CompareAndSetStores DEF UpdateLoginProviderStatus, StoreSteps
<1> QED
    BY <1>1, <1>2, <1>3, <1>4, <1>5, <1>6, <1>7, <1>8, <1>9, <1>10, <1>11, <1>12, <1>13, <1>14,
       <1>15, <1>16, <1>17, <1>18, <1>19, <1>20, <1>21, <1>22, <1>23, <1>24, <1>25, <1>26 DEF
       PolicyNext

LEMMA OperationStores ==
    ASSUME StoreInv, OpShape, NEW a \in Admins, OperationNext(a)
    PROVE  StoreSteps(a)
<1>1. CASE ListMaintenanceWindows(a) \/ GetMaintenanceWindow(a) \/ ValidateMaintenanceWindow(a)
          \/ ListEmergencyOperations(a) \/ GetEmergencyOperation(a) \/ ListExportJobs(a) \/
          GetExportJob(a) \/ GetExportJobManifest(a)
    BY <1>1 DEF StoreSteps, Lists, Gets, Reads, Validates, store, ListMaintenanceWindows,
       GetMaintenanceWindow, ValidateMaintenanceWindow, ListEmergencyOperations,
       GetEmergencyOperation, ListExportJobs, GetExportJob, GetExportJobManifest
<1>2. CASE CreateMaintenanceWindow(a)
    BY <1>2, CreatesBegins, RecordsFresh, KindsKnown DEF CreateMaintenanceWindow, StoreSteps,
       AdminKinds
<1>3. CASE StoreMaintenanceWindow(a)
    BY <1>3, InsertRowStores DEF StoreMaintenanceWindow, StoreSteps
<1>4. CASE UpdateMaintenanceWindow(a)
    BY <1>4, UpdatesStatusBegins, KindsKnown DEF UpdateMaintenanceWindow, StoreSteps,
       AdminKinds
<1>5. CASE UpdateMaintenanceWindowStatus(a)
    BY <1>5, CompareAndSetStores DEF UpdateMaintenanceWindowStatus, StoreSteps
<1>6. CASE EmergencyDisableUpstreamCredential(a)
  <2>1. PICK id \in Ids("upstream_credential"), r \in Requests["emergency"] :
           Emergency(a, "emergency_disable_upstream_credential", "disable_upstream_credential",
                     "upstream_credential", id, r, TRUE,
                     [then |-> "emergency"]
                       ++ Writing("upstream_credential", id, r.expected, NewStatus("disabled")))
      BY <1>6 DEF EmergencyDisableUpstreamCredential
  <2>2. Mutating(a, "emergency_disable_upstream_credential")
      BY <1>6 DEF EmergencyDisableUpstreamCredential
  <2>3. "upstream_credential" \in Kinds \ {"emergency_operation"}
      BY KindsKnown DEF AdminKinds
  <2> QED
      BY <2>1, <2>2, <2>3, EmergencyWriteBegins DEF StoreSteps, ChangingKinds
<1>7. CASE EmergencyDisableProviderEndpoint(a)
  <2>1. PICK id \in Ids("provider_endpoint"), r \in Requests["emergency"] :
           Emergency(a, "emergency_disable_provider_endpoint", "disable_provider_endpoint",
                     "provider_endpoint", id, r, TRUE,
                     [then |-> "drain"]
                       ++ Writing("provider_endpoint", id, r.expected, NewStatus("disabled")))
      BY <1>7 DEF EmergencyDisableProviderEndpoint
  <2>2. Mutating(a, "emergency_disable_provider_endpoint")
      BY <1>7 DEF EmergencyDisableProviderEndpoint
  <2>3. "provider_endpoint" \in Kinds \ {"emergency_operation"}
      BY KindsKnown DEF AdminKinds
  <2> QED
      BY <2>1, <2>2, <2>3, EmergencyWriteBegins DEF StoreSteps, ChangingKinds
<1>8. CASE EmergencyDrainRoutingGroup(a)
  <2>1. PICK id \in Ids("routing_group"), r \in Requests["emergency"] :
           Emergency(a, "emergency_drain_routing_group", "drain_routing_group",
                     "routing_group", id, r, TRUE,
                     [then |-> "emergency"]
                       ++ Writing("routing_group", id, r.expected, NewStatus("draining")))
      BY <1>8 DEF EmergencyDrainRoutingGroup
  <2>2. Mutating(a, "emergency_drain_routing_group")
      BY <1>8 DEF EmergencyDrainRoutingGroup
  <2>3. "routing_group" \in Kinds \ {"emergency_operation"}
      BY KindsKnown DEF AdminKinds
  <2> QED
      BY <2>1, <2>2, <2>3, EmergencyWriteBegins DEF StoreSteps, ChangingKinds
<1>9. CASE EmergencyForceBudgetBlock(a)
  <2>1. PICK id \in Ids("budget_policy"), r \in Requests["emergency"] :
           Emergency(a, "emergency_force_budget_block", "force_budget_block",
                     "budget_policy", id, r, r.expected = Row("budget_policy", id).version,
                     [pc |-> "emergency", before |-> r.expected, after |-> r.expected])
      BY <1>9 DEF EmergencyForceBudgetBlock
  <2>2. Mutating(a, "emergency_force_budget_block")
      BY <1>9 DEF EmergencyForceBudgetBlock
  <2> QED
      BY <2>1, <2>2, EmergencyBlockBegins DEF StoreSteps
<1>10. CASE EmergencyFreezeConfig(a)
  <2> DEFINE next(r, key) ==
                 [pc |-> "emergency", before |-> None, after |-> 1,
                  row |-> EmergencyOperationRecord(TenantOf[a], "freeze_config",
                                                   <<"config", TenantOf[a]>>, r.expires)]
  <2>1. PICK r \in Requests["emergency"], key \in Keys :
           RequestNoting(a, "emergency_freeze_config", ValidateEmergencyOperationRequest(r),
                         <<"freeze_config", TenantOf[a]>>, key, r, {}, TRUE,
                         next(r, key))
      BY <1>10 DEF EmergencyFreezeConfig, Request
  <2>2. Mutating(a, "emergency_freeze_config")
      BY <1>10 DEF EmergencyFreezeConfig
  <2>3. Opening(a, "emergency_freeze_config", next(r, key))
      BY EmergencyOpens, EmergencyRecordReady
  <2> HIDE DEF next
  <2> QED
      BY <2>1, <2>2, <2>3, RequestBegins DEF StoreSteps
<1>11. CASE SetEndpointEmergencyDrain(a)
    BY <1>11, DrainStores DEF StoreSteps
<1>12. CASE StoreEmergencyOperation(a)
    BY <1>12, EmergencyStores DEF StoreSteps
<1>13. CASE CreateExportJob(a)
  <2> DEFINE next(r, key) ==
                 [then |-> "build", expires |-> clock + r.retention, backend |-> r.backend]
                   ++ Inserting("export_job",
                                NewRow(TenantOf[a], [export_kind |-> r.export_kind], "pending"))
  <2>1. PICK r \in Requests["export_job"], key \in Keys :
           RequestNoting(a, "create_export_job", ExportJobRequest(r) /\ UsageScope(a, r),
                         <<"create_export_job">>, key, r, {}, ExportLimits(r),
                         next(r, key))
      BY <1>13 DEF CreateExportJob, Request
  <2>2. Mutating(a, "create_export_job")
      BY <1>13 DEF CreateExportJob
  <2>3. FreshRow(a, NewRow(TenantOf[a], [export_kind |-> r.export_kind], "pending"))
      BY NewRowFresh DEF IsFcn
  <2>4. InsertNext(a, next(r, key))
      BY <2>3, KindsKnown DEF AdminKinds, InsertNext, Inserting, ++
  <2>5. Opening(a, "create_export_job", next(r, key))
      BY <2>4, InsertOpens
  <2> HIDE DEF next
  <2> QED
      BY <2>1, <2>2, <2>5, RequestBegins DEF StoreSteps
<1>14. CASE StoreExportJob(a)
    BY <1>14, InsertRowStores DEF StoreExportJob, StoreSteps
<1>15. CASE CompleteExportJob(a)
    BY <1>15, ExportStores DEF StoreSteps
<1>16. CASE StoreExportManifest(a)
    BY <1>16, ExportStores DEF StoreSteps
<1>17. CASE Disconnect(a)
    BY <1>17, DisconnectStores DEF StoreSteps
<1> QED
    BY <1>1, <1>2, <1>3, <1>4, <1>5, <1>6, <1>7, <1>8, <1>9, <1>10, <1>11, <1>12, <1>13, <1>14,
       <1>15, <1>16, <1>17 DEF OperationNext

\* The case split of AdminSteps, with what the steps do to the store.
LEMMA AdminStoreSteps ==
    ASSUME StoreInv, OpShape, Next
    PROVE  \/ \E a \in Admins : (Steps(a) /\ StoreSteps(a)) \/ Finish(a)
           \/ Tick
<1> SUFFICES ASSUME NEW a \in Admins,
                    ProviderNext(a) \/ CodexNext(a) \/ RoutingNext(a) \/ PolicyNext(a)
                      \/ OperationNext(a)
             PROVE  Steps(a) /\ StoreSteps(a)
    BY DEF Next
<1>1. Steps(a)
    BY ProviderSteps, CodexSteps, RoutingSteps, PolicySteps, OperationSteps
<1>2. StoreSteps(a)
    BY ProviderStores, CodexStores, RoutingStores, PolicyStores, OperationStores
<1> QED
    BY <1>1, <1>2

\* Put together: a step that touches neither the store nor the requests, a
\* request taken up, and a step of a request in flight.
Rests == UNCHANGED <<db, secrets, op, audit, dropped, scenario>>
TakesUp(a) == Asks(a) /\ Enters(a) /\ Begins(a)
GoesOn(a) == Moves(a) /\ MoveOK(a)

LEMMA AdminStepKinds ==
    ASSUME StoreInv, OpShape, Next
    PROVE  \/ Rests
           \/ \E a \in Admins : TakesUp(a) \/ GoesOn(a) \/ Finish(a)
<1>1. ASSUME Tick PROVE Rests
    BY <1>1 DEF Tick, Rests, store, records
<1>2. ASSUME NEW a \in Admins, Steps(a), StoreSteps(a)
      PROVE  Rests \/ TakesUp(a) \/ GoesOn(a)
  <2>1. CASE Looks(a)
      BY <2>1 DEF Looks, Rests, fixed
  <2>2. CASE Asks(a)
    <3>1. CASE op' = op
        BY <2>2, <3>1 DEF Asks, Rests, fixed
    <3>2. CASE op' # op
      <4>1. op[a] = NoOp /\ Enters(a)
          BY <2>2, <3>2 DEF Asks
      <4>2. Begins(a)
          BY <1>2, <3>2, <4>1 DEF StoreSteps, MoveOK
      <4> QED
          BY <2>2, <4>1, <4>2 DEF TakesUp
    <3> QED
        BY <3>1, <3>2
  <2>3. CASE Moves(a)
    <3>1. CASE UNCHANGED <<db, secrets, op>>
      <4>1. dropped' = dropped /\ UNCHANGED <<audit, scenario>>
          BY <2>3, <3>1 DEF Moves
      <4> QED
          BY <3>1, <4>1 DEF Rests
    <3>2. CASE MoveOK(a)
        BY <2>3, <3>2 DEF GoesOn
    <3> QED
        BY <1>2, <2>3, <3>1, <3>2 DEF StoreSteps, Begins, Moves
  <2> QED
      BY <1>2, <2>1, <2>2, <2>3 DEF Steps
<1> QED
    BY <1>1, <1>2, AdminStoreSteps

\* What the end of a handler leaves alone.
LEMMA FinishFrame ==
    ASSUME OpShape, NEW a \in Admins, Finish(a)
    PROVE  /\ op[a] # NoOp /\ op[a].pc = "finish" /\ op'[a] = NoOp
           /\ DOMAIN op' = Admins /\ \A b \in Admins \ {a} : op'[b] = op[b]
           /\ UNCHANGED <<db, secrets, clock, dropped, scenario>>
BY DEF Finish, OpShape, NoOp, store, fixed

\* A rival of a request that is taken up keeps all but "alone".
LEMMA RivalKeeps ==
    ASSUME OpShape, NEW a \in Admins, Enters(a), NEW b \in Admins \ {a}
    PROVE  /\ op'[b] = NoOp <=> op[b] = NoOp
           /\ op'[b] # op[b] => op'[b] = [op[b] EXCEPT !.alone = FALSE] /\ Whole(op[b])
           /\ op[b] # NoOp => /\ DOMAIN op'[b] = DOMAIN op[b]
                              /\ \A f \in DOMAIN op[b] \ {"alone"} : op'[b][f] = op[b][f]
<1>1. op'[b] = op[b] \/ (b \in Rivals(a, op'[a].scope, op'[a].key)
                         /\ op'[b] = [op[b] EXCEPT !.alone = FALSE])
    BY DEF Enters
<1>2. b \in Rivals(a, op'[a].scope, op'[a].key) => op[b] # NoOp
    BY DEF Rivals
<1>3. op[b] # NoOp => Whole(op[b])
    BY DEF OpShape
<1>4. ASSUME op[b] # NoOp, op'[b] = [op[b] EXCEPT !.alone = FALSE]
      PROVE  /\ op'[b] # NoOp /\ DOMAIN op'[b] = DOMAIN op[b]
             /\ \A f \in DOMAIN op[b] \ {"alone"} : op'[b][f] = op[b][f]
    BY <1>3, <1>4 DEF Whole, Carried, NoOp
<1> QED
    BY <1>1, <1>2, <1>3, <1>4
-----------------------------------------------------------------------------
(* The store                                                               *)

LEMMA StoreInvInit == AdminInit => StoreInv
<1> SUFFICES ASSUME AdminInit PROVE StoreInv
    OBVIOUS
<1>1. /\ db = Seed /\ \A a \in Admins : op[a] = NoOp
      /\ DOMAIN secrets = 1 .. Len(Seed["secret_ref"])
    BY DEF AdminInit
<1>2. \A k \in Kinds : IsRows(Seed[k])
  <2> SUFFICES ASSUME NEW k \in Kinds PROVE IsRows(Seed[k])
      OBVIOUS
  <2>1. ASSUME NEW i \in DOMAIN Seed[k] PROVE RowShape(Seed[k][i])
    <3> DEFINE row == Seed[k][i]
    <3>1. /\ row = NewRow(row.tenant, row.f, row.status)
          /\ row.tenant \in Nat /\ row.f = [x \in DOMAIN row.f |-> row.f[x]]
        BY SeedAssumption
    <3> HIDE DEF row
    <3>2. RowShape(row)
        BY <3>1 DEF NewRow, RowShape, IsFcn
    <3> QED
        BY <3>2 DEF row
  <2> QED
      BY <2>1, SeedAssumption DEF IsRows
<1>3. "emergency_operation" \in Kinds
    BY KindsKnown DEF AdminKinds
<1>4. \A i \in Ids("emergency_operation") : Row("emergency_operation", i).status = "applied"
    BY <1>1, <1>2, <1>3, RowsAreSeq, SeedAssumption DEF Ids, Row
<1> QED
    BY <1>1, <1>2, <1>4 DEF StoreInv, DbOK, Kinds, Ids

LEMMA StoreInvNext ==
    ASSUME StoreInv, OpShape, Next
    PROVE  StoreInv'
<1>1. CASE Rests
    BY <1>1 DEF Rests, StoreInv, DbOK, Ids, Row, Ready, HasRow, OwnRow, EmergencyReady,
                InsertReady, WriteReady, SessionReady, Unversioned, FreshRow
<1>2. ASSUME NEW a \in Admins, TakesUp(a) PROVE StoreInv'
  <2>1. UNCHANGED <<db, secrets>> /\ op[a] = NoOp /\ Enters(a)
      BY <1>2 DEF TakesUp, Begins
  <2>2. Ready(a, op[a])'
    <3>1. op' # op
        BY <2>1 DEF Enters, Whole, Carried, NoOp
    <3> QED
        BY <1>2, <3>1 DEF TakesUp, Begins
  <2>3. ASSUME NEW b \in Admins \ {a}, op'[b] # NoOp PROVE Ready(b, op[b])'
    <3>1. op[b] # NoOp /\ Ready(b, op[b])
        BY <2>1, <2>3, RivalKeeps DEF StoreInv
    <3>2. op'[b] # op[b] => op'[b] = [op[b] EXCEPT !.alone = FALSE] /\ Whole(op[b])
        BY <2>1, RivalKeeps
    <3>3. Whole(op[b]) => Ready(b, [op[b] EXCEPT !.alone = FALSE])
        BY <3>1, RivalReady
    <3>4. Ready(b, op'[b])
        BY <3>1, <3>2, <3>3
    <3> QED
        BY <2>1, <3>4, ReadyNow
  <2>4. DbOK' /\ DOMAIN secrets' \subseteq Ids("secret_ref")'
      BY <2>1 DEF StoreInv, DbOK, Ids, Row
  <2> QED
      BY <2>2, <2>3, <2>4 DEF StoreInv
<1>3. ASSUME NEW a \in Admins, GoesOn(a) PROVE StoreInv'
  <2>1. Grows /\ DOMAIN secrets' \subseteq 1 .. Len(db'["secret_ref"])
      BY <1>3 DEF GoesOn, MoveOK
  <2>2. op'[a] # NoOp => Ready(a, op[a])'
      BY <1>3 DEF GoesOn, MoveOK
  <2>3. ASSUME NEW b \in Admins \ {a}, op'[b] # NoOp PROVE Ready(b, op[b])'
    <3>1. op'[b] = op[b]
        BY <1>3 DEF GoesOn, Moves
    <3> QED
        BY <2>1, <2>3, <3>1, ReadyStays DEF StoreInv
  <2> QED
      BY <2>1, <2>2, <2>3 DEF StoreInv, Grows, Ids
<1>4. ASSUME NEW a \in Admins, Finish(a) PROVE StoreInv'
  <2>1. /\ op'[a] = NoOp /\ \A b \in Admins \ {a} : op'[b] = op[b]
        /\ UNCHANGED <<db, secrets>>
      BY <1>4, FinishFrame
  <2>2. ASSUME NEW b \in Admins \ {a}, op'[b] # NoOp PROVE Ready(b, op[b])'
      BY <2>1, <2>2, ReadyNow DEF StoreInv
  <2>3. DbOK' /\ DOMAIN secrets' \subseteq Ids("secret_ref")'
      BY <2>1 DEF StoreInv, DbOK, Ids, Row
  <2> QED
      BY <2>1, <2>2, <2>3 DEF StoreInv
<1> QED
    BY <1>1, <1>2, <1>3, <1>4, AdminStepKinds
-----------------------------------------------------------------------------
(* The freeze                                                              *)

\* The requests in flight that may still slip past the freeze of audit event j.
MaySlip(j) ==
    LET freeze == Row("emergency_operation", audit[j].resource[2])
    IN {a \in Admins : /\ op[a] # NoOp
                       /\ TenantOf[a] = audit[j].tenant
                       /\ ~ RouteAllowedDuringConfigFreeze(op[a].route)
                       /\ freeze.f.expires > op[a].at}

\* An audited emergency operation is in the table, in the tenant of its event; and
\* those that slipped past a freeze and those that still may are together fewer
\* than the requests its tenant may have in flight.
OperationsKnown ==
    \A j \in DOMAIN audit : audit[j].resource[1] = "emergency_operation" =>
        /\ audit[j].resource[2] \in Ids("emergency_operation")
        /\ Row("emergency_operation", audit[j].resource[2]).tenant = audit[j].tenant
FreezeInv ==
    /\ OperationsKnown
    /\ \A j \in FreezesAudited :
         Cardinality(SlippedPast(j)) + Cardinality(MaySlip(j))
           < Cardinality(AdminsOf(audit[j].tenant))

LEMMA EmergencyTable ==
    ASSUME DbOK
    PROVE  /\ "emergency_operation" \in Kinds /\ Len(db["emergency_operation"]) \in Nat
           /\ Ids("emergency_operation") = 1 .. Len(db["emergency_operation"])
<1>1. "emergency_operation" \in Kinds
    BY KindsKnown DEF AdminKinds
<1> QED
    BY <1>1, RowsAreSeq DEF DbOK, Ids

LEMMA FreezeInvInit == AdminInit => FreezeInv
BY DEF AdminInit, FreezeInv, OperationsKnown, FreezesAudited

\* The sets that are counted are finite.
LEMMA FreezeFinite ==
    ASSUME TimesOK, NEW j, NEW t
    PROVE  /\ IsFiniteSet(SlippedPast(j)) /\ Cardinality(SlippedPast(j)) \in Nat
           /\ IsFiniteSet(MaySlip(j)) /\ Cardinality(MaySlip(j)) \in Nat
           /\ IsFiniteSet(AdminsOf(t)) /\ Cardinality(AdminsOf(t)) \in Nat
<1>1. IsFiniteSet(SlippedPast(j))
  <2>1. Len(audit) \in Nat /\ DOMAIN audit = 1 .. Len(audit)
      BY DEF TimesOK
  <2>2. IsFiniteSet(DOMAIN audit)
      BY <2>1, FS_Interval
  <2>3. SlippedPast(j) \subseteq DOMAIN audit
      BY DEF SlippedPast
  <2> QED
      BY <2>2, <2>3, FS_Subset
<1>2. IsFiniteSet(MaySlip(j)) /\ IsFiniteSet(AdminsOf(t))
  <2>1. MaySlip(j) \subseteq Admins /\ AdminsOf(t) \subseteq Admins
      BY DEF MaySlip, AdminsOf
  <2> QED
      BY <2>1, AdminAssumption, FS_Subset
<1> QED
    BY <1>1, <1>2, FS_CardinalityType

\* Emergency operations are only added, so an audited one stays as it was.
LEMMA OperationsStay ==
    ASSUME DbOK, Grows \/ UNCHANGED db, NEW i \in Ids("emergency_operation")
    PROVE  i \in Ids("emergency_operation")' /\ db'["emergency_operation"][i] = Row("emergency_operation", i)
<1>1. CASE UNCHANGED db
    BY <1>1 DEF Ids, Row
<1>2. CASE Grows
  <2>1. /\ "emergency_operation" \in Kinds /\ Len(db["emergency_operation"]) \in Nat
        /\ Ids("emergency_operation") = 1 .. Len(db["emergency_operation"])
      BY EmergencyTable
  <2>2. Len(db'["emergency_operation"]) \in Nat
      BY <1>2, <2>1, RowsAreSeq DEF Grows, DbOK
  <2> QED
      BY <1>2, <2>1, <2>2 DEF Grows, Ids
<1> QED
    BY <1>1, <1>2

\* While nothing is audited, it is enough that no request is let past a freeze.
LEMMA FreezeKept ==
    ASSUME DbOK, Grows \/ UNCHANGED db, TimesOK, FreezeInv, audit' = audit,
           \A j \in FreezesAudited :
              LET freeze == Row("emergency_operation", audit[j].resource[2])
              IN \A b \in Admins :
                   (/\ op'[b] # NoOp /\ TenantOf[b] = audit[j].tenant
                    /\ ~ RouteAllowedDuringConfigFreeze(op'[b].route)
                    /\ freeze.f.expires > op'[b].at) => b \in MaySlip(j)
    PROVE  FreezeInv'
<1>1. \A j \in DOMAIN audit : audit[j].resource[1] = "emergency_operation" =>
         /\ audit[j].resource[2] \in Ids("emergency_operation")
         /\ audit[j].resource[2] \in Ids("emergency_operation")'
         /\ db'["emergency_operation"][audit[j].resource[2]]
              = Row("emergency_operation", audit[j].resource[2])
    BY OperationsStay DEF FreezeInv, OperationsKnown
<1>2. OperationsKnown'
    BY <1>1 DEF FreezeInv, OperationsKnown, Row
<1>3. FreezesAudited' = FreezesAudited
    BY <1>1 DEF FreezesAudited, Row
<1>4. ASSUME NEW j \in FreezesAudited
      PROVE  (Cardinality(SlippedPast(j)) + Cardinality(MaySlip(j))
                < Cardinality(AdminsOf(audit[j].tenant)))'
  <2>1. db'["emergency_operation"][audit[j].resource[2]]
          = Row("emergency_operation", audit[j].resource[2])
      BY <1>1 DEF FreezesAudited
  <2>2. SlippedPast(j)' = SlippedPast(j)
      BY <2>1 DEF SlippedPast, Row
  <2>3. MaySlip(j)' \subseteq MaySlip(j)
      BY <2>1 DEF MaySlip, Row
  <2>4. /\ Cardinality(MaySlip(j)') <= Cardinality(MaySlip(j))
        /\ Cardinality(MaySlip(j)') \in Nat
      BY <2>3, FreezeFinite, FS_Subset, FS_CardinalityType
  <2>5. Cardinality(SlippedPast(j)) + Cardinality(MaySlip(j))
          < Cardinality(AdminsOf(audit[j].tenant))
      BY DEF FreezeInv
  <2>6. AdminsOf(audit[j].tenant)' = AdminsOf(audit[j].tenant)
      BY DEF AdminsOf
  <2> QED
      BY <2>2, <2>4, <2>5, <2>6, FreezeFinite
<1> QED
    BY <1>2, <1>3, <1>4 DEF FreezeInv

\* A request that is audited has slipped past instead of still being able to.
LEMMA FreezeFinished ==
    ASSUME StoreInv, OpShape, TimesOK, FreezeInv, NEW a \in Admins, Finish(a)
    PROVE  FreezeInv'
<1> DEFINE e == AuditEvent(a)
<1>1. /\ op[a] # NoOp /\ op[a].pc = "finish" /\ op'[a] = NoOp
      /\ \A b \in Admins \ {a} : op'[b] = op[b]
      /\ UNCHANGED db
    BY FinishFrame
<1>2. HasRow(a, op[a]) /\ "tenant" \notin DOMAIN op[a] /\ AboutSink(op[a])
    BY <1>1 DEF StoreInv, Ready, OpShape, Whole
<1>3. e.tenant = TenantOf[a] /\ e.route = op[a].route /\ e.at = op[a].at /\ e.resource = Audited(a)
    BY <1>2 DEF AuditEvent, ActingTenant
<1>4. e.resource[1] = "emergency_operation" =>
         /\ e.resource[2] \in Ids("emergency_operation")
         /\ Row("emergency_operation", e.resource[2]).tenant = TenantOf[a]
    BY <1>2, <1>3 DEF Audited, AboutSink, HasRow, OwnRow
<1>5. audit' = Append(audit, e)
    BY DEF Finish
<1> HIDE DEF e
<1>n. PICK n : n = Len(audit) + 1
    OBVIOUS
<1>6. /\ Len(audit) \in Nat /\ DOMAIN audit = 1 .. Len(audit)
      /\ DOMAIN audit' = 1 .. n /\ audit'[n] = e
      /\ \A i \in DOMAIN audit : i \in DOMAIN audit' /\ i < n /\ audit'[i] = audit[i]
      /\ \A i \in DOMAIN audit' : i = n \/ i \in DOMAIN audit
    BY <1>5, <1>n DEF TimesOK
<1>7. OperationsKnown'
    BY <1>1, <1>3, <1>4, <1>6 DEF FreezeInv, OperationsKnown, Ids, Row
<1>8. ASSUME NEW j \in DOMAIN audit, j \in FreezesAudited
      PROVE  (Cardinality(SlippedPast(j)) + Cardinality(MaySlip(j))
                < Cardinality(AdminsOf(audit[j].tenant)))'
  <2>1. audit'[j] = audit[j]
      BY <1>6
  <2>2. Cardinality(SlippedPast(j)) + Cardinality(MaySlip(j))
          < Cardinality(AdminsOf(audit[j].tenant))
      BY <1>8 DEF FreezeInv
  <2>3. AdminsOf(audit[j].tenant)' = AdminsOf(audit[j].tenant)
      BY <2>1 DEF AdminsOf
  <2>4. MaySlip(j)' = MaySlip(j) \ {a}
      BY <1>1, <2>1 DEF MaySlip, Row
  <2>5. CASE a \in MaySlip(j)
    <3>1. SlippedPast(j)' \subseteq SlippedPast(j) \cup {n}
        BY <1>1, <1>6, <2>1 DEF SlippedPast, Row
    <3>2. n \notin SlippedPast(j)
        BY <1>n, <1>6 DEF SlippedPast
    <3>3. /\ Cardinality(SlippedPast(j) \cup {n}) = Cardinality(SlippedPast(j)) + 1
          /\ IsFiniteSet(SlippedPast(j) \cup {n})
        BY <3>2, FreezeFinite, FS_AddElement
    <3>4. /\ Cardinality(SlippedPast(j)') <= Cardinality(SlippedPast(j)) + 1
          /\ Cardinality(SlippedPast(j)') \in Nat
        BY <3>1, <3>3, FS_Subset, FS_CardinalityType
    <3>5. Cardinality(MaySlip(j)') = Cardinality(MaySlip(j)) - 1
        BY <2>4, <2>5, FreezeFinite, FS_RemoveElement
    <3> QED
        BY <2>2, <2>3, <3>4, <3>5, FreezeFinite
  <2>6. CASE a \notin MaySlip(j)
    <3>1. ~ (/\ e.tenant = audit[j].tenant
             /\ ~ RouteAllowedDuringConfigFreeze(e.route)
             /\ Row("emergency_operation", audit[j].resource[2]).f.expires > e.at)
        BY <1>1, <1>3, <2>6 DEF MaySlip
    <3>2. SlippedPast(j)' = SlippedPast(j)
        BY <1>1, <1>6, <2>1, <3>1 DEF SlippedPast, Row
    <3>3. MaySlip(j)' = MaySlip(j)
        BY <2>4, <2>6
    <3> QED
        BY <2>2, <2>3, <3>2, <3>3
  <2> QED
      BY <2>5, <2>6
<1>9. (Cardinality(SlippedPast(n)) + Cardinality(MaySlip(n))
         < Cardinality(AdminsOf(audit[n].tenant)))'
  <2>1. SlippedPast(n)' = {}
    <3>1. \A i \in DOMAIN audit' : ~ (i > n)
        BY <1>n, <1>6
    <3> QED
        BY <3>1 DEF SlippedPast
  <2>2. AdminsOf(audit[n].tenant)' = AdminsOf(TenantOf[a]) /\ a \in AdminsOf(TenantOf[a])
      BY <1>3, <1>6 DEF AdminsOf
  <2>3. MaySlip(n)' \subseteq AdminsOf(TenantOf[a]) \ {a}
      BY <1>1, <1>3, <1>6 DEF MaySlip, AdminsOf
  <2>4. /\ Cardinality(AdminsOf(TenantOf[a]) \ {a}) = Cardinality(AdminsOf(TenantOf[a])) - 1
        /\ IsFiniteSet(AdminsOf(TenantOf[a]) \ {a})
      BY <2>2, FreezeFinite, FS_RemoveElement
  <2>5. /\ Cardinality(MaySlip(n)') <= Cardinality(AdminsOf(TenantOf[a])) - 1
        /\ Cardinality(MaySlip(n)') \in Nat
      BY <2>3, <2>4, FS_Subset, FS_CardinalityType
  <2>6. Cardinality(SlippedPast(n)') = 0
      BY <2>1, FS_EmptySet
  <2> QED
      BY <2>2, <2>5, <2>6, FreezeFinite
<1>10. \A j \in FreezesAudited' : j = n \/ (j \in DOMAIN audit /\ j \in FreezesAudited)
    BY <1>1, <1>6 DEF FreezesAudited, Row
<1> QED
    BY <1>7, <1>8, <1>9, <1>10 DEF FreezeInv

LEMMA FreezeInvNext ==
    ASSUME StoreInv, OpShape, TimesOK, FreezeInv, Next
    PROVE  FreezeInv'
<1>1. DbOK
    BY DEF StoreInv
<1>2. CASE Rests
  <2>1. UNCHANGED <<db, op, audit>>
      BY <1>2 DEF Rests
  <2> QED
      BY <1>1, <2>1, FreezeKept DEF MaySlip
<1>3. ASSUME NEW a \in Admins, TakesUp(a) PROVE FreezeInv'
  <2>1. UNCHANGED <<db, audit>> /\ op[a] = NoOp /\ Enters(a)
      BY <1>3 DEF TakesUp, Begins, Asks
  <2>2. /\ op'[a].at = clock
        /\ op'[a].route \in EmergencyRoutes
             \/ ~ ActiveEmergencyOperation(TenantOf[a], "freeze_config", clock)
      BY <2>1 DEF Enters
  <2>3. ASSUME NEW j \in FreezesAudited, TenantOf[a] = audit[j].tenant,
               ~ RouteAllowedDuringConfigFreeze(op'[a].route),
               Row("emergency_operation", audit[j].resource[2]).f.expires > op'[a].at
        PROVE  FALSE
    <3> DEFINE i == audit[j].resource[2]
    <3>1. /\ i \in Ids("emergency_operation")
          /\ Row("emergency_operation", i).tenant = TenantOf[a]
          /\ Row("emergency_operation", i).f.operation = "freeze_config"
          /\ Row("emergency_operation", i).status = "applied"
        BY <1>1, <2>3 DEF FreezesAudited, FreezeInv, OperationsKnown, DbOK
    <3>2. Row("emergency_operation", i).f.expires > clock
        BY <2>2, <2>3
    <3> HIDE DEF i
    <3>3. ActiveEmergencyOperation(TenantOf[a], "freeze_config", clock)
        BY <3>1, <3>2 DEF ActiveEmergencyOperation, Rows, Row
    <3> QED
        BY <2>2, <2>3, <3>3 DEF RouteAllowedDuringConfigFreeze
  <2>4. ASSUME NEW b \in Admins \ {a}, op'[b] # NoOp
        PROVE  op[b] # NoOp /\ op'[b].route = op[b].route /\ op'[b].at = op[b].at
    <3>1. /\ op[b] # NoOp /\ \A f \in DOMAIN op[b] \ {"alone"} : op'[b][f] = op[b][f]
        BY <2>1, <2>4, RivalKeeps
    <3>2. {"route", "at"} \subseteq DOMAIN op[b]
        BY <3>1 DEF OpShape, Whole, Carried
    <3> QED
        BY <3>1, <3>2
  <2>5. ASSUME NEW j \in FreezesAudited, NEW b \in Admins, op'[b] # NoOp,
               TenantOf[b] = audit[j].tenant, ~ RouteAllowedDuringConfigFreeze(op'[b].route),
               Row("emergency_operation", audit[j].resource[2]).f.expires > op'[b].at
        PROVE  b \in MaySlip(j)
    <3>1. b # a
        BY <2>3, <2>5
    <3>2. op[b] # NoOp /\ op'[b].route = op[b].route /\ op'[b].at = op[b].at
        BY <2>4, <2>5, <3>1
    <3> QED
        BY <2>5, <3>2 DEF MaySlip
  <2> QED
      BY <1>1, <2>1, <2>5, FreezeKept
<1>4. ASSUME NEW a \in Admins, GoesOn(a) PROVE FreezeInv'
  <2>1. Grows /\ audit' = audit
      BY <1>4 DEF GoesOn, MoveOK, Moves
  <2>2. \A b \in Admins : op'[b] # NoOp =>
           op[b] # NoOp /\ op'[b].route = op[b].route /\ op'[b].at = op[b].at
      BY <1>4 DEF GoesOn, Moves, Carries
  <2>3. ASSUME NEW j \in FreezesAudited, NEW b \in Admins, op'[b] # NoOp,
               TenantOf[b] = audit[j].tenant, ~ RouteAllowedDuringConfigFreeze(op'[b].route),
               Row("emergency_operation", audit[j].resource[2]).f.expires > op'[b].at
        PROVE  b \in MaySlip(j)
      BY <2>2, <2>3 DEF MaySlip
  <2> QED
      BY <1>1, <2>1, <2>3, FreezeKept
<1> QED
    BY <1>2, <1>3, <1>4, FreezeFinished, AdminStepKinds
-----------------------------------------------------------------------------
(* Answers                                                                 *)

\* A resource that lies in tenant t.
Shows(t, r) == r[1] \in Kinds /\ r[2] \in Ids(r[1]) /\ Row(r[1], r[2]).tenant = t

\* A record replays a response to the tenant whose row it names.
AnswerInv == AnswersStayInTenant /\ \A r \in idem : Shows(r.tenant, r.response)

LEMMA AnswerInvInit == AdminInit => AnswerInv
BY DEF AdminInit, AnswerInv, AnswersStayInTenant, Nobody

LEMMA ShowsGrows ==
    ASSUME DbOK, Grows, NEW t, NEW r, Shows(t, r)
    PROVE  Shows(t, r)'
<1>1. Len(db[r[1]]) \in Nat /\ Len(db'[r[1]]) \in Nat
    BY RowsAreSeq DEF DbOK, Grows, Shows
<1> QED
    BY <1>1 DEF Grows, Shows, Ids, Row

LEMMA AnswerInvNext ==
    ASSUME StoreInv, OpShape, AnswerInv, Next
    PROVE  AnswerInv'
<1>1. CASE Tick
    BY <1>1 DEF Tick, store, AnswerInv, AnswersStayInTenant, Nobody, Shows, Ids, Row
<1>2. ASSUME NEW a \in Admins, Looks(a) PROVE AnswerInv'
    BY <1>2 DEF Looks, AnswerInv, AnswersStayInTenant, OwnRow, Shows, Ids, Row
<1>3. ASSUME NEW a \in Admins, Asks(a) PROVE AnswerInv'
  <2>1. UNCHANGED db /\ idem' \subseteq idem
      BY <1>3 DEF Asks
  <2>2. \A r \in answer'.rows : Row(r[1], r[2]).tenant = answer'.tenant
    <3>1. CASE answer' = Nobody
        BY <3>1 DEF Nobody
    <3>2. CASE answer' # Nobody
      <4>1. /\ answer'.tenant = TenantOf[a]
            /\ \A row \in answer'.rows :
                 \E r \in idem : r.tenant = TenantOf[a] /\ row = r.response
          BY <1>3, <3>2 DEF Asks
      <4> QED
          BY <4>1 DEF AnswerInv, Shows
    <3> QED
        BY <3>1, <3>2
  <2>3. AnswersStayInTenant'
      BY <2>1, <2>2 DEF AnswersStayInTenant, Row
  <2>4. \A r \in idem' : Shows(r.tenant, r.response)'
      BY <2>1 DEF AnswerInv, Shows, Ids, Row
  <2> QED
      BY <2>3, <2>4 DEF AnswerInv
<1>4. ASSUME NEW a \in Admins, Moves(a), StoreSteps(a) PROVE AnswerInv'
  <2>1. idem' = idem /\ answer' = Nobody /\ (UNCHANGED db \/ Grows)
      BY <1>4 DEF Moves, StoreSteps, Begins, MoveOK
  <2>2. AnswersStayInTenant'
      BY <2>1 DEF AnswersStayInTenant, Nobody
  <2>3. \A r \in idem : Shows(r.tenant, r.response)'
    <3>1. CASE UNCHANGED db
        BY <3>1 DEF AnswerInv, Shows, Ids, Row
    <3>2. CASE Grows
        BY <3>2, ShowsGrows DEF AnswerInv, StoreInv
    <3> QED
        BY <2>1, <3>1, <3>2
  <2> QED
      BY <2>1, <2>2, <2>3 DEF AnswerInv
<1>5. ASSUME NEW a \in Admins, Finish(a) PROVE AnswerInv'
  <2>1. op[a] # NoOp /\ op[a].pc = "finish" /\ UNCHANGED db
      BY <1>5, FinishFrame
  <2>2. HasRow(a, op[a]) /\ "tenant" \notin DOMAIN op[a]
      BY <2>1 DEF StoreInv, Ready, OpShape, Whole
  <2> DEFINE response == <<op[a].kind, op[a].id>>
  <2>3. Shows(TenantOf[a], response)
      BY <2>2 DEF HasRow, OwnRow, Shows
  <2>4. answer' = [tenant |-> TenantOf[a], rows |-> {response}]
      BY <1>5, <2>2 DEF Finish, ActingTenant
  <2>5. ASSUME NEW r \in idem' PROVE r \in idem \/ (r.tenant = TenantOf[a] /\ r.response = response)
      BY <1>5, <2>5 DEF Finish, IdempotencyRecords, IdempotencyRecord
  <2> HIDE DEF response
  <2>6. AnswersStayInTenant'
      BY <2>1, <2>3, <2>4 DEF AnswersStayInTenant, Shows, Row
  <2>7. \A r \in idem' : Shows(r.tenant, r.response)'
      BY <2>1, <2>3, <2>5 DEF AnswerInv, Shows, Ids, Row
  <2> QED
      BY <2>6, <2>7 DEF AnswerInv
<1> QED
    BY <1>1, <1>2, <1>3, <1>4, <1>5, AdminStoreSteps DEF Steps
-----------------------------------------------------------------------------
(* Bounds                                                                  *)

\* The scenario's bounds: no more mutations are finished, in flight or dropped
\* than it has.
CountInv ==
    /\ scenario \in Scenarios /\ clock <= scenario.horizon /\ dropped \in Nat
    /\ Len(audit) + Cardinality(InFlight) + dropped <= scenario.mutations
    /\ \A r \in idem : r.key \in Keys
    /\ \A a \in Admins : op[a] # NoOp => op[a].key \in Keys \cup {NoKey}

LEMMA InFlightFinite == IsFiniteSet(InFlight) /\ Cardinality(InFlight) \in Nat
<1>1. IsFiniteSet(InFlight)
    BY AdminAssumption, FS_Subset DEF InFlight
<1> QED
    BY <1>1, FS_CardinalityType

\* One more request in flight, or one less.
LEMMA InFlightMore ==
    ASSUME OpShape, NEW a \in Admins, op[a] = NoOp, op'[a] # NoOp,
           \A b \in Admins \ {a} : op'[b] = NoOp <=> op[b] = NoOp
    PROVE  Cardinality(InFlight)' = Cardinality(InFlight) + 1
<1>1. InFlight' = InFlight \cup {a} /\ a \notin InFlight
    BY DEF InFlight
<1> QED
    BY <1>1, InFlightFinite, FS_AddElement

LEMMA InFlightLess ==
    ASSUME OpShape, NEW a \in Admins, op[a] # NoOp, op'[a] = NoOp,
           \A b \in Admins \ {a} : op'[b] = op[b]
    PROVE  Cardinality(InFlight)' = Cardinality(InFlight) - 1
<1>1. InFlight' = InFlight \ {a} /\ a \in InFlight
    BY DEF InFlight
<1> QED
    BY <1>1, InFlightFinite, FS_RemoveElement

LEMMA InFlightSame ==
    ASSUME OpShape, \A b \in Admins : op'[b] = NoOp <=> op[b] = NoOp
    PROVE  Cardinality(InFlight)' = Cardinality(InFlight)
<1>1. InFlight' = InFlight
    BY DEF InFlight
<1> QED
    BY <1>1

LEMMA CountInvInit == AdminInit => CountInv
<1> SUFFICES ASSUME AdminInit PROVE CountInv
    OBVIOUS
<1>1. /\ scenario \in Scenarios /\ clock = 0 /\ dropped = 0 /\ audit = << >> /\ idem = {}
      /\ \A a \in Admins : op[a] = NoOp
    BY DEF AdminInit
<1>2. Cardinality(InFlight) = 0
  <2>1. InFlight = {}
      BY <1>1 DEF InFlight
  <2> QED
      BY <2>1, FS_EmptySet
<1>3. Len(audit) = 0
    BY <1>1
<1> QED
    BY <1>1, <1>2, <1>3, ScenarioAssumption DEF CountInv

LEMMA CountInvNext ==
    ASSUME OpShape, TimesOK, CountInv, Next
    PROVE  CountInv'
<1>1. /\ Len(audit) \in Nat /\ Cardinality(InFlight) \in Nat /\ dropped \in Nat
      /\ scenario.mutations \in Nat /\ scenario.horizon \in Nat /\ clock \in Nat
      /\ Len(audit) + Cardinality(InFlight) + dropped <= scenario.mutations
    BY InFlightFinite, ScenarioAssumption DEF CountInv, TimesOK
<1>2. CASE Tick
  <2>1. /\ UNCHANGED <<idem, audit, op, dropped, scenario>>
        /\ clock < scenario.horizon /\ clock' = clock + 1
      BY <1>2 DEF Tick, records
  <2>2. Cardinality(InFlight)' = Cardinality(InFlight)
      BY <2>1, InFlightSame
  <2> QED
      BY <1>1, <2>1, <2>2 DEF CountInv
<1>3. ASSUME NEW a \in Admins, Looks(a) PROVE CountInv'
  <2>1. UNCHANGED <<idem, audit, op, clock, dropped, scenario>>
      BY <1>3 DEF Looks, fixed
  <2>2. Cardinality(InFlight)' = Cardinality(InFlight)
      BY <2>1, InFlightSame
  <2> QED
      BY <2>1, <2>2 DEF CountInv
<1>4. ASSUME NEW a \in Admins, Asks(a) PROVE CountInv'
  <2>1. UNCHANGED <<audit, clock, dropped, scenario>> /\ idem' \subseteq idem /\ op[a] = NoOp
      BY <1>4 DEF Asks, fixed
  <2>2. CASE op' = op
    <3>1. Cardinality(InFlight)' = Cardinality(InFlight)
        BY <2>2, InFlightSame
    <3> QED
        BY <2>1, <2>2, <3>1 DEF CountInv
  <2>3. CASE Enters(a)
    <3>1. /\ Len(audit) + Cardinality(InFlight) + dropped < scenario.mutations
          /\ op'[a] # NoOp /\ op'[a].key \in Keys \cup {NoKey}
        BY <2>3 DEF Enters, Whole, Carried, NoOp
    <3>2. \A b \in Admins \ {a} :
             /\ op'[b] = NoOp <=> op[b] = NoOp
             /\ op[b] # NoOp => op'[b].key = op[b].key
      <4> SUFFICES ASSUME NEW b \in Admins \ {a}
                   PROVE  /\ op'[b] = NoOp <=> op[b] = NoOp
                          /\ op[b] # NoOp => op'[b].key = op[b].key
          OBVIOUS
      <4>1. /\ op'[b] = NoOp <=> op[b] = NoOp
            /\ op[b] # NoOp => \A f \in DOMAIN op[b] \ {"alone"} : op'[b][f] = op[b][f]
          BY <2>3, RivalKeeps
      <4>2. op[b] # NoOp => "key" \in DOMAIN op[b]
          BY DEF OpShape, Whole, Carried
      <4> QED
          BY <4>1, <4>2
    <3>3. Cardinality(InFlight)' = Cardinality(InFlight) + 1
        BY <2>1, <3>1, <3>2, InFlightMore
    <3> QED
        BY <1>1, <2>1, <3>1, <3>2, <3>3 DEF CountInv
  <2> QED
      BY <1>4, <2>2, <2>3 DEF Asks
<1>5. ASSUME NEW a \in Admins, Moves(a) PROVE CountInv'
  <2>1. /\ UNCHANGED <<idem, audit, clock, scenario>> /\ op[a] # NoOp
        /\ \A b \in Admins \ {a} : op'[b] = op[b]
      BY <1>5 DEF Moves
  <2>2. CASE op'[a] = NoOp
    <3>1. Cardinality(InFlight)' = Cardinality(InFlight) - 1
        BY <2>1, <2>2, InFlightLess
    <3>2. dropped' = dropped \/ dropped' = dropped + 1
        BY <1>5 DEF Moves
    <3>3. dropped' \in Nat
          /\ Len(audit) + Cardinality(InFlight)' + dropped' <= scenario.mutations
        BY <1>1, <3>1, <3>2
    <3> QED
        BY <2>1, <2>2, <3>3 DEF CountInv
  <2>3. CASE op'[a] # NoOp
    <3>1. dropped' = dropped /\ op'[a].key = op[a].key
        BY <1>5, <2>3 DEF Moves, Carries
    <3>2. Cardinality(InFlight)' = Cardinality(InFlight)
        BY <2>1, <2>3, InFlightSame
    <3> QED
        BY <2>1, <2>3, <3>1, <3>2 DEF CountInv
  <2> QED
      BY <2>2, <2>3
<1>6. ASSUME NEW a \in Admins, Finish(a) PROVE CountInv'
  <2>1. /\ op[a] # NoOp /\ op'[a] = NoOp /\ \A b \in Admins \ {a} : op'[b] = op[b]
        /\ UNCHANGED <<clock, dropped, scenario>>
      BY <1>6, FinishFrame
  <2>2. Cardinality(InFlight)' = Cardinality(InFlight) - 1
      BY <2>1, InFlightLess
  <2>3. Len(audit') = Len(audit) + 1
      BY <1>6 DEF Finish, TimesOK
  <2>4. \A r \in idem' : r.key \in Keys
      BY <1>6, <2>1 DEF Finish, IdempotencyRecords, IdempotencyRecord, CountInv
  <2> QED
      BY <1>1, <2>1, <2>2, <2>3, <2>4 DEF CountInv
<1> QED
    BY <1>2, <1>3, <1>4, <1>5, <1>6, AdminSteps DEF Steps
-----------------------------------------------------------------------------
(* The audit log                                                           *)

\* A request that replaced a version and has not been audited yet.
Owes(b) == op[b] # NoOp /\ op[b].pc # "write" /\ ~ Unversioned(op[b])

\* What an update says it wrote is a version the row no longer has.
Replaced(w, after) ==
    /\ w[2] \in Ids(w[1])
    /\ w[3] \in 1 .. Row(w[1], w[2]).version - 1
    /\ after = w[3] + 1

EventsTrue ==
    \A i \in DOMAIN audit : ~ Unversioned(audit[i]) => Replaced(audit[i].wrote, audit[i].after)
OwedTrue == \A a \in Admins : Owes(a) => Replaced(op[a].wrote, op[a].after)

\* No two of them replaced the same version.
EventsDiffer ==
    \A i, j \in DOMAIN audit :
        i # j /\ ~ Unversioned(audit[i]) => audit[i].wrote # audit[j].wrote
OwedDiffer ==
    \A a, b \in Admins : a # b /\ Owes(a) /\ Owes(b) => op[a].wrote # op[b].wrote
OwedNew == \A i \in DOMAIN audit, a \in Admins : Owes(a) => audit[i].wrote # op[a].wrote

\* Every version that was replaced was replaced by one of them.
NothingMissing ==
    \A k \in VersionedKinds : \A id \in Ids(k) : \A v \in 1 .. Row(k, id).version - 1 :
        \/ \E i \in DOMAIN audit : audit[i].wrote = <<k, id, v>>
        \/ \E a \in Admins : Owes(a) /\ op[a].wrote = <<k, id, v>>

AuditInv ==
    EventsTrue /\ OwedTrue /\ EventsDiffer /\ OwedDiffer /\ OwedNew /\ NothingMissing

LEMMA VersionNat ==
    ASSUME DbOK
    PROVE  \A k \in VersionedKinds :
              /\ Len(db[k]) \in Nat
              /\ \A id \in Ids(k) : Row(k, id).version \in Nat \ {0}
BY RowsAreSeq, KindsKnown DEF DbOK, IsRows, RowShape, Ids, Row

LEMMA AuditInvInit == AdminInit => AuditInv
<1> SUFFICES ASSUME AdminInit PROVE AuditInv
    OBVIOUS
<1>1. audit = << >> /\ db = Seed /\ \A a \in Admins : ~ Owes(a)
    BY DEF AdminInit, Owes
<1>2. DOMAIN audit = {}
    BY <1>1
<1>3. \A k \in VersionedKinds : \A id \in Ids(k) : Row(k, id).version = 1
  <2> SUFFICES ASSUME NEW k \in VersionedKinds, NEW id \in Ids(k)
               PROVE  Row(k, id).version = 1
      OBVIOUS
  <2>1. k \in Kinds /\ id \in DOMAIN Seed[k]
      BY <1>1, StoreInvInit, KindsKnown, RowsAreSeq DEF StoreInv, DbOK, Ids
  <2>2. Seed[k][id] = NewRow(Seed[k][id].tenant, Seed[k][id].f, Seed[k][id].status)
      BY <2>1, SeedAssumption
  <2> QED
      BY <1>1, <2>2 DEF NewRow, Row
<1> QED
    BY <1>1, <1>2, <1>3
       DEF AuditInv, EventsTrue, OwedTrue, EventsDiffer, OwedDiffer, OwedNew, NothingMissing

\* Request b owes afterwards what it owed before.
OwesSame(b) ==
    /\ Owes(b)' <=> Owes(b)
    /\ Owes(b) => op'[b].wrote = op[b].wrote /\ op'[b].after = op[b].after

\* Three kinds of steps: nothing of this changes; one version is replaced; what
\* was owed is recorded.
QuietTrail ==
    /\ audit' = audit
    /\ VersionsKept /\ \A k \in VersionedKinds : Ids(k) \subseteq 1 .. Len(db'[k])
    /\ \A b \in Admins : OwesSame(b)

ReplaceTrail(a, k, id, v) ==
    /\ audit' = audit
    /\ k \in VersionedKinds /\ id \in Ids(k) /\ v = Row(k, id).version
    /\ \A b \in Admins \ {a} : OwesSame(b)
    /\ ~ Owes(a) /\ Owes(a)' /\ op'[a].wrote = <<k, id, v>> /\ op'[a].after = v + 1
    /\ \A j \in VersionedKinds :
         /\ Len(db'[j]) = Len(db[j])
         /\ \A i \in Ids(j) :
              db'[j][i].version = IF j = k /\ i = id THEN v + 1 ELSE Row(j, i).version

FinishTrail(a, event) ==
    /\ UNCHANGED db
    /\ DOMAIN audit' = DOMAIN audit \cup {Len(audit) + 1} /\ Len(audit) + 1 \notin DOMAIN audit
    /\ \A i \in DOMAIN audit : audit'[i] = audit[i]
    /\ audit'[Len(audit) + 1] = event
    /\ \A b \in Admins \ {a} : OwesSame(b)
    /\ ~ Owes(a)'
    /\ Owes(a) => event.wrote = op[a].wrote /\ event.after = op[a].after
    /\ ~ Owes(a) => Unversioned(event)

LEMMA QuietKeeps ==
    ASSUME DbOK, AuditInv, QuietTrail
    PROVE  AuditInv'
<1> USE DEF AuditInv
<1>1. \A w, after : w[1] \in VersionedKinds /\ Replaced(w, after) => Replaced(w, after)'
    BY DEF QuietTrail, VersionsKept, Replaced, Ids, Row
<1>2. \A b \in Admins : Owes(b) => op[b].wrote[1] \in VersionedKinds
    BY DEF Owes, Unversioned
<1>3. EventsTrue'
    BY <1>1 DEF EventsTrue, QuietTrail, Unversioned
<1>4. OwedTrue'
    BY <1>1, <1>2 DEF OwedTrue, QuietTrail, OwesSame
<1>5. EventsDiffer'
    BY DEF EventsDiffer, QuietTrail, Unversioned
<1>6. OwedDiffer' /\ OwedNew'
    BY DEF OwedDiffer, OwedNew, QuietTrail, OwesSame
<1>7. NothingMissing'
  <2> SUFFICES ASSUME NEW k \in VersionedKinds, NEW id \in 1 .. Len(db'[k]),
                      NEW v \in 1 .. db'[k][id].version - 1
               PROVE  \/ \E i \in DOMAIN audit' : audit'[i].wrote = <<k, id, v>>
                      \/ \E a \in Admins : Owes(a)' /\ op'[a].wrote = <<k, id, v>>
      BY DEF NothingMissing, Ids, Row
  <2>1. id \in Ids(k)
      BY DEF QuietTrail, VersionsKept
  <2>2. v \in 1 .. Row(k, id).version - 1
      BY <2>1 DEF QuietTrail, VersionsKept
  <2> QED
      BY <2>1, <2>2 DEF NothingMissing, QuietTrail, OwesSame
<1> QED
    BY <1>3, <1>4, <1>5, <1>6, <1>7

LEMMA ReplaceKeeps ==
    ASSUME DbOK, AuditInv, NEW a \in Admins, NEW k, NEW id, NEW v, ReplaceTrail(a, k, id, v)
    PROVE  AuditInv'
<1> USE DEF AuditInv
<1>1. v \in Nat \ {0} /\ id \in 1 .. Len(db'[k]) /\ db'[k][id].version = v + 1
    BY VersionNat DEF ReplaceTrail, Ids
<1>2. \A w, after : w[1] \in VersionedKinds /\ Replaced(w, after) =>
         Replaced(w, after)' /\ w # <<k, id, v>>
  <2> SUFFICES ASSUME NEW w, NEW after, w[1] \in VersionedKinds, Replaced(w, after)
               PROVE  Replaced(w, after)' /\ w # <<k, id, v>>
      OBVIOUS
  <2>1. /\ w[2] \in Ids(w[1]) /\ Row(w[1], w[2]).version \in Nat
        /\ w[3] \in 1 .. Row(w[1], w[2]).version - 1 /\ after = w[3] + 1
      BY VersionNat DEF Replaced
  <2>2. /\ w[2] \in 1 .. Len(db'[w[1]])
        /\ db'[w[1]][w[2]].version \in {Row(w[1], w[2]).version, Row(w[1], w[2]).version + 1}
      BY <2>1 DEF ReplaceTrail, Ids
  <2>3. w # <<k, id, v>>
      BY <2>1 DEF ReplaceTrail
  <2>4. w[3] \in 1 .. db'[w[1]][w[2]].version - 1
    <3> DEFINE m == Row(w[1], w[2]).version
               n == db'[w[1]][w[2]].version
    <3>1. m \in Nat /\ w[3] \in 1 .. m - 1 /\ (n = m \/ n = m + 1)
        BY <2>1, <2>2
    <3> HIDE DEF m, n
    <3>2. w[3] \in 1 .. n - 1
        BY <3>1
    <3> QED
        BY <3>2 DEF n
  <2> QED
      BY <2>1, <2>2, <2>3, <2>4 DEF Replaced, Ids, Row
<1>3. \A b \in Admins : Owes(b) => op[b].wrote[1] \in VersionedKinds
    BY DEF Owes, Unversioned
<1>4. EventsTrue'
    BY <1>2 DEF EventsTrue, ReplaceTrail, Unversioned
<1>5. \A i \in DOMAIN audit : audit[i].wrote # <<k, id, v>>
  <2> SUFFICES ASSUME NEW i \in DOMAIN audit, audit[i].wrote = <<k, id, v>> PROVE FALSE
      OBVIOUS
  <2>1. ~ Unversioned(audit[i]) /\ audit[i].wrote[1] \in VersionedKinds
      BY DEF Unversioned, ReplaceTrail
  <2> QED
      BY <1>2, <2>1 DEF EventsTrue
<1>6. \A b \in Admins : Owes(b) => op[b].wrote # <<k, id, v>>
    BY <1>2, <1>3 DEF OwedTrue
<1>7. OwedTrue'
  <2> SUFFICES ASSUME NEW b \in Admins, Owes(b)' PROVE Replaced(op[b].wrote, op[b].after)'
      BY DEF OwedTrue
  <2>1. CASE b = a
    <3> DEFINE w == op'[a].wrote
    <3>1. w = <<k, id, v>> /\ op'[a].after = v + 1
        BY DEF ReplaceTrail
    <3>2. w[1] = k /\ w[2] = id /\ w[3] = v
        BY <3>1
    <3>3. /\ w[2] \in 1 .. Len(db'[w[1]]) /\ w[3] \in 1 .. db'[w[1]][w[2]].version - 1
          /\ op'[a].after = w[3] + 1
        BY <1>1, <3>1, <3>2
    <3> QED
        BY <2>1, <3>3 DEF Replaced, Ids, Row
  <2>2. CASE b # a
    <3>1. Owes(b) /\ op'[b].wrote = op[b].wrote /\ op'[b].after = op[b].after
        BY <2>2 DEF ReplaceTrail, OwesSame
    <3>2. Replaced(op[b].wrote, op[b].after) /\ op[b].wrote[1] \in VersionedKinds
        BY <1>3, <3>1 DEF OwedTrue
    <3> QED
        BY <1>2, <3>1, <3>2 DEF Replaced, Ids, Row
  <2> QED
      BY <2>1, <2>2
<1>8. EventsDiffer'
    BY DEF EventsDiffer, ReplaceTrail, Unversioned
<1>9. OwedDiffer' /\ OwedNew'
    BY <1>5, <1>6 DEF OwedDiffer, OwedNew, ReplaceTrail, OwesSame
<1>10. NothingMissing'
  <2> SUFFICES ASSUME NEW j \in VersionedKinds, NEW i \in 1 .. Len(db'[j]),
                      NEW u \in 1 .. db'[j][i].version - 1
               PROVE  \/ \E n \in DOMAIN audit' : audit'[n].wrote = <<j, i, u>>
                      \/ \E b \in Admins : Owes(b)' /\ op'[b].wrote = <<j, i, u>>
      BY DEF NothingMissing, Ids, Row
  <2>1. i \in Ids(j) /\ Row(j, i).version \in Nat
      BY VersionNat DEF ReplaceTrail, Ids
  <2>2. CASE j = k /\ i = id /\ u = v
      BY <2>2 DEF ReplaceTrail
  <2>3. CASE ~ (j = k /\ i = id /\ u = v)
    <3>1. u \in 1 .. Row(j, i).version - 1
        BY <1>1, <2>1, <2>3 DEF ReplaceTrail
    <3>2. \/ \E n \in DOMAIN audit : audit[n].wrote = <<j, i, u>>
          \/ \E b \in Admins : Owes(b) /\ op[b].wrote = <<j, i, u>>
        BY <2>1, <3>1 DEF NothingMissing
    <3> QED
        BY <3>2 DEF ReplaceTrail, OwesSame
  <2> QED
      BY <2>2, <2>3
<1> QED
    BY <1>4, <1>7, <1>8, <1>9, <1>10

LEMMA FinishKeeps ==
    ASSUME AuditInv, NEW a \in Admins, NEW event, FinishTrail(a, event)
    PROVE  AuditInv'
<1> USE DEF AuditInv
<1> DEFINE n == Len(audit) + 1
<1>1. /\ DOMAIN audit' = DOMAIN audit \cup {n} /\ n \notin DOMAIN audit
      /\ \A i \in DOMAIN audit : audit'[i] = audit[i]
      /\ audit'[n] = event
    BY DEF FinishTrail
<1> HIDE DEF n
<1>2. \A w, after : Replaced(w, after)' <=> Replaced(w, after)
    BY DEF FinishTrail, Replaced, Ids, Row
<1>3. ~ Unversioned(event) => Owes(a) /\ event.wrote = op[a].wrote /\ event.after = op[a].after
    BY DEF FinishTrail
<1>4. EventsTrue'
    BY <1>1, <1>2, <1>3 DEF EventsTrue, OwedTrue, Unversioned
<1>5. OwedTrue'
  <2> SUFFICES ASSUME NEW b \in Admins, Owes(b)' PROVE Replaced(op[b].wrote, op[b].after)'
      BY DEF OwedTrue
  <2>1. Owes(b) /\ op'[b].wrote = op[b].wrote /\ op'[b].after = op[b].after
      BY DEF FinishTrail, OwesSame
  <2> QED
      BY <2>1 DEF OwedTrue, FinishTrail, Replaced, Ids, Row
<1>6. EventsDiffer'
  <2> SUFFICES ASSUME NEW i \in DOMAIN audit', NEW j \in DOMAIN audit', i # j,
                      ~ Unversioned(audit'[i]), audit'[i].wrote = audit'[j].wrote
               PROVE  FALSE
      BY DEF EventsDiffer, Unversioned
  <2>1. ~ Unversioned(audit'[j])
      BY DEF Unversioned
  <2>2. CASE i = n
      BY <1>1, <1>3, <2>2 DEF OwedNew
  <2>3. CASE j = n
      BY <1>1, <1>3, <2>1, <2>3 DEF OwedNew
  <2>4. CASE i # n /\ j # n
      BY <1>1, <2>4 DEF EventsDiffer
  <2> QED
      BY <2>2, <2>3, <2>4
<1>7. OwedDiffer'
    BY DEF OwedDiffer, FinishTrail, OwesSame
<1>8. OwedNew'
  <2> SUFFICES ASSUME NEW i \in DOMAIN audit', NEW b \in Admins, Owes(b)',
                      audit'[i].wrote = op'[b].wrote
               PROVE  FALSE
      BY DEF OwedNew
  <2>1. b # a /\ Owes(b) /\ op'[b].wrote = op[b].wrote
      BY DEF FinishTrail, OwesSame
  <2>2. CASE i = n
    <3>1. ~ Unversioned(event)
        BY <1>1, <2>1, <2>2 DEF Owes, Unversioned
    <3> QED
        BY <1>1, <1>3, <2>1, <2>2, <3>1 DEF OwedDiffer
  <2>3. CASE i # n
      BY <1>1, <2>1, <2>3 DEF OwedNew
  <2> QED
      BY <2>2, <2>3
<1>9. NothingMissing'
  <2> SUFFICES ASSUME NEW k \in VersionedKinds, NEW id \in Ids(k),
                      NEW v \in 1 .. Row(k, id).version - 1
               PROVE  \/ \E i \in DOMAIN audit' : audit'[i].wrote = <<k, id, v>>
                      \/ \E b \in Admins : Owes(b)' /\ op'[b].wrote = <<k, id, v>>
      BY DEF NothingMissing, FinishTrail, Ids, Row
  <2>1. CASE \E i \in DOMAIN audit : audit[i].wrote = <<k, id, v>>
      BY <1>1, <2>1
  <2>2. ASSUME NEW b \in Admins, Owes(b), op[b].wrote = <<k, id, v>>
        PROVE  \/ \E i \in DOMAIN audit' : audit'[i].wrote = <<k, id, v>>
               \/ \E c \in Admins : Owes(c)' /\ op'[c].wrote = <<k, id, v>>
    <3>1. CASE b = a
        BY <1>1, <2>2, <3>1 DEF FinishTrail
    <3>2. CASE b # a
        BY <2>2, <3>2 DEF FinishTrail, OwesSame
    <3> QED
        BY <3>1, <3>2
  <2> QED
      BY <2>1, <2>2 DEF NothingMissing
<1> QED
    BY <1>4, <1>5, <1>6, <1>7, <1>8, <1>9

\* A request that owes an event remembers the version it made.
LEMMA OwesAfter ==
    ASSUME StoreInv, OpShape, NEW b \in Admins, Owes(b)
    PROVE  {"pc", "wrote", "after"} \subseteq DOMAIN op[b]
<1>1. Ready(b, op[b]) /\ Whole(op[b]) /\ op[b].wrote # << >> /\ op[b].pc # "write"
    BY DEF StoreInv, OpShape, Owes, Unversioned
<1>2. op[b].pc # "insert"
    BY <1>1 DEF Ready, InsertReady
<1> QED
    BY <1>1, <1>2 DEF Ready, Whole

LEMMA SameOwes ==
    ASSUME NEW b \in Admins, op'[b] = op[b]
    PROVE  OwesSame(b)
BY DEF OwesSame, Owes, Unversioned

LEMMA SameVersions ==
    ASSUME UNCHANGED db
    PROVE  VersionsKept /\ \A k \in VersionedKinds : Ids(k) \subseteq 1 .. Len(db'[k])
BY DEF VersionsKept, Ids, Row

LEMMA TakesUpQuiet ==
    ASSUME StoreInv, OpShape, NEW a \in Admins, TakesUp(a)
    PROVE  QuietTrail
<1>1. UNCHANGED <<db, audit>> /\ op[a] = NoOp /\ Enters(a)
    BY DEF TakesUp, Begins, Asks
<1>2. op' # op
    BY <1>1 DEF Enters, Whole, Carried, NoOp
<1>3. OwesSame(a)
    BY <1>1, <1>2 DEF TakesUp, Begins, OwesSame, Owes, Unversioned
<1>4. ASSUME NEW b \in Admins \ {a} PROVE OwesSame(b)
  <2>1. /\ op'[b] = NoOp <=> op[b] = NoOp
        /\ op[b] # NoOp => \A f \in DOMAIN op[b] \ {"alone"} : op'[b][f] = op[b][f]
      BY <1>1, RivalKeeps
  <2>2. op[b] # NoOp => op'[b].pc = op[b].pc /\ op'[b].wrote = op[b].wrote
      BY <2>1 DEF OpShape, Whole
  <2>3. Owes(b) => op'[b].after = op[b].after
      BY <2>1, OwesAfter DEF Owes
  <2> QED
      BY <2>1, <2>2, <2>3 DEF OwesSame, Owes, Unversioned
<1> QED
    BY <1>1, <1>3, <1>4, SameVersions DEF QuietTrail

LEMMA GoesOnTrail ==
    ASSUME StoreInv, OpShape, NEW a \in Admins, GoesOn(a)
    PROVE  QuietTrail \/ \E k, id, v : ReplaceTrail(a, k, id, v)
<1>1. /\ audit' = audit /\ op[a] # NoOp /\ Ready(a, op[a])
      /\ \A b \in Admins \ {a} : op'[b] = op[b]
      /\ op'[a] # NoOp => op'[a].wrote = op[a].wrote /\ op'[a].pc # "write"
    BY DEF GoesOn, Moves, MoveOK, Carries, StoreInv
<1>2. \A b \in Admins \ {a} : OwesSame(b)
    BY <1>1, SameOwes
<1>3. \A k \in VersionedKinds : Ids(k) \subseteq 1 .. Len(db'[k])
  <2> SUFFICES ASSUME NEW k \in VersionedKinds PROVE Ids(k) \subseteq 1 .. Len(db'[k])
      OBVIOUS
  <2>1. Len(db[k]) \in Nat /\ Len(db'[k]) \in Nat /\ Len(db[k]) <= Len(db'[k])
      BY KindsKnown, RowsAreSeq DEF GoesOn, MoveOK, Grows, StoreInv, DbOK
  <2> QED
      BY <2>1 DEF Ids
<1>4. CASE VersionsKept /\ (op'[a] = NoOp \/ op[a].pc # "write" \/ Unversioned(op[a]))
  <2>1. /\ op'[a] = NoOp => op[a].pc = "write" \/ Unversioned(op[a])
        /\ op'[a] # NoOp /\ op[a].pc # "write" /\ op[a].wrote # << >>
             => op'[a].after = op[a].after
      BY DEF GoesOn, MoveOK
  <2>2. OwesSame(a)
      BY <1>1, <1>4, <2>1 DEF OwesSame, Owes, Unversioned
  <2> QED
      BY <1>1, <1>2, <1>3, <1>4, <2>2 DEF QuietTrail
<1>5. CASE Replaces(a)
  <2> DEFINE k == op[a].kind
             id == op[a].id
             v == Row(k, id).version
  <2>1. /\ op[a].pc = "write" /\ op'[a] # NoOp /\ op[a].expected = v
        /\ op'[a].after = v + 1 /\ db'[k][id].version = v + 1
        /\ \A j \in VersionedKinds :
             /\ Len(db'[j]) = Len(db[j])
             /\ \A i \in Ids(j) : (j # k \/ i # id) => db'[j][i].version = Row(j, i).version
      BY <1>5 DEF Replaces
  <2>2. op[a].wrote = <<k, id, v>> /\ id \in Ids(k)
      BY <1>1, <2>1 DEF Ready, WriteReady, HasRow, OwnRow
  <2> HIDE DEF k, id, v
  <2>3. ~ Owes(a)
      BY <2>1 DEF Owes
  <2>4. op[a].wrote[1] = k /\ op[a].wrote # << >>
      BY <2>2
  <2>5. Owes(a)' <=> k \in VersionedKinds
      BY <1>1, <2>1, <2>4 DEF Owes, Unversioned
  <2>6. CASE k \in VersionedKinds
    <3>1. \A j \in VersionedKinds :
            /\ Len(db'[j]) = Len(db[j])
            /\ \A i \in Ids(j) :
                 db'[j][i].version = IF j = k /\ i = id THEN v + 1 ELSE Row(j, i).version
        BY <2>1
    <3>2. v = Row(k, id).version
        BY DEF v
    <3>3. ReplaceTrail(a, k, id, v)
        BY <1>1, <1>2, <2>1, <2>2, <2>3, <2>5, <2>6, <3>1, <3>2 DEF ReplaceTrail
    <3> QED
        BY <3>3
  <2>7. CASE k \notin VersionedKinds
    <3>1. VersionsKept
        BY <2>1, <2>7 DEF VersionsKept, Ids
    <3>2. OwesSame(a)
        BY <2>3, <2>5, <2>7 DEF OwesSame
    <3> QED
        BY <1>1, <1>2, <1>3, <3>1, <3>2 DEF QuietTrail
  <2> QED
      BY <2>6, <2>7
<1> QED
    BY <1>4, <1>5 DEF GoesOn, MoveOK

LEMMA FinishIsTrail ==
    ASSUME StoreInv, OpShape, TimesOK, NEW a \in Admins, Finish(a)
    PROVE  FinishTrail(a, AuditEvent(a))
<1>1. /\ op[a] # NoOp /\ op[a].pc = "finish" /\ op'[a] = NoOp
      /\ \A b \in Admins \ {a} : op'[b] = op[b]
    BY FinishFrame
<1>2. UNCHANGED db /\ audit' = Append(audit, AuditEvent(a))
    BY FinishFrame DEF Finish
<1>3. AuditEvent(a).wrote = op[a].wrote /\ AuditEvent(a).after = op[a].after
    BY DEF AuditEvent
<1> HIDE DEF AuditEvent
<1>4. /\ DOMAIN audit' = DOMAIN audit \cup {Len(audit) + 1} /\ Len(audit) + 1 \notin DOMAIN audit
      /\ \A i \in DOMAIN audit : audit'[i] = audit[i]
      /\ audit'[Len(audit) + 1] = AuditEvent(a)
  <2>1. PICK S : audit \in Seq(S)
      BY DEF TimesOK
  <2>2. audit \in Seq(S \cup {AuditEvent(a)}) /\ AuditEvent(a) \in S \cup {AuditEvent(a)}
      BY <2>1
  <2> DEFINE T == S \cup {AuditEvent(a)}
  <2> HIDE DEF T
  <2>3. audit \in Seq(T) /\ AuditEvent(a) \in T
      BY <2>2 DEF T
  <2> QED
      BY <1>2, <2>3
<1>5. \A b \in Admins \ {a} : OwesSame(b)
    BY <1>1, SameOwes
<1>6. ~ Owes(a)' /\ (~ Owes(a) => Unversioned(AuditEvent(a)))
    BY <1>1, <1>3 DEF Owes, Unversioned
<1> QED
    BY <1>2, <1>3, <1>4, <1>5, <1>6 DEF FinishTrail

LEMMA AuditInvNext ==
    ASSUME StoreInv, OpShape, TimesOK, AuditInv, Next
    PROVE  AuditInv'
<1>1. DbOK
    BY DEF StoreInv
<1>2. ASSUME Rests PROVE QuietTrail
    BY <1>2, SameVersions, SameOwes DEF Rests, QuietTrail
<1>3. \/ QuietTrail
      \/ \E a \in Admins : \/ \E k, id, v : ReplaceTrail(a, k, id, v)
                           \/ FinishTrail(a, AuditEvent(a))
    BY <1>2, AdminStepKinds, TakesUpQuiet, GoesOnTrail, FinishIsTrail
<1> QED
    BY <1>1, <1>3, QuietKeeps, ReplaceKeeps, FinishKeeps

\* Exactly one of the two sets has an element, and only one.
LEMMA AuditInvCounts ==
    ASSUME StoreInv, OpShape, AuditInv
    PROVE  AuditTrailComplete
<1> SUFFICES ASSUME NEW k \in VersionedKinds, NEW id \in Ids(k), NEW v \in 1 .. MaxVersion
             PROVE  LET done == AuditedUpdates(k, id, v)
                        due == UnfinishedUpdates(k, id, v)
                    IN /\ Cardinality(done) + Cardinality(due)
                            = IF v < Row(k, id).version THEN 1 ELSE 0
                       /\ \A i \in done : audit[i].after = v + 1
                       /\ \A a \in due : op[a].after = v + 1
    BY DEF AuditTrailComplete
<1> DEFINE w == <<k, id, v>>
           done == {i \in DOMAIN audit : audit[i].wrote = w}
           due == {a \in Admins : Owes(a) /\ op[a].wrote = w}
<1>1. w # << >> /\ w[1] = k /\ w[2] = id /\ w[3] = v
    OBVIOUS
<1>2. AuditedUpdates(k, id, v) = done /\ UnfinishedUpdates(k, id, v) = due
  <2> HIDE DEF w
  <2>1. \A a \in InFlight : op[a].pc # "write" /\ op[a].wrote = w => Owes(a)
      BY <1>1 DEF Owes, InFlight, Unversioned
  <2>2. AuditedUpdates(k, id, v) = done
      BY DEF AuditedUpdates, w
  <2>3. UnfinishedUpdates(k, id, v) = {a \in InFlight : op[a].pc # "write" /\ op[a].wrote = w}
      BY DEF UnfinishedUpdates, w
  <2> QED
      BY <2>1, <2>2, <2>3 DEF Owes, InFlight
<1>3. Row(k, id).version \in Nat \ {0} /\ v \in Nat \ {0}
    BY VersionNat, AdminAssumption DEF StoreInv
<1>4. /\ \A i \in done : Replaced(w, audit[i].after)
      /\ \A a \in due : Replaced(w, op[a].after)
  <2> HIDE DEF w
  <2> QED
      BY <1>1 DEF AuditInv, EventsTrue, OwedTrue, Unversioned
<1>5. /\ \A i \in done : audit[i].after = v + 1 /\ v < Row(k, id).version
      /\ \A a \in due : op[a].after = v + 1 /\ v < Row(k, id).version
  <2> HIDE DEF w, done, due
  <2> QED
      BY <1>1, <1>3, <1>4 DEF Replaced
<1>6. Cardinality(done) + Cardinality(due) = IF v < Row(k, id).version THEN 1 ELSE 0
  <2>1. CASE v < Row(k, id).version
    <3>1. \/ \E i \in DOMAIN audit : audit[i].wrote = w
          \/ \E a \in Admins : Owes(a) /\ op[a].wrote = w
      <4>1. v \in 1 .. Row(k, id).version - 1
        <5> DEFINE m == Row(k, id).version
        <5>1. m \in Nat /\ v \in Nat \ {0} /\ v < m
            BY <1>3, <2>1
        <5> HIDE DEF m
        <5>2. v \in 1 .. m - 1
            BY <5>1
        <5> QED
            BY <5>2 DEF m
      <4> QED
          BY <4>1 DEF AuditInv, NothingMissing
    <3>2. ASSUME NEW i \in DOMAIN audit, audit[i].wrote = w
          PROVE  Cardinality(done) = 1 /\ Cardinality(due) = 0
      <4> HIDE DEF w
      <4>1. ~ Unversioned(audit[i])
          BY <1>1, <3>2 DEF Unversioned
      <4>2. done = {i} /\ due = {}
          BY <3>2, <4>1 DEF AuditInv, EventsDiffer, OwedNew
      <4> QED
          BY <4>2, FS_Singleton, FS_EmptySet
    <3>3. ASSUME NEW a \in Admins, Owes(a), op[a].wrote = w
          PROVE  Cardinality(done) = 0 /\ Cardinality(due) = 1
      <4> HIDE DEF w
      <4>1. due = {a} /\ done = {}
          BY <3>3 DEF AuditInv, OwedDiffer, OwedNew
      <4> QED
          BY <4>1, FS_Singleton, FS_EmptySet
    <3> HIDE DEF done, due
    <3> QED
        BY <2>1, <3>1, <3>2, <3>3
  <2>2. CASE ~ (v < Row(k, id).version)
    <3>1. done = {} /\ due = {}
      <4> HIDE DEF w
      <4> QED
          BY <1>5, <2>2
    <3> HIDE DEF done, due
    <3> QED
        BY <2>2, <3>1, FS_EmptySet
  <2> QED
      BY <2>1, <2>2
<1> QED
    BY <1>2, <1>5, <1>6
-----------------------------------------------------------------------------
(* Theorems                                                                *)

\* The inductive invariant of the store, the requests and the audit log.
AdminInv == KeyInv /\ StoreInv /\ FreezeInv /\ AnswerInv /\ CountInv /\ AuditInv

\* AdminInv holds in every reachable state, for any rows, requests and number
\* of admins.
THEOREM AdminInvariant == Spec => []AdminInv
<1>1. AdminInit => AdminInv
    BY KeyInvInit, StoreInvInit, FreezeInvInit, AnswerInvInit, CountInvInit, AuditInvInit
       DEF AdminInv
<1>2. AdminInv /\ [Next]_vars => AdminInv'
  <2> SUFFICES ASSUME AdminInv, [Next]_vars PROVE AdminInv'
      OBVIOUS
  <2>1. KeyInv /\ OpShape /\ TimesOK
      BY DEF AdminInv, KeyInv
  <2>2. CASE Next
    <3>1. KeyInv'
        BY <2>1, <2>2, KeyInvNext
    <3>2. StoreInv' /\ FreezeInv' /\ AnswerInv'
        BY <2>1, <2>2, StoreInvNext, FreezeInvNext, AnswerInvNext DEF AdminInv
    <3>3. CountInv' /\ AuditInv'
        BY <2>1, <2>2, CountInvNext, AuditInvNext DEF AdminInv
    <3> QED
        BY <3>1, <3>2, <3>3 DEF AdminInv
  <2>3. CASE UNCHANGED vars
    <3>1. KeyInv'
        BY <2>1, <2>3, LooksKeyInv DEF vars
    <3>2. StoreInv' /\ FreezeInv' /\ AnswerInv'
        BY <2>3 DEF AdminInv, vars, StoreInv, DbOK, Ids, Row, Ready, HasRow, OwnRow,
                    EmergencyReady, InsertReady, WriteReady, SessionReady, Unversioned,
                    FreshRow, FreezeInv, OperationsKnown, FreezesAudited, SlippedPast, MaySlip,
                    AdminsOf, AnswerInv, AnswersStayInTenant, Shows
    <3>3. CountInv'
        BY <2>3 DEF AdminInv, vars, CountInv, InFlight
    <3>4. AuditInv'
        BY <2>3, SameVersions, SameOwes, QuietKeeps DEF AdminInv, StoreInv, QuietTrail, vars
    <3> QED
        BY <3>1, <3>2, <3>3, <3>4 DEF AdminInv
  <2> QED
      BY <2>2, <2>3
<1> QED
    BY <1>1, <1>2, PTL DEF Spec

\* Every variable holds what the store and the handlers keep in it, and the
\* rows keep a tenant and a version (create_x and update_x of the store).
THEOREM AdminTypes == Spec => []TypeOK
<1>1. AdminInv => TypeOK
  <2> SUFFICES ASSUME AdminInv PROVE TypeOK
      OBVIOUS
  <2>1. DbOK /\ DOMAIN secrets \subseteq Ids("secret_ref")
      BY DEF AdminInv, StoreInv
  <2>2. \A k \in Kinds : \A row \in Rows(k) : row.version \in Nat \ {0} /\ row.tenant \in Nat
      BY <2>1, RowsAreSeq DEF DbOK, IsRows, RowShape, Rows, Ids
  <2>3. /\ clock \in Nat /\ dropped \in Nat /\ Len(audit) \in Nat
        /\ Cardinality(InFlight) \in Nat
        /\ scenario.mutations \in Nat /\ scenario.horizon \in Nat
      BY InFlightFinite, ScenarioAssumption DEF AdminInv, KeyInv, TimesOK, CountInv
  <2>4. clock \in 0 .. scenario.horizon /\ dropped \in 0 .. scenario.mutations
      BY <2>3 DEF AdminInv, CountInv
  <2> QED
      BY <2>1, <2>2, <2>4 DEF TypeOK, AdminInv, CountInv, DbOK
<1> QED
    BY <1>1, AdminInvariant, PTL

\* No answer, replayed or fresh, shows an admin a row of another tenant: the
\* handlers look rows up by tenant (x_for_actor, x_for_tenant) and a replay
\* names the tenant of its record (idempotency_response).
THEOREM AnswersKeepTenant == Spec => []AnswersStayInTenant
<1>1. AdminInv => AnswersStayInTenant
    BY DEF AdminInv, AnswerInv
<1> QED
    BY <1>1, AdminInvariant, PTL

\* No update is lost and none escapes the audit log: each version of a row is
\* replaced by exactly one update (the store's compare-and-set), which is or
\* will be audited (record_admin_resource_audit).
THEOREM AuditTrailHolds == Spec => []AuditTrailComplete
<1>1. AdminInv => AuditTrailComplete
    BY AuditInvCounts DEF AdminInv, KeyInv
<1> QED
    BY <1>1, AdminInvariant, PTL

\* A config freeze that was answered stops configuration changes until it
\* expires: for any number of requests and every interleaving, fewer slip past it
\* than its tenant may have requests in flight (reject_frozen_config_mutation).
THEOREM FreezeIsRespected == Spec => []FreezeBounded
<1>1. ASSUME AdminInv PROVE FreezeBounded
  <2>1. TimesOK
      BY <1>1 DEF AdminInv, KeyInv
  <2>2. ASSUME NEW j \in FreezesAudited
        PROVE  Cardinality(SlippedPast(j)) < Cardinality(AdminsOf(audit[j].tenant))
    <3>1. Cardinality(SlippedPast(j)) + Cardinality(MaySlip(j))
            < Cardinality(AdminsOf(audit[j].tenant))
        BY <1>1 DEF AdminInv, FreezeInv
    <3> QED
        BY <2>1, <3>1, FreezeFinite
  <2> QED
      BY <2>2 DEF FreezeBounded
<1> QED
    BY <1>1, AdminInvariant, PTL
=============================================================================
