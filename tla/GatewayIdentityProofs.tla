-------------------------- MODULE GatewayIdentityProofs --------------------------
(***************************************************************************)
(* The identity side of the gateway, for any rows it may start with, any   *)
(* number of requests in flight and either store: a login attempt leads to *)
(* one session, an invitation lets in one user, a user who is shut out is  *)
(* signed out, a revoked session stays revoked and the throttle of API     *)
(* keys is bounded.                                                        *)
(*                                                                         *)
(* Every action of a request is shown to be a StepOf it: the tables grow   *)
(* (Grows), the request is left ready for its next step (Ready), and what  *)
(* the step is to logins, invitations, shut-out users, sessions being      *)
(* stored and failed keys is one of a few cases.  The invariant is then    *)
(* proved of StepOf.                                                       *)
(***************************************************************************)
EXTENDS GatewayIdentity, FiniteSetTheorems, TLAPS

-----------------------------------------------------------------------------
(* Rows                                                                    *)

\* What a row never changes, and the statuses it does not leave.
FixedFields ==
    [organization |-> {}, project |-> {}, service_account |-> {}, project_member |-> {},
     user |-> {"email"}, organization_member |-> {"user"}, session |-> {"user", "attempt"},
     external_identity |-> {"user", "provider"}, api_key |-> {}, invitation |-> {"email", "user"},
     login_provider |-> {}, login_attempt |-> {"provider"}, failed_auth |-> {"prefix", "at"}]
FinalStatus(k) ==
    IF k = "session" THEN {"revoked"}
    ELSE IF k = "invitation" THEN {"accepted"}
    ELSE IF k = "login_attempt" THEN {"consumed"} ELSE {}

\* A row on its own.
RowOK(k, row) ==
    /\ {"tenant", "f", "status", "version"} \subseteq DOMAIN row
    /\ row.version \in Nat \ {0}
    /\ Fields[k] \subseteq DOMAIN row.f
    /\ k \in DOMAIN Statuses => row.status \in Statuses[k]
    /\ k = "session" => row.f.durable \in {"none", "active", "revoked"}
    /\ k = "api_key" => row.f.secret \in 1 .. row.version
    /\ k = "failed_auth" => row.f.at \in Int

\* The rows of other tables that a row names.
UserSession(row) ==
    /\ row.f.user \in Ids("user") /\ row.tenant = Row("user", row.f.user).tenant
    /\ row.f.attempt # None => /\ row.f.attempt \in Ids("login_attempt")
                               /\ Row("login_attempt", row.f.attempt).status = "consumed"
                               /\ Row("login_attempt", row.f.attempt).tenant = row.tenant
AdmittedBy(i, u) ==
    /\ i \in Ids("invitation") /\ Row("invitation", i).status = "accepted"
    /\ Addressed(i, u)
LinkOK(k, row) ==
    /\ k = "session" => UserSession(row)
    /\ k = "external_identity" =>
         /\ row.f.user \in Ids("user") /\ row.f.provider \in Ids("login_provider")
         /\ Row("user", row.f.user).tenant = Row("login_provider", row.f.provider).tenant
    /\ k = "login_attempt" =>
         /\ row.f.provider \in Ids("login_provider")
         /\ row.tenant = Row("login_provider", row.f.provider).tenant
    /\ k = "organization_member" =>
         row.f.user \in Ids("user") /\ \A i \in row.f.invitations : AdmittedBy(i, row.f.user)

IsTable(rows) == rows \in Seq({rows[i] : i \in DOMAIN rows})
DbOK ==
    /\ DOMAIN db = Kinds
    /\ \A k \in DOMAIN Fields :
         IsTable(db[k]) /\ \A i \in Ids(k) : RowOK(k, db[k][i]) /\ LinkOK(k, db[k][i])

\* What any step makes of a row that is there.
Kept(k, old, new) ==
    /\ new.tenant = old.tenant /\ new.version >= old.version
    /\ \A x \in FixedFields[k] : new.f[x] = old.f[x]
    /\ old.status \in FinalStatus(k) => new.status = old.status
    /\ k = "session" => /\ new.status = "absent" => old.status = "absent"
                        /\ old.f.durable = "revoked" => new.f.durable = "revoked"
    /\ k = "organization_member" => old.f.invitations \subseteq new.f.invitations

\* Tables only grow.
Grows ==
    /\ DbOK'
    /\ \A k \in DOMAIN Fields :
         /\ Len(db[k]) <= Len(db'[k])
         /\ \A i \in Ids(k) : Kept(k, db[k][i], db'[k][i])

\* The kinds whose rows have fields and statuses are kinds of the store.
LEMMA KindsKnown == DOMAIN Fields \subseteq Kinds /\ DOMAIN Statuses \subseteq DOMAIN Fields
BY SeedAssumption DEF Fields, Statuses

\* A table is a sequence: its ids are 1 .. Len.
LEMMA TableIds ==
    ASSUME NEW rows, IsTable(rows)
    PROVE  Len(rows) \in Nat /\ DOMAIN rows = 1 .. Len(rows)
BY DEF IsTable

\* The ids of a kind are 1 .. Len of its table.
LEMMA IdsAre ==
    ASSUME DbOK, NEW k \in DOMAIN Fields
    PROVE  Len(db[k]) \in Nat /\ DOMAIN db[k] = 1 .. Len(db[k]) /\ Ids(k) = 1 .. Len(db[k])
BY TableIds DEF DbOK, Ids

\* Rows stay, and so does what other rows and requests rely on.
LEMMA IdsGrow ==
    ASSUME DbOK, Grows, NEW k \in DOMAIN Fields
    PROVE  /\ Ids(k) \subseteq Ids(k)' /\ Ids(k) = 1 .. Len(db[k]) /\ Ids(k)' = 1 .. Len(db'[k])
           /\ Len(db[k]) \in Nat /\ Len(db'[k]) \in Nat /\ Len(db[k]) <= Len(db'[k])
           /\ \A i \in Ids(k) : Kept(k, Row(k, i), Row(k, i)')
<1>1. Len(db[k]) \in Nat /\ Len(db'[k]) \in Nat
    BY TableIds DEF DbOK, Grows
<1> QED
    BY <1>1 DEF Grows, Ids, Row

\* A row that does not change is kept.
LEMMA KeptSame == ASSUME NEW k \in DOMAIN Fields, NEW row, row.version \in Nat
                  PROVE Kept(k, row, row)
BY DEF Kept

\* An invitation that let a user in still does.
LEMMA AdmittedByLasts ==
    ASSUME DbOK, \A k \in DOMAIN Fields : Len(db[k]) <= Len(db'[k]),
           \A k \in DOMAIN Fields : IsTable(db'[k]),
           \A k \in DOMAIN Fields : \A i \in Ids(k) : Kept(k, db[k][i], db'[k][i]),
           NEW i \in Ids("invitation"), NEW u \in Ids("user"), Addressed(i, u)
    PROVE  Addressed(i, u)' /\ (AdmittedBy(i, u) => AdmittedBy(i, u)')
<1>1. {"invitation", "user"} \subseteq DOMAIN Fields
    BY DEF Fields
<1>2. /\ db'["invitation"][i].f["user"] = db["invitation"][i].f["user"]
      /\ db'["invitation"][i].f["email"] = db["invitation"][i].f["email"]
      /\ db'["user"][u].f["email"] = db["user"][u].f["email"]
      /\ db["invitation"][i].status = "accepted" => db'["invitation"][i].status = "accepted"
    BY <1>1 DEF Kept, FixedFields, FinalStatus
<1>3. i \in Ids("invitation")'
    BY <1>1, TableIds DEF Ids, DbOK
<1> QED
    BY <1>2, <1>3 DEF Addressed, AdmittedBy, Row

\* What a row names is still there.
LEMMA LinksLast ==
    ASSUME DbOK, \A k \in DOMAIN Fields : Len(db[k]) <= Len(db'[k]),
           \A k \in DOMAIN Fields : IsTable(db'[k]),
           \A k \in DOMAIN Fields : \A i \in Ids(k) : Kept(k, db[k][i], db'[k][i]),
           NEW k \in DOMAIN Fields, NEW row, LinkOK(k, row)
    PROVE  LinkOK(k, row)'
<1>1. {"session", "user", "login_attempt", "login_provider", "invitation"} \subseteq DOMAIN Fields
    BY DEF Fields
<1>2. \A j \in DOMAIN Fields : Ids(j) \subseteq Ids(j)'
    BY TableIds DEF Ids, DbOK
<1>3. \A j \in DOMAIN Fields : \A i \in Ids(j) : Row(j, i)'.tenant = Row(j, i).tenant
    BY DEF Kept, Row
<1>4. \A t \in Ids("login_attempt") :
         Row("login_attempt", t).status = "consumed" => Row("login_attempt", t)'.status = "consumed"
    BY <1>1 DEF Kept, FinalStatus, Row
<1>5. CASE k = "session"
    BY <1>1, <1>2, <1>3, <1>4, <1>5 DEF LinkOK, UserSession
<1>6. CASE k = "external_identity"
    BY <1>1, <1>2, <1>3, <1>6 DEF LinkOK
<1>7. CASE k = "login_attempt"
    BY <1>1, <1>2, <1>3, <1>7 DEF LinkOK
<1>8. CASE k = "organization_member"
    BY <1>1, <1>2, <1>8, AdmittedByLasts DEF LinkOK, AdmittedBy
<1> QED
    BY <1>5, <1>6, <1>7, <1>8 DEF LinkOK

-----------------------------------------------------------------------------
(* Writes                                                                  *)

\* A row is added to table k, and nothing else.
Adds(k, row) ==
    /\ \A j \in DOMAIN Fields \ {k} : db'[j] = db[j]
    /\ Len(db'[k]) = Len(db[k]) + 1 /\ db'[k][Len(db[k]) + 1] = row
    /\ \A i \in Ids(k) : db'[k][i] = db[k][i]

\* Rows of table k are rewritten, and nothing else.
Rewrites(k) ==
    /\ \A j \in DOMAIN Fields \ {k} : db'[j] = db[j]
    /\ Len(db'[k]) = Len(db[k])

\* A table with a row appended is a table.
LEMMA AppendTable ==
    ASSUME NEW rows, NEW row, IsTable(rows)
    PROVE  /\ IsTable(Append(rows, row)) /\ Len(Append(rows, row)) = Len(rows) + 1
           /\ \A i \in 1 .. Len(rows) : Append(rows, row)[i] = rows[i]
           /\ Append(rows, row)[Len(rows) + 1] = row
<1> DEFINE new == Append(rows, row)
           S == {rows[i] : i \in DOMAIN rows} \cup {row}
<1>1. rows \in Seq(S) /\ row \in S
    BY DEF IsTable
<1>2. /\ new \in Seq(S) /\ Len(new) = Len(rows) + 1
      /\ \A i \in 1 .. Len(rows) : new[i] = rows[i]
      /\ new[Len(rows) + 1] = row
  <2> HIDE DEF S
  <2> QED
      BY <1>1
<1>3. new \in Seq({new[i] : i \in DOMAIN new})
  <2> HIDE DEF new
  <2> QED
      BY <1>2
<1> QED
    BY <1>2, <1>3 DEF IsTable

\* A function on the ids of a table is a table.
LEMMA TableOfIds ==
    ASSUME NEW n \in Nat, NEW table, table = [i \in 1 .. n |-> table[i]]
    PROVE  IsTable(table) /\ Len(table) = n
<1> DEFINE S == {table[j] : j \in DOMAIN table}
<1>1. \A j \in 1 .. n : table[j] \in S
    OBVIOUS
<1> HIDE DEF S
<1>2. table \in [1 .. n -> S]
    BY <1>1
<1>3. table \in Seq(S) /\ Len(table) = n
    BY <1>2
<1> QED
    BY <1>3 DEF S, IsTable

\* What holds of a row after a step holds of the row the table then has.
LEMMA LinkThen ==
    ASSUME NEW k, NEW i, NEW row, row = db'[k][i], LinkOK(k, row)'
    PROVE  LinkOK(k, db[k][i])'
BY DEF LinkOK, UserSession, AdmittedBy, Addressed, Ids, Row

AddsRow(k, row) == db' = [db EXCEPT ![k] = Append(@, row)]
\* Inserting a row that is well formed and names rows that are there.
LEMMA AddGrows ==
    ASSUME DbOK, NEW k \in DOMAIN Fields, NEW row, RowOK(k, row), LinkOK(k, row), AddsRow(k, row)
    PROVE  Grows /\ Adds(k, row)
<1>1. /\ DOMAIN db' = Kinds /\ db'[k] = Append(db[k], row)
      /\ \A j \in DOMAIN Fields \ {k} : db'[j] = db[j]
    BY KindsKnown DEF DbOK, AddsRow
<1>2. /\ IsTable(db'[k]) /\ Len(db'[k]) = Len(db[k]) + 1
      /\ \A i \in 1 .. Len(db[k]) : db'[k][i] = db[k][i]
      /\ db'[k][Len(db[k]) + 1] = row
    BY <1>1, AppendTable DEF DbOK
<1>3. \A j \in DOMAIN Fields : Len(db[j]) \in Nat
    BY IdsAre
<1>4. \A j \in DOMAIN Fields : IsTable(db'[j]) /\ Len(db[j]) <= Len(db'[j])
  <2>1. ASSUME NEW j \in DOMAIN Fields PROVE IsTable(db'[j]) /\ Len(db[j]) <= Len(db'[j])
    <3>1. CASE j = k
        BY <1>2, <1>3, <3>1
    <3>2. CASE j # k
        BY <1>1, <1>3, <3>2 DEF DbOK
    <3> QED
        BY <3>1, <3>2
  <2> QED
      BY <2>1
<1>5. Ids(k) = 1 .. Len(db[k]) /\ Len(db[k]) \in Nat
    BY IdsAre
<1>6. \A j \in DOMAIN Fields : \A i \in Ids(j) : db'[j][i] = db[j][i]
    BY <1>1, <1>2, <1>5
<1>7. \A j \in DOMAIN Fields : \A i \in Ids(j) : Kept(j, db[j][i], db'[j][i])
    BY <1>6, KeptSame DEF DbOK, RowOK
<1>8. ASSUME NEW j \in DOMAIN Fields, NEW i \in 1 .. Len(db'[j])
      PROVE  RowOK(j, db'[j][i]) /\ LinkOK(j, db[j][i])'
  <2>1. PICK new : new = db'[j][i]
      OBVIOUS
  <2>2. RowOK(j, new) /\ LinkOK(j, new)
    <3>1. CASE i \in Ids(j)
        BY <1>6, <2>1, <3>1 DEF DbOK
    <3>2. CASE i \notin Ids(j)
        BY <1>1, <1>2, <1>5, <2>1, <3>2 DEF Ids
    <3> QED
        BY <3>1, <3>2
  <2>3. LinkOK(j, new)'
      BY <1>4, <1>7, <2>2, LinksLast
  <2> QED
      BY <2>1, <2>2, <2>3, LinkThen
<1>9. DbOK'
    BY <1>1, <1>4, <1>8 DEF DbOK, RowOK, Ids
<1> QED
    BY <1>1, <1>2, <1>4, <1>5, <1>7, <1>9 DEF Grows, Adds

\* The part of LinkOK that a rewritten row may have changed.
Rewritten(k, old, new) ==
    /\ Kept(k, old, new) /\ RowOK(k, new)
    /\ k = "organization_member" => \A i \in new.f.invitations : AdmittedBy(i, new.f.user)

SetsTable(k, table) == db' = [db EXCEPT ![k] = table] /\ table = [i \in Ids(k) |-> table[i]]
\* Rewriting the rows of one table, each kept and well formed.
LEMMA RewriteGrows ==
    ASSUME DbOK, NEW k \in DOMAIN Fields, NEW table, SetsTable(k, table),
           \A i \in Ids(k) : table[i] = db[k][i] \/ Rewritten(k, db[k][i], table[i])
    PROVE  Grows /\ Rewrites(k) /\ db'[k] = table
<1>1. /\ DOMAIN db' = Kinds /\ db'[k] = table /\ table = [i \in Ids(k) |-> table[i]]
      /\ \A j \in DOMAIN Fields \ {k} : db'[j] = db[j]
    BY KindsKnown DEF DbOK, SetsTable
<1>2. Ids(k) = 1 .. Len(db[k]) /\ Len(db[k]) \in Nat
    BY IdsAre
<1>3. IsTable(table) /\ Len(table) = Len(db[k])
    BY <1>1, <1>2, TableOfIds
<1>4. \A j \in DOMAIN Fields : IsTable(db'[j]) /\ Len(db'[j]) = Len(db[j])
    BY <1>1, <1>3 DEF DbOK
<1>5. \A j \in DOMAIN Fields : \A i \in Ids(j) : Kept(j, db[j][i], db'[j][i])
    BY <1>1, KeptSame DEF DbOK, RowOK, Rewritten
<1>6. ASSUME NEW j \in DOMAIN Fields, NEW i \in Ids(j)
      PROVE  RowOK(j, db'[j][i]) /\ LinkOK(j, db'[j][i])
  <2>1. CASE db'[j][i] = db[j][i]
      BY <2>1 DEF DbOK
  <2>2. CASE db'[j][i] # db[j][i]
    <3>1. j = k /\ Rewritten(k, db[k][i], db'[k][i])
        BY <1>1, <2>2
    <3>2. LinkOK(k, db[k][i])
        BY <3>1 DEF DbOK
    <3>3. LinkOK(k, db'[k][i])
        BY <3>1, <3>2 DEF Rewritten, Kept, FixedFields, LinkOK, UserSession
    <3> QED
        BY <3>1, <3>3 DEF Rewritten
  <2> QED
      BY <2>1, <2>2
<1>7. \A j \in DOMAIN Fields : Len(db[j]) <= Len(db'[j]) /\ Ids(j)' = Ids(j)
    BY <1>4, TableIds DEF DbOK, Ids
<1>8. ASSUME NEW j \in DOMAIN Fields, NEW i \in Ids(j) PROVE LinkOK(j, db[j][i])'
  <2>1. PICK new : new = db'[j][i]
      OBVIOUS
  <2>2. LinkOK(j, new)'
      BY <1>4, <1>5, <1>6, <1>7, <2>1, LinksLast
  <2> QED
      BY <2>1, <2>2, LinkThen
<1>9. DbOK'
  <2>1. \A j \in DOMAIN Fields : \A i \in 1 .. Len(db'[j]) :
           RowOK(j, db'[j][i]) /\ LinkOK(j, db[j][i])'
      BY <1>6, <1>7, <1>8 DEF Ids
  <2> QED
      BY <1>1, <1>4, <2>1 DEF DbOK, RowOK, Ids
<1> QED
    BY <1>1, <1>3, <1>5, <1>7, <1>9 DEF Grows, Rewrites

\* One row is rewritten.
SetsRow(k, id, row) == db' = [db EXCEPT ![k] = [@ EXCEPT ![id] = row]]
\* Rewriting one row.
LEMMA SetGrows ==
    ASSUME DbOK, NEW k \in DOMAIN Fields, NEW id \in Ids(k), NEW row,
           Rewritten(k, db[k][id], row), SetsRow(k, id, row)
    PROVE  /\ Grows /\ Rewrites(k)
           /\ \A i \in Ids(k) : db'[k][i] = IF i = id THEN row ELSE db[k][i]
<1> DEFINE table == [db[k] EXCEPT ![id] = row]
<1>1. DOMAIN db[k] = Ids(k)
    BY IdsAre
<1>2. /\ table = [i \in Ids(k) |-> table[i]]
      /\ \A i \in Ids(k) : table[i] = IF i = id THEN row ELSE db[k][i]
    BY <1>1
<1>3. db' = [db EXCEPT ![k] = table]
    BY KindsKnown DEF DbOK, SetsRow
<1> HIDE DEF table
<1>4. PICK t : t = table
    OBVIOUS
<1>5. /\ SetsTable(k, t)
      /\ \A i \in Ids(k) : t[i] = db[k][i] \/ Rewritten(k, db[k][i], t[i])
    BY <1>2, <1>3, <1>4 DEF SetsTable
<1>6. Grows /\ Rewrites(k) /\ db'[k] = t
    BY <1>5, RewriteGrows
<1> QED
    BY <1>2, <1>4, <1>6

\* The tables are left alone.
LEMMA SameGrows ==
    ASSUME DbOK, db' = db
    PROVE  Grows
<1>1. \A k \in DOMAIN Fields : Len(db[k]) <= Len(db'[k])
    BY TableIds DEF DbOK
<1>2. ASSUME NEW k \in DOMAIN Fields, NEW i \in Ids(k) PROVE LinkOK(k, db[k][i])'
    BY DEF DbOK, LinkOK, UserSession, AdmittedBy, Addressed, Ids, Row
<1>3. DbOK'
    BY <1>2 DEF DbOK, Ids, RowOK
<1> QED
    BY <1>1, <1>3, KeptSame DEF Grows, DbOK, RowOK

\* What Patched makes of a row.
LEMMA PatchedRow ==
    ASSUME NEW k \in DOMAIN Fields, NEW row, RowOK(k, row), NEW patch
    PROVE  LET new == Patched(row, patch)
           IN /\ {"tenant", "f", "status", "version"} \subseteq DOMAIN new
              /\ new.tenant = row.tenant /\ new.version = row.version + 1
              /\ new.status = IF patch.status = "keep" THEN row.status ELSE patch.status
              /\ DOMAIN new.f = DOMAIN patch.f \cup DOMAIN row.f
              /\ \A x \in DOMAIN patch.f : new.f[x] = patch.f[x]
              /\ \A x \in DOMAIN row.f \ DOMAIN patch.f : new.f[x] = row.f[x]
<1> DEFINE f == patch.f ++ row.f
           s == IF patch.status = "keep" THEN row.status ELSE patch.status
<1>1. /\ DOMAIN f = DOMAIN patch.f \cup DOMAIN row.f
      /\ \A x \in DOMAIN patch.f : f[x] = patch.f[x]
      /\ \A x \in DOMAIN row.f \ DOMAIN patch.f : f[x] = row.f[x]
    BY DEF ++
<1> HIDE DEF f, s
<1>2. \A v : LET new == [row EXCEPT !.status = s, !.f = f, !.version = v]
            IN DOMAIN new = DOMAIN row /\ new.tenant = row.tenant /\ new.version = v
                 /\ new.status = s /\ new.f = f
    BY DEF RowOK
<1>3. LET new == Patched(row, patch)
      IN /\ DOMAIN new = DOMAIN row /\ new.tenant = row.tenant /\ new.version = row.version + 1
         /\ new.status = s /\ new.f = f
    BY <1>2 DEF Patched, RowOK, s, f
<1> QED
    BY <1>1, <1>3 DEF RowOK, s

\* A new status, from those of the kind, for a row that may change it.
LEMMA NewStatusRow ==
    ASSUME NEW k \in DOMAIN Statuses, NEW row, RowOK(k, row), NEW status \in Statuses[k],
           row.status \in FinalStatus(k) => status = row.status,
           k = "session" => status # "absent",
           k = "organization_member" =>
             \A i \in row.f.invitations : AdmittedBy(i, row.f.user)
    PROVE  /\ Rewritten(k, row, Patched(row, NewStatus(status)))
           /\ Patched(row, NewStatus(status)).status = status
           /\ \A x \in DOMAIN row.f : Patched(row, NewStatus(status)).f[x] = row.f[x]
<1>1. PICK patch : patch = NewStatus(status)
    OBVIOUS
<1>2. PICK new : new = Patched(row, patch)
    OBVIOUS
<1>3. patch.status = status /\ patch.f = << >> /\ DOMAIN patch.f = {} /\ status # "keep"
    BY <1>1 DEF NewStatus, Statuses, DirectoryStatus, MembershipStatus
<1>4. k \in DOMAIN Fields
    BY KindsKnown
<1>5. /\ {"tenant", "f", "status", "version"} \subseteq DOMAIN new
      /\ new.tenant = row.tenant /\ new.version = row.version + 1 /\ new.status = status
      /\ DOMAIN new.f = DOMAIN row.f /\ \A x \in DOMAIN row.f : new.f[x] = row.f[x]
  <2>1. /\ {"tenant", "f", "status", "version"} \subseteq DOMAIN new
        /\ new.tenant = row.tenant /\ new.version = row.version + 1
        /\ new.status = IF patch.status = "keep" THEN row.status ELSE patch.status
        /\ DOMAIN new.f = DOMAIN patch.f \cup DOMAIN row.f
        /\ \A x \in DOMAIN row.f \ DOMAIN patch.f : new.f[x] = row.f[x]
      BY <1>2, <1>4, PatchedRow
  <2> QED
      BY <1>3, <2>1
<1>6. k # "api_key" /\ k # "failed_auth"
    BY DEF Statuses
<1>7. Fields[k] \subseteq DOMAIN row.f /\ row.version \in Nat \ {0}
    BY DEF RowOK
<1>8. RowOK(k, new)
    BY <1>5, <1>6, <1>7 DEF RowOK, Fields
<1>9. FixedFields[k] \subseteq Fields[k]
    BY <1>4 DEF FixedFields, Fields
<1>10. Kept(k, row, new)
    BY <1>5, <1>7, <1>9 DEF Kept, Fields
<1>11. k = "organization_member" => new.f.invitations = row.f.invitations /\ new.f.user = row.f.user
    BY <1>5, <1>7 DEF Fields
<1> QED
    BY <1>1, <1>2, <1>5, <1>8, <1>10, <1>11 DEF Rewritten

-----------------------------------------------------------------------------
(* Requests in flight                                                      *)

Accepting == "accept_auth_invitation"
Callback == "complete_auth_login_provider_callback"
AdminPcs ==
    {"write", "insert", "revoke_sessions", "cascade", "revoke_session", "unlink",
     "store_project_member", "replace_secret", "disable_key", "reinsert_key"}
LoginPcs == {"claims", "identity", "new_user", "new_identity", "persist"}
\* Steps on a session's row, and those of an invitation being taken up.
SessionPcs == {"persist_memory", "answer_session", "context", "default_context",
               "logout_postgres", "logout"}
InvitePcs == {"accept", "invited_organization", "invited_project", "defaults"}
KeyPcs == {"candidates", "failed", "last_used"}

\* An update: the row it compares and sets, its new status and what comes then.
WriteReady(x) ==
    /\ {"kind", "id", "expected", "patch", "then"} \subseteq DOMAIN x
    /\ x.kind \in DOMAIN Statuses \ {"session", "login_attempt"} /\ x.id \in Ids(x.kind)
    /\ \E status \in Statuses[x.kind] : x.patch = NewStatus(status)
    /\ x.kind = "invitation" => x.patch.status = "revoked"
    /\ x.then \in {"finish", "revoke_sessions", "cascade"}
    /\ x.then = "revoke_sessions" <=> (x.kind = "user" /\ x.patch.status # "active")
    /\ x.then = "revoke_sessions" => x.route = "update_user"
    /\ x.then = "cascade" => x.kind = "organization_member"

\* A create: the row.
InsertReady(x) ==
    /\ {"kind", "row", "then"} \subseteq DOMAIN x
    /\ x.kind \in {"service_account", "api_key", "invitation"}
    /\ RowOK(x.kind, x.row) /\ x.then = "finish"
    /\ x.kind = "invitation" => x.row.status = "pending"

\* A login: the provider, and the attempt it has consumed.
LoginReady(x) ==
    /\ {"provider", "attempt", "id"} \subseteq DOMAIN x
    /\ x.provider \in Ids("login_provider") /\ x.attempt \in Ids("login_attempt")
    /\ x.pc \in LoginPcs =>
         /\ Row("login_attempt", x.attempt).status = "consumed"
         /\ Row("login_attempt", x.attempt).f.provider = x.provider
    /\ x.pc = "new_identity" =>
         /\ "user" \in DOMAIN x /\ x.user \in Ids("user")
         /\ Row("user", x.user).tenant = Row("login_provider", x.provider).tenant

\* A session about to be stored.
PersistReady(x) ==
    /\ {"session", "then", "id"} \subseteq DOMAIN x
    /\ RowOK("session", x.session) /\ UserSession(x.session)
    /\ x.session.status = "active" /\ x.session.f.durable = "none"
    /\ x.then \in {"finish", "answer_session"}
    /\ IF x.route = Callback THEN x.session.f.attempt = x.attempt ELSE x.session.f.attempt = None

\* An invitation being taken up.
AcceptReady(x) ==
    /\ {"invitation", "user", "session", "at"} \subseteq DOMAIN x
    /\ x.invitation \in Ids("invitation") /\ x.user \in Ids("user")
    /\ x.session \in Ids("session")
    /\ Addressed(x.invitation, x.user)
    /\ x.pc # "accept" => Row("invitation", x.invitation).status = "accepted"

\* The row of kind k that a request has looked up.
Names(x, k) == "id" \in DOMAIN x /\ x.id \in Ids(k)

\* What a request of admin a holds fits the step it is at.
Ready(a, x) ==
    /\ {"pc", "route"} \subseteq DOMAIN x
    /\ x.pc \in AdminPcs => x.route \notin {Accepting, Callback}
    /\ x.pc = "write" => WriteReady(x)
    /\ x.pc = "insert" => InsertReady(x)
    /\ x.pc = "revoke_sessions" =>
         x.route = "update_user" /\ Names(x, "user") /\ Row("user", x.id).tenant = TenantOf[a]
    /\ x.pc = "write" /\ x.kind = "user" => Row("user", x.id).tenant = TenantOf[a]
    /\ x.pc = "cascade" => Names(x, "organization_member") /\ "patch" \in DOMAIN x
    /\ x.pc = "revoke_session" => Names(x, "session") /\ Row("session", x.id).status # "absent"
    /\ x.pc = "unlink" => Names(x, "external_identity")
    /\ x.pc = "store_project_member" => {"project", "user", "member", "id", "after"} \subseteq DOMAIN x
    /\ x.pc = "replace_secret" => Names(x, "api_key") /\ "copy" \in DOMAIN x
    /\ x.pc = "disable_key" => Names(x, "api_key")
    /\ x.pc = "reinsert_key" => /\ Names(x, "api_key") /\ "copy" \in DOMAIN x
                                /\ x.copy.secret \in 1 .. Row("api_key", x.id).version
    /\ x.pc \in SessionPcs => Names(x, "session")
    /\ x.pc = "persist_memory" =>
         /\ {"session", "then"} \subseteq DOMAIN x /\ x.then \in {"finish", "answer_session"}
         /\ Row("session", x.id).f.user = x.session.f.user
    /\ x.pc \in {"context", "default_context"} =>
         /\ {"context", "then", "at"} \subseteq DOMAIN x /\ x.then \in {"finish", "answer_session"}
    /\ x.pc \in LoginPcs \cup {"consume"} => x.route # Accepting
    /\ x.route = Callback => LoginReady(x)
    /\ x.pc \in (LoginPcs \cup {"consume"}) \ {"persist"} => x.route = Callback
    /\ x.pc = "persist" => PersistReady(x)
    /\ x.pc = "persist_memory" => x.route # Accepting
    /\ x.route = Accepting => AcceptReady(x)
    /\ x.pc \in InvitePcs => x.route = Accepting
    /\ x.pc \in {"invited_project"} => "member" \in DOMAIN x
    /\ x.pc \in KeyPcs =>
         /\ {"prefix", "at", "genuine"} \subseteq DOMAIN x /\ x.at \in Nat /\ x.at <= clock
         /\ x.prefix[1] \in Ids("api_key") /\ x.route = "verify_api_key"

Base ==
    /\ DbOK /\ clock \in Nat /\ SingleUser.user \in Ids("user")
    /\ DOMAIN op = Admins /\ \A a \in Admins : Ready(a, op[a])

\* A request that is still where it was; a rival may have taken its "alone".
Same(x, y) ==
    /\ DOMAIN y = DOMAIN x
    /\ \A f \in DOMAIN x \ {"alone"} : y[f] = x[f]

\* Readiness lasts while the tables grow.
LEMMA ReadyLasts ==
    ASSUME DbOK, Grows, clock \in Nat, clock' \in Nat, clock <= clock',
           NEW a \in Admins, NEW x, Ready(a, x)
    PROVE  Ready(a, x)'
<1>1. DOMAIN Statuses \subseteq DOMAIN Fields /\ {"login_provider", "api_key", "external_identity"} \subseteq DOMAIN Fields
    BY KindsKnown DEF Fields
<1>2. {"session", "user", "invitation", "login_attempt", "organization_member"} \subseteq DOMAIN Statuses
    BY DEF Statuses
<1>3. \A k \in DOMAIN Fields : Ids(k) \subseteq Ids(k)'
    BY IdsGrow
<1>4. \A k \in DOMAIN Fields : \A i \in Ids(k) : Kept(k, Row(k, i), Row(k, i)')
    BY IdsGrow
<1>5. \A k \in DOMAIN Fields : \A i \in Ids(k) : Row(k, i)'.tenant = Row(k, i).tenant
    BY <1>4 DEF Kept
<1>6. /\ \A t \in Ids("login_attempt") :
            /\ Row("login_attempt", t).status = "consumed" => Row("login_attempt", t)'.status = "consumed"
            /\ Row("login_attempt", t)'.f["provider"] = Row("login_attempt", t).f["provider"]
      /\ \A s \in Ids("session") :
            /\ Row("session", s).status # "absent" => Row("session", s)'.status # "absent"
            /\ Row("session", s)'.f["user"] = Row("session", s).f["user"]
      /\ \A i \in Ids("invitation") :
            Row("invitation", i).status = "accepted" => Row("invitation", i)'.status = "accepted"
      /\ \A i \in Ids("api_key") : Row("api_key", i)'.version >= Row("api_key", i).version
    BY <1>1, <1>2, <1>4 DEF Kept, FinalStatus, FixedFields
<1>7. \A i \in Ids("api_key") : Row("api_key", i)'.version \in Nat /\ Row("api_key", i).version \in Nat
    BY <1>1, <1>3 DEF Grows, DbOK, RowOK, Row
<1>8. \A i \in Ids("invitation"), u \in Ids("user") : Addressed(i, u) => Addressed(i, u)'
  <2>1. ASSUME NEW i \in Ids("invitation"), NEW u \in Ids("user"), Addressed(i, u) PROVE Addressed(i, u)'
      BY <2>1, AdmittedByLasts DEF Grows, DbOK
  <2> QED
      BY <2>1
<1>9. WriteReady(x) => WriteReady(x)'
    BY <1>1, <1>3 DEF WriteReady
<1>10. InsertReady(x) => InsertReady(x)'
    BY DEF InsertReady
<1>11. LoginReady(x) => LoginReady(x)'
    BY <1>1, <1>2, <1>3, <1>5, <1>6 DEF LoginReady
<1>12. \A row : UserSession(row) => UserSession(row)'
    BY <1>1, <1>2, <1>3, <1>5, <1>6 DEF UserSession
<1>13. PersistReady(x) => PersistReady(x)'
    BY <1>12 DEF PersistReady
<1>14. AcceptReady(x) => AcceptReady(x)'
    BY <1>1, <1>2, <1>3, <1>6, <1>8 DEF AcceptReady
<1>15. \A k \in DOMAIN Fields : Names(x, k) => Names(x, k)'
    BY <1>3 DEF Names
<1>16. x.pc = "revoke_sessions" => Row("user", x.id)'.tenant = TenantOf[a]
    BY <1>1, <1>2, <1>5 DEF Ready, Names
<1>17. x.pc = "write" /\ x.kind = "user" => Row("user", x.id)'.tenant = TenantOf[a]
    BY <1>1, <1>2, <1>5 DEF Ready, WriteReady
<1>18. x.pc = "revoke_session" => Row("session", x.id)'.status # "absent"
    BY <1>6 DEF Ready, Names
<1>19. x.pc = "reinsert_key" => x.copy.secret \in 1 .. Row("api_key", x.id)'.version
    BY <1>6, <1>7 DEF Ready, Names
<1>20. x.pc = "persist_memory" => Row("session", x.id)'.f.user = x.session.f.user
    BY <1>6 DEF Ready, Names, SessionPcs
<1>21. x.pc \in KeyPcs => x.at <= clock' /\ x.prefix[1] \in Ids("api_key")'
    BY <1>1, <1>3 DEF Ready
<1> QED
    BY <1>1, <1>2, <1>9, <1>10, <1>11, <1>13, <1>14, <1>15, <1>16, <1>17, <1>18, <1>19, <1>20, <1>21
       DEF Ready

\* "alone" is not among what readiness is about.
LEMMA ReadySame ==
    ASSUME NEW a \in Admins, NEW x, NEW y, Same(x, y), Ready(a, x)
    PROVE  Ready(a, y)
<1>1. \A f \in DOMAIN x \ {"alone"} : y[f] = x[f]
    BY DEF Same
<1>2. DOMAIN y = DOMAIN x /\ y.pc = x.pc /\ y.route = x.route
    BY <1>1 DEF Same, Ready
<1>3. WriteReady(x) => WriteReady(y) /\ y.kind = x.kind /\ y.id = x.id
    BY <1>1, <1>2 DEF WriteReady
<1>4. InsertReady(x) => InsertReady(y)
    BY <1>1, <1>2 DEF InsertReady
<1>5. LoginReady(x) => LoginReady(y)
    BY <1>1, <1>2 DEF LoginReady
<1>6. (x.route = Callback => LoginReady(x)) /\ PersistReady(x) => PersistReady(y)
    BY <1>1, <1>2 DEF PersistReady, LoginReady
<1>7. AcceptReady(x) => AcceptReady(y)
    BY <1>1, <1>2 DEF AcceptReady
<1>8. \A k : Names(x, k) => Names(y, k) /\ y.id = x.id
    BY <1>1, <1>2 DEF Names
<1>9. \A f \in {"patch", "copy", "session", "then", "context", "at", "prefix"} :
         f \in DOMAIN x => y[f] = x[f]
    BY <1>1
<1> QED
    BY <1>2, <1>3, <1>4, <1>5, <1>6, <1>7, <1>8, <1>9 DEF Ready, SessionPcs

-----------------------------------------------------------------------------
(* The invariant                                                           *)

\* The request has consumed an attempt and not yet stored its session.
LogsIn(x) == x.route = Callback /\ x.pc \in LoginPcs
\* It has taken up an invitation, is about to sign a user out, has stored a session
\* in Postgres alone, and is past the throttle of its key.
Admits(x) == x.route = Accepting /\ x.pc # "accept"
SigningOut(x, u) == x.route = "update_user" /\ x.pc = "revoke_sessions" /\ x.id = u
Stores(x) == x.pc = "persist_memory"
Verifies(x) == x.pc \in {"candidates", "failed"}

\* An attempt has one request or one session.
LoginInv ==
    /\ \A b, c \in Admins :
         LogsIn(op[b]) /\ LogsIn(op[c]) /\ op[b].attempt = op[c].attempt => b = c
    /\ \A s \in Ids("session") :
         LET t == Row("session", s).f.attempt
         IN t # None => /\ \A b \in Admins : LogsIn(op[b]) => op[b].attempt # t
                        /\ \A r \in Ids("session") : Row("session", r).f.attempt = t => r = s

\* An invitation has one user.
InviteInv == \A i \in Ids("invitation") : \A u, v \in Admitted(i) : u = v

\* A session that outlived its user's access, although it was stored before, is
\* about to be revoked.
Exposed(s) ==
    /\ AcceptsAccess("session", s) /\ ~ AcceptsAccess("user", Row("session", s).f.user)
    /\ ~ Row("session", s).f.late
SignInv ==
    \A s \in Ids("session") :
        Exposed(s) => \E b \in Admins : SigningOut(op[b], Row("session", s).f.user)

\* A session that is in Postgres alone has one request to store it, and has not
\* been seen in memory.
StoreInv ==
    /\ \A b \in Admins : Stores(op[b]) => Row("session", op[b].id).status = "absent"
    /\ \A b, c \in Admins : Stores(op[b]) /\ Stores(op[c]) /\ op[b].id = op[c].id => b = c

\* The requests past the throttle of a prefix count as if they had failed.
Past(p) == {b \in Admins : Verifies(op[b]) /\ op[b].prefix = p}
Throttled(p) ==
    Cardinality(Fresh(p, clock)) + Cardinality(Past(p)) <= MaxFailed - 1 + Cardinality(Admins)
ThrottleInv == \A p : Throttled(p)

Inv == Base /\ LoginInv /\ InviteInv /\ SignInv /\ StoreInv /\ ThrottleInv

-----------------------------------------------------------------------------
(* Steps                                                                   *)

\* A request consumes an attempt, one stores its session, or nobody logs in.
LoginStep(a) ==
    \/ /\ \A s \in Ids("session")' \ Ids("session") : db'["session"][s].f.attempt = None
       /\ LogsIn(op'[a]) => LogsIn(op[a]) /\ op'[a].attempt = op[a].attempt
    \/ /\ op'[a].attempt \in Ids("login_attempt")
       /\ Row("login_attempt", op'[a].attempt).status # "consumed"
       /\ Ids("session")' = Ids("session")
    \/ /\ LogsIn(op[a]) /\ ~ LogsIn(op'[a])
       /\ Len(db'["session"]) = Len(db["session"]) + 1
       /\ db'["session"][Len(db["session"]) + 1].f.attempt = op[a].attempt

\* What invitations members have been let in by, but for the one a is taking up.
MembersKept(a) ==
    \A m \in Ids("organization_member")' : \A i \in db'["organization_member"][m].f.invitations :
        \/ m \in Ids("organization_member") /\ i \in Row("organization_member", m).f.invitations
        \/ /\ Admits(op[a]) /\ i = op[a].invitation
           /\ db'["organization_member"][m].f.user = op[a].user
InviteStep(a) ==
    /\ MembersKept(a)
    /\ Admits(op'[a]) =>
         \/ Admits(op[a]) /\ op'[a].invitation = op[a].invitation /\ op'[a].user = op[a].user
         \/ Row("invitation", op'[a].invitation).status # "accepted"

\* Who is newly exposed is about to be signed out by a, and a signs out whom it meant to.
SignStep(a) ==
    \A s \in Ids("session")' : Exposed(s)' =>
        \/ SigningOut(op'[a], db'["session"][s].f.user)
        \/ /\ s \in Ids("session") /\ Exposed(s)
           /\ ~ SigningOut(op[a], Row("session", s).f.user)

\* Only the request that stores a session puts it into memory.
StoreStep(a) ==
    /\ \A s \in Ids("session") : Row("session", s).status = "absent" =>
          \/ db'["session"][s].status = "absent"
          \/ Stores(op[a]) /\ op[a].id = s /\ ~ Stores(op'[a])
    /\ Stores(op'[a]) =>
          \/ Stores(op[a]) /\ op'[a].id = op[a].id
          \/ /\ op'[a].id \in Ids("session")' \ Ids("session")
             /\ db'["session"][op'[a].id].status = "absent"

\* Failures are forgotten, a request passes the throttle, or one fails.
FailuresKept ==
    \A i \in Ids("failed_auth") :
        db'["failed_auth"][i].status = "active" => Row("failed_auth", i).status = "active"
ThrottleStep(a) ==
    /\ FailuresKept
    /\ \/ /\ Ids("failed_auth")' = Ids("failed_auth")
          /\ Verifies(op'[a]) => Verifies(op[a]) /\ op'[a].prefix = op[a].prefix
       \/ /\ Ids("failed_auth")' = Ids("failed_auth")
          /\ FailedAuthAllowed(op'[a].prefix, clock)
       \/ /\ Verifies(op[a]) /\ ~ Verifies(op'[a])
          /\ Len(db'["failed_auth"]) = Len(db["failed_auth"]) + 1
          /\ db'["failed_auth"][Len(db["failed_auth"]) + 1].f.prefix = op[a].prefix

Acts(a) ==
    /\ Grows /\ clock' = clock
    /\ DOMAIN op' = Admins /\ \A b \in Admins \ {a} : Same(op[b], op'[b])
    /\ Ready(a, op[a])'
StepOf(a) ==
    Acts(a) /\ LoginStep(a) /\ InviteStep(a) /\ SignStep(a) /\ StoreStep(a) /\ ThrottleStep(a)

-----------------------------------------------------------------------------
(* Steps keep the invariant                                                *)

\* Requests that are the Same are in the same case.
LEMMA SameIs ==
    ASSUME NEW a \in Admins, NEW x, NEW y, Same(x, y), Ready(a, x)
    PROVE  /\ y.pc = x.pc /\ y.route = x.route
           /\ LogsIn(x) => y.attempt = x.attempt
           /\ Admits(x) => y.invitation = x.invitation /\ y.user = x.user
           /\ \A u : SigningOut(x, u) <=> SigningOut(y, u)
           /\ Stores(x) => y.id = x.id
           /\ Verifies(x) => y.prefix = x.prefix
           /\ (LogsIn(x) <=> LogsIn(y)) /\ (Admits(x) <=> Admits(y))
           /\ (Stores(x) <=> Stores(y)) /\ (Verifies(x) <=> Verifies(y))
<1>1. y.pc = x.pc /\ y.route = x.route
    BY DEF Same, Ready
<1>2. LogsIn(x) => y.attempt = x.attempt
    BY DEF Same, Ready, LogsIn, LoginReady
<1>3. Admits(x) => y.invitation = x.invitation /\ y.user = x.user
    BY DEF Same, Ready, Admits, AcceptReady
<1>4. x.pc = "revoke_sessions" \/ Stores(x) => y.id = x.id
    BY DEF Same, Ready, Stores, Names, SessionPcs
<1>5. Verifies(x) => y.prefix = x.prefix
    BY DEF Same, Ready, Verifies, KeyPcs
<1> QED
    BY <1>1, <1>2, <1>3, <1>4, <1>5 DEF LogsIn, Admits, SigningOut, Stores, Verifies

\* The other requests, seen through what the invariant looks at.
LEMMA OthersSame ==
    ASSUME Base, NEW a \in Admins, Acts(a), NEW b \in Admins \ {a}
    PROVE  /\ op'[b].pc = op[b].pc /\ op'[b].route = op[b].route
           /\ LogsIn(op[b]) => op'[b].attempt = op[b].attempt
           /\ Admits(op[b]) => op'[b].invitation = op[b].invitation /\ op'[b].user = op[b].user
           /\ \A u : SigningOut(op[b], u) <=> SigningOut(op'[b], u)
           /\ Stores(op[b]) => op'[b].id = op[b].id
           /\ Verifies(op[b]) => op'[b].prefix = op[b].prefix
           /\ (LogsIn(op[b]) <=> LogsIn(op'[b])) /\ (Admits(op[b]) <=> Admits(op'[b]))
           /\ (Stores(op[b]) <=> Stores(op'[b])) /\ (Verifies(op[b]) <=> Verifies(op'[b]))
<1>1. Same(op[b], op'[b]) /\ Ready(b, op[b])
    BY DEF Base, Acts
<1>2. PICK x, y : x = op[b] /\ y = op'[b]
    OBVIOUS
<1>3. Same(x, y) /\ Ready(b, x)
    BY <1>1, <1>2
<1> QED
    BY <1>2, <1>3, SameIs

\* A step of one request keeps the store well formed and every request ready.
LEMMA ActsBase ==
    ASSUME Base, NEW a \in Admins, Acts(a)
    PROVE  Base'
<1>1. ASSUME NEW b \in Admins \ {a} PROVE Ready(b, op[b])'
  <2>1. PICK x, y : x = op[b] /\ y = op'[b]
      OBVIOUS
  <2>2. Ready(b, y)
      BY <2>1, ReadySame DEF Base, Acts
  <2>3. Ready(b, y)'
      BY <2>2, ReadyLasts DEF Base, Acts
  <2> QED
      BY <2>1, <2>3
      DEF Ready, WriteReady, InsertReady, LoginReady, PersistReady, AcceptReady, Names
<1>2. SingleUser.user \in Ids("user")'
    BY IdsGrow DEF Base, Acts, Fields
<1> QED
    BY <1>1, <1>2 DEF Base, Acts, Grows

\* Sessions keep their user and their attempt.
LEMMA SessionsGrow ==
    ASSUME Base, Grows
    PROVE  /\ Ids("session") = 1 .. Len(db["session"]) /\ Ids("session")' = 1 .. Len(db'["session"])
           /\ Len(db["session"]) \in Nat /\ Len(db'["session"]) \in Nat
           /\ Len(db["session"]) <= Len(db'["session"])
           /\ \A s \in Ids("session") :
                /\ s \in Ids("session")'
                /\ Row("session", s)'.f.attempt = Row("session", s).f.attempt
                /\ Row("session", s)'.f.user = Row("session", s).f.user
<1>1. "session" \in DOMAIN Fields
    BY DEF Fields
<1>2. \A s \in Ids("session") : Kept("session", Row("session", s), Row("session", s)')
    BY <1>1, IdsGrow DEF Base
<1>3. \A s \in Ids("session") :
          /\ Row("session", s)'.f["attempt"] = Row("session", s).f["attempt"]
          /\ Row("session", s)'.f["user"] = Row("session", s).f["user"]
    BY <1>2 DEF Kept, FixedFields
<1> QED
    BY <1>1, <1>3, IdsGrow DEF Base

\* Logins: consuming the attempt is the only way into a login, and the session the only way out.
LEMMA StepLoginInv ==
    ASSUME Base, LoginInv, NEW a \in Admins, Acts(a), LoginStep(a)
    PROVE  LoginInv'
<1>1. Base'
    BY ActsBase
<1>2. /\ \A s \in Ids("session") :
           /\ s \in Ids("session")'
           /\ Row("session", s)'.f.attempt = Row("session", s).f.attempt
      /\ Ids("session") = 1 .. Len(db["session"]) /\ Ids("session")' = 1 .. Len(db'["session"])
      /\ Len(db["session"]) \in Nat
    BY SessionsGrow DEF Acts
<1>3. \A b \in Admins \ {a} :
         /\ LogsIn(op'[b]) <=> LogsIn(op[b])
         /\ LogsIn(op[b]) => op'[b].attempt = op[b].attempt
    BY OthersSame
<1>4. CASE /\ \A s \in Ids("session")' \ Ids("session") : db'["session"][s].f.attempt = None
           /\ LogsIn(op'[a]) => LogsIn(op[a]) /\ op'[a].attempt = op[a].attempt
  <2>1. \A b \in Admins : LogsIn(op'[b]) => LogsIn(op[b]) /\ op'[b].attempt = op[b].attempt
      BY <1>3, <1>4
  <2>2. \A s \in Ids("session")' : Row("session", s)'.f.attempt # None => s \in Ids("session")
      BY <1>4 DEF Row
  <2>3. \A b, c \in Admins :
           LogsIn(op'[b]) /\ LogsIn(op'[c]) /\ op'[b].attempt = op'[c].attempt => b = c
      BY <2>1 DEF LoginInv
  <2>4. ASSUME NEW s \in Ids("session")', Row("session", s)'.f.attempt # None
        PROVE  /\ \A b \in Admins : LogsIn(op'[b]) => op'[b].attempt # Row("session", s)'.f.attempt
               /\ \A r \in Ids("session")' :
                    Row("session", r)'.f.attempt = Row("session", s)'.f.attempt => r = s
      BY <1>2, <2>1, <2>2, <2>4 DEF LoginInv
  <2> QED
      BY <2>3, <2>4 DEF LoginInv, LogsIn
<1>5. CASE /\ op'[a].attempt \in Ids("login_attempt")
           /\ Row("login_attempt", op'[a].attempt).status # "consumed"
           /\ Ids("session")' = Ids("session")
  <2>1. \A b \in Admins : LogsIn(op[b]) => op[b].attempt # op'[a].attempt
      BY <1>5 DEF Base, Ready, LoginReady, LogsIn
  <2>2. \A s \in Ids("session") : Row("session", s).f.attempt # op'[a].attempt
           \/ Row("session", s).f.attempt = None
      BY <1>5 DEF Base, DbOK, LinkOK, UserSession, Fields, Row
  <2>3. \A b, c \in Admins :
           LogsIn(op'[b]) /\ LogsIn(op'[c]) /\ op'[b].attempt = op'[c].attempt => b = c
      BY <1>3, <2>1 DEF LoginInv
  <2>4. ASSUME NEW s \in Ids("session")', Row("session", s)'.f.attempt # None
        PROVE  /\ \A b \in Admins : LogsIn(op'[b]) => op'[b].attempt # Row("session", s)'.f.attempt
               /\ \A r \in Ids("session")' :
                    Row("session", r)'.f.attempt = Row("session", s)'.f.attempt => r = s
      BY <1>2, <1>3, <1>5, <2>2, <2>4 DEF LoginInv
  <2> QED
      BY <2>3, <2>4 DEF LoginInv, LogsIn
<1>6. CASE /\ LogsIn(op[a]) /\ ~ LogsIn(op'[a])
           /\ Len(db'["session"]) = Len(db["session"]) + 1
           /\ db'["session"][Len(db["session"]) + 1].f.attempt = op[a].attempt
  <2>1. PICK n : n = Len(db["session"]) + 1
      OBVIOUS
  <2>2. \A s \in Ids("session")' : s \in Ids("session") \/ s = n
      BY <1>2, <1>6, <2>1
  <2>3. Row("session", n)'.f.attempt = op[a].attempt
      BY <1>6, <2>1 DEF Row
  <2>4. \A b, c \in Admins :
           LogsIn(op'[b]) /\ LogsIn(op'[c]) /\ op'[b].attempt = op'[c].attempt => b = c
      BY <1>3, <1>6 DEF LoginInv
  <2>5. \A b \in Admins : LogsIn(op'[b]) => b # a /\ LogsIn(op[b]) /\ op'[b].attempt = op[b].attempt
      BY <1>3, <1>6
  <2>6. \A s \in Ids("session") :
           Row("session", s).f.attempt # None => Row("session", s).f.attempt # op[a].attempt
      BY <1>6 DEF LoginInv
  <2>7. ASSUME NEW s \in Ids("session")', Row("session", s)'.f.attempt # None
        PROVE  /\ \A b \in Admins : LogsIn(op'[b]) => op'[b].attempt # Row("session", s)'.f.attempt
               /\ \A r \in Ids("session")' :
                    Row("session", r)'.f.attempt = Row("session", s)'.f.attempt => r = s
    <3>1. CASE s = n
        BY <1>2, <1>6, <2>2, <2>3, <2>5, <2>6, <2>7, <3>1 DEF LoginInv
    <3>2. CASE s \in Ids("session")
        BY <1>2, <2>2, <2>3, <2>5, <2>6, <2>7, <3>2 DEF LoginInv
    <3> QED
        BY <2>2, <3>1, <3>2
  <2> QED
      BY <2>4, <2>7 DEF LoginInv, LogsIn
<1> QED
    BY <1>4, <1>5, <1>6 DEF LoginStep

\* Invitations: only a pending one is accepted, by one request.
LEMMA StepInviteInv ==
    ASSUME Base, InviteInv, NEW a \in Admins, Acts(a), InviteStep(a)
    PROVE  InviteInv'
<1>1. {"organization_member", "invitation"} \subseteq DOMAIN Fields
    BY DEF Fields
<1>2. \A m \in Ids("organization_member") :
         /\ m \in Ids("organization_member")'
         /\ Row("organization_member", m)'.f["user"] = Row("organization_member", m).f["user"]
    BY <1>1, IdsGrow DEF Base, Acts, Kept, FixedFields
<1>3. \A b \in Admins \ {a} :
         /\ Admits(op'[b]) <=> Admits(op[b])
         /\ Admits(op[b]) => op'[b].invitation = op[b].invitation /\ op'[b].user = op[b].user
    BY OthersSame
\* Who is admitted: a member's user, or a request's.
<1>4. ASSUME NEW i, NEW u \in Admitted(i)'
      PROVE  \/ \E m \in Ids("organization_member")' :
                   i \in db'["organization_member"][m].f.invitations
                     /\ u = db'["organization_member"][m].f.user
             \/ \E b \in Admins : Admits(op'[b]) /\ op'[b].invitation = i /\ u = op'[b].user
    BY <1>4 DEF Admitted, Admits, Accepting, InFlight, Row
<1>5. ASSUME NEW i, NEW m \in Ids("organization_member"), i \in Row("organization_member", m).f.invitations
      PROVE  Row("organization_member", m).f.user \in Admitted(i)
    BY <1>5 DEF Admitted
<1>6. ASSUME NEW b \in Admins, Admits(op[b])
      PROVE  op[b].user \in Admitted(op[b].invitation)
  <2>1. op[b] # NoOp
      BY <1>6 DEF Admits, NoOp, Accepting
  <2> QED
      BY <1>6, <2>1 DEF Admitted, Admits, Accepting, InFlight
<1>7. ASSUME NEW i \in Ids("invitation"), Row("invitation", i).status # "accepted"
      PROVE  Admitted(i) = {}
  <2>1. \A m \in Ids("organization_member") : i \notin Row("organization_member", m).f.invitations
      BY <1>1, <1>7 DEF Base, DbOK, LinkOK, AdmittedBy, Row
  <2>2. \A b \in Admins : Admits(op[b]) => op[b].invitation # i
      BY <1>7 DEF Base, Ready, Admits, AcceptReady
  <2> QED
      BY <2>1, <2>2 DEF Admitted, Admits, Accepting, InFlight
\* Only a can have been added.
<1>8. ASSUME NEW i, NEW u \in Admitted(i)'
      PROVE  \/ u \in Admitted(i)
             \/ /\ Admits(op'[a]) /\ op'[a].invitation = i /\ u = op'[a].user
                /\ Row("invitation", i).status # "accepted"
  <2>1. CASE \E m \in Ids("organization_member")' :
                   i \in db'["organization_member"][m].f.invitations
                     /\ u = db'["organization_member"][m].f.user
    <3>1. PICK m \in Ids("organization_member")' :
                   i \in db'["organization_member"][m].f.invitations
                     /\ u = db'["organization_member"][m].f.user
        BY <2>1
    <3>2. CASE m \in Ids("organization_member") /\ i \in Row("organization_member", m).f.invitations
        BY <1>2, <1>5, <3>1, <3>2 DEF Row
    <3>3. CASE /\ Admits(op[a]) /\ i = op[a].invitation
               /\ db'["organization_member"][m].f.user = op[a].user
        BY <1>6, <3>1, <3>3
    <3> QED
        BY <3>1, <3>2, <3>3 DEF InviteStep, MembersKept
  <2>2. CASE \E b \in Admins : Admits(op'[b]) /\ op'[b].invitation = i /\ u = op'[b].user
    <3>1. PICK b \in Admins : Admits(op'[b]) /\ op'[b].invitation = i /\ u = op'[b].user
        BY <2>2
    <3>2. CASE b # a
        BY <1>3, <1>6, <3>1, <3>2
    <3>3. CASE b = a
        BY <1>6, <3>1, <3>3 DEF InviteStep
    <3> QED
        BY <3>2, <3>3
  <2> QED
      BY <1>4, <1>8, <2>1, <2>2
<1>9. ASSUME NEW i \in Ids("invitation")', NEW u \in Admitted(i)', NEW v \in Admitted(i)'
      PROVE  u = v
  <2>1. CASE i \in Ids("invitation") /\ Row("invitation", i).status # "accepted"
      BY <1>7, <1>8, <1>9, <2>1
  <2>2. CASE i \in Ids("invitation") /\ Row("invitation", i).status = "accepted"
      BY <1>8, <1>9, <2>2 DEF InviteInv
  <2>3. CASE i \notin Ids("invitation")
    <3>1. Admitted(i) = {}
      <4>1. \A m \in Ids("organization_member") : i \notin Row("organization_member", m).f.invitations
          BY <1>1, <2>3 DEF Base, DbOK, LinkOK, AdmittedBy, Row
      <4>2. \A b \in Admins : Admits(op[b]) => op[b].invitation # i
          BY <2>3 DEF Base, Ready, Admits, AcceptReady
      <4> QED
          BY <4>1, <4>2 DEF Admitted, Admits, Accepting, InFlight
    <3> QED
        BY <1>8, <1>9, <3>1
  <2> QED
      BY <2>1, <2>2, <2>3
<1> QED
    BY <1>9 DEF InviteInv

\* Users: who is shut out has no session that was there before, or a request that signs them out.
LEMMA StepSignInv ==
    ASSUME Base, SignInv, NEW a \in Admins, Acts(a), SignStep(a)
    PROVE  SignInv'
<1>1. \A s \in Ids("session") : Row("session", s)'.f.user = Row("session", s).f.user
    BY SessionsGrow DEF Acts
<1>2. \A b \in Admins \ {a} : \A u : SigningOut(op[b], u) <=> SigningOut(op'[b], u)
    BY OthersSame
<1>3. ASSUME NEW s \in Ids("session")', Exposed(s)'
      PROVE  \E b \in Admins : SigningOut(op'[b], Row("session", s)'.f.user)
  <2>1. CASE SigningOut(op'[a], db'["session"][s].f.user)
      BY <2>1 DEF Row
  <2>2. CASE /\ s \in Ids("session") /\ Exposed(s)
             /\ ~ SigningOut(op[a], Row("session", s).f.user)
      BY <1>1, <1>2, <2>2 DEF SignInv
  <2> QED
      BY <1>3, <2>1, <2>2 DEF SignStep
<1> QED
    BY <1>3 DEF SignInv, SigningOut

\* Sessions on their way to Postgres: one request stores each.
LEMMA StepStoreInv ==
    ASSUME Base, StoreInv, NEW a \in Admins, Acts(a), StoreStep(a)
    PROVE  StoreInv'
<1>1. \A b \in Admins \ {a} :
         (Stores(op'[b]) <=> Stores(op[b])) /\ (Stores(op[b]) => op'[b].id = op[b].id)
    BY OthersSame
<1>2. \A b \in Admins : Stores(op[b]) => op[b].id \in Ids("session")
    BY DEF Base, Ready, Stores, SessionPcs, Names
<1>3. ASSUME NEW b \in Admins, Stores(op'[b])
      PROVE  db'["session"][op'[b].id].status = "absent"
    BY <1>1, <1>2, <1>3 DEF StoreInv, StoreStep, Row
<1>4. ASSUME NEW b \in Admins, NEW c \in Admins, Stores(op'[b]), Stores(op'[c]), op'[b].id = op'[c].id
      PROVE  b = c
    BY <1>1, <1>2, <1>4 DEF StoreInv, StoreStep
<1> QED
    BY <1>3, <1>4 DEF StoreInv, Stores, Row

\* The failures in a window are finitely many.
LEMMA FreshFinite ==
    ASSUME Base, NEW p, NEW now
    PROVE  IsFiniteSet(Fresh(p, now)) /\ Cardinality(Fresh(p, now)) \in Nat
<1>1. "failed_auth" \in DOMAIN Fields
    BY DEF Fields
<1>2. Ids("failed_auth") = 1 .. Len(db["failed_auth"]) /\ Len(db["failed_auth"]) \in Nat
    BY <1>1, IdsAre DEF Base
<1>3. IsFiniteSet(1 .. Len(db["failed_auth"]))
    BY <1>2, FS_Interval
<1>4. Fresh(p, now) \subseteq 1 .. Len(db["failed_auth"])
    BY <1>2 DEF Fresh, Failures
<1> QED
    BY <1>3, <1>4, FS_Subset, FS_CardinalityType

\* So are the requests past the check.
LEMMA PastFinite ==
    ASSUME NEW p
    PROVE  /\ IsFiniteSet(Past(p)) /\ Cardinality(Past(p)) \in Nat
           /\ Cardinality(Past(p)) <= Cardinality(Admins) /\ Cardinality(Admins) \in Nat
<1>1. Past(p) \subseteq Admins /\ IsFiniteSet(Admins)
    BY AdminAssumption DEF Past
<1> QED
    BY <1>1, FS_Subset, FS_CardinalityType

\* Failures within the window after a step were so before, or are new.
LEMMA FreshAfter ==
    ASSUME Base, Grows, clock' \in Nat, clock <= clock', FailuresKept, NEW p,
           NEW i \in Fresh(p, clock)'
    PROVE  \/ i \in Fresh(p, clock)
           \/ i \in Ids("failed_auth")' \ Ids("failed_auth") /\ db'["failed_auth"][i].f.prefix = p
<1>1. "failed_auth" \in DOMAIN Fields
    BY DEF Fields
<1>2. /\ i \in Ids("failed_auth")' /\ db'["failed_auth"][i].f.prefix = p
      /\ db'["failed_auth"][i].status = "active"
      /\ db'["failed_auth"][i].f.at > clock' - FailedWindow
    BY DEF Fresh, Failures, Row
<1>3. CASE i \in Ids("failed_auth")
  <2>1. /\ Row("failed_auth", i)'.f["at"] = Row("failed_auth", i).f["at"]
        /\ Row("failed_auth", i)'.f["prefix"] = Row("failed_auth", i).f["prefix"]
      BY <1>1, <1>3, IdsGrow DEF Base, Kept, FixedFields
  <2>2. Row("failed_auth", i).status = "active"
      BY <1>2, <1>3 DEF FailuresKept
  <2>3. Row("failed_auth", i).f.at \in Int
      BY <1>1, <1>3 DEF Base, DbOK, RowOK, Row
  <2>4. Row("failed_auth", i).f.at > clock - FailedWindow
      BY <1>2, <2>1, <2>3, LoginAssumption DEF Base, Row
  <2> QED
      BY <1>2, <1>3, <2>1, <2>2, <2>4 DEF Fresh, Failures, Row
<1> QED
    BY <1>2, <1>3

\* Failed keys: whoever records one was let through before.
LEMMA StepThrottleInv ==
    ASSUME Base, ThrottleInv, NEW a \in Admins, Acts(a), ThrottleStep(a)
    PROVE  ThrottleInv'
<1> SUFFICES ASSUME NEW p PROVE Throttled(p)'
    BY DEF ThrottleInv
<1>1. Base' /\ clock' = clock /\ clock \in Nat
    BY ActsBase DEF Acts, Base
<1>2. PICK F, G, P, Q : /\ F = Fresh(p, clock) /\ G = Fresh(p, clock)'
                        /\ P = Past(p) /\ Q = Past(p)'
    OBVIOUS
<1>3. Cardinality(F) + Cardinality(P) <= MaxFailed - 1 + Cardinality(Admins)
    BY <1>2 DEF ThrottleInv, Throttled
<1>4. /\ IsFiniteSet(F) /\ IsFiniteSet(P) /\ Cardinality(F) \in Nat /\ Cardinality(P) \in Nat
      /\ IsFiniteSet(Q) /\ Cardinality(Q) \in Nat /\ Cardinality(Q) <= Cardinality(Admins)
      /\ Cardinality(Admins) \in Nat
      /\ IsFiniteSet(G) /\ Cardinality(G) \in Nat
  <2>1. /\ IsFiniteSet(F) /\ IsFiniteSet(P) /\ Cardinality(F) \in Nat /\ Cardinality(P) \in Nat
        /\ Cardinality(Admins) \in Nat
      BY <1>2, FreshFinite, PastFinite
  <2>2. Q \subseteq Admins /\ IsFiniteSet(Admins)
      BY <1>2, AdminAssumption DEF Past
  <2>3. IsFiniteSet(Q) /\ Cardinality(Q) \in Nat /\ Cardinality(Q) <= Cardinality(Admins)
      BY <2>2, FS_Subset, FS_CardinalityType
  <2>4. "failed_auth" \in DOMAIN Fields
      BY DEF Fields
  <2>5. PICK n : n = Len(db'["failed_auth"])
      OBVIOUS
  <2>6. G \subseteq 1 .. n /\ n \in Nat
      BY <1>2, <2>4, <2>5, IdsGrow DEF Base, Acts, Fresh, Failures
  <2>7. IsFiniteSet(1 .. n)
      BY <2>6, FS_Interval
  <2>8. IsFiniteSet(G) /\ Cardinality(G) \in Nat
      BY <2>6, <2>7, FS_Subset, FS_CardinalityType
  <2> QED
      BY <2>1, <2>3, <2>8
<1>5. \A i \in G : \/ i \in F
                   \/ i \in Ids("failed_auth")' \ Ids("failed_auth") /\ db'["failed_auth"][i].f.prefix = p
    BY <1>1, <1>2, FreshAfter DEF Acts, ThrottleStep
<1>6. \A b \in Q : b \in Admins /\ Verifies(op'[b]) /\ op'[b].prefix = p
    BY <1>2 DEF Past, Verifies
<1>7. \A b \in Q : b \in P \/ b = a
    BY <1>2, <1>6, OthersSame DEF Past
<1>8. Cardinality(G) + Cardinality(Q) <= MaxFailed - 1 + Cardinality(Admins)
  <2>1. CASE /\ Ids("failed_auth")' = Ids("failed_auth")
             /\ Verifies(op'[a]) => Verifies(op[a]) /\ op'[a].prefix = op[a].prefix
    <3>1. G \subseteq F /\ Q \subseteq P
        BY <1>2, <1>5, <1>6, <1>7, <2>1 DEF Past
    <3>2. Cardinality(G) <= Cardinality(F) /\ Cardinality(Q) <= Cardinality(P)
        BY <1>4, <3>1, FS_Subset
    <3> QED
        BY <1>3, <1>4, <3>2, LoginAssumption
  <2>2. CASE /\ Ids("failed_auth")' = Ids("failed_auth")
             /\ FailedAuthAllowed(op'[a].prefix, clock)
    <3>1. G \subseteq F
        BY <1>5, <2>2
    <3>2. Cardinality(G) <= Cardinality(F)
        BY <1>4, <3>1, FS_Subset
    <3>3. CASE p = op'[a].prefix
      <4>1. Cardinality(F) < MaxFailed
          BY <1>2, <2>2, <3>3 DEF FailedAuthAllowed
      <4> QED
          BY <1>4, <3>2, <4>1, LoginAssumption
    <3>4. CASE p # op'[a].prefix
      <4>1. Q \subseteq P
          BY <1>6, <1>7, <3>4
      <4>2. Cardinality(Q) <= Cardinality(P)
          BY <1>4, <4>1, FS_Subset
      <4> QED
          BY <1>3, <1>4, <3>2, <4>2, LoginAssumption
    <3> QED
        BY <3>3, <3>4
  <2>3. CASE /\ Verifies(op[a]) /\ ~ Verifies(op'[a])
             /\ Len(db'["failed_auth"]) = Len(db["failed_auth"]) + 1
             /\ db'["failed_auth"][Len(db["failed_auth"]) + 1].f.prefix = op[a].prefix
    <3>1. "failed_auth" \in DOMAIN Fields
        BY DEF Fields
    <3>2. PICK n : n = Len(db["failed_auth"]) + 1
        OBVIOUS
    <3>3. \A i \in Ids("failed_auth")' \ Ids("failed_auth") : i = n
        BY <2>3, <3>1, <3>2, IdsGrow DEF Base, Acts
    <3>4. Q \subseteq P \ {a}
        BY <1>6, <1>7, <2>3
    <3>5. CASE p = op[a].prefix
      <4>1. a \in P
          BY <1>2, <2>3, <3>5 DEF Past
      <4>2. Cardinality(P \ {a}) = Cardinality(P) - 1 /\ IsFiniteSet(P \ {a})
          BY <1>4, <4>1, FS_RemoveElement
      <4>3. Cardinality(Q) <= Cardinality(P) - 1
          BY <3>4, <4>2, FS_Subset
      <4>4. G \subseteq F \cup {n}
          BY <1>5, <3>3
      <4>5. IsFiniteSet(F \cup {n}) /\ Cardinality(F \cup {n}) <= Cardinality(F) + 1
        <5>1. /\ IsFiniteSet(F \cup {n})
              /\ Cardinality(F \cup {n}) = IF n \in F THEN Cardinality(F) ELSE Cardinality(F) + 1
            BY <1>4, FS_AddElement
        <5> QED
            BY <1>4, <5>1
      <4>6. Cardinality(G) <= Cardinality(F \cup {n}) /\ Cardinality(F \cup {n}) \in Nat
          BY <4>4, <4>5, FS_Subset, FS_CardinalityType
      <4> QED
          BY <1>3, <1>4, <4>3, <4>5, <4>6, LoginAssumption
    <3>6. CASE p # op[a].prefix
      <4>1. G \subseteq F /\ Q \subseteq P
          BY <1>5, <2>3, <3>2, <3>3, <3>4, <3>6
      <4>2. Cardinality(G) <= Cardinality(F) /\ Cardinality(Q) <= Cardinality(P)
          BY <1>4, <4>1, FS_Subset
      <4> QED
          BY <1>3, <1>4, <4>2, LoginAssumption
    <3> QED
        BY <3>5, <3>6
  <2> QED
      BY <2>1, <2>2, <2>3 DEF ThrottleStep
<1> QED
    BY <1>2, <1>8 DEF Throttled

\* Time passes: nothing but the window moves.
LEMMA TickInv ==
    ASSUME Inv, Tick
    PROVE  Inv'
<1>1. /\ db' = db /\ op' = op /\ clock' = clock + 1 /\ clock \in Nat
    BY DEF Tick, store, Inv, Base
<1>2. Grows
    BY <1>1, SameGrows DEF Inv, Base
<1>3. ASSUME NEW b \in Admins PROVE Ready(b, op[b])'
  <2>1. PICK x : x = op[b]
      OBVIOUS
  <2>2. Ready(b, x)'
      BY <1>1, <1>2, <2>1, ReadyLasts DEF Inv, Base
  <2> QED
      BY <1>1, <2>1, <2>2
      DEF Ready, WriteReady, InsertReady, LoginReady, PersistReady, AcceptReady, Names
<1>4. Base'
    BY <1>1, <1>2, <1>3 DEF Inv, Base, Grows, Ids
<1>5. LoginInv' /\ StoreInv'
    BY <1>1 DEF Inv, LoginInv, StoreInv, Ids, Row, LogsIn, Stores
<1>6. InviteInv'
  <2>1. \A i : Admitted(i)' = Admitted(i)
      BY <1>1 DEF Admitted, Ids, Row, InFlight
  <2> QED
      BY <1>1, <2>1 DEF Inv, InviteInv, Ids
<1>7. SignInv'
    BY <1>1 DEF Inv, SignInv, Exposed, AcceptsAccess, Ids, Row, SigningOut
<1>8. ASSUME NEW p PROVE Throttled(p)'
  <2>1. PICK F, G, P : F = Fresh(p, clock) /\ G = Fresh(p, clock)' /\ P = Past(p)
      OBVIOUS
  <2>2. FailuresKept
      BY <1>1 DEF FailuresKept, Row
  <2>3. G \subseteq F
      BY <1>1, <1>2, <2>1, <2>2, FreshAfter DEF Inv, Ids
  <2>4. Past(p)' = P
      BY <1>1, <2>1 DEF Past, Verifies
  <2>5. IsFiniteSet(F) /\ Cardinality(F) \in Nat /\ Cardinality(P) \in Nat /\ Cardinality(Admins) \in Nat
      BY <2>1, FreshFinite, PastFinite DEF Inv
  <2>6. Cardinality(G) <= Cardinality(F) /\ Cardinality(G) \in Nat
      BY <2>3, <2>5, FS_Subset, FS_CardinalityType
  <2>7. Cardinality(F) + Cardinality(P) <= MaxFailed - 1 + Cardinality(Admins)
      BY <2>1 DEF Inv, ThrottleInv, Throttled
  <2>8. Cardinality(G) + Cardinality(P) <= MaxFailed - 1 + Cardinality(Admins)
      BY <2>5, <2>6, <2>7, LoginAssumption
  <2> QED
      BY <2>1, <2>4, <2>8 DEF Throttled
<1> QED
    BY <1>4, <1>5, <1>6, <1>7, <1>8 DEF Inv, ThrottleInv

\* Every step of a request preserves the invariant.
LEMMA StepInv ==
    ASSUME Inv, NEW a \in Admins, StepOf(a)
    PROVE  Inv'
BY ActsBase, StepLoginInv, StepInviteInv, StepSignInv, StepStoreInv, StepThrottleInv
   DEF Inv, StepOf

-----------------------------------------------------------------------------
(* The steps requests are made of                                          *)

\* A request that goes on has no more to do with logins, invitations, sessions to
\* be stored and throttled keys than before.
Onward(x, y) ==
    /\ LogsIn(y) => LogsIn(x) /\ y.attempt = x.attempt
    /\ Admits(y) => Admits(x) /\ y.invitation = x.invitation /\ y.user = x.user
    /\ Stores(y) => Stores(x) /\ y.id = x.id
    /\ Verifies(y) => Verifies(x) /\ y.prefix = x.prefix

\* y has what x has, but for the fields changed.
Takes(x, y, changed) ==
    DOMAIN x \subseteq DOMAIN y /\ \A f \in DOMAIN x \ changed : y[f] = x[f]

\* A step that rewrites the store as Grows says and leaves its own request ready.
LEMMA ActsBy ==
    ASSUME Base, NEW a \in Admins, Grows, clock' = clock, DOMAIN op' = Admins,
           \A b \in Admins \ {a} : Same(op[b], op'[b]),
           NEW y, y = op'[a], Ready(a, y)'
    PROVE  Acts(a)
<1>1. Ready(a, op[a])'
    BY DEF Ready, WriteReady, InsertReady, LoginReady, PersistReady, AcceptReady, Names
<1> QED
    BY <1>1 DEF Acts

\* Only a's request is changed.
LEMMA OpSet ==
    ASSUME Base, NEW a \in Admins, NEW y, op' = [op EXCEPT ![a] = y]
    PROVE  /\ DOMAIN op' = Admins /\ op'[a] = y
           /\ \A b \in Admins \ {a} : Same(op[b], op'[b])
BY DEF Base, Same

\* A request that proceeds is rewritten, the others are left alone.
LEMMA OpProceeds ==
    ASSUME Base, NEW a \in Admins, NEW pc, op' = [op EXCEPT ![a].pc = pc]
    PROVE  /\ DOMAIN op' = Admins
           /\ \A b \in Admins \ {a} : Same(op[b], op'[b])
           /\ Takes(op[a], op'[a], {"pc"}) /\ op'[a].pc = pc
BY DEF Base, Same, Takes, Ready

\* The fields a step replaces in its request, and the ones it keeps.
LEMMA OpChanges ==
    ASSUME Base, NEW a \in Admins, NEW changes, op' = [op EXCEPT ![a] = changes ++ @]
    PROVE  /\ DOMAIN op' = Admins
           /\ \A b \in Admins \ {a} : Same(op[b], op'[b])
           /\ Takes(op[a], op'[a], DOMAIN changes)
           /\ DOMAIN changes \subseteq DOMAIN op'[a]
           /\ \A f \in DOMAIN changes : op'[a][f] = changes[f]
<1>1. op'[a] = changes ++ op[a]
    BY DEF Base
<1>2. /\ Takes(op[a], changes ++ op[a], DOMAIN changes)
      /\ DOMAIN changes \subseteq DOMAIN (changes ++ op[a])
      /\ \A f \in DOMAIN changes : (changes ++ op[a])[f] = changes[f]
    BY DEF ++, Takes
<1> QED
    BY <1>1, <1>2 DEF Base, Same

\* A step that does not touch sessions, what members were admitted by, and failures,
\* and leaves active users active, or is about to sign them out.
LEMMA Quiet ==
    ASSUME Base, NEW a \in Admins, Acts(a), Onward(op[a], op'[a]),
           \A u : ~ SigningOut(op[a], u),
           db'["session"] = db["session"], db'["failed_auth"] = db["failed_auth"],
           MembersKept(a),
           \A u \in Ids("user") : AcceptsAccess("user", u) =>
             db'["user"][u].status = "active" \/ SigningOut(op'[a], u)
    PROVE  StepOf(a)
<1>1. Ids("session")' = Ids("session") /\ Ids("failed_auth")' = Ids("failed_auth")
    BY DEF Ids
<1>2. LoginStep(a)
    BY <1>1 DEF LoginStep, Onward
<1>3. InviteStep(a)
    BY DEF InviteStep, Onward
<1>4. StoreStep(a)
    BY DEF StoreStep, Onward, Row
<1>5. ThrottleStep(a)
    BY <1>1 DEF ThrottleStep, FailuresKept, Onward, Row
<1>6. SignStep(a)
  <2> SUFFICES ASSUME NEW s \in Ids("session"), Exposed(s)'
               PROVE  Exposed(s) \/ SigningOut(op'[a], db'["session"][s].f.user)
      BY <1>1 DEF SignStep
  <2>1. Row("session", s).f.user \in Ids("user")
      BY DEF Base, DbOK, LinkOK, UserSession, Fields, Row
  <2> QED
      BY <2>1 DEF Exposed, AcceptsAccess, Row
<1> QED
    BY <1>2, <1>3, <1>4, <1>5, <1>6 DEF StepOf

\* Members are as they were.
LEMMA MembersUntouched ==
    ASSUME db'["organization_member"] = db["organization_member"], NEW a
    PROVE  MembersKept(a)
BY DEF MembersKept, Ids, Row

\* A write to a kind that no login, invitation, session or throttle depends on.
LEMMA QuietWrite ==
    ASSUME Base, NEW a \in Admins, Grows, clock' = clock, DOMAIN op' = Admins,
           \A b \in Admins \ {a} : Same(op[b], op'[b]),
           op[a].pc # "revoke_sessions",
           NEW y, y = op'[a], Ready(a, y), Onward(op[a], op'[a]),
           db'["session"] = db["session"], db'["failed_auth"] = db["failed_auth"],
           MembersKept(a),
           \A u \in Ids("user") : AcceptsAccess("user", u) =>
             db'["user"][u].status = "active" \/ SigningOut(op'[a], u)
    PROVE  StepOf(a)
<1>1. Ready(a, y)'
    BY ReadyLasts DEF Base
<1>2. Acts(a)
    BY <1>1, ActsBy
<1>3. \A u : ~ SigningOut(op[a], u)
    BY DEF SigningOut
<1> QED
    BY <1>2, <1>3, Quiet

\* A step that leaves the tables alone.
LEMMA QuietMove ==
    ASSUME Base, NEW a \in Admins, db' = db, clock' = clock, DOMAIN op' = Admins,
           \A b \in Admins \ {a} : Same(op[b], op'[b]),
           \A u : ~ SigningOut(op[a], u),
           NEW y, y = op'[a], Ready(a, y), Onward(op[a], op'[a])
    PROVE  StepOf(a)
<1>1. Grows
    BY SameGrows DEF Base
<1>2. Ready(a, y)'
    BY <1>1, ReadyLasts DEF Base
<1>3. Acts(a)
    BY <1>1, <1>2, ActsBy
<1>4. MembersKept(a)
    BY MembersUntouched
<1> QED
    BY <1>3, <1>4, Quiet DEF AcceptsAccess, Row

\* A request that is over.
LEMMA NoOpReady ==
    ASSUME NEW a \in Admins, NEW x
    PROVE  Ready(a, NoOp) /\ Onward(x, NoOp)
BY DEF Ready, NoOp, Onward, LogsIn, Admits, Stores, Verifies, Accepting, Callback, AdminPcs,
       SessionPcs, LoginPcs, InvitePcs, KeyPcs

\* A request that is refused or answered at once.
LEMMA EndsStep ==
    ASSUME Base, NEW a \in Admins, db' = db, clock' = clock, op' = [op EXCEPT ![a] = NoOp],
           \A u : ~ SigningOut(op[a], u)
    PROVE  StepOf(a)
<1>1. /\ DOMAIN op' = Admins /\ op'[a] = NoOp
      /\ \A b \in Admins \ {a} : Same(op[b], op'[b])
    BY OpSet
<1>2. Ready(a, NoOp) /\ Onward(op[a], NoOp)
    BY NoOpReady
<1> QED
    BY <1>1, <1>2, QuietMove

\* A request that is idle signs nobody out.
LEMMA IdleOut ==
    ASSUME NEW a, op[a] = NoOp
    PROVE  \A u : ~ SigningOut(op[a], u)
BY DEF SigningOut, NoOp

\* A handler that only reads.
LEMMA LooksStep ==
    ASSUME Base, NEW a \in Admins, op[a] = NoOp, db' = db, op' = op, clock' = clock
    PROVE  StepOf(a)
<1>1. Ready(a, NoOp) /\ Onward(op[a], NoOp)
    BY NoOpReady
<1>2. \A b \in Admins : Same(op[b], op[b])
    BY DEF Same
<1> QED
    BY <1>1, <1>2, QuietMove, IdleOut DEF Base

\* What a mutating handler of an admin goes on with.
LEMMA RequestStep ==
    ASSUME Base, NEW a \in Admins,
           NEW route, NEW early, NEW scope, NEW key, NEW hash, NEW late, NEW next,
           Mutating(a, route), Request(a, route, early, scope, key, hash, late, next),
           route \notin {Accepting, Callback}, "route" \notin DOMAIN next, "pc" \in DOMAIN next,
           next.pc \in AdminPcs \ {"revoke_sessions"},
           early /\ late =>
             \A y : (Takes(next, y, {}) /\ "route" \in DOMAIN y /\ y.route = route) => Ready(a, y)
    PROVE  StepOf(a)
<1> DEFINE rest == [route |-> route, scope |-> scope, key |-> key, hash |-> hash,
                    at |-> clock, alone |-> Rivals(a, scope, key) = {},
                    wrote |-> << >>]
           live == {r \in Stored(TenantOf[a], scope, key) : r.expires > clock}
<1>1. PICK allowed \in BOOLEAN :
         LET passed == allowed /\ ~ RejectFrozenConfigMutation(a, route) /\ early
         IN op' = IF passed /\ live = {} /\ late
                  THEN [b \in Admins |->
                          IF b = a THEN next ++ rest
                          ELSE IF b \in Rivals(a, scope, key) THEN [op[b] EXCEPT !.alone = FALSE]
                          ELSE op[b]]
                  ELSE op
    BY DEF Request, RequestNoting
<1>2. db' = db /\ clock' = clock
    BY DEF Request, RequestNoting, store, fixed
<1>3. op[a] = NoOp
    BY DEF Mutating, Calling
<1>4. Takes(next, next ++ rest, {}) /\ "route" \in DOMAIN (next ++ rest) /\ (next ++ rest).route = route
    BY DEF ++, Takes
<1>5. PICK y : y = next ++ rest
    OBVIOUS
<1>6. \A b \in Admins : /\ Same(op[b], op[b])
                        /\ Same(op[b], [op[b] EXCEPT !.alone = FALSE])
    BY DEF Same
<1> HIDE DEF rest, live
<1>7. CASE op' = op
    BY <1>2, <1>3, <1>7, LooksStep
<1>8. CASE early /\ late /\ op' # op
  <2>1. /\ DOMAIN op' = Admins /\ op'[a] = y
        /\ \A b \in Admins \ {a} : Same(op[b], op'[b])
      BY <1>1, <1>5, <1>6, <1>8
  <2>2. Ready(a, y)
      BY <1>4, <1>5, <1>8
  <2>3. y.pc = next.pc /\ y.route = route
      BY <1>4, <1>5 DEF Takes
  <2>4. Onward(op[a], y)
      BY <2>3 DEF Onward, LogsIn, Admits, Stores, Verifies, AdminPcs, Accepting, Callback, LoginPcs
  <2> QED
      BY <1>2, <1>3, <2>1, <2>2, <2>4, QuietMove, IdleOut
<1> QED
    BY <1>1, <1>7, <1>8

\* The part of Ready that is about an admin's steps.
LEMMA AdminReady ==
    ASSUME NEW a \in Admins, NEW x, {"pc", "route"} \subseteq DOMAIN x, x.pc \in AdminPcs,
           x.route \notin {Accepting, Callback},
           x.pc = "write" => WriteReady(x) /\ (x.kind = "user" => Row("user", x.id).tenant = TenantOf[a]),
           x.pc = "insert" => InsertReady(x),
           x.pc = "revoke_sessions" =>
             x.route = "update_user" /\ Names(x, "user") /\ Row("user", x.id).tenant = TenantOf[a],
           x.pc = "cascade" => Names(x, "organization_member") /\ "patch" \in DOMAIN x,
           x.pc = "revoke_session" => Names(x, "session") /\ Row("session", x.id).status # "absent",
           x.pc = "unlink" => Names(x, "external_identity"),
           x.pc = "store_project_member" => {"project", "user", "member", "id", "after"} \subseteq DOMAIN x,
           x.pc = "replace_secret" => Names(x, "api_key") /\ "copy" \in DOMAIN x,
           x.pc = "disable_key" => Names(x, "api_key"),
           x.pc = "reinsert_key" => /\ Names(x, "api_key") /\ "copy" \in DOMAIN x
                                    /\ x.copy.secret \in 1 .. Row("api_key", x.id).version
    PROVE  Ready(a, x)
BY DEF Ready, AdminPcs, SessionPcs, LoginPcs, InvitePcs, KeyPcs

\* Creates: a row of a kind that has no links.
LEMMA InsertingStep ==
    ASSUME Base, NEW a \in Admins,
           NEW route, NEW early, NEW scope, NEW key, NEW hash, NEW late, NEW k, NEW row,
           Mutating(a, route), Request(a, route, early, scope, key, hash, late, Inserting(k, row)),
           route \notin {Accepting, Callback},
           k \in {"service_account", "api_key", "invitation"}, RowOK(k, row),
           k = "invitation" => row.status = "pending"
    PROVE  StepOf(a)
<1>1. PICK next : next = Inserting(k, row)
    OBVIOUS
<1>2. /\ DOMAIN next = {"pc", "kind", "row", "before", "then"} /\ next.pc = "insert"
      /\ next.kind = k /\ next.row = row /\ next.then = "finish"
    BY <1>1 DEF Inserting
<1>3. ASSUME NEW y, Takes(next, y, {}), "route" \in DOMAIN y, y.route = route
      PROVE  Ready(a, y)
  <2>1. /\ {"pc", "kind", "row", "then"} \subseteq DOMAIN y /\ y.pc = "insert" /\ y.kind = k
        /\ y.row = row /\ y.then = "finish"
      BY <1>2, <1>3 DEF Takes
  <2> QED
      BY <1>3, <2>1, AdminReady DEF InsertReady, AdminPcs
<1> QED
    BY <1>1, <1>2, <1>3, RequestStep DEF AdminPcs

\* Updates of a status; "then" is what comes after the write.
LEMMA WritingStep ==
    ASSUME Base, NEW a \in Admins,
           NEW route, NEW early, NEW scope, NEW key, NEW hash, NEW late,
           NEW k \in DOMAIN Statuses \ {"session", "login_attempt"}, NEW id \in Ids(k), NEW expected,
           NEW status \in Statuses[k], NEW then, NEW next,
           next = [then |-> then] ++ Writing(k, id, expected, NewStatus(status)),
           Mutating(a, route), Request(a, route, early, scope, key, hash, late, next),
           route \notin {Accepting, Callback},
           early => ForActor(k, a, id),
           k = "invitation" => status = "revoked",
           then \in {"finish", "revoke_sessions", "cascade"},
           then = "revoke_sessions" <=> (k = "user" /\ status # "active"),
           then = "revoke_sessions" => route = "update_user",
           then = "cascade" => k = "organization_member"
    PROVE  StepOf(a)
<1>1. /\ DOMAIN next = {"pc", "kind", "id", "expected", "patch", "before", "then", "wrote"}
      /\ next.pc = "write" /\ next.kind = k /\ next.id = id /\ next.then = then
      /\ next.patch = NewStatus(status)
    BY DEF Writing, ++
<1>2. ASSUME NEW y, Takes(next, y, {}), "route" \in DOMAIN y, y.route = route, early
      PROVE  Ready(a, y)
  <2>1. /\ {"pc", "kind", "id", "expected", "patch", "then"} \subseteq DOMAIN y
        /\ y.pc = "write" /\ y.kind = k /\ y.id = id /\ y.then = then /\ y.patch = NewStatus(status)
      BY <1>1, <1>2 DEF Takes
  <2>2. y.patch.status = status
      BY <2>1 DEF NewStatus
  <2>3. WriteReady(y)
      BY <1>2, <2>1, <2>2 DEF WriteReady
  <2>4. k = "user" => Row("user", y.id).tenant = TenantOf[a]
      BY <1>2, <2>1 DEF ForActor
  <2> QED
      BY <1>2, <2>1, <2>3, <2>4, AdminReady DEF AdminPcs
<1> QED
    BY <1>1, <1>2, RequestStep DEF AdminPcs

\* The same when the write is the handler's last.
LEMMA WritingOnly ==
    ASSUME NEW k, NEW id, NEW expected, NEW patch
    PROVE  [then |-> "finish"] ++ Writing(k, id, expected, patch) = Writing(k, id, expected, patch)
BY DEF Writing, ++

\* The handlers that update the status of a row with an If-Match version.
LEMMA UpdatesStatusStep ==
    ASSUME Base, NEW a \in Admins, NEW route, NEW k \in DOMAIN Statuses, NEW statuses,
           k \notin {"session", "login_attempt", "user", "invitation"}, statuses \subseteq Statuses[k],
           route \notin {Accepting, Callback}, UpdatesStatus(a, route, k, statuses)
    PROVE  StepOf(a)
<1>1. PICK id \in Ids(k), expected \in 1 .. MaxVersion, status \in statuses :
         Request(a, route, ForActor(k, a, id), <<route>>, NoKey, id, TRUE,
                 Writing(k, id, expected, NewStatus(status)))
    BY DEF UpdatesStatus
<1>2. Mutating(a, route)
    BY DEF UpdatesStatus
<1>3. PICK next : next = [then |-> "finish"] ++ Writing(k, id, expected, NewStatus(status))
    OBVIOUS
<1>4. \E late : late = TRUE /\ Request(a, route, ForActor(k, a, id), <<route>>, NoKey, id, late, next)
    BY <1>1, <1>3, WritingOnly
<1>5. PICK late : Request(a, route, ForActor(k, a, id), <<route>>, NoKey, id, late, next)
    BY <1>4
<1> QED
    BY <1>1, <1>2, <1>3, <1>5, WritingStep

\* Writes that carry no version.
LEMMA TouchingStep ==
    ASSUME Base, NEW a \in Admins,
           NEW route, NEW early, NEW scope, NEW key, NEW hash, NEW late, NEW k, NEW id, NEW pc,
           NEW more, DOMAIN more \subseteq {"copy", "project", "user", "member"},
           Mutating(a, route), Request(a, route, early, scope, key, hash, late, more ++ Touching(k, id, pc)),
           route \notin {Accepting, Callback},
           pc \in {"revoke_session", "unlink", "store_project_member", "replace_secret", "disable_key"},
           early /\ late /\ pc # "store_project_member" => id \in Ids(k),
           pc = "revoke_session" => k = "session" /\ (early => Row("session", id).status # "absent"),
           pc = "unlink" => k = "external_identity",
           pc = "store_project_member" => {"project", "user", "member"} \subseteq DOMAIN more,
           pc \in {"replace_secret", "disable_key"} => k = "api_key",
           pc = "replace_secret" => "copy" \in DOMAIN more
    PROVE  StepOf(a)
<1>1. PICK next : next = more ++ Touching(k, id, pc)
    OBVIOUS
<1>2. /\ DOMAIN next = DOMAIN more \cup {"pc", "kind", "id", "before", "after", "then"}
      /\ next.pc = pc /\ next.kind = k /\ next.id = id
    BY <1>1 DEF Touching, ++
<1>3. ASSUME NEW y, Takes(next, y, {}), "route" \in DOMAIN y, y.route = route, early /\ late
      PROVE  Ready(a, y)
  <2>1. /\ DOMAIN more \cup {"pc", "id", "after"} \subseteq DOMAIN y /\ y.pc = pc /\ y.id = id
      BY <1>2, <1>3 DEF Takes
  <2>2. pc # "store_project_member" => Names(y, k)
      BY <1>3, <2>1 DEF Names
  <2> QED
      BY <1>3, <2>1, <2>2, AdminReady DEF AdminPcs
<1> QED
    BY <1>1, <1>2, <1>3, RequestStep DEF AdminPcs

\* Handlers that are not an admin's.
LEMMA BeginsOp ==
    ASSUME Base, NEW a \in Admins, NEW route, NEW next, Begins(a, route, next),
           "route" \notin DOMAIN next, "at" \notin DOMAIN next
    PROVE  \E y : /\ DOMAIN op' = Admins /\ op'[a] = y
                  /\ \A b \in Admins \ {a} : Same(op[b], op'[b])
                  /\ Takes(next, y, {}) /\ y.route = route /\ y.at = clock
                  /\ {"route", "at", "id", "after"} \subseteq DOMAIN y
                  /\ db' = db /\ clock' = clock
<1> DEFINE rest == [route |-> route, scope |-> <<route>>, key |-> NoKey, hash |-> None,
                    at |-> clock, alone |-> TRUE, wrote |-> << >>, before |-> None,
                    after |-> None, kind |-> "session", id |-> None]
<1>1. /\ Takes(next, next ++ rest, {}) /\ (next ++ rest).route = route /\ (next ++ rest).at = clock
      /\ {"route", "at", "id", "after"} \subseteq DOMAIN (next ++ rest)
    BY DEF ++, Takes
<1>2. op' = [op EXCEPT ![a] = next ++ rest] /\ db' = db /\ clock' = clock
    BY DEF Begins, store, fixed
<1>3. PICK y : y = next ++ rest
    OBVIOUS
<1> HIDE DEF rest
<1> QED
    BY <1>1, <1>2, <1>3, OpSet

\* The other steps: what a handler that neither logs in nor takes up an invitation
\* needs to be ready for.
LEMMA SessionReady ==
    ASSUME NEW a \in Admins, NEW x, {"pc", "route", "id"} \subseteq DOMAIN x,
           x.route \notin {Accepting, Callback}, x.id \in Ids("session"),
           x.pc \in SessionPcs \ {"persist_memory"},
           x.pc \in {"context", "default_context"} =>
             {"context", "then", "at"} \subseteq DOMAIN x /\ x.then \in {"finish", "answer_session"}
    PROVE  Ready(a, x)
BY DEF Ready, AdminPcs, SessionPcs, LoginPcs, InvitePcs, KeyPcs, Names

\* A request that works on a session is in no login, acceptance, store or key check.
LEMMA SessionOnward ==
    ASSUME NEW x, NEW y, y.pc \in SessionPcs \ {"persist_memory"}, y.route # Accepting
    PROVE  Onward(x, y)
BY DEF Onward, LogsIn, Admits, Stores, Verifies, SessionPcs, LoginPcs

\* A step of a session's user begins.
LEMMA SessionBegins ==
    ASSUME Base, NEW a \in Admins, op[a] = NoOp, NEW route, NEW next, Begins(a, route, next),
           "route" \notin DOMAIN next, "at" \notin DOMAIN next, {"pc", "id"} \subseteq DOMAIN next,
           route \notin {Accepting, Callback}, next.id \in Ids("session"),
           next.pc \in SessionPcs \ {"persist_memory"},
           next.pc \in {"context", "default_context"} =>
             {"context", "then"} \subseteq DOMAIN next /\ next.then \in {"finish", "answer_session"}
    PROVE  StepOf(a)
<1>1. PICK y : /\ DOMAIN op' = Admins /\ op'[a] = y
               /\ \A b \in Admins \ {a} : Same(op[b], op'[b])
               /\ Takes(next, y, {}) /\ y.route = route /\ y.at = clock
               /\ {"route", "at", "id", "after"} \subseteq DOMAIN y
               /\ db' = db /\ clock' = clock
    BY BeginsOp
<1>2. /\ y.pc = next.pc /\ y.id = next.id /\ {"pc", "route", "id"} \subseteq DOMAIN y
      /\ next.pc \in {"context", "default_context"} =>
           {"context", "then", "at"} \subseteq DOMAIN y /\ y.then \in {"finish", "answer_session"}
    BY <1>1 DEF Takes
<1>3. Ready(a, y)
    BY <1>1, <1>2, SessionReady
<1>4. Onward(op[a], y)
    BY <1>1, <1>2, SessionOnward
<1> QED
    BY <1>1, <1>3, <1>4, QuietMove, IdleOut

\* The handlers that move a session to another organization or project.
LEMMA MovesStep ==
    ASSUME Base, NEW a \in Admins, op[a] = NoOp, NEW route, route \notin {Accepting, Callback},
           NEW s \in Ids("session"), NEW context, NEW then \in {"context", "default_context"},
           Moves(a, route, s, context, then)
    PROVE  StepOf(a)
<1>1. PICK next : next = [pc |-> then, id |-> s, context |-> context, then |-> "answer_session"]
    OBVIOUS
<1>2. Begins(a, route, next)
    BY <1>1 DEF Moves
<1>3. /\ DOMAIN next = {"pc", "id", "context", "then"} /\ next.pc = then /\ next.id = s
      /\ next.then = "answer_session"
    BY <1>1
<1> QED
    BY <1>2, <1>3, SessionBegins DEF SessionPcs

\* A request goes on to its last step, or to one on its session.
LEMMA GoesOn ==
    ASSUME NEW a \in Admins, NEW x, Ready(a, x), x.pc # "accept",
           NEW y, NEW changed, Takes(x, y, changed),
           changed \cap {"route", "provider", "attempt", "invitation", "user", "session", "at"} = {},
           "pc" \in DOMAIN y, y.pc \in {"finish"} \cup (SessionPcs \ {"persist_memory"}),
           y.pc # "finish" => Names(y, "session"),
           y.pc \in {"context", "default_context"} =>
             {"context", "then", "at"} \subseteq DOMAIN y /\ y.then \in {"finish", "answer_session"}
    PROVE  Ready(a, y) /\ Onward(x, y) /\ y.route = x.route
<1>1. /\ "route" \in DOMAIN y /\ y.route = x.route
      /\ \A f \in {"provider", "attempt", "invitation", "user", "session", "at"} :
            f \in DOMAIN x => f \in DOMAIN y /\ y[f] = x[f]
    BY DEF Takes, Ready
<1>2. y.route = Callback => LoginReady(y)
    BY <1>1 DEF Ready, LoginReady, LoginPcs, SessionPcs, Takes
<1>3. y.route = Accepting => AcceptReady(y)
    BY <1>1 DEF Ready, AcceptReady
<1>4. Ready(a, y)
    BY <1>1, <1>2, <1>3 DEF Ready, AdminPcs, SessionPcs, LoginPcs, InvitePcs, KeyPcs
<1>5. Onward(x, y)
    BY <1>1 DEF Onward, LogsIn, Admits, Stores, Verifies, LoginPcs, SessionPcs, Ready, AcceptReady
<1> QED
    BY <1>1, <1>4, <1>5

-----------------------------------------------------------------------------
(* Reads, and the first steps of the handlers                              *)

\* A handler that only reads.
LEMMA ReadsStep ==
    ASSUME Base, NEW a \in Admins, op[a] = NoOp, NEW rows, Reads(a, rows)
    PROVE  StepOf(a)
BY LooksStep DEF Reads, store, fixed

\* get_* reads one row.
LEMMA GetsStep ==
    ASSUME Base, NEW a \in Admins, NEW route, NEW k, Gets(a, route, k)
    PROVE  StepOf(a)
BY ReadsStep DEF Gets, Calling

\* list_* reads the rows of the tenant.
LEMMA ListsStep ==
    ASSUME Base, NEW a \in Admins, NEW route, NEW k, NEW ids, Lists(a, route, k, ids)
    PROVE  StepOf(a)
BY ReadsStep DEF Lists, Calling

\* The directory handlers that only read.
LEMMA DirectoryReads ==
    ASSUME Base, NEW a \in Admins,
           \/ ListProjects(a) \/ GetProject(a) \/ ListOrganizations(a) \/ GetOrganization(a)
           \/ ListUsers(a) \/ GetUser(a) \/ ListUserSessions(a) \/ ListUserExternalIdentities(a)
           \/ GetUserExternalIdentity(a) \/ ListOrganizationMembers(a) \/ GetOrganizationMember(a)
           \/ ListProjectMembers(a) \/ GetProjectMember(a) \/ ListServiceAccounts(a)
           \/ GetServiceAccount(a) \/ ListApiKeys(a) \/ GetApiKeyAdmin(a)
           \/ ListOrganizationInvitations(a) \/ GetOrganizationInvitation(a)
    PROVE  StepOf(a)
<1>1. CASE \/ ListProjects(a) \/ ListOrganizations(a) \/ ListUsers(a) \/ ListServiceAccounts(a)
           \/ ListApiKeys(a) \/ ListUserSessions(a) \/ ListUserExternalIdentities(a)
           \/ ListOrganizationMembers(a) \/ ListProjectMembers(a)
    BY <1>1, ListsStep
       DEF ListProjects, ListOrganizations, ListUsers, ListServiceAccounts, ListApiKeys,
           ListUserSessions, ListUserExternalIdentities, ListOrganizationMembers, ListProjectMembers
<1>2. CASE \/ GetProject(a) \/ GetOrganization(a) \/ GetUser(a) \/ GetOrganizationMember(a)
           \/ GetProjectMember(a) \/ GetServiceAccount(a) \/ GetApiKeyAdmin(a)
           \/ GetOrganizationInvitation(a)
    BY <1>2, GetsStep
       DEF GetProject, GetOrganization, GetUser, GetOrganizationMember, GetProjectMember,
           GetServiceAccount, GetApiKeyAdmin, GetOrganizationInvitation
<1>3. CASE GetUserExternalIdentity(a) \/ ListOrganizationInvitations(a)
    BY <1>3, ReadsStep DEF GetUserExternalIdentity, ListOrganizationInvitations, Calling
<1> QED
    BY <1>1, <1>2, <1>3

\* The login handlers that only read.
LEMMA LoginReads ==
    ASSUME Base, NEW a \in Admins,
           \/ GetCurrentAuthSession(a) \/ ListAuthLoginProviders(a) \/ GetAuthLoginProvider(a)
           \/ PreviewAuthInvitation(a) \/ AuthenticateSession(a)
    PROVE  StepOf(a)
<1>1. op[a] = NoOp /\ db' = db /\ op' = op /\ clock' = clock
    BY DEF GetCurrentAuthSession, ListAuthLoginProviders, GetAuthLoginProvider,
           PreviewAuthInvitation, AuthenticateSession, Reads, Calling, store, fixed
<1> QED
    BY <1>1, LooksStep

\* The kinds the status handlers are for.
LEMMA StatusKinds ==
    /\ {"organization", "project", "user", "service_account", "organization_member",
        "project_member", "invitation"} \subseteq DOMAIN Statuses
    /\ Statuses["organization"] = DirectoryStatus /\ Statuses["project"] = DirectoryStatus
    /\ Statuses["user"] = DirectoryStatus /\ Statuses["service_account"] = DirectoryStatus
    /\ Statuses["organization_member"] = MembershipStatus
    /\ Statuses["project_member"] = MembershipStatus
    /\ Statuses["invitation"] = {"pending", "accepted", "revoked"}
    /\ {"active", "disabled", "deleted"} \subseteq DirectoryStatus
BY DEF Statuses, DirectoryStatus

\* update_project, update_organization, update_project_member and update_service_account.
LEMMA StatusUpdates ==
    ASSUME Base, NEW a \in Admins,
           \/ UpdateProject(a) \/ UpdateOrganization(a) \/ UpdateProjectMember(a)
           \/ UpdateServiceAccount(a)
    PROVE  StepOf(a)
<1>1. PICK route, k, statuses :
         /\ UpdatesStatus(a, route, k, statuses) /\ k \in DOMAIN Statuses
         /\ k \notin {"session", "login_attempt", "user", "invitation"} /\ statuses \subseteq Statuses[k]
         /\ route \notin {Accepting, Callback}
  <2>1. CASE UpdateProject(a)
      BY <2>1, StatusKinds DEF UpdateProject, Accepting, Callback
  <2>2. CASE UpdateOrganization(a)
      BY <2>2, StatusKinds DEF UpdateOrganization, Accepting, Callback
  <2>3. CASE UpdateProjectMember(a)
      BY <2>3, StatusKinds DEF UpdateProjectMember, Accepting, Callback
  <2>4. CASE UpdateServiceAccount(a)
      BY <2>4, StatusKinds DEF UpdateServiceAccount, Accepting, Callback
  <2> QED
      BY <2>1, <2>2, <2>3, <2>4
<1> QED
    BY <1>1, UpdatesStatusStep

\* update_user is a step of its request.
LEMMA UpdateUserStep ==
    ASSUME Base, NEW a \in Admins, UpdateUser(a)
    PROVE  StepOf(a)
<1>1. PICK u \in Ids("user"), expected \in 1 .. MaxVersion,
           status \in {"active", "disabled", "deleted"} :
         Request(a, "update_user", ForActor("user", a, u), <<"update_user">>, NoKey, u, TRUE,
                 [then |-> IF SignsOut(status) THEN "revoke_sessions" ELSE "finish"]
                   ++ Writing("user", u, expected, NewStatus(status)))
    BY DEF UpdateUser
<1>2. PICK then : then = IF SignsOut(status) THEN "revoke_sessions" ELSE "finish"
    OBVIOUS
<1>3. PICK next : next = [then |-> then] ++ Writing("user", u, expected, NewStatus(status))
    OBVIOUS
<1>4. \E late : late = TRUE
        /\ Request(a, "update_user", ForActor("user", a, u), <<"update_user">>, NoKey, u, late, next)
    BY <1>1, <1>2, <1>3
<1>5. PICK late :
         Request(a, "update_user", ForActor("user", a, u), <<"update_user">>, NoKey, u, late, next)
    BY <1>4
<1>6. Mutating(a, "update_user") /\ status \in Statuses["user"] /\ "user" \in DOMAIN Statuses
    BY StatusKinds DEF UpdateUser
<1>7. "update_user" \notin {Accepting, Callback}
    BY DEF Accepting, Callback
<1> QED
    BY <1>2, <1>3, <1>5, <1>6, <1>7, WritingStep DEF SignsOut

\* update_organization_member is a step of its request.
LEMMA UpdateOrganizationMemberStep ==
    ASSUME Base, NEW a \in Admins, UpdateOrganizationMember(a)
    PROVE  StepOf(a)
<1> DEFINE route == "update_organization_member"
           k == "organization_member"
<1>1. PICK i \in Ids(k), expected \in 1 .. MaxVersion, status \in MembershipStatus :
         Request(a, route, ForActor(k, a, i), <<route>>, NoKey, i, TRUE,
                 [then |-> "cascade"] ++ Writing(k, i, expected, NewStatus(status)))
    BY DEF UpdateOrganizationMember
<1>2. PICK next : next = [then |-> "cascade"] ++ Writing(k, i, expected, NewStatus(status))
    OBVIOUS
<1>3. \E late : late = TRUE /\ Request(a, route, ForActor(k, a, i), <<route>>, NoKey, i, late, next)
    BY <1>1, <1>2
<1>4. PICK late : Request(a, route, ForActor(k, a, i), <<route>>, NoKey, i, late, next)
    BY <1>3
<1>5. Mutating(a, route) /\ status \in Statuses[k] /\ k \in DOMAIN Statuses
    BY StatusKinds DEF UpdateOrganizationMember
<1>6. route \notin {Accepting, Callback}
    BY DEF Accepting, Callback
<1> QED
    BY <1>2, <1>4, <1>5, <1>6, WritingStep

\* revoke_organization_invitation is a step of its request.
LEMMA RevokeOrganizationInvitationStep ==
    ASSUME Base, NEW a \in Admins, RevokeOrganizationInvitation(a)
    PROVE  StepOf(a)
<1> DEFINE route == "revoke_organization_invitation"
           k == "invitation"
<1>1. PICK i \in Ids(k), expected \in 1 .. MaxVersion :
         Request(a, route, ForActor(k, a, i), <<route>>, NoKey, i, TRUE,
                 Writing(k, i, expected, NewStatus("revoked")))
    BY DEF RevokeOrganizationInvitation
<1>2. PICK next : next = [then |-> "finish"] ++ Writing(k, i, expected, NewStatus("revoked"))
    OBVIOUS
<1>3. \E late : late = TRUE /\ Request(a, route, ForActor(k, a, i), <<route>>, NoKey, i, late, next)
    BY <1>1, <1>2, WritingOnly
<1>4. PICK late : Request(a, route, ForActor(k, a, i), <<route>>, NoKey, i, late, next)
    BY <1>3
<1>5. Mutating(a, route) /\ "revoked" \in Statuses[k] /\ k \in DOMAIN Statuses
    BY StatusKinds DEF RevokeOrganizationInvitation
<1>6. route \notin {Accepting, Callback}
    BY DEF Accepting, Callback
<1> QED
    BY <1>2, <1>4, <1>5, <1>6, WritingStep

\* A request that keeps nothing but the row it touches.
LEMMA NothingMore ==
    ASSUME NEW k, NEW id, NEW pc
    PROVE  DOMAIN << >> = {} /\ << >> ++ Touching(k, id, pc) = Touching(k, id, pc)
BY DEF Touching, ++

\* revoke_user_session is a step of its request.
LEMMA RevokeUserSessionStep ==
    ASSUME Base, NEW a \in Admins, RevokeUserSession(a)
    PROVE  StepOf(a)
<1> DEFINE route == "revoke_user_session"
<1>1. PICK s \in Ids("session") :
         Request(a, route, ForActor("session", a, s) /\ Row("session", s).status # "absent", <<route>>, NoKey, s, TRUE, Touching("session", s, "revoke_session"))
    BY DEF RevokeUserSession
<1>2. PICK more : more = << >>
    OBVIOUS
<1>3. \E early, late :
        /\ early => Row("session", s).status # "absent"
        /\ Request(a, route, early, <<route>>, NoKey, s, late, more ++ Touching("session", s, "revoke_session"))
    BY <1>1, <1>2, NothingMore
<1>4. PICK early, late :
        /\ early => Row("session", s).status # "absent"
        /\ Request(a, route, early, <<route>>, NoKey, s, late, more ++ Touching("session", s, "revoke_session"))
    BY <1>3
<1>5. Mutating(a, route) /\ DOMAIN more = {}
    BY <1>2, NothingMore DEF RevokeUserSession
<1>6. route \notin {Accepting, Callback}
    BY DEF Accepting, Callback
<1> QED
    BY <1>4, <1>5, <1>6, TouchingStep

\* unlink_user_external_identity is a step of its request.
LEMMA UnlinkUserExternalIdentityStep ==
    ASSUME Base, NEW a \in Admins, UnlinkUserExternalIdentity(a)
    PROVE  StepOf(a)
<1> DEFINE route == "unlink_user_external_identity"
           k == "external_identity"
<1>1. PICK i \in Ids(k) :
         Request(a, route, ForActor(k, a, i), <<route>>, NoKey, i, TRUE, Touching(k, i, "unlink"))
    BY DEF UnlinkUserExternalIdentity
<1>2. PICK more : more = << >>
    OBVIOUS
<1>3. \E late : late = TRUE
        /\ Request(a, route, ForActor(k, a, i), <<route>>, NoKey, i, late, more ++ Touching(k, i, "unlink"))
    BY <1>1, <1>2, NothingMore
<1>4. PICK late :
        Request(a, route, ForActor(k, a, i), <<route>>, NoKey, i, late, more ++ Touching(k, i, "unlink"))
    BY <1>3
<1>5. Mutating(a, route) /\ DOMAIN more = {}
    BY <1>2, NothingMore DEF UnlinkUserExternalIdentity
<1>6. route \notin {Accepting, Callback}
    BY DEF Accepting, Callback
<1> QED
    BY <1>4, <1>5, <1>6, TouchingStep

\* create_project_member is a step of its request.
LEMMA CreateProjectMemberStep ==
    ASSUME Base, NEW a \in Admins, CreateProjectMember(a)
    PROVE  StepOf(a)
<1> DEFINE route == "create_project_member"
<1>1. PICK p \in Ids("project"), u \in Ids("user"), i \in Ids("organization_member"), key \in Keys :
         Request(a, route,
                 /\ ForActor("project", a, p) /\ AcceptsAccess("project", p)
                 /\ ForActor("user", a, u) /\ AcceptsAccess("user", u)
                 /\ ActiveOrganizationMember(a, Row("project", p).f.org, u, i),
                 <<route, p>>, key, <<u, i>>, TRUE,
                 [project |-> p, user |-> u, member |-> i]
                   ++ Touching("project_member", None, "store_project_member"))
    BY DEF CreateProjectMember
<1>2. PICK more : more = [project |-> p, user |-> u, member |-> i]
    OBVIOUS
<1>3. \E early, late :
         Request(a, route, early, <<route, p>>, key, <<u, i>>, late,
                 more ++ Touching("project_member", None, "store_project_member"))
    BY <1>1, <1>2
<1>4. PICK early, late :
         Request(a, route, early, <<route, p>>, key, <<u, i>>, late,
                 more ++ Touching("project_member", None, "store_project_member"))
    BY <1>3
<1>5. Mutating(a, route) /\ DOMAIN more = {"project", "user", "member"}
    BY <1>2 DEF CreateProjectMember
<1>6. route \notin {Accepting, Callback}
    BY DEF Accepting, Callback
<1> QED
    BY <1>4, <1>5, <1>6, TouchingStep

\* rotate_api_key_admin is a step of its request.
LEMMA RotateApiKeyAdminStep ==
    ASSUME Base, NEW a \in Admins, RotateApiKeyAdmin(a)
    PROVE  StepOf(a)
<1> DEFINE route == "rotate_api_key"
<1>1. PICK id \in Ids("api_key"), key \in Keys :
         Request(a, route, TRUE, <<route>>, key, id, ForActor("api_key", a, id),
                 [copy |-> Row("api_key", id).f] ++ Touching("api_key", id, "replace_secret"))
    BY DEF RotateApiKeyAdmin
<1>2. PICK more : more = [copy |-> Row("api_key", id).f]
    OBVIOUS
<1>3. \E early, late :
         Request(a, route, early, <<route>>, key, id, late,
                 more ++ Touching("api_key", id, "replace_secret"))
    BY <1>1, <1>2
<1>4. PICK early, late :
         Request(a, route, early, <<route>>, key, id, late,
                 more ++ Touching("api_key", id, "replace_secret"))
    BY <1>3
<1>5. Mutating(a, route) /\ DOMAIN more = {"copy"}
    BY <1>2 DEF RotateApiKeyAdmin
<1>6. route \notin {Accepting, Callback}
    BY DEF Accepting, Callback
<1> QED
    BY <1>4, <1>5, <1>6, TouchingStep

\* disable_api_key_admin is a step of its request.
LEMMA DisableApiKeyAdminStep ==
    ASSUME Base, NEW a \in Admins, DisableApiKeyAdmin(a)
    PROVE  StepOf(a)
<1> DEFINE route == "disable_api_key"
<1>1. PICK id \in Ids("api_key"), key \in Keys :
         Request(a, route, TRUE, <<route>>, key, id, ForActor("api_key", a, id),
                 Touching("api_key", id, "disable_key"))
    BY DEF DisableApiKeyAdmin
<1>2. PICK more : more = << >>
    OBVIOUS
<1>3. \E early, late :
         Request(a, route, early, <<route>>, key, id, late, more ++ Touching("api_key", id, "disable_key"))
    BY <1>1, <1>2, NothingMore
<1>4. PICK early, late :
         Request(a, route, early, <<route>>, key, id, late, more ++ Touching("api_key", id, "disable_key"))
    BY <1>3
<1>5. Mutating(a, route) /\ DOMAIN more = {}
    BY <1>2, NothingMore DEF DisableApiKeyAdmin
<1>6. route \notin {Accepting, Callback}
    BY DEF Accepting, Callback
<1> QED
    BY <1>4, <1>5, <1>6, TouchingStep

\* A new row has the fields it is given, at version 1.
LEMMA NewRowIs ==
    ASSUME NEW t, NEW f, NEW status
    PROVE  LET row == NewRow(t, f, status)
           IN /\ {"tenant", "f", "status", "version"} \subseteq DOMAIN row
              /\ row.tenant = t /\ row.f = f /\ row.status = status /\ row.version = 1
BY DEF NewRow

\* create_service_account is a step of its request.
LEMMA CreateServiceAccountStep ==
    ASSUME Base, NEW a \in Admins, CreateServiceAccount(a)
    PROVE  StepOf(a)
<1> DEFINE route == "create_service_account"
           k == "service_account"
<1>1. PICK r, t, f : Creates(a, route, k, r, TRUE, ValidateServiceAccountRequest(TenantOf[a], r),
                             NewRow(t, f, "active"))
    BY DEF CreateServiceAccount
<1>2. PICK row : row = NewRow(t, f, "active")
    OBVIOUS
<1>3. RowOK(k, row)
    BY <1>2, NewRowIs DEF RowOK, Fields, Statuses, DirectoryStatus
<1>4. \E key, early, late : Request(a, route, early, <<route>>, key, r, late, Inserting(k, row))
    BY <1>1, <1>2 DEF Creates
<1>5. PICK key, early, late : Request(a, route, early, <<route>>, key, r, late, Inserting(k, row))
    BY <1>4
<1>6. Mutating(a, route) /\ route \notin {Accepting, Callback}
    BY DEF CreateServiceAccount, Accepting, Callback
<1> QED
    BY <1>3, <1>5, <1>6, InsertingStep

\* create_api_key_admin is a step of its request.
LEMMA CreateApiKeyAdminStep ==
    ASSUME Base, NEW a \in Admins, CreateApiKeyAdmin(a)
    PROVE  StepOf(a)
<1> DEFINE route == "create_api_key"
           k == "api_key"
<1>1. PICK r : Creates(a, route, k, r, TRUE, ValidateApiKeyAdminRecord(TenantOf[a], r),
                       ApiKeyRecord(TenantOf[a], r))
    BY DEF CreateApiKeyAdmin
<1>2. PICK row : row = ApiKeyRecord(TenantOf[a], r)
    OBVIOUS
<1>3. RowOK(k, row)
    BY <1>2, NewRowIs DEF ApiKeyRecord, RowOK, Fields, Statuses
<1>4. \E key, early, late : Request(a, route, early, <<route>>, key, r, late, Inserting(k, row))
    BY <1>1, <1>2 DEF Creates
<1>5. PICK key, early, late : Request(a, route, early, <<route>>, key, r, late, Inserting(k, row))
    BY <1>4
<1>6. Mutating(a, route) /\ route \notin {Accepting, Callback}
    BY DEF CreateApiKeyAdmin, Accepting, Callback
<1> QED
    BY <1>3, <1>5, <1>6, InsertingStep

\* create_organization_invitation is a step of its request.
LEMMA CreateOrganizationInvitationStep ==
    ASSUME Base, NEW a \in Admins, CreateOrganizationInvitation(a)
    PROVE  StepOf(a)
<1> DEFINE route == "create_organization_invitation"
           k == "invitation"
           new(org, r) == NewRow(TenantOf[a], [org |-> org, project |-> r.project, email |-> r.email,
                                               user |-> r.user, expires |-> r.expires], "pending")
<1>1. PICK org \in Ids("organization"), r \in Requests["invitation"], key \in Keys :
         Request(a, route, ForActor("organization", a, org) /\ AcceptsAccess("organization", org),
                 <<route, org>>, key, r, OrganizationInvitationValidation(a, org, r, clock),
                 Inserting(k, new(org, r)))
    BY DEF CreateOrganizationInvitation
<1>2. PICK row : row = new(org, r)
    OBVIOUS
<1>3. RowOK(k, row) /\ row.status = "pending"
    BY <1>2, NewRowIs DEF RowOK, Fields, Statuses
<1>4. \E early, late : Request(a, route, early, <<route, org>>, key, r, late, Inserting(k, row))
    BY <1>1, <1>2
<1>5. PICK early, late : Request(a, route, early, <<route, org>>, key, r, late, Inserting(k, row))
    BY <1>4
<1>6. Mutating(a, route) /\ route \notin {Accepting, Callback}
    BY DEF CreateOrganizationInvitation, Accepting, Callback
<1> QED
    BY <1>3, <1>5, <1>6, InsertingStep

\* update_active_organization and update_active_project.
LEMMA SessionMoves ==
    ASSUME Base, NEW a \in Admins,
           \/ UpdateSessionDefaultOrganization(a) \/ UpdateSessionActiveOrganization(a)
           \/ UpdateSessionActiveProject(a)
    PROVE  StepOf(a)
<1>1. {"update_session_default_organization", "update_session_active_organization",
       "update_session_active_project"} \cap {Accepting, Callback} = {}
    BY DEF Accepting, Callback
<1>2. CASE UpdateSessionDefaultOrganization(a)
    BY <1>1, <1>2, MovesStep DEF UpdateSessionDefaultOrganization, Calling
<1>3. CASE UpdateSessionActiveOrganization(a)
    BY <1>1, <1>3, MovesStep DEF UpdateSessionActiveOrganization, Calling
<1>4. CASE UpdateSessionActiveProject(a)
    BY <1>1, <1>4, MovesStep DEF UpdateSessionActiveProject, Calling
<1> QED
    BY <1>2, <1>3, <1>4

\* logout_current_auth_session is a step of its request.
LEMMA LogoutCurrentAuthSessionStep ==
    ASSUME Base, NEW a \in Admins, LogoutCurrentAuthSession(a)
    PROVE  StepOf(a)
<1> DEFINE route == "logout_current_auth_session"
<1>1. PICK s \in Ids("session") :
         Begins(a, route, [pc |-> IF scenario.postgres THEN "logout_postgres" ELSE "logout", id |-> s])
    BY DEF LogoutCurrentAuthSession
<1>2. PICK next : next = [pc |-> IF scenario.postgres THEN "logout_postgres" ELSE "logout", id |-> s]
    OBVIOUS
<1>3. DOMAIN next = {"pc", "id"} /\ next.pc \in {"logout_postgres", "logout"} /\ next.id = s
    BY <1>2
<1>4. Begins(a, route, next)
    BY <1>1, <1>2
<1>5. op[a] = NoOp /\ route \notin {Accepting, Callback}
    BY DEF LogoutCurrentAuthSession, Calling, Accepting, Callback
<1> QED
    BY <1>3, <1>4, <1>5, SessionBegins DEF SessionPcs

\* complete_auth_login_provider_callback is a step of its request.
LEMMA CompleteAuthLoginProviderCallbackStep ==
    ASSUME Base, NEW a \in Admins, CompleteAuthLoginProviderCallback(a)
    PROVE  StepOf(a)
<1>1. PICK p \in Ids("login_provider"), attempt \in Ids("login_attempt") :
         Begins(a, Callback, [pc |-> "consume", provider |-> p, attempt |-> attempt,
                              tenant |-> Row("login_provider", p).tenant])
    BY DEF CompleteAuthLoginProviderCallback, Callback
<1>2. PICK next : next = [pc |-> "consume", provider |-> p, attempt |-> attempt,
                          tenant |-> Row("login_provider", p).tenant]
    OBVIOUS
<1>3. /\ DOMAIN next = {"pc", "provider", "attempt", "tenant"} /\ next.pc = "consume"
      /\ next.provider = p /\ next.attempt = attempt
    BY <1>2
<1>4. Begins(a, Callback, next)
    BY <1>1, <1>2
<1>5. PICK y : /\ DOMAIN op' = Admins /\ op'[a] = y
               /\ \A b \in Admins \ {a} : Same(op[b], op'[b])
               /\ Takes(next, y, {}) /\ y.route = Callback /\ y.at = clock
               /\ {"route", "at", "id", "after"} \subseteq DOMAIN y
               /\ db' = db /\ clock' = clock
    BY <1>3, <1>4, BeginsOp
<1>6. /\ {"pc", "route", "provider", "attempt", "id"} \subseteq DOMAIN y /\ y.pc = "consume"
      /\ y.provider = p /\ y.attempt = attempt
    BY <1>3, <1>5 DEF Takes
<1>7. LoginReady(y)
    BY <1>6 DEF LoginReady, LoginPcs
<1>8. Ready(a, y) /\ Onward(op[a], y)
    BY <1>5, <1>6, <1>7
       DEF Ready, Callback, Accepting, AdminPcs, SessionPcs, LoginPcs, InvitePcs, KeyPcs,
           Onward, LogsIn, Admits, Stores, Verifies
<1>9. op[a] = NoOp
    BY DEF CompleteAuthLoginProviderCallback, Calling
<1> QED
    BY <1>5, <1>8, <1>9, QuietMove, IdleOut

\* The session of a user, for a login of the user's tenant or the single user.
LEMMA NewSessionIs ==
    ASSUME Base, NEW u \in Ids("user"), NEW org, NEW project, NEW expires, NEW attempt,
           attempt = None \/ /\ attempt \in Ids("login_attempt")
                             /\ Row("login_attempt", attempt).status = "consumed"
                             /\ Row("login_attempt", attempt).tenant = Row("user", u).tenant
    PROVE  LET row == NewSession(u, org, project, expires, attempt)
           IN /\ RowOK("session", row) /\ UserSession(row)
              /\ row.status = "active" /\ row.f.durable = "none"
              /\ row.f.attempt = attempt /\ row.f.user = u
<1>1. PICK f : f = [user |-> u, org |-> org, project |-> project, expires |-> expires,
                    attempt |-> attempt, durable |-> "none", late |-> ~ AcceptsAccess("user", u)]
    OBVIOUS
<1>2. /\ DOMAIN f = {"user", "org", "project", "expires", "attempt", "durable", "late"}
      /\ f.user = u /\ f.attempt = attempt /\ f.durable = "none"
    BY <1>1
<1>3. PICK row : row = NewRow(Row("user", u).tenant, f, "active")
    OBVIOUS
<1>4. row = NewSession(u, org, project, expires, attempt)
    BY <1>1, <1>3 DEF NewSession
<1>5. /\ {"tenant", "f", "status", "version"} \subseteq DOMAIN row
      /\ row.tenant = Row("user", u).tenant /\ row.f = f /\ row.status = "active" /\ row.version = 1
    BY <1>3, NewRowIs
<1>6. RowOK("session", row)
    BY <1>2, <1>5 DEF RowOK, Fields, Statuses
<1>7. UserSession(row)
    BY <1>2, <1>5 DEF UserSession
<1> QED
    BY <1>2, <1>4, <1>5, <1>6, <1>7

\* single_user_login is a step of its request.
LEMMA SingleUserLoginStep ==
    ASSUME Base, NEW a \in Admins, SingleUserLogin(a)
    PROVE  StepOf(a)
<1> DEFINE route == "single_user_login"
<1>1. PICK row : row = NewSession(SingleUser.user, SingleUser.org, SingleUser.project,
                                  clock + SessionTtl, None)
    OBVIOUS
<1>2. /\ RowOK("session", row) /\ UserSession(row) /\ row.status = "active"
      /\ row.f.durable = "none" /\ row.f.attempt = None
    BY <1>1, NewSessionIs DEF Base
<1>3. PICK next : next = [pc |-> "persist", then |-> "answer_session", session |-> row]
    OBVIOUS
<1>4. /\ DOMAIN next = {"pc", "then", "session"} /\ next.pc = "persist"
      /\ next.then = "answer_session" /\ next.session = row
    BY <1>3
<1>5. Begins(a, route, next)
    BY <1>1, <1>3 DEF SingleUserLogin
<1>6. PICK y : /\ DOMAIN op' = Admins /\ op'[a] = y
               /\ \A b \in Admins \ {a} : Same(op[b], op'[b])
               /\ Takes(next, y, {}) /\ y.route = route /\ y.at = clock
               /\ {"route", "at", "id", "after"} \subseteq DOMAIN y
               /\ db' = db /\ clock' = clock
    BY <1>4, <1>5, BeginsOp
<1>7. /\ {"pc", "route", "then", "session", "id"} \subseteq DOMAIN y /\ y.pc = "persist"
      /\ y.then = "answer_session" /\ y.session = row
    BY <1>4, <1>6 DEF Takes
<1>8. PersistReady(y)
    BY <1>2, <1>6, <1>7 DEF PersistReady, Callback
<1>9. Ready(a, y) /\ Onward(op[a], y)
    BY <1>6, <1>7, <1>8
       DEF Ready, Callback, Accepting, AdminPcs, SessionPcs, LoginPcs, InvitePcs, KeyPcs,
           Onward, LogsIn, Admits, Stores, Verifies
<1>10. op[a] = NoOp
    BY DEF SingleUserLogin, Calling
<1> QED
    BY <1>6, <1>9, <1>10, QuietMove, IdleOut

\* A session's user is there.
LEMMA SessionUser ==
    ASSUME Base, NEW s \in Ids("session")
    PROVE  Row("session", s).f.user \in Ids("user") /\ RowOK("session", Row("session", s))
BY DEF Base, DbOK, LinkOK, UserSession, Fields, Row

\* accept_auth_invitation is a step of its request.
LEMMA AcceptAuthInvitationStep ==
    ASSUME Base, NEW a \in Admins, AcceptAuthInvitation(a)
    PROVE  StepOf(a)
<1> DEFINE next(s, i) ==
             [pc |-> "accept", invitation |-> i, session |-> s, about |-> <<"invitation", i>>,
              tenant |-> Row("session", s).tenant, user |-> Row("session", s).f.user,
              before |-> Row("invitation", i).version]
<1>1. PICK s \in Ids("session"), i \in Ids("invitation") :
         /\ Addressed(i, Row("session", s).f.user)
         /\ Begins(a, Accepting, next(s, i))
    BY DEF AcceptAuthInvitation, Accepting
<1>2. PICK n : n = next(s, i)
    OBVIOUS
<1>3. /\ DOMAIN n = {"pc", "invitation", "session", "about", "tenant", "user", "before"}
      /\ n.pc = "accept" /\ n.invitation = i /\ n.session = s /\ n.user = Row("session", s).f.user
    BY <1>2
<1>4. Begins(a, Accepting, n)
    BY <1>1, <1>2
<1> HIDE DEF next
<1>5. PICK y : /\ DOMAIN op' = Admins /\ op'[a] = y
               /\ \A b \in Admins \ {a} : Same(op[b], op'[b])
               /\ Takes(n, y, {}) /\ y.route = Accepting /\ y.at = clock
               /\ {"route", "at", "id", "after"} \subseteq DOMAIN y
               /\ db' = db /\ clock' = clock
    BY <1>3, <1>4, BeginsOp
<1>6. /\ {"pc", "route", "invitation", "user", "session", "at"} \subseteq DOMAIN y /\ y.pc = "accept"
      /\ y.invitation = i /\ y.user = Row("session", s).f.user /\ y.session = s
    BY <1>3, <1>5 DEF Takes
<1>7. AcceptReady(y)
    BY <1>1, <1>6, SessionUser DEF AcceptReady
<1>8. Ready(a, y) /\ Onward(op[a], y)
    BY <1>5, <1>6, <1>7
       DEF Ready, Callback, Accepting, AdminPcs, SessionPcs, LoginPcs, InvitePcs, KeyPcs,
           Onward, LogsIn, Admits, Stores, Verifies
<1>9. op[a] = NoOp
    BY DEF AcceptAuthInvitation, Mutating, Calling
<1> QED
    BY <1>5, <1>8, <1>9, QuietMove, IdleOut

-----------------------------------------------------------------------------
(* Writes of the directory                                                 *)

\* What the update of a status leaves a request with.
LEMMA WriteGoesOn ==
    ASSUME NEW a \in Admins, NEW x, Ready(a, x), x.pc = "write",
           NEW y, Takes(x, y, {"after", "pc"}), "pc" \in DOMAIN y, y.pc = x.then
    PROVE  /\ Ready(a, y) /\ Onward(x, y)
           /\ x.kind = "user" /\ x.patch.status # "active" => SigningOut(y, x.id)
<1>1. WriteReady(x) /\ x.route \notin {Accepting, Callback} /\ "route" \in DOMAIN x
    BY DEF Ready, AdminPcs
<1>2. /\ {"id", "patch", "route"} \subseteq DOMAIN y /\ y.id = x.id /\ y.patch = x.patch
      /\ y.route = x.route
    BY <1>1 DEF WriteReady, Takes
<1>3. Onward(x, y)
    BY <1>1, <1>2 DEF Onward, LogsIn, Admits, Stores, Verifies, LoginPcs, WriteReady
<1>4. ASSUME x.then = "finish" PROVE Ready(a, y)
    BY <1>1, <1>2, <1>4
       DEF Ready, AdminPcs, SessionPcs, LoginPcs, InvitePcs, KeyPcs
<1>5. ASSUME x.then = "revoke_sessions" PROVE Ready(a, y)
  <2>1. x.kind = "user" /\ x.route = "update_user" /\ Names(y, "user")
      BY <1>1, <1>2, <1>5 DEF WriteReady, Names
  <2> QED
      BY <1>1, <1>2, <1>5, <2>1, AdminReady DEF Ready, AdminPcs
<1>6. ASSUME x.then = "cascade" PROVE Ready(a, y)
  <2>1. Names(y, "organization_member")
      BY <1>1, <1>2, <1>6 DEF WriteReady, Names
  <2> QED
      BY <1>1, <1>2, <1>6, <2>1, AdminReady DEF AdminPcs
<1>7. Ready(a, y)
    BY <1>1, <1>4, <1>5, <1>6 DEF WriteReady
<1>8. x.kind = "user" /\ x.patch.status # "active" => SigningOut(y, x.id)
    BY <1>1, <1>2 DEF WriteReady, SigningOut
<1> QED
    BY <1>3, <1>7, <1>8

\* The writes that compare the version they read with the one in the store.
LEMMA CompareAndSetStep ==
    ASSUME Base, NEW a \in Admins, NEW k, CompareAndSet(a, k),
           k = "invitation" => Row("invitation", op[a].id).status = "pending"
    PROVE  StepOf(a)
<1>1. PICK x : x = op[a]
    OBVIOUS
<1>2. Ready(a, x) /\ x.pc = "write" /\ x.kind = k /\ WriteReady(x)
    BY <1>1 DEF CompareAndSet, Base, Ready
<1>3. clock' = clock
    BY DEF CompareAndSet, fixed
<1>4. CASE Row(k, x.id).version # x.expected
  <2>1. op' = [op EXCEPT ![a] = NoOp] /\ db' = db
      BY <1>1, <1>4 DEF CompareAndSet
  <2> QED
      BY <1>1, <1>2, <1>3, <2>1, EndsStep DEF SigningOut
<1>5. CASE Row(k, x.id).version = x.expected
  <2>1. PICK row, changes : /\ row = Patched(db[k][x.id], x.patch)
                            /\ changes = [after |-> Row(k, x.id).version + 1, pc |-> x.then]
      OBVIOUS
  <2>2. SetsRow(k, x.id, row) /\ op' = [op EXCEPT ![a] = changes ++ @]
      BY <1>1, <1>5, <2>1 DEF CompareAndSet, SetsRow
  <2>3. PICK status \in Statuses[k] : x.patch = NewStatus(status)
      BY <1>2 DEF WriteReady
  <2>4. /\ k \in DOMAIN Statuses \ {"session", "login_attempt"} /\ x.id \in Ids(k)
        /\ k \in DOMAIN Fields /\ RowOK(k, db[k][x.id]) /\ LinkOK(k, db[k][x.id])
      BY <1>2, KindsKnown DEF WriteReady, Base, DbOK
  <2>5. db[k][x.id].status \in FinalStatus(k) => status = db[k][x.id].status
      BY <1>1, <2>4 DEF FinalStatus, Row
  <2>6. /\ Rewritten(k, db[k][x.id], row) /\ row.status = status
        /\ \A f \in DOMAIN db[k][x.id].f : row.f[f] = db[k][x.id].f[f]
      BY <2>1, <2>3, <2>4, <2>5, NewStatusRow DEF LinkOK
  <2>7. /\ Grows /\ Rewrites(k)
        /\ \A i \in Ids(k) : db'[k][i] = IF i = x.id THEN row ELSE db[k][i]
      BY <2>2, <2>4, <2>6, SetGrows DEF Base
  <2>8. DOMAIN changes = {"after", "pc"} /\ changes.pc = x.then
      BY <2>1
  <2>9. PICK y : y = op'[a]
      OBVIOUS
  <2>10. /\ DOMAIN op' = Admins /\ \A b \in Admins \ {a} : Same(op[b], op'[b])
         /\ Takes(x, y, {"after", "pc"}) /\ "pc" \in DOMAIN y /\ y.pc = x.then
    <3>1. /\ DOMAIN op' = Admins /\ \A b \in Admins \ {a} : Same(op[b], op'[b])
          /\ Takes(op[a], op'[a], DOMAIN changes)
          /\ DOMAIN changes \subseteq DOMAIN op'[a]
          /\ \A f \in DOMAIN changes : op'[a][f] = changes[f]
        BY <2>2, OpChanges
    <3> QED
        BY <1>1, <2>8, <2>9, <3>1
  <2>11. /\ Ready(a, y) /\ Onward(x, y)
         /\ x.kind = "user" /\ x.patch.status # "active" => SigningOut(y, x.id)
      BY <1>2, <2>10, WriteGoesOn
  <2>12. db'["session"] = db["session"] /\ db'["failed_auth"] = db["failed_auth"]
      BY <2>4, <2>7 DEF Rewrites, Fields, Statuses
  <2>13. MembersKept(a)
    <3>1. CASE k # "organization_member"
        BY <2>7, <3>1, MembersUntouched DEF Rewrites, Fields
    <3>2. CASE k = "organization_member"
      <4>1. Ids(k)' = Ids(k)
          BY <2>7 DEF Rewrites, Ids
      <4>2. "invitations" \in DOMAIN db[k][x.id].f
          BY <2>4, <3>2 DEF RowOK, Fields
      <4>3. \A m \in Ids(k) : db'[k][m].f.invitations = db[k][m].f.invitations
          BY <2>6, <2>7, <4>2
      <4> QED
          BY <3>2, <4>1, <4>3 DEF MembersKept, Row
    <3> QED
        BY <3>1, <3>2
  <2>14. ASSUME NEW u \in Ids("user"), AcceptsAccess("user", u)
         PROVE  db'["user"][u].status = "active" \/ SigningOut(op'[a], u)
    <3>1. CASE k # "user"
        BY <2>7, <2>14, <3>1 DEF Rewrites, Fields, AcceptsAccess, Row
    <3>2. CASE k = "user" /\ u # x.id
        BY <2>7, <2>14, <3>2 DEF AcceptsAccess, Row
    <3>3. CASE k = "user" /\ u = x.id
      <4>1. x.patch.status = status
          BY <2>3 DEF NewStatus
      <4> QED
          BY <1>2, <2>6, <2>7, <2>9, <2>11, <3>3, <4>1
    <3> QED
        BY <3>1, <3>2, <3>3
  <2>15. op[a].pc # "revoke_sessions" /\ Onward(op[a], op'[a])
      BY <1>1, <1>2, <2>9, <2>11
  <2> QED
      BY <1>3, <2>7, <2>9, <2>10, <2>11, <2>12, <2>13, <2>14, <2>15, QuietWrite
<1> QED
    BY <1>4, <1>5

\* The compare-and-set of each kind with a status.
LEMMA StatusWrites ==
    ASSUME Base, NEW a \in Admins,
           \/ UpdateProjectStatus(a) \/ UpdateOrganizationStatus(a) \/ UpdateUserStatus(a)
           \/ UpdateOrganizationMemberStatus(a) \/ UpdateProjectMemberStatus(a)
           \/ UpdateServiceAccountStatus(a)
    PROVE  StepOf(a)
BY CompareAndSetStep
   DEF UpdateProjectStatus, UpdateOrganizationStatus, UpdateUserStatus,
       UpdateOrganizationMemberStatus, UpdateProjectMemberStatus, UpdateServiceAccountStatus

\* revoke_invitation is a step of its request.
LEMMA RevokeInvitationStep ==
    ASSUME Base, NEW a \in Admins, RevokeInvitation(a)
    PROVE  StepOf(a)
<1>1. CASE Row("invitation", op[a].id).status = "pending" /\ CompareAndSet(a, "invitation")
    BY <1>1, CompareAndSetStep
<1>2. CASE /\ op[a].pc = "write" /\ op' = [op EXCEPT ![a] = NoOp]
           /\ UNCHANGED db /\ OnlyDirectory
    BY <1>2, EndsStep DEF OnlyDirectory, fixed, SigningOut
<1> QED
    BY <1>1, <1>2 DEF RevokeInvitation

\* A write to a table that neither sessions nor throttling nor admission look at.
LEMMA QuietTable ==
    ASSUME Base, NEW a \in Admins, Grows, clock' = clock, DOMAIN op' = Admins,
           \A b \in Admins \ {a} : Same(op[b], op'[b]), op[a].pc # "revoke_sessions",
           NEW y, y = op'[a], Ready(a, y), Onward(op[a], op'[a]),
           NEW k, k \notin {"session", "failed_auth", "organization_member", "user"},
           \A j \in DOMAIN Fields \ {k} : db'[j] = db[j]
    PROVE  StepOf(a)
<1>1. /\ db'["session"] = db["session"] /\ db'["failed_auth"] = db["failed_auth"]
      /\ db'["organization_member"] = db["organization_member"] /\ db'["user"] = db["user"]
    BY DEF Fields
<1>2. MembersKept(a)
    BY <1>1, MembersUntouched
<1>3. \A u \in Ids("user") : AcceptsAccess("user", u) => db'["user"][u].status = "active"
    BY <1>1 DEF AcceptsAccess, Row
<1> QED
    BY <1>1, <1>2, <1>3, QuietWrite

\* The last write of a handler before it finishes.
LEMMA FinishOf ==
    ASSUME Base, NEW a \in Admins, op[a].pc \in AdminPcs, NEW y, y = op'[a],
           Takes(op[a], y, {"pc", "id", "after"}), "pc" \in DOMAIN y, y.pc = "finish"
    PROVE  Ready(a, y) /\ Onward(op[a], y)
<1>1. PICK x : x = op[a]
    OBVIOUS
<1>2. Ready(a, x) /\ x.pc # "accept" /\ Takes(x, y, {"pc", "id", "after"})
    BY <1>1 DEF Base, AdminPcs
<1> QED
    BY <1>1, <1>2, GoesOn

\* A step after which only the answer is left.
LEMMA ProceedsToFinish ==
    ASSUME Base, NEW a \in Admins, op[a].pc \in AdminPcs, Proceed(a, "finish")
    PROVE  /\ DOMAIN op' = Admins /\ \A b \in Admins \ {a} : Same(op[b], op'[b])
           /\ \E y : y = op'[a] /\ Ready(a, y) /\ Onward(op[a], op'[a]) /\ y.pc = "finish"
<1>1. /\ DOMAIN op' = Admins /\ \A b \in Admins \ {a} : Same(op[b], op'[b])
      /\ Takes(op[a], op'[a], {"pc"}) /\ op'[a].pc = "finish"
    BY OpProceeds DEF Proceed
<1>2. PICK y : y = op'[a]
    OBVIOUS
<1>3. Takes(op[a], y, {"pc", "id", "after"}) /\ "pc" \in DOMAIN y
    BY <1>1, <1>2 DEF Takes, Base, Ready
<1> QED
    BY <1>1, <1>2, <1>3, FinishOf

\* A row of which only the status is set.
LEMMA StatusOnlyRow ==
    ASSUME NEW k \in DOMAIN Fields, NEW row, RowOK(k, row), NEW status, NEW new,
           new = [row EXCEPT !.status = status],
           k \in DOMAIN Statuses => status \in Statuses[k],
           row.status \in FinalStatus(k) => status = row.status,
           k = "session" /\ status = "absent" => row.status = "absent",
           k # "organization_member"
    PROVE  Rewritten(k, row, new) /\ new.f = row.f /\ new.status = status
<1>1. /\ DOMAIN new = DOMAIN row /\ new.f = row.f /\ new.status = status
      /\ new.tenant = row.tenant /\ new.version = row.version
    BY DEF RowOK
<1>2. RowOK(k, new)
    BY <1>1 DEF RowOK
<1>3. Kept(k, row, new)
    BY <1>1 DEF Kept, RowOK
<1> QED
    BY <1>1, <1>2, <1>3 DEF Rewritten

\* A step that inserts the row its request prepared.
LEMMA InsertRowStep ==
    ASSUME Base, NEW a \in Admins, NEW k, InsertRow(a, k)
    PROVE  StepOf(a)
<1>1. PICK x, changes : x = op[a] /\ changes = [id |-> Len(db[k]) + 1, after |-> 1, pc |-> x.then]
    OBVIOUS
<1>2. /\ x.pc = "insert" /\ x.kind = k /\ InsertReady(x)
    BY <1>1 DEF InsertRow, Base, Ready
<1>3. DOMAIN changes = {"id", "after", "pc"} /\ changes.pc = "finish"
    BY <1>1, <1>2 DEF InsertReady
<1>4. AddsRow(k, x.row) /\ op' = [op EXCEPT ![a] = changes ++ @] /\ clock' = clock
    BY <1>1 DEF InsertRow, AddsRow, fixed
<1>5. k \in {"service_account", "api_key", "invitation"} /\ RowOK(k, x.row)
    BY <1>2 DEF InsertReady
<1>6. k \in DOMAIN Fields /\ LinkOK(k, x.row)
    BY <1>5 DEF LinkOK, Fields
<1>7. Grows /\ \A j \in DOMAIN Fields \ {k} : db'[j] = db[j]
    BY <1>4, <1>5, <1>6, AddGrows DEF Base, Adds
<1>8. /\ DOMAIN op' = Admins /\ \A b \in Admins \ {a} : Same(op[b], op'[b])
      /\ Takes(op[a], op'[a], DOMAIN changes)
      /\ DOMAIN changes \subseteq DOMAIN op'[a]
      /\ \A f \in DOMAIN changes : op'[a][f] = changes[f]
    BY <1>4, OpChanges
<1>9. PICK y : y = op'[a]
    OBVIOUS
<1>10. Takes(op[a], y, {"pc", "id", "after"}) /\ "pc" \in DOMAIN y /\ y.pc = "finish"
    BY <1>3, <1>8, <1>9 DEF Takes
<1>11. op[a].pc \in AdminPcs /\ op[a].pc # "revoke_sessions"
    BY <1>1, <1>2 DEF AdminPcs
<1>12. Ready(a, y) /\ Onward(op[a], op'[a])
    BY <1>9, <1>10, <1>11, FinishOf
<1> QED
    BY <1>4, <1>5, <1>7, <1>8, <1>9, <1>11, <1>12, QuietTable

\* Those inserts, kind by kind.
LEMMA Inserts ==
    ASSUME Base, NEW a \in Admins,
           StoreServiceAccount(a) \/ CreateApiKeyRecord(a) \/ StoreOrganizationInvitation(a)
    PROVE  StepOf(a)
BY InsertRowStep DEF StoreServiceAccount, CreateApiKeyRecord, StoreOrganizationInvitation

\* finish is a step of its request.
LEMMA FinishStep ==
    ASSUME Base, NEW a \in Admins, Finish(a) \/ AnswerSession(a)
    PROVE  StepOf(a)
<1>1. /\ db' = db /\ clock' = clock /\ op' = [op EXCEPT ![a] = NoOp]
      /\ op[a].pc # "revoke_sessions"
    BY DEF Finish, AnswerSession, Ends, store, fixed
<1> QED
    BY <1>1, EndsStep DEF SigningOut

\* unlink_external_identity is a step of its request.
LEMMA UnlinkExternalIdentityStep ==
    ASSUME Base, NEW a \in Admins, UnlinkExternalIdentity(a)
    PROVE  StepOf(a)
<1> DEFINE k == "external_identity"
<1>1. PICK id, row, new : id = op[a].id /\ row = db[k][id] /\ new = [row EXCEPT !.status = "deleted"]
    OBVIOUS
<1>2. op[a].pc = "unlink" /\ Proceed(a, "finish") /\ clock' = clock
    BY DEF UnlinkExternalIdentity, OnlyDirectory, fixed
<1>3. id \in Ids(k) /\ k \in DOMAIN Fields /\ RowOK(k, row)
    BY <1>1, <1>2 DEF Base, DbOK, Ready, Names, Fields
<1>4. Rewritten(k, row, new)
    BY <1>1, <1>3, StatusOnlyRow DEF Statuses, FinalStatus
<1>5. SetsRow(k, id, new)
    BY <1>1 DEF UnlinkExternalIdentity, SetsRow
<1>6. Grows /\ Rewrites(k)
    BY <1>1, <1>3, <1>4, <1>5, SetGrows DEF Base
<1>7. op[a].pc \in AdminPcs /\ op[a].pc # "revoke_sessions"
    BY <1>2 DEF AdminPcs
<1>8. /\ DOMAIN op' = Admins /\ \A b \in Admins \ {a} : Same(op[b], op'[b])
      /\ \E y : y = op'[a] /\ Ready(a, y) /\ Onward(op[a], op'[a]) /\ y.pc = "finish"
    BY <1>2, <1>7, ProceedsToFinish
<1> QED
    BY <1>2, <1>6, <1>7, <1>8, QuietTable DEF Rewrites

\* Sessions are rewritten, and nothing else.
LEMMA SessionsRewritten ==
    ASSUME NEW a \in Admins, Acts(a), Onward(op[a], op'[a]), Rewrites("session"),
           SignStep(a), StoreStep(a)
    PROVE  StepOf(a)
<1>1. /\ db'["failed_auth"] = db["failed_auth"] /\ Len(db'["session"]) = Len(db["session"])
      /\ db'["organization_member"] = db["organization_member"]
    BY DEF Rewrites, Fields
<1>2. Ids("session")' = Ids("session") /\ Ids("failed_auth")' = Ids("failed_auth")
    BY <1>1 DEF Ids
<1>3. LoginStep(a)
    BY <1>2 DEF LoginStep, Onward
<1>4. InviteStep(a)
    BY <1>1, MembersUntouched DEF InviteStep, Onward
<1>5. ThrottleStep(a)
    BY <1>1, <1>2 DEF ThrottleStep, FailuresKept, Onward, Row
<1> QED
    BY <1>3, <1>4, <1>5 DEF StepOf

\* No session becomes active, and none less late.
LEMMA SignKept ==
    ASSUME Base, NEW a \in Admins, Grows, Rewrites("session"), op[a].pc # "revoke_sessions",
           \A s \in Ids("session") : db'["session"][s].status = "active" =>
             AcceptsAccess("session", s) /\ db'["session"][s].f.late = Row("session", s).f.late
    PROVE  SignStep(a)
<1>1. Ids("session")' = Ids("session") /\ db'["user"] = db["user"]
    BY DEF Rewrites, Ids, Fields
<1>2. \A s \in Ids("session") : Row("session", s)'.f.user = Row("session", s).f.user
    BY SessionsGrow
<1>3. ASSUME NEW s \in Ids("session"), Exposed(s)' PROVE Exposed(s)
    BY <1>1, <1>2, <1>3 DEF Exposed, AcceptsAccess, Row
<1> QED
    BY <1>1, <1>3 DEF SignStep, SigningOut

\* A step that rewrites one session, without making it active.
LEMMA SessionWrite ==
    ASSUME Base, NEW a \in Admins, NEW s \in Ids("session"), NEW new,
           SetsRow("session", s, new), Rewritten("session", db["session"][s], new),
           new.status = "active" => AcceptsAccess("session", s) /\ new.f.late = Row("session", s).f.late,
           Row("session", s).status = "absent" => new.status = "absent",
           clock' = clock, DOMAIN op' = Admins, \A b \in Admins \ {a} : Same(op[b], op'[b]),
           op[a].pc # "revoke_sessions",
           NEW y, y = op'[a], Ready(a, y), Onward(op[a], op'[a]), ~ Stores(y)
    PROVE  StepOf(a)
<1>1. "session" \in DOMAIN Fields
    BY DEF Fields
<1>2. /\ Grows /\ Rewrites("session")
      /\ \A i \in Ids("session") : db'["session"][i] = IF i = s THEN new ELSE db["session"][i]
    BY <1>1, SetGrows DEF Base
<1>3. Ready(a, y)'
    BY <1>2, ReadyLasts DEF Base
<1>4. Acts(a)
    BY <1>2, <1>3, ActsBy
<1>5. SignStep(a)
    BY <1>2, SignKept DEF AcceptsAccess, Row
<1>6. StoreStep(a)
    BY <1>2 DEF StoreStep, Row
<1> QED
    BY <1>2, <1>4, <1>5, <1>6, SessionsRewritten

\* revoke_session_for_principal is a step of its request.
LEMMA RevokeSessionForPrincipalStep ==
    ASSUME Base, NEW a \in Admins, RevokeSessionForPrincipal(a)
    PROVE  StepOf(a)
<1>1. PICK s, row, new : s = op[a].id /\ row = db["session"][s] /\ new = [row EXCEPT !.status = "revoked"]
    OBVIOUS
<1>2. op[a].pc = "revoke_session" /\ Proceed(a, "finish") /\ clock' = clock
    BY DEF RevokeSessionForPrincipal, OnlyDirectory, fixed
<1>3. s \in Ids("session") /\ row.status # "absent" /\ RowOK("session", row) /\ "session" \in DOMAIN Fields
    BY <1>1, <1>2 DEF Base, DbOK, Ready, Names, Fields, Row
<1>4. Rewritten("session", row, new) /\ new.status = "revoked"
    BY <1>1, <1>3, StatusOnlyRow DEF Statuses, FinalStatus
<1>5. SetsRow("session", s, new)
    BY <1>1 DEF RevokeSessionForPrincipal, SetsRow
<1>6. op[a].pc \in AdminPcs /\ op[a].pc # "revoke_sessions"
    BY <1>2 DEF AdminPcs
<1>7. PICK y : /\ DOMAIN op' = Admins /\ \A b \in Admins \ {a} : Same(op[b], op'[b])
               /\ y = op'[a] /\ Ready(a, y) /\ Onward(op[a], op'[a]) /\ y.pc = "finish"
    BY <1>2, <1>6, ProceedsToFinish
<1>8. ~ Stores(y) /\ Row("session", s).status # "absent"
    BY <1>1, <1>3, <1>7 DEF Stores, Row
<1> QED
    BY <1>1, <1>2, <1>3, <1>4, <1>5, <1>6, <1>7, <1>8, SessionWrite

\* revoke_sessions_for_principal is a step of its request.
LEMMA RevokeSessionsForPrincipalStep ==
    ASSUME Base, NEW a \in Admins, RevokeSessionsForPrincipal(a)
    PROVE  StepOf(a)
<1> DEFINE k == "session"
<1>1. PICK u, ids : u = op[a].id /\ ids = {s \in OfUser(k, a, u) : AcceptsAccess(k, s)}
    OBVIOUS
<1>2. PICK table : table = [i \in Ids(k) |-> IF i \in ids THEN [Row(k, i) EXCEPT !.status = "revoked"]
                                             ELSE Row(k, i)]
    OBVIOUS
<1>3. op[a].pc = "revoke_sessions" /\ Proceed(a, "finish") /\ clock' = clock
    BY DEF RevokeSessionsForPrincipal, OnlyDirectory, fixed
<1>4. db' = [db EXCEPT ![k] = table]
    BY <1>1, <1>2 DEF RevokeSessionsForPrincipal, Replaced
<1>5. /\ \A i \in Ids(k) \ ids : table[i] = db[k][i]
      /\ \A i \in Ids(k) \cap ids : table[i] = [db[k][i] EXCEPT !.status = "revoked"]
    BY <1>2 DEF Row
<1>6. SetsTable(k, table)
    BY <1>2, <1>4 DEF SetsTable
<1>7. k \in DOMAIN Fields
    BY DEF Fields
<1>8. ASSUME NEW i \in Ids(k) \cap ids PROVE Rewritten(k, db[k][i], table[i]) /\ table[i].status = "revoked"
  <2>1. RowOK(k, db[k][i]) /\ db[k][i].status = "active"
      BY <1>1, <1>7 DEF Base, DbOK, AcceptsAccess, Row
  <2>2. PICK row, new : row = db[k][i] /\ new = table[i]
      OBVIOUS
  <2>3. new = [row EXCEPT !.status = "revoked"] /\ RowOK(k, row) /\ row.status = "active"
      BY <1>5, <2>1, <2>2
  <2>4. Rewritten(k, row, new) /\ new.status = "revoked"
      BY <1>7, <2>3, StatusOnlyRow DEF Statuses, FinalStatus
  <2> QED
      BY <2>2, <2>4
<1>9. Grows /\ Rewrites(k) /\ db'[k] = table
    BY <1>5, <1>6, <1>7, <1>8, RewriteGrows DEF Base
<1>10. op[a].pc \in AdminPcs
    BY <1>3 DEF AdminPcs
<1>11. PICK y : /\ DOMAIN op' = Admins /\ \A b \in Admins \ {a} : Same(op[b], op'[b])
                /\ y = op'[a] /\ Ready(a, y) /\ Onward(op[a], op'[a]) /\ y.pc = "finish"
    BY <1>3, <1>10, ProceedsToFinish
<1>12. Ready(a, y)'
    BY <1>3, <1>9, <1>11, ReadyLasts DEF Base
<1>13. Acts(a)
    BY <1>3, <1>9, <1>11, <1>12, ActsBy
<1>14. StoreStep(a)
    BY <1>1, <1>5, <1>9, <1>11 DEF StoreStep, Stores, AcceptsAccess, Row
<1>15. SignStep(a)
  <2>1. Ids(k)' = Ids(k) /\ db'["user"] = db["user"]
      BY <1>9 DEF Rewrites, Ids, Fields
  <2> SUFFICES ASSUME NEW s \in Ids(k), Exposed(s)'
               PROVE  Exposed(s) /\ ~ SigningOut(op[a], Row(k, s).f.user)
      BY <2>1 DEF SignStep
  <2>2. s \notin ids /\ db'[k][s] = db[k][s]
      BY <1>5, <1>8, <1>9 DEF Exposed, AcceptsAccess, Row
  <2>3. Exposed(s)
      BY <2>1, <2>2 DEF Exposed, AcceptsAccess, Row
  <2>4. Row(k, s).f.user # u
    <3>1. u \in Ids("user") /\ Row("user", u).tenant = TenantOf[a]
        BY <1>1, <1>3 DEF Base, Ready, Names
    <3>2. Row(k, s).tenant = Row("user", Row(k, s).f.user).tenant
        BY <1>7 DEF Base, DbOK, LinkOK, UserSession, Row
    <3> QED
        BY <1>1, <2>2, <2>3, <3>1, <3>2 DEF OfUser, ForTenant, Exposed
  <2> QED
      BY <1>1, <2>3, <2>4 DEF SigningOut
<1> QED
    BY <1>9, <1>11, <1>13, <1>14, <1>15, SessionsRewritten

\* Rows of table k are patched.
PatchesRows(k, ids, patch) ==
    db' = [db EXCEPT ![k] = [i \in Ids(k) |-> IF i \in ids THEN Patched(Row(k, i), patch) ELSE Row(k, i)]]

\* Memberships of projects that are made, or given another status.
LEMMA ProjectMembersPatched ==
    ASSUME Base, NEW ids, NEW patch, PatchesRows("project_member", ids, patch),
           \A i \in ids : patch.status \in MembershipStatus
    PROVE  Grows /\ \A j \in DOMAIN Fields \ {"project_member"} : db'[j] = db[j]
<1> DEFINE k == "project_member"
<1>1. k \in DOMAIN Fields /\ k \in DOMAIN Statuses
    BY DEF Fields, Statuses
<1>2. PICK table : table = [i \in Ids(k) |-> IF i \in ids THEN Patched(Row(k, i), patch) ELSE Row(k, i)]
    OBVIOUS
<1>3. /\ SetsTable(k, table)
      /\ \A i \in Ids(k) : table[i] = db[k][i] \/ (i \in ids /\ table[i] = Patched(db[k][i], patch))
    BY <1>2 DEF PatchesRows, SetsTable, Row
<1>4. ASSUME NEW i \in Ids(k), i \in ids PROVE Rewritten(k, db[k][i], Patched(db[k][i], patch))
  <2>1. PICK row, new : row = db[k][i] /\ new = Patched(row, patch)
      OBVIOUS
  <2>2. RowOK(k, row)
      BY <1>1, <2>1 DEF Base, DbOK
  <2>3. /\ {"tenant", "f", "status", "version"} \subseteq DOMAIN new
        /\ new.tenant = row.tenant /\ new.version = row.version + 1
        /\ new.status = IF patch.status = "keep" THEN row.status ELSE patch.status
      BY <1>1, <2>1, <2>2, PatchedRow
  <2>4. new.status \in MembershipStatus
      BY <1>4, <2>3 DEF MembershipStatus
  <2>5. RowOK(k, new) /\ Kept(k, row, new)
      BY <2>2, <2>3, <2>4 DEF RowOK, Kept, Fields, FixedFields, FinalStatus, Statuses
  <2> QED
      BY <2>1, <2>5 DEF Rewritten
<1> QED
    BY <1>1, <1>3, <1>4, RewriteGrows DEF Base, Rewrites

\* A project membership that is inserted is well formed.
LEMMA ProjectMemberAdded ==
    ASSUME Base, NEW p, NEW u, NEW member, AddsRow("project_member", NewProjectMember(p, u, member))
    PROVE  Grows /\ \A j \in DOMAIN Fields \ {"project_member"} : db'[j] = db[j]
<1> DEFINE k == "project_member"
<1>1. PICK row : row = NewProjectMember(p, u, member)
    OBVIOUS
<1>2. RowOK(k, row) /\ LinkOK(k, row) /\ AddsRow(k, row) /\ k \in DOMAIN Fields
    BY <1>1, NewRowIs DEF RowOK, LinkOK, Fields, Statuses, MembershipStatus, NewProjectMember
<1> QED
    BY <1>2, AddGrows DEF Base, Adds

\* cascade_project_memberships is a step of its request.
LEMMA CascadeProjectMembershipsStep ==
    ASSUME Base, NEW a \in Admins, CascadeProjectMemberships(a)
    PROVE  StepOf(a)
<1> DEFINE k == "project_member"
           member == Row("organization_member", op[a].id)
<1>1. PICK status, reached, patch :
         /\ status = op[a].patch.status /\ patch = NewStatus(status)
         /\ reached = {i \in InOrganization(k, a, member.f.org) :
                         /\ Row(k, i).f.user = member.f.user
                         /\ \/ status = "suspended" /\ AcceptsAccess(k, i)
                            \/ status = "removed" /\ Row(k, i).status # "removed"}
    OBVIOUS
<1>2. PatchesRows(k, reached, patch)
    BY <1>1 DEF CascadeProjectMemberships, Replaced, PatchesRows
<1>3. \A i \in reached : patch.status \in MembershipStatus
    BY <1>1 DEF MembershipStatus, NewStatus
<1>4. Grows /\ \A j \in DOMAIN Fields \ {"project_member"} : db'[j] = db[j]
    BY <1>2, <1>3, ProjectMembersPatched
<1>5. op[a].pc = "cascade" /\ Proceed(a, "finish") /\ clock' = clock
    BY DEF CascadeProjectMemberships, OnlyDirectory, fixed
<1>6. op[a].pc \in AdminPcs /\ op[a].pc # "revoke_sessions"
    BY <1>5 DEF AdminPcs
<1>7. PICK y : /\ DOMAIN op' = Admins /\ \A b \in Admins \ {a} : Same(op[b], op'[b])
               /\ y = op'[a] /\ Ready(a, y) /\ Onward(op[a], op'[a]) /\ y.pc = "finish"
    BY <1>5, <1>6, ProceedsToFinish
<1> QED
    BY <1>4, <1>5, <1>6, <1>7, QuietTable

\* create_project_membership is a step of its request.
LEMMA CreateProjectMembershipStep ==
    ASSUME Base, NEW a \in Admins, CreateProjectMembership(a)
    PROVE  StepOf(a)
<1> DEFINE k == "project_member"
<1>1. PICK x, there, stale, patch :
         /\ x = op[a] /\ there = ProjectMemberOf(x.user, x.project)
         /\ stale = {i \in there : ~ AcceptsAccess(k, i) \/ Row(k, i).f.member # x.member}
         /\ patch = [status |-> "active", f |-> [member |-> x.member]]
    OBVIOUS
<1>2. /\ x.pc = "store_project_member" /\ clock' = clock /\ Ready(a, x)
      /\ {"project", "user", "member", "id", "after"} \subseteq DOMAIN x
    BY <1>1 DEF CreateProjectMembership, OnlyDirectory, fixed, Base, Ready
<1>3. ASSUME there = {} PROVE Grows /\ \A j \in DOMAIN Fields \ {k} : db'[j] = db[j]
  <2>1. AddsRow(k, NewProjectMember(x.project, x.user, x.member))
      BY <1>1, <1>3 DEF CreateProjectMembership, AddsRow
  <2> QED
      BY <2>1, ProjectMemberAdded
<1>4. ASSUME there # {} PROVE Grows /\ \A j \in DOMAIN Fields \ {k} : db'[j] = db[j]
  <2>1. PatchesRows(k, stale, patch)
      BY <1>1, <1>4 DEF CreateProjectMembership, Replaced, PatchesRows
  <2>2. patch.status \in MembershipStatus
      BY <1>1 DEF MembershipStatus
  <2> QED
      BY <2>1, <2>2, ProjectMembersPatched
<1>5. PICK id, v : op' = [op EXCEPT ![a].pc = "finish", ![a].id = id, ![a].after = v]
    BY DEF CreateProjectMembership
<1>6. PICK y : y = op'[a]
    OBVIOUS
<1>7. /\ DOMAIN op' = Admins /\ \A b \in Admins \ {a} : Same(op[b], op'[b])
      /\ y = [[[x EXCEPT !.pc = "finish"] EXCEPT !.id = id] EXCEPT !.after = v]
    BY <1>1, <1>5, <1>6 DEF Base, Same
<1>8. Takes(x, y, {"pc", "id", "after"}) /\ "pc" \in DOMAIN y /\ y.pc = "finish"
    BY <1>2, <1>7 DEF Takes, Ready
<1>9. op[a].pc \in AdminPcs /\ op[a].pc # "revoke_sessions"
    BY <1>1, <1>2 DEF AdminPcs
<1>10. Ready(a, y) /\ Onward(op[a], op'[a])
    BY <1>1, <1>6, <1>8, <1>9, FinishOf
<1> QED
    BY <1>2, <1>3, <1>4, <1>6, <1>7, <1>9, <1>10, QuietTable

\* An API key whose fields are replaced; its secret is one it has had.
LEMMA ApiKeyWrite ==
    ASSUME Base, NEW a \in Admins, NEW id \in Ids("api_key"), NEW patch,
           SetsRow("api_key", id, Patched(db["api_key"][id], patch)),
           "secret" \in DOMAIN patch.f =>
             patch.f["secret"] \in 1 .. (Row("api_key", id).version + 1),
           clock' = clock, DOMAIN op' = Admins, \A b \in Admins \ {a} : Same(op[b], op'[b]),
           op[a].pc # "revoke_sessions",
           NEW y, y = op'[a], Ready(a, y), Onward(op[a], op'[a])
    PROVE  StepOf(a)
<1> DEFINE k == "api_key"
<1>1. PICK row, new : row = db[k][id] /\ new = Patched(row, patch)
    OBVIOUS
<1>2. k \in DOMAIN Fields /\ RowOK(k, row)
    BY <1>1 DEF Base, DbOK, Fields
<1>3. /\ {"tenant", "f", "status", "version"} \subseteq DOMAIN new
      /\ new.tenant = row.tenant /\ new.version = row.version + 1
      /\ DOMAIN new.f = DOMAIN patch.f \cup DOMAIN row.f
      /\ \A f \in DOMAIN patch.f : new.f[f] = patch.f[f]
      /\ \A f \in DOMAIN row.f \ DOMAIN patch.f : new.f[f] = row.f[f]
    BY <1>1, <1>2, PatchedRow
<1>4. row.version \in Nat \ {0} /\ "secret" \in DOMAIN row.f /\ row.f["secret"] \in 1 .. row.version
    BY <1>2 DEF RowOK, Fields
<1>5. new.f["secret"] \in 1 .. new.version /\ "secret" \in DOMAIN new.f
    BY <1>1, <1>3, <1>4 DEF Row
<1>6. RowOK(k, new) /\ Kept(k, row, new)
    BY <1>3, <1>4, <1>5 DEF RowOK, Kept, Fields, FixedFields, FinalStatus, Statuses
<1>7. Grows /\ Rewrites(k)
    BY <1>1, <1>2, <1>6, SetGrows DEF Base, Rewritten
<1> QED
    BY <1>7, QuietTable DEF Rewrites

\* replace_api_key_secret is a step of its request.
LEMMA ReplaceApiKeySecretStep ==
    ASSUME Base, NEW a \in Admins, ReplaceApiKeySecret(a)
    PROVE  StepOf(a)
<1>1. PICK id : id = op[a].id
    OBVIOUS
<1>2. op[a].pc = "replace_secret" /\ Proceed(a, "finish") /\ clock' = clock
    BY DEF ReplaceApiKeySecret, OnlyDirectory, fixed
<1>3. id \in Ids("api_key") /\ Row("api_key", id).version \in Nat
    BY <1>1, <1>2 DEF Base, DbOK, RowOK, Ready, Names, Fields, Row
<1>4. PICK f : f = [secret |-> Row("api_key", id).version + 1] ++ op[a].copy
    OBVIOUS
<1>5. "secret" \in DOMAIN f /\ f["secret"] = Row("api_key", id).version + 1
    BY <1>4 DEF ++
<1>6. PICK patch : patch = [status |-> "active", f |-> f]
    OBVIOUS
<1>7. SetsRow("api_key", id, Patched(db["api_key"][id], patch)) /\ patch.f = f
    BY <1>1, <1>4, <1>6 DEF ReplaceApiKeySecret, SetsRow, Row
<1>8. op[a].pc \in AdminPcs /\ op[a].pc # "revoke_sessions"
    BY <1>2 DEF AdminPcs
<1>9. PICK y : /\ DOMAIN op' = Admins /\ \A b \in Admins \ {a} : Same(op[b], op'[b])
               /\ y = op'[a] /\ Ready(a, y) /\ Onward(op[a], op'[a]) /\ y.pc = "finish"
    BY <1>2, <1>8, ProceedsToFinish
<1>10. patch.f["secret"] \in 1 .. (Row("api_key", id).version + 1)
    BY <1>3, <1>5, <1>7
<1> QED
    BY <1>2, <1>3, <1>7, <1>8, <1>9, <1>10, ApiKeyWrite

\* update_api_key_status is a step of its request.
LEMMA UpdateApiKeyStatusStep ==
    ASSUME Base, NEW a \in Admins, UpdateApiKeyStatus(a)
    PROVE  StepOf(a)
<1>1. PICK x, id, copy : x = op[a] /\ id = op[a].id /\ copy = Row("api_key", id).f
    OBVIOUS
<1>2. PICK changes : changes = [copy |-> copy, pc |-> "reinsert_key"]
    OBVIOUS
<1>3. /\ x.pc = "disable_key" /\ clock' = clock /\ Ready(a, x)
      /\ op' = [op EXCEPT ![a] = changes ++ @]
    BY <1>1, <1>2 DEF UpdateApiKeyStatus, OnlyDirectory, fixed, Base
<1>4. /\ id \in Ids("api_key") /\ Row("api_key", id).version \in Nat /\ "id" \in DOMAIN x
      /\ copy.secret \in 1 .. Row("api_key", id).version
    BY <1>1, <1>3 DEF Base, DbOK, RowOK, Ready, Names, Fields, Row
<1>5. PICK patch : patch = NewStatus("disabled")
    OBVIOUS
<1>6. SetsRow("api_key", id, Patched(db["api_key"][id], patch)) /\ DOMAIN patch.f = {}
    BY <1>1, <1>5 DEF UpdateApiKeyStatus, SetsRow, NewStatus
<1>7. DOMAIN changes = {"copy", "pc"} /\ changes.copy = copy /\ changes.pc = "reinsert_key"
    BY <1>2
<1>8. /\ DOMAIN op' = Admins /\ \A b \in Admins \ {a} : Same(op[b], op'[b])
      /\ Takes(op[a], op'[a], DOMAIN changes)
      /\ DOMAIN changes \subseteq DOMAIN op'[a]
      /\ \A f \in DOMAIN changes : op'[a][f] = changes[f]
    BY <1>3, OpChanges
<1>9. PICK y : y = op'[a]
    OBVIOUS
<1>10. /\ {"pc", "route", "id", "copy"} \subseteq DOMAIN y /\ y.pc = "reinsert_key" /\ y.copy = copy
       /\ y.id = id /\ y.route = x.route /\ x.route \notin {Accepting, Callback}
    BY <1>1, <1>3, <1>4, <1>7, <1>8, <1>9 DEF Takes, Ready, AdminPcs
<1>11. Ready(a, y)
    BY <1>4, <1>10, AdminReady DEF AdminPcs, Names
<1>12. Onward(op[a], op'[a]) /\ op[a].pc # "revoke_sessions"
    BY <1>1, <1>3, <1>9, <1>10 DEF Onward, LogsIn, Admits, Stores, Verifies, LoginPcs
<1> QED
    BY <1>3, <1>4, <1>6, <1>8, <1>9, <1>11, <1>12, ApiKeyWrite

\* insert_api_key is a step of its request.
LEMMA InsertApiKeyStep ==
    ASSUME Base, NEW a \in Admins, InsertApiKey(a)
    PROVE  StepOf(a)
<1>1. PICK id, copy : id = op[a].id /\ copy = op[a].copy
    OBVIOUS
<1>2. op[a].pc = "reinsert_key" /\ Proceed(a, "finish") /\ clock' = clock
    BY DEF InsertApiKey, OnlyDirectory, fixed
<1>3. /\ id \in Ids("api_key") /\ Row("api_key", id).version \in Nat
      /\ copy.secret \in 1 .. Row("api_key", id).version
    BY <1>1, <1>2 DEF Base, DbOK, RowOK, Ready, Names, Fields, Row
<1>4. op[a].pc \in AdminPcs /\ op[a].pc # "revoke_sessions"
    BY <1>2 DEF AdminPcs
<1>5. PICK y : /\ DOMAIN op' = Admins /\ \A b \in Admins \ {a} : Same(op[b], op'[b])
               /\ y = op'[a] /\ Ready(a, y) /\ Onward(op[a], op'[a]) /\ y.pc = "finish"
    BY <1>2, <1>4, ProceedsToFinish
<1>6. CASE db' = db
    BY <1>2, <1>4, <1>5, <1>6, QuietMove DEF SigningOut
<1>7. CASE db' # db
  <2>1. PICK patch : patch = [status |-> "disabled", f |-> copy]
      OBVIOUS
  <2>2. SetsRow("api_key", id, Patched(db["api_key"][id], patch)) /\ patch.f = copy
      BY <1>1, <1>7, <2>1 DEF InsertApiKey, SetsRow
  <2>3. patch.f["secret"] \in 1 .. (Row("api_key", id).version + 1)
      BY <1>3, <2>2
  <2> QED
      BY <1>2, <1>3, <1>4, <1>5, <2>2, <2>3, ApiKeyWrite
<1> QED
    BY <1>6, <1>7

-----------------------------------------------------------------------------
(* Writes of sessions                                                      *)

\* A session of which fields other than the fixed ones are set.
LEMMA SessionFieldsRow ==
    ASSUME NEW row, RowOK("session", row), NEW f, NEW status,
           DOMAIN f = DOMAIN row.f,
           f.user = row.f.user, f.attempt = row.f.attempt,
           f.durable \in {"none", "active", "revoked"},
           row.f.durable = "revoked" => f.durable = "revoked",
           status \in {"absent", "active", "revoked"},
           row.status = "revoked" => status = "revoked",
           status = "absent" => row.status = "absent",
           NEW new, DOMAIN new = DOMAIN row, new.f = f, new.status = status,
           new.tenant = row.tenant, new.version = row.version
    PROVE  Rewritten("session", row, new)
<1>1. RowOK("session", new)
    BY DEF RowOK, Statuses
<1>2. Kept("session", row, new)
    BY DEF Kept, RowOK, FixedFields, FinalStatus
<1> QED
    BY <1>1, <1>2 DEF Rewritten

\* Any other step on its session that a request goes on to.
LEMMA SessionProceeds ==
    ASSUME Base, NEW a \in Admins, NEW pc, Proceed(a, pc),
           op[a].pc \in SessionPcs, op[a].pc # "accept",
           pc \in {"finish"} \cup (SessionPcs \ {"persist_memory"}),
           pc \in {"context", "default_context"} => op[a].pc \in {"context", "default_context"}
    PROVE  /\ DOMAIN op' = Admins /\ \A b \in Admins \ {a} : Same(op[b], op'[b])
           /\ \E y : y = op'[a] /\ Ready(a, y) /\ Onward(op[a], op'[a]) /\ ~ Stores(y)
<1>1. /\ DOMAIN op' = Admins /\ \A b \in Admins \ {a} : Same(op[b], op'[b])
      /\ Takes(op[a], op'[a], {"pc"}) /\ op'[a].pc = pc
    BY OpProceeds DEF Proceed
<1>2. PICK x, y : x = op[a] /\ y = op'[a]
    OBVIOUS
<1>3. /\ Ready(a, x) /\ Takes(x, y, {"pc"}) /\ y.pc = pc /\ x.pc \in SessionPcs /\ x.pc # "accept"
      /\ "pc" \in DOMAIN y
    BY <1>1, <1>2 DEF Base, Ready, Takes
<1>4. Names(y, "session")
    BY <1>3 DEF Ready, Names, Takes
<1>5. pc \in {"context", "default_context"} =>
         {"context", "then", "at"} \subseteq DOMAIN y /\ y.then \in {"finish", "answer_session"}
    BY <1>2, <1>3 DEF Ready, Takes
<1>6. Ready(a, y) /\ Onward(x, y)
    BY <1>3, <1>4, <1>5, GoesOn
<1>7. ~ Stores(y)
    BY <1>3 DEF Stores, SessionPcs
<1> QED
    BY <1>1, <1>2, <1>6, <1>7

\* The rows of sessions, field by field.
LEMMA SessionRow ==
    ASSUME Base, NEW s \in Ids("session")
    PROVE  /\ RowOK("session", db["session"][s])
           /\ Fields["session"] \subseteq DOMAIN db["session"][s].f
           /\ db["session"][s].f.durable \in {"none", "active", "revoked"}
           /\ db["session"][s].status \in {"absent", "active", "revoked"}
<1>1. "session" \in DOMAIN Fields /\ "session" \in DOMAIN Statuses
      /\ Statuses["session"] = {"absent", "active", "revoked"}
    BY DEF Fields, Statuses
<1>2. RowOK("session", db["session"][s])
    BY <1>1 DEF Base, DbOK
<1> QED
    BY <1>1, <1>2 DEF RowOK

\* revoke_auth_session_postgres is a step of its request.
LEMMA RevokeAuthSessionPostgresStep ==
    ASSUME Base, NEW a \in Admins, RevokeAuthSessionPostgres(a)
    PROVE  StepOf(a)
<1>1. PICK s, row, f, new :
         /\ s = op[a].id /\ row = db["session"][s] /\ f = [row.f EXCEPT !.durable = "revoked"]
         /\ new = [row EXCEPT !.f = f]
    OBVIOUS
<1>2. op[a].pc = "logout_postgres" /\ Proceed(a, "logout") /\ clock' = clock
    BY DEF RevokeAuthSessionPostgres, OnlyDirectory, fixed
<1>3. s \in Ids("session")
    BY <1>1, <1>2 DEF Base, Ready, Names, SessionPcs
<1>4. /\ RowOK("session", row) /\ Fields["session"] \subseteq DOMAIN row.f
      /\ row.f.durable \in {"none", "active", "revoked"} /\ row.status \in {"absent", "active", "revoked"}
    BY <1>1, <1>3, SessionRow
<1>5. /\ DOMAIN f = DOMAIN row.f /\ f.user = row.f.user /\ f.attempt = row.f.attempt
      /\ f.durable = "revoked" /\ f.late = row.f.late
    BY <1>1, <1>4 DEF Fields
<1>6. /\ DOMAIN new = DOMAIN row /\ new.f = f /\ new.status = row.status
      /\ new.tenant = row.tenant /\ new.version = row.version
    BY <1>1, <1>4 DEF RowOK
<1>7. Rewritten("session", row, new)
    BY <1>4, <1>5, <1>6, SessionFieldsRow
<1>8. SetsRow("session", s, new)
    BY <1>1 DEF RevokeAuthSessionPostgres, SetsRow
<1>9. op[a].pc \in SessionPcs /\ op[a].pc # "revoke_sessions" /\ op[a].pc # "accept"
    BY <1>2 DEF SessionPcs
<1>10. PICK y : /\ DOMAIN op' = Admins /\ \A b \in Admins \ {a} : Same(op[b], op'[b])
                /\ y = op'[a] /\ Ready(a, y) /\ Onward(op[a], op'[a]) /\ ~ Stores(y)
    BY <1>2, <1>9, SessionProceeds DEF SessionPcs
<1>11. /\ new.status = "active" => AcceptsAccess("session", s) /\ new.f.late = Row("session", s).f.late
       /\ Row("session", s).status = "absent" => new.status = "absent"
    BY <1>1, <1>5, <1>6 DEF AcceptsAccess, Row
<1> QED
    BY <1>1, <1>2, <1>3, <1>6, <1>7, <1>8, <1>9, <1>10, <1>11, SessionWrite

\* revoke_session_by_hash is a step of its request.
LEMMA RevokeSessionByHashStep ==
    ASSUME Base, NEW a \in Admins, RevokeSessionByHash(a)
    PROVE  StepOf(a)
<1>1. PICK s, row, status, new :
         /\ s = op[a].id /\ row = db["session"][s]
         /\ status = IF row.status = "absent" THEN row.status ELSE "revoked"
         /\ new = [row EXCEPT !.status = status]
    OBVIOUS
<1>2. op[a].pc = "logout" /\ Proceed(a, "answer_session") /\ clock' = clock
    BY DEF RevokeSessionByHash, OnlyDirectory, fixed
<1>3. s \in Ids("session") /\ "session" \in DOMAIN Fields
    BY <1>1, <1>2 DEF Base, Ready, Names, SessionPcs, Fields
<1>4. RowOK("session", row)
    BY <1>1, <1>3, SessionRow
<1>5. Rewritten("session", row, new) /\ new.status = status
    BY <1>1, <1>3, <1>4, StatusOnlyRow DEF FinalStatus, Statuses
<1>6. SetsRow("session", s, new)
    BY <1>1 DEF RevokeSessionByHash, SetsRow
<1>7. op[a].pc \in SessionPcs /\ op[a].pc # "revoke_sessions" /\ op[a].pc # "accept"
    BY <1>2 DEF SessionPcs
<1>8. PICK y : /\ DOMAIN op' = Admins /\ \A b \in Admins \ {a} : Same(op[b], op'[b])
               /\ y = op'[a] /\ Ready(a, y) /\ Onward(op[a], op'[a]) /\ ~ Stores(y)
    BY <1>2, <1>7, SessionProceeds DEF SessionPcs
<1>9. /\ new.status # "active"
      /\ Row("session", s).status = "absent" => new.status = "absent"
    BY <1>1, <1>5 DEF Row
<1> QED
    BY <1>1, <1>2, <1>3, <1>5, <1>6, <1>7, <1>8, <1>9, SessionWrite

\* update_session_active_context is a step of its request.
LEMMA UpdateSessionActiveContextStep ==
    ASSUME Base, NEW a \in Admins, UpdateSessionActiveContext(a)
    PROVE  StepOf(a)
<1>1. PICK s, row, f, new :
         /\ s = op[a].id /\ row = db["session"][s]
         /\ f = [[row.f EXCEPT !.org = op[a].context[1]] EXCEPT !.project = op[a].context[2]]
         /\ new = [row EXCEPT !.f = f]
    OBVIOUS
<1>2. op[a].pc = "context" /\ clock' = clock
    BY DEF UpdateSessionActiveContext, OnlyDirectory, fixed
<1>3. s \in Ids("session") /\ op[a].then \in {"finish", "answer_session"}
    BY <1>1, <1>2 DEF Base, Ready, Names, SessionPcs
<1>4. /\ RowOK("session", row) /\ Fields["session"] \subseteq DOMAIN row.f
      /\ row.f.durable \in {"none", "active", "revoked"} /\ row.status \in {"absent", "active", "revoked"}
    BY <1>1, <1>3, SessionRow
<1>5. /\ DOMAIN f = DOMAIN row.f /\ f.user = row.f.user /\ f.attempt = row.f.attempt
      /\ f.durable = row.f.durable /\ f.late = row.f.late
    BY <1>1, <1>4 DEF Fields
<1>6. /\ DOMAIN new = DOMAIN row /\ new.f = f /\ new.status = row.status
      /\ new.tenant = row.tenant /\ new.version = row.version
    BY <1>1, <1>4 DEF RowOK
<1>7. Rewritten("session", row, new)
    BY <1>4, <1>5, <1>6, SessionFieldsRow
<1>8. op[a].pc \in SessionPcs /\ op[a].pc # "revoke_sessions" /\ op[a].pc # "accept"
    BY <1>2 DEF SessionPcs
<1>9. CASE CanAuthenticate(op[a].id, op[a].at)
  <2>1. SetsRow("session", s, new)
      BY <1>1, <1>9 DEF UpdateSessionActiveContext, SetsRow
  <2>2. Proceed(a, op[a].then)
      BY <1>9 DEF UpdateSessionActiveContext
  <2>3. PICK y : /\ DOMAIN op' = Admins /\ \A b \in Admins \ {a} : Same(op[b], op'[b])
                 /\ y = op'[a] /\ Ready(a, y) /\ Onward(op[a], op'[a]) /\ ~ Stores(y)
      BY <1>3, <1>8, <2>2, SessionProceeds DEF SessionPcs
  <2>4. /\ new.status = "active" => AcceptsAccess("session", s) /\ new.f.late = Row("session", s).f.late
        /\ Row("session", s).status = "absent" => new.status = "absent"
      BY <1>1, <1>5, <1>6 DEF AcceptsAccess, Row
  <2> QED
      BY <1>1, <1>2, <1>3, <1>6, <1>7, <1>8, <2>1, <2>3, <2>4, SessionWrite
<1>10. CASE ~ CanAuthenticate(op[a].id, op[a].at)
  <2>1. db' = db /\ op' = [op EXCEPT ![a] = NoOp]
      BY <1>10 DEF UpdateSessionActiveContext, Ends
  <2> QED
      BY <1>2, <1>8, <2>1, EndsStep DEF SigningOut
<1> QED
    BY <1>9, <1>10

\* A user's defaults are replaced.
LEMMA UserPatched ==
    ASSUME Base, NEW u \in Ids("user"), NEW patch,
           SetsRow("user", u, Patched(db["user"][u], patch)),
           patch.status = "keep", DOMAIN patch.f = {"org", "project"}
    PROVE  /\ Grows /\ db'["session"] = db["session"] /\ db'["failed_auth"] = db["failed_auth"]
           /\ db'["organization_member"] = db["organization_member"]
           /\ \A v \in Ids("user") : AcceptsAccess("user", v) => db'["user"][v].status = "active"
<1> DEFINE k == "user"
<1>1. PICK row, new : row = db[k][u] /\ new = Patched(row, patch)
    OBVIOUS
<1>2. k \in DOMAIN Fields /\ RowOK(k, row)
    BY <1>1 DEF Base, DbOK, Fields
<1>3. /\ {"tenant", "f", "status", "version"} \subseteq DOMAIN new
      /\ new.tenant = row.tenant /\ new.version = row.version + 1
      /\ new.status = row.status
      /\ DOMAIN new.f = DOMAIN patch.f \cup DOMAIN row.f
      /\ \A f \in DOMAIN row.f \ DOMAIN patch.f : new.f[f] = row.f[f]
    BY <1>1, <1>2, PatchedRow
<1>4. row.version \in Nat \ {0} /\ "email" \in DOMAIN row.f
    BY <1>2 DEF RowOK, Fields
<1>5. new.f["email"] = row.f["email"] /\ DOMAIN row.f \subseteq DOMAIN new.f
    BY <1>3, <1>4
<1>6. RowOK(k, new) /\ Kept(k, row, new)
    BY <1>2, <1>3, <1>4, <1>5 DEF RowOK, Kept, Fields, FixedFields, FinalStatus, Statuses
<1>7. /\ Grows /\ Rewrites(k)
      /\ \A i \in Ids(k) : db'[k][i] = IF i = u THEN new ELSE db[k][i]
    BY <1>1, <1>2, <1>6, SetGrows DEF Base, Rewritten
<1> QED
    BY <1>1, <1>3, <1>7 DEF Rewrites, Fields, AcceptsAccess, Row

\* update_user_default_context is a step of its request.
LEMMA UpdateUserDefaultContextStep ==
    ASSUME Base, NEW a \in Admins, UpdateUserDefaultContext(a)
    PROVE  StepOf(a)
<1>1. PICK s, u, c, f, patch :
         /\ s = op[a].id /\ u = Row("session", s).f.user /\ c = op[a].context
         /\ f = [org |-> c[1], project |-> c[2]] /\ patch = [status |-> "keep", f |-> f]
    OBVIOUS
<1>2. op[a].pc = "default_context" /\ Proceed(a, "context") /\ clock' = clock
    BY DEF UpdateUserDefaultContext, OnlyDirectory, fixed
<1>3. s \in Ids("session")
    BY <1>1, <1>2 DEF Base, Ready, Names, SessionPcs
<1>4. u \in Ids("user")
    BY <1>1, <1>3, SessionUser
<1>5. SetsRow("user", u, Patched(db["user"][u], patch))
    BY <1>1 DEF UpdateUserDefaultContext, SetsRow
<1>6. patch.status = "keep" /\ DOMAIN patch.f = {"org", "project"}
    BY <1>1
<1>7. /\ Grows /\ db'["session"] = db["session"] /\ db'["failed_auth"] = db["failed_auth"]
      /\ db'["organization_member"] = db["organization_member"]
      /\ \A v \in Ids("user") : AcceptsAccess("user", v) => db'["user"][v].status = "active"
    BY <1>4, <1>5, <1>6, UserPatched
<1>8. op[a].pc \in SessionPcs /\ op[a].pc # "revoke_sessions" /\ op[a].pc # "accept"
    BY <1>2 DEF SessionPcs
<1>9. PICK y : /\ DOMAIN op' = Admins /\ \A b \in Admins \ {a} : Same(op[b], op'[b])
               /\ y = op'[a] /\ Ready(a, y) /\ Onward(op[a], op'[a]) /\ ~ Stores(y)
    BY <1>2, <1>8, SessionProceeds DEF SessionPcs
<1>10. MembersKept(a)
    BY <1>7, MembersUntouched
<1> QED
    BY <1>2, <1>7, <1>8, <1>9, <1>10, QuietWrite

\* repair_user_defaults is a step of its request.
LEMMA RepairUserDefaultsStep ==
    ASSUME Base, NEW a \in Admins, RepairUserDefaults(a)
    PROVE  StepOf(a)
<1>1. PICK x, u, invitation, org, project, changes :
         /\ x = op[a] /\ u = op[a].user /\ invitation = Row("invitation", op[a].invitation)
         /\ org = IF Row("user", u).f.org = None THEN invitation.f.org ELSE Row("user", u).f.org
         /\ project = IF Row("user", u).f.project = None THEN invitation.f.project
                      ELSE Row("user", u).f.project
         /\ changes = [pc |-> "context", then |-> "finish", id |-> op[a].session,
                       context |-> <<invitation.f.org, invitation.f.project>>]
    OBVIOUS
<1>2. /\ x.pc = "defaults" /\ clock' = clock /\ op' = [op EXCEPT ![a] = changes ++ @]
      /\ db' = IF Row("user", u).f.org = org /\ Row("user", u).f.project = project THEN db
               ELSE [db EXCEPT !["user"][u] =
                       Patched(@, [status |-> "keep", f |-> [org |-> org, project |-> project]])]
    BY <1>1 DEF RepairUserDefaults, OnlyDirectory, fixed
<1>3. Ready(a, x) /\ x.route = Accepting /\ AcceptReady(x) /\ x.pc # "accept"
    BY <1>1, <1>2 DEF Base, Ready, InvitePcs
<1>4. u \in Ids("user") /\ x.session \in Ids("session") /\ u = x.user
    BY <1>1, <1>3 DEF AcceptReady
<1>5. /\ Grows /\ db'["session"] = db["session"] /\ db'["failed_auth"] = db["failed_auth"]
      /\ db'["organization_member"] = db["organization_member"]
      /\ \A v \in Ids("user") : AcceptsAccess("user", v) => db'["user"][v].status = "active"
  <2>1. CASE db' = db
      BY <2>1, SameGrows DEF Base, AcceptsAccess, Row
  <2>2. CASE db' # db
    <3>1. PICK patch : patch = [status |-> "keep", f |-> [org |-> org, project |-> project]]
        OBVIOUS
    <3>2. patch.status = "keep" /\ DOMAIN patch.f = {"org", "project"}
        BY <3>1
    <3>3. SetsRow("user", u, Patched(db["user"][u], patch))
        BY <1>2, <2>2, <3>1 DEF SetsRow
    <3> QED
        BY <1>4, <3>2, <3>3, UserPatched
  <2> QED
      BY <2>1, <2>2
<1>6. /\ DOMAIN changes = {"pc", "then", "id", "context"} /\ changes.pc = "context"
      /\ changes.then = "finish" /\ changes.id = x.session
    BY <1>1
<1>7. /\ DOMAIN op' = Admins /\ \A b \in Admins \ {a} : Same(op[b], op'[b])
      /\ Takes(op[a], op'[a], DOMAIN changes)
      /\ DOMAIN changes \subseteq DOMAIN op'[a]
      /\ \A f \in DOMAIN changes : op'[a][f] = changes[f]
    BY <1>2, OpChanges
<1>8. PICK y : y = op'[a]
    OBVIOUS
<1>9. /\ Takes(x, y, {"pc", "then", "id", "context"}) /\ y.pc = "context" /\ y.then = "finish"
      /\ y.id = x.session /\ {"pc", "then", "id", "context"} \subseteq DOMAIN y
    BY <1>1, <1>6, <1>7, <1>8
<1>10. Names(y, "session") /\ y.pc \in SessionPcs /\ y.pc # "finish" /\ y.pc # "persist_memory"
    BY <1>4, <1>9 DEF Names, SessionPcs
<1>11. "at" \in DOMAIN y
    BY <1>3, <1>9 DEF Takes, AcceptReady
<1>12. Ready(a, y) /\ Onward(x, y)
    BY <1>3, <1>9, <1>10, <1>11, GoesOn
<1>13. MembersKept(a)
    BY <1>5, MembersUntouched
<1> QED
    BY <1>1, <1>2, <1>5, <1>7, <1>8, <1>12, <1>13, QuietWrite

\* A session is stored, in Postgres alone or in memory.
LEMMA SessionAdded ==
    ASSUME Base, NEW a \in Admins, op[a].pc = "persist",
           NEW new, RowOK("session", new), UserSession(new), AddsRow("session", new),
           new.f.attempt = op[a].session.f.attempt,
           new.status = "active" /\ ~ AcceptsAccess("user", new.f.user) => new.f.late,
           clock' = clock, DOMAIN op' = Admins, \A b \in Admins \ {a} : Same(op[b], op'[b]),
           NEW y, y = op'[a], Ready(a, y)', y.route = op[a].route,
           y.pc \in {"persist_memory", "finish", "answer_session"},
           y.pc = "persist_memory" => y.id = Len(db["session"]) + 1 /\ new.status = "absent"
    PROVE  StepOf(a)
<1> DEFINE k == "session"
<1>1. k \in DOMAIN Fields /\ LinkOK(k, new)
    BY DEF Fields, LinkOK
<1>2. Grows /\ Adds(k, new)
    BY <1>1, AddGrows DEF Base
<1>3. PICK n : n = Len(db[k]) + 1
    OBVIOUS
<1>4. /\ \A i \in Ids(k)' : i \in Ids(k) \/ i = n
      /\ n \in Ids(k)' \ Ids(k) /\ db'[k][n] = new /\ Len(db'[k]) = n
      /\ \A i \in Ids(k) : db'[k][i] = db[k][i]
  <2>1. /\ Ids(k) = 1 .. Len(db[k]) /\ Ids(k)' = 1 .. Len(db'[k]) /\ Len(db[k]) \in Nat
      BY <1>2, SessionsGrow
  <2> QED
      BY <1>2, <1>3, <2>1 DEF Adds
<1>5. /\ db'["user"] = db["user"] /\ db'["failed_auth"] = db["failed_auth"]
      /\ db'["organization_member"] = db["organization_member"]
    BY <1>2 DEF Adds, Fields
<1>6. Acts(a)
    BY <1>2, ActsBy
<1>7. /\ PersistReady(op[a]) /\ op[a].route # Accepting /\ ~ LogsIn(y) /\ ~ Admits(y) /\ ~ Verifies(y)
    BY DEF Base, Ready, LogsIn, Admits, Verifies, LoginPcs
<1>8. LoginStep(a)
  <2>1. CASE op[a].route = Callback
    <3>1. LogsIn(op[a]) /\ new.f.attempt = op[a].attempt
        BY <1>7, <2>1 DEF LogsIn, LoginPcs, PersistReady
    <3> QED
        BY <1>3, <1>4, <1>7, <3>1 DEF LoginStep
  <2>2. CASE op[a].route # Callback
    <3>1. new.f.attempt = None
        BY <1>7, <2>2 DEF PersistReady
    <3> QED
        BY <1>4, <1>7, <3>1 DEF LoginStep
  <2> QED
      BY <2>1, <2>2
<1>9. InviteStep(a)
    BY <1>5, <1>7, MembersUntouched DEF InviteStep
<1>10. StoreStep(a)
    BY <1>3, <1>4 DEF StoreStep, Stores, Row
<1>11. ThrottleStep(a)
    BY <1>5, <1>7 DEF ThrottleStep, FailuresKept, Row, Ids
<1>12. SignStep(a)
  <2> SUFFICES ASSUME NEW s \in Ids(k)', Exposed(s)'
               PROVE  s \in Ids(k) /\ Exposed(s) /\ ~ SigningOut(op[a], Row(k, s).f.user)
      BY DEF SignStep
  <2>1. s # n
      BY <1>4, <1>5 DEF Exposed, AcceptsAccess, Row
  <2> QED
      BY <1>4, <1>5, <2>1 DEF Exposed, AcceptsAccess, Row, SigningOut
<1> QED
    BY <1>6, <1>8, <1>9, <1>10, <1>11, <1>12 DEF StepOf

\* The request that stored it goes on.
LEMMA StoredReady ==
    ASSUME NEW a \in Admins, NEW x, Ready(a, x)', x.pc = "persist", PersistReady(x),
           NEW y, Takes(x, y, {"pc", "id"}), {"pc", "id"} \subseteq DOMAIN y,
           y.pc \in {"persist_memory", "finish", "answer_session"}, Names(y, "session")',
           y.pc = "persist_memory" => Row("session", y.id)'.f.user = x.session.f.user
    PROVE  Ready(a, y)' /\ y.route = x.route
<1>1. /\ {"route", "then", "session"} \subseteq DOMAIN y /\ y.route = x.route /\ y.then = x.then
      /\ y.session = x.session /\ x.then \in {"finish", "answer_session"} /\ x.route # Accepting
    BY DEF Takes, Ready, PersistReady, LoginPcs
<1>2. (y.route = Callback => LoginReady(y))'
    BY <1>1 DEF Ready, LoginReady, LoginPcs, Takes
<1> QED
    BY <1>1, <1>2 DEF Ready, AdminPcs, SessionPcs, LoginPcs, InvitePcs, KeyPcs

\* A request that takes up a session id and goes on.
LEMMA OpStores ==
    ASSUME Base, NEW a \in Admins, NEW pc, NEW id, op' = [op EXCEPT ![a].pc = pc, ![a].id = id],
           "id" \in DOMAIN op[a]
    PROVE  /\ DOMAIN op' = Admins /\ \A b \in Admins \ {a} : Same(op[b], op'[b])
           /\ Takes(op[a], op'[a], {"pc", "id"}) /\ {"pc", "id"} \subseteq DOMAIN op'[a]
           /\ op'[a].pc = pc /\ op'[a].id = id
<1>1. PICK x : x = op[a]
    OBVIOUS
<1>2. op'[a] = [[x EXCEPT !.pc = pc] EXCEPT !.id = id] /\ {"pc", "id"} \subseteq DOMAIN x
    BY <1>1 DEF Base, Ready
<1>3. Takes(x, op'[a], {"pc", "id"}) /\ DOMAIN op'[a] = DOMAIN x /\ op'[a].pc = pc /\ op'[a].id = id
    BY <1>2 DEF Takes
<1> QED
    BY <1>1, <1>2, <1>3 DEF Base, Same

\* persist_auth_session and insert_auth_session of a new session.
LEMMA NewSessionStored ==
    ASSUME Base, NEW a \in Admins, op[a].pc = "persist",
           NEW new, RowOK("session", new), UserSession(new), AddsRow("session", new),
           new.f.attempt = op[a].session.f.attempt, new.f.user = op[a].session.f.user,
           new.status = "active" /\ ~ AcceptsAccess("user", new.f.user) => new.f.late,
           clock' = clock, NEW pc \in {"persist_memory", "finish", "answer_session"},
           op' = [op EXCEPT ![a].pc = pc, ![a].id = Len(db["session"]) + 1],
           pc = "persist_memory" => new.status = "absent"
    PROVE  StepOf(a)
<1>1. PICK x, y, n : x = op[a] /\ y = op'[a] /\ n = Len(db["session"]) + 1
    OBVIOUS
<1>2. Ready(a, x) /\ PersistReady(x) /\ x.pc = "persist" /\ "id" \in DOMAIN op[a]
    BY <1>1 DEF Base, Ready, PersistReady
<1>3. /\ DOMAIN op' = Admins /\ \A b \in Admins \ {a} : Same(op[b], op'[b])
      /\ Takes(x, y, {"pc", "id"}) /\ {"pc", "id"} \subseteq DOMAIN y /\ y.pc = pc /\ y.id = n
    BY <1>1, <1>2, OpStores
<1>4. Grows /\ Adds("session", new)
    BY AddGrows DEF Base, Fields, LinkOK
<1>5. n \in Ids("session")' /\ Row("session", n)'.f.user = x.session.f.user
  <2>1. Ids("session")' = 1 .. Len(db'["session"]) /\ Len(db["session"]) \in Nat
      BY <1>4, SessionsGrow
  <2> QED
      BY <1>1, <1>4, <2>1 DEF Adds, Row
<1>6. Ready(a, x)'
    BY <1>2, <1>4, ReadyLasts DEF Base
<1>7. Names(y, "session")'
    BY <1>3, <1>5 DEF Names
<1>8. Ready(a, y)' /\ y.route = x.route
    BY <1>2, <1>3, <1>5, <1>6, <1>7, StoredReady
<1> QED
    BY <1>1, <1>3, <1>8, SessionAdded

\* persist_postgres_session is a step of its request.
LEMMA PersistPostgresSessionStep ==
    ASSUME Base, NEW a \in Admins, PersistPostgresSession(a)
    PROVE  StepOf(a)
<1>1. PICK row, at, f, new :
         /\ row = op[a].session /\ at = [row EXCEPT !.status = "absent"]
         /\ f = [at.f EXCEPT !.durable = "active"] /\ new = [at EXCEPT !.f = f]
    OBVIOUS
<1>2. op[a].pc = "persist" /\ clock' = clock
    BY DEF PersistPostgresSession, OnlyDirectory, fixed
<1>3. RowOK("session", row) /\ UserSession(row)
    BY <1>1, <1>2 DEF Base, Ready, PersistReady
<1>4. /\ DOMAIN at = DOMAIN row /\ at.f = row.f /\ at.status = "absent" /\ at.tenant = row.tenant
      /\ at.version = row.version
    BY <1>1, <1>3 DEF RowOK
<1>5. Fields["session"] \subseteq DOMAIN row.f /\ {"user", "attempt", "durable"} \subseteq Fields["session"]
    BY <1>3 DEF RowOK, Fields
<1>6. /\ DOMAIN f = DOMAIN row.f /\ f.user = row.f.user /\ f.attempt = row.f.attempt
      /\ f.durable = "active"
    BY <1>1, <1>4, <1>5
<1>7. /\ DOMAIN new = DOMAIN row /\ new.f = f /\ new.status = "absent" /\ new.tenant = row.tenant
      /\ new.version = row.version
    BY <1>1, <1>3, <1>4 DEF RowOK
<1>8. RowOK("session", new) /\ UserSession(new)
    BY <1>3, <1>6, <1>7 DEF RowOK, UserSession, Statuses
<1>9. AddsRow("session", new)
    BY <1>1 DEF PersistPostgresSession, AddsRow
<1>10. op' = [op EXCEPT ![a].pc = "persist_memory", ![a].id = Len(db["session"]) + 1]
    BY DEF PersistPostgresSession
<1>11. /\ new.f.attempt = op[a].session.f.attempt /\ new.f.user = op[a].session.f.user
       /\ new.status = "active" /\ ~ AcceptsAccess("user", new.f.user) => new.f.late
    BY <1>1, <1>6, <1>7
<1> QED
    BY <1>2, <1>7, <1>8, <1>9, <1>10, <1>11, NewSessionStored

\* insert_auth_session: a new session, or the copy of one that Postgres has.
LEMMA InsertAuthSessionStep ==
    ASSUME Base, StoreInv, NEW a \in Admins, InsertAuthSession(a)
    PROVE  StepOf(a)
<1>1. clock' = clock
    BY DEF InsertAuthSession, OnlyDirectory, fixed
<1>2. ASSUME op[a].pc = "persist" PROVE StepOf(a)
  <2>1. PICK row, late, f, new :
           /\ row = op[a].session /\ late = ~ AcceptsAccess("user", op[a].session.f.user)
           /\ f = [row.f EXCEPT !.late = late] /\ new = [row EXCEPT !.f = f]
      OBVIOUS
  <2>2. PICK pc : /\ pc = op[a].then
                  /\ op' = [op EXCEPT ![a].pc = pc, ![a].id = Len(db["session"]) + 1]
      BY <1>2 DEF InsertAuthSession
  <2>3. AddsRow("session", new)
      BY <1>2, <2>1 DEF InsertAuthSession, AddsRow
  <2>4. RowOK("session", row) /\ UserSession(row) /\ pc \in {"finish", "answer_session"}
      BY <1>2, <2>1, <2>2 DEF Base, Ready, PersistReady
  <2>5. Fields["session"] \subseteq DOMAIN row.f /\ {"user", "attempt", "durable", "late"} \subseteq Fields["session"]
      BY <2>4 DEF RowOK, Fields
  <2>6. /\ DOMAIN f = DOMAIN row.f /\ f.user = row.f.user /\ f.attempt = row.f.attempt
        /\ f.durable = row.f.durable /\ f.late = late
      BY <2>1, <2>5
  <2>7. /\ DOMAIN new = DOMAIN row /\ new.f = f /\ new.status = row.status /\ new.tenant = row.tenant
        /\ new.version = row.version
      BY <2>1, <2>4 DEF RowOK
  <2>8. RowOK("session", new) /\ UserSession(new)
      BY <2>4, <2>6, <2>7 DEF RowOK, UserSession
  <2>9. new.f.attempt = op[a].session.f.attempt /\ new.f.user = op[a].session.f.user
      BY <2>1, <2>6, <2>7
  <2>10. ~ AcceptsAccess("user", new.f.user) => new.f.late
    <3>1. ~ AcceptsAccess("user", op[a].session.f.user) => late
        BY <2>1
    <3> QED
        BY <2>6, <2>7, <2>9, <3>1
  <2> QED
      BY <1>1, <1>2, <2>2, <2>3, <2>4, <2>8, <2>9, <2>10, NewSessionStored
<1>3. ASSUME op[a].pc = "persist_memory" PROVE StepOf(a)
  <2>1. PICK s, row, late, up, f, new :
           /\ s = op[a].id /\ row = db["session"][s]
           /\ late = ~ AcceptsAccess("user", op[a].session.f.user)
           /\ up = [row EXCEPT !.status = "active"]
           /\ f = [up.f EXCEPT !.late = late] /\ new = [up EXCEPT !.f = f]
      OBVIOUS
  <2>2. Proceed(a, op[a].then)
      BY <1>3 DEF InsertAuthSession
  <2>3. SetsRow("session", s, new)
      BY <1>3, <2>1 DEF InsertAuthSession, SetsRow
  <2>4. /\ s \in Ids("session") /\ op[a].then \in {"finish", "answer_session"}
        /\ row.f.user = op[a].session.f.user /\ row.status = "absent"
      BY <1>3, <2>1 DEF Base, Ready, Names, SessionPcs, StoreInv, Stores, Row
  <2>5. /\ RowOK("session", row) /\ Fields["session"] \subseteq DOMAIN row.f
        /\ row.f.durable \in {"none", "active", "revoked"}
      BY <2>1, <2>4, SessionRow
  <2>6. /\ DOMAIN up = DOMAIN row /\ up.f = row.f /\ up.status = "active" /\ up.tenant = row.tenant
        /\ up.version = row.version
      BY <2>1, <2>5 DEF RowOK
  <2>7. {"user", "attempt", "durable", "late"} \subseteq DOMAIN row.f
      BY <2>5 DEF Fields
  <2>8. /\ DOMAIN f = DOMAIN row.f /\ f.user = row.f.user /\ f.attempt = row.f.attempt
        /\ f.durable = row.f.durable /\ f.late = late
      BY <2>1, <2>6, <2>7
  <2>9. /\ DOMAIN new = DOMAIN row /\ new.f = f /\ new.status = "active" /\ new.tenant = row.tenant
        /\ new.version = row.version
      BY <2>1, <2>5, <2>6 DEF RowOK
  <2>10. Rewritten("session", row, new)
      BY <2>4, <2>5, <2>8, <2>9, SessionFieldsRow
  <2>11. /\ Grows /\ Rewrites("session")
         /\ \A i \in Ids("session") : db'["session"][i] = IF i = s THEN new ELSE db["session"][i]
      BY <2>1, <2>3, <2>4, <2>10, SetGrows DEF Base, Fields
  <2>12. op[a].pc \in SessionPcs /\ op[a].pc # "accept"
      BY <1>3 DEF SessionPcs
  <2>13. PICK y : /\ DOMAIN op' = Admins /\ \A b \in Admins \ {a} : Same(op[b], op'[b])
                  /\ y = op'[a] /\ Ready(a, y) /\ Onward(op[a], op'[a]) /\ ~ Stores(y)
      BY <2>2, <2>4, <2>12, SessionProceeds DEF SessionPcs
  <2>14. Ready(a, y)'
      BY <1>1, <2>11, <2>13, ReadyLasts DEF Base
  <2>15. Acts(a)
      BY <1>1, <2>11, <2>13, <2>14, ActsBy
  <2>16. StoreStep(a)
      BY <1>3, <2>1, <2>11, <2>13 DEF StoreStep, Stores, Row
  <2>17. SignStep(a)
    <3>1. Ids("session")' = Ids("session") /\ db'["user"] = db["user"]
        BY <2>11 DEF Rewrites, Ids, Fields
    <3>2. ~ AcceptsAccess("user", row.f.user) => late
        BY <2>1, <2>4
    <3> SUFFICES ASSUME NEW i \in Ids("session"), Exposed(i)'
                 PROVE  Exposed(i) /\ ~ SigningOut(op[a], Row("session", i).f.user)
        BY <3>1 DEF SignStep
    <3>3. i # s
        BY <2>8, <2>9, <2>11, <3>1, <3>2 DEF Exposed, AcceptsAccess, Row
    <3> QED
        BY <1>3, <2>11, <3>1, <3>3 DEF Exposed, AcceptsAccess, Row, SigningOut
  <2> QED
      BY <2>11, <2>13, <2>15, <2>16, <2>17, SessionsRewritten
<1> QED
    BY <1>2, <1>3 DEF InsertAuthSession

-----------------------------------------------------------------------------
(* Logins                                                                  *)

\* start_auth_login_provider is a step of its request.
LEMMA StartAuthLoginProviderStep ==
    ASSUME Base, NEW a \in Admins, StartAuthLoginProvider(a)
    PROVE  StepOf(a)
<1> DEFINE k == "login_attempt"
<1>1. PICK p \in Ids("login_provider") :
         db' = [db EXCEPT ![k] = Append(@, NewRow(Row("login_provider", p).tenant,
                                                  [provider |-> p, expires |-> clock + AttemptTtl],
                                                  "pending"))]
    BY DEF StartAuthLoginProvider
<1>2. PICK tenant, f, row : /\ tenant = Row("login_provider", p).tenant
                            /\ f = [provider |-> p, expires |-> clock + AttemptTtl]
                            /\ row = NewRow(tenant, f, "pending")
    OBVIOUS
<1>3. AddsRow(k, row)
    BY <1>1, <1>2 DEF AddsRow
<1>4. /\ {"tenant", "f", "status", "version"} \subseteq DOMAIN row
      /\ row.tenant = tenant /\ row.f = f /\ row.status = "pending" /\ row.version = 1
    BY <1>2, NewRowIs
<1>5. RowOK(k, row) /\ LinkOK(k, row) /\ k \in DOMAIN Fields
    BY <1>2, <1>4 DEF RowOK, LinkOK, Fields, Statuses
<1>6. Grows /\ \A j \in DOMAIN Fields \ {k} : db'[j] = db[j]
    BY <1>3, <1>5, AddGrows DEF Base, Adds
<1>7. op[a] = NoOp /\ op' = op /\ clock' = clock
    BY DEF StartAuthLoginProvider, Calling, OnlyDirectory, fixed
<1>8. Ready(a, NoOp) /\ Onward(op[a], op'[a]) /\ op[a].pc # "revoke_sessions"
    BY <1>7, NoOpReady DEF NoOp
<1>9. DOMAIN op' = Admins /\ \A b \in Admins \ {a} : Same(op[b], op'[b])
    BY <1>7 DEF Same, Base
<1>10. k \notin {"session", "failed_auth", "organization_member", "user"} /\ op'[a] = NoOp
    BY <1>7
<1> QED
    BY <1>6, <1>7, <1>8, <1>9, <1>10, QuietTable

\* A login that has consumed an attempt.
LEMMA LoginMoves ==
    ASSUME Base, NEW a \in Admins, Acts(a), op'[a].route = Callback, op'[a].pc \in LoginPcs,
           op[a].pc # "revoke_sessions", LoginStep(a), NEW k,
           k \notin {"session", "failed_auth", "organization_member", "user"},
           \A j \in DOMAIN Fields \ {k} : db'[j] = db[j]
    PROVE  StepOf(a)
<1>1. /\ db'["session"] = db["session"] /\ db'["failed_auth"] = db["failed_auth"]
      /\ db'["organization_member"] = db["organization_member"] /\ db'["user"] = db["user"]
    BY DEF Fields
<1>2. Ids("session")' = Ids("session") /\ Ids("failed_auth")' = Ids("failed_auth")
    BY <1>1 DEF Ids
<1>3. InviteStep(a)
    BY <1>1, MembersUntouched DEF InviteStep, Admits, Callback, Accepting
<1>4. StoreStep(a)
    BY <1>1 DEF StoreStep, Stores, LoginPcs, Row
<1>5. ThrottleStep(a)
    BY <1>1, <1>2 DEF ThrottleStep, FailuresKept, Verifies, LoginPcs, Row
<1>6. SignStep(a)
    BY <1>1, <1>2 DEF SignStep, SigningOut, Exposed, AcceptsAccess, Row
<1> QED
    BY <1>3, <1>4, <1>5, <1>6 DEF StepOf

\* consume_login_attempt is a step of its request.
LEMMA ConsumeLoginAttemptStep ==
    ASSUME Base, NEW a \in Admins, ConsumeLoginAttempt(a)
    PROVE  StepOf(a)
<1> DEFINE k == "login_attempt"
<1>1. PICK x, t, row, new : /\ x = op[a] /\ t = op[a].attempt /\ row = db[k][t]
                            /\ new = [row EXCEPT !.status = "consumed"]
    OBVIOUS
<1>2. x.pc = "consume" /\ clock' = clock
    BY <1>1 DEF ConsumeLoginAttempt, OnlyDirectory, fixed
<1>3. Ready(a, x) /\ x.route = Callback /\ LoginReady(x)
    BY <1>1, <1>2 DEF Base, Ready, LoginPcs
<1>4. t \in Ids(k) /\ k \in DOMAIN Fields /\ t = x.attempt
    BY <1>1, <1>3 DEF LoginReady, Fields
<1>5. RowOK(k, row)
    BY <1>1, <1>4 DEF Base, DbOK
<1>6. CASE Consumable(a)
  <2>1. row.status = "pending" /\ row.f.provider = x.provider
      BY <1>1, <1>6 DEF Consumable, Row
  <2>2. Rewritten(k, row, new) /\ new.f = row.f /\ new.status = "consumed"
      BY <1>1, <1>4, <1>5, <2>1, StatusOnlyRow DEF FinalStatus, Statuses
  <2>3. SetsRow(k, t, new)
      BY <1>1, <1>6 DEF ConsumeLoginAttempt, SetsRow
  <2>4. Grows /\ Rewrites(k) /\ db'[k][t] = new
      BY <1>1, <1>4, <2>2, <2>3, SetGrows DEF Base
  <2>5. Proceed(a, "claims")
      BY <1>6 DEF ConsumeLoginAttempt
  <2>6. /\ DOMAIN op' = Admins /\ \A b \in Admins \ {a} : Same(op[b], op'[b])
        /\ Takes(op[a], op'[a], {"pc"}) /\ op'[a].pc = "claims"
      BY <2>5, OpProceeds DEF Proceed
  <2>7. PICK y : y = op'[a]
      OBVIOUS
  <2>8. /\ Takes(x, y, {"pc"}) /\ y.pc = "claims" /\ {"pc", "route", "provider", "attempt", "id"} \subseteq DOMAIN y
        /\ y.route = Callback /\ y.provider = x.provider /\ y.attempt = t
      BY <1>1, <1>3, <2>6, <2>7 DEF Takes, Ready, LoginReady
  <2>9. LoginReady(x)'
      BY <1>2, <1>3, <2>4, ReadyLasts DEF Base, Ready
  <2>10. LoginReady(y)'
      BY <2>1, <2>2, <2>4, <2>8, <2>9, <1>4 DEF LoginReady, Row
  <2>11. Ready(a, y)'
      BY <2>8, <2>10 DEF Ready, AdminPcs, SessionPcs, LoginPcs, InvitePcs, KeyPcs, Callback, Accepting
  <2>12. Acts(a)
      BY <1>2, <2>4, <2>6, <2>7, <2>11, ActsBy
  <2>13. LoginStep(a)
    <3>1. Ids("session")' = Ids("session")
        BY <2>4 DEF Rewrites, Fields, Ids
    <3> QED
        BY <1>1, <1>4, <2>1, <2>7, <2>8, <3>1 DEF LoginStep, Row
  <2>14. op'[a].route = Callback /\ op'[a].pc \in LoginPcs /\ op[a].pc # "revoke_sessions"
      BY <1>1, <1>2, <2>7, <2>8 DEF LoginPcs
  <2> QED
      BY <2>4, <2>12, <2>13, <2>14, LoginMoves DEF Rewrites
<1>7. CASE ~ Consumable(a)
  <2>1. db' = db /\ op' = [op EXCEPT ![a] = NoOp]
      BY <1>7 DEF ConsumeLoginAttempt, Ends
  <2> QED
      BY <1>1, <1>2, <2>1, EndsStep DEF SigningOut
<1> QED
    BY <1>6, <1>7

\* A login goes on with its attempt.
LEMMA LoginGoesOn ==
    ASSUME NEW a \in Admins, NEW x, Ready(a, x), x.route = Callback, x.pc \in LoginPcs,
           NEW y, NEW changed, Takes(x, y, changed), changed \cap {"route", "provider", "attempt"} = {},
           "pc" \in DOMAIN y, y.pc \in {"identity", "new_user", "persist"},
           y.pc = "persist" =>
             /\ {"session", "then"} \subseteq DOMAIN y /\ y.then = "finish"
             /\ RowOK("session", y.session) /\ UserSession(y.session)
             /\ y.session.status = "active" /\ y.session.f.durable = "none"
             /\ y.session.f.attempt = x.attempt
    PROVE  Ready(a, y) /\ Onward(x, y)
<1>1. LoginReady(x) /\ {"provider", "attempt", "id", "route"} \subseteq DOMAIN x
    BY DEF Ready, LoginReady
<1>2. /\ {"provider", "attempt", "id", "route"} \subseteq DOMAIN y /\ y.route = Callback
      /\ y.attempt = x.attempt /\ y.provider = x.provider
    BY <1>1 DEF Takes
<1>3. LoginReady(y)
    BY <1>1, <1>2 DEF LoginReady
<1>4. y.pc = "persist" => PersistReady(y)
    BY <1>2 DEF PersistReady
<1>5. Ready(a, y)
    BY <1>2, <1>3, <1>4
       DEF Ready, AdminPcs, SessionPcs, LoginPcs, InvitePcs, KeyPcs, Callback, Accepting
<1>6. Onward(x, y)
    BY <1>2 DEF Onward, LogsIn, Admits, Stores, Verifies, Callback, Accepting
<1> QED
    BY <1>5, <1>6

\* external_login_callback_claims.
LEMMA ExternalLoginCallbackClaimsStep ==
    ASSUME Base, NEW a \in Admins, ExternalLoginCallbackClaims(a)
    PROVE  StepOf(a)
<1>1. op[a].pc = "claims" /\ db' = db /\ clock' = clock
    BY DEF ExternalLoginCallbackClaims, OnlyDirectory, fixed
<1>2. CASE Ends(a)
    BY <1>1, <1>2, EndsStep DEF Ends, SigningOut
<1>3. CASE ~ Ends(a)
  <2>1. PICK subject : op' = [op EXCEPT ![a] = [pc |-> "identity", subject |-> subject] ++ @]
      BY <1>3 DEF ExternalLoginCallbackClaims
  <2>2. PICK changes : changes = [pc |-> "identity", subject |-> subject]
      OBVIOUS
  <2>3. DOMAIN changes = {"pc", "subject"} /\ changes.pc = "identity"
      BY <2>2
  <2>4. op' = [op EXCEPT ![a] = changes ++ @]
      BY <2>1, <2>2
  <2>5. /\ DOMAIN op' = Admins /\ \A b \in Admins \ {a} : Same(op[b], op'[b])
        /\ Takes(op[a], op'[a], DOMAIN changes) /\ DOMAIN changes \subseteq DOMAIN op'[a]
        /\ \A f \in DOMAIN changes : op'[a][f] = changes[f]
      BY <2>4, OpChanges
  <2>6. PICK x, y : x = op[a] /\ y = op'[a]
      OBVIOUS
  <2>7. /\ Takes(x, y, {"pc", "subject"}) /\ "pc" \in DOMAIN y /\ y.pc = "identity"
        /\ Ready(a, x) /\ x.route = Callback /\ x.pc \in LoginPcs
      BY <1>1, <2>3, <2>5, <2>6 DEF Base, Ready, LoginPcs
  <2>8. Ready(a, y) /\ Onward(x, y)
      BY <2>7, LoginGoesOn
  <2>9. \A u : ~ SigningOut(op[a], u)
      BY <1>1 DEF SigningOut
  <2> QED
      BY <1>1, <2>5, <2>6, <2>8, <2>9, QuietMove
<1> QED
    BY <1>2, <1>3

\* The session a login makes is one of the provider's tenant, for the attempt.
LEMMA LoginSessionIs ==
    ASSUME Base, NEW a \in Admins, op[a].route = Callback, op[a].pc \in LoginPcs,
           NEW u \in Ids("user"), Row("user", u).tenant = Row("login_provider", op[a].provider).tenant
    PROVE  LET row == LoginSession(a, u)
           IN /\ RowOK("session", row) /\ UserSession(row)
              /\ row.status = "active" /\ row.f.durable = "none" /\ row.f.attempt = op[a].attempt
<1>1. PICK t : t = op[a].attempt
    OBVIOUS
<1>2. /\ t \in Ids("login_attempt") /\ Row("login_attempt", t).status = "consumed"
      /\ Row("login_attempt", t).f.provider = op[a].provider
    BY <1>1 DEF Base, Ready, LoginReady
<1>3. LinkOK("login_attempt", Row("login_attempt", t))
    BY <1>2 DEF Base, DbOK, Fields, Row
<1>4. Row("login_attempt", t).tenant = Row("user", u).tenant
    BY <1>2, <1>3 DEF LinkOK
<1>5. PICK org, project, expires :
         org = Row("user", u).f.org /\ project = Row("user", u).f.project /\ expires = op[a].at + SessionTtl
    OBVIOUS
<1>6. PICK row : row = NewSession(u, org, project, expires, t)
    OBVIOUS
<1>7. /\ RowOK("session", row) /\ UserSession(row)
      /\ row.status = "active" /\ row.f.durable = "none" /\ row.f.attempt = t
    BY <1>2, <1>4, <1>6, NewSessionIs
<1>8. row = LoginSession(a, u)
    BY <1>1, <1>5, <1>6 DEF LoginSession
<1> QED
    BY <1>1, <1>7, <1>8

\* A login is about to store its session.
LEMMA LoginPersists ==
    ASSUME Base, NEW a \in Admins, op[a].route = Callback, op[a].pc \in LoginPcs,
           NEW u \in Ids("user"), Row("user", u).tenant = Row("login_provider", op[a].provider).tenant,
           NEW changes, op' = [op EXCEPT ![a] = changes ++ @],
           {"pc", "then", "session"} \subseteq DOMAIN changes,
           DOMAIN changes \cap {"route", "provider", "attempt"} = {},
           changes.pc = "persist", changes.then = "finish", changes.session = LoginSession(a, u)
    PROVE  /\ DOMAIN op' = Admins /\ \A b \in Admins \ {a} : Same(op[b], op'[b])
           /\ \E y : y = op'[a] /\ Ready(a, y) /\ Onward(op[a], op'[a])
<1>1. PICK x, y, row : x = op[a] /\ y = op'[a] /\ row = LoginSession(a, u)
    OBVIOUS
<1>2. /\ RowOK("session", row) /\ UserSession(row)
      /\ row.status = "active" /\ row.f.durable = "none" /\ row.f.attempt = x.attempt
    BY <1>1, LoginSessionIs
<1>3. /\ DOMAIN op' = Admins /\ \A b \in Admins \ {a} : Same(op[b], op'[b])
      /\ Takes(x, y, DOMAIN changes) /\ DOMAIN changes \subseteq DOMAIN y
      /\ \A f \in DOMAIN changes : y[f] = changes[f]
  <2>1. /\ DOMAIN op' = Admins /\ \A b \in Admins \ {a} : Same(op[b], op'[b])
        /\ Takes(op[a], op'[a], DOMAIN changes) /\ DOMAIN changes \subseteq DOMAIN op'[a]
        /\ \A f \in DOMAIN changes : op'[a][f] = changes[f]
      BY OpChanges
  <2> QED
      BY <1>1, <2>1
<1>4. y.pc = "persist" /\ y.then = "finish" /\ y.session = row /\ {"pc", "session", "then"} \subseteq DOMAIN y
    BY <1>1, <1>3
<1>5. Ready(a, x) /\ x.route = Callback /\ x.pc \in LoginPcs
    BY <1>1 DEF Base
<1>6. Ready(a, y) /\ Onward(x, y)
    BY <1>2, <1>3, <1>4, <1>5, LoginGoesOn
<1> QED
    BY <1>1, <1>3, <1>6

\* update_existing_external_identity.
LEMMA UpdateExistingExternalIdentityStep ==
    ASSUME Base, NEW a \in Admins, UpdateExistingExternalIdentity(a)
    PROVE  StepOf(a)
<1> DEFINE k == "external_identity"
<1>1. /\ op[a].pc = "identity" /\ db' = db /\ clock' = clock
      /\ op[a].route = Callback /\ op[a].pc \in LoginPcs /\ \A u : ~ SigningOut(op[a], u)
    BY DEF UpdateExistingExternalIdentity, OnlyDirectory, fixed, Base, Ready, LoginPcs, SigningOut
<1>2. CASE op' = [op EXCEPT ![a] = NoOp]
    BY <1>1, <1>2, EndsStep
<1>3. CASE op' = [op EXCEPT ![a].pc = "new_user"]
  <2>1. /\ DOMAIN op' = Admins /\ \A b \in Admins \ {a} : Same(op[b], op'[b])
        /\ Takes(op[a], op'[a], {"pc"}) /\ op'[a].pc = "new_user"
      BY <1>3, OpProceeds
  <2>2. PICK x, y : x = op[a] /\ y = op'[a]
      OBVIOUS
  <2>3. /\ Takes(x, y, {"pc"}) /\ "pc" \in DOMAIN y /\ y.pc = "new_user"
        /\ Ready(a, x) /\ x.route = Callback /\ x.pc \in LoginPcs
      BY <1>1, <2>1, <2>2 DEF Base, Ready, Takes
  <2>4. Ready(a, y) /\ Onward(x, y)
      BY <2>3, LoginGoesOn
  <2> QED
      BY <1>1, <2>1, <2>2, <2>4, QuietMove
<1>4. ASSUME NEW i \in Ids(k), NEW u, u = Row(k, i).f.user, Row(k, i).f.provider = op[a].provider,
             op' = [op EXCEPT ![a] = [pc |-> "persist", then |-> "finish", user |-> u,
                                      about |-> <<"user", u>>,
                                      after |-> Row("user", u).version,
                                      session |-> LoginSession(a, u)] ++ @]
      PROVE  StepOf(a)
  <2>1. LinkOK(k, Row(k, i))
      BY DEF Base, DbOK, Fields, Row
  <2>2. u \in Ids("user") /\ Row("user", u).tenant = Row("login_provider", op[a].provider).tenant
      BY <1>4, <2>1 DEF LinkOK
  <2>3. PICK changes : changes = [pc |-> "persist", then |-> "finish", user |-> u,
                                  about |-> <<"user", u>>,
                                  after |-> Row("user", u).version,
                                  session |-> LoginSession(a, u)]
      OBVIOUS
  <2>4. op' = [op EXCEPT ![a] = changes ++ @]
      BY <1>4, <2>3
  <2>5. /\ DOMAIN changes = {"pc", "then", "user", "about", "after", "session"}
        /\ changes.pc = "persist" /\ changes.then = "finish" /\ changes.session = LoginSession(a, u)
      BY <2>3
  <2>6. /\ DOMAIN op' = Admins /\ \A b \in Admins \ {a} : Same(op[b], op'[b])
        /\ \E y : y = op'[a] /\ Ready(a, y) /\ Onward(op[a], op'[a])
      BY <1>1, <2>2, <2>4, <2>5, LoginPersists
  <2> QED
      BY <1>1, <2>6, QuietMove
<1>5. \/ op' = [op EXCEPT ![a] = NoOp] \/ op' = [op EXCEPT ![a].pc = "new_user"]
      \/ \E i \in Ids(k) :
           /\ Row(k, i).f.provider = op[a].provider
           /\ op' = [op EXCEPT ![a] = [pc |-> "persist", then |-> "finish", user |-> Row(k, i).f.user,
                                       about |-> <<"user", Row(k, i).f.user>>,
                                       after |-> Row("user", Row(k, i).f.user).version,
                                       session |-> LoginSession(a, Row(k, i).f.user)] ++ @]
    BY Zenon DEF UpdateExistingExternalIdentity
<1> QED
    BY <1>2, <1>3, <1>4, <1>5

\* A user is made for a login without an identity.
LEMMA InsertLoginUserStep ==
    ASSUME Base, NEW a \in Admins, InsertLoginUser(a)
    PROVE  StepOf(a)
<1> DEFINE k == "user"
<1>1. PICK x, tenant, f, row, n, changes :
         /\ x = op[a] /\ tenant = Row("login_provider", op[a].provider).tenant
         /\ f = [org |-> None, project |-> None, email |-> op[a].subject, durable |-> "none"]
         /\ row = NewRow(tenant, f, "active") /\ n = Len(db[k]) + 1
         /\ changes = [pc |-> "new_identity", user |-> n]
    OBVIOUS
<1>2. /\ x.pc = "new_user" /\ clock' = clock /\ AddsRow(k, row)
      /\ op' = [op EXCEPT ![a] = changes ++ @]
    BY <1>1 DEF InsertLoginUser, OnlyDirectory, fixed, AddsRow
<1>3. /\ {"tenant", "f", "status", "version"} \subseteq DOMAIN row
      /\ row.tenant = tenant /\ row.f = f /\ row.status = "active" /\ row.version = 1
    BY <1>1, NewRowIs
<1>4. RowOK(k, row) /\ LinkOK(k, row) /\ k \in DOMAIN Fields
    BY <1>1, <1>3 DEF RowOK, LinkOK, Fields, Statuses, DirectoryStatus
<1>5. Grows /\ Adds(k, row)
    BY <1>2, <1>4, AddGrows DEF Base
<1>6. n \in Ids(k)' /\ Row(k, n)' = row
  <2>1. Ids(k)' = 1 .. Len(db'[k]) /\ Len(db[k]) \in Nat
      BY <1>4, <1>5, IdsGrow DEF Base
  <2> QED
      BY <1>1, <1>5, <2>1 DEF Adds, Row
<1>7. Ready(a, x) /\ x.route = Callback /\ x.pc \in LoginPcs
    BY <1>1, <1>2 DEF Base, Ready, LoginPcs
<1>8. LoginReady(x) /\ LoginReady(x)'
    BY <1>2, <1>5, <1>7, ReadyLasts DEF Base, Ready
<1>9. Row("login_provider", x.provider)'.tenant = tenant
    BY <1>1, <1>5, <1>8, IdsGrow DEF Base, Kept, LoginReady, Fields
<1>10. DOMAIN changes = {"pc", "user"} /\ changes.pc = "new_identity" /\ changes.user = n
    BY <1>1
<1>11. /\ DOMAIN op' = Admins /\ \A b \in Admins \ {a} : Same(op[b], op'[b])
       /\ Takes(op[a], op'[a], DOMAIN changes) /\ DOMAIN changes \subseteq DOMAIN op'[a]
       /\ \A g \in DOMAIN changes : op'[a][g] = changes[g]
    BY <1>2, OpChanges
<1>12. PICK y : y = op'[a]
    OBVIOUS
<1>13. /\ {"pc", "user", "route", "provider", "attempt", "id"} \subseteq DOMAIN y
       /\ y.pc = "new_identity" /\ y.user = n /\ y.route = Callback
       /\ y.provider = x.provider /\ y.attempt = x.attempt
    BY <1>1, <1>7, <1>8, <1>10, <1>11, <1>12 DEF Takes, LoginReady, Ready
<1>14. LoginReady(y)'
    BY <1>3, <1>6, <1>7, <1>8, <1>9, <1>13 DEF LoginReady
<1>15. Ready(a, y)'
    BY <1>13, <1>14
       DEF Ready, AdminPcs, SessionPcs, LoginPcs, InvitePcs, KeyPcs, Callback, Accepting
<1>16. Acts(a)
    BY <1>2, <1>5, <1>11, <1>12, <1>15, ActsBy
<1>17. Onward(op[a], op'[a])
    BY <1>1, <1>7, <1>12, <1>13
       DEF Onward, LogsIn, Admits, Stores, Verifies, Callback, Accepting
<1>18. /\ db'["session"] = db["session"] /\ db'["failed_auth"] = db["failed_auth"]
       /\ db'["organization_member"] = db["organization_member"]
    BY <1>5 DEF Adds, Fields
<1>19. MembersKept(a) /\ \A u : ~ SigningOut(op[a], u)
    BY <1>1, <1>2, <1>18, MembersUntouched DEF SigningOut
<1>20. \A u \in Ids("user") : AcceptsAccess("user", u) => db'["user"][u].status = "active"
    BY <1>5 DEF Adds, AcceptsAccess, Row
<1> QED
    BY <1>16, <1>17, <1>18, <1>19, <1>20, Quiet

\* The user's identity.
LEMMA InsertLoginIdentityStep ==
    ASSUME Base, NEW a \in Admins, InsertLoginIdentity(a)
    PROVE  StepOf(a)
<1> DEFINE k == "external_identity"
<1>1. PICK u, tenant, f, row, changes :
         /\ u = op[a].user /\ tenant = Row("login_provider", op[a].provider).tenant
         /\ f = [user |-> u, provider |-> op[a].provider, subject |-> op[a].subject]
         /\ row = NewRow(tenant, f, "active")
         /\ changes = [pc |-> "persist", then |-> "finish", after |-> 1, about |-> <<"user", u>>,
                       session |-> LoginSession(a, u)]
    OBVIOUS
<1>2. /\ op[a].pc = "new_identity" /\ clock' = clock /\ AddsRow(k, row)
      /\ op' = [op EXCEPT ![a] = changes ++ @]
    BY <1>1 DEF InsertLoginIdentity, OnlyDirectory, fixed, AddsRow
<1>3. /\ op[a].route = Callback /\ op[a].pc \in LoginPcs /\ op[a].pc # "revoke_sessions"
      /\ u \in Ids("user") /\ op[a].provider \in Ids("login_provider")
      /\ Row("user", u).tenant = Row("login_provider", op[a].provider).tenant
    BY <1>1, <1>2 DEF Base, Ready, LoginPcs, LoginReady
<1>4. /\ {"tenant", "f", "status", "version"} \subseteq DOMAIN row
      /\ row.tenant = tenant /\ row.f = f /\ row.status = "active" /\ row.version = 1
    BY <1>1, NewRowIs
<1>5. RowOK(k, row) /\ LinkOK(k, row) /\ k \in DOMAIN Fields
    BY <1>1, <1>3, <1>4 DEF RowOK, LinkOK, Fields, Statuses
<1>6. Grows /\ Adds(k, row)
    BY <1>2, <1>5, AddGrows DEF Base
<1>7. /\ DOMAIN changes = {"pc", "then", "after", "about", "session"}
      /\ changes.pc = "persist" /\ changes.then = "finish" /\ changes.session = LoginSession(a, u)
    BY <1>1
<1>8. /\ DOMAIN op' = Admins /\ \A b \in Admins \ {a} : Same(op[b], op'[b])
      /\ \E y : y = op'[a] /\ Ready(a, y) /\ Onward(op[a], op'[a])
    BY <1>2, <1>3, <1>7, LoginPersists
<1>9. k \notin {"session", "failed_auth", "organization_member", "user"}
    OBVIOUS
<1> QED
    BY <1>2, <1>3, <1>6, <1>8, <1>9, QuietTable DEF Adds

-----------------------------------------------------------------------------
(* Invitations                                                             *)

\* accept_organization_invitation is a step of its request.
LEMMA AcceptOrganizationInvitationStep ==
    ASSUME Base, NEW a \in Admins, AcceptOrganizationInvitation(a)
    PROVE  StepOf(a)
<1> DEFINE k == "invitation"
<1>1. PICK x, i, row, new, v : /\ x = op[a] /\ i = op[a].invitation /\ row = db[k][i]
                               /\ new = Patched(row, NewStatus("accepted"))
                               /\ v = Row(k, op[a].invitation).version + 1
    OBVIOUS
<1>2. x.pc = "accept" /\ clock' = clock
    BY <1>1 DEF AcceptOrganizationInvitation, OnlyDirectory, fixed
<1>3. Ready(a, x) /\ x.route = Accepting /\ AcceptReady(x)
    BY <1>1, <1>2 DEF Base, Ready, InvitePcs
<1>4. i \in Ids(k) /\ k \in DOMAIN Fields /\ k \in DOMAIN Statuses /\ i = x.invitation
    BY <1>1, <1>3 DEF AcceptReady, Fields, Statuses
<1>5. RowOK(k, row)
    BY <1>1, <1>4 DEF Base, DbOK
<1>6. CASE AcceptsAt(a)
  <2>1. row.status = "pending"
      BY <1>1, <1>6 DEF AcceptsAt, Row
  <2>2. PICK status : status = "accepted"
      OBVIOUS
  <2>3. status \in Statuses[k] /\ ~ row.status \in FinalStatus(k)
      BY <2>1, <2>2 DEF Statuses, FinalStatus
  <2>4. Rewritten(k, row, Patched(row, NewStatus(status))) /\ Patched(row, NewStatus(status)).status = status
      BY <1>4, <1>5, <2>3, NewStatusRow
  <2>5. SetsRow(k, i, new)
      BY <1>1, <1>6 DEF AcceptOrganizationInvitation, SetsRow
  <2>6. Grows /\ Rewrites(k) /\ db'[k][i] = new /\ new.status = "accepted"
    <3>1. Rewritten(k, row, new) /\ new.status = "accepted"
        BY <1>1, <2>2, <2>4
    <3> QED
        BY <1>1, <1>4, <2>5, <3>1, SetGrows DEF Base
  <2>7. op' = [op EXCEPT ![a].pc = "invited_organization", ![a].after = v]
      BY <1>1, <1>6 DEF AcceptOrganizationInvitation
  <2>8. PICK y : y = op'[a]
      OBVIOUS
  <2>9. /\ DOMAIN op' = Admins /\ \A b \in Admins \ {a} : Same(op[b], op'[b])
        /\ y = [[x EXCEPT !.pc = "invited_organization"] EXCEPT !.after = v]
      BY <1>1, <2>7, <2>8 DEF Base, Same
  <2>10. Takes(x, y, {"pc", "after"}) /\ "pc" \in DOMAIN y /\ y.pc = "invited_organization"
      BY <1>3, <2>9 DEF Takes, Ready
  <2>11. /\ {"pc", "route", "invitation", "user", "session", "at"} \subseteq DOMAIN y
         /\ y.route = Accepting /\ y.invitation = i /\ y.user = x.user /\ y.session = x.session
      BY <1>3, <1>4, <2>10 DEF Takes, Ready, AcceptReady
  <2>12. AcceptReady(x)'
      BY <1>2, <1>3, <2>6, ReadyLasts DEF Base, Ready
  <2>13. AcceptReady(y)'
    <3>1. Row(k, i)'.status = "accepted"
        BY <2>6 DEF Row
    <3> QED
        BY <1>4, <2>11, <2>12, <3>1 DEF AcceptReady
  <2>14. Ready(a, y)'
      BY <2>10, <2>11, <2>13
         DEF Ready, AdminPcs, SessionPcs, LoginPcs, InvitePcs, KeyPcs, Callback, Accepting
  <2>15. Acts(a)
      BY <1>2, <2>6, <2>8, <2>9, <2>14, ActsBy
  <2>16. /\ db'["session"] = db["session"] /\ db'["failed_auth"] = db["failed_auth"]
         /\ db'["organization_member"] = db["organization_member"] /\ db'["user"] = db["user"]
      BY <2>6 DEF Rewrites, Fields
  <2>17. Ids("session")' = Ids("session") /\ Ids("failed_auth")' = Ids("failed_auth")
      BY <2>16 DEF Ids
  <2>18. LoginStep(a)
      BY <2>8, <2>11, <2>17 DEF LoginStep, LogsIn, Callback, Accepting
  <2>19. InviteStep(a)
      BY <1>1, <2>1, <2>8, <2>11, <2>16, MembersUntouched DEF InviteStep, Row
  <2>20. StoreStep(a)
      BY <2>8, <2>10, <2>16 DEF StoreStep, Stores, Row
  <2>21. ThrottleStep(a)
      BY <2>8, <2>10, <2>16, <2>17 DEF ThrottleStep, FailuresKept, Verifies, Row
  <2>22. SignStep(a)
      BY <1>1, <1>2, <2>16, <2>17 DEF SignStep, SigningOut, Exposed, AcceptsAccess, Row
  <2> QED
      BY <2>15, <2>18, <2>19, <2>20, <2>21, <2>22 DEF StepOf
<1>7. CASE ~ AcceptsAt(a)
  <2>1. db' = db /\ op' = [op EXCEPT ![a] = NoOp]
      BY <1>7 DEF AcceptOrganizationInvitation, Ends
  <2> QED
      BY <1>1, <1>2, <2>1, EndsStep DEF SigningOut
<1> QED
    BY <1>6, <1>7

\* An invitation is taken up further.
LEMMA InviteGoesOn ==
    ASSUME NEW a \in Admins, NEW x, Ready(a, x), x.route = Accepting, x.pc # "accept",
           NEW y, NEW changed, Takes(x, y, changed),
           changed \cap {"route", "invitation", "user", "session", "at"} = {},
           "pc" \in DOMAIN y, y.pc \in {"invited_project", "defaults"},
           y.pc = "invited_project" => "member" \in DOMAIN y
    PROVE  Ready(a, y) /\ Onward(x, y)
<1>1. AcceptReady(x) /\ {"invitation", "user", "session", "at", "route"} \subseteq DOMAIN x
    BY DEF Ready, AcceptReady
<1>2. /\ {"invitation", "user", "session", "at", "route"} \subseteq DOMAIN y /\ y.route = Accepting
      /\ y.invitation = x.invitation /\ y.user = x.user /\ y.session = x.session
    BY <1>1 DEF Takes
<1>3. AcceptReady(y)
    BY <1>1, <1>2 DEF AcceptReady
<1>4. Ready(a, y)
    BY <1>2, <1>3
       DEF Ready, AdminPcs, SessionPcs, LoginPcs, InvitePcs, KeyPcs, Callback, Accepting
<1>5. Onward(x, y)
    BY <1>2 DEF Onward, LogsIn, Admits, Stores, Verifies, Callback, Accepting
<1> QED
    BY <1>4, <1>5

\* upsert_invited_project_membership.
LEMMA UpsertInvitedProjectMembershipStep ==
    ASSUME Base, NEW a \in Admins, UpsertInvitedProjectMembership(a)
    PROVE  StepOf(a)
<1> DEFINE k == "project_member"
<1>1. PICK x, project, there, shut, patch :
         /\ x = op[a] /\ project = Row("invitation", op[a].invitation).f.project
         /\ there = ProjectMemberOf(op[a].user, project)
         /\ shut = {i \in there : ~ AcceptsAccess(k, i)} /\ patch = NewStatus("active")
    OBVIOUS
<1>2. x.pc = "invited_project" /\ clock' = clock /\ Proceed(a, "defaults")
    BY <1>1 DEF UpsertInvitedProjectMembership, OnlyDirectory, fixed
<1>3. Ready(a, x) /\ x.route = Accepting
    BY <1>1, <1>2 DEF Base, Ready, InvitePcs
<1>4. ASSUME there = {} PROVE Grows /\ \A j \in DOMAIN Fields \ {k} : db'[j] = db[j]
  <2>1. AddsRow(k, NewProjectMember(project, op[a].user, op[a].member))
      BY <1>1, <1>4 DEF UpsertInvitedProjectMembership, AddsRow
  <2> QED
      BY <2>1, ProjectMemberAdded
<1>5. ASSUME there # {} PROVE Grows /\ \A j \in DOMAIN Fields \ {k} : db'[j] = db[j]
  <2>1. PatchesRows(k, shut, patch)
      BY <1>1, <1>5 DEF UpsertInvitedProjectMembership, Replaced, PatchesRows
  <2>2. patch.status \in MembershipStatus
      BY <1>1 DEF MembershipStatus, NewStatus
  <2> QED
      BY <2>1, <2>2, ProjectMembersPatched
<1>6. /\ DOMAIN op' = Admins /\ \A b \in Admins \ {a} : Same(op[b], op'[b])
      /\ Takes(op[a], op'[a], {"pc"}) /\ op'[a].pc = "defaults"
    BY <1>2, OpProceeds DEF Proceed
<1>7. PICK y : y = op'[a]
    OBVIOUS
<1>8. Takes(x, y, {"pc"}) /\ "pc" \in DOMAIN y /\ y.pc = "defaults"
    BY <1>1, <1>3, <1>6, <1>7 DEF Takes, Ready
<1>9. Ready(a, y) /\ Onward(x, y)
    BY <1>2, <1>3, <1>8, InviteGoesOn
<1>10. op[a].pc # "revoke_sessions" /\ k \notin {"session", "failed_auth", "organization_member", "user"}
    BY <1>1, <1>2
<1> QED
    BY <1>1, <1>2, <1>4, <1>5, <1>6, <1>7, <1>9, <1>10, QuietTable

\* A member let in by one more invitation, and made active again.
LetsIn(row, i, new) ==
    new = [(IF row.status = "active" THEN row ELSE Patched(row, NewStatus("active")))
             EXCEPT !.f.invitations = @ \cup {i}]
\* The membership an invitation makes of one that was there.
LEMMA InvitedRow ==
    ASSUME NEW row, RowOK("organization_member", row), NEW i, AdmittedBy(i, row.f.user),
           \A j \in row.f.invitations : AdmittedBy(j, row.f.user),
           NEW new, LetsIn(row, i, new)
    PROVE  /\ Rewritten("organization_member", row, new)
           /\ new.f["user"] = row.f["user"] /\ new.f["invitations"] = row.f["invitations"] \cup {i}
<1> DEFINE k == "organization_member"
<1>1. PICK mid, f : /\ mid = IF row.status = "active" THEN row ELSE Patched(row, NewStatus("active"))
                    /\ f = [mid.f EXCEPT !.invitations = @ \cup {i}] /\ new = [mid EXCEPT !.f = f]
    BY DEF LetsIn
<1>2. k \in DOMAIN Fields /\ k \in DOMAIN Statuses
    BY DEF Fields, Statuses
<1>3. /\ Kept(k, row, mid) /\ RowOK(k, mid)
      /\ \A x \in DOMAIN row.f : mid.f[x] = row.f[x]
  <2>1. CASE row.status = "active"
      BY <1>1, <1>2, <2>1, KeptSame DEF RowOK
  <2>2. CASE row.status # "active"
    <3>1. PICK status : status = "active"
        OBVIOUS
    <3>2. status \in Statuses[k] /\ ~ row.status \in FinalStatus(k)
        BY <3>1 DEF Statuses, MembershipStatus, FinalStatus
    <3>3. /\ Rewritten(k, row, Patched(row, NewStatus(status)))
          /\ \A x \in DOMAIN row.f : Patched(row, NewStatus(status)).f[x] = row.f[x]
        BY <1>2, <3>2, NewStatusRow
    <3> QED
        BY <1>1, <2>2, <3>1, <3>3 DEF Rewritten
  <2> QED
      BY <2>1, <2>2
<1>4. {"user", "invitations"} \subseteq DOMAIN row.f /\ {"user", "invitations"} \subseteq DOMAIN mid.f
    BY <1>3 DEF RowOK, Fields
<1>5. mid.f["user"] = row.f["user"] /\ mid.f["invitations"] = row.f["invitations"]
    BY <1>3, <1>4
<1>6. DOMAIN f = DOMAIN mid.f /\ f["user"] = row.f["user"] /\ f["invitations"] = row.f["invitations"] \cup {i}
    BY <1>1, <1>4, <1>5
<1>7. /\ DOMAIN new = DOMAIN mid /\ new.f = f /\ new.status = mid.status
      /\ new.tenant = mid.tenant /\ new.version = mid.version
    BY <1>1, <1>3 DEF RowOK
<1>8. RowOK(k, new)
    BY <1>3, <1>6, <1>7 DEF RowOK
<1>9. Kept(k, row, new)
    BY <1>3, <1>6, <1>7 DEF Kept, FixedFields, FinalStatus
<1> QED
    BY <1>6, <1>7, <1>8, <1>9 DEF Rewritten

\* upsert_invited_organization_membership.
LEMMA UpsertInvitedOrganizationMembershipStep ==
    ASSUME Base, NEW a \in Admins, UpsertInvitedOrganizationMembership(a)
    PROVE  StepOf(a)
<1> DEFINE k == "organization_member"
<1>1. PICK x, i, u, invitation, there, id, changes :
         /\ x = op[a] /\ i = op[a].invitation /\ u = op[a].user /\ invitation = Row("invitation", i)
         /\ there = {m \in Ids(k) : Row(k, m).f.user = u /\ Row(k, m).f.org = invitation.f.org}
         /\ id = IF there = {} THEN Len(db[k]) + 1 ELSE CHOOSE m \in there : TRUE
         /\ changes = [member |-> id, pc |-> IF invitation.f.project = None THEN "defaults"
                                             ELSE "invited_project"]
    OBVIOUS
<1>2. x.pc = "invited_organization" /\ clock' = clock /\ op' = [op EXCEPT ![a] = changes ++ @]
    BY <1>1 DEF UpsertInvitedOrganizationMembership, OnlyDirectory, fixed
<1>3. Ready(a, x) /\ x.route = Accepting /\ x.pc # "accept" /\ AcceptReady(x)
    BY <1>1, <1>2 DEF Base, Ready, InvitePcs
<1>4. u \in Ids("user") /\ AdmittedBy(i, u) /\ i = x.invitation /\ u = x.user
    BY <1>1, <1>3 DEF AcceptReady, AdmittedBy
<1>5. Admits(op[a]) /\ k \in DOMAIN Fields
    BY <1>1, <1>3 DEF Admits, Fields
<1>6. ASSUME there = {}
      PROVE  /\ Grows /\ \A j \in DOMAIN Fields \ {k} : db'[j] = db[j]
             /\ MembersKept(a)
  <2>1. PICK f, row : /\ f = [org |-> invitation.f.org, user |-> u, invitations |-> {i}]
                      /\ row = NewRow(invitation.tenant, f, "active")
      OBVIOUS
  <2>2. AddsRow(k, row)
      BY <1>1, <1>6, <2>1 DEF UpsertInvitedOrganizationMembership, AddsRow
  <2>3. /\ {"tenant", "f", "status", "version"} \subseteq DOMAIN row
        /\ row.f = f /\ row.status = "active" /\ row.version = 1
      BY <2>1, NewRowIs
  <2>4. RowOK(k, row) /\ LinkOK(k, row)
      BY <1>4, <2>1, <2>3 DEF RowOK, LinkOK, Fields, Statuses, MembershipStatus
  <2>5. Grows /\ Adds(k, row)
      BY <1>5, <2>2, <2>4, AddGrows DEF Base
  <2>6. PICK n : n = Len(db[k]) + 1
      OBVIOUS
  <2>7. (\A m \in Ids(k)' : m \in Ids(k) \/ m = n) /\ db'[k][n] = row
    <3>1. Ids(k) = 1 .. Len(db[k]) /\ Ids(k)' = 1 .. Len(db'[k]) /\ Len(db[k]) \in Nat
        BY <1>5, <2>5, IdsGrow DEF Base
    <3> QED
        BY <2>5, <2>6, <3>1 DEF Adds
  <2>8. MembersKept(a)
    <3>1. \A m \in Ids(k) : db'[k][m] = Row(k, m)
        BY <2>5 DEF Adds, Row
    <3>2. row.f["user"] = u /\ row.f["invitations"] = {i}
        BY <2>1, <2>3
    <3> QED
        BY <1>1, <1>5, <2>7, <3>1, <3>2 DEF MembersKept
  <2> QED
      BY <2>5, <2>8 DEF Adds
<1>7. ASSUME there # {}
      PROVE  /\ Grows /\ \A j \in DOMAIN Fields \ {k} : db'[j] = db[j]
             /\ MembersKept(a)
  <2>1. PICK table : table = [m \in Ids(k) |->
                                IF m \in there
                                THEN [(IF Row(k, m).status = "active" THEN Row(k, m)
                                       ELSE Patched(Row(k, m), NewStatus("active")))
                                        EXCEPT !.f.invitations = @ \cup {i}]
                                ELSE Row(k, m)]
      OBVIOUS
  <2>2. db' = [db EXCEPT ![k] = table]
      BY <1>1, <1>7, <2>1 DEF UpsertInvitedOrganizationMembership, Replaced
  <2>3. SetsTable(k, table)
      BY <2>1, <2>2 DEF SetsTable
  <2>4. ASSUME NEW m \in Ids(k), m \in there
        PROVE  /\ Rewritten(k, db[k][m], table[m]) /\ table[m].f["user"] = u
               /\ table[m].f["invitations"] = db[k][m].f["invitations"] \cup {i}
    <3>1. PICK row, new : row = db[k][m] /\ new = table[m]
        OBVIOUS
    <3>2. LetsIn(row, i, new)
        BY <2>1, <2>4, <3>1 DEF Row, LetsIn
    <3>3. RowOK(k, row) /\ LinkOK(k, row) /\ row.f.user = u
        BY <1>1, <1>5, <2>4, <3>1 DEF Base, DbOK, Row
    <3>4. AdmittedBy(i, row.f.user) /\ \A j \in row.f.invitations : AdmittedBy(j, row.f.user)
        BY <1>4, <3>3 DEF LinkOK
    <3>5. /\ Rewritten(k, row, new)
          /\ new.f["user"] = row.f["user"] /\ new.f["invitations"] = row.f["invitations"] \cup {i}
        BY <3>2, <3>3, <3>4, InvitedRow
    <3> QED
        BY <3>1, <3>3, <3>5
  <2>5. \A m \in Ids(k) \ there : table[m] = db[k][m]
      BY <2>1 DEF Row
  <2>6. Grows /\ Rewrites(k) /\ db'[k] = table
      BY <1>5, <2>3, <2>4, <2>5, RewriteGrows DEF Base
  <2>7. Ids(k)' = Ids(k)
      BY <2>6 DEF Rewrites, Ids
  <2>8. MembersKept(a)
    <3> SUFFICES ASSUME NEW m \in Ids(k), NEW j \in db'[k][m].f["invitations"]
                 PROVE  \/ j \in Row(k, m).f["invitations"]
                        \/ j = i /\ db'[k][m].f["user"] = u
        BY <1>1, <1>5, <2>7 DEF MembersKept
    <3> QED
        BY <2>4, <2>5, <2>6 DEF Row
  <2> QED
      BY <2>6, <2>8 DEF Rewrites
<1>8. /\ db'["session"] = db["session"] /\ db'["failed_auth"] = db["failed_auth"]
      /\ db'["user"] = db["user"] /\ Grows /\ MembersKept(a)
    BY <1>6, <1>7 DEF Fields
<1>9. /\ DOMAIN changes = {"member", "pc"} /\ changes.pc \in {"invited_project", "defaults"}
    BY <1>1
<1>10. /\ DOMAIN op' = Admins /\ \A b \in Admins \ {a} : Same(op[b], op'[b])
       /\ Takes(op[a], op'[a], DOMAIN changes) /\ DOMAIN changes \subseteq DOMAIN op'[a]
       /\ \A f \in DOMAIN changes : op'[a][f] = changes[f]
    BY <1>2, OpChanges
<1>11. PICK y : y = op'[a]
    OBVIOUS
<1>12. /\ Takes(x, y, {"member", "pc"}) /\ {"member", "pc"} \subseteq DOMAIN y
       /\ y.pc \in {"invited_project", "defaults"}
    BY <1>1, <1>9, <1>10, <1>11
<1>13. Ready(a, y) /\ Onward(x, y)
    BY <1>3, <1>12, InviteGoesOn
<1>14. \A v \in Ids("user") : AcceptsAccess("user", v) => db'["user"][v].status = "active"
    BY <1>8 DEF AcceptsAccess, Row
<1> QED
    BY <1>1, <1>2, <1>8, <1>10, <1>11, <1>13, <1>14, QuietWrite

-----------------------------------------------------------------------------
(* API keys                                                                *)

\* Failures are forgotten.
Forgets(ids, table) ==
    table = [i \in Ids("failed_auth") |->
               IF i \in ids THEN [Row("failed_auth", i) EXCEPT !.status = "deleted"]
               ELSE Row("failed_auth", i)]
\* Forgetting the failures of a prefix leaves a table.
LEMMA ForgetTable ==
    ASSUME Base, NEW ids, NEW table, Forgets(ids, table)
    PROVE  /\ table = [i \in Ids("failed_auth") |-> table[i]]
           /\ \A i \in Ids("failed_auth") :
                /\ \/ table[i] = db["failed_auth"][i]
                   \/ Rewritten("failed_auth", db["failed_auth"][i], table[i])
                /\ table[i].status = "active" => Row("failed_auth", i).status = "active"
<1> DEFINE k == "failed_auth"
<1>1. /\ table = [i \in Ids(k) |-> table[i]]
      /\ \A i \in Ids(k) \ ids : table[i] = db[k][i]
      /\ \A i \in Ids(k) \cap ids : table[i] = [db[k][i] EXCEPT !.status = "deleted"]
    BY DEF Forgets, Row
<1>2. ASSUME NEW i \in Ids(k) \cap ids
      PROVE  Rewritten(k, db[k][i], table[i]) /\ table[i].status = "deleted"
  <2>1. PICK row, new, status : row = db[k][i] /\ new = table[i] /\ status = "deleted"
      OBVIOUS
  <2>2. new = [row EXCEPT !.status = status] /\ RowOK(k, row) /\ k \in DOMAIN Fields
      BY <1>1, <2>1 DEF Base, DbOK, Fields
  <2>3. Rewritten(k, row, new) /\ new.status = status
      BY <2>2, StatusOnlyRow DEF Statuses, FinalStatus
  <2> QED
      BY <2>1, <2>3
<1> QED
    BY <1>1, <1>2 DEF Row

\* Forgetting failures is a rewriting of that table.
LEMMA ForgetGrows ==
    ASSUME Base, NEW ids, NEW table, Forgets(ids, table), db' = [db EXCEPT !["failed_auth"] = table]
    PROVE  Grows /\ Rewrites("failed_auth") /\ FailuresKept
<1> DEFINE k == "failed_auth"
<1>1. /\ table = [i \in Ids(k) |-> table[i]]
      /\ \A i \in Ids(k) :
           /\ table[i] = db[k][i] \/ Rewritten(k, db[k][i], table[i])
           /\ table[i].status = "active" => Row(k, i).status = "active"
    BY ForgetTable
<1>2. SetsTable(k, table) /\ k \in DOMAIN Fields
    BY <1>1 DEF SetsTable, Fields
<1>3. Grows /\ Rewrites(k) /\ db'[k] = table
    BY <1>1, <1>2, RewriteGrows DEF Base
<1> QED
    BY <1>1, <1>3 DEF FailuresKept

\* Failures are forgotten, and one is added.
LEMMA FailureAdded ==
    ASSUME Base, NEW ids, NEW table, Forgets(ids, table), NEW row, RowOK("failed_auth", row),
           db' = [db EXCEPT !["failed_auth"] = Append(table, row)]
    PROVE  /\ Grows /\ FailuresKept
           /\ \A j \in DOMAIN Fields \ {"failed_auth"} : db'[j] = db[j]
           /\ Len(db'["failed_auth"]) = Len(db["failed_auth"]) + 1
           /\ db'["failed_auth"][Len(db["failed_auth"]) + 1] = row
<1> DEFINE k == "failed_auth"
<1>1. /\ table = [i \in Ids(k) |-> table[i]]
      /\ \A i \in Ids(k) :
           /\ table[i] = db[k][i] \/ Rewritten(k, db[k][i], table[i])
           /\ table[i].status = "active" => Row(k, i).status = "active"
    BY ForgetTable
<1>2. k \in DOMAIN Fields /\ Ids(k) = 1 .. Len(db[k]) /\ Len(db[k]) \in Nat
    BY IdsAre DEF Base, Fields
<1>3. IsTable(table) /\ Len(table) = Len(db[k])
    BY <1>1, <1>2, TableOfIds
<1>4. /\ DOMAIN db' = Kinds /\ db'[k] = Append(table, row)
      /\ \A j \in DOMAIN Fields \ {k} : db'[j] = db[j]
    BY KindsKnown DEF Base, DbOK, Fields
<1>5. /\ IsTable(db'[k]) /\ Len(db'[k]) = Len(db[k]) + 1
      /\ \A i \in Ids(k) : db'[k][i] = table[i]
      /\ db'[k][Len(db[k]) + 1] = row
    BY <1>2, <1>3, <1>4, AppendTable
<1>6. \A j \in DOMAIN Fields : IsTable(db'[j]) /\ Len(db[j]) \in Nat /\ Len(db[j]) <= Len(db'[j])
  <2>1. ASSUME NEW j \in DOMAIN Fields
        PROVE  IsTable(db'[j]) /\ Len(db[j]) \in Nat /\ Len(db[j]) <= Len(db'[j])
    <3>1. IsTable(db[j]) /\ Len(db[j]) \in Nat
        BY IdsAre DEF Base, DbOK
    <3>2. CASE j = k
        BY <1>2, <1>5, <3>1, <3>2
    <3>3. CASE j # k
        BY <1>4, <3>1, <3>3
    <3> QED
        BY <3>2, <3>3
  <2> QED
      BY <2>1
<1>7. \A j \in DOMAIN Fields : \A i \in Ids(j) : Kept(j, db[j][i], db'[j][i])
  <2>1. ASSUME NEW j \in DOMAIN Fields, NEW i \in Ids(j) PROVE Kept(j, db[j][i], db'[j][i])
    <3>1. CASE db'[j][i] = db[j][i]
        BY <3>1, KeptSame DEF Base, DbOK, RowOK
    <3>2. CASE db'[j][i] # db[j][i]
      <4>1. j = k
          BY <1>4, <3>2
      <4> QED
          BY <1>1, <1>5, <3>2, <4>1 DEF Rewritten
    <3> QED
        BY <3>1, <3>2
  <2> QED
      BY <2>1
<1>8. ASSUME NEW j \in DOMAIN Fields, NEW i \in 1 .. Len(db'[j])
      PROVE  RowOK(j, db'[j][i]) /\ LinkOK(j, db[j][i])'
  <2>1. PICK new : new = db'[j][i]
      OBVIOUS
  <2>2. RowOK(j, new) /\ LinkOK(j, new)
    <3>1. CASE j # k
        BY <1>4, <2>1, <3>1 DEF Base, DbOK, Ids
    <3>2. CASE j = k
      <4>1. LinkOK(j, new)
          BY <3>2 DEF LinkOK
      <4>2. CASE i \in Ids(k)
          BY <1>1, <1>5, <2>1, <3>2, <4>1, <4>2 DEF Base, DbOK, Rewritten
      <4>3. CASE i \notin Ids(k)
          BY <1>2, <1>5, <2>1, <3>2, <4>1, <4>3
      <4> QED
          BY <4>2, <4>3
    <3> QED
        BY <3>1, <3>2
  <2>3. LinkOK(j, new)'
      BY <1>6, <1>7, <2>2, LinksLast DEF Base
  <2> QED
      BY <2>1, <2>2, <2>3, LinkThen
<1>9. DbOK'
    BY <1>4, <1>6, <1>8 DEF DbOK, RowOK, Ids
<1>10. FailuresKept
    BY <1>1, <1>5 DEF FailuresKept
<1> QED
    BY <1>4, <1>5, <1>6, <1>7, <1>9, <1>10 DEF Grows

\* A step of verify_api_key, which touches nothing but failures.
LEMMA KeyMoves ==
    ASSUME Base, NEW a \in Admins, Acts(a), op'[a].route \notin {Accepting, Callback},
           op'[a].pc # "persist_memory", op[a].pc # "revoke_sessions", ThrottleStep(a),
           \A j \in DOMAIN Fields \ {"failed_auth"} : db'[j] = db[j]
    PROVE  StepOf(a)
<1>1. /\ db'["session"] = db["session"] /\ db'["user"] = db["user"]
      /\ db'["organization_member"] = db["organization_member"]
    BY DEF Fields
<1>2. Ids("session")' = Ids("session")
    BY <1>1 DEF Ids
<1>3. LoginStep(a)
    BY <1>2 DEF LoginStep, LogsIn
<1>4. InviteStep(a)
    BY <1>1, MembersUntouched DEF InviteStep, Admits
<1>5. StoreStep(a)
    BY <1>1 DEF StoreStep, Stores, Row
<1>6. SignStep(a)
    BY <1>1, <1>2 DEF SignStep, SigningOut, Exposed, AcceptsAccess, Row
<1> QED
    BY <1>3, <1>4, <1>5, <1>6 DEF StepOf

\* verify_api_key is a step of its request.
LEMMA VerifyApiKeyStep ==
    ASSUME Base, NEW a \in Admins, VerifyApiKey(a)
    PROVE  StepOf(a)
<1> DEFINE k == "failed_auth"
<1>1. PICK id \in Ids("api_key"), genuine \in BOOLEAN :
         \E secret \in 1 .. Row("api_key", id).version :
           /\ db' = Forget(Failures(<<id, secret>>) \ Fresh(<<id, secret>>, clock))
           /\ op' = IF FailedAuthAllowed(<<id, secret>>, clock)
                    THEN [op EXCEPT ![a] =
                            [pc |-> "candidates", route |-> "verify_api_key", at |-> clock,
                             prefix |-> <<id, secret>>, genuine |-> genuine, key |-> NoKey,
                             scope |-> << >>, wrote |-> << >>]]
                    ELSE op
    BY DEF VerifyApiKey
<1>2. PICK secret \in 1 .. Row("api_key", id).version :
           /\ db' = Forget(Failures(<<id, secret>>) \ Fresh(<<id, secret>>, clock))
           /\ op' = IF FailedAuthAllowed(<<id, secret>>, clock)
                    THEN [op EXCEPT ![a] =
                            [pc |-> "candidates", route |-> "verify_api_key", at |-> clock,
                             prefix |-> <<id, secret>>, genuine |-> genuine, key |-> NoKey,
                             scope |-> << >>, wrote |-> << >>]]
                    ELSE op
    BY <1>1
<1>3. PICK prefix, ids, table :
         /\ prefix = <<id, secret>> /\ ids = Failures(prefix) \ Fresh(prefix, clock)
         /\ table = [i \in Ids(k) |-> IF i \in ids THEN [Row(k, i) EXCEPT !.status = "deleted"]
                                      ELSE Row(k, i)]
    OBVIOUS
<1>4. Forgets(ids, table) /\ db' = [db EXCEPT ![k] = table]
    BY <1>2, <1>3 DEF Forgets, Forget, Replaced
<1>5. Grows /\ Rewrites(k) /\ FailuresKept
    BY <1>4, ForgetGrows
<1>6. Ids(k)' = Ids(k)
    BY <1>5 DEF Rewrites, Ids
<1>7. op[a] = NoOp /\ op[a].pc # "revoke_sessions" /\ clock' = clock
    BY DEF VerifyApiKey, Calling, NoOp, OnlyDirectory, fixed
<1>8. CASE FailedAuthAllowed(prefix, clock)
  <2>1. PICK y : y = [pc |-> "candidates", route |-> "verify_api_key", at |-> clock,
                      prefix |-> prefix, genuine |-> genuine, key |-> NoKey,
                      scope |-> << >>, wrote |-> << >>]
      OBVIOUS
  <2>2. op' = [op EXCEPT ![a] = y]
      BY <1>2, <1>3, <1>8, <2>1
  <2>3. /\ DOMAIN op' = Admins /\ op'[a] = y /\ \A b \in Admins \ {a} : Same(op[b], op'[b])
      BY <2>2, OpSet
  <2>4. /\ {"pc", "route", "at", "prefix", "genuine"} \subseteq DOMAIN y /\ y.pc = "candidates"
        /\ y.route = "verify_api_key" /\ y.at = clock /\ y.prefix = prefix
      BY <2>1
  <2>5. prefix[1] = id /\ clock \in Nat
      BY <1>3 DEF Base
  <2>6. Ready(a, y)
      BY <2>4, <2>5
         DEF Ready, AdminPcs, SessionPcs, LoginPcs, InvitePcs, KeyPcs, Callback, Accepting
  <2>7. Ready(a, y)'
      BY <1>5, <1>7, <2>6, ReadyLasts DEF Base
  <2>8. Acts(a)
      BY <1>5, <1>7, <2>3, <2>7, ActsBy
  <2>9. ThrottleStep(a)
      BY <1>5, <1>6, <1>8, <2>3, <2>4 DEF ThrottleStep
  <2>10. op'[a].route \notin {Accepting, Callback} /\ op'[a].pc # "persist_memory"
      BY <2>3, <2>4 DEF Accepting, Callback
  <2> QED
      BY <1>5, <1>7, <2>8, <2>9, <2>10, KeyMoves DEF Rewrites
<1>9. CASE ~ FailedAuthAllowed(prefix, clock)
  <2>1. op' = op /\ op'[a] = NoOp
      BY <1>2, <1>3, <1>7, <1>9
  <2>2. DOMAIN op' = Admins /\ \A b \in Admins \ {a} : Same(op[b], op'[b])
      BY <2>1 DEF Same, Base
  <2>3. Ready(a, NoOp)
      BY NoOpReady
  <2>4. Ready(a, NoOp)'
      BY <1>5, <1>7, <2>3, ReadyLasts DEF Base
  <2>5. Acts(a)
      BY <1>5, <1>7, <2>1, <2>2, <2>4, ActsBy
  <2>6. ThrottleStep(a)
      BY <1>5, <1>6, <2>1 DEF ThrottleStep, Verifies, NoOp
  <2>7. op'[a].route \notin {Accepting, Callback} /\ op'[a].pc # "persist_memory"
      BY <2>1 DEF Accepting, Callback, NoOp
  <2> QED
      BY <1>5, <1>7, <2>5, <2>6, <2>7, KeyMoves DEF Rewrites
<1> QED
    BY <1>8, <1>9

\* verify_secret is a step of its request.
LEMMA VerifySecretStep ==
    ASSUME Base, NEW a \in Admins, VerifySecret(a)
    PROVE  StepOf(a)
<1>1. PICK pc : op' = [op EXCEPT ![a].pc = pc] /\ pc \in {"last_used", "failed"}
    BY DEF VerifySecret
<1>2. op[a].pc = "candidates" /\ db' = db /\ clock' = clock
    BY DEF VerifySecret, OnlyDirectory, fixed
<1>3. /\ DOMAIN op' = Admins /\ \A b \in Admins \ {a} : Same(op[b], op'[b])
      /\ Takes(op[a], op'[a], {"pc"}) /\ op'[a].pc = pc
    BY <1>1, OpProceeds
<1>4. PICK x, y : x = op[a] /\ y = op'[a]
    OBVIOUS
<1>5. Ready(a, x) /\ x.pc = "candidates" /\ Takes(x, y, {"pc"}) /\ y.pc = pc
    BY <1>2, <1>3, <1>4 DEF Base
<1>6. /\ {"prefix", "at", "genuine"} \subseteq DOMAIN x /\ x.route = "verify_api_key"
      /\ x.at \in Nat /\ x.at <= clock /\ x.prefix[1] \in Ids("api_key")
    BY <1>5 DEF Ready, KeyPcs
<1>7. /\ {"pc", "route", "prefix", "at", "genuine"} \subseteq DOMAIN y /\ y.route = x.route
      /\ y.prefix = x.prefix /\ y.at = x.at
    BY <1>5, <1>6 DEF Takes, Ready
<1>8. Ready(a, y)
    BY <1>1, <1>5, <1>6, <1>7
       DEF Ready, AdminPcs, SessionPcs, LoginPcs, InvitePcs, KeyPcs, Callback, Accepting
<1>9. Onward(x, y)
    BY <1>1, <1>5, <1>6, <1>7
       DEF Onward, LogsIn, Admits, Stores, Verifies, Callback, Accepting
<1>10. \A u : ~ SigningOut(op[a], u)
    BY <1>2 DEF SigningOut
<1> QED
    BY <1>2, <1>3, <1>4, <1>8, <1>9, <1>10, QuietMove

\* record_api_key_failed_auth is a step of its request.
LEMMA RecordApiKeyFailedAuthStep ==
    ASSUME Base, NEW a \in Admins, RecordApiKeyFailedAuth(a)
    PROVE  StepOf(a)
<1> DEFINE k == "failed_auth"
<1>1. PICK prefix, at, ids, table, f, row :
         /\ prefix = op[a].prefix /\ at = op[a].at /\ ids = Failures(prefix) \ Fresh(prefix, at)
         /\ table = [i \in Ids(k) |-> IF i \in ids THEN [Row(k, i) EXCEPT !.status = "deleted"]
                                      ELSE Row(k, i)]
         /\ f = [prefix |-> prefix, at |-> at] /\ row = NewRow(None, f, "active")
    OBVIOUS
<1>2. op[a].pc = "failed" /\ clock' = clock /\ op' = [op EXCEPT ![a] = NoOp]
    BY DEF RecordApiKeyFailedAuth, OnlyDirectory, fixed, Ends
<1>3. PICK kept : /\ kept = [db EXCEPT ![k] = table]
                  /\ db' = [kept EXCEPT ![k] = Append(@, row)]
    BY <1>1 DEF RecordApiKeyFailedAuth, Forget, Replaced
<1>4. db' = [db EXCEPT ![k] = Append(table, row)]
  <2>1. k \in DOMAIN db
      BY KindsKnown DEF Base, DbOK, Fields
  <2>2. kept[k] = table
      BY <1>3, <2>1
  <2> QED
      BY <1>3, <2>1, <2>2
<1>5. Forgets(ids, table)
    BY <1>1 DEF Forgets
<1>6. /\ {"tenant", "f", "status", "version"} \subseteq DOMAIN row
      /\ row.f = f /\ row.status = "active" /\ row.version = 1
    BY <1>1, NewRowIs
<1>7. at \in Nat /\ DOMAIN f = {"prefix", "at"} /\ f.at = at /\ f.prefix = prefix
    BY <1>1, <1>2 DEF Base, Ready, KeyPcs
<1>8. RowOK(k, row)
    BY <1>6, <1>7 DEF RowOK, Fields, Statuses
<1>9. /\ Grows /\ FailuresKept
      /\ \A j \in DOMAIN Fields \ {k} : db'[j] = db[j]
      /\ Len(db'[k]) = Len(db[k]) + 1 /\ db'[k][Len(db[k]) + 1] = row
    BY <1>4, <1>5, <1>8, FailureAdded
<1>10. /\ DOMAIN op' = Admins /\ op'[a] = NoOp /\ \A b \in Admins \ {a} : Same(op[b], op'[b])
    BY <1>2, OpSet
<1>11. Ready(a, NoOp)
    BY NoOpReady
<1>12. Ready(a, NoOp)'
    BY <1>2, <1>9, <1>11, ReadyLasts DEF Base
<1>13. Acts(a)
    BY <1>2, <1>9, <1>10, <1>12, ActsBy
<1>14. Verifies(op[a]) /\ ~ Verifies(op'[a])
    BY <1>2, <1>10 DEF Verifies, NoOp
<1>15. ThrottleStep(a)
    BY <1>1, <1>6, <1>7, <1>9, <1>14 DEF ThrottleStep
<1>16. /\ op'[a].route \notin {Accepting, Callback} /\ op'[a].pc # "persist_memory"
       /\ op[a].pc # "revoke_sessions"
    BY <1>2, <1>10 DEF Accepting, Callback, NoOp
<1> QED
    BY <1>9, <1>13, <1>15, <1>16, KeyMoves

\* record_api_key_last_used is a step of its request.
LEMMA RecordApiKeyLastUsedStep ==
    ASSUME Base, NEW a \in Admins, RecordApiKeyLastUsed(a)
    PROVE  StepOf(a)
<1> DEFINE k == "failed_auth"
<1>1. PICK ids, table :
         /\ ids = Failures(op[a].prefix)
         /\ table = [i \in Ids(k) |-> IF i \in ids THEN [Row(k, i) EXCEPT !.status = "deleted"]
                                      ELSE Row(k, i)]
    OBVIOUS
<1>2. op[a].pc = "last_used" /\ clock' = clock /\ op' = [op EXCEPT ![a] = NoOp]
    BY DEF RecordApiKeyLastUsed, fixed, Ends
<1>3. Forgets(ids, table) /\ db' = [db EXCEPT ![k] = table]
    BY <1>1 DEF RecordApiKeyLastUsed, Forgets, Forget, Replaced
<1>4. Grows /\ Rewrites(k) /\ FailuresKept
    BY <1>3, ForgetGrows
<1>5. Ids(k)' = Ids(k)
    BY <1>4 DEF Rewrites, Ids
<1>6. /\ DOMAIN op' = Admins /\ op'[a] = NoOp /\ \A b \in Admins \ {a} : Same(op[b], op'[b])
    BY <1>2, OpSet
<1>7. Ready(a, NoOp)
    BY NoOpReady
<1>8. Ready(a, NoOp)'
    BY <1>2, <1>4, <1>7, ReadyLasts DEF Base
<1>9. Acts(a)
    BY <1>2, <1>4, <1>6, <1>8, ActsBy
<1>10. ThrottleStep(a)
    BY <1>4, <1>5, <1>6 DEF ThrottleStep, Verifies, NoOp
<1>11. /\ op'[a].route \notin {Accepting, Callback} /\ op'[a].pc # "persist_memory"
       /\ op[a].pc # "revoke_sessions"
    BY <1>2, <1>6 DEF Accepting, Callback, NoOp
<1> QED
    BY <1>4, <1>9, <1>10, <1>11, KeyMoves DEF Rewrites

-----------------------------------------------------------------------------
(* The specification                                                       *)

\* A request of an admin of the directory.
LEMMA DirectoryStep ==
    ASSUME Base, NEW a \in Admins, DirectoryNext(a)
    PROVE  StepOf(a)
BY DirectoryReads, StatusUpdates, StatusWrites, Inserts, UpdateUserStep,
   UpdateOrganizationMemberStep, RevokeOrganizationInvitationStep, RevokeUserSessionStep,
   UnlinkUserExternalIdentityStep, CreateProjectMemberStep, RotateApiKeyAdminStep,
   DisableApiKeyAdminStep, CreateServiceAccountStep, CreateApiKeyAdminStep,
   CreateOrganizationInvitationStep, RevokeInvitationStep, UnlinkExternalIdentityStep,
   RevokeSessionForPrincipalStep, RevokeSessionsForPrincipalStep, CascadeProjectMembershipsStep,
   CreateProjectMembershipStep, ReplaceApiKeySecretStep, UpdateApiKeyStatusStep, InsertApiKeyStep
   DEF DirectoryNext

\* A request of anybody else.
LEMMA LoginNextStep ==
    ASSUME Base, StoreInv, NEW a \in Admins, LoginNext(a)
    PROVE  StepOf(a)
BY LoginReads, SessionMoves, FinishStep, LogoutCurrentAuthSessionStep,
   CompleteAuthLoginProviderCallbackStep, SingleUserLoginStep, AcceptAuthInvitationStep,
   RevokeAuthSessionPostgresStep, RevokeSessionByHashStep, UpdateSessionActiveContextStep,
   UpdateUserDefaultContextStep, RepairUserDefaultsStep, PersistPostgresSessionStep,
   InsertAuthSessionStep, StartAuthLoginProviderStep, ConsumeLoginAttemptStep,
   ExternalLoginCallbackClaimsStep, UpdateExistingExternalIdentityStep, InsertLoginUserStep,
   InsertLoginIdentityStep, AcceptOrganizationInvitationStep, UpsertInvitedProjectMembershipStep,
   UpsertInvitedOrganizationMembershipStep, VerifyApiKeyStep, VerifySecretStep,
   RecordApiKeyFailedAuthStep, RecordApiKeyLastUsedStep
   DEF LoginNext

\* Every step but the clock's is a request's.
LEMMA NextIs ==
    ASSUME Inv, Next
    PROVE  Tick \/ \E a \in Admins : StepOf(a)
BY DirectoryStep, LoginNextStep, FinishStep DEF Next, Inv

\* The invariant is inductive.
LEMMA NextInv ==
    ASSUME Inv, [Next]_vars
    PROVE  Inv'
<1>1. CASE Next
    BY <1>1, NextIs, StepInv, TickInv
<1>2. CASE UNCHANGED vars
  <2>1. db' = db /\ op' = op /\ clock' = clock /\ clock \in Nat
      BY <1>2 DEF vars, Inv, Base
  <2>2. Grows
      BY <2>1, SameGrows DEF Inv, Base
  <2>3. ASSUME NEW b \in Admins PROVE Ready(b, op[b])'
    <3>1. PICK x : x = op[b]
        OBVIOUS
    <3>2. Ready(b, x)'
        BY <2>1, <2>2, <3>1, ReadyLasts DEF Inv, Base
    <3> QED
        BY <2>1, <3>1, <3>2
        DEF Ready, WriteReady, InsertReady, LoginReady, PersistReady, AcceptReady, Names
  <2>4. Base'
      BY <2>1, <2>2, <2>3 DEF Inv, Base, Grows, Ids
  <2>5. LoginInv' /\ StoreInv'
      BY <2>1 DEF Inv, LoginInv, StoreInv, Ids, Row, LogsIn, Stores
  <2>6. InviteInv'
    <3>1. \A i : Admitted(i)' = Admitted(i)
        BY <2>1 DEF Admitted, Ids, Row, InFlight
    <3> QED
        BY <2>1, <3>1 DEF Inv, InviteInv, Ids
  <2>7. SignInv'
      BY <2>1 DEF Inv, SignInv, Exposed, AcceptsAccess, Ids, Row, SigningOut
  <2>8. ThrottleInv'
      BY <2>1 DEF Inv, ThrottleInv, Throttled, Fresh, Failures, Past, Verifies, Ids, Row
  <2> QED
      BY <2>4, <2>5, <2>6, <2>7, <2>8 DEF Inv
<1> QED
    BY <1>1, <1>2

\* The rows at the start.
LEMMA SeedRows ==
    ASSUME NEW k \in DOMAIN Fields, NEW i \in DOMAIN Seed[k], NEW row, row = Seed[k][i]
    PROVE  /\ row = NewRow(row.tenant, row.f, row.status) /\ Fields[k] \subseteq DOMAIN row.f
           /\ k \in DOMAIN Statuses => row.status \in Statuses[k]
BY Zenon, SeedAssumption

\* The sessions at the start.
LEMMA SeedSessions ==
    ASSUME NEW i \in DOMAIN Seed["session"], NEW row, row = Seed["session"][i]
    PROVE  /\ row.f.user \in DOMAIN Seed["user"]
           /\ row.tenant = Seed["user"][row.f.user].tenant
           /\ row.f.attempt = None /\ row.f.durable \in {"none", "active", "revoked"}
BY Zenon, SeedAssumption

\* The API keys at the start.
LEMMA SeedKeys ==
    ASSUME NEW i \in DOMAIN Seed["api_key"], NEW row, row = Seed["api_key"][i]
    PROVE  row.f.secret = 1
BY Zenon, SeedAssumption

\* The memberships at the start.
LEMMA SeedMembers ==
    ASSUME NEW i \in DOMAIN Seed["organization_member"], NEW row, row = Seed["organization_member"][i]
    PROVE  row.f.user \in DOMAIN Seed["user"] /\ row.f.invitations = {}
BY Zenon, SeedAssumption

\* The store at the start is well formed.
LEMMA InitDb ==
    ASSUME AdminInit
    PROVE  DbOK
<1>1. db = Seed /\ DOMAIN db = Kinds
    BY DEF AdminInit, Kinds
<1>2. ASSUME NEW k \in DOMAIN Fields PROVE IsTable(db[k]) /\ Ids(k) = DOMAIN Seed[k]
  <2>1. IsTable(db[k])
      BY <1>1, SeedAssumption DEF IsTable
  <2> QED
      BY <1>1, <2>1, TableIds DEF Ids
<1>3. ASSUME NEW k \in DOMAIN Fields, NEW i \in Ids(k) PROVE RowOK(k, db[k][i]) /\ LinkOK(k, db[k][i])
  <2>1. PICK row : row = Seed[k][i]
      OBVIOUS
  <2>2. i \in DOMAIN Seed[k] /\ row = db[k][i]
      BY <1>1, <1>2, <2>1
  <2>3. /\ row = NewRow(row.tenant, row.f, row.status) /\ Fields[k] \subseteq DOMAIN row.f
        /\ k \in DOMAIN Statuses => row.status \in Statuses[k]
      BY <2>1, <2>2, SeedRows
  <2>4. {"tenant", "f", "status", "version"} \subseteq DOMAIN row /\ row.version = 1
      BY <2>3 DEF NewRow
  <2>5. k # "login_attempt" /\ k # "failed_auth"
      BY <2>2, SeedAssumption
  <2>6. ASSUME k = "api_key" PROVE row.f.secret = 1
    <3>1. i \in DOMAIN Seed["api_key"] /\ row = Seed["api_key"][i]
        BY <2>1, <2>2, <2>6
    <3> QED
        BY <3>1, SeedKeys
  <2>7. ASSUME k = "session"
        PROVE  /\ row.f.user \in DOMAIN Seed["user"]
               /\ row.tenant = Seed["user"][row.f.user].tenant
               /\ row.f.attempt = None /\ row.f.durable \in {"none", "active", "revoked"}
    <3>1. i \in DOMAIN Seed["session"] /\ row = Seed["session"][i]
        BY <2>1, <2>2, <2>7
    <3> QED
        BY <3>1, SeedSessions
  <2>8. RowOK(k, row)
      BY <2>3, <2>4, <2>5, <2>6, <2>7 DEF RowOK
  <2>9. Ids("user") = DOMAIN Seed["user"] /\ Ids("login_provider") = DOMAIN Seed["login_provider"]
      BY <1>2 DEF Fields
  <2>10. k = "session" => UserSession(row)
      BY <1>1, <2>7, <2>9 DEF UserSession, Row
  <2>11. k = "external_identity" =>
            /\ row.f.user \in Ids("user") /\ row.f.provider \in Ids("login_provider")
            /\ Row("user", row.f.user).tenant = Row("login_provider", row.f.provider).tenant
      BY <1>1, <2>1, <2>2, <2>9, SeedAssumption DEF Row
  <2>12. k = "organization_member" => row.f.user \in Ids("user") /\ row.f.invitations = {}
      BY <2>1, <2>2, <2>9, SeedMembers
  <2>13. LinkOK(k, row)
      BY <2>5, <2>10, <2>11, <2>12 DEF LinkOK
  <2> QED
      BY <2>2, <2>8, <2>13
<1> QED
    BY <1>1, <1>2, <1>3 DEF DbOK

\* The invariant holds at the start.
LEMMA InitInv ==
    ASSUME AdminInit
    PROVE  Inv
<1>1. DbOK /\ db = Seed /\ clock = 0 /\ op = [a \in Admins |-> NoOp]
    BY InitDb DEF AdminInit
<1>2. \A k \in DOMAIN Fields : Ids(k) = DOMAIN Seed[k]
    BY <1>1, IdsAre
<1>3. {"user", "session", "organization_member", "failed_auth"} \subseteq DOMAIN Fields
    BY DEF Fields
<1>4. \A a \in Admins : op[a] = NoOp /\ Ready(a, op[a])
    BY <1>1, NoOpReady
<1>5. Base
    BY <1>1, <1>2, <1>3, <1>4, LoginAssumption DEF Base
<1>6. \A a \in Admins : /\ ~ LogsIn(op[a]) /\ ~ Admits(op[a]) /\ ~ Stores(op[a]) /\ ~ Verifies(op[a])
    BY <1>4 DEF LogsIn, Admits, Stores, Verifies, NoOp, Callback, Accepting
<1>7. LoginInv
  <2>1. \A s \in Ids("session") : Row("session", s).f.attempt = None
      BY <1>1, <1>2, <1>3, SeedAssumption DEF Row
  <2> QED
      BY <1>6, <2>1 DEF LoginInv
<1>8. InviteInv
  <2>1. \A m \in Ids("organization_member") : Row("organization_member", m).f.invitations = {}
      BY <1>1, <1>2, <1>3, SeedAssumption DEF Row
  <2>2. InFlight = {}
      BY <1>4 DEF InFlight
  <2>3. \A i : Admitted(i) = {}
      BY <2>1, <2>2 DEF Admitted
  <2> QED
      BY <2>3 DEF InviteInv
<1>9. SignInv
  <2>1. ASSUME NEW s \in Ids("session") PROVE ~ Exposed(s)
      BY <1>1, <1>2, <1>3, SeedAssumption DEF Exposed, AcceptsAccess, Row
  <2> QED
      BY <2>1 DEF SignInv
<1>10. StoreInv
    BY <1>6 DEF StoreInv
<1>11. ASSUME NEW p PROVE Throttled(p)
  <2>1. Fresh(p, clock) = {}
    <3>1. Ids("failed_auth") = {}
        BY <1>2, <1>3, SeedAssumption
    <3> QED
        BY <3>1 DEF Fresh, Failures
  <2>2. Past(p) = {}
      BY <1>6 DEF Past
  <2>3. Cardinality({}) = 0
      BY FS_EmptySet
  <2>4. Cardinality(Admins) \in Nat
      BY PastFinite
  <2> QED
      BY <2>1, <2>2, <2>3, <2>4, LoginAssumption DEF Throttled
<1> QED
    BY <1>5, <1>7, <1>8, <1>9, <1>10, <1>11 DEF Inv, ThrottleInv

\* The invariant holds throughout.
THEOREM IdentityInvariant == Spec => []Inv
<1>1. AdminInit => Inv
    BY InitInv
<1>2. Inv /\ [Next]_vars => Inv'
    BY NextInv
<1> QED
    BY <1>1, <1>2, PTL DEF Spec

\* Every row stays in a status of its kind: no create, update, cascade or revocation
\* of the directory and of the login handlers leaves another.
THEOREM IdentityTypes == Spec => []TypeOK
<1>1. Inv => TypeOK
  <2> SUFFICES ASSUME Inv PROVE TypeOK
      OBVIOUS
  <2>1. \A k \in DOMAIN Fields : \A i \in Ids(k) : RowOK(k, db[k][i])
      BY DEF Inv, Base, DbOK
  <2>2. \A k \in DOMAIN Statuses : \A row \in Rows(k) : row.status \in Statuses[k]
      BY <2>1, KindsKnown DEF Rows, RowOK
  <2>3. \A row \in Rows("session") : row.f.durable \in {"none", "active", "revoked"}
    <3>1. "session" \in DOMAIN Fields
        BY DEF Fields
    <3> QED
        BY <2>1, <3>1 DEF Rows, RowOK
  <2>4. \A row \in Rows("api_key") : row.f.secret \in 1 .. row.version
    <3>1. "api_key" \in DOMAIN Fields
        BY DEF Fields
    <3> QED
        BY <2>1, <3>1 DEF Rows, RowOK
  <2> QED
      BY <2>2, <2>3, <2>4 DEF TypeOK
<1> QED
    BY <1>1, IdentityInvariant, PTL

\* A set of at most one element.
LEMMA AtMostOne ==
    ASSUME NEW S, \A x, y \in S : x = y
    PROVE  IsFiniteSet(S) /\ Cardinality(S) \in {0, 1} /\ (S = {} => Cardinality(S) = 0)
<1>1. CASE S = {}
    BY <1>1, FS_EmptySet
<1>2. CASE S # {}
  <2>1. PICK x : S = {x}
      BY <1>2
  <2>2. IsFiniteSet({x}) /\ Cardinality({x}) = 1
      BY FS_Singleton
  <2> QED
      BY <1>2, <2>1, <2>2
<1> QED
    BY <1>1, <1>2

\* A login attempt leads to one session at most, for a user of the provider's tenant,
\* however many requests send its state token back (consume_login_attempt).
THEOREM IdentityOneLogin == Spec => []OneLoginPerAttempt
<1>1. Inv => OneLoginPerAttempt
  <2> SUFFICES ASSUME Inv, NEW t \in Ids("login_attempt")
               PROVE  LET sessions == {s \in Ids("session") : Row("session", s).f.attempt = t}
                      IN /\ Cardinality(sessions) + Cardinality(LoggingIn(t)) <= 1
                         /\ \A s \in sessions :
                              /\ Row("session", s).tenant = Row("login_attempt", t).tenant
                              /\ Row("user", Row("session", s).f.user).tenant = Row("session", s).tenant
      BY DEF OneLoginPerAttempt
  <2>1. PICK S, L : S = {s \in Ids("session") : Row("session", s).f.attempt = t} /\ L = LoggingIn(t)
      OBVIOUS
  <2>2. t # None
    <3>1. Ids("login_attempt") = 1 .. Len(db["login_attempt"]) /\ Len(db["login_attempt"]) \in Nat
        BY IdsAre DEF Inv, Base, Fields
    <3> QED
        BY <3>1 DEF None
  <2>3. \A b \in L : b \in Admins /\ LogsIn(op[b]) /\ op[b].attempt = t
      BY <2>1 DEF LoggingIn, InFlight, LogsIn, LoginPcs, Callback
  <2>4. (\A b, c \in L : b = c) /\ (\A r, s \in S : r = s) /\ (S = {} \/ L = {})
      BY <2>1, <2>2, <2>3 DEF Inv, LoginInv
  <2>5. /\ Cardinality(S) \in {0, 1} /\ (S = {} => Cardinality(S) = 0)
        /\ Cardinality(L) \in {0, 1} /\ (L = {} => Cardinality(L) = 0)
      BY <2>4, AtMostOne
  <2>6. Cardinality(S) + Cardinality(L) <= 1
      BY <2>4, <2>5
  <2>7. ASSUME NEW s \in S
        PROVE  /\ Row("session", s).tenant = Row("login_attempt", t).tenant
               /\ Row("user", Row("session", s).f.user).tenant = Row("session", s).tenant
    <3>1. s \in Ids("session") /\ Row("session", s).f.attempt = t
        BY <2>1
    <3>2. UserSession(Row("session", s))
        BY <3>1 DEF Inv, Base, DbOK, LinkOK, Fields, Row
    <3> QED
        BY <2>2, <3>1, <3>2 DEF UserSession
  <2> QED
      BY <2>1, <2>6, <2>7
<1> QED
    BY <1>1, IdentityInvariant, PTL

\* An invitation lets in one user, whom it is addressed to, and none once it is revoked,
\* however accept_organization_invitation and revoke_organization_invitation interleave.
THEOREM IdentityOneInvited == Spec => []InvitationAdmitsOne
<1>1. Inv => InvitationAdmitsOne
  <2> SUFFICES ASSUME Inv, NEW i \in Ids("invitation")
               PROVE  /\ Cardinality(Admitted(i)) <= 1
                      /\ \A u \in Admitted(i) : Row("invitation", i).status = "accepted" /\ Addressed(i, u)
      BY DEF InvitationAdmitsOne
  <2>1. \A u, v \in Admitted(i) : u = v
      BY DEF Inv, InviteInv
  <2>2. Cardinality(Admitted(i)) \in {0, 1}
      BY <2>1, AtMostOne
  <2>3. ASSUME NEW m \in Ids("organization_member"), i \in Row("organization_member", m).f.invitations
        PROVE  AdmittedBy(i, Row("organization_member", m).f.user)
    <3>1. LinkOK("organization_member", Row("organization_member", m))
        BY DEF Inv, Base, DbOK, Fields, Row
    <3> QED
        BY <2>3, <3>1 DEF LinkOK
  <2>4. ASSUME NEW b \in InFlight, op[b].route = "accept_auth_invitation", op[b].pc # "accept",
               op[b].invitation = i
        PROVE  AdmittedBy(i, op[b].user)
    <3>1. b \in Admins /\ AcceptReady(op[b])
        BY <2>4 DEF InFlight, Inv, Base, Ready, Accepting
    <3> QED
        BY <2>4, <3>1 DEF AcceptReady, AdmittedBy
  <2>5. ASSUME NEW u \in Admitted(i) PROVE AdmittedBy(i, u)
      BY <2>3, <2>4 DEF Admitted
  <2> QED
      BY <2>2, <2>5 DEF AdmittedBy
<1> QED
    BY <1>1, IdentityInvariant, PTL

\* In a gateway without Postgres, once update_user has disabled or deleted a user and is
\* done, no session that was stored while the user was active can authenticate.
THEOREM IdentitySignedOut == Spec => []EarlierSessionsRevoked
<1>1. Inv => EarlierSessionsRevoked
  <2> SUFFICES ASSUME Inv, NEW s \in Ids("session"), ~ scenario.postgres, CanAuthenticate(s, clock),
                      ~ AcceptsAccess("user", Row("session", s).f.user),
                      ~ \E a \in InFlight : op[a].route = "update_user" /\ op[a].id = Row("session", s).f.user
               PROVE  Row("session", s).f.late
      BY DEF EarlierSessionsRevoked
  <2>1. ASSUME NEW b \in Admins PROVE ~ SigningOut(op[b], Row("session", s).f.user)
      BY DEF SigningOut, InFlight, NoOp
  <2>2. ~ Exposed(s)
      BY <2>1 DEF Inv, SignInv
  <2>3. AcceptsAccess("session", s)
      BY DEF CanAuthenticate
  <2> QED
      BY <2>2, <2>3 DEF Exposed
<1> QED
    BY <1>1, IdentityInvariant, PTL

\* Within a window no more failures of a key are kept than the limit and one for each other
\* request in flight, although api_key_failed_auth_allowed and record_api_key_failed_auth
\* are separate.
THEOREM IdentityThrottled == Spec => []FailedAuthBounded
<1>1. Inv => FailedAuthBounded
  <2> SUFFICES ASSUME Inv, NEW p PROVE Cardinality(Fresh(p, clock)) <= MaxFailed - 1 + Cardinality(Admins)
      BY DEF FailedAuthBounded
  <2>1. Throttled(p)
      BY DEF Inv, ThrottleInv
  <2>2. Cardinality(Fresh(p, clock)) \in Nat /\ Cardinality(Past(p)) \in Nat /\ Cardinality(Admins) \in Nat
      BY FreshFinite, PastFinite DEF Inv
  <2> QED
      BY <2>1, <2>2, LoginAssumption DEF Throttled
<1> QED
    BY <1>1, IdentityInvariant, PTL

\* A session that is revoked, in Postgres or in memory, is never active there again,
\* although handlers that verified it before go on to write it.
THEOREM IdentityStaysRevoked == Spec => RevokedStaysRevoked
<1> DEFINE Stays == \A s \in Ids("session") :
              /\ Row("session", s).status = "revoked" => db'["session"][s].status = "revoked"
              /\ Row("session", s).f.durable = "revoked" => db'["session"][s].f.durable = "revoked"
<1>1. ASSUME Inv, Next PROVE Stays
  <2>1. Grows
    <3>1. CASE Tick
        BY <1>1, <3>1, SameGrows DEF Tick, store, Inv, Base
    <3>2. CASE \E a \in Admins : StepOf(a)
        BY <3>2 DEF StepOf, Acts
    <3> QED
        BY <1>1, <3>1, <3>2, NextIs
  <2>2. "session" \in DOMAIN Fields
      BY DEF Fields
  <2>3. ASSUME NEW s \in Ids("session")
        PROVE  Kept("session", Row("session", s), db'["session"][s])
      BY <2>1, <2>2 DEF Grows, Row
  <2> QED
      BY <2>3 DEF Kept, FinalStatus
<1>2. Inv /\ [Next]_vars => [Stays]_vars
    BY <1>1
<1> QED
    BY <1>2, IdentityInvariant, PTL DEF Spec, RevokedStaysRevoked
=============================================================================
