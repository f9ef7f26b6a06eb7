------------------------- MODULE AdminReferenceProofs -------------------------
(***************************************************************************)
(* The resources in the admin store fit together, for any rows, requests   *)
(* and interleavings: what a row names is there, in its tenant, and agrees *)
(* with it, and a Codex connection holds a credential of its own.          *)
(*                                                                         *)
(* A handler validates the references of a request in its first step and   *)
(* writes later, under another lock.  Nothing is checked again, so the     *)
(* inductive invariant (RefInv) also says of every request in flight what  *)
(* its validation found (RefReady).  That stays true because rows are not  *)
(* removed and keep their tenant, and the fields a reference relies on     *)
(* never change (RefGrows).                                                *)
(***************************************************************************)
EXTENDS AdminStoreProofs

-----------------------------------------------------------------------------
(* References                                                              *)

\* The kinds whose rows name other rows.
RefKinds ==
    {"project", "upstream_credential", "codex_connection", "codex_session", "model_target",
     "group_target", "route_policy", "model_alias", "provider_grant", "subscription",
     "otel_config", "sink"}

\* A session's connection and its credential belong together.
CredentialOf(d, a, connection, credential) ==
    /\ credential \in 1 .. Len(d["upstream_credential"])
    /\ d["upstream_credential"][credential].tenant = TenantOf[a]
    /\ d["upstream_credential"][credential].f.endpoint
         = d["codex_connection"][connection].f.endpoint
SessionOf(d, id, connection, credential) ==
    /\ id \in 1 .. Len(d["codex_session"])
    /\ d["codex_session"][id].f.connection = connection
    /\ d["codex_session"][id].f.credential = credential

\* A row to insert, wherever it comes to stand, and a patch of row id.
RowRefers(d, k, row) ==
    /\ \A id \in Nat : RowReferences(d, k, id, row)
    /\ k = "codex_connection" => row.f.credential = None
PatchRefers(d, a, k, id, patch) ==
    /\ k = "model_alias" =>
         /\ DOMAIN patch.f \subseteq {"policy"}
         /\ "policy" \in DOMAIN patch.f =>
              /\ patch.f.policy \in 1 .. Len(d["route_policy"])
              /\ d["route_policy"][patch.f.policy].tenant = TenantOf[a]
              /\ d["route_policy"][patch.f.policy].f.alias = id
    /\ k \in {"otel_config", "sink"} =>
         RowReferences(d, k, id, NewRow(TenantOf[a], patch.f, "active"))

\* The steps that have such a thing before them.
StartPcs == {"credential", "session", "connect"}
RefReady(d, a, x) ==
    /\ x.pc = "insert" => {"kind", "row"} \subseteq DOMAIN x /\ RowRefers(d, x.kind, x.row)
    /\ x.pc = "write" => /\ {"kind", "id", "patch"} \subseteq DOMAIN x
                         /\ PatchRefers(d, a, x.kind, x.id, x.patch)
    /\ x.pc \in StartPcs => /\ "connection" \in DOMAIN x
                            /\ x.connection \in 1 .. Len(d["codex_connection"])
                            /\ d["codex_connection"][x.connection].tenant = TenantOf[a]
    /\ x.pc = "credential" =>
         /\ "row" \in DOMAIN x /\ RowRefers(d, "upstream_credential", x.row)
         /\ x.row.f.endpoint = d["codex_connection"][x.connection].f.endpoint
    /\ x.pc \in {"session", "connect"} =>
         "credential" \in DOMAIN x /\ CredentialOf(d, a, x.connection, x.credential)
    /\ x.pc = "connect" =>
         "id" \in DOMAIN x /\ SessionOf(d, x.id, x.connection, x.credential)

RefInv ==
    /\ References(db)
    /\ \A id \in Ids("codex_connection") : HoldsOwnCredential(db, id)
    /\ \A a \in Admins : op[a] = NoOp \/ RefReady(db, a, op[a])

\* An alias keeps its family and a connection its endpoint.
RefGrows ==
    /\ Grows
    /\ \A id \in Ids("model_alias") :
         db'["model_alias"][id].f.family = Row("model_alias", id).f.family
    /\ \A id \in Ids("codex_connection") :
         db'["codex_connection"][id].f.endpoint = Row("codex_connection", id).f.endpoint

\* Each row is one that was there, with its fields, or one whose references
\* were there before the step.
RowsRefer ==
    \A k \in RefKinds : \A id \in 1 .. Len(db'[k]) :
        \/ id \in Ids(k) /\ db'[k][id].f = Row(k, id).f
        \/ RowReferences(db, k, id, db'[k][id])

\* A connection keeps its credential, forgets it or holds one of its own.
CredentialsHeld ==
    \A id \in 1 .. Len(db'["codex_connection"]) :
        \/ /\ id \in Ids("codex_connection")
           /\ db'["codex_connection"][id].f.credential = Row("codex_connection", id).f.credential
        \/ db'["codex_connection"][id].f.credential = None
        \/ HoldsOwnCredential(db', id)

RefKeeps == RefGrows /\ RowsRefer /\ CredentialsHeld
RefSteps(a) ==
    RefKeeps /\ (op'[a] # NoOp /\ op'[a] # op[a] => RefReady(db', a, op'[a]))

LEMMA RefKindsKnown ==
    /\ RefKinds \subseteq Kinds /\ RefKinds \subseteq AdminKinds
    /\ {"organization", "project", "provider_endpoint", "secret_ref", "upstream_credential",
        "codex_connection", "codex_session", "pricing_sku", "routing_group", "model_target",
        "model_alias", "route_policy", "sink"} \subseteq Kinds
    /\ GrantScopes \subseteq Kinds /\ GrantResources \subseteq Kinds
    /\ "emergency_operation" \notin RefKinds
BY KindsKnown DEF AdminKinds, RefKinds, GrantScopes, GrantResources

\* The other kinds name nothing.
LEMMA OthersReferNot ==
    ASSUME NEW d, NEW k, k \notin RefKinds, NEW id, NEW row
    PROVE  RowReferences(d, k, id, row)
BY DEF RowReferences, RefKinds

\* References are about the tenant and the fields of a row.
LEMMA SameReferences ==
    ASSUME NEW d, NEW k, NEW id, NEW row, NEW new, RowReferences(d, k, id, row),
           new.tenant = row.tenant, new.f = row.f
    PROVE  RowReferences(d, k, id, new)
BY DEF RowReferences, Refers, MayRefer

LEMMA RefersGrows ==
    ASSUME DbOK, Grows, NEW row, NEW k \in Kinds, NEW id, Refers(db, row, k, id)
    PROVE  Refers(db', row, k, id) /\ id \in Ids(k)
<1>1. Len(db[k]) \in Nat /\ Len(db'[k]) \in Nat
    BY RowsAreSeq DEF DbOK, Grows
<1> QED
    BY <1>1 DEF Refers, Grows, Ids, Row

\* What a row refers to stays there and keeps what the row relies on.
LEMMA ReferencesGrow ==
    ASSUME DbOK, RefGrows, NEW k, NEW id, NEW row, RowReferences(db, k, id, row)
    PROVE  RowReferences(db', k, id, row)
<1> USE RefKindsKnown
<1>1. Grows
    BY DEF RefGrows
<1>2. ASSUME NEW j \in Kinds, NEW i, MayRefer(db, row, j, i) PROVE MayRefer(db', row, j, i)
    BY <1>1, <1>2, RefersGrows DEF MayRefer
<1>3. ASSUME NEW j \in Kinds \ ChangingKinds, NEW i, Refers(db, row, j, i)
      PROVE  db'[j][i].f = db[j][i].f
    BY <1>1, <1>3, RefersGrows DEF Grows, Row
<1>4. ASSUME NEW i, Refers(db, row, "model_alias", i)
      PROVE  db'["model_alias"][i].f.family = db["model_alias"][i].f.family
    BY <1>1, <1>4, RefersGrows DEF RefGrows, Row
<1>5. {"provider_endpoint", "upstream_credential", "routing_group", "model_target",
       "route_policy", "project"} \subseteq Kinds \ ChangingKinds
    BY DEF ChangingKinds
<1>6. CASE k \in {"project", "upstream_credential", "codex_connection", "codex_session"}
    BY <1>1, <1>6, RefersGrows DEF RowReferences
<1>7. CASE k = "model_target"
    BY <1>1, <1>2, <1>3, <1>5, <1>7, RefersGrows DEF RowReferences, MayRefer
<1>8. CASE k = "group_target"
    BY <1>1, <1>3, <1>5, <1>8, RefersGrows DEF RowReferences
<1>9. CASE k = "route_policy"
    BY <1>1, <1>3, <1>4, <1>5, <1>9, RefersGrows DEF RowReferences
<1>10. CASE k = "model_alias"
    BY <1>2, <1>3, <1>5, <1>10 DEF RowReferences, MayRefer
<1>11. CASE k \in {"provider_grant", "subscription"}
    BY <1>1, <1>11, RefersGrows DEF RowReferences
<1>12. CASE k \in {"otel_config", "sink"}
    BY <1>2, <1>3, <1>5, <1>12 DEF RowReferences, MayRefer
<1>13. CASE k \notin RefKinds
    BY <1>13, OthersReferNot
<1> QED
    BY <1>6, <1>7, <1>8, <1>9, <1>10, <1>11, <1>12, <1>13 DEF RefKinds

\* A credential that a connection keeps stays its own.
LEMMA HoldsGrows ==
    ASSUME DbOK, RefGrows, NEW id \in Ids("codex_connection"), HoldsOwnCredential(db, id),
           db'["codex_connection"][id].f.credential = Row("codex_connection", id).f.credential
    PROVE  HoldsOwnCredential(db', id)
<1> DEFINE c == db["codex_connection"][id]
           e == db'["codex_connection"][id]
<1> USE RefKindsKnown
<1>1. Grows
    BY DEF RefGrows
<1>2. e.tenant = c.tenant /\ e.f.endpoint = c.f.endpoint /\ e.f.credential = c.f.credential
    BY <1>1 DEF RefGrows, Grows, Row
<1>3. CASE c.f.credential = None
    BY <1>2, <1>3 DEF HoldsOwnCredential
<1>4. CASE c.f.credential # None
  <2> DEFINE u == c.f.credential
  <2>1. Refers(db, c, "upstream_credential", u)
        /\ db["upstream_credential"][u].f.endpoint = c.f.endpoint
      BY <1>4 DEF HoldsOwnCredential
  <2>2. PICK s \in 1 .. Len(db["codex_session"]) :
           /\ db["codex_session"][s].f.connection = id
           /\ db["codex_session"][s].f.credential = u
      BY <1>4 DEF HoldsOwnCredential
  <2>3. Refers(db', c, "upstream_credential", u) /\ u \in Ids("upstream_credential")
      BY <1>1, <2>1, RefersGrows
  <2>4. db'["upstream_credential"][u].f = db["upstream_credential"][u].f
      BY <1>1, <2>3 DEF Grows, ChangingKinds, Row
  <2>5. s \in 1 .. Len(db'["codex_session"])
        /\ db'["codex_session"][s].f = db["codex_session"][s].f
    <3>1. Len(db["codex_session"]) \in Nat /\ Len(db'["codex_session"]) \in Nat
        BY <1>1, RowsAreSeq DEF DbOK, Grows
    <3>2. "codex_session" \in Kinds \ ChangingKinds /\ s \in Ids("codex_session")
        BY DEF ChangingKinds, Ids
    <3> QED
        BY <1>1, <3>1, <3>2 DEF Grows, Row, Ids
  <2>6. Refers(db', e, "upstream_credential", u)
      BY <1>2, <2>3 DEF Refers
  <2> QED
      BY <1>2, <2>1, <2>2, <2>4, <2>5, <2>6 DEF HoldsOwnCredential
<1> QED
    BY <1>3, <1>4

\* What a request is ready to do depends on no other field, and stays so.
RefFields == {"pc", "kind", "id", "row", "patch", "connection", "credential"}
LEMMA RefReadySame ==
    ASSUME NEW d, NEW a, NEW x, NEW y, RefReady(d, a, x), "pc" \in DOMAIN x,
           DOMAIN x \subseteq DOMAIN y, \A f \in RefFields \cap DOMAIN x : y[f] = x[f]
    PROVE  RefReady(d, a, y)
<1> USE DEF RefFields
<1>1. y.pc = x.pc
    OBVIOUS
<1>2. CASE x.pc = "insert"
    BY <1>1, <1>2 DEF RefReady, StartPcs
<1>3. CASE x.pc = "write"
    BY <1>1, <1>3 DEF RefReady, StartPcs
<1>4. CASE x.pc \in StartPcs
  <2>1. y.connection = x.connection
      BY <1>4 DEF RefReady
  <2>2. x.pc = "credential" => y.row = x.row /\ "row" \in DOMAIN y
      BY <1>4 DEF RefReady
  <2>3. x.pc \in {"session", "connect"} => y.credential = x.credential /\ "credential" \in DOMAIN y
      BY <1>4 DEF RefReady
  <2>4. x.pc = "connect" => y.id = x.id /\ "id" \in DOMAIN y
      BY <1>4 DEF RefReady
  <2> QED
      BY <1>1, <1>4, <2>1, <2>2, <2>3, <2>4 DEF RefReady, StartPcs
<1>5. CASE x.pc \notin StartPcs \cup {"insert", "write"}
    BY <1>1, <1>5 DEF RefReady, StartPcs
<1> QED
    BY <1>2, <1>3, <1>4, <1>5

LEMMA RefReadyStays ==
    ASSUME DbOK, RefGrows, NEW a, NEW x, RefReady(db, a, x)
    PROVE  RefReady(db', a, x)
<1> USE RefKindsKnown
<1>1. Grows
    BY DEF RefGrows
<1>2. \A k \in Kinds : Len(db[k]) \in Nat /\ Len(db'[k]) \in Nat /\ Len(db[k]) <= Len(db'[k])
    BY <1>1, RowsAreSeq DEF DbOK, Grows
<1>3. ASSUME NEW k, NEW row, RowRefers(db, k, row) PROVE RowRefers(db', k, row)
    BY <1>3, ReferencesGrow DEF RowRefers
<1>4. ASSUME NEW k, NEW id, NEW patch, PatchRefers(db, a, k, id, patch)
      PROVE  PatchRefers(db', a, k, id, patch)
  <2>1. CASE k = "model_alias"
    <3>1. "route_policy" \in Kinds \ ChangingKinds
        BY DEF ChangingKinds
    <3> QED
        BY <1>1, <1>2, <1>4, <2>1, <3>1 DEF PatchRefers, Grows, Ids, Row
  <2>2. CASE k \in {"otel_config", "sink"}
      BY <1>4, <2>2, ReferencesGrow DEF PatchRefers
  <2>3. CASE k \notin {"model_alias", "otel_config", "sink"}
      BY <2>3 DEF PatchRefers
  <2> QED
      BY <2>1, <2>2, <2>3
<1>5. ASSUME NEW c \in Ids("codex_connection")
      PROVE  /\ c \in 1 .. Len(db'["codex_connection"])
             /\ db'["codex_connection"][c].tenant = db["codex_connection"][c].tenant
             /\ db'["codex_connection"][c].f.endpoint = db["codex_connection"][c].f.endpoint
    BY <1>1, <1>2 DEF RefGrows, Grows, Ids, Row
<1>6. ASSUME NEW c \in Ids("codex_connection"), NEW u, CredentialOf(db, a, c, u)
      PROVE  CredentialOf(db', a, c, u)
  <2>1. "upstream_credential" \in Kinds \ ChangingKinds
      BY DEF ChangingKinds
  <2> QED
      BY <1>1, <1>2, <1>5, <1>6, <2>1 DEF CredentialOf, Grows, Ids, Row
<1>7. ASSUME NEW s, NEW c, NEW u, SessionOf(db, s, c, u) PROVE SessionOf(db', s, c, u)
  <2>1. "codex_session" \in Kinds \ ChangingKinds
      BY DEF ChangingKinds
  <2> QED
      BY <1>1, <1>2, <1>7, <2>1 DEF SessionOf, Grows, Ids, Row
<1>8. CASE x.pc \in StartPcs
    BY <1>3, <1>5, <1>6, <1>7, <1>8 DEF RefReady, StartPcs, Ids
<1>9. CASE x.pc \notin StartPcs
    BY <1>3, <1>4, <1>9 DEF RefReady, StartPcs
<1> QED
    BY <1>8, <1>9

\* A step that leaves the tables with references alone.
LEMMA QuietRefs ==
    ASSUME DbOK, Grows, \A k \in RefKinds : db'[k] = db[k]
    PROVE  RefKeeps
<1>1. {"model_alias", "codex_connection"} \subseteq RefKinds
    BY DEF RefKinds
<1>2. RefGrows
    BY <1>1 DEF RefGrows, Row
<1>3. RowsRefer
    BY DEF RowsRefer, Ids, Row
<1>4. CredentialsHeld
    BY <1>1 DEF CredentialsHeld, Ids, Row
<1> QED
    BY <1>2, <1>3, <1>4 DEF RefKeeps

LEMMA SameRefs ==
    ASSUME DbOK, db' = db
    PROVE  RefKeeps
BY SameGrows, QuietRefs

\* A step that adds a row whose references are there.
LEMMA AppendRefs ==
    ASSUME DbOK, NEW k \in Kinds, NEW row, RowShape(row), row.version = 1,
           k = "emergency_operation" => row.status = "applied",
           db' = [db EXCEPT ![k] = Append(@, row)], RowRefers(db, k, row)
    PROVE  RefKeeps
<1> USE RefKindsKnown
<1>1. /\ Grows /\ Len(db'[k]) = Len(db[k]) + 1 /\ db'[k][Len(db[k]) + 1] = row
      /\ \A j \in Kinds : \A id \in Ids(j) : db'[j][id] = Row(j, id)
      /\ \A j \in Kinds \ {k} : db'[j] = db[j]
    BY AppendGrows
<1>2. RefGrows
    BY <1>1 DEF RefGrows
<1>3. Len(db[k]) \in Nat
    BY RowsAreSeq DEF DbOK
<1>4. ASSUME NEW j \in Kinds, NEW id \in 1 .. Len(db'[j])
      PROVE  \/ id \in Ids(j) /\ db'[j][id] = Row(j, id)
             \/ j = k /\ db'[j][id] = row /\ id \in Nat
    BY <1>1, <1>3, <1>4 DEF Ids
<1>5. RowsRefer
    BY <1>4 DEF RowsRefer, RowRefers
<1>6. CredentialsHeld
    BY <1>4 DEF CredentialsHeld, RowRefers
<1> QED
    BY <1>2, <1>5, <1>6 DEF RefKeeps

\* A step that replaces a row by one with the same fields, or by one whose
\* references are there.
NewFields(k, i, row) ==
    /\ RowReferences(db, k, i, row)
    /\ k = "model_alias" => row.f.family = Row(k, i).f.family
    /\ k = "codex_connection" =>
         /\ row.f.endpoint = Row(k, i).f.endpoint
         /\ \/ row.f.credential \in {Row(k, i).f.credential, None}
            \/ HoldsOwnCredential(db', i)

LEMMA SetRefs ==
    ASSUME DbOK, NEW k \in Kinds, NEW i, NEW row, RowSet(k, i, row),
           i \in Ids(k) => row.f = Row(k, i).f \/ NewFields(k, i, row)
    PROVE  RefKeeps
<1> USE RefKindsKnown
<1>1. /\ Grows /\ \A j \in Kinds : Len(db'[j]) = Len(db[j])
      /\ \A j \in Kinds : \A id \in Ids(j) :
            db'[j][id] = IF j = k /\ id = i THEN row ELSE Row(j, id)
    BY DEF RowSet
<1>2. ASSUME NEW j \in Kinds, NEW id \in 1 .. Len(db'[j])
      PROVE  /\ id \in Ids(j)
             /\ \/ db'[j][id].f = Row(j, id).f
                \/ j = k /\ id = i /\ db'[j][id] = row /\ NewFields(k, i, row)
    BY <1>1, <1>2 DEF Ids
<1>3. RefGrows
  <2>1. \A j \in Kinds : Ids(j) = 1 .. Len(db'[j])
      BY <1>1 DEF Ids
  <2> QED
      BY <1>1, <1>2, <2>1 DEF RefGrows, NewFields
<1>4. RowsRefer
    BY <1>2 DEF RowsRefer, NewFields
<1>5. CredentialsHeld
    BY <1>2 DEF CredentialsHeld, NewFields
<1> QED
    BY <1>3, <1>4, <1>5 DEF RefKeeps

\* The steps after which nothing with references is to be done any more.
RefPcs == {"insert", "write"} \cup StartPcs
LEMMA PastRefs ==
    ASSUME NEW d, NEW a, NEW x, x.pc \notin RefPcs
    PROVE  RefReady(d, a, x)
BY DEF RefReady, RefPcs, StartPcs

LEMMA QuietSteps ==
    ASSUME DbOK, NEW a, MoveOK(a), \A k \in RefKinds : db'[k] = db[k],
           op'[a] # NoOp => op'[a].pc \notin RefPcs
    PROVE  RefSteps(a)
<1>1. RefKeeps
    BY QuietRefs DEF MoveOK
<1> QED
    BY <1>1, PastRefs DEF RefSteps

LEMMA InsertRowRefs ==
    ASSUME StoreInv, OpShape, RefInv, NEW a \in Admins, NEW k, InsertRow(a, k)
    PROVE  RefSteps(a)
<1>1. op[a] # NoOp /\ op[a].pc = "insert" /\ op[a].kind = k
    BY DEF InsertRow, NoOp
<1>2. DbOK /\ InsertReady(a, op[a]) /\ RowRefers(db, k, op[a].row)
    BY <1>1 DEF StoreInv, Ready, RefInv, RefReady
<1>3. /\ k \in Kinds \ {"emergency_operation"} /\ FreshRow(a, op[a].row)
      /\ op[a].then \in {"finish", "build"}
    BY <1>1, <1>2 DEF InsertReady
<1>4. RefKeeps
    BY <1>2, <1>3, AppendRefs DEF InsertRow, FreshRow
<1>5. op'[a].pc = op[a].then
    BY DEF InsertRow, OpShape, ++
<1>6. RefReady(db', a, op'[a])
    BY <1>3, <1>5, PastRefs DEF RefPcs, StartPcs
<1> QED
    BY <1>4, <1>6 DEF RefSteps

\* What a patch makes of the row of a request.
LEMMA PatchedFields ==
    ASSUME DbOK, NEW k \in Kinds, NEW id \in Ids(k), NEW patch, NEW row,
           row = Patched(Row(k, id), patch)
    PROVE  /\ row.tenant = Row(k, id).tenant
           /\ patch.f = << >> => row.f = Row(k, id).f
           /\ DOMAIN row.f = DOMAIN patch.f \cup DOMAIN Row(k, id).f
           /\ \A x \in DOMAIN patch.f : row.f[x] = patch.f[x]
           /\ \A x \in DOMAIN Row(k, id).f \ DOMAIN patch.f : row.f[x] = Row(k, id).f[x]
<1>1. RowShape(Row(k, id))
    BY RowsAreSeq DEF DbOK, IsRows, Ids, Row
<1>2. row.tenant = Row(k, id).tenant /\ row.f = patch.f ++ Row(k, id).f
    BY <1>1, PatchedRow
<1>3. IsFcn(Row(k, id).f)
    BY <1>1 DEF RowShape
<1>4. patch.f = << >> => row.f = Row(k, id).f
    BY <1>2, <1>3, MergedIsFcn
<1>5. PICK p, o, g : p = patch.f /\ o = Row(k, id).f /\ g = row.f
    OBVIOUS
<1>6. /\ DOMAIN g = DOMAIN p \cup DOMAIN o
      /\ \A x \in DOMAIN p : g[x] = p[x]
      /\ \A x \in DOMAIN o \ DOMAIN p : g[x] = o[x]
  <2>1. g = p ++ o
      BY <1>2, <1>5
  <2> QED
      BY <2>1 DEF ++
<1> QED
    BY <1>2, <1>4, <1>5, <1>6

\* The policy an alias is bound to is one of its own.
LEMMA AliasPatch ==
    ASSUME DbOK, References(db), NEW a, NEW id, OwnRow(a, "model_alias", id), NEW patch, NEW row,
           PatchRefers(db, a, "model_alias", id, patch),
           row = Patched(Row("model_alias", id), patch)
    PROVE  NewFields("model_alias", id, row)
<1> DEFINE k == "model_alias"
           old == Row(k, id)
<1>1. k \in Kinds /\ k \in AdminKinds /\ id \in Ids(k) /\ old.tenant = TenantOf[a]
    BY RefKindsKnown DEF OwnRow, RefKinds
<1>2. RowReferences(db, k, id, old)
    BY <1>1 DEF References, Ids, Row
<1>3. {"family", "policy"} \subseteq DOMAIN old.f
    BY <1>2 DEF RowReferences
<1>4. /\ row.tenant = old.tenant
      /\ DOMAIN row.f = DOMAIN patch.f \cup DOMAIN old.f
      /\ \A x \in DOMAIN patch.f : row.f[x] = patch.f[x]
      /\ \A x \in DOMAIN old.f \ DOMAIN patch.f : row.f[x] = old.f[x]
    BY <1>1, PatchedFields
<1>5. DOMAIN patch.f \subseteq {"policy"}
    BY DEF PatchRefers
<1>6. row.f.family = old.f.family
    BY <1>3, <1>4, <1>5
<1>7. RowReferences(db, k, id, row)
  <2>1. CASE "policy" \in DOMAIN patch.f
    <3>1. row.f.policy = patch.f.policy
        BY <1>4, <2>1
    <3> QED
        BY <1>1, <1>3, <1>4, <2>1, <3>1 DEF RowReferences, PatchRefers, MayRefer, Refers
  <2>2. CASE "policy" \notin DOMAIN patch.f
    <3>1. row.f.policy = old.f.policy
        BY <1>3, <1>4, <2>2
    <3> QED
        BY <1>2, <1>3, <1>4, <3>1 DEF RowReferences, MayRefer, Refers
  <2> QED
      BY <2>1, <2>2
<1> QED
    BY <1>6, <1>7 DEF NewFields

LEMMA CompareAndSetRefs ==
    ASSUME StoreInv, OpShape, RefInv, NEW a \in Admins, NEW k,
           k \notin {"codex_connection", "otel_config", "sink"}, CompareAndSet(a, k)
    PROVE  RefSteps(a)
<1> DEFINE id == op[a].id
<1>1. op[a] # NoOp /\ op[a].pc = "write" /\ op[a].kind = k
    BY DEF CompareAndSet, NoOp
<1>2. DbOK /\ References(db) /\ WriteReady(a, op[a]) /\ PatchRefers(db, a, k, id, op[a].patch)
    BY <1>1 DEF StoreInv, Ready, RefInv, RefReady
<1>3. /\ k \in Kinds \ {"emergency_operation"} /\ OwnRow(a, k, id) /\ id \in Ids(k)
      /\ k \notin ChangingKinds => op[a].patch.f = << >>
      /\ op[a].then \in {"finish", "emergency", "drain"}
    BY <1>1, <1>2 DEF WriteReady, HasRow, OwnRow
<1>4. CASE Row(k, id).version # op[a].expected
  <2>1. op'[a] = NoOp /\ db' = db
      BY <1>4 DEF CompareAndSet, OpShape
  <2> QED
      BY <1>2, <2>1, SameRefs DEF RefSteps
<1>5. CASE Row(k, id).version = op[a].expected
  <2>1. /\ op'[a].pc = op[a].then
        /\ db' = [db EXCEPT ![k][id] = Patched(@, op[a].patch)]
      BY <1>5 DEF CompareAndSet, OpShape, ++
  <2>2. PICK row : row = Patched(Row(k, id), op[a].patch)
      OBVIOUS
  <2>3. RowSet(k, id, row)
      BY <1>2, <1>3, <2>1, <2>2, PatchSets, PatchGrows
  <2>4. row.f = Row(k, id).f \/ NewFields(k, id, row)
    <3>1. CASE k = "model_alias"
        BY <1>2, <1>3, <2>2, <3>1, AliasPatch
    <3>2. CASE k \notin RefKinds
        BY <3>2, OthersReferNot DEF NewFields, RefKinds
    <3>3. CASE k \in RefKinds \ {"model_alias"}
      <4>1. op[a].patch.f = << >>
          BY <1>3, <3>3 DEF ChangingKinds, RefKinds
      <4> QED
          BY <1>2, <1>3, <2>2, <4>1, PatchedFields
    <3> QED
        BY <3>1, <3>2, <3>3
  <2>5. RefKeeps
      BY <1>2, <1>3, <2>3, <2>4, SetRefs
  <2>6. RefReady(db', a, op'[a])
      BY <1>3, <2>1, PastRefs DEF RefPcs, StartPcs
  <2> QED
      BY <2>5, <2>6 DEF RefSteps
<1> QED
    BY <1>4, <1>5

\* The scope that was validated is the scope that is written, whoever wrote the
\* row in between.
LEMMA WriteUncheckedRefs ==
    ASSUME StoreInv, OpShape, RefInv, NEW a \in Admins, NEW k \in {"otel_config", "sink"},
           WriteUnchecked(a, k)
    PROVE  RefSteps(a)
<1> DEFINE id == op[a].id
<1>1. op[a] # NoOp /\ op[a].pc = "write" /\ op[a].kind = k
    BY DEF WriteUnchecked, NoOp
<1>2. DbOK /\ WriteReady(a, op[a]) /\ PatchRefers(db, a, k, id, op[a].patch)
    BY <1>1 DEF StoreInv, Ready, RefInv, RefReady
<1>3. k \in Kinds \ {"emergency_operation"} /\ OwnRow(a, k, id) /\ id \in Ids(k)
      /\ k \in ChangingKinds
    BY <1>1, <1>2 DEF WriteReady, HasRow, OwnRow, ChangingKinds
<1>4. op'[a].pc = "finish" /\ db' = [db EXCEPT ![k][id] = Patched(@, op[a].patch)]
    BY DEF WriteUnchecked, OpShape, ++
<1>5. PICK row : row = Patched(Row(k, id), op[a].patch)
    OBVIOUS
<1>6. RowSet(k, id, row)
    BY <1>2, <1>3, <1>4, <1>5, PatchSets, PatchGrows
<1>7. PICK new : new = NewRow(TenantOf[a], op[a].patch.f, "active")
    OBVIOUS
<1>8. new.tenant = TenantOf[a] /\ new.f = op[a].patch.f /\ RowReferences(db, k, id, new)
    BY <1>2, <1>7 DEF NewRow, PatchRefers
<1>9. /\ row.tenant = Row(k, id).tenant
      /\ DOMAIN new.f \subseteq DOMAIN row.f
      /\ \A x \in DOMAIN new.f : row.f[x] = new.f[x]
    BY <1>2, <1>3, <1>5, <1>8, PatchedFields
<1>10. {"org", "project"} \subseteq DOMAIN new.f
    BY <1>8 DEF RowReferences
<1>11. row.f.org = new.f.org /\ row.f.project = new.f.project /\ row.tenant = new.tenant
    BY <1>3, <1>8, <1>9, <1>10 DEF OwnRow
<1>12. RowReferences(db, k, id, row)
    BY <1>8, <1>9, <1>10, <1>11 DEF RowReferences, MayRefer, Refers
<1>13. NewFields(k, id, row)
    BY <1>12 DEF NewFields
<1>14. RefKeeps
    BY <1>2, <1>3, <1>6, <1>13, SetRefs
<1>15. RefReady(db', a, op'[a])
    BY <1>4, PastRefs DEF RefPcs, StartPcs
<1> QED
    BY <1>14, <1>15 DEF RefSteps
-----------------------------------------------------------------------------
(* Codex OAuth sessions                                                    *)

LEMMA CodexKinds ==
    /\ {"upstream_credential", "codex_session", "codex_connection"} \subseteq Kinds
    /\ {"upstream_credential", "codex_session", "codex_connection"} \subseteq RefKinds
    /\ {"upstream_credential", "codex_session", "codex_connection"} \subseteq AdminKinds
    /\ "emergency_operation" \notin {"upstream_credential", "codex_session", "codex_connection"}
    /\ "codex_connection" \in ChangingKinds
    /\ {"upstream_credential", "codex_session"} \subseteq Kinds \ ChangingKinds
BY KindsKnown DEF AdminKinds, RefKinds, ChangingKinds

\* The credential of a session that starts is one for the connection.
LEMMA StoreSessionCredentialRefs ==
    ASSUME StoreInv, OpShape, RefInv, NEW a \in Admins, StoreSessionCredential(a)
    PROVE  RefSteps(a)
<1> DEFINE k == "upstream_credential"
           changes == [credential |-> Len(db[k]) + 1, pc |-> "session"]
           y == changes ++ op[a]
           c == op[a].connection
<1> USE CodexKinds
<1>1. op[a] # NoOp /\ op[a].pc = "credential"
    BY DEF StoreSessionCredential, NoOp
<1>2. /\ DbOK /\ FreshRow(a, op[a].row) /\ Len(db[k]) \in Nat
      /\ Len(db["codex_connection"]) \in Nat
    BY <1>1, RowsAreSeq DEF StoreInv, Ready, SessionPcs, SessionReady, DbOK
<1>3. /\ "connection" \in DOMAIN op[a] /\ c \in Ids("codex_connection")
      /\ Row("codex_connection", c).tenant = TenantOf[a]
      /\ RowRefers(db, k, op[a].row)
      /\ op[a].row.f.endpoint = Row("codex_connection", c).f.endpoint
    BY <1>1 DEF RefInv, RefReady, StartPcs, Ids, Row
<1>4. op'[a] = y /\ db' = [db EXCEPT ![k] = Append(@, op[a].row)]
    BY DEF StoreSessionCredential, OpShape
<1>5. RefKeeps
    BY <1>2, <1>3, <1>4, AppendRefs DEF FreshRow
<1>6. /\ Len(db'[k]) = Len(db[k]) + 1 /\ db'[k][Len(db[k]) + 1] = op[a].row
      /\ db'["codex_connection"] = db["codex_connection"]
    BY <1>2, <1>4, AppendGrows DEF FreshRow
<1>7. /\ y.pc = "session" /\ y.connection = c /\ y.credential = Len(db[k]) + 1
      /\ {"connection", "credential"} \subseteq DOMAIN y
    BY <1>3 DEF ++
<1> HIDE DEF y
<1>8. CredentialOf(db', a, c, Len(db[k]) + 1)
    BY <1>2, <1>3, <1>6 DEF CredentialOf, FreshRow, Row
<1>9. RefReady(db', a, y)
    BY <1>3, <1>6, <1>7, <1>8 DEF RefReady, StartPcs, Ids, Row
<1> QED
    BY <1>4, <1>5, <1>9 DEF RefSteps

\* The session names the connection and the credential made for it.
LEMMA StoreSessionRefs ==
    ASSUME StoreInv, OpShape, RefInv, NEW a \in Admins, StoreSession(a)
    PROVE  RefSteps(a)
<1> DEFINE k == "codex_session"
           c == op[a].connection
           u == op[a].credential
           fields == [connection |-> c, credential |-> u,
                      secret |-> op[a].row.f.secret, expires |-> op[a].expires]
           row == NewRow(TenantOf[a], fields, "active")
           changes == [id |-> Len(db[k]) + 1, after |-> 1, pc |-> "connect"]
           y == changes ++ op[a]
<1> USE CodexKinds
<1>1. op[a] # NoOp /\ op[a].pc = "session"
    BY DEF StoreSession, NoOp
<1>2. DbOK /\ Len(db[k]) \in Nat
    BY RowsAreSeq DEF StoreInv, DbOK
<1>3. /\ {"connection", "credential"} \subseteq DOMAIN op[a] /\ c \in Ids("codex_connection")
      /\ Row("codex_connection", c).tenant = TenantOf[a]
      /\ CredentialOf(db, a, c, u)
    BY <1>1 DEF RefInv, RefReady, StartPcs, Ids, Row
<1>4. op'[a] = y /\ db' = [db EXCEPT ![k] = Append(@, row)]
    BY DEF StoreSession, OpShape
<1>5. IsFcn(fields) /\ fields.connection = c /\ fields.credential = u
    BY DEF IsFcn
<1> HIDE DEF fields
<1>6. FreshRow(a, row) /\ row.tenant = TenantOf[a] /\ row.f = fields
    BY <1>5, NewRowFresh DEF NewRow
<1>7. /\ y.pc = "connect" /\ y.connection = c /\ y.credential = u /\ y.id = Len(db[k]) + 1
      /\ {"connection", "credential", "id"} \subseteq DOMAIN y
    BY <1>3 DEF ++
<1> HIDE DEF row, y, c, u
<1>8. RowRefers(db, k, row)
    BY <1>3, <1>5, <1>6 DEF RowRefers, RowReferences, Refers, CredentialOf, Ids, Row
<1>9. RefKeeps
    BY <1>2, <1>4, <1>6, <1>8, AppendRefs DEF FreshRow
<1>10. /\ Len(db'[k]) = Len(db[k]) + 1 /\ db'[k][Len(db[k]) + 1] = row
       /\ db'["codex_connection"] = db["codex_connection"]
       /\ db'["upstream_credential"] = db["upstream_credential"]
    BY <1>2, <1>4, <1>6, AppendGrows DEF FreshRow
<1>11. CredentialOf(db', a, c, u)
    BY <1>3, <1>10 DEF CredentialOf
<1>12. SessionOf(db', Len(db[k]) + 1, c, u)
    BY <1>2, <1>5, <1>6, <1>10 DEF SessionOf
<1>13. RefReady(db', a, y)
    BY <1>3, <1>7, <1>10, <1>11, <1>12 DEF RefReady, StartPcs, Ids, Row
<1> QED
    BY <1>4, <1>9, <1>13 DEF RefSteps

\* A row of a Codex connection with another credential.
LEMMA ConnectionFields ==
    ASSUME DbOK, References(db), NEW id \in Ids("codex_connection"), NEW patch, NEW row, NEW u,
           row = Patched(Row("codex_connection", id), patch),
           patch.f = [credential |-> u]
    PROVE  /\ RowReferences(db, "codex_connection", id, row)
           /\ row.f.endpoint = Row("codex_connection", id).f.endpoint
           /\ row.f.credential = u /\ row.tenant = Row("codex_connection", id).tenant
<1> DEFINE k == "codex_connection"
           old == Row(k, id)
<1> USE CodexKinds
<1>1. RowReferences(db, k, id, old)
    BY DEF References, Ids, Row
<1>2. {"endpoint", "credential"} \subseteq DOMAIN old.f
    BY <1>1 DEF RowReferences
<1>3. /\ row.tenant = old.tenant
      /\ DOMAIN row.f = DOMAIN patch.f \cup DOMAIN old.f
      /\ \A x \in DOMAIN patch.f : row.f[x] = patch.f[x]
      /\ \A x \in DOMAIN old.f \ DOMAIN patch.f : row.f[x] = old.f[x]
    BY PatchedFields
<1>4. DOMAIN patch.f = {"credential"} /\ patch.f.credential = u
    OBVIOUS
<1>5. row.f.endpoint = old.f.endpoint
    BY <1>2, <1>3, <1>4
<1>6. row.f.credential = u
    BY <1>3, <1>4
<1>7. RowReferences(db, k, id, row)
    BY <1>1, <1>2, <1>3, <1>5 DEF RowReferences, Refers
<1> QED
    BY <1>3, <1>5, <1>6, <1>7

\* Nothing but the step changes in a request that is done with the store.
LEMMA RepointedRefs ==
    ASSUME NEW a, OpShape, a \in Admins, op[a] # NoOp, NEW pc, pc \notin RefPcs,
           op' = [op EXCEPT ![a].pc = pc]
    PROVE  op'[a].pc = pc /\ RefReady(db', a, op'[a])
<1>1. op'[a] = [op[a] EXCEPT !.pc = pc] /\ Whole(op[a])
    BY DEF OpShape
<1>2. op'[a].pc = pc
    BY <1>1 DEF Whole
<1> QED
    BY <1>2, PastRefs

\* The connection is given the credential of a session of its own.
LEMMA ConnectSessionRefs ==
    ASSUME StoreInv, OpShape, RefInv, NEW a \in Admins, ConnectSession(a)
    PROVE  RefSteps(a)
<1> DEFINE k == "codex_connection"
           c == op[a].connection
           u == op[a].credential
           patch == [status |-> "active", f |-> [credential |-> u]]
<1> USE CodexKinds
<1>1. op[a] # NoOp /\ op[a].pc = "connect"
    BY DEF ConnectSession, NoOp
<1>2. DbOK /\ References(db)
    BY DEF StoreInv, RefInv
<1>3. /\ c \in Ids(k) /\ Row(k, c).tenant = TenantOf[a]
      /\ CredentialOf(db, a, c, u) /\ SessionOf(db, op[a].id, c, u)
    BY <1>1 DEF RefInv, RefReady, StartPcs, Ids, Row
<1>4. db' = [db EXCEPT ![k][c] = Patched(@, patch)] /\ patch.f = [credential |-> u]
    BY DEF ConnectSession
<1> HIDE DEF patch, c, u
<1>5. PICK row : row = Patched(Row(k, c), patch)
    OBVIOUS
<1>6. RowSet(k, c, row)
    BY <1>2, <1>4, <1>5, PatchSets, PatchGrows
<1>7. /\ RowReferences(db, k, c, row) /\ row.f.endpoint = Row(k, c).f.endpoint
      /\ row.f.credential = u /\ row.tenant = Row(k, c).tenant
    BY <1>2, <1>3, <1>4, <1>5, ConnectionFields
<1>8. HoldsOwnCredential(db', c)
  <2>1. /\ \A j \in Kinds : Len(db'[j]) = Len(db[j])
        /\ db'[k][c] = row
        /\ \A j \in {"upstream_credential", "codex_session"} : \A i \in Ids(j) :
              db'[j][i] = Row(j, i)
    BY <1>3, <1>6 DEF RowSet
  <2>2. /\ u \in 1 .. Len(db'["upstream_credential"])
        /\ db'["upstream_credential"][u].tenant = row.tenant
        /\ db'["upstream_credential"][u].f.endpoint = row.f.endpoint
      BY <1>3, <1>7, <2>1 DEF CredentialOf, Ids, Row
  <2>3. /\ op[a].id \in 1 .. Len(db'["codex_session"])
        /\ db'["codex_session"][op[a].id].f.connection = c
        /\ db'["codex_session"][op[a].id].f.credential = u
      BY <1>3, <2>1 DEF SessionOf, Ids, Row
  <2> QED
      BY <1>7, <2>1, <2>2, <2>3 DEF HoldsOwnCredential, Refers
<1>9. NewFields(k, c, row)
    BY <1>7, <1>8 DEF NewFields
<1>10. RefKeeps
    BY <1>2, <1>6, <1>9, SetRefs
<1>11. RefReady(db', a, op'[a])
    BY <1>1, RepointedRefs DEF ConnectSession, RefPcs, StartPcs
<1> QED
    BY <1>10, <1>11 DEF RefSteps

\* Revoking a session and disabling its credential change no field.
LEMMA RevokeSessionRefs ==
    ASSUME StoreInv, OpShape, NEW a \in Admins, RevokeSession(a)
    PROVE  RefSteps(a)
<1> DEFINE k == "codex_session"
           patch == NewStatus("revoked")
<1> USE CodexKinds
<1>1. op[a] # NoOp /\ op[a].pc = "revoke"
    BY DEF RevokeSession, NoOp
<1>2. DbOK
    BY DEF StoreInv
<1>3. /\ db' = [db EXCEPT ![k][op[a].id] = Patched(@, patch)] /\ patch.f = << >>
      /\ op'[a].pc = "disable"
    BY DEF RevokeSession, OpShape, NewStatus, ++
<1> HIDE DEF patch
<1>4. PICK row : row = Patched(Row(k, op[a].id), patch)
    OBVIOUS
<1>5. RowSet(k, op[a].id, row)
    BY <1>2, <1>3, <1>4, PatchSets, PatchGrows
<1>6. op[a].id \in Ids(k) => row.f = Row(k, op[a].id).f
    BY <1>2, <1>3, <1>4, PatchedFields
<1>7. RefKeeps
    BY <1>2, <1>5, <1>6, SetRefs
<1>8. RefReady(db', a, op'[a])
    BY <1>3, PastRefs DEF RefPcs, StartPcs
<1> QED
    BY <1>7, <1>8 DEF RefSteps

LEMMA DisableCredentialRefs ==
    ASSUME StoreInv, OpShape, NEW a \in Admins, DisableUpstreamCredentialIfCurrent(a)
    PROVE  RefSteps(a)
<1> DEFINE k == "upstream_credential"
           id == Row("codex_session", op[a].id).f.credential
           row == Disabled(Row(k, id))
<1> USE CodexKinds
<1>1. op[a] # NoOp /\ op[a].pc = "disable"
    BY DEF DisableUpstreamCredentialIfCurrent, NoOp
<1>2. DbOK
    BY DEF StoreInv
<1>3. db' = [db EXCEPT ![k] = [@ EXCEPT ![id] = row]]
    BY DEF DisableUpstreamCredentialIfCurrent, Row
<1>4. id \in Ids(k) => RowShape(Row(k, id))
    BY <1>2, RowsAreSeq DEF DbOK, IsRows, Ids, Row
<1>5. id \in Ids(k) => /\ RowShape(row) /\ row.tenant = Row(k, id).tenant
                       /\ row.f = Row(k, id).f
    BY <1>4, DisabledRow
<1> HIDE DEF row, id
<1>6. RowSet(k, id, row)
    BY <1>2, <1>3, <1>5, ExceptSets, SetGrows
<1>7. RefKeeps
    BY <1>2, <1>5, <1>6, SetRefs
<1>8. RefReady(db', a, op'[a])
    BY <1>1, RepointedRefs DEF DisableUpstreamCredentialIfCurrent, RefPcs, StartPcs
<1> QED
    BY <1>7, <1>8 DEF RefSteps

\* The connection forgets the credential of a session that ended.
LEMMA DisconnectSessionRefs ==
    ASSUME StoreInv, OpShape, RefInv, NEW a \in Admins, DisconnectSession(a)
    PROVE  RefSteps(a)
<1> DEFINE k == "codex_connection"
           id == Row("codex_session", op[a].id).f.connection
           patch == [status |-> "unauthenticated", f |-> [credential |-> None]]
<1> USE CodexKinds
<1>1. op[a] # NoOp /\ op[a].pc = "disconnect"
    BY DEF DisconnectSession, NoOp
<1>2. DbOK /\ References(db)
    BY DEF StoreInv, RefInv
<1>3. /\ db' = db \/ db' = [db EXCEPT ![k][id] = Patched(@, patch)]
      /\ patch.f = [credential |-> None]
    BY DEF DisconnectSession
<1> HIDE DEF patch, id
<1>4. RefKeeps
  <2>1. CASE db' = db
      BY <1>2, <2>1, SameRefs
  <2>2. CASE db' = [db EXCEPT ![k][id] = Patched(@, patch)]
    <3>1. PICK row : row = Patched(Row(k, id), patch)
        OBVIOUS
    <3>2. RowSet(k, id, row)
        BY <1>2, <2>2, <3>1, PatchSets, PatchGrows
    <3>3. id \in Ids(k) => NewFields(k, id, row)
        BY <1>2, <1>3, <3>1, ConnectionFields DEF NewFields
    <3> QED
        BY <1>2, <3>2, <3>3, SetRefs
  <2> QED
      BY <1>3, <2>1, <2>2
<1>5. RefReady(db', a, op'[a])
    BY <1>1, RepointedRefs DEF DisconnectSession, RefPcs, StartPcs
<1> QED
    BY <1>4, <1>5 DEF RefSteps

\* update_codex_oauth_connection_status keeps the connection's credential, which
\* it may disable, or forgets it.
LEMMA UpdateCodexStatusRefs ==
    ASSUME StoreInv, OpShape, RefInv, NEW a \in Admins, UpdateCodexOauthConnectionStatus(a)
    PROVE  RefSteps(a)
<1> DEFINE k == "codex_connection"
           j == "upstream_credential"
           id == op[a].id
           credential == Row(k, id).f.credential
           u == IF op[a].patch.status = "unauthenticated" THEN None ELSE credential
           patch == [status |-> op[a].patch.status, f |-> [credential |-> u]]
           disables == op[a].patch.status = "disabled" /\ credential # None
<1> USE CodexKinds
<1>1. op[a] # NoOp /\ op[a].pc = "write" /\ op[a].kind = k
    BY DEF UpdateCodexOauthConnectionStatus, NoOp
<1>2. DbOK /\ References(db) /\ WriteReady(a, op[a])
    BY <1>1 DEF StoreInv, Ready, RefInv
<1>3. id \in Ids(k)
    BY <1>1, <1>2 DEF WriteReady, HasRow, OwnRow
<1>4. CASE Row(k, id).version # op[a].expected
  <2>1. op'[a] = NoOp /\ db' = db
      BY <1>4 DEF UpdateCodexOauthConnectionStatus, OpShape
  <2> QED
      BY <1>2, <2>1, SameRefs DEF RefSteps
<1>5. CASE Row(k, id).version = op[a].expected
  <2>1. /\ op'[a].pc = "finish"
        /\ db' = [db EXCEPT ![k] = [@ EXCEPT ![id] = Patched(db[k][id], patch)],
                            ![j] = IF disables THEN CredentialDisabled(@, credential) ELSE @]
      BY <1>5 DEF UpdateCodexOauthConnectionStatus, OpShape, ++
  <2>2. PICK row : row = Patched(Row(k, id), patch)
      OBVIOUS
  <2>3. /\ patch.f = [credential |-> u] /\ u \in {Row(k, id).f.credential, None}
        /\ db'[k] = [db[k] EXCEPT ![id] = row]
        /\ \A i \in Kinds \ {j, k} : db'[i] = db[i]
      BY <1>2, <2>1, <2>2 DEF DbOK, Row
  <2>4. db'[j] = IF disables THEN [db[j] EXCEPT ![credential] = Disabled(Row(j, credential))]
                 ELSE db[j]
    <3>1. j \in DOMAIN db
        BY <1>2 DEF DbOK
    <3>2. CASE disables
        BY <1>5, <3>1, <3>2 DEF UpdateCodexOauthConnectionStatus, CredentialDisabled, Row
    <3>3. CASE ~ disables
        BY <1>5, <3>1, <3>3 DEF UpdateCodexOauthConnectionStatus
    <3> QED
        BY <3>2, <3>3
  <2> HIDE DEF patch, u
  <2>5. /\ RowReferences(db, k, id, row)
        /\ row.f.endpoint = Row(k, id).f.endpoint /\ row.f.credential = u
      BY <1>2, <1>3, <2>2, <2>3, ConnectionFields
  <2>6. Grows
      BY UpdateCodexStatusStores DEF MoveOK
  <2>7. \A i \in Kinds : IsRows(db[i]) /\ IsRows(db'[i])
      BY <1>2, <2>6 DEF DbOK, Grows
  <2>8. \A i \in Kinds : /\ Len(db[i]) \in Nat /\ DOMAIN db[i] = 1 .. Len(db[i])
                         /\ Len(db'[i]) \in Nat /\ DOMAIN db'[i] = 1 .. Len(db'[i])
      BY <2>7, RowsAreSeq
  <2>9. /\ Ids(k) = 1 .. Len(db'[k]) /\ db'[k][id] = row
        /\ \A i \in Ids(k) \ {id} : db'[k][i] = Row(k, i)
      BY <1>3, <2>3, <2>8 DEF Ids, Row
  <2>10. Ids(j) = 1 .. Len(db'[j]) /\ \A i \in Ids(j) : db'[j][i].f = Row(j, i).f
    <3>1. DOMAIN db'[j] = DOMAIN db[j]
        BY <2>4
    <3>2. \A i \in Ids(j) : db'[j][i].f = Row(j, i).f
        BY <2>6 DEF Grows
    <3> QED
        BY <2>8, <3>1, <3>2 DEF Ids
  <2>11. RefGrows
    <3>1. db'["model_alias"] = db["model_alias"]
        BY <2>3, RefKindsKnown
    <3> QED
        BY <2>5, <2>6, <2>9, <3>1 DEF RefGrows, Row
  <2>12. RowsRefer
    <3> SUFFICES ASSUME NEW m \in RefKinds, NEW i \in 1 .. Len(db'[m])
                 PROVE  \/ i \in Ids(m) /\ db'[m][i].f = Row(m, i).f
                        \/ RowReferences(db, m, i, db'[m][i])
        BY DEF RowsRefer
    <3>1. CASE m = k
        BY <2>5, <2>9, <3>1
    <3>2. CASE m = j
        BY <2>10, <3>2
    <3>3. CASE m \notin {j, k}
        BY <2>3, <3>3, RefKindsKnown DEF Ids, Row
    <3> QED
        BY <3>1, <3>2, <3>3
  <2>13. CredentialsHeld
      BY <2>3, <2>5, <2>9 DEF CredentialsHeld
  <2>14. RefReady(db', a, op'[a])
      BY <2>1, PastRefs DEF RefPcs, StartPcs
  <2> QED
      BY <2>11, <2>12, <2>13, <2>14 DEF RefSteps, RefKeeps
<1> QED
    BY <1>4, <1>5

-----------------------------------------------------------------------------
(* The steps that touch no references                                      *)

LEMMA SecretRefs ==
    ASSUME StoreInv, OpShape, NEW a \in Admins,
           StoreSecretRef(a) \/ StoreRotatedSecretRef(a) \/ StoreSecretValue(a)
    PROVE  RefSteps(a)
<1>1. DbOK /\ MoveOK(a)
    BY StoreSecretRefStores, StoreRotatedSecretRefStores, StoreSecretValueStores DEF StoreInv
<1>2. \A k \in RefKinds : db'[k] = db[k]
  <2>1. \A k \in RefKinds : k \in DOMAIN db /\ k # "secret_ref"
      BY <1>1, RefKindsKnown DEF DbOK, RefKinds
  <2> QED
      BY <2>1 DEF StoreSecretRef, StoreRotatedSecretRef, StoreSecretValue
<1>3. op'[a] # NoOp => op'[a].pc \in {"store_value", "finish"}
    BY DEF StoreSecretRef, StoreRotatedSecretRef, StoreSecretValue, OpShape, Whole, NoOp, ++
<1> QED
    BY <1>1, <1>2, <1>3, QuietSteps DEF RefPcs, StartPcs

LEMMA EmergencyRefs ==
    ASSUME StoreInv, OpShape, NEW a \in Admins,
           SetEndpointEmergencyDrain(a) \/ StoreEmergencyOperation(a) \/ Disconnect(a)
    PROVE  RefSteps(a)
<1>1. DbOK /\ MoveOK(a)
    BY DrainStores, EmergencyStores, DisconnectStores DEF StoreInv
<1>2. \A k \in RefKinds : db'[k] = db[k]
  <2>1. \A k \in RefKinds : k \in DOMAIN db /\ k \notin {"endpoint_drain", "emergency_operation"}
      BY <1>1, RefKindsKnown DEF DbOK, RefKinds
  <2>2. \/ db' = db
        \/ \E drains : db' = [db EXCEPT !["endpoint_drain"] = drains]
        \/ \E rows : db' = [db EXCEPT !["emergency_operation"] = rows]
      BY DEF SetEndpointEmergencyDrain, StoreEmergencyOperation, Disconnect, store
  <2> QED
      BY <2>1, <2>2
<1>3. op'[a] # NoOp => op'[a].pc \in {"emergency", "finish"}
    BY DEF SetEndpointEmergencyDrain, StoreEmergencyOperation, Disconnect, OpShape, Whole, NoOp, ++
<1> QED
    BY <1>1, <1>2, <1>3, QuietSteps DEF RefPcs, StartPcs

LEMMA ExportRefs ==
    ASSUME StoreInv, OpShape, NEW a \in Admins, CompleteExportJob(a) \/ StoreExportManifest(a)
    PROVE  RefSteps(a)
<1>1. DbOK /\ MoveOK(a)
    BY ExportStores DEF StoreInv
<1>2. \A k \in RefKinds : db'[k] = db[k]
  <2>1. \A k \in RefKinds : k \in DOMAIN db /\ k \notin {"export_job", "export_manifest"}
      BY <1>1, RefKindsKnown DEF DbOK, RefKinds
  <2>2. \/ \E rows : db' = [db EXCEPT !["export_job"] = rows]
        \/ \E rows : db' = [db EXCEPT !["export_manifest"] = rows]
      BY DEF CompleteExportJob, StoreExportManifest
  <2> QED
      BY <2>1, <2>2
<1>3. op'[a] # NoOp => op'[a].pc \in {"manifest", "finish"}
    BY DEF CompleteExportJob, StoreExportManifest, OpShape, Whole, NoOp, ++
<1> QED
    BY <1>1, <1>2, <1>3, QuietSteps DEF RefPcs, StartPcs

-----------------------------------------------------------------------------
(* What first steps go on with                                             *)

\* More fields, in front of what a request goes on with or behind it.
LEMMA RefReadyMore ==
    ASSUME NEW a, NEW next, NEW more, RefReady(db, a, next), "pc" \in DOMAIN next
    PROVE  /\ RefReady(db, a, next ++ more)
           /\ RefFields \cap DOMAIN more \cap DOMAIN next = {} => RefReady(db, a, more ++ next)
<1>1. /\ DOMAIN next \subseteq DOMAIN (next ++ more)
      /\ \A f \in RefFields \cap DOMAIN next : (next ++ more)[f] = next[f]
    BY DEF ++
<1>2. ASSUME RefFields \cap DOMAIN more \cap DOMAIN next = {}
      PROVE  /\ DOMAIN next \subseteq DOMAIN (more ++ next)
             /\ \A f \in RefFields \cap DOMAIN next : (more ++ next)[f] = next[f]
    BY <1>2 DEF ++
<1>3. RefReady(db, a, next ++ more)
    BY <1>1, RefReadySame
<1>4. ASSUME RefFields \cap DOMAIN more \cap DOMAIN next = {}
      PROVE  RefReady(db, a, more ++ next)
    BY <1>2, <1>4, RefReadySame
<1> QED
    BY <1>3, <1>4

LEMMA RequestRefs ==
    ASSUME DbOK, NEW a \in Admins, NEW route, NEW early, NEW scope, NEW key, NEW hash, NEW noted,
           NEW late, NEW next, "pc" \in DOMAIN next,
           RequestNoting(a, route, early, scope, key, hash, noted, late, next),
           early /\ late => RefReady(db, a, next)
    PROVE  RefSteps(a)
<1> DEFINE entry == [route |-> route, scope |-> scope, key |-> key, hash |-> hash,
                     at |-> clock, alone |-> Rivals(a, scope, key) = {},
                     wrote |-> << >>]
<1>1. db' = db
    BY DEF RequestNoting, store
<1>2. op' = op \/ (early /\ late /\ op'[a] = next ++ entry)
    BY DEF RequestNoting
<1> HIDE DEF entry
<1>3. RefKeeps
    BY <1>1, SameRefs
<1>4. early /\ late => RefReady(db, a, next ++ entry)
    BY RefReadyMore
<1> QED
    BY <1>1, <1>2, <1>3, <1>4 DEF RefSteps

\* A create goes on with a row whose references were validated.
LEMMA InsertingRefs ==
    ASSUME NEW a, NEW k, NEW row, RowRefers(db, k, row)
    PROVE  RefReady(db, a, Inserting(k, row)) /\ "pc" \in DOMAIN Inserting(k, row)
BY DEF RefReady, Inserting, StartPcs

LEMMA CreatesRefs ==
    ASSUME DbOK, NEW a \in Admins, NEW route, NEW k, NEW req, NEW valid, NEW accepted, NEW row,
           \/ Creates(a, route, k, req, valid, accepted, row)
           \/ CreatesValidFirst(a, route, k, req, valid, accepted, row),
           accepted => RowRefers(db, k, row)
    PROVE  RefSteps(a)
<1>1. PICK key \in Keys :
         \/ RequestNoting(a, route, TRUE, <<route>>, key, req, {}, valid /\ accepted,
                          Inserting(k, row))
         \/ RequestNoting(a, route, valid, <<route>>, key, req, {}, accepted,
                          Inserting(k, row))
    BY DEF Creates, CreatesValidFirst, Request
<1>2. /\ accepted => RefReady(db, a, Inserting(k, row))
      /\ "pc" \in DOMAIN Inserting(k, row)
    BY InsertingRefs DEF Inserting
<1>3. CASE RequestNoting(a, route, TRUE, <<route>>, key, req, {}, valid /\ accepted,
                         Inserting(k, row))
    BY <1>2, <1>3, RequestRefs
<1>4. CASE RequestNoting(a, route, valid, <<route>>, key, req, {}, accepted, Inserting(k, row))
    BY <1>2, <1>4, RequestRefs
<1> QED
    BY <1>1, <1>3, <1>4

\* An update goes on with a patch whose references were validated.
LEMMA WritingRefs ==
    ASSUME NEW a, NEW k, NEW id, NEW expected, NEW patch, PatchRefers(db, a, k, id, patch)
    PROVE  RefReady(db, a, Writing(k, id, expected, patch))
BY DEF RefReady, Writing, StartPcs

LEMMA WritingFields ==
    ASSUME NEW k, NEW id, NEW expected, NEW patch
    PROVE  /\ "pc" \in DOMAIN Writing(k, id, expected, patch)
           /\ "row" \notin DOMAIN Writing(k, id, expected, patch)
BY DEF Writing

LEMMA StatusRefs ==
    ASSUME NEW a, NEW k, k \notin {"otel_config", "sink"}, NEW id, NEW status
    PROVE  PatchRefers(db, a, k, id, NewStatus(status))
BY DEF PatchRefers, NewStatus

LEMMA UpdatesStatusRefs ==
    ASSUME DbOK, NEW a \in Admins, NEW route, NEW k, k \notin {"otel_config", "sink"}, NEW statuses,
           UpdatesStatus(a, route, k, statuses)
    PROVE  RefSteps(a)
<1>1. PICK id \in Ids(k), expected \in 1 .. MaxVersion, status \in statuses :
         RequestNoting(a, route, ForActor(k, a, id), <<route>>, NoKey, id, {}, TRUE,
                       Writing(k, id, expected, NewStatus(status)))
    BY DEF UpdatesStatus, Request
<1>2. RefReady(db, a, Writing(k, id, expected, NewStatus(status)))
    BY StatusRefs, WritingRefs
<1> QED
    BY <1>1, <1>2, WritingFields, RequestRefs

\* The emergencies.
LEMMA EmergencyOpenRefs ==
    ASSUME DbOK, NEW a \in Admins, NEW route, NEW operation, NEW k, NEW id, NEW r, NEW late,
           NEW next, "pc" \in DOMAIN next, "row" \notin DOMAIN next, RefReady(db, a, next),
           Emergency(a, route, operation, k, id, r, late, next)
    PROVE  RefSteps(a)
<1> DEFINE row == EmergencyOperationRecord(TenantOf[a], operation, <<k, id>>, r.expires)
           all == [row |-> row] ++ next
<1>1. PICK key \in Keys :
         RequestNoting(a, route, ValidateEmergencyOperationRequest(r), <<operation, id>>, key, r,
                       {}, ForActor(k, a, id) /\ r.expected > 0 /\ late, all)
    BY DEF Emergency, Request
<1>2. DOMAIN [row |-> row] = {"row"}
    OBVIOUS
<1>3. RefReady(db, a, all)
    BY <1>2, RefReadyMore
<1>4. "pc" \in DOMAIN all
    BY DEF ++
<1> HIDE DEF all
<1> QED
    BY <1>1, <1>3, <1>4, RequestRefs

LEMMA EmergencyWriteRefs ==
    ASSUME DbOK, NEW a \in Admins, NEW route, NEW operation,
           NEW k, k \notin {"otel_config", "sink"}, NEW id, NEW r, NEW status, NEW then,
           Emergency(a, route, operation, k, id, r, TRUE,
                     [then |-> then] ++ Writing(k, id, r.expected, NewStatus(status)))
    PROVE  RefSteps(a)
<1> DEFINE write == Writing(k, id, r.expected, NewStatus(status))
           next == [then |-> then] ++ write
<1>1. RefReady(db, a, write) /\ "pc" \in DOMAIN write /\ "row" \notin DOMAIN write
    BY StatusRefs, WritingRefs, WritingFields
<1> HIDE DEF write
<1>2. DOMAIN [then |-> then] = {"then"} /\ "then" \notin RefFields
    BY DEF RefFields
<1>3. RefReady(db, a, next)
    BY <1>1, <1>2, RefReadyMore
<1>4. "pc" \in DOMAIN next /\ "row" \notin DOMAIN next
    BY <1>1 DEF ++
<1>5. Emergency(a, route, operation, k, id, r, TRUE, next)
    BY DEF write
<1> HIDE DEF next
<1> QED
    BY <1>3, <1>4, <1>5, EmergencyOpenRefs
-----------------------------------------------------------------------------
(* What the validators of the store look at                                *)

LEMMA OtherRowRefers ==
    ASSUME NEW k, k \notin RefKinds, NEW row
    PROVE  RowRefers(db, k, row)
BY OthersReferNot DEF RowRefers, RefKinds

LEMMA CredentialRowRefers ==
    ASSUME NEW t, NEW r, ValidateUpstreamCredentialEndpoint(t, r)
    PROVE  /\ RowRefers(db, "upstream_credential", UpstreamCredentialRecord(t, r))
           /\ \A status : RowRefers(db, "upstream_credential", NewRow(t, r, status))
BY DEF ValidateUpstreamCredentialEndpoint, EnsureSecretRefUsable, UpstreamCredentialRecord,
   RowRefers, RowReferences, Refers, NewRow, Ids, Row

LEMMA ConnectionRowRefers ==
    ASSUME NEW t, NEW r, ValidateCodexOauthConnectionRequest(t, r)
    PROVE  RowRefers(db, "codex_connection", CodexOauthConnectionRecord(t, r))
BY DEF ValidateCodexOauthConnectionRequest, CodexOauthConnectionRecord,
   RowRefers, RowReferences, Refers, NewRow, Ids, Row

LEMMA ModelTargetRowRefers ==
    ASSUME NEW t, NEW r, ValidateModelTargetRefs(t, r)
    PROVE  RowRefers(db, "model_target", ModelTargetRecord(t, r))
BY DEF ValidateModelTargetRefs, ModelTargetRecord, RowRefers, RowReferences, Refers, MayRefer,
   NewRow, Ids, Row

LEMMA GroupTargetRowRefers ==
    ASSUME NEW t, NEW group, NEW r, ValidateRoutingGroupTargetRefs(t, group, r)
    PROVE  RowRefers(db, "group_target", RoutingGroupTargetRecord(t, group, r))
BY DEF ValidateRoutingGroupTargetRefs, RoutingGroupTargetRecord, RowRefers, RowReferences,
   Refers, NewRow, Ids, Row

LEMMA AliasRowRefers ==
    ASSUME NEW t, NEW r, ValidateModelAliasRequest(t, r)
    PROVE  RowRefers(db, "model_alias", ModelAliasRecord(t, r))
BY DEF ValidateModelAliasRequest, ModelAliasRecord, RowRefers, RowReferences, MayRefer, NewRow

LEMMA PolicyRowRefers ==
    ASSUME NEW t, NEW r, ValidateRoutePolicyRequest(t, r)
    PROVE  RowRefers(db, "route_policy", RoutePolicyRecord(t, r))
BY DEF ValidateRoutePolicyRequest, RoutePolicyRecord, RowRefers, RowReferences, Refers,
   NewRow, Ids, Row

LEMMA GrantRowRefers ==
    ASSUME NEW t, NEW r, ValidateProviderGrantRequest(t, r)
    PROVE  RowRefers(db, "provider_grant", ProviderGrantRecord(t, r))
<1> DEFINE org == IF r.scope = "organization" THEN r.scope_id ELSE Row("project", r.scope_id).f.org
           f == [org |-> org, closure |-> r.closure] ++ GrantKey(r)
<1> HIDE DEF org
<1>1. /\ f.scope = r.scope /\ f.scope_id = r.scope_id
      /\ f.resource = r.resource /\ f.resource_id = r.resource_id
    BY DEF GrantKey, ++
<1>2. ProviderGrantRecord(t, r) = NewRow(t, f, "active")
    BY DEF ProviderGrantRecord, org
<1> HIDE DEF f
<1> QED
    BY <1>1, <1>2 DEF ValidateProviderGrantRequest, ValidateProviderGrantScope,
       ValidateProviderGrantResource, RowRefers, RowReferences, Refers, NewRow, Ids, Row

LEMMA SubscriptionRowRefers ==
    ASSUME NEW t, NEW sink, NEW r, ValidateNotificationSubscriptionRequest(t, sink, r)
    PROVE  RowRefers(db, "subscription", NotificationSubscriptionRecord(t, sink, r))
<1> DEFINE f == [org |-> Row("sink", sink).f.org, project |-> Row("sink", sink).f.project]
                  ++ SubscriptionKey(sink, r)
<1>1. f.sink = sink
    BY DEF SubscriptionKey, ++
<1>2. NotificationSubscriptionRecord(t, sink, r) = NewRow(t, f, "active")
    BY DEF NotificationSubscriptionRecord
<1> HIDE DEF f
<1> QED
    BY <1>1, <1>2 DEF ValidateNotificationSubscriptionRequest, RowRefers, RowReferences, Refers,
       NewRow, Ids, Row

\* The organization inferred from a project is the project's.
LEMMA ScopedRowRefers ==
    ASSUME DbOK, References(db), NEW k \in {"otel_config", "sink"}, NEW t, NEW r,
           {"org", "project"} \subseteq DOMAIN r, OptionalProjectScope(t, r.org, r.project)
    PROVE  RowRefers(db, k, NewRow(t, Scoped(t, r), "active"))
           /\ \A id : RowReferences(db, k, id, NewRow(t, Scoped(t, r), "active"))
<1> DEFINE org == InferredOrganization(t, r.org, r.project)
           f == Scoped(t, r)
           row == NewRow(t, f, "active")
<1>1. DOMAIN f = DOMAIN r /\ f.org = org /\ f.project = r.project
    BY DEF Scoped
<1>2. row.tenant = t /\ row.f = f
    BY DEF NewRow
<1> SUFFICES RowRefers(db, k, row) /\ \A id : RowReferences(db, k, id, row)
    OBVIOUS
<1> HIDE DEF f, row, org
<1>3. CASE r.project = None
  <2>1. org = r.org
    <3>1. CASE r.org = None
      <4>1. None \notin Ids("project")
          BY RowsAreSeq, RefKindsKnown DEF DbOK, None, Ids
      <4> QED
          BY <1>3, <4>1 DEF InferredOrganization, org
    <3> QED
        BY <3>1 DEF InferredOrganization, org
  <2> QED
      BY <1>1, <1>2, <1>3, <2>1 DEF OptionalProjectScope, OptionalOrganizationScope, RowRefers,
         RowReferences, MayRefer, Refers, Ids, Row
<1>4. CASE r.project # None
  <2>1. r.project \in Ids("project") /\ Row("project", r.project).tenant = t
      BY <1>4 DEF OptionalProjectScope
  <2>2. org = Row("project", r.project).f.org
      BY <1>4, <2>1 DEF OptionalProjectScope, InferredOrganization, org
  <2>3. Refers(db, Row("project", r.project), "organization", org)
    <3>1. RowReferences(db, "project", r.project, Row("project", r.project))
        BY <2>1 DEF References, AdminKinds, Ids, Row
    <3> QED
        BY <2>2, <3>1 DEF RowReferences
  <2> QED
      BY <1>1, <1>2, <1>4, <2>1, <2>2, <2>3 DEF RowRefers, RowReferences, MayRefer, Refers, Ids, Row
<1> QED
    BY <1>3, <1>4

\* A row in store has an organization and a project, which a merge can only replace.
LEMMA ScopeFields ==
    ASSUME References(db), NEW k \in {"otel_config", "sink"}, NEW id \in Ids(k), NEW u
    PROVE  /\ {"org", "project"} \subseteq DOMAIN Row(k, id).f
           /\ {"org", "project"} \subseteq DOMAIN Merged(k, id, u)
           /\ DOMAIN u.f \cap {"org", "project"} = {} =>
                /\ Merged(k, id, u).org = Row(k, id).f.org
                /\ Merged(k, id, u).project = Row(k, id).f.project
<1>1. RowReferences(db, k, id, Row(k, id))
    BY DEF References, AdminKinds, Ids, Row
<1>2. {"org", "project"} \subseteq DOMAIN Row(k, id).f
    BY <1>1 DEF RowReferences
<1> QED
    BY <1>2 DEF Merged, ++

LEMMA ScopedPatchRefers ==
    ASSUME DbOK, References(db), NEW a, NEW id, NEW f, NEW status,
           {"org", "project"} \subseteq DOMAIN f, OptionalProjectScope(TenantOf[a], f.org, f.project)
    PROVE  PatchRefers(db, a, "otel_config", id, [status |-> status, f |-> Scoped(TenantOf[a], f)])
BY ScopedRowRefers DEF PatchRefers

LEMMA SinkPatchRefers ==
    ASSUME References(db), NEW a, NEW id \in Ids("sink"), ForActor("sink", a, id),
           NEW u \in Requests["sink_update"], NEW status
    PROVE  PatchRefers(db, a, "sink", id, [status |-> status, f |-> Merged("sink", id, u)])
<1> DEFINE f == Merged("sink", id, u)
           old == Row("sink", id)
<1>1. /\ {"org", "project"} \subseteq DOMAIN f
      /\ f.org = old.f.org /\ f.project = old.f.project
    BY ScopeFields, ReferenceAssumption
<1>2. RowReferences(db, "sink", id, old) /\ old.tenant = TenantOf[a]
    BY DEF References, AdminKinds, Ids, Row, ForActor
<1> HIDE DEF f, old
<1>3. RowReferences(db, "sink", id, NewRow(TenantOf[a], f, "active"))
    BY <1>1, <1>2 DEF RowReferences, MayRefer, Refers, NewRow
<1> QED
    BY <1>3 DEF PatchRefers, f

\* A subscription names its sink, a rotation its value.
LEMMA MoreWritingRefs ==
    ASSUME NEW a, NEW k, k \notin {"otel_config", "sink"}, NEW id, NEW expected, NEW status,
           NEW about, NEW value
    PROVE  LET write == Writing(k, id, expected, NewStatus(status))
           IN /\ RefReady(db, a, [about |-> about] ++ write)
              /\ "pc" \in DOMAIN ([about |-> about] ++ write)
              /\ RefReady(db, a, [value |-> value] ++ write)
              /\ "pc" \in DOMAIN ([value |-> value] ++ write)
<1> DEFINE write == Writing(k, id, expected, NewStatus(status))
<1>1. RefReady(db, a, write) /\ "pc" \in DOMAIN write
    BY StatusRefs, WritingRefs, WritingFields
<1>2. RefFields \cap DOMAIN [about |-> about] = {} /\ RefFields \cap DOMAIN [value |-> value] = {}
    BY DEF RefFields
<1> HIDE DEF write
<1>3. RefReady(db, a, [about |-> about] ++ write) /\ RefReady(db, a, [value |-> value] ++ write)
    BY <1>1, <1>2, RefReadyMore
<1>4. /\ "pc" \in DOMAIN ([about |-> about] ++ write)
      /\ "pc" \in DOMAIN ([value |-> value] ++ write)
    BY <1>1 DEF ++
<1> QED
    BY <1>3, <1>4 DEF write

LEMMA MoreInsertingRefs ==
    ASSUME NEW a, NEW k, NEW row, NEW about, RowRefers(db, k, row)
    PROVE  RefReady(db, a, [about |-> about] ++ Inserting(k, row))
<1>1. RefFields \cap DOMAIN [about |-> about] = {}
    BY DEF RefFields
<1> QED
    BY <1>1, InsertingRefs, RefReadyMore
-----------------------------------------------------------------------------
(* Every step of the handlers                                              *)

LEMMA ProviderRefs ==
    ASSUME StoreInv, OpShape, RefInv, NEW a \in Admins, ProviderNext(a)
    PROVE  RefSteps(a)
<1>0. DbOK /\ References(db)
    BY DEF StoreInv, RefInv
<1>1. CASE ListSecretRefs(a) \/ GetSecretRef(a) \/ GetSecretRefLocator(a) \/
          ListProviderEndpoints(a) \/ GetProviderEndpoint(a) \/ ValidateProviderEndpoint(a) \/
          ListUpstreamCredentials(a) \/ GetUpstreamCredential(a) \/ ValidateUpstreamCredential(a) \/
          ListPricingSkus(a) \/ GetPricingSku(a) \/ ValidatePricingSku(a) \/ ListModelTargets(a) \/
          GetModelTarget(a) \/ ValidateModelTarget(a) \/ ListCatalogImports(a) \/ GetCatalogImport(a)
          \/ ValidateCatalogImport(a)
  <2>1. db' = db /\ op' = op
      BY <1>1 DEF Lists, Gets, Reads, Validates, store, ListSecretRefs, GetSecretRef,
         GetSecretRefLocator, ListProviderEndpoints, GetProviderEndpoint,
         ValidateProviderEndpoint, ListUpstreamCredentials, GetUpstreamCredential,
         ValidateUpstreamCredential, ListPricingSkus, GetPricingSku, ValidatePricingSku,
         ListModelTargets, GetModelTarget, ValidateModelTarget, ListCatalogImports,
         GetCatalogImport, ValidateCatalogImport
  <2> QED
      BY <1>0, <2>1, SameRefs DEF RefSteps
<1>2. CASE CreateSecretRef(a)
    BY <1>2, <1>0, CreatesRefs, OtherRowRefers DEF CreateSecretRef, RefKinds
<1>3. CASE StoreSecretRef(a)
    BY <1>3, SecretRefs
<1>4. CASE UpdateSecretRef(a)
    BY <1>4, <1>0, UpdatesStatusRefs DEF UpdateSecretRef
<1>5. CASE UpdateSecretRefStatus(a)
    BY <1>5, CompareAndSetRefs DEF UpdateSecretRefStatus
<1>6. CASE RotateSecretRef(a)
  <2> DEFINE next(id, expected, key, value) ==
                 [value |-> value]
                   ++ Writing("secret_ref", id, expected, NewStatus("rotating"))
  <2>1. PICK id \in Ids("secret_ref"), expected \in 1 .. MaxVersion, key \in Keys,
              value \in Requests["secret_value"] :
           RequestNoting(a, "rotate_secret_ref", ForActor("secret_ref", a, id),
                         <<"rotate_secret_ref", id>>, key, <<expected, value>>, {}, TRUE,
                         next(id, expected, key, value))
      BY <1>6 DEF RotateSecretRef, Request
  <2>2. RefReady(db, a, next(id, expected, key, value)) /\ "pc" \in DOMAIN next(id, expected, key, value)
      BY MoreWritingRefs
  <2> HIDE DEF next
  <2> QED
      BY <1>0, <2>1, <2>2, RequestRefs
<1>7. CASE StoreRotatedSecretRef(a)
    BY <1>7, SecretRefs
<1>8. CASE StoreSecretValue(a)
    BY <1>8, SecretRefs
<1>9. CASE CreateProviderEndpoint(a)
    BY <1>9, <1>0, CreatesRefs, OtherRowRefers DEF CreateProviderEndpoint, RefKinds
<1>10. CASE StoreProviderEndpoint(a)
    BY <1>10, InsertRowRefs DEF StoreProviderEndpoint
<1>11. CASE UpdateProviderEndpoint(a)
    BY <1>11, <1>0, UpdatesStatusRefs DEF UpdateProviderEndpoint
<1>12. CASE UpdateProviderEndpointStatus(a)
    BY <1>12, CompareAndSetRefs DEF UpdateProviderEndpointStatus
<1>13. CASE CreateUpstreamCredential(a)
    BY <1>13, <1>0, CreatesRefs, CredentialRowRefers DEF CreateUpstreamCredential
<1>14. CASE StoreUpstreamCredential(a)
    BY <1>14, InsertRowRefs DEF StoreUpstreamCredential
<1>15. CASE UpdateUpstreamCredential(a)
    BY <1>15, <1>0, UpdatesStatusRefs DEF UpdateUpstreamCredential
<1>16. CASE UpdateUpstreamCredentialStatus(a)
    BY <1>16, CompareAndSetRefs DEF UpdateUpstreamCredentialStatus
<1>17. CASE CreatePricingSku(a)
    BY <1>17, <1>0, CreatesRefs, OtherRowRefers DEF CreatePricingSku, RefKinds
<1>18. CASE StorePricingSku(a)
    BY <1>18, InsertRowRefs DEF StorePricingSku
<1>19. CASE UpdatePricingSku(a)
    BY <1>19, <1>0, UpdatesStatusRefs DEF UpdatePricingSku
<1>20. CASE UpdatePricingSkuStatus(a)
    BY <1>20, CompareAndSetRefs DEF UpdatePricingSkuStatus
<1>21. CASE CreateModelTarget(a)
    BY <1>21, <1>0, CreatesRefs, ModelTargetRowRefers DEF CreateModelTarget
<1>22. CASE StoreModelTarget(a)
    BY <1>22, InsertRowRefs DEF StoreModelTarget
<1>23. CASE UpdateModelTarget(a)
    BY <1>23, <1>0, UpdatesStatusRefs DEF UpdateModelTarget
<1>24. CASE UpdateModelTargetStatus(a)
    BY <1>24, CompareAndSetRefs DEF UpdateModelTargetStatus
<1>25. CASE CreateCatalogImport(a)
  <2> DEFINE next(r, key) ==
                 Inserting("catalog_import", CatalogImportRecord(TenantOf[a], r))
  <2>1. PICK r \in Requests["catalog_import"], key \in Keys :
           RequestNoting(a, "create_catalog_import", TRUE, <<"create_catalog_import">>, key, r,
                         {Diagnostic(a, "catalog_import", CatalogImportValidation(a, r))},
                         /\ CatalogImportValidation(a, r)
                         /\ ValidateCatalogImportRequest(TenantOf[a], r),
                         next(r, key))
      BY <1>25 DEF CreateCatalogImport, Request
  <2>2. RefReady(db, a, next(r, key)) /\ "pc" \in DOMAIN next(r, key)
      BY InsertingRefs, OtherRowRefers DEF RefKinds
  <2> HIDE DEF next
  <2> QED
      BY <1>0, <2>1, <2>2, RequestRefs
<1>26. CASE StoreCatalogImport(a)
    BY <1>26, InsertRowRefs DEF StoreCatalogImport
<1> QED
    BY <1>1, <1>2, <1>3, <1>4, <1>5, <1>6, <1>7, <1>8, <1>9, <1>10, <1>11, <1>12, <1>13, <1>14,
       <1>15, <1>16, <1>17, <1>18, <1>19, <1>20, <1>21, <1>22, <1>23, <1>24, <1>25, <1>26 DEF
       ProviderNext

LEMMA CodexRefs ==
    ASSUME StoreInv, OpShape, RefInv, NEW a \in Admins, CodexNext(a)
    PROVE  RefSteps(a)
<1>0. DbOK /\ References(db)
    BY DEF StoreInv, RefInv
<1>1. CASE ListCodexOauthConnections(a) \/ GetCodexOauthConnection(a) \/
          ListCodexOauthSessions(a) \/ GetCodexOauthSession(a) \/ GetCodexOauthRefreshStatus(a)
  <2>1. db' = db /\ op' = op
      BY <1>1 DEF Lists, Gets, Reads, Validates, store, ListCodexOauthConnections,
         GetCodexOauthConnection, ListCodexOauthSessions, GetCodexOauthSession,
         GetCodexOauthRefreshStatus
  <2> QED
      BY <1>0, <2>1, SameRefs DEF RefSteps
<1>2. CASE CreateCodexOauthConnection(a)
    BY <1>2, <1>0, CreatesRefs, ConnectionRowRefers DEF CreateCodexOauthConnection
<1>3. CASE StoreCodexOauthConnection(a)
    BY <1>3, InsertRowRefs DEF StoreCodexOauthConnection
<1>4. CASE UpdateCodexOauthConnection(a)
    BY <1>4, <1>0, UpdatesStatusRefs DEF UpdateCodexOauthConnection
<1>5. CASE UpdateCodexOauthConnectionStatus(a)
    BY <1>5, UpdateCodexStatusRefs
<1>6. CASE StartCodexOauthSession(a)
  <2> DEFINE credential(id, r) == [org |-> Row("codex_connection", id).f.org,
                                    endpoint |-> Row("codex_connection", id).f.endpoint,
                                    secret |-> r.secret]
             next(id, r) == [pc |-> "credential", kind |-> "codex_session", connection |-> id,
                             row |-> NewRow(TenantOf[a], credential(id, r), "active"),
                             expires |-> r.expires, before |-> None]
             late(id, r) ==
                 /\ r.expires # None => r.expires > clock
                 /\ ValidateCodexOauthSessionRequest(TenantOf[a], id, r)
                 /\ ValidateUpstreamCredentialEndpoint(TenantOf[a], credential(id, r))
  <2>1. PICK id \in Ids("codex_connection"), r \in Requests["codex_session"], key \in Keys :
           RequestNoting(a, "start_codex_oauth_session", ForActor("codex_connection", a, id),
                         <<"start_codex_oauth_session", id>>, key, r, {}, late(id, r),
                         next(id, r))
      BY <1>6 DEF StartCodexOauthSession, Request
  <2>2. "pc" \in DOMAIN next(id, r)
      OBVIOUS
  <2>3. ASSUME ForActor("codex_connection", a, id), late(id, r) PROVE RefReady(db, a, next(id, r))
    <3>1. RowRefers(db, "upstream_credential", NewRow(TenantOf[a], credential(id, r), "active"))
        BY <2>3, CredentialRowRefers
    <3>2. NewRow(TenantOf[a], credential(id, r), "active").f.endpoint
            = db["codex_connection"][id].f.endpoint
        BY DEF NewRow, Row
    <3>3. id \in 1 .. Len(db["codex_connection"]) /\ db["codex_connection"][id].tenant = TenantOf[a]
        BY <2>3 DEF ForActor, Ids, Row
    <3> HIDE DEF credential
    <3> QED
        BY <3>1, <3>2, <3>3 DEF RefReady, StartPcs
  <2> HIDE DEF next, late
  <2> QED
      BY <1>0, <2>1, <2>2, <2>3, RequestRefs
<1>7. CASE StoreSessionCredential(a)
    BY <1>7, StoreSessionCredentialRefs
<1>8. CASE StoreSession(a)
    BY <1>8, StoreSessionRefs
<1>9. CASE ConnectSession(a)
    BY <1>9, ConnectSessionRefs
<1>10. CASE RevokeCodexOauthSession(a)
  <2> DEFINE next(id) ==
                 [pc |-> "revoke", kind |-> "codex_session", id |-> id,
                  before |-> Row("codex_session", id).version]
  <2>1. PICK id \in Ids("codex_session") :
           RequestNoting(a, "revoke_codex_oauth_session", ForActor("codex_session", a, id),
                         <<"revoke_codex_oauth_session">>, NoKey, id, {}, TRUE,
                         next(id))
      BY <1>10 DEF RevokeCodexOauthSession, Request
  <2>2. RefReady(db, a, next(id)) /\ "pc" \in DOMAIN next(id)
      BY PastRefs DEF RefPcs, StartPcs
  <2> HIDE DEF next
  <2> QED
      BY <1>0, <2>1, <2>2, RequestRefs
<1>11. CASE RevokeSession(a)
    BY <1>11, RevokeSessionRefs
<1>12. CASE DisableUpstreamCredentialIfCurrent(a)
    BY <1>12, DisableCredentialRefs
<1>13. CASE DisconnectSession(a)
    BY <1>13, DisconnectSessionRefs
<1> QED
    BY <1>1, <1>2, <1>3, <1>4, <1>5, <1>6, <1>7, <1>8, <1>9, <1>10, <1>11, <1>12, <1>13 DEF
       CodexNext

LEMMA RoutingRefs ==
    ASSUME StoreInv, OpShape, RefInv, NEW a \in Admins, RoutingNext(a)
    PROVE  RefSteps(a)
<1>0. DbOK /\ References(db)
    BY DEF StoreInv, RefInv
<1>1. CASE ListRoutingGroups(a) \/ GetRoutingGroup(a) \/ ValidateRoutingGroup(a) \/
          ListRoutingGroupTargets(a) \/ GetRoutingGroupTarget(a) \/ ValidateRoutingGroupTarget(a) \/
          ListModelAliases(a) \/ GetModelAlias(a) \/ ValidateModelAlias(a) \/ ListRoutePolicies(a) \/
          GetRoutePolicy(a) \/ ValidateRoutePolicy(a) \/ ListProviderGrants(a) \/ GetProviderGrant(a)
          \/ ValidateProviderGrant(a)
  <2>1. db' = db /\ op' = op
      BY <1>1 DEF Lists, Gets, Reads, Validates, store, ListRoutingGroups,
         GetRoutingGroup, ValidateRoutingGroup, ListRoutingGroupTargets, GetRoutingGroupTarget,
         ValidateRoutingGroupTarget, ListModelAliases, GetModelAlias, ValidateModelAlias,
         ListRoutePolicies, GetRoutePolicy, ValidateRoutePolicy, ListProviderGrants,
         GetProviderGrant, ValidateProviderGrant
  <2> QED
      BY <1>0, <2>1, SameRefs DEF RefSteps
<1>2. CASE CreateRoutingGroup(a)
    BY <1>2, <1>0, CreatesRefs, OtherRowRefers DEF CreateRoutingGroup, RefKinds
<1>3. CASE StoreRoutingGroup(a)
    BY <1>3, InsertRowRefs DEF StoreRoutingGroup
<1>4. CASE UpdateRoutingGroup(a)
    BY <1>4, <1>0, UpdatesStatusRefs DEF UpdateRoutingGroup
<1>5. CASE UpdateRoutingGroupStatus(a)
    BY <1>5, CompareAndSetRefs DEF UpdateRoutingGroupStatus
<1>6. CASE CreateRoutingGroupTarget(a)
  <2> DEFINE next(group, r, key) ==
                 Inserting("group_target", RoutingGroupTargetRecord(TenantOf[a], group, r))
  <2>1. PICK group \in Ids("routing_group"), r \in Requests["group_target"], key \in Keys :
           RequestNoting(a, "create_routing_group_target", TRUE,
                         <<"create_routing_group_target", group>>, key, r, {},
                         /\ RoutingGroupTargetValidation(a, group, r)
                         /\ ValidateRoutingGroupTargetRefs(TenantOf[a], group, r),
                         next(group, r, key))
      BY <1>6 DEF CreateRoutingGroupTarget, Request
  <2>2. ValidateRoutingGroupTargetRefs(TenantOf[a], group, r)
          => RefReady(db, a, next(group, r, key))
      BY GroupTargetRowRefers, InsertingRefs
  <2>3. "pc" \in DOMAIN next(group, r, key)
      BY DEF Inserting
  <2> HIDE DEF next
  <2> QED
      BY <1>0, <2>1, <2>2, <2>3, RequestRefs
<1>7. CASE StoreRoutingGroupTarget(a)
    BY <1>7, InsertRowRefs DEF StoreRoutingGroupTarget
<1>8. CASE UpdateRoutingGroupTarget(a)
  <2> DEFINE next(group, id, expected, status) ==
                 Writing("group_target", id, expected, NewStatus(status))
  <2>1. PICK group \in Ids("routing_group"), id \in Ids("group_target"),
              expected \in 1 .. MaxVersion, status \in ResourceStatus :
           RequestNoting(a, "update_routing_group_target", GroupTargetForActor(a, group, id),
                         <<"update_routing_group_target">>, NoKey, id, {}, TRUE,
                         next(group, id, expected, status))
      BY <1>8 DEF UpdateRoutingGroupTarget, Request
  <2>2. /\ RefReady(db, a, next(group, id, expected, status))
        /\ "pc" \in DOMAIN next(group, id, expected, status)
      BY StatusRefs, WritingRefs, WritingFields
  <2> HIDE DEF next
  <2> QED
      BY <1>0, <2>1, <2>2, RequestRefs
<1>9. CASE UpdateRoutingGroupTargetStatus(a)
    BY <1>9, CompareAndSetRefs DEF UpdateRoutingGroupTargetStatus
<1>10. CASE CreateModelAlias(a)
    BY <1>10, <1>0, CreatesRefs, AliasRowRefers DEF CreateModelAlias
<1>11. CASE StoreModelAlias(a)
    BY <1>11, InsertRowRefs DEF StoreModelAlias
<1>12. CASE UpdateModelAlias(a)
  <2> DEFINE next(id, expected, u) ==
                 Writing("model_alias", id, expected,
                         [status |-> u.status,
                          f |-> IF u.policy = None THEN << >> ELSE [policy |-> u.policy]])
  <2>1. PICK id \in Ids("model_alias"), expected \in 1 .. MaxVersion,
              u \in Requests["model_alias_update"] :
           RequestNoting(a, "update_model_alias", ForActor("model_alias", a, id),
                         <<"update_model_alias">>, NoKey, id, {},
                         /\ ModelAliasUpdateValidation(a, id, u)
                         /\ u.policy # None => ValidateModelAliasRoutePolicyBinding(id, u.policy),
                         next(id, expected, u))
      BY <1>12 DEF UpdateModelAlias, Request
  <2>2. "pc" \in DOMAIN next(id, expected, u)
      BY WritingFields
  <2>3. ASSUME ForActor("model_alias", a, id),
               u.policy # None => ValidateModelAliasRoutePolicyBinding(id, u.policy)
        PROVE  RefReady(db, a, next(id, expected, u))
    <3> DEFINE patch == [status |-> u.status,
                         f |-> IF u.policy = None THEN << >> ELSE [policy |-> u.policy]]
    <3>1. ASSUME u.policy = None PROVE PatchRefers(db, a, "model_alias", id, patch)
      <4>1. patch.f = << >>
          BY <3>1
      <4> HIDE DEF patch
      <4>2. DOMAIN patch.f = {}
          BY <4>1
      <4> QED
          BY <4>2 DEF PatchRefers
    <3>2. ASSUME u.policy # None PROVE PatchRefers(db, a, "model_alias", id, patch)
      <4>1. DOMAIN patch.f = {"policy"} /\ patch.f.policy = u.policy
          BY <3>2
      <4> HIDE DEF patch
      <4> QED
          BY <2>3, <3>2, <4>1 DEF PatchRefers, ForActor, ValidateModelAliasRoutePolicyBinding, Ids, Row
    <3>3. PatchRefers(db, a, "model_alias", id, patch)
        BY <3>1, <3>2
    <3> HIDE DEF patch
    <3>4. RefReady(db, a, Writing("model_alias", id, expected, patch))
        BY <3>3, WritingRefs
    <3> QED
        BY <3>4 DEF patch
  <2> HIDE DEF next
  <2> QED
      BY <1>0, <2>1, <2>2, <2>3, RequestRefs
<1>13. CASE WriteModelAlias(a)
    BY <1>13, CompareAndSetRefs DEF WriteModelAlias
<1>14. CASE CreateRoutePolicy(a)
    BY <1>14, <1>0, CreatesRefs, PolicyRowRefers DEF CreateRoutePolicy
<1>15. CASE StoreRoutePolicy(a)
    BY <1>15, InsertRowRefs DEF StoreRoutePolicy
<1>16. CASE UpdateRoutePolicy(a)
    BY <1>16, <1>0, UpdatesStatusRefs DEF UpdateRoutePolicy
<1>17. CASE UpdateRoutePolicyStatus(a)
    BY <1>17, CompareAndSetRefs DEF UpdateRoutePolicyStatus
<1>18. CASE CreateProviderGrant(a)
    BY <1>18, <1>0, CreatesRefs, GrantRowRefers DEF CreateProviderGrant
<1>19. CASE StoreProviderGrant(a)
    BY <1>19, InsertRowRefs DEF StoreProviderGrant
<1>20. CASE UpdateProviderGrant(a)
    BY <1>20, <1>0, UpdatesStatusRefs DEF UpdateProviderGrant
<1>21. CASE UpdateProviderGrantStatus(a)
    BY <1>21, CompareAndSetRefs DEF UpdateProviderGrantStatus
<1> QED
    BY <1>1, <1>2, <1>3, <1>4, <1>5, <1>6, <1>7, <1>8, <1>9, <1>10, <1>11, <1>12, <1>13, <1>14,
       <1>15, <1>16, <1>17, <1>18, <1>19, <1>20, <1>21 DEF RoutingNext

LEMMA PolicyRefs ==
    ASSUME StoreInv, OpShape, RefInv, NEW a \in Admins, PolicyNext(a)
    PROVE  RefSteps(a)
<1>0. DbOK /\ References(db)
    BY DEF StoreInv, RefInv
<1>1. CASE ListBudgetPolicies(a) \/ GetBudgetPolicy(a) \/ ValidateBudgetPolicy(a) \/
          ListQuotaPolicies(a) \/ GetQuotaPolicy(a) \/ ValidateQuotaPolicy(a) \/
          ListOtelExportConfigs(a) \/ GetOtelExportConfig(a) \/ ValidateOtelExportConfig(a) \/
          ListNotificationSinks(a) \/ GetNotificationSink(a) \/ ValidateNotificationSink(a) \/
          ListNotificationSubscriptions(a) \/ GetNotificationSubscription(a) \/
          ValidateNotificationSubscription(a) \/ ListLoginProviders(a) \/ GetLoginProvider(a) \/
          ValidateLoginProvider(a)
  <2>1. db' = db /\ op' = op
      BY <1>1 DEF Lists, Gets, Reads, Validates, store, ListBudgetPolicies,
         GetBudgetPolicy, ValidateBudgetPolicy, ListQuotaPolicies, GetQuotaPolicy,
         ValidateQuotaPolicy, ListOtelExportConfigs, GetOtelExportConfig,
         ValidateOtelExportConfig, ListNotificationSinks, GetNotificationSink,
         ValidateNotificationSink, ListNotificationSubscriptions, GetNotificationSubscription,
         ValidateNotificationSubscription, ListLoginProviders, GetLoginProvider,
         ValidateLoginProvider
  <2> QED
      BY <1>0, <2>1, SameRefs DEF RefSteps
<1>2. CASE CreateBudgetPolicy(a)
    BY <1>2, <1>0, CreatesRefs, OtherRowRefers DEF CreateBudgetPolicy, RefKinds
<1>3. CASE StoreBudgetPolicy(a)
    BY <1>3, InsertRowRefs DEF StoreBudgetPolicy
<1>4. CASE UpdateBudgetPolicy(a)
    BY <1>4, <1>0, UpdatesStatusRefs DEF UpdateBudgetPolicy
<1>5. CASE UpdateBudgetPolicyStatus(a)
    BY <1>5, CompareAndSetRefs DEF UpdateBudgetPolicyStatus
<1>6. CASE CreateQuotaPolicy(a)
    BY <1>6, <1>0, CreatesRefs, OtherRowRefers DEF CreateQuotaPolicy, RefKinds
<1>7. CASE StoreQuotaPolicy(a)
    BY <1>7, InsertRowRefs DEF StoreQuotaPolicy
<1>8. CASE UpdateQuotaPolicy(a)
    BY <1>8, <1>0, UpdatesStatusRefs DEF UpdateQuotaPolicy
<1>9. CASE UpdateQuotaPolicyStatus(a)
    BY <1>9, CompareAndSetRefs DEF UpdateQuotaPolicyStatus
<1>10. CASE CreateOtelExportConfig(a)
    BY <1>10, <1>0, CreatesRefs, ScopedRowRefers, ReferenceAssumption DEF
       CreateOtelExportConfig, ValidateOtelExportConfigRequest
<1>11. CASE StoreOtelExportConfig(a)
    BY <1>11, InsertRowRefs DEF StoreOtelExportConfig
<1>12. CASE UpdateOtelExportConfig(a)
  <2> DEFINE next(id, expected, u) ==
                 Writing("otel_config", id, expected,
                         [status |-> u.status,
                          f |-> Scoped(TenantOf[a], Merged("otel_config", id, u))])
  <2>1. PICK id \in Ids("otel_config"), expected \in 1 .. MaxVersion,
              u \in Requests["otel_config_update"] :
           RequestNoting(a, "update_otel_export_config", ForActor("otel_config", a, id),
                         <<"update_otel_export_config">>, NoKey, id, {},
                         /\ OtelExportConfigValidation(a, Merged("otel_config", id, u), {id})
                         /\ Row("otel_config", id).version = expected
                         /\ ValidateOtelExportConfigRequest(TenantOf[a], Merged("otel_config", id, u), {id}),
                         next(id, expected, u))
      BY <1>12 DEF UpdateOtelExportConfig, Request
  <2>2. "pc" \in DOMAIN next(id, expected, u)
      BY WritingFields
  <2>3. ValidateOtelExportConfigRequest(TenantOf[a], Merged("otel_config", id, u), {id})
          => RefReady(db, a, next(id, expected, u))
      BY <1>0, ScopeFields, ScopedPatchRefers, WritingRefs DEF ValidateOtelExportConfigRequest
  <2> HIDE DEF next
  <2> QED
      BY <1>0, <2>1, <2>2, <2>3, RequestRefs
<1>13. CASE DisableOtelExportConfig(a)
  <2> DEFINE next(id, expected) ==
                 Writing("otel_config", id, expected,
                         [status |-> "disabled",
                          f |-> Scoped(TenantOf[a], Row("otel_config", id).f)])
  <2>1. PICK id \in Ids("otel_config"), expected \in 1 .. MaxVersion :
           RequestNoting(a, "disable_otel_export_config", ForActor("otel_config", a, id),
                         <<"disable_otel_export_config">>, NoKey, id, {},
                         /\ Row("otel_config", id).version = expected
                         /\ ValidateOtelExportConfigRequest(TenantOf[a], Row("otel_config", id).f, {id}),
                         next(id, expected))
      BY <1>13 DEF DisableOtelExportConfig, Request
  <2>2. "pc" \in DOMAIN next(id, expected)
      BY WritingFields
  <2>3. ValidateOtelExportConfigRequest(TenantOf[a], Row("otel_config", id).f, {id})
          => RefReady(db, a, next(id, expected))
      BY <1>0, ScopeFields, ScopedPatchRefers, WritingRefs DEF ValidateOtelExportConfigRequest
  <2> HIDE DEF next
  <2> QED
      BY <1>0, <2>1, <2>2, <2>3, RequestRefs
<1>14. CASE WriteOtelExportConfig(a)
    BY <1>14, WriteUncheckedRefs DEF WriteOtelExportConfig
<1>15. CASE CreateNotificationSink(a)
    BY <1>15, <1>0, CreatesRefs, ScopedRowRefers, ReferenceAssumption DEF
       CreateNotificationSink, ValidateNotificationSinkRequest
<1>16. CASE StoreNotificationSink(a)
    BY <1>16, InsertRowRefs DEF StoreNotificationSink
<1>17. CASE UpdateNotificationSink(a)
  <2> DEFINE next(id, expected, u) ==
                 Writing("sink", id, expected, [status |-> u.status, f |-> Merged("sink", id, u)])
  <2>1. PICK id \in Ids("sink"), expected \in 1 .. MaxVersion, u \in Requests["sink_update"] :
           RequestNoting(a, "update_notification_sink", u.status \in SinkStatus \cup {"keep"} /\ ForActor("sink", a, id),
                         <<"update_notification_sink">>, NoKey, id, {},
                         /\ NotificationSinkValidation(a, Merged("sink", id, u), {id})
                         /\ Row("sink", id).version = expected
                         /\ ValidateNotificationSinkRequest(TenantOf[a], Merged("sink", id, u), {id}),
                         next(id, expected, u))
      BY <1>17 DEF UpdateNotificationSink, Request
  <2>2. "pc" \in DOMAIN next(id, expected, u)
      BY WritingFields
  <2>3. ForActor("sink", a, id) => RefReady(db, a, next(id, expected, u))
      BY <1>0, SinkPatchRefers, WritingRefs
  <2> HIDE DEF next
  <2> QED
      BY <1>0, <2>1, <2>2, <2>3, RequestRefs
<1>18. CASE WriteNotificationSink(a)
    BY <1>18, WriteUncheckedRefs DEF WriteNotificationSink
<1>19. CASE CreateNotificationSubscription(a)
  <2> DEFINE next(sink, r, key) ==
                 [about |-> <<"sink", sink>>]
                   ++ Inserting("subscription",
                                NotificationSubscriptionRecord(TenantOf[a], sink, r))
  <2>1. PICK sink \in Ids("sink"), r \in Requests["subscription"], key \in Keys :
           RequestNoting(a, "create_notification_subscription", TRUE,
                         <<"create_notification_subscription", sink>>, key, r, {},
                         /\ NotificationSubscriptionValidation(a, sink, r)
                         /\ ValidateNotificationSubscriptionRequest(TenantOf[a], sink, r),
                         next(sink, r, key))
      BY <1>19 DEF CreateNotificationSubscription, Request
  <2>2. ValidateNotificationSubscriptionRequest(TenantOf[a], sink, r)
          => RefReady(db, a, next(sink, r, key))
      BY SubscriptionRowRefers, MoreInsertingRefs
  <2>3. "pc" \in DOMAIN next(sink, r, key)
      BY DEF Inserting, ++
  <2> HIDE DEF next
  <2> QED
      BY <1>0, <2>1, <2>2, <2>3, RequestRefs
<1>20. CASE StoreNotificationSubscription(a)
    BY <1>20, InsertRowRefs DEF StoreNotificationSubscription
<1>21. CASE UpdateNotificationSubscription(a)
  <2> DEFINE next(sink, id, expected, status) ==
                 [about |-> <<"sink", sink>>]
                   ++ Writing("subscription", id, expected, NewStatus(status))
  <2>1. PICK sink \in Ids("sink"), id \in Ids("subscription"),
              expected \in 1 .. MaxVersion, status \in {"active", "disabled", "deleted"} :
           RequestNoting(a, "update_notification_subscription", SubscriptionForActor(a, sink, id),
                         <<"update_notification_subscription">>, NoKey, id, {}, TRUE,
                         next(sink, id, expected, status))
      BY <1>21 DEF UpdateNotificationSubscription, Request
  <2>2. /\ RefReady(db, a, next(sink, id, expected, status))
        /\ "pc" \in DOMAIN next(sink, id, expected, status)
      BY MoreWritingRefs
  <2> HIDE DEF next
  <2> QED
      BY <1>0, <2>1, <2>2, RequestRefs
<1>22. CASE UpdateNotificationSubscriptionStatus(a)
    BY <1>22, CompareAndSetRefs DEF UpdateNotificationSubscriptionStatus
<1>23. CASE CreateLoginProvider(a)
    BY <1>23, <1>0, CreatesRefs, OtherRowRefers DEF CreateLoginProvider, RefKinds
<1>24. CASE StoreLoginProvider(a)
    BY <1>24, InsertRowRefs DEF StoreLoginProvider
<1>25. CASE UpdateLoginProvider(a)
    BY <1>25, <1>0, UpdatesStatusRefs DEF UpdateLoginProvider
<1>26. CASE UpdateLoginProviderStatus(a)
    BY <1>26, CompareAndSetRefs DEF UpdateLoginProviderStatus
<1> QED
    BY <1>1, <1>2, <1>3, <1>4, <1>5, <1>6, <1>7, <1>8, <1>9, <1>10, <1>11, <1>12, <1>13, <1>14,
       <1>15, <1>16, <1>17, <1>18, <1>19, <1>20, <1>21, <1>22, <1>23, <1>24, <1>25, <1>26 DEF
       PolicyNext

LEMMA OperationRefs ==
    ASSUME StoreInv, OpShape, RefInv, NEW a \in Admins, OperationNext(a)
    PROVE  RefSteps(a)
<1>0. DbOK /\ References(db)
    BY DEF StoreInv, RefInv
<1>1. CASE ListMaintenanceWindows(a) \/ GetMaintenanceWindow(a) \/ ValidateMaintenanceWindow(a)
          \/ ListEmergencyOperations(a) \/ GetEmergencyOperation(a) \/ ListExportJobs(a) \/
          GetExportJob(a) \/ GetExportJobManifest(a)
  <2>1. db' = db /\ op' = op
      BY <1>1 DEF Lists, Gets, Reads, Validates, store, ListMaintenanceWindows,
         GetMaintenanceWindow, ValidateMaintenanceWindow, ListEmergencyOperations,
         GetEmergencyOperation, ListExportJobs, GetExportJob, GetExportJobManifest
  <2> QED
      BY <1>0, <2>1, SameRefs DEF RefSteps
<1>2. CASE CreateMaintenanceWindow(a)
    BY <1>2, <1>0, CreatesRefs, OtherRowRefers DEF CreateMaintenanceWindow, RefKinds
<1>3. CASE StoreMaintenanceWindow(a)
    BY <1>3, InsertRowRefs DEF StoreMaintenanceWindow
<1>4. CASE UpdateMaintenanceWindow(a)
    BY <1>4, <1>0, UpdatesStatusRefs DEF UpdateMaintenanceWindow
<1>5. CASE UpdateMaintenanceWindowStatus(a)
    BY <1>5, CompareAndSetRefs DEF UpdateMaintenanceWindowStatus
<1>6. CASE EmergencyDisableUpstreamCredential(a)
  <2>1. PICK id \in Ids("upstream_credential"), r \in Requests["emergency"] :
           Emergency(a, "emergency_disable_upstream_credential", "disable_upstream_credential",
                     "upstream_credential", id, r, TRUE,
                     [then |-> "emergency"]
                       ++ Writing("upstream_credential", id, r.expected, NewStatus("disabled")))
      BY <1>6 DEF EmergencyDisableUpstreamCredential
  <2> QED
      BY <1>0, <2>1, EmergencyWriteRefs
<1>7. CASE EmergencyDisableProviderEndpoint(a)
  <2>1. PICK id \in Ids("provider_endpoint"), r \in Requests["emergency"] :
           Emergency(a, "emergency_disable_provider_endpoint", "disable_provider_endpoint",
                     "provider_endpoint", id, r, TRUE,
                     [then |-> "drain"]
                       ++ Writing("provider_endpoint", id, r.expected, NewStatus("disabled")))
      BY <1>7 DEF EmergencyDisableProviderEndpoint
  <2> QED
      BY <1>0, <2>1, EmergencyWriteRefs
<1>8. CASE EmergencyDrainRoutingGroup(a)
  <2>1. PICK id \in Ids("routing_group"), r \in Requests["emergency"] :
           Emergency(a, "emergency_drain_routing_group", "drain_routing_group",
                     "routing_group", id, r, TRUE,
                     [then |-> "emergency"]
                       ++ Writing("routing_group", id, r.expected, NewStatus("draining")))
      BY <1>8 DEF EmergencyDrainRoutingGroup
  <2> QED
      BY <1>0, <2>1, EmergencyWriteRefs
<1>9. CASE EmergencyForceBudgetBlock(a)
  <2>1. PICK id \in Ids("budget_policy"), r \in Requests["emergency"] :
           Emergency(a, "emergency_force_budget_block", "force_budget_block",
                     "budget_policy", id, r, r.expected = Row("budget_policy", id).version,
                     [pc |-> "emergency", before |-> r.expected, after |-> r.expected])
      BY <1>9 DEF EmergencyForceBudgetBlock
  <2>2. RefReady(db, a, [pc |-> "emergency", before |-> r.expected, after |-> r.expected])
      BY PastRefs DEF RefPcs, StartPcs
  <2> QED
      BY <1>0, <2>1, <2>2, EmergencyOpenRefs
<1>10. CASE EmergencyFreezeConfig(a)
  <2> DEFINE next(r, key) ==
                 [pc |-> "emergency", before |-> None, after |-> 1,
                  row |-> EmergencyOperationRecord(TenantOf[a], "freeze_config",
                                                   <<"config", TenantOf[a]>>, r.expires)]
  <2>1. PICK r \in Requests["emergency"], key \in Keys :
           RequestNoting(a, "emergency_freeze_config", ValidateEmergencyOperationRequest(r),
                         <<"freeze_config", TenantOf[a]>>, key, r, {}, TRUE,
                         next(r, key))
      BY <1>10 DEF EmergencyFreezeConfig, Request
  <2>2. RefReady(db, a, next(r, key)) /\ "pc" \in DOMAIN next(r, key)
      BY PastRefs DEF RefPcs, StartPcs
  <2> HIDE DEF next
  <2> QED
      BY <1>0, <2>1, <2>2, RequestRefs
<1>11. CASE SetEndpointEmergencyDrain(a)
    BY <1>11, EmergencyRefs
<1>12. CASE StoreEmergencyOperation(a)
    BY <1>12, EmergencyRefs
<1>13. CASE CreateExportJob(a)
  <2> DEFINE next(r, key) ==
                 [then |-> "build", expires |-> clock + r.retention, backend |-> r.backend]
                   ++ Inserting("export_job",
                                NewRow(TenantOf[a], [export_kind |-> r.export_kind], "pending"))
  <2>1. PICK r \in Requests["export_job"], key \in Keys :
           RequestNoting(a, "create_export_job", ExportJobRequest(r) /\ UsageScope(a, r),
                         <<"create_export_job">>, key, r, {}, ExportLimits(r),
                         next(r, key))
      BY <1>13 DEF CreateExportJob, Request
  <2>2. RefReady(db, a, next(r, key)) /\ "pc" \in DOMAIN next(r, key)
    <3> DEFINE row == NewRow(TenantOf[a], [export_kind |-> r.export_kind], "pending")
               more == [then |-> "build", expires |-> clock + r.retention, backend |-> r.backend]
    <3>1. RefFields \cap DOMAIN more = {}
        BY DEF RefFields
    <3>2. /\ RefReady(db, a, Inserting("export_job", row))
          /\ "pc" \in DOMAIN Inserting("export_job", row)
        BY OtherRowRefers, InsertingRefs DEF RefKinds
    <3> HIDE DEF more, row
    <3>3. RefReady(db, a, more ++ Inserting("export_job", row))
        BY <3>1, <3>2, RefReadyMore
    <3>4. "pc" \in DOMAIN (more ++ Inserting("export_job", row))
        BY <3>2 DEF ++
    <3> QED
        BY <3>3, <3>4 DEF more, row
  <2> HIDE DEF next
  <2> QED
      BY <1>0, <2>1, <2>2, RequestRefs
<1>14. CASE StoreExportJob(a)
    BY <1>14, InsertRowRefs DEF StoreExportJob
<1>15. CASE CompleteExportJob(a)
    BY <1>15, ExportRefs
<1>16. CASE StoreExportManifest(a)
    BY <1>16, ExportRefs
<1>17. CASE Disconnect(a)
    BY <1>17, EmergencyRefs
<1> QED
    BY <1>1, <1>2, <1>3, <1>4, <1>5, <1>6, <1>7, <1>8, <1>9, <1>10, <1>11, <1>12, <1>13, <1>14,
       <1>15, <1>16, <1>17 DEF OperationNext

-----------------------------------------------------------------------------
(* RefInv is inductive                                                     *)

\* What a step keeps of the references, put together.
LEMMA RefKeepsStore ==
    ASSUME DbOK, RefKeeps, References(db),
           \A id \in Ids("codex_connection") : HoldsOwnCredential(db, id)
    PROVE  References(db') /\ \A id \in Ids("codex_connection")' : HoldsOwnCredential(db', id)
<1>1. RefGrows /\ RowsRefer /\ CredentialsHeld
    BY DEF RefKeeps
<1>2. ASSUME NEW k \in AdminKinds, NEW id \in 1 .. Len(db'[k])
      PROVE  RowReferences(db', k, id, db'[k][id])
  <2>1. CASE k \notin RefKinds
      BY <2>1, OthersReferNot
  <2>2. CASE k \in RefKinds
    <3>1. CASE id \in Ids(k) /\ db'[k][id].f = Row(k, id).f
      <4>1. RowReferences(db, k, id, Row(k, id))
          BY <3>1 DEF References, Ids, Row
      <4>2. k \in Kinds
          BY <2>2, RefKindsKnown
      <4>3. db'[k][id].tenant = Row(k, id).tenant
          BY <1>1, <3>1, <4>2 DEF RefGrows, Grows
      <4>4. RowReferences(db, k, id, db'[k][id])
          BY <3>1, <4>1, <4>3, SameReferences
      <4> QED
          BY <1>1, <4>4, ReferencesGrow
    <3>2. CASE RowReferences(db, k, id, db'[k][id])
        BY <1>1, <3>2, ReferencesGrow
    <3> QED
        BY <1>1, <1>2, <2>2, <3>1, <3>2 DEF RowsRefer
  <2> QED
      BY <2>1, <2>2
<1>3. ASSUME NEW id \in 1 .. Len(db'["codex_connection"]) PROVE HoldsOwnCredential(db', id)
  <2>1. CASE /\ id \in Ids("codex_connection")
             /\ db'["codex_connection"][id].f.credential = Row("codex_connection", id).f.credential
      BY <1>1, <2>1, HoldsGrows
  <2>2. CASE db'["codex_connection"][id].f.credential = None
      BY <2>2 DEF HoldsOwnCredential
  <2> QED
      BY <1>1, <1>3, <2>1, <2>2 DEF CredentialsHeld
<1> QED
    BY <1>2, <1>3 DEF References, Ids

LEMMA RefInvInit == AdminInit => RefInv
<1> SUFFICES ASSUME AdminInit PROVE RefInv
    OBVIOUS
<1>1. db = Seed /\ \A a \in Admins : op[a] = NoOp
    BY DEF AdminInit
<1>2. DOMAIN Seed["codex_connection"] = 1 .. Len(Seed["codex_connection"])
    BY StoreInvInit, RowsAreSeq, RefKindsKnown, <1>1 DEF StoreInv, DbOK
<1> QED
    BY <1>1, <1>2, ReferenceAssumption DEF RefInv, Ids

\* A request in flight that a step leaves as it is stays ready.
LEMMA RefReadyKept ==
    ASSUME DbOK, RefGrows, RefInv, NEW b \in Admins, op'[b] = op[b], op[b] # NoOp
    PROVE  RefReady(db', b, op'[b])
BY RefReadyStays DEF RefInv

LEMMA RefInvStep ==
    ASSUME StoreInv, OpShape, RefInv, NEW a \in Admins, Steps(a), RefSteps(a)
    PROVE  RefInv'
<1>1. DbOK /\ RefKeeps /\ RefGrows
    BY DEF StoreInv, RefSteps, RefKeeps
<1>2. References(db') /\ \A id \in Ids("codex_connection")' : HoldsOwnCredential(db', id)
    BY <1>1, RefKeepsStore DEF RefInv
<1>3. ASSUME op'[a] # NoOp PROVE RefReady(db', a, op'[a])
  <2>1. CASE op'[a] = op[a]
      BY <1>1, <1>3, <2>1, RefReadyKept
  <2> QED
      BY <1>3, <2>1 DEF RefSteps
<1>4. ASSUME NEW b \in Admins \ {a}, op'[b] # NoOp PROVE RefReady(db', b, op'[b])
  <2>1. CASE op'[b] = op[b]
      BY <1>1, <1>4, <2>1, RefReadyKept
  <2>2. CASE op'[b] # op[b]
    <3>1. Enters(a)
        BY <2>2 DEF Steps, Looks, Asks, Moves
    <3>2. /\ op[b] # NoOp /\ DOMAIN op'[b] = DOMAIN op[b]
          /\ \A f \in DOMAIN op[b] \ {"alone"} : op'[b][f] = op[b][f]
        BY <1>4, <3>1, RivalKeeps
    <3>3. RefReady(db, b, op[b]) /\ "pc" \in DOMAIN op[b]
        BY <3>2 DEF RefInv, OpShape, Whole
    <3>4. "alone" \notin RefFields
        BY DEF RefFields
    <3>5. PICK x : x = op[b]
        OBVIOUS
    <3>6. PICK y : y = op'[b]
        OBVIOUS
    <3>7. RefReady(db, b, y)
        BY <3>2, <3>3, <3>4, <3>5, <3>6, RefReadySame
    <3> QED
        BY <1>1, <3>6, <3>7, RefReadyStays
  <2> QED
      BY <2>1, <2>2
<1> QED
    BY <1>2, <1>3, <1>4 DEF RefInv

LEMMA RefInvNext ==
    ASSUME StoreInv, OpShape, RefInv, [Next]_vars
    PROVE  RefInv'
<1>1. CASE op' = op /\ db' = db
    BY <1>1 DEF RefInv, Ids
<1>2. ASSUME NEW a \in Admins, Finish(a) PROVE RefInv'
  <2>1. db' = db /\ op'[a] = NoOp /\ \A b \in Admins \ {a} : op'[b] = op[b]
      BY <1>2, FinishFrame
  <2> QED
      BY <2>1 DEF RefInv, Ids
<1>3. ASSUME NEW a \in Admins,
             ProviderNext(a) \/ CodexNext(a) \/ RoutingNext(a) \/ PolicyNext(a)
               \/ OperationNext(a)
      PROVE  RefInv'
  <2>1. Steps(a)
      BY <1>3, ProviderSteps, CodexSteps, RoutingSteps, PolicySteps, OperationSteps
  <2>2. RefSteps(a)
      BY <1>3, ProviderRefs, CodexRefs, RoutingRefs, PolicyRefs, OperationRefs
  <2> QED
      BY <2>1, <2>2, RefInvStep
<1> QED
    BY <1>1, <1>2, <1>3 DEF Next, Tick, vars, store

\* RefInv holds in every reachable state.
LEMMA RefInvariant == Spec => []RefInv
<1>1. AdminInv /\ RefInv /\ [Next]_vars => RefInv'
    BY RefInvNext DEF AdminInv, KeyInv
<1> QED
    BY <1>1, RefInvInit, AdminInvariant, PTL DEF Spec

\* Stored resources fit together whatever order the handlers' steps come in: what
\* the validators of the store found before the insert, or before the second lock
\* of an update (validate_model_target_refs and the others), still holds after it.
THEOREM ReferencesHold == Spec => []ReferencesConsistent
<1>1. RefInv => ReferencesConsistent
    BY DEF RefInv, ReferencesConsistent
<1> QED
    BY <1>1, RefInvariant, PTL

\* A Codex connection holds no credential but one of its endpoint and of one of
\* its sessions, whatever starts, revocations and status changes overlap
\* (start_codex_oauth_session and revoke_codex_oauth_session of the store).
THEOREM CodexCredentialHolds == Spec => []CodexCredentialConsistent
<1>1. RefInv => CodexCredentialConsistent
    BY DEF RefInv, CodexCredentialConsistent
<1> QED
    BY <1>1, RefInvariant, PTL
=============================================================================
