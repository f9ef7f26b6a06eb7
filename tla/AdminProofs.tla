------------------------------ MODULE AdminProofs ------------------------------
(***************************************************************************)
(* What the admin API does once per idempotency key, for every number of   *)
(* requests in flight, every interleaving of their steps and any rows; and *)
(* that its dry runs accept what its store accepts.                        *)
(*                                                                         *)
(* The many actions fall into four shapes: a step that reads (Looks), the  *)
(* first step of a request (Asks), a step of a request in flight (Moves)   *)
(* and Finish.  The case split over the actions is made once (AdminSteps); *)
(* the invariants are then proved of the shapes.                           *)
(***************************************************************************)
EXTENDS AdminApi, TLAPS

-----------------------------------------------------------------------------
(* The shapes                                                              *)

\* What a request carries from its first step to its last; "wrote" too, but
\* the first step of an update chooses it.
Carried == {"route", "scope", "key", "hash", "at", "alone"}

\* Only the audit event of a subscription names another resource: its sink.
AboutSink(x) == "about" \in DOMAIN x => x.about[1] = "sink"

\* What a handler goes on with leaves alone what is carried.
Clean(x) == (\A f \in Carried \cup {"tenant"} : f \notin DOMAIN x) /\ AboutSink(x)

\* A request in flight has all of these, and acts in its admin's tenant.
Whole(x) ==
    Carried \cup {"pc", "wrote"} \subseteq DOMAIN x /\ "tenant" \notin DOMAIN x /\ AboutSink(x)
OpShape == DOMAIN op = Admins /\ \A a \in Admins : op[a] = NoOp \/ Whole(op[a])

Carries(x, y) ==
    /\ y.route = x.route /\ y.scope = x.scope /\ y.key = x.key /\ y.hash = x.hash
    /\ y.at = x.at /\ y.alone = x.alone
    /\ y.wrote = x.wrote

\* A row of the tenant admin a is authenticated for.
OwnRow(a, k, id) == id \in Ids(k) /\ Row(k, id).tenant = TenantOf[a]

\* A handler that only reads, and what it shows.
Looks(a) ==
    /\ UNCHANGED <<db, secrets, idem, audit, op, fixed>>
    /\ answer'.tenant = TenantOf[a]
    /\ \A r \in answer'.rows : OwnRow(a, r[1], r[2])

\* A request is taken up: its scope key has no live record, its rivals learn of
\* it, and no freeze is in force that its route must respect.
Enters(a) ==
    LET x == op'[a]
        rivals == Rivals(a, x.scope, x.key)
    IN /\ Whole(x)
       /\ x.key \in Keys \cup {NoKey}
       /\ x.at = clock /\ x.alone = (rivals = {})
       /\ x.route \in EmergencyRoutes
            \/ ~ ActiveEmergencyOperation(TenantOf[a], "freeze_config", clock)
       /\ \A r \in Stored(TenantOf[a], x.scope, x.key) : ~ (r.expires > clock)
       /\ DOMAIN op' = Admins
       /\ \A b \in Admins \ {a} :
            op'[b] = IF b \in rivals THEN [op[b] EXCEPT !.alone = FALSE] ELSE op[b]
       /\ Len(audit) + Cardinality(InFlight) + dropped < scenario.mutations

\* The first step of a request, whether it is taken up or not.
Asks(a) ==
    /\ op[a] = NoOp
    /\ UNCHANGED <<db, secrets, audit, fixed>>
    /\ idem' \subseteq idem
    /\ \A r \in idem \ idem' : ~ (r.expires > clock)
    /\ op' = op \/ Enters(a)
    /\ \/ answer' = Nobody
       \/ /\ answer'.tenant = TenantOf[a]
          /\ \A row \in answer'.rows :
               \E r \in idem : r.tenant = TenantOf[a] /\ row = r.response

\* A later step: the request goes on, with what it carries, or is given up.
Moves(a) ==
    /\ op[a] # NoOp
    /\ DOMAIN op' = Admins
    /\ \A b \in Admins \ {a} : op'[b] = op[b]
    /\ \/ op'[a] = NoOp
       \/ Whole(op'[a]) /\ Carries(op[a], op'[a]) /\ dropped' = dropped
    /\ dropped' \in {dropped, dropped + 1}
    /\ UNCHANGED <<idem, audit, clock, scenario>>
    /\ answer' = Nobody

Steps(a) == Looks(a) \/ Asks(a) \/ Moves(a)
-----------------------------------------------------------------------------
(* The steps handlers are made of have these shapes                        *)

\* Reads, Gets and Lists show rows of the actor's tenant only.
LEMMA ReadsLook ==
    ASSUME NEW a \in Admins, NEW rows, Reads(a, rows),
           \A r \in rows : OwnRow(a, r[1], r[2])
    PROVE  Steps(a)
BY DEF Reads, Looks, Steps, store, records

LEMMA GetsLook ==
    ASSUME NEW a \in Admins, NEW route, NEW k, Gets(a, route, k)
    PROVE  Steps(a)
<1>1. PICK id \in Ids(k) : ForActor(k, a, id) /\ Reads(a, {<<k, id>>})
    BY DEF Gets
<1>2. \A r \in {<<k, id>>} : OwnRow(a, r[1], r[2])
    BY <1>1 DEF ForActor, OwnRow
<1> QED
    BY <1>1, <1>2, ReadsLook

LEMMA ListsLook ==
    ASSUME NEW a \in Admins, NEW route, NEW k, NEW ids, Lists(a, route, k, ids),
           \A id \in ids : OwnRow(a, k, id)
    PROVE  Steps(a)
<1>1. PICK allowed \in SUBSET ids : Reads(a, {<<k, id>> : id \in allowed})
    BY DEF Lists
<1>2. \A r \in {<<k, id>> : id \in allowed} : OwnRow(a, r[1], r[2])
    BY <1>1
<1> QED
    BY <1>1, <1>2, ReadsLook

\* The rows x_for_tenant lists are the actor's.
LEMMA TenantRows ==
    ASSUME NEW a \in Admins, NEW k
    PROVE  \A id \in ForTenant(k, a) : OwnRow(a, k, id)
BY DEF ForTenant, OwnRow

\* A dry run leaves a diagnostic and shows nothing.
LEMMA ValidatesLook ==
    ASSUME NEW a \in Admins, NEW k, NEW valid, Validates(a, k, valid)
    PROVE  Steps(a)
BY DEF Validates, Looks, Steps, store

\* The first step of a mutating handler, for a "next" that does not touch what
\* a request carries.
LEMMA RequestAsks ==
    ASSUME NEW a \in Admins,
           NEW route, NEW early, NEW scope, NEW key \in Keys \cup {NoKey}, NEW hash,
           NEW noted, NEW late, NEW next,
           Mutating(a, route),
           RequestNoting(a, route, early, scope, key, hash, noted, late, next),
           RouteAllowedDuringConfigFreeze(route) => route \in EmergencyRoutes,
           "pc" \in DOMAIN next,
           Clean(next)
    PROVE  Steps(a)
<1> DEFINE x == next ++ [route |-> route, scope |-> scope, key |-> key, hash |-> hash,
                         at |-> clock, alone |-> Rivals(a, scope, key) = {},
                         wrote |-> << >>]
           stored == Stored(TenantOf[a], scope, key)
           live   == {r \in stored : r.expires > clock}
<1>1. /\ Whole(x) /\ x.route = route /\ x.scope = scope /\ x.key = key /\ x.at = clock
      /\ x.alone = (Rivals(a, scope, key) = {})
    BY DEF ++, Whole, Carried, Clean, AboutSink
<1>2. PICK allowed \in BOOLEAN :
         LET passed == allowed /\ ~ RejectFrozenConfigMutation(a, route) /\ early
         IN /\ idem' = IF passed THEN idem \ (stored \ live) ELSE idem
            /\ answer' = IF passed /\ \E r \in live : r.hash = hash
                         THEN [tenant |-> TenantOf[a], rows |-> {r.response : r \in live}]
                         ELSE Nobody
            /\ op' = IF passed /\ live = {} /\ late
                     THEN [b \in Admins |->
                             IF b = a THEN x
                             ELSE IF b \in Rivals(a, scope, key)
                                  THEN [op[b] EXCEPT !.alone = FALSE]
                             ELSE op[b]]
                     ELSE op
    BY DEF RequestNoting
<1>3. UNCHANGED <<db, secrets, audit, fixed>>
    BY DEF RequestNoting, store
<1>4. idem' \subseteq idem /\ \A r \in idem \ idem' : ~ (r.expires > clock)
    BY <1>2
<1>5. \A r \in live : r \in idem /\ r.tenant = TenantOf[a]
    BY DEF Stored
<1>6. \/ answer' = Nobody
      \/ /\ answer'.tenant = TenantOf[a]
         /\ \A row \in answer'.rows : \E r \in idem : r.tenant = TenantOf[a] /\ row = r.response
  <2> HIDE DEF live
  <2> QED
      BY <1>2, <1>5
<1>7. op' = op \/ Enters(a)
  <2>1. CASE allowed /\ ~ RejectFrozenConfigMutation(a, route) /\ early /\ live = {} /\ late
    <3>1. \A r \in Stored(TenantOf[a], scope, key) : ~ (r.expires > clock)
        BY <2>1
    <3>2. /\ op'[a] = x
          /\ DOMAIN op' = Admins
          /\ \A b \in Admins \ {a} :
               op'[b] = IF b \in Rivals(a, scope, key) THEN [op[b] EXCEPT !.alone = FALSE]
                        ELSE op[b]
      <4> HIDE DEF x, live
      <4> QED
          BY <1>2, <2>1
    <3>3. route \in EmergencyRoutes
            \/ ~ ActiveEmergencyOperation(TenantOf[a], "freeze_config", clock)
        BY <2>1 DEF RejectFrozenConfigMutation
    <3>4. Len(audit) + Cardinality(InFlight) + dropped < scenario.mutations
        BY DEF Mutating
    <3> HIDE DEF x
    <3> QED
        BY <1>1, <3>1, <3>2, <3>3, <3>4 DEF Enters
  <2>2. CASE ~ (allowed /\ ~ RejectFrozenConfigMutation(a, route) /\ early /\ live = {} /\ late)
    <3> HIDE DEF x, live
    <3> QED
        BY <1>2, <2>2
  <2> QED
      BY <2>1, <2>2
<1>8. op[a] = NoOp
    BY DEF Mutating, Calling
<1> QED
    BY <1>3, <1>4, <1>6, <1>7, <1>8 DEF Asks, Steps

\* What creates and updates go on with touches nothing that is carried.
LEMMA NextsCarry ==
    /\ \A k, row : /\ "pc" \in DOMAIN Inserting(k, row)
                   /\ Clean(Inserting(k, row))
    /\ \A k, id, expected, patch :
          /\ "pc" \in DOMAIN Writing(k, id, expected, patch)
          /\ Clean(Writing(k, id, expected, patch))
BY DEF Inserting, Writing, Carried, Clean, AboutSink

LEMMA CreatesAsks ==
    ASSUME NEW a \in Admins, NEW route, NEW k, NEW req, NEW valid, NEW accepted, NEW row,
           Mutating(a, route),
           RouteAllowedDuringConfigFreeze(route) => route \in EmergencyRoutes,
           \/ Creates(a, route, k, req, valid, accepted, row)
           \/ CreatesValidFirst(a, route, k, req, valid, accepted, row)
    PROVE  Steps(a)
<1>1. PICK key \in Keys :
         \/ RequestNoting(a, route, TRUE, <<route>>, key, req, {}, valid /\ accepted,
                          Inserting(k, row))
         \/ RequestNoting(a, route, valid, <<route>>, key, req, {}, accepted,
                          Inserting(k, row))
    BY DEF Creates, CreatesValidFirst, Request
<1> QED
    BY <1>1, NextsCarry, RequestAsks

LEMMA UpdatesStatusAsks ==
    ASSUME NEW a \in Admins, NEW route, NEW k, NEW statuses,
           RouteAllowedDuringConfigFreeze(route) => route \in EmergencyRoutes,
           UpdatesStatus(a, route, k, statuses)
    PROVE  Steps(a)
<1>1. PICK id \in Ids(k), expected \in 1 .. MaxVersion, status \in statuses :
         RequestNoting(a, route, ForActor(k, a, id), <<route>>, NoKey, id, {}, TRUE,
                       Writing(k, id, expected, NewStatus(status)))
    BY DEF UpdatesStatus, Request
<1>2. Mutating(a, route)
    BY DEF UpdatesStatus
<1> QED
    BY <1>1, <1>2, NextsCarry, RequestAsks

\* A step that changes only fields nobody carries keeps the request whole.
LEMMA ChangesKeep ==
    ASSUME NEW a \in Admins, OpShape, op[a] # NoOp, NEW changes,
           \A f \in Carried \cup {"tenant", "wrote", "about"} : f \notin DOMAIN changes,
           op' = [op EXCEPT ![a] = changes ++ @],
           dropped' = dropped, UNCHANGED <<idem, audit, clock, scenario>>, answer' = Nobody
    PROVE  Steps(a)
<1>1. Whole(op[a]) /\ op'[a] = changes ++ op[a] /\ DOMAIN op' = Admins
    BY DEF OpShape
<1>2. Whole(changes ++ op[a]) /\ Carries(op[a], changes ++ op[a])
    BY <1>1 DEF Whole, Carries, Carried, AboutSink, ++
<1> QED
    BY <1>1, <1>2 DEF Moves, Steps

LEMMA PcKeeps ==
    ASSUME NEW a \in Admins, OpShape, op[a] # NoOp, NEW pc, op' = [op EXCEPT ![a].pc = pc],
           dropped' = dropped, UNCHANGED <<idem, audit, clock, scenario>>, answer' = Nobody
    PROVE  Steps(a)
<1>1. Whole(op[a]) /\ op'[a] = [op[a] EXCEPT !.pc = pc] /\ DOMAIN op' = Admins
    BY DEF OpShape
<1>2. Whole(op'[a]) /\ Carries(op[a], op'[a])
    BY <1>1 DEF Whole, Carries, Carried, AboutSink
<1> QED
    BY <1>1, <1>2 DEF Moves, Steps

LEMMA GivesUp ==
    ASSUME NEW a \in Admins, OpShape, op[a] # NoOp, op' = [op EXCEPT ![a] = NoOp],
           dropped' \in {dropped, dropped + 1}, UNCHANGED <<idem, audit, clock, scenario>>,
           answer' = Nobody
    PROVE  Steps(a)
BY DEF Moves, Steps, OpShape

\* InsertRow, CompareAndSet and WriteUnchecked move the request on.
LEMMA InsertRowMoves ==
    ASSUME NEW a \in Admins, OpShape, NEW k, InsertRow(a, k)
    PROVE  Steps(a)
<1> DEFINE changes == [id |-> Len(db[k]) + 1, after |-> 1, pc |-> op[a].then]
<1>1. op[a] # NoOp
    BY DEF InsertRow, NoOp
<1>2. /\ op' = [op EXCEPT ![a] = changes ++ @]
      /\ dropped' = dropped /\ UNCHANGED <<idem, audit, clock, scenario>> /\ answer' = Nobody
    BY DEF InsertRow, records, fixed
<1>3. \A f \in Carried \cup {"tenant", "wrote", "about"} : f \notin DOMAIN changes
    BY DEF Carried
<1> HIDE DEF changes
<1> QED
    BY <1>1, <1>2, <1>3, ChangesKeep

LEMMA WriteUncheckedMoves ==
    ASSUME NEW a \in Admins, OpShape, NEW k, WriteUnchecked(a, k)
    PROVE  Steps(a)
<1> DEFINE changes == [after |-> Row(k, op[a].id).version + 1, pc |-> "finish"]
<1>1. op[a] # NoOp
    BY DEF WriteUnchecked, NoOp
<1>2. /\ op' = [op EXCEPT ![a] = changes ++ @]
      /\ dropped' = dropped /\ UNCHANGED <<idem, audit, clock, scenario>> /\ answer' = Nobody
    BY DEF WriteUnchecked, records, fixed
<1>3. \A f \in Carried \cup {"tenant", "wrote", "about"} : f \notin DOMAIN changes
    BY DEF Carried
<1> HIDE DEF changes
<1> QED
    BY <1>1, <1>2, <1>3, ChangesKeep

LEMMA CompareAndSetMoves ==
    ASSUME NEW a \in Admins, OpShape, NEW k, CompareAndSet(a, k)
    PROVE  Steps(a)
<1> DEFINE changes == [after |-> Row(k, op[a].id).version + 1, pc |-> op[a].then]
<1>1. op[a] # NoOp
    BY DEF CompareAndSet, NoOp
<1>2. /\ op' = [op EXCEPT ![a] = NoOp] \/ op' = [op EXCEPT ![a] = changes ++ @]
      /\ dropped' = dropped /\ UNCHANGED <<idem, audit, clock, scenario>> /\ answer' = Nobody
    BY DEF CompareAndSet, records, fixed
<1>3. \A f \in Carried \cup {"tenant", "wrote", "about"} : f \notin DOMAIN changes
    BY DEF Carried
<1> HIDE DEF changes
<1> QED
    BY <1>1, <1>2, <1>3, ChangesKeep, GivesUp
\* More fields in front of a "next" leave it so, unless they are carried ones.
LEMMA Extended ==
    ASSUME NEW more, NEW next,
           Clean(more), Clean(next),
           "pc" \in DOMAIN next
    PROVE  /\ "pc" \in DOMAIN (more ++ next)
           /\ Clean(more ++ next)
BY DEF ++, Clean, AboutSink

\* The handler of an emergency operation.
LEMMA EmergencyAsks ==
    ASSUME NEW a \in Admins, NEW route \in EmergencyRoutes, NEW operation, NEW k, NEW id, NEW r,
           NEW late, NEW next,
           Mutating(a, route), Emergency(a, route, operation, k, id, r, late, next),
           "pc" \in DOMAIN next,
           Clean(next)
    PROVE  Steps(a)
<1> DEFINE more == [row |-> EmergencyOperationRecord(TenantOf[a], operation, <<k, id>>, r.expires)]
<1>1. PICK key \in Keys :
         RequestNoting(a, route, ValidateEmergencyOperationRequest(r), <<operation, id>>, key, r,
                       {}, ForActor(k, a, id) /\ r.expected > 0 /\ late, more ++ next)
    BY DEF Emergency, Request
<1>2. Clean(more)
    BY DEF Carried, Clean, AboutSink
<1> HIDE DEF more
<1> QED
    BY <1>1, <1>2, Extended, RequestAsks
-----------------------------------------------------------------------------
(* Every action has one of the shapes                                      *)

LEMMA ProviderSteps ==
    ASSUME NEW a \in Admins, OpShape, ProviderNext(a)
    PROVE  Steps(a)
<1>1. CASE ListSecretRefs(a)
    BY <1>1, ListsLook, TenantRows DEF ListSecretRefs
<1>2. CASE GetSecretRef(a)
    BY <1>2, GetsLook DEF GetSecretRef
<1>3. CASE GetSecretRefLocator(a)
    BY <1>3, GetsLook DEF GetSecretRefLocator
<1>4. CASE CreateSecretRef(a)
    BY <1>4, CreatesAsks DEF CreateSecretRef, RouteAllowedDuringConfigFreeze
<1>5. CASE StoreSecretRef(a)
  <2> DEFINE changes == [id |-> Len(db["secret_ref"]) + 1, after |-> 1,
                          value |-> op[a].row.f.fingerprint,
                          pc |-> IF op[a].row.f.backend = "memory" THEN "store_value"
                                 ELSE "finish"]
  <2>1. op[a] # NoOp
      BY <1>5 DEF StoreSecretRef, NoOp
  <2>2. /\ op' = [op EXCEPT ![a] = changes ++ @]
        /\ dropped' = dropped /\ UNCHANGED <<idem, audit, clock, scenario>>
        /\ answer' = Nobody
      BY <1>5 DEF StoreSecretRef, records, fixed
  <2>3. \A f \in Carried \cup {"tenant", "wrote", "about"} : f \notin DOMAIN changes
      BY DEF Carried
  <2> HIDE DEF changes
  <2> QED
      BY <2>1, <2>2, <2>3, ChangesKeep
<1>6. CASE UpdateSecretRef(a)
    BY <1>6, UpdatesStatusAsks DEF UpdateSecretRef, RouteAllowedDuringConfigFreeze
<1>7. CASE UpdateSecretRefStatus(a)
    BY <1>7, CompareAndSetMoves DEF UpdateSecretRefStatus
<1>8. CASE RotateSecretRef(a)
  <2> DEFINE next(id, expected, key, value) ==
                 [value |-> value]
                   ++ Writing("secret_ref", id, expected, NewStatus("rotating"))
  <2>1. PICK id \in Ids("secret_ref"), expected \in 1 .. MaxVersion, key \in Keys,
              value \in Requests["secret_value"] :
           RequestNoting(a, "rotate_secret_ref", ForActor("secret_ref", a, id),
                         <<"rotate_secret_ref", id>>, key, <<expected, value>>, {}, TRUE,
                         next(id, expected, key, value))
      BY <1>8 DEF RotateSecretRef, Request
  <2>2. "pc" \in DOMAIN next(id, expected, key, value)
        /\ Clean(next(id, expected, key, value))
      BY NextsCarry, Extended DEF Carried, Clean, AboutSink
  <2>3. Mutating(a, "rotate_secret_ref")
      BY <1>8 DEF RotateSecretRef
  <2>4. "rotate_secret_ref" \in EmergencyRoutes \/ ~ RouteAllowedDuringConfigFreeze("rotate_secret_ref")
      BY DEF RouteAllowedDuringConfigFreeze, EmergencyRoutes
  <2> HIDE DEF next
  <2> QED
      BY <2>1, <2>2, <2>3, <2>4, RequestAsks
<1>9. CASE StoreRotatedSecretRef(a)
    BY <1>9, ChangesKeep, GivesUp DEF StoreRotatedSecretRef, records, fixed, NoOp, Carried
<1>10. CASE StoreSecretValue(a)
  <2>1. op[a] # NoOp
      BY <1>10 DEF StoreSecretValue, NoOp
  <2>2. /\ op' = [op EXCEPT ![a].pc = "finish"]
        /\ dropped' = dropped /\ UNCHANGED <<idem, audit, clock, scenario>>
        /\ answer' = Nobody
      BY <1>10 DEF StoreSecretValue, records, fixed
  <2> QED
      BY <2>1, <2>2, PcKeeps
<1>11. CASE ListProviderEndpoints(a)
    BY <1>11, ListsLook, TenantRows DEF ListProviderEndpoints
<1>12. CASE GetProviderEndpoint(a)
    BY <1>12, GetsLook DEF GetProviderEndpoint
<1>13. CASE ValidateProviderEndpoint(a)
    BY <1>13, ValidatesLook DEF ValidateProviderEndpoint
<1>14. CASE CreateProviderEndpoint(a)
    BY <1>14, CreatesAsks DEF CreateProviderEndpoint, RouteAllowedDuringConfigFreeze
<1>15. CASE StoreProviderEndpoint(a)
    BY <1>15, InsertRowMoves DEF StoreProviderEndpoint
<1>16. CASE UpdateProviderEndpoint(a)
    BY <1>16, UpdatesStatusAsks DEF UpdateProviderEndpoint, RouteAllowedDuringConfigFreeze
<1>17. CASE UpdateProviderEndpointStatus(a)
    BY <1>17, CompareAndSetMoves DEF UpdateProviderEndpointStatus
<1>18. CASE ListUpstreamCredentials(a)
    BY <1>18, ListsLook, TenantRows DEF ListUpstreamCredentials
<1>19. CASE GetUpstreamCredential(a)
    BY <1>19, GetsLook DEF GetUpstreamCredential
<1>20. CASE ValidateUpstreamCredential(a)
    BY <1>20, ValidatesLook DEF ValidateUpstreamCredential
<1>21. CASE CreateUpstreamCredential(a)
    BY <1>21, CreatesAsks DEF CreateUpstreamCredential, RouteAllowedDuringConfigFreeze
<1>22. CASE StoreUpstreamCredential(a)
    BY <1>22, InsertRowMoves DEF StoreUpstreamCredential
<1>23. CASE UpdateUpstreamCredential(a)
    BY <1>23, UpdatesStatusAsks DEF UpdateUpstreamCredential, RouteAllowedDuringConfigFreeze
<1>24. CASE UpdateUpstreamCredentialStatus(a)
    BY <1>24, CompareAndSetMoves DEF UpdateUpstreamCredentialStatus
<1>25. CASE ListPricingSkus(a)
    BY <1>25, ListsLook, TenantRows DEF ListPricingSkus
<1>26. CASE GetPricingSku(a)
    BY <1>26, GetsLook DEF GetPricingSku
<1>27. CASE ValidatePricingSku(a)
    BY <1>27, ValidatesLook DEF ValidatePricingSku
<1>28. CASE CreatePricingSku(a)
    BY <1>28, CreatesAsks DEF CreatePricingSku, RouteAllowedDuringConfigFreeze
<1>29. CASE StorePricingSku(a)
    BY <1>29, InsertRowMoves DEF StorePricingSku
<1>30. CASE UpdatePricingSku(a)
    BY <1>30, UpdatesStatusAsks DEF UpdatePricingSku, RouteAllowedDuringConfigFreeze
<1>31. CASE UpdatePricingSkuStatus(a)
    BY <1>31, CompareAndSetMoves DEF UpdatePricingSkuStatus
<1>32. CASE ListModelTargets(a)
    BY <1>32, ListsLook, TenantRows DEF ListModelTargets
<1>33. CASE GetModelTarget(a)
    BY <1>33, GetsLook DEF GetModelTarget
<1>34. CASE ValidateModelTarget(a)
    BY <1>34, ValidatesLook DEF ValidateModelTarget
<1>35. CASE CreateModelTarget(a)
    BY <1>35, CreatesAsks DEF CreateModelTarget, RouteAllowedDuringConfigFreeze
<1>36. CASE StoreModelTarget(a)
    BY <1>36, InsertRowMoves DEF StoreModelTarget
<1>37. CASE UpdateModelTarget(a)
    BY <1>37, UpdatesStatusAsks DEF UpdateModelTarget, RouteAllowedDuringConfigFreeze
<1>38. CASE UpdateModelTargetStatus(a)
    BY <1>38, CompareAndSetMoves DEF UpdateModelTargetStatus
<1>39. CASE ListCatalogImports(a)
    BY <1>39, ListsLook, TenantRows DEF ListCatalogImports
<1>40. CASE GetCatalogImport(a)
    BY <1>40, GetsLook DEF GetCatalogImport
<1>41. CASE ValidateCatalogImport(a)
    BY <1>41, ValidatesLook DEF ValidateCatalogImport
<1>42. CASE CreateCatalogImport(a)
    BY <1>42, RequestAsks, NextsCarry DEF CreateCatalogImport, RouteAllowedDuringConfigFreeze,
       EmergencyRoutes, Request
<1>43. CASE StoreCatalogImport(a)
    BY <1>43, InsertRowMoves DEF StoreCatalogImport
<1> QED
    BY <1>1, <1>2, <1>3, <1>4, <1>5, <1>6, <1>7, <1>8, <1>9, <1>10, <1>11, <1>12, <1>13, <1>14,
       <1>15, <1>16, <1>17, <1>18, <1>19, <1>20, <1>21, <1>22, <1>23, <1>24, <1>25, <1>26,
       <1>27, <1>28, <1>29, <1>30, <1>31, <1>32, <1>33, <1>34, <1>35, <1>36, <1>37, <1>38,
       <1>39, <1>40, <1>41, <1>42, <1>43 DEF ProviderNext

LEMMA CodexSteps ==
    ASSUME NEW a \in Admins, OpShape, CodexNext(a)
    PROVE  Steps(a)
<1>1. CASE ListCodexOauthConnections(a)
    BY <1>1, ListsLook, TenantRows DEF ListCodexOauthConnections
<1>2. CASE GetCodexOauthConnection(a)
    BY <1>2, GetsLook DEF GetCodexOauthConnection
<1>3. CASE CreateCodexOauthConnection(a)
    BY <1>3, CreatesAsks DEF CreateCodexOauthConnection, RouteAllowedDuringConfigFreeze
<1>4. CASE StoreCodexOauthConnection(a)
    BY <1>4, InsertRowMoves DEF StoreCodexOauthConnection
<1>5. CASE UpdateCodexOauthConnection(a)
    BY <1>5, UpdatesStatusAsks DEF UpdateCodexOauthConnection, RouteAllowedDuringConfigFreeze
<1>6. CASE UpdateCodexOauthConnectionStatus(a)
    BY <1>6, ChangesKeep, GivesUp DEF UpdateCodexOauthConnectionStatus, records, fixed, NoOp,
       Carried
<1>7. CASE ListCodexOauthSessions(a)
    BY <1>7, ReadsLook, TenantRows DEF ListCodexOauthSessions, ForActor, OwnRow
<1>8. CASE GetCodexOauthSession(a)
    BY <1>8, GetsLook DEF GetCodexOauthSession
<1>9. CASE GetCodexOauthRefreshStatus(a)
    BY <1>9, ReadsLook, TenantRows DEF GetCodexOauthRefreshStatus, ForActor, OwnRow
<1>10. CASE StartCodexOauthSession(a)
  <2> DEFINE credential(id, r) == [org |-> Row("codex_connection", id).f.org,
                                    endpoint |-> Row("codex_connection", id).f.endpoint,
                                    secret |-> r.secret]
             next(id, r) == [pc |-> "credential", kind |-> "codex_session", connection |-> id,
                             row |-> NewRow(TenantOf[a], credential(id, r), "active"),
                             expires |-> r.expires, before |-> None]
             late(id, r) ==
                 /\ r.expires # None => r.expires > clock
                 /\ ValidateCodexOauthSessionRequest(TenantOf[a], id, r)
                 /\ ValidateUpstreamCredentialEndpoint(TenantOf[a], credential(id, r))
  <2>1. PICK id \in Ids("codex_connection"), r \in Requests["codex_session"], key \in Keys :
           RequestNoting(a, "start_codex_oauth_session", ForActor("codex_connection", a, id),
                         <<"start_codex_oauth_session", id>>, key, r, {}, late(id, r),
                         next(id, r))
      BY <1>10 DEF StartCodexOauthSession, Request
  <2>2. "pc" \in DOMAIN next(id, r)
        /\ Clean(next(id, r))
      BY DEF Carried, Clean, AboutSink
  <2>3. Mutating(a, "start_codex_oauth_session")
      BY <1>10 DEF StartCodexOauthSession
  <2>4. ~ RouteAllowedDuringConfigFreeze("start_codex_oauth_session")
      BY DEF RouteAllowedDuringConfigFreeze, EmergencyRoutes
  <2> HIDE DEF next, late
  <2> QED
      BY <2>1, <2>2, <2>3, <2>4, RequestAsks
<1>11. CASE StoreSessionCredential(a)
  <2> DEFINE changes == [credential |-> Len(db["upstream_credential"]) + 1, pc |-> "session"]
  <2>1. op[a] # NoOp
      BY <1>11 DEF StoreSessionCredential, NoOp
  <2>2. /\ op' = [op EXCEPT ![a] = changes ++ @]
        /\ dropped' = dropped /\ UNCHANGED <<idem, audit, clock, scenario>>
        /\ answer' = Nobody
      BY <1>11 DEF StoreSessionCredential, records, fixed
  <2>3. \A f \in Carried \cup {"tenant", "wrote", "about"} : f \notin DOMAIN changes
      BY DEF Carried
  <2> HIDE DEF changes
  <2> QED
      BY <2>1, <2>2, <2>3, ChangesKeep
<1>12. CASE StoreSession(a)
  <2> DEFINE changes == [id |-> Len(db["codex_session"]) + 1, after |-> 1, pc |-> "connect"]
  <2>1. op[a] # NoOp
      BY <1>12 DEF StoreSession, NoOp
  <2>2. /\ op' = [op EXCEPT ![a] = changes ++ @]
        /\ dropped' = dropped /\ UNCHANGED <<idem, audit, clock, scenario>>
        /\ answer' = Nobody
      BY <1>12 DEF StoreSession, records, fixed
  <2>3. \A f \in Carried \cup {"tenant", "wrote", "about"} : f \notin DOMAIN changes
      BY DEF Carried
  <2> HIDE DEF changes
  <2> QED
      BY <2>1, <2>2, <2>3, ChangesKeep
<1>13. CASE ConnectSession(a)
  <2>1. op[a] # NoOp
      BY <1>13 DEF ConnectSession, NoOp
  <2>2. /\ op' = [op EXCEPT ![a].pc = "finish"]
        /\ dropped' = dropped /\ UNCHANGED <<idem, audit, clock, scenario>>
        /\ answer' = Nobody
      BY <1>13 DEF ConnectSession, records, fixed
  <2> QED
      BY <2>1, <2>2, PcKeeps
<1>14. CASE RevokeCodexOauthSession(a)
  <2> DEFINE next(id) ==
                 [pc |-> "revoke", kind |-> "codex_session", id |-> id,
                          before |-> Row("codex_session", id).version]
  <2>1. PICK id \in Ids("codex_session") :
           RequestNoting(a, "revoke_codex_oauth_session", ForActor("codex_session", a, id),
                         <<"revoke_codex_oauth_session">>, NoKey, id, {}, TRUE,
                         next(id))
      BY <1>14 DEF RevokeCodexOauthSession, Request
  <2>2. "pc" \in DOMAIN next(id)
        /\ Clean(next(id))
      BY DEF Carried, Clean, AboutSink
  <2>3. Mutating(a, "revoke_codex_oauth_session")
      BY <1>14 DEF RevokeCodexOauthSession
  <2>4. "revoke_codex_oauth_session" \in EmergencyRoutes \/ ~ RouteAllowedDuringConfigFreeze("revoke_codex_oauth_session")
      BY DEF RouteAllowedDuringConfigFreeze, EmergencyRoutes
  <2> HIDE DEF next
  <2> QED
      BY <2>1, <2>2, <2>3, <2>4, RequestAsks
<1>15. CASE RevokeSession(a)
  <2> DEFINE changes == [after |-> Row("codex_session", op[a].id).version + 1,
                          pc |-> "disable"]
  <2>1. op[a] # NoOp
      BY <1>15 DEF RevokeSession, NoOp
  <2>2. /\ op' = [op EXCEPT ![a] = changes ++ @]
        /\ dropped' = dropped /\ UNCHANGED <<idem, audit, clock, scenario>>
        /\ answer' = Nobody
      BY <1>15 DEF RevokeSession, records, fixed
  <2>3. \A f \in Carried \cup {"tenant", "wrote", "about"} : f \notin DOMAIN changes
      BY DEF Carried
  <2> HIDE DEF changes
  <2> QED
      BY <2>1, <2>2, <2>3, ChangesKeep
<1>16. CASE DisableUpstreamCredentialIfCurrent(a)
  <2>1. op[a] # NoOp
      BY <1>16 DEF DisableUpstreamCredentialIfCurrent, NoOp
  <2>2. /\ op' = [op EXCEPT ![a].pc = "disconnect"]
        /\ dropped' = dropped /\ UNCHANGED <<idem, audit, clock, scenario>>
        /\ answer' = Nobody
      BY <1>16 DEF DisableUpstreamCredentialIfCurrent, records, fixed
  <2> QED
      BY <2>1, <2>2, PcKeeps
<1>17. CASE DisconnectSession(a)
  <2>1. op[a] # NoOp
      BY <1>17 DEF DisconnectSession, NoOp
  <2>2. /\ op' = [op EXCEPT ![a].pc = "finish"]
        /\ dropped' = dropped /\ UNCHANGED <<idem, audit, clock, scenario>>
        /\ answer' = Nobody
      BY <1>17 DEF DisconnectSession, records, fixed
  <2> QED
      BY <2>1, <2>2, PcKeeps
<1> QED
    BY <1>1, <1>2, <1>3, <1>4, <1>5, <1>6, <1>7, <1>8, <1>9, <1>10, <1>11, <1>12, <1>13, <1>14,
       <1>15, <1>16, <1>17 DEF CodexNext

LEMMA RoutingSteps ==
    ASSUME NEW a \in Admins, OpShape, RoutingNext(a)
    PROVE  Steps(a)
<1>1. CASE ListRoutingGroups(a)
    BY <1>1, ListsLook, TenantRows DEF ListRoutingGroups
<1>2. CASE GetRoutingGroup(a)
    BY <1>2, GetsLook DEF GetRoutingGroup
<1>3. CASE ValidateRoutingGroup(a)
    BY <1>3, ValidatesLook DEF ValidateRoutingGroup
<1>4. CASE CreateRoutingGroup(a)
    BY <1>4, CreatesAsks DEF CreateRoutingGroup, RouteAllowedDuringConfigFreeze
<1>5. CASE StoreRoutingGroup(a)
    BY <1>5, InsertRowMoves DEF StoreRoutingGroup
<1>6. CASE UpdateRoutingGroup(a)
    BY <1>6, UpdatesStatusAsks DEF UpdateRoutingGroup, RouteAllowedDuringConfigFreeze
<1>7. CASE UpdateRoutingGroupStatus(a)
    BY <1>7, CompareAndSetMoves DEF UpdateRoutingGroupStatus
<1>8. CASE ListRoutingGroupTargets(a)
    BY <1>8, ListsLook, TenantRows DEF ListRoutingGroupTargets
<1>9. CASE GetRoutingGroupTarget(a)
    BY <1>9, ReadsLook DEF GetRoutingGroupTarget, ForActor, OwnRow, GroupTargetForActor,
       SubscriptionForActor
<1>10. CASE ValidateRoutingGroupTarget(a)
    BY <1>10, ValidatesLook DEF ValidateRoutingGroupTarget
<1>11. CASE CreateRoutingGroupTarget(a)
    BY <1>11, RequestAsks, NextsCarry DEF CreateRoutingGroupTarget,
       RouteAllowedDuringConfigFreeze, EmergencyRoutes, Request
<1>12. CASE StoreRoutingGroupTarget(a)
    BY <1>12, InsertRowMoves DEF StoreRoutingGroupTarget
<1>13. CASE UpdateRoutingGroupTarget(a)
    BY <1>13, RequestAsks, NextsCarry DEF UpdateRoutingGroupTarget,
       RouteAllowedDuringConfigFreeze, EmergencyRoutes, Request
<1>14. CASE UpdateRoutingGroupTargetStatus(a)
    BY <1>14, CompareAndSetMoves DEF UpdateRoutingGroupTargetStatus
<1>15. CASE ListModelAliases(a)
    BY <1>15, ListsLook, TenantRows DEF ListModelAliases
<1>16. CASE GetModelAlias(a)
    BY <1>16, GetsLook DEF GetModelAlias
<1>17. CASE ValidateModelAlias(a)
    BY <1>17, ValidatesLook DEF ValidateModelAlias
<1>18. CASE CreateModelAlias(a)
    BY <1>18, CreatesAsks DEF CreateModelAlias, RouteAllowedDuringConfigFreeze
<1>19. CASE StoreModelAlias(a)
    BY <1>19, InsertRowMoves DEF StoreModelAlias
<1>20. CASE UpdateModelAlias(a)
    BY <1>20, RequestAsks, NextsCarry DEF UpdateModelAlias, RouteAllowedDuringConfigFreeze,
       EmergencyRoutes, Request
<1>21. CASE WriteModelAlias(a)
    BY <1>21, CompareAndSetMoves DEF WriteModelAlias
<1>22. CASE ListRoutePolicies(a)
    BY <1>22, ListsLook, TenantRows DEF ListRoutePolicies
<1>23. CASE GetRoutePolicy(a)
    BY <1>23, GetsLook DEF GetRoutePolicy
<1>24. CASE ValidateRoutePolicy(a)
    BY <1>24, ValidatesLook DEF ValidateRoutePolicy
<1>25. CASE CreateRoutePolicy(a)
    BY <1>25, CreatesAsks DEF CreateRoutePolicy, RouteAllowedDuringConfigFreeze
<1>26. CASE StoreRoutePolicy(a)
    BY <1>26, InsertRowMoves DEF StoreRoutePolicy
<1>27. CASE UpdateRoutePolicy(a)
    BY <1>27, UpdatesStatusAsks DEF UpdateRoutePolicy, RouteAllowedDuringConfigFreeze
<1>28. CASE UpdateRoutePolicyStatus(a)
    BY <1>28, CompareAndSetMoves DEF UpdateRoutePolicyStatus
<1>29. CASE ListProviderGrants(a)
    BY <1>29, ListsLook, TenantRows DEF ListProviderGrants
<1>30. CASE GetProviderGrant(a)
    BY <1>30, GetsLook DEF GetProviderGrant
<1>31. CASE ValidateProviderGrant(a)
    BY <1>31, ValidatesLook DEF ValidateProviderGrant
<1>32. CASE CreateProviderGrant(a)
    BY <1>32, CreatesAsks DEF CreateProviderGrant, RouteAllowedDuringConfigFreeze
<1>33. CASE StoreProviderGrant(a)
    BY <1>33, InsertRowMoves DEF StoreProviderGrant
<1>34. CASE UpdateProviderGrant(a)
    BY <1>34, UpdatesStatusAsks DEF UpdateProviderGrant, RouteAllowedDuringConfigFreeze
<1>35. CASE UpdateProviderGrantStatus(a)
    BY <1>35, CompareAndSetMoves DEF UpdateProviderGrantStatus
<1> QED
    BY <1>1, <1>2, <1>3, <1>4, <1>5, <1>6, <1>7, <1>8, <1>9, <1>10, <1>11, <1>12, <1>13, <1>14,
       <1>15, <1>16, <1>17, <1>18, <1>19, <1>20, <1>21, <1>22, <1>23, <1>24, <1>25, <1>26,
       <1>27, <1>28, <1>29, <1>30, <1>31, <1>32, <1>33, <1>34, <1>35 DEF RoutingNext

LEMMA PolicySteps ==
    ASSUME NEW a \in Admins, OpShape, PolicyNext(a)
    PROVE  Steps(a)
<1>1. CASE ListBudgetPolicies(a)
    BY <1>1, ListsLook, TenantRows DEF ListBudgetPolicies
<1>2. CASE GetBudgetPolicy(a)
    BY <1>2, GetsLook DEF GetBudgetPolicy
<1>3. CASE ValidateBudgetPolicy(a)
    BY <1>3, ValidatesLook DEF ValidateBudgetPolicy
<1>4. CASE CreateBudgetPolicy(a)
    BY <1>4, CreatesAsks DEF CreateBudgetPolicy, RouteAllowedDuringConfigFreeze
<1>5. CASE StoreBudgetPolicy(a)
    BY <1>5, InsertRowMoves DEF StoreBudgetPolicy
<1>6. CASE UpdateBudgetPolicy(a)
    BY <1>6, UpdatesStatusAsks DEF UpdateBudgetPolicy, RouteAllowedDuringConfigFreeze
<1>7. CASE UpdateBudgetPolicyStatus(a)
    BY <1>7, CompareAndSetMoves DEF UpdateBudgetPolicyStatus
<1>8. CASE ListQuotaPolicies(a)
    BY <1>8, ListsLook, TenantRows DEF ListQuotaPolicies
<1>9. CASE GetQuotaPolicy(a)
    BY <1>9, GetsLook DEF GetQuotaPolicy
<1>10. CASE ValidateQuotaPolicy(a)
    BY <1>10, ValidatesLook DEF ValidateQuotaPolicy
<1>11. CASE CreateQuotaPolicy(a)
    BY <1>11, CreatesAsks DEF CreateQuotaPolicy, RouteAllowedDuringConfigFreeze
<1>12. CASE StoreQuotaPolicy(a)
    BY <1>12, InsertRowMoves DEF StoreQuotaPolicy
<1>13. CASE UpdateQuotaPolicy(a)
    BY <1>13, UpdatesStatusAsks DEF UpdateQuotaPolicy, RouteAllowedDuringConfigFreeze
<1>14. CASE UpdateQuotaPolicyStatus(a)
    BY <1>14, CompareAndSetMoves DEF UpdateQuotaPolicyStatus
<1>15. CASE ListOtelExportConfigs(a)
    BY <1>15, ListsLook, TenantRows DEF ListOtelExportConfigs
<1>16. CASE GetOtelExportConfig(a)
    BY <1>16, GetsLook DEF GetOtelExportConfig
<1>17. CASE ValidateOtelExportConfig(a)
    BY <1>17, ValidatesLook DEF ValidateOtelExportConfig
<1>18. CASE CreateOtelExportConfig(a)
    BY <1>18, CreatesAsks DEF CreateOtelExportConfig, RouteAllowedDuringConfigFreeze
<1>19. CASE StoreOtelExportConfig(a)
    BY <1>19, InsertRowMoves DEF StoreOtelExportConfig
<1>20. CASE UpdateOtelExportConfig(a)
    BY <1>20, RequestAsks, NextsCarry DEF UpdateOtelExportConfig,
       RouteAllowedDuringConfigFreeze, EmergencyRoutes, Request
<1>21. CASE DisableOtelExportConfig(a)
    BY <1>21, RequestAsks, NextsCarry DEF DisableOtelExportConfig,
       RouteAllowedDuringConfigFreeze, EmergencyRoutes, Request
<1>22. CASE WriteOtelExportConfig(a)
    BY <1>22, WriteUncheckedMoves DEF WriteOtelExportConfig
<1>23. CASE ListNotificationSinks(a)
    BY <1>23, ListsLook, TenantRows DEF ListNotificationSinks
<1>24. CASE GetNotificationSink(a)
    BY <1>24, GetsLook DEF GetNotificationSink
<1>25. CASE ValidateNotificationSink(a)
    BY <1>25, ValidatesLook DEF ValidateNotificationSink
<1>26. CASE CreateNotificationSink(a)
    BY <1>26, CreatesAsks DEF CreateNotificationSink, RouteAllowedDuringConfigFreeze
<1>27. CASE StoreNotificationSink(a)
    BY <1>27, InsertRowMoves DEF StoreNotificationSink
<1>28. CASE UpdateNotificationSink(a)
    BY <1>28, RequestAsks, NextsCarry DEF UpdateNotificationSink,
       RouteAllowedDuringConfigFreeze, EmergencyRoutes, Request
<1>29. CASE WriteNotificationSink(a)
    BY <1>29, WriteUncheckedMoves DEF WriteNotificationSink
<1>30. CASE ListNotificationSubscriptions(a)
    BY <1>30, ReadsLook, TenantRows DEF ListNotificationSubscriptions, ForActor, OwnRow
<1>31. CASE GetNotificationSubscription(a)
    BY <1>31, ReadsLook DEF GetNotificationSubscription, ForActor, OwnRow, GroupTargetForActor,
       SubscriptionForActor
<1>32. CASE ValidateNotificationSubscription(a)
    BY <1>32, ValidatesLook DEF ValidateNotificationSubscription
<1>33. CASE CreateNotificationSubscription(a)
  <2> DEFINE next(sink, r, key) ==
                 [about |-> <<"sink", sink>>]
                   ++ Inserting("subscription",
                               NotificationSubscriptionRecord(TenantOf[a], sink, r))
  <2>1. PICK sink \in Ids("sink"), r \in Requests["subscription"], key \in Keys :
           RequestNoting(a, "create_notification_subscription", TRUE,
                         <<"create_notification_subscription", sink>>, key, r, {},
                         /\ NotificationSubscriptionValidation(a, sink, r)
                         /\ ValidateNotificationSubscriptionRequest(TenantOf[a], sink, r),
                         next(sink, r, key))
      BY <1>33 DEF CreateNotificationSubscription, Request
  <2>2. "pc" \in DOMAIN next(sink, r, key)
        /\ Clean(next(sink, r, key))
      BY NextsCarry, Extended DEF Carried, Clean, AboutSink
  <2>3. Mutating(a, "create_notification_subscription")
      BY <1>33 DEF CreateNotificationSubscription
  <2>4. "create_notification_subscription" \in EmergencyRoutes \/ ~ RouteAllowedDuringConfigFreeze("create_notification_subscription")
      BY DEF RouteAllowedDuringConfigFreeze, EmergencyRoutes
  <2> HIDE DEF next
  <2> QED
      BY <2>1, <2>2, <2>3, <2>4, RequestAsks
<1>34. CASE StoreNotificationSubscription(a)
    BY <1>34, InsertRowMoves DEF StoreNotificationSubscription
<1>35. CASE UpdateNotificationSubscription(a)
  <2> DEFINE next(sink, id, expected, status) ==
                 [about |-> <<"sink", sink>>]
                   ++ Writing("subscription", id, expected, NewStatus(status))
  <2>1. PICK sink \in Ids("sink"), id \in Ids("subscription"),
              expected \in 1 .. MaxVersion, status \in {"active", "disabled", "deleted"} :
           RequestNoting(a, "update_notification_subscription", SubscriptionForActor(a, sink, id),
                         <<"update_notification_subscription">>, NoKey, id, {}, TRUE,
                         next(sink, id, expected, status))
      BY <1>35 DEF UpdateNotificationSubscription, Request
  <2>2. "pc" \in DOMAIN next(sink, id, expected, status)
        /\ Clean(next(sink, id, expected, status))
      BY NextsCarry, Extended DEF Carried, Clean, AboutSink
  <2>3. Mutating(a, "update_notification_subscription")
      BY <1>35 DEF UpdateNotificationSubscription
  <2>4. "update_notification_subscription" \in EmergencyRoutes \/ ~ RouteAllowedDuringConfigFreeze("update_notification_subscription")
      BY DEF RouteAllowedDuringConfigFreeze, EmergencyRoutes
  <2> HIDE DEF next
  <2> QED
      BY <2>1, <2>2, <2>3, <2>4, RequestAsks
<1>36. CASE UpdateNotificationSubscriptionStatus(a)
    BY <1>36, CompareAndSetMoves DEF UpdateNotificationSubscriptionStatus
<1>37. CASE ListLoginProviders(a)
    BY <1>37, ReadsLook, TenantRows DEF ListLoginProviders, ForActor, OwnRow
<1>38. CASE GetLoginProvider(a)
    BY <1>38, GetsLook DEF GetLoginProvider
<1>39. CASE ValidateLoginProvider(a)
    BY <1>39, ValidatesLook DEF ValidateLoginProvider
<1>40. CASE CreateLoginProvider(a)
    BY <1>40, CreatesAsks DEF CreateLoginProvider, RouteAllowedDuringConfigFreeze
<1>41. CASE StoreLoginProvider(a)
    BY <1>41, InsertRowMoves DEF StoreLoginProvider
<1>42. CASE UpdateLoginProvider(a)
    BY <1>42, UpdatesStatusAsks DEF UpdateLoginProvider, RouteAllowedDuringConfigFreeze
<1>43. CASE UpdateLoginProviderStatus(a)
    BY <1>43, CompareAndSetMoves DEF UpdateLoginProviderStatus
<1> QED
    BY <1>1, <1>2, <1>3, <1>4, <1>5, <1>6, <1>7, <1>8, <1>9, <1>10, <1>11, <1>12, <1>13, <1>14,
       <1>15, <1>16, <1>17, <1>18, <1>19, <1>20, <1>21, <1>22, <1>23, <1>24, <1>25, <1>26,
       <1>27, <1>28, <1>29, <1>30, <1>31, <1>32, <1>33, <1>34, <1>35, <1>36, <1>37, <1>38,
       <1>39, <1>40, <1>41, <1>42, <1>43 DEF PolicyNext

LEMMA OperationSteps ==
    ASSUME NEW a \in Admins, OpShape, OperationNext(a)
    PROVE  Steps(a)
<1>1. CASE ListMaintenanceWindows(a)
    BY <1>1, ListsLook, TenantRows DEF ListMaintenanceWindows
<1>2. CASE GetMaintenanceWindow(a)
    BY <1>2, GetsLook DEF GetMaintenanceWindow
<1>3. CASE ValidateMaintenanceWindow(a)
    BY <1>3, ValidatesLook DEF ValidateMaintenanceWindow
<1>4. CASE CreateMaintenanceWindow(a)
    BY <1>4, CreatesAsks DEF CreateMaintenanceWindow, RouteAllowedDuringConfigFreeze
<1>5. CASE StoreMaintenanceWindow(a)
    BY <1>5, InsertRowMoves DEF StoreMaintenanceWindow
<1>6. CASE UpdateMaintenanceWindow(a)
    BY <1>6, UpdatesStatusAsks DEF UpdateMaintenanceWindow, RouteAllowedDuringConfigFreeze
<1>7. CASE UpdateMaintenanceWindowStatus(a)
    BY <1>7, CompareAndSetMoves DEF UpdateMaintenanceWindowStatus
<1>8. CASE ListEmergencyOperations(a)
    BY <1>8, ListsLook, TenantRows DEF ListEmergencyOperations
<1>9. CASE GetEmergencyOperation(a)
    BY <1>9, GetsLook DEF GetEmergencyOperation
<1>10. CASE EmergencyDisableUpstreamCredential(a)
    BY <1>10, EmergencyAsks, NextsCarry, Extended DEF EmergencyDisableUpstreamCredential,
       Carried, EmergencyRoutes, Clean, AboutSink
<1>11. CASE EmergencyDisableProviderEndpoint(a)
    BY <1>11, EmergencyAsks, NextsCarry, Extended DEF EmergencyDisableProviderEndpoint,
       Carried, EmergencyRoutes, Clean, AboutSink
<1>12. CASE EmergencyDrainRoutingGroup(a)
    BY <1>12, EmergencyAsks, NextsCarry, Extended DEF EmergencyDrainRoutingGroup, Carried,
       EmergencyRoutes, Clean, AboutSink
<1>13. CASE EmergencyForceBudgetBlock(a)
    BY <1>13, EmergencyAsks, NextsCarry, Extended DEF EmergencyForceBudgetBlock, Carried,
       EmergencyRoutes, Clean, AboutSink
<1>14. CASE EmergencyFreezeConfig(a)
  <2> DEFINE next(r, key) ==
                 [pc |-> "emergency", before |-> None, after |-> 1,
                          row |-> EmergencyOperationRecord(TenantOf[a], "freeze_config",
                                            <<"config", TenantOf[a]>>, r.expires)]
  <2>1. PICK r \in Requests["emergency"], key \in Keys :
           RequestNoting(a, "emergency_freeze_config", ValidateEmergencyOperationRequest(r),
                         <<"freeze_config", TenantOf[a]>>, key, r, {}, TRUE,
                         next(r, key))
      BY <1>14 DEF EmergencyFreezeConfig, Request
  <2>2. "pc" \in DOMAIN next(r, key)
        /\ Clean(next(r, key))
      BY DEF Carried, Clean, AboutSink
  <2>3. Mutating(a, "emergency_freeze_config")
      BY <1>14 DEF EmergencyFreezeConfig
  <2>4. "emergency_freeze_config" \in EmergencyRoutes \/ ~ RouteAllowedDuringConfigFreeze("emergency_freeze_config")
      BY DEF RouteAllowedDuringConfigFreeze, EmergencyRoutes
  <2> HIDE DEF next
  <2> QED
      BY <2>1, <2>2, <2>3, <2>4, RequestAsks
<1>15. CASE SetEndpointEmergencyDrain(a)
  <2>1. op[a] # NoOp
      BY <1>15 DEF SetEndpointEmergencyDrain, NoOp
  <2>2. /\ op' = [op EXCEPT ![a].pc = "emergency"]
        /\ dropped' = dropped /\ UNCHANGED <<idem, audit, clock, scenario>>
        /\ answer' = Nobody
      BY <1>15 DEF SetEndpointEmergencyDrain, records, fixed
  <2> QED
      BY <2>1, <2>2, PcKeeps
<1>16. CASE StoreEmergencyOperation(a)
  <2> DEFINE changes == [kind |-> "emergency_operation",
                          id |-> Len(db["emergency_operation"]) + 1, pc |-> "finish"]
  <2>1. op[a] # NoOp
      BY <1>16 DEF StoreEmergencyOperation, NoOp
  <2>2. /\ op' = [op EXCEPT ![a] = changes ++ @]
        /\ dropped' = dropped /\ UNCHANGED <<idem, audit, clock, scenario>>
        /\ answer' = Nobody
      BY <1>16 DEF StoreEmergencyOperation, records, fixed
  <2>3. \A f \in Carried \cup {"tenant", "wrote", "about"} : f \notin DOMAIN changes
      BY DEF Carried
  <2> HIDE DEF changes
  <2> QED
      BY <2>1, <2>2, <2>3, ChangesKeep
<1>17. CASE ListExportJobs(a)
    BY <1>17, ListsLook, TenantRows DEF ListExportJobs
<1>18. CASE GetExportJob(a)
    BY <1>18, GetsLook DEF GetExportJob
<1>19. CASE GetExportJobManifest(a)
    BY <1>19, ReadsLook DEF GetExportJobManifest, ForActor, OwnRow, GroupTargetForActor,
       SubscriptionForActor
<1>20. CASE CreateExportJob(a)
  <2> DEFINE next(r, key) ==
                 [then |-> "build", expires |-> clock + r.retention, backend |-> r.backend]
                   ++ Inserting("export_job",
                               NewRow(TenantOf[a], [export_kind |-> r.export_kind], "pending"))
  <2>1. PICK r \in Requests["export_job"], key \in Keys :
           RequestNoting(a, "create_export_job", ExportJobRequest(r) /\ UsageScope(a, r),
                         <<"create_export_job">>, key, r, {}, ExportLimits(r),
                         next(r, key))
      BY <1>20 DEF CreateExportJob, Request
  <2>2. "pc" \in DOMAIN next(r, key)
        /\ Clean(next(r, key))
      BY NextsCarry, Extended DEF Carried, Clean, AboutSink
  <2>3. Mutating(a, "create_export_job")
      BY <1>20 DEF CreateExportJob
  <2>4. "create_export_job" \in EmergencyRoutes \/ ~ RouteAllowedDuringConfigFreeze("create_export_job")
      BY DEF RouteAllowedDuringConfigFreeze, EmergencyRoutes
  <2> HIDE DEF next
  <2> QED
      BY <2>1, <2>2, <2>3, <2>4, RequestAsks
<1>21. CASE StoreExportJob(a)
    BY <1>21, InsertRowMoves DEF StoreExportJob
<1>22. CASE CompleteExportJob(a)
  <2> DEFINE changes == [after |-> Row("export_job", op[a].id).version + 1,
                          pc |-> "manifest"]
  <2>1. op[a] # NoOp
      BY <1>22 DEF CompleteExportJob, NoOp
  <2>2. /\ op' = [op EXCEPT ![a] = changes ++ @]
        /\ dropped' = dropped /\ UNCHANGED <<idem, audit, clock, scenario>>
        /\ answer' = Nobody
      BY <1>22 DEF CompleteExportJob, records, fixed
  <2>3. \A f \in Carried \cup {"tenant", "wrote", "about"} : f \notin DOMAIN changes
      BY DEF Carried
  <2> HIDE DEF changes
  <2> QED
      BY <2>1, <2>2, <2>3, ChangesKeep
<1>23. CASE StoreExportManifest(a)
  <2>1. op[a] # NoOp
      BY <1>23 DEF StoreExportManifest, NoOp
  <2>2. /\ op' = [op EXCEPT ![a].pc = "finish"]
        /\ dropped' = dropped /\ UNCHANGED <<idem, audit, clock, scenario>>
        /\ answer' = Nobody
      BY <1>23 DEF StoreExportManifest, records, fixed
  <2> QED
      BY <2>1, <2>2, PcKeeps
<1>24. CASE Disconnect(a)
  <2>1. op[a] # NoOp
      BY <1>24 DEF Disconnect, NoOp
  <2>2. /\ op' = [op EXCEPT ![a] = NoOp]
        /\ dropped' = dropped + 1 /\ UNCHANGED <<idem, audit, clock, scenario>>
        /\ answer' = Nobody
      BY <1>24 DEF Disconnect, records
  <2> QED
      BY <2>1, <2>2, GivesUp
<1> QED
    BY <1>1, <1>2, <1>3, <1>4, <1>5, <1>6, <1>7, <1>8, <1>9, <1>10, <1>11, <1>12, <1>13, <1>14,
       <1>15, <1>16, <1>17, <1>18, <1>19, <1>20, <1>21, <1>22, <1>23, <1>24 DEF OperationNext
\* The case split, once for all the proofs.
LEMMA AdminSteps ==
    ASSUME OpShape, Next
    PROVE  \/ \E a \in Admins : Steps(a) \/ Finish(a)
           \/ Tick
BY ProviderSteps, CodexSteps, RoutingSteps, PolicySteps, OperationSteps DEF Next
-----------------------------------------------------------------------------
(* Once per key                                                            *)

\* A request in flight and an audited one with the same scope key.
SameKey(a, i) ==
    /\ op[a] # NoOp
    /\ TenantOf[a] = audit[i].tenant
    /\ op[a].scope = audit[i].scope /\ op[a].key = audit[i].key

\* The mutations OncePerKey counts.
Counts(i) == audit[i].key # NoKey /\ audit[i].alone

\* audit is a sequence, and no time lies in the future.
TimesOK ==
    /\ clock \in Nat
    /\ audit \in Seq({audit[i] : i \in DOMAIN audit})
    /\ \A i \in DOMAIN audit : audit[i].at \in Nat /\ audit[i].at <= clock
    /\ \A a \in Admins : op[a] # NoOp => op[a].at \in Nat /\ op[a].at <= clock
    /\ \A r \in idem : r.expires \in Nat

\* Two requests in flight with one scope key know that they are not alone.
RivalsKnow ==
    \A a, b \in Admins :
        (/\ a # b /\ op[a] # NoOp /\ op[b] # NoOp
         /\ TenantOf[a] = TenantOf[b]
         /\ op[a].scope = op[b].scope /\ op[a].key = op[b].key /\ op[a].key # NoKey)
          => ~ op[a].alone

\* An audited mutation is remembered under its scope key until its time is up.
Remembered ==
    \A i \in DOMAIN audit :
        Counts(i) =>
          \/ clock >= audit[i].at + IdempotencyTtl
          \/ \E r \in Stored(audit[i].tenant, audit[i].scope, audit[i].key) :
                r.expires >= audit[i].at + IdempotencyTtl

\* While it is, no request with its scope key is taken up.
Refused ==
    \A i \in DOMAIN audit, a \in Admins :
        Counts(i) /\ SameKey(a, i) => op[a].at >= audit[i].at + IdempotencyTtl

\* The inductive invariant behind OncePerKey.
KeyInv == OpShape /\ TimesOK /\ RivalsKnow /\ Remembered /\ Refused /\ OncePerKey

LEMMA KeyInvInit == AdminInit => KeyInv
<1> SUFFICES ASSUME AdminInit PROVE KeyInv
    OBVIOUS
<1>1. /\ \A a \in Admins : op[a] = NoOp
      /\ DOMAIN op = Admins /\ audit = << >> /\ idem = {} /\ clock = 0
    BY DEF AdminInit
<1>2. DOMAIN audit = {} /\ audit \in Seq({audit[i] : i \in DOMAIN audit})
    BY <1>1
<1> QED
    BY <1>1, <1>2
       DEF KeyInv, OpShape, TimesOK, RivalsKnow, Remembered, Refused, OncePerKey

\* Steps that leave requests, records, audit log and clock alone.
LEMMA LooksKeyInv ==
    ASSUME KeyInv, UNCHANGED <<op, idem, audit, clock>>
    PROVE  KeyInv'
BY DEF KeyInv, OpShape, TimesOK, RivalsKnow, Remembered, Refused, OncePerKey, Counts, SameKey,
       Stored

LEMMA TickKeyInv ==
    ASSUME KeyInv, Tick
    PROVE  KeyInv'
<1> USE DEF KeyInv
<1>1. UNCHANGED <<op, idem, audit>> /\ clock' = clock + 1 /\ clock \in Nat
    BY DEF Tick, records, TimesOK
<1>2. OpShape' /\ RivalsKnow' /\ Refused' /\ OncePerKey'
    BY <1>1 DEF OpShape, RivalsKnow, Refused, OncePerKey, Counts, SameKey
<1>3. TimesOK'
    BY <1>1 DEF TimesOK
<1>4. Remembered'
  <2> SUFFICES ASSUME NEW i \in DOMAIN audit, Counts(i)
               PROVE  \/ clock' >= audit[i].at + IdempotencyTtl
                      \/ \E r \in Stored(audit[i].tenant, audit[i].scope, audit[i].key) :
                            r.expires >= audit[i].at + IdempotencyTtl
      BY <1>1 DEF Remembered, Counts, Stored
  <2>1. audit[i].at + IdempotencyTtl \in Nat
      BY AdminAssumption DEF TimesOK
  <2> QED
      BY <1>1, <2>1 DEF Remembered
<1> QED
    BY <1>2, <1>3, <1>4

LEMMA MovesKeyInv ==
    ASSUME KeyInv, NEW a \in Admins, Moves(a)
    PROVE  KeyInv'
<1> USE DEF KeyInv
<1>1. UNCHANGED <<idem, audit, clock>> /\ op[a] # NoOp
    BY DEF Moves
<1>2. \A b \in Admins :
         op'[b] # NoOp => /\ op[b] # NoOp
                          /\ op'[b].scope = op[b].scope /\ op'[b].key = op[b].key
                          /\ op'[b].at = op[b].at /\ op'[b].alone = op[b].alone
    BY DEF Moves, Carries
<1>3. OpShape'
    BY DEF Moves, OpShape
<1>4. TimesOK' /\ RivalsKnow'
    BY <1>1, <1>2 DEF TimesOK, RivalsKnow
<1>5. Remembered' /\ OncePerKey'
    BY <1>1 DEF Remembered, OncePerKey, Counts, Stored
<1>6. Refused'
    BY <1>1, <1>2 DEF Refused, Counts, SameKey
<1> QED
    BY <1>3, <1>4, <1>5, <1>6

LEMMA AsksKeyInv ==
    ASSUME KeyInv, NEW a \in Admins, Asks(a)
    PROVE  KeyInv'
<1> USE DEF KeyInv
<1>1. /\ UNCHANGED <<audit, clock>> /\ op[a] = NoOp /\ clock \in Nat
      /\ idem' \subseteq idem /\ \A r \in idem \ idem' : ~ (r.expires > clock)
    BY DEF Asks, TimesOK, fixed
<1>2. Remembered' /\ OncePerKey'
  <2>1. OncePerKey'
      BY <1>1 DEF OncePerKey
  <2>2. Remembered'
    <3> SUFFICES ASSUME NEW i \in DOMAIN audit, Counts(i)
                 PROVE  \/ clock >= audit[i].at + IdempotencyTtl
                        \/ \E r \in idem' : /\ r.tenant = audit[i].tenant
                                            /\ r.scope = audit[i].scope
                                            /\ r.key = audit[i].key
                                            /\ r.expires >= audit[i].at + IdempotencyTtl
        BY <1>1 DEF Remembered, Counts, Stored
    <3>1. CASE clock >= audit[i].at + IdempotencyTtl
        BY <3>1
    <3>2. ASSUME NEW r \in Stored(audit[i].tenant, audit[i].scope, audit[i].key),
                 r.expires >= audit[i].at + IdempotencyTtl
          PROVE  \/ clock >= audit[i].at + IdempotencyTtl
                 \/ \E q \in idem' : /\ q.tenant = audit[i].tenant
                                     /\ q.scope = audit[i].scope
                                     /\ q.key = audit[i].key
                                     /\ q.expires >= audit[i].at + IdempotencyTtl
      <4>1. r.expires \in Nat /\ audit[i].at + IdempotencyTtl \in Nat
          BY AdminAssumption DEF TimesOK, Stored
      <4> QED
          BY <1>1, <3>2, <4>1 DEF Stored
    <3> QED
        BY <3>1, <3>2 DEF Remembered
  <2> QED
      BY <2>1, <2>2
<1>3. CASE op' = op
  <2>1. OpShape' /\ RivalsKnow' /\ Refused' /\ TimesOK'
      BY <1>1, <1>3 DEF OpShape, RivalsKnow, Refused, TimesOK, Counts, SameKey
  <2> QED
      BY <1>2, <2>1
<1>4. CASE Enters(a)
  <2> DEFINE x == op'[a]
             rivals == Rivals(a, x.scope, x.key)
  <2>1. /\ Whole(x) /\ x.at = clock /\ x.alone = (rivals = {})
        /\ \A r \in Stored(TenantOf[a], x.scope, x.key) : ~ (r.expires > clock)
        /\ DOMAIN op' = Admins
        /\ \A b \in Admins \ {a} :
             op'[b] = IF b \in rivals THEN [op[b] EXCEPT !.alone = FALSE] ELSE op[b]
      BY <1>4 DEF Enters
  <2>2. x # NoOp
      BY <2>1 DEF Whole, Carried, NoOp
  <2>3. ASSUME NEW b \in Admins \ {a}
        PROVE  /\ op'[b] # NoOp => op[b] # NoOp /\ Whole(op'[b])
               /\ op'[b] # NoOp => /\ op'[b].scope = op[b].scope /\ op'[b].key = op[b].key
                                   /\ op'[b].at = op[b].at
                                   /\ op[b].alone = FALSE => op'[b].alone = FALSE
               /\ b \in rivals => op'[b].alone = FALSE
    <3>1. CASE b \in rivals
      <4>1. op[b] # NoOp /\ Whole(op[b])
          BY <3>1 DEF Rivals, OpShape
      <4>2. op'[b] = [op[b] EXCEPT !.alone = FALSE]
          BY <2>1, <3>1
      <4> HIDE DEF rivals
      <4> QED
          BY <4>1, <4>2 DEF Whole, Carried, AboutSink
    <3>2. CASE b \notin rivals
      <4>1. op'[b] = op[b]
          BY <2>1, <3>2
      <4> HIDE DEF rivals
      <4> QED
          BY <3>2, <4>1 DEF OpShape
    <3> QED
        BY <3>1, <3>2
  <2>4. OpShape'
      BY <2>1, <2>3 DEF OpShape
  <2>5. TimesOK'
    <3>1. ASSUME NEW b \in Admins, op'[b] # NoOp
          PROVE  op'[b].at \in Nat /\ op'[b].at <= clock'
      <4>1. CASE b = a
          BY <1>1, <2>1, <4>1
      <4>2. CASE b # a
        <5>1. op[b] # NoOp /\ op'[b].at = op[b].at
            BY <2>3, <3>1, <4>2
        <5> QED
            BY <1>1, <5>1 DEF TimesOK
      <4> QED
          BY <4>1, <4>2
    <3> QED
        BY <1>1, <3>1 DEF TimesOK
  <2>6. RivalsKnow'
    <3> SUFFICES ASSUME NEW b \in Admins, NEW c \in Admins, b # c,
                        op'[b] # NoOp, op'[c] # NoOp, TenantOf[b] = TenantOf[c],
                        op'[b].scope = op'[c].scope, op'[b].key = op'[c].key,
                        op'[b].key # NoKey
                 PROVE  ~ op'[b].alone
        BY DEF RivalsKnow
    <3>1. CASE b = a
      <4>1. c \in rivals
          BY <3>1, <2>3 DEF Rivals
      <4> HIDE DEF rivals
      <4> QED
          BY <3>1, <4>1, <2>1
    <3>2. CASE c = a
      <4>1. b \in rivals
          BY <3>2, <2>3 DEF Rivals
      <4> QED
          BY <3>2, <4>1, <2>3
    <3>3. CASE b # a /\ c # a
      <4>1. ~ op[b].alone
          BY <3>3, <2>3 DEF RivalsKnow
      <4> QED
          BY <3>3, <4>1, <2>1, <2>3
    <3> QED
        BY <3>1, <3>2, <3>3
  <2>7. Refused'
    <3> SUFFICES ASSUME NEW i \in DOMAIN audit, NEW b \in Admins, Counts(i), SameKey(b, i)'
                 PROVE  op'[b].at >= audit[i].at + IdempotencyTtl
        BY <1>1 DEF Refused, Counts
    <3>1. audit[i].at + IdempotencyTtl \in Nat
        BY AdminAssumption DEF TimesOK
    <3>2. CASE b = a
      <4>1. Stored(audit[i].tenant, audit[i].scope, audit[i].key)
              = Stored(TenantOf[a], x.scope, x.key)
          BY <1>1, <3>2 DEF SameKey
      <4>2. \A r \in Stored(TenantOf[a], x.scope, x.key) : r.expires \in Nat
          BY DEF Stored, TimesOK
      <4>3. clock >= audit[i].at + IdempotencyTtl
          BY <1>1, <2>1, <3>1, <4>1, <4>2 DEF Remembered
      <4> QED
          BY <2>1, <3>2, <4>3
    <3>3. CASE b # a
      <4>1. SameKey(b, i) /\ op'[b].at = op[b].at
          BY <1>1, <2>3, <3>3 DEF SameKey
      <4> QED
          BY <4>1 DEF Refused
    <3> QED
        BY <3>2, <3>3
  <2> QED
      BY <1>2, <2>4, <2>5, <2>6, <2>7
<1> QED
    BY <1>3, <1>4 DEF Asks

LEMMA FinishKeyInv ==
    ASSUME KeyInv, NEW a \in Admins, Finish(a)
    PROVE  KeyInv'
<1> USE DEF KeyInv
<1> DEFINE e == AuditEvent(a)
           n == Len(audit) + 1
<1>1. op[a] # NoOp /\ Whole(op[a])
    BY DEF Finish, NoOp, OpShape
<1>2. /\ audit' = Append(audit, e) /\ clock' = clock /\ clock \in Nat
      /\ idem' = IdempotencyRecords(a)
      /\ op' = [op EXCEPT ![a] = NoOp]
    BY DEF Finish, fixed, TimesOK
<1>3. /\ e.tenant = TenantOf[a] /\ e.scope = op[a].scope /\ e.key = op[a].key
      /\ e.at = op[a].at /\ e.alone = op[a].alone
    BY <1>1 DEF AuditEvent, ActingTenant, Whole
<1>4. op[a].at \in Nat /\ op[a].at <= clock
    BY <1>1 DEF TimesOK
<1> HIDE DEF e
<1>5. /\ Len(audit) \in Nat /\ DOMAIN audit = 1 .. Len(audit)
      /\ DOMAIN audit' = 1 .. n /\ audit'[n] = e
      /\ \A i \in DOMAIN audit : i \in DOMAIN audit' /\ i < n /\ audit'[i] = audit[i]
      /\ \A i \in DOMAIN audit' : i = n \/ i \in DOMAIN audit
      /\ audit' \in Seq({audit[i] : i \in DOMAIN audit} \cup {e})
    BY <1>2 DEF TimesOK
<1>6. \A b \in Admins : op'[b] = IF b = a THEN NoOp ELSE op[b]
    BY <1>2 DEF OpShape
<1>7. OpShape' /\ RivalsKnow'
  <2>1. OpShape'
      BY <1>2, <1>6 DEF OpShape
  <2>2. RivalsKnow'
      BY <1>6 DEF RivalsKnow
  <2> QED
      BY <2>1, <2>2
<1>8. TimesOK'
  <2>1. audit' \in Seq({audit'[i] : i \in DOMAIN audit'})
    <3>1. \A i \in 1 .. Len(audit') : audit'[i] \in {audit'[j] : j \in DOMAIN audit'}
        BY <1>5
    <3> QED
        BY <1>5, <3>1
  <2>2. \A r \in idem' : r.expires \in Nat
    <3>1. op[a].at + IdempotencyTtl \in Nat
        BY <1>4, AdminAssumption
    <3> QED
        BY <1>2, <3>1 DEF TimesOK, IdempotencyRecords, IdempotencyRecord
  <2>3. \A i \in DOMAIN audit' : audit'[i].at \in Nat /\ audit'[i].at <= clock'
      BY <1>2, <1>3, <1>4, <1>5 DEF TimesOK
  <2>4. \A b \in Admins : op'[b] # NoOp => op'[b].at \in Nat /\ op'[b].at <= clock'
      BY <1>2, <1>6 DEF TimesOK
  <2> QED
      BY <1>2, <2>1, <2>2, <2>3, <2>4 DEF TimesOK
<1>9. Remembered'
  <2> SUFFICES ASSUME NEW i \in DOMAIN audit', Counts(i)'
               PROVE  \/ clock' >= audit'[i].at + IdempotencyTtl
                      \/ \E r \in idem' : /\ r.tenant = audit'[i].tenant
                                          /\ r.scope = audit'[i].scope
                                          /\ r.key = audit'[i].key
                                          /\ r.expires >= audit'[i].at + IdempotencyTtl
      BY DEF Remembered, Stored
  <2>1. CASE i = n
    <3>1. audit'[i] = e /\ e.key # NoKey
        BY <1>5, <2>1 DEF Counts
    <3> DEFINE r == IdempotencyRecord(a, IdempotencyTtl)
    <3>2. r \in idem'
        BY <1>2, <1>3, <3>1 DEF IdempotencyRecords
    <3>3. /\ r.tenant = e.tenant /\ r.scope = e.scope /\ r.key = e.key
          /\ r.expires = e.at + IdempotencyTtl
        BY <1>3 DEF IdempotencyRecord
    <3>4. e.at + IdempotencyTtl \in Nat
        BY <1>3, <1>4, AdminAssumption
    <3> HIDE DEF r
    <3>5. r.expires >= e.at + IdempotencyTtl
        BY <3>3, <3>4
    <3> QED
        BY <3>1, <3>2, <3>3, <3>5
  <2>2. CASE i \in DOMAIN audit
    <3>1. audit'[i] = audit[i] /\ Counts(i) /\ audit[i].at + IdempotencyTtl \in Nat
        BY <1>5, <2>2, AdminAssumption DEF Counts, TimesOK
    <3>2. CASE SameKey(a, i)
      <4>1. op[a].at >= audit[i].at + IdempotencyTtl
          BY <2>2, <3>1, <3>2 DEF Refused
      <4> QED
          BY <1>2, <1>4, <3>1, <4>1
    <3>3. CASE ~ SameKey(a, i)
      <4>1. \A r \in Stored(audit[i].tenant, audit[i].scope, audit[i].key) : r \in idem'
          BY <1>1, <1>2, <3>3 DEF IdempotencyRecords, Stored, SameKey
      <4> QED
          BY <1>2, <2>2, <3>1, <4>1 DEF Remembered, Stored
    <3> QED
        BY <3>2, <3>3
  <2> QED
      BY <1>5, <2>1, <2>2
<1>10. Refused'
  <2> SUFFICES ASSUME NEW i \in DOMAIN audit', NEW b \in Admins, Counts(i)', SameKey(b, i)'
               PROVE  op'[b].at >= audit'[i].at + IdempotencyTtl
      BY DEF Refused
  <2>1. b # a /\ op'[b] = op[b] /\ op[b] # NoOp
      BY <1>6 DEF SameKey
  <2>2. CASE i = n
    <3>1. audit'[i] = e
        BY <1>5, <2>2
    <3>2. ~ op[a].alone
        BY <1>1, <1>3, <2>1, <3>1 DEF SameKey, Counts, RivalsKnow
    <3> QED
        BY <1>3, <3>1, <3>2 DEF Counts
  <2>3. CASE i \in DOMAIN audit
    <3>1. audit'[i] = audit[i] /\ Counts(i) /\ SameKey(b, i)
        BY <1>5, <2>1, <2>3 DEF Counts, SameKey
    <3> QED
        BY <2>1, <2>3, <3>1 DEF Refused
  <2> QED
      BY <1>5, <2>2, <2>3
<1>11. OncePerKey'
  <2> SUFFICES ASSUME NEW i \in DOMAIN audit', NEW j \in DOMAIN audit', i < j,
                      audit'[i].key # NoKey, audit'[i].tenant = audit'[j].tenant,
                      audit'[i].scope = audit'[j].scope, audit'[i].key = audit'[j].key,
                      audit'[i].alone, audit'[j].alone
               PROVE  audit'[j].at >= audit'[i].at + IdempotencyTtl
      BY DEF OncePerKey
  <2>1. i \in DOMAIN audit /\ audit'[i] = audit[i]
      BY <1>5
  <2>2. CASE j = n
    <3>1. audit'[j] = e
        BY <1>5, <2>2
    <3>2. Counts(i) /\ SameKey(a, i)
        BY <1>1, <1>3, <2>1, <3>1 DEF Counts, SameKey
    <3> QED
        BY <1>3, <2>1, <3>1, <3>2 DEF Refused
  <2>3. CASE j \in DOMAIN audit
      BY <1>5, <2>1, <2>3 DEF OncePerKey
  <2> QED
      BY <1>5, <2>2, <2>3
<1> QED
    BY <1>7, <1>8, <1>9, <1>10, <1>11

LEMMA KeyInvNext ==
    ASSUME KeyInv, [Next]_vars
    PROVE  KeyInv'
<1>1. CASE UNCHANGED vars
    BY <1>1, LooksKeyInv DEF vars
<1>2. CASE Next
  <2>1. OpShape
      BY DEF KeyInv
  <2>2. CASE Tick
      BY <2>2, TickKeyInv
  <2>3. ASSUME NEW a \in Admins, Steps(a) \/ Finish(a)
        PROVE  KeyInv'
    <3>1. CASE Looks(a)
        BY <3>1, LooksKeyInv DEF Looks, fixed
    <3> QED
        BY <2>3, <3>1, AsksKeyInv, MovesKeyInv, FinishKeyInv DEF Steps
  <2> QED
      BY <1>2, <2>1, <2>2, <2>3, AdminSteps
<1> QED
    BY <1>1, <1>2

\* The inductive invariant holds in every reachable state.
THEOREM KeyInvariant == Spec => []KeyInv
<1>1. AdminInit => KeyInv
    BY KeyInvInit
<1>2. KeyInv /\ [Next]_vars => KeyInv'
    BY KeyInvNext
<1> QED
    BY <1>1, <1>2, PTL DEF Spec

\* A client that repeats a request with its idempotency key after the first one was
\* answered does not do it twice until the record expires, however many requests
\* are in flight and whatever their steps do in between (OncePerKey;
\* idempotency_response and record_idempotency_response).
THEOREM OncePerKeyHolds == Spec => []OncePerKey
<1>1. KeyInv => OncePerKey
    BY DEF KeyInv
<1> QED
    BY <1>1, KeyInvariant, PTL
-----------------------------------------------------------------------------
(* The two copies of every validation rule agree: what the handler's dry   *)
(* run finds nothing wrong with, the store accepts, for every request body *)
(* and in every state.  One lemma per resource kind compares the handler's *)
(* rules with the store's, after those that several kinds share.           *)

\* An organization the handler finds for the actor is one of the store's tenant.
LEMMA OrganizationAgrees ==
    ASSUME NEW a, NEW org, HandlerOrganization(a, org)
    PROVE  OptionalOrganizationScope(TenantOf[a], org)
BY DEF HandlerOrganization, OptionalOrganizationScope, ForActor

\* The same for a project and its organization.
LEMMA ProjectAgrees ==
    ASSUME NEW a, NEW org, NEW project, HandlerProject(a, org, project)
    PROVE  OptionalProjectScope(TenantOf[a], org, project)
BY OrganizationAgrees DEF HandlerProject, OptionalProjectScope, ForActor

\* A secret that validate_secret_ref_scope_fields lets pass is usable for
\* ensure_secret_ref_usable.
LEMMA SecretAgrees ==
    ASSUME NEW a, NEW org, NEW project, NEW secret,
           SecretRefScopeFields(a, org, project, secret)
    PROVE  EnsureSecretRefUsable(TenantOf[a], org, project, secret)
BY DEF SecretRefScopeFields, EnsureSecretRefUsable, ForActor

\* A URL that is safe under some profile is safe for the store, which knows none.
LEMMA UrlAgrees ==
    ASSUME NEW url, UrlSafeForConfig(url)
    PROVE  UrlSafe(url)
BY DEF UrlSafeForConfig, UrlSafe
-----------------------------------------------------------------------------
(* Providers                                                               *)

\* validate_provider_endpoint and create_provider_endpoint of the store.
LEMMA ProviderEndpointAgrees ==
    ASSUME NEW a, NEW r, ProviderEndpointValidation(a, r)
    PROVE  OptionalOrganizationScope(TenantOf[a], r.org)
BY OrganizationAgrees DEF ProviderEndpointValidation

\* upstream_credential_validation_errors and validate_upstream_credential_endpoint.
LEMMA UpstreamCredentialAgrees ==
    ASSUME NEW a, NEW r, UpstreamCredentialValidation(a, r)
    PROVE  ValidateUpstreamCredentialEndpoint(TenantOf[a], r)
BY OrganizationAgrees, SecretAgrees
   DEF UpstreamCredentialValidation, ValidateUpstreamCredentialEndpoint, ForActor

\* pricing_sku_validation_errors and validate_pricing_sku_request.
LEMMA PricingSkuAgrees ==
    ASSUME NEW a, NEW r, PricingSkuValidation(a, r)
    PROVE  ValidatePricingSkuRequest(TenantOf[a], r)
BY OrganizationAgrees DEF PricingSkuValidation, ValidatePricingSkuRequest

\* model_target_validation_errors and validate_model_target_refs.
LEMMA ModelTargetAgrees ==
    ASSUME NEW a, NEW r, ModelTargetValidation(a, r)
    PROVE  ValidateModelTargetRefs(TenantOf[a], r)
BY OrganizationAgrees DEF ModelTargetValidation, ValidateModelTargetRefs, ForActor

\* catalog_import_validation_errors and the store's create_catalog_import.
LEMMA CatalogImportAgrees ==
    ASSUME NEW a, NEW r, CatalogImportValidation(a, r)
    PROVE  ValidateCatalogImportRequest(TenantOf[a], r)
<1>1. OptionalProjectScope(TenantOf[a], r.org, r.project)
    BY ProjectAgrees DEF CatalogImportValidation
<1>2. Len(r.resources) \in 1 .. 100
    BY DEF CatalogImportValidation
<1>3. \A n \in 1 .. 100 : n > 0
    OBVIOUS
<1>4. Len(r.resources) > 0
    BY <1>2, <1>3, Zenon
<1> QED
    BY <1>1, <1>4 DEF CatalogImportValidation, ValidateCatalogImportRequest
-----------------------------------------------------------------------------
(* Routing                                                                 *)

\* routing_group_validation_errors and validate_routing_group_request.
LEMMA RoutingGroupAgrees ==
    ASSUME NEW a, NEW r, RoutingGroupValidation(a, r)
    PROVE  ValidateRoutingGroupRequest(TenantOf[a], r)
BY OrganizationAgrees DEF RoutingGroupValidation, ValidateRoutingGroupRequest

\* The two checks of a group's target.
LEMMA RoutingGroupTargetAgrees ==
    ASSUME NEW a, NEW group, NEW r, RoutingGroupTargetValidation(a, group, r)
    PROVE  ValidateRoutingGroupTargetRefs(TenantOf[a], group, r)
BY DEF RoutingGroupTargetValidation, ValidateRoutingGroupTargetRefs, ForActor

\* model_alias_validation_errors and validate_model_alias_request.
LEMMA ModelAliasAgrees ==
    ASSUME NEW a, NEW r, ModelAliasValidation(a, r)
    PROVE  ValidateModelAliasRequest(TenantOf[a], r)
BY ProjectAgrees DEF ModelAliasValidation, ValidateModelAliasRequest

\* route_policy_validation_errors and validate_route_policy_request.
LEMMA RoutePolicyAgrees ==
    ASSUME NEW a, NEW r, RoutePolicyValidation(a, r)
    PROVE  ValidateRoutePolicyRequest(TenantOf[a], r)
BY DEF RoutePolicyValidation, ValidateRoutePolicyRequest, ForActor

\* The two checks of a provider grant: scope, resource, effect and closure.
LEMMA ProviderGrantAgrees ==
    ASSUME NEW a, NEW r, ProviderGrantValidation(a, r)
    PROVE  ValidateProviderGrantRequest(TenantOf[a], r)
<1>1. ValidateProviderGrantEffect(r)
    BY DEF ProviderGrantValidation, ValidateProviderGrantEffectFields,
           ValidateProviderGrantEffect
<1> QED
    BY <1>1 DEF ProviderGrantValidation, ValidateProviderGrantScopeFields,
        ValidateProviderGrantResourceFields, ValidateProviderGrantRequest,
        ValidateProviderGrantScope, ValidateProviderGrantResource, ForActor
-----------------------------------------------------------------------------
(* Policies                                                                *)

\* validate_budget_limit_fields and validate_budget_policy_limits.
LEMMA BudgetLimitsAgree ==
    ASSUME NEW r \in Requests["budget_policy"], ValidateBudgetLimitFields(r)
    PROVE  ValidateBudgetPolicyLimits(r)
<1>1. \A x \in UNION {r.hard, r.soft, r.thresholds} : x \in Int /\ x > 0
    BY RequestAssumption DEF ValidateBudgetLimitFields
<1>2. \A s \in r.soft, h \in r.hard : s \in Int /\ h \in Int /\ s <= h
    BY RequestAssumption DEF ValidateBudgetLimitFields
<1>3. r.currency = IF r.limit_kind = "cost" THEN "valid" ELSE "absent"
    BY DEF ValidateBudgetLimitFields
<1>4. \A x \in UNION {r.hard, r.soft, r.thresholds} : ~ (x <= 0)
    BY <1>1
<1>5. ~ \E s \in r.soft, h \in r.hard : s > h
    BY <1>2
<1> QED
    BY <1>3, <1>4, <1>5 DEF ValidateBudgetLimitFields, ValidateBudgetPolicyLimits

\* budget_policy_validation_errors and validate_budget_policy_request.
LEMMA BudgetPolicyAgrees ==
    ASSUME NEW a, NEW r \in Requests["budget_policy"], BudgetPolicyValidation(a, r)
    PROVE  ValidateBudgetPolicyRequest(TenantOf[a], r)
<1>1. ValidateBudgetPolicyScope(TenantOf[a], r)
    BY DEF BudgetPolicyValidation, ValidateBudgetScopeFields, ValidateBudgetPolicyScope,
           BudgetScopeKinds, ScopeTable, ForActor
<1>2. ValidateBudgetPolicyEnums(r)
    BY DEF BudgetPolicyValidation, ValidateBudgetEnumFields, ValidateBudgetPolicyEnums
<1> QED
    BY <1>1, <1>2, BudgetLimitsAgree DEF BudgetPolicyValidation, ValidateBudgetPolicyRequest

\* quota_counter_x_supported of the handlers and of the store: the same table.
LEMMA QuotaCountersAgree ==
    ASSUME NEW r, ValidateQuotaShapeFields(r)
    PROVE  StoreCounterSupports(r.counter, r.scope, r.window, r.source)
<1>1. r.counter \in {"request_rate", "token_estimate_rate", "token_actual_rate",
                     "concurrent_request", "concurrent_stream", "stream_duration",
                     "request_body_bytes"}
    BY DEF ValidateQuotaShapeFields, QuotaCounters
<1> QED
    BY <1>1 DEF ValidateQuotaShapeFields, QuotaCounters, StoreCounterSupports

\* quota_policy_validation_errors and validate_quota_policy_request.
LEMMA QuotaPolicyAgrees ==
    ASSUME NEW a, NEW r \in Requests["quota_policy"], QuotaPolicyValidation(a, r)
    PROVE  ValidateQuotaPolicyRequest(TenantOf[a], r)
<1>1. ValidateQuotaPolicyScope(TenantOf[a], r)
    BY DEF QuotaPolicyValidation, ValidateQuotaScopeFields, ValidateQuotaPolicyScope,
           QuotaScopeKinds, ForActor
<1>2. r.limit \in Int /\ r.limit > 0 /\ \A b \in r.burst : b \in Int /\ b > 0
    BY RequestAssumption DEF QuotaPolicyValidation, ValidateQuotaShapeFields
<1>3. ValidateQuotaPolicyShape(r)
    BY <1>2, QuotaCountersAgree
       DEF QuotaPolicyValidation, ValidateQuotaShapeFields, ValidateQuotaPolicyShape
<1> QED
    BY <1>1, <1>3 DEF QuotaPolicyValidation, ValidateQuotaPolicyRequest

\* validate_otel_export_shape_fields and validate_otel_export_shape.
LEMMA OtelExportConfigAgrees ==
    ASSUME NEW a, NEW r \in Requests["otel_config"], OtelExportConfigValidation(a, r, {})
    PROVE  ValidateOtelExportConfigRequest(TenantOf[a], r, {})
<1> DEFINE org == InferredOrganization(TenantOf[a], r.org, r.project)
<1>1. \A i, j \in DOMAIN r.headers : i # j => r.headers[i].name # r.headers[j].name
  <2> SUFFICES ASSUME NEW i \in DOMAIN r.headers, NEW j \in DOMAIN r.headers, i # j
               PROVE  r.headers[i].name # r.headers[j].name
      OBVIOUS
  <2>1. NoRepeats(HeaderNames(r))
      BY DEF OtelExportConfigValidation, OtelShapeFields
  <2> QED
      BY <2>1 DEF NoRepeats, HeaderNames
<1>2. ValidateOtelHeaderRefs(TenantOf[a], org, r)
    BY <1>1, SecretAgrees DEF OtelExportConfigValidation, OtelShapeFields,
        OtelHeaderSecretRefScopeFields, ValidateOtelHeaderRefs
<1>3. ValidateOtelSignals(r)
    BY DEF OtelExportConfigValidation, OtelShapeFields, ValidateOtelSignals, NoRepeats
<1>4. r.timeout \in Int /\ r.interval \in Int /\ r.timeout < r.interval
    BY RequestAssumption DEF OtelExportConfigValidation, OtelShapeFields
<1>5. ValidateOtelExportShape(TenantOf[a], org, r)
    BY <1>2, <1>3, <1>4, UrlAgrees
       DEF OtelExportConfigValidation, OtelShapeFields, ValidateOtelExportShape
<1> QED
    BY <1>5, ProjectAgrees DEF OtelExportConfigValidation, ValidateOtelExportConfigRequest

\* notification_sink_validation_errors and validate_notification_sink_request.
LEMMA NotificationSinkAgrees ==
    ASSUME NEW a, NEW r, NotificationSinkValidation(a, r, {})
    PROVE  ValidateNotificationSinkRequest(TenantOf[a], r, {})
<1>1. ValidateNotificationSinkShape(r)
    BY UrlAgrees DEF NotificationSinkValidation, SinkShapeFields, WebhookSinkFields,
        ValidateNotificationSinkShape
<1>2. r.secret # None => r.sink_kind = "webhook"
    BY DEF NotificationSinkValidation, SinkShapeFields
<1> QED
    BY <1>1, <1>2, ProjectAgrees, SecretAgrees
       DEF NotificationSinkValidation, ValidateNotificationSinkRequest

\* The two checks of a subscription, whose sink the path names.
LEMMA NotificationSubscriptionAgrees ==
    ASSUME NEW a, NEW sink, NEW r, NotificationSubscriptionValidation(a, sink, r)
    PROVE  ValidateNotificationSubscriptionRequest(TenantOf[a], sink, r)
BY DEF NotificationSubscriptionValidation, ValidateNotificationSubscriptionRequest, ForActor

\* login_provider_validation_errors and validate_login_provider_request.
LEMMA LoginProviderAgrees ==
    ASSUME NEW a, NEW r, LoginProviderValidation(a, r)
    PROVE  ValidateLoginProviderRequest(TenantOf[a], r)
BY UrlAgrees DEF LoginProviderValidation, ValidateLoginProviderRequest

\* The two checks of a maintenance window, made at the same time of the clock.
LEMMA MaintenanceWindowAgrees ==
    ASSUME NEW a, NEW r \in Requests["maintenance_window"], clock \in Int,
           MaintenanceWindowValidation(a, r)
    PROVE  ValidateMaintenanceWindowRequest(TenantOf[a], r)
<1>1. r.starts \in Int /\ r.ends \in Int
    BY RequestAssumption
<1> QED
    BY <1>1, ProjectAgrees DEF MaintenanceWindowValidation, ValidateMaintenanceWindowRequest
-----------------------------------------------------------------------------
\* The lemmas together.
LEMMA EveryKindAgrees ==
    ASSUME clock \in Int
    PROVE  DryRunMatchesStore
BY ProviderEndpointAgrees, UpstreamCredentialAgrees, PricingSkuAgrees, ModelTargetAgrees,
   CatalogImportAgrees, RoutingGroupAgrees, RoutingGroupTargetAgrees, ModelAliasAgrees,
   RoutePolicyAgrees, ProviderGrantAgrees, BudgetPolicyAgrees, QuotaPolicyAgrees,
   OtelExportConfigAgrees, NotificationSinkAgrees, NotificationSubscriptionAgrees,
   LoginProviderAgrees, MaintenanceWindowAgrees
   DEF DryRunMatchesStore

\* Whatever a dry run (validate_x of service.rs) accepts, the store's own rules
\* (validate_x_request of storage.rs) accept in the same state, for every request
\* body and in every reachable state.
THEOREM DryRunAgreesWithStore == Spec => []DryRunMatchesStore
<1>1. KeyInv => DryRunMatchesStore
    BY EveryKindAgrees DEF KeyInv, TimesOK
<1> QED
    BY <1>1, KeyInvariant, PTL
=============================================================================
