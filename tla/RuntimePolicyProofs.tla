------------------------- MODULE RuntimePolicyProofs -------------------------
(***************************************************************************)
(* Theorems about RuntimePolicy, for every set of requests, every table of *)
(* policies and every bound on the clock.                                  *)
(***************************************************************************)
EXTENDS RuntimePolicy, FiniteSetTheorems, TLAPS

USE DEF GoTo, Outcome, DropSnap, BudgetKey, QuotaKey

(***************************************************************************)
(* Type correctness. A step leaves most groups of variables alone: the     *)
(* frame lemma lets the proof of an action expand only what it changes.    *)
(***************************************************************************)

\* A group of variables that a step leaves alone keeps its type.
LEMMA TypeFrame ==
    /\ EnvType /\ UNCHANGED envVars => EnvType'
    /\ StoreType /\ UNCHANGED storeVars => StoreType'
    /\ EvidenceType /\ UNCHANGED evidenceVars => EvidenceType'
    /\ ControlType /\ UNCHANGED controlVars => ControlType'
    /\ BudgetLocalType /\ UNCHANGED budgetLocals => BudgetLocalType'
    /\ QuotaLocalType /\ UNCHANGED quotaLocals => QuotaLocalType'
    /\ ReconType /\ UNCHANGED reconVars => ReconType'
  BY DEF EnvType, envVars, StoreType, storeVars, EvidenceType, evidenceVars,
         ControlType, controlVars, BudgetLocalType, budgetLocals,
         QuotaLocalType, quotaLocals, ReconType, reconVars

\* Adjusting one entry of a counter table, by however much, leaves natural
\* numbers: the counters saturate at zero.
LEMMA AdjustType ==
    ASSUME StoreType, NEW x, NEW k, NEW d \in Int
    PROVE  /\ AdjustBudget(x, k, d) \in [BudgetPolicies -> [Times -> Nat]]
           /\ AdjustQuota(x, k, d) \in [QuotaPolicies -> [Times -> Nat]]
           /\ AdjustLoss(x, k, d) \in [QuotaPolicies -> [Times -> Nat]]
<1>1. \A c \in Nat : Adjust(c, d) \in Nat
  BY DEF Adjust
<1>2. ASSUME NEW D, NEW T, NEW f \in [D -> [T -> Nat]]
      PROVE  [f EXCEPT ![x][k] = Adjust(@, d)] \in [D -> [T -> Nat]]
  BY <1>1
<1> QED
  BY <1>2 DEF StoreType, AdjustBudget, AdjustQuota, AdjustLoss

\* Writing a status into one lease record keeps the table of leases well typed.
LEMMA LeaseWriteType ==
    ASSUME StoreType, NEW r, NEW p, NEW v \in LeaseStatus
    PROVE  [lease EXCEPT ![r][p] = v] \in [Requests -> [BudgetPolicies -> LeaseStatus]]
  BY DEF StoreType

\* The ledger snapshot of a preflight is a table of natural numbers, and its
\* loop runs over budget policies.
LEMMA SnapshotType ==
    ASSUME EnvType, EvidenceType, NEW r \in Requests
    PROVE  /\ [p \in BudgetPolicies |-> ledger[p][BPeriod[p][now]]]
                \in [BudgetPolicies -> Nat]
           /\ BudgetPoliciesFor(r) \in SUBSET BudgetPolicies
           /\ now \in Times
  BY BudgetAssumption DEF EnvType, EvidenceType, BudgetPoliciesFor

\* What a usage event adds to a ledger bucket or a window is a natural number.
LEMMA UsageValues ==
    ASSUME BudgetLocalType, NEW r \in Requests
    PROVE  /\ \A p \in BudgetPolicies : BudgetValue(p, r) \in Nat
           /\ \A q \in QuotaPolicies : QuotaValue(q, r) \in Nat
<1>1. StreamSeconds(r) \in Nat
  BY DEF StreamSeconds, BudgetLocalType, Times
<1> QED
  BY <1>1, RequestAssumption DEF BudgetValue, QuotaValue

\* The notifications of one terminal event name a policy, a period and a
\* threshold.
LEMMA CrossedType ==
    ASSUME BudgetLocalType, NEW r \in Requests
    PROVE  Crossed(r) \subseteq BudgetPolicies \X Times \X Nat
<1>1. ASSUME NEW p \in BudgetPolicies
      PROVE  CrossedBy(r, p) \subseteq BudgetPolicies \X Times \X Nat
  BY BudgetAssumption DEF CrossedBy, BudgetLocalType
<1> QED
  BY <1>1 DEF Crossed

\* The initial state is well typed.
LEMMA TypeInit == Init => TypeOK
<1> SUFFICES ASSUME Init PROVE TypeOK
  OBVIOUS
<1> USE ClockAssumption DEF Init, Times, MaxTime
<1>1. EnvType /\ StoreType
  BY DEF EnvType, StoreType, LeaseStatus
<1>2. EvidenceType /\ ControlType
  BY DEF EvidenceType, ControlType, PCs, Outcomes
<1>3. BudgetLocalType /\ QuotaLocalType /\ ReconType
  BY DEF BudgetLocalType, QuotaLocalType, ReconType, ReconPCs
<1> QED
  BY <1>1, <1>2, <1>3 DEF TypeOK

\* Every step preserves the types.
LEMMA TypeStep == TypeOK /\ [Next]_vars => TypeOK'
<1> SUFFICES ASSUME TypeOK, [Next]_vars PROVE TypeOK'
  OBVIOUS
<1> USE TypeFrame DEF TypeOK
<1>1. ASSUME NEW r \in Requests, Arrive(r) PROVE TypeOK'
  <2>1. ControlType'
    BY <1>1 DEF Arrive, ControlType, PCs, Outcomes
  <2>2. BudgetLocalType'
    BY <1>1, SnapshotType DEF Arrive, BudgetLocalType
  <2> QED
    BY <1>1, <2>1, <2>2 DEF Arrive
<1>2. ASSUME NEW r \in Requests, BudgetReject(r) PROVE TypeOK'
  BY <1>2 DEF BudgetReject, ControlType, PCs, Outcomes
<1>3. ASSUME NEW r \in Requests, BudgetPass(r) PROVE TypeOK'
  BY <1>3 DEF BudgetPass, BudgetLocalType, controlVars
<1>4. ASSUME NEW r \in Requests, BudgetHotStateLoss(r) PROVE TypeOK'
  BY <1>4 DEF BudgetHotStateLoss, ControlType, PCs, Outcomes
<1>5. ASSUME NEW r \in Requests, ReserveBudget(r) PROVE TypeOK'
  <2>1. ControlType'
    BY <1>5 DEF ReserveBudget, ControlType, PCs, Outcomes
  <2>2. StoreType'
    BY <1>5, AdjustType DEF ReserveBudget, StoreType
  <2> QED
    BY <1>5, <2>1, <2>2 DEF ReserveBudget
<1>6. ASSUME NEW r \in Requests, RollbackBudget(r) PROVE TypeOK'
  <2>1. ControlType'
    BY <1>6 DEF RollbackBudget, ControlType, PCs, Outcomes
  <2>2. StoreType'
    BY <1>6, AdjustType DEF RollbackBudget, StoreType
  <2> QED
    BY <1>6, <2>1, <2>2 DEF RollbackBudget
<1>7. ASSUME NEW r \in Requests, RecordLease(r) PROVE TypeOK'
  <2>1. ControlType'
    BY <1>7 DEF RecordLease, ControlType, PCs, Outcomes
  <2>2. StoreType'
    BY <1>7, LeaseWriteType DEF RecordLease, StoreType, LeaseStatus
  <2>3. BudgetLocalType'
    BY <1>7 DEF RecordLease, BudgetLocalType
  <2> QED
    BY <1>7, <2>1, <2>2, <2>3 DEF RecordLease
<1>8. ASSUME NEW r \in Requests, QuotaPreflight(r) PROVE TypeOK'
  <2>1. ControlType'
    BY <1>8 DEF QuotaPreflight, ControlType, PCs, Outcomes
  <2>2. BudgetLocalType'
    BY <1>8 DEF QuotaPreflight, BudgetLocalType
  <2>3. QuotaLocalType'
    BY <1>8 DEF QuotaPreflight, QuotaLocalType, EnvType, LimitChecked,
       QuotaPoliciesFor
  <2> QED
    BY <1>8, <2>1, <2>2, <2>3 DEF QuotaPreflight
<1>9. ASSUME NEW r \in Requests, QuotaLimit(r) PROVE TypeOK'
  <2>1. ControlType'
    BY <1>9 DEF QuotaLimit, ControlType, PCs, Outcomes
  <2>2. QuotaLocalType'
    BY <1>9 DEF QuotaLimit, QuotaLocalType
  <2> QED
    BY <1>9, <2>1, <2>2 DEF QuotaLimit
<1>10. ASSUME NEW r \in Requests, QuotaReservePass(r) PROVE TypeOK'
  <2>1. ControlType'
    BY <1>10 DEF QuotaReservePass, ControlType, PCs, Outcomes
  <2>2. QuotaLocalType'
    BY <1>10 DEF QuotaReservePass, QuotaLocalType, ReserveChecked,
       QuotaPoliciesFor
  <2> QED
    BY <1>10, <2>1, <2>2 DEF QuotaReservePass
<1>11. ASSUME NEW r \in Requests, QuotaRate(r) PROVE TypeOK'
  <2>1. ControlType'
    BY <1>11 DEF QuotaRate, ControlType, PCs, Outcomes
  <2>2. StoreType'
    BY <1>11, AdjustType DEF QuotaRate, StoreType
  <2>3. QuotaLocalType'
    BY <1>11 DEF QuotaRate, QuotaLocalType
  <2> QED
    BY <1>11, <2>1, <2>2, <2>3 DEF QuotaRate
<1>12. ASSUME NEW r \in Requests, QuotaConcurrency(r) PROVE TypeOK'
  <2>1. ControlType'
    BY <1>12 DEF QuotaConcurrency, ControlType, PCs, Outcomes
  <2>2. StoreType'
    BY <1>12, AdjustType DEF QuotaConcurrency, StoreType
  <2>3. QuotaLocalType'
    BY <1>12 DEF QuotaConcurrency, QuotaLocalType
  <2> QED
    BY <1>12, <2>1, <2>2, <2>3 DEF QuotaConcurrency
<1>13. ASSUME NEW r \in Requests, RollbackQuota(r) PROVE TypeOK'
  <2>1. ControlType'
    BY <1>13 DEF RollbackQuota, ControlType, PCs, Outcomes
  <2>2. StoreType'
    BY <1>13, AdjustType DEF RollbackQuota, StoreType
  <2> QED
    BY <1>13, <2>1, <2>2 DEF RollbackQuota
<1>14. ASSUME NEW r \in Requests, QuotaHotStateLoss(r) PROVE TypeOK'
  <2>1. ControlType'
    BY <1>14 DEF QuotaHotStateLoss, ControlType, PCs, Outcomes
  <2>2. StoreType'
    BY <1>14, AdjustType DEF QuotaHotStateLoss, StoreType
  <2>3. QuotaLocalType'
    BY <1>14 DEF QuotaHotStateLoss, QuotaLocalType
  <2> QED
    BY <1>14, <2>1, <2>2, <2>3 DEF QuotaHotStateLoss
<1>15. ASSUME NEW r \in Requests, Admit(r) PROVE TypeOK'
  BY <1>15 DEF Admit, ControlType, PCs, Outcomes
<1>16. ASSUME NEW r \in Requests, ProviderAnswers(r) PROVE TypeOK'
  <2>1. ControlType'
    BY <1>16 DEF ProviderAnswers, ControlType, PCs, Outcomes
  <2>2. EvidenceType'
    BY <1>16 DEF ProviderAnswers, EvidenceType
  <2>3. BudgetLocalType'
    BY <1>16 DEF ProviderAnswers, BudgetLocalType, EnvType
  <2> QED
    BY <1>16, <2>1, <2>2, <2>3 DEF ProviderAnswers
<1>17. ASSUME NEW r \in Requests, ProviderFails(r) PROVE TypeOK'
  <2>1. ControlType'
    BY <1>17 DEF ProviderFails, ControlType, PCs, Outcomes
  <2>2. EvidenceType'
    BY <1>17 DEF ProviderFails, EvidenceType
  <2> QED
    BY <1>17, <2>1, <2>2 DEF ProviderFails
<1>18. ASSUME NEW r \in Requests, InsertFailedAttempt(r) PROVE TypeOK'
  BY <1>18 DEF InsertFailedAttempt, ControlType, PCs, Outcomes
<1>19. ASSUME NEW r \in Requests, InsertAttempt(r) PROVE TypeOK'
  BY <1>19 DEF InsertAttempt, ControlType, PCs, Outcomes
<1>20. ASSUME NEW r \in Requests, RecordUsage(r) PROVE TypeOK'
  <2>1. ControlType'
    BY <1>20 DEF RecordUsage, ControlType, PCs, Outcomes
  <2>2. EvidenceType'
    BY <1>20, UsageValues DEF RecordUsage, EvidenceType
  <2> QED
    BY <1>20, <2>1, <2>2 DEF RecordUsage
<1>21. ASSUME NEW r \in Requests, InsertUsage(r) PROVE TypeOK'
  <2>1. ControlType'
    BY <1>21 DEF InsertUsage, ControlType, PCs, Outcomes
  <2>2. QuotaLocalType'
    BY <1>21 DEF InsertUsage, QuotaLocalType, FinalizedQuotas,
       QuotaPoliciesFor
  <2> QED
    BY <1>21, <2>1, <2>2 DEF InsertUsage
<1>22. ASSUME NEW r \in Requests, FinalizeQuota(r) PROVE TypeOK'
  <2>1. ControlType'
    BY <1>22 DEF FinalizeQuota, ControlType, PCs, Outcomes
  <2>2. StoreType'
    BY <1>22, AdjustType, UsageValues DEF FinalizeQuota, StoreType,
       QuotaLocalType
  <2>3. QuotaLocalType'
    BY <1>22 DEF FinalizeQuota, QuotaLocalType
  <2> QED
    BY <1>22, <2>1, <2>2, <2>3 DEF FinalizeQuota
<1>23. ASSUME NEW r \in Requests, FinalizeBudget(r) PROVE TypeOK'
  <2>1. ControlType'
    BY <1>23 DEF FinalizeBudget, ControlType, PCs, Outcomes
  <2>2. EvidenceType'
    BY <1>23, CrossedType DEF FinalizeBudget, EvidenceType
  <2> QED
    BY <1>23, <2>1, <2>2 DEF FinalizeBudget
<1>24. ASSUME NEW r \in Requests, ReleaseLease(r) PROVE TypeOK'
  <2>1. ControlType'
    BY <1>24 DEF ReleaseLease, ControlType, PCs, Outcomes
  <2>2. \/ UNCHANGED lease
        \/ \E p \in held[r] : lease' = [lease EXCEPT ![r][p] = "released"]
    BY <1>24 DEF ReleaseLease
  <2>3. lease' \in [Requests -> [BudgetPolicies -> LeaseStatus]]
    <3>1. "released" \in LeaseStatus
      BY DEF LeaseStatus
    <3>2. CASE UNCHANGED lease
      BY <3>2 DEF StoreType
    <3>3. StoreType
      OBVIOUS
    <3>4. ASSUME NEW p \in held[r], lease' = [lease EXCEPT ![r][p] = "released"]
          PROVE  lease' \in [Requests -> [BudgetPolicies -> LeaseStatus]]
      BY <3>1, <3>3, <3>4, LeaseWriteType
    <3> QED
      BY <2>2, <3>2, <3>4
  <2>4. StoreType'
    BY <1>24, <2>3 DEF ReleaseLease, StoreType
  <2>5. BudgetLocalType'
    BY <1>24 DEF ReleaseLease, BudgetLocalType
  <2> QED
    BY <1>24, <2>1, <2>4, <2>5 DEF ReleaseLease
<1>25. ASSUME NEW r \in Requests, DecrementLease(r) PROVE TypeOK'
  <2>1. ControlType'
    BY <1>25 DEF DecrementLease, ControlType, PCs, Outcomes
  <2>2. StoreType'
    BY <1>25, AdjustType DEF DecrementLease, StoreType
  <2>3. BudgetLocalType'
    BY <1>25 DEF DecrementLease, BudgetLocalType
  <2> QED
    BY <1>25, <2>1, <2>2, <2>3 DEF DecrementLease
<1>26. ASSUME NEW r \in Requests, BudgetReleased(r) PROVE TypeOK'
  BY <1>26 DEF BudgetReleased, ControlType, PCs, Outcomes
<1>27. ASSUME NEW r \in Requests, ReleaseQuota(r) PROVE TypeOK'
  <2>1. StoreType'
    BY <1>27, AdjustType DEF ReleaseQuota, StoreType
  <2>2. QuotaLocalType'
    BY <1>27 DEF ReleaseQuota, QuotaLocalType
  <2> QED
    BY <1>27, <2>1, <2>2 DEF ReleaseQuota, controlVars
<1>28. ASSUME NEW r \in Requests, QuotaReleased(r) PROVE TypeOK'
  BY <1>28 DEF QuotaReleased, ControlType, PCs, Outcomes
<1>29. ASSUME NEW r \in Requests, BlockDecision(r) PROVE TypeOK'
  BY <1>29 DEF BlockDecision, ControlType, PCs, Outcomes
<1>30. ASSUME NEW r \in Requests, PersistFails(r) PROVE TypeOK'
  BY <1>30 DEF PersistFails, ControlType, PCs, Outcomes
<1>31. ASSUME NEW r \in Requests, Cancel(r) PROVE TypeOK'
  BY <1>31 DEF Cancel, ControlType, PCs, Outcomes
<1>32. ASSUME ExpireLeases PROVE TypeOK'
  <2>1. StoreType'
    BY <1>32 DEF ExpireLeases, StoreType, LeaseStatus
  <2>2. ReconType'
    BY <1>32 DEF ExpireLeases, ReconType, EnvType, Overdue, ReconPCs
  <2> QED
    BY <1>32, <2>1, <2>2 DEF ExpireLeases, requestVars
<1>33. ASSUME NEW r \in Requests, NEW p \in BudgetPolicies, ReclaimLease(r, p)
       PROVE TypeOK'
  <2>1. StoreType'
    BY <1>33, AdjustType DEF ReclaimLease, StoreType
  <2>2. ReconType'
    BY <1>33 DEF ReclaimLease, ReconType
  <2> QED
    BY <1>33, <2>1, <2>2 DEF ReclaimLease, requestVars
<1>34. ASSUME ReadUsageEvents PROVE TypeOK'
  BY <1>34, QuotaAssumption DEF ReadUsageEvents, ReconType, EvidenceType,
     ReconPCs, requestVars
<1>35. ASSUME CompareCounter PROVE TypeOK'
  BY <1>35, QuotaAssumption DEF CompareCounter, ReconType, StoreType,
     ReconPCs, requestVars
<1>36. ASSUME RepairCounter PROVE TypeOK'
  <2>1. StoreType'
    BY <1>36, AdjustType DEF RepairCounter, StoreType, ReconType
  <2>2. ReconType'
    BY <1>36 DEF RepairCounter, ReconType, ReconPCs
  <2> QED
    BY <1>36, <2>1, <2>2 DEF RepairCounter, requestVars
<1>37. ASSUME TickDone PROVE TypeOK'
  BY <1>37, ClockAssumption DEF TickDone, ReconType, ReconPCs, Times,
     MaxTime, requestVars
<1>38. ASSUME Tick PROVE TypeOK'
  BY <1>38, ClockAssumption DEF Tick, EnvType, Times, MaxTime, requestVars
<1>39. ASSUME FlipHotState PROVE TypeOK'
  BY <1>39 DEF FlipHotState, EnvType, requestVars
<1>40. ASSUME NEW p \in Forceable, ForceBudgetBlock(p) PROVE TypeOK'
  BY <1>40, BudgetAssumption DEF ForceBudgetBlock, EnvType, requestVars
<1>41. ASSUME UNCHANGED vars PROVE TypeOK'
  BY <1>41 DEF vars, requestVars
<1> QED
  BY <1>1, <1>2, <1>3, <1>4, <1>5, <1>6, <1>7, <1>8, <1>9, <1>10, <1>11,
     <1>12, <1>13, <1>14, <1>15, <1>16, <1>17, <1>18, <1>19, <1>20, <1>21,
     <1>22, <1>23, <1>24, <1>25, <1>26, <1>27, <1>28, <1>29, <1>30, <1>31,
     <1>32, <1>33, <1>34, <1>35, <1>36, <1>37, <1>38, <1>39, <1>40, <1>41
     DEF Next, RequestStep, ReconcilerStep

\* Every reachable state is well typed.
THEOREM TypeCorrect == Spec => []TypeOK
  BY TypeInit, TypeStep, PTL DEF Spec

(***************************************************************************)
(* The in-flight counter of a request budget.                              *)
(*                                                                         *)
(* BudgetCounterExact is not inductive: to know that a step adds or takes  *)
(* away exactly one holder, LeaseInv ties the status of a lease to where   *)
(* its request and the reconciler are.                                     *)
(***************************************************************************)

\* A policy still to be visited has no lease; a lease whose decrement is
\* pending has been released, or expired if it is the reconciler's.
LeaseInv ==
    /\ \A r \in Requests, p \in BudgetPolicies :
        /\ pc[r] = "idle" => lease[r][p] = "none"
        /\ pc[r] \in {"budget", "lease_record", "budget_rollback"} /\ p \in todo[r]
             => lease[r][p] = "none"
        /\ pc[r] = "lease_decrement" /\ IsLeast(p, held[r])
             => lease[r][p] = "released"
        /\ <<r, p>> \in expiring => lease[r][p] = "expired"
    /\ rpc # "expire" => expiring = {}

BudgetInv == TypeOK /\ LeaseInv /\ BudgetCounterExact

\* A step that opens and closes no reservation.
Calm ==
    /\ UNCHANGED <<budgetCounter, lease, startedAt, todo, held, expiring>>
    /\ rpc' = rpc \/ (rpc' # "expire" /\ expiring = {})
    /\ now' = now \/ Tick
    /\ \A r \in Requests :
        \/ pc'[r] = pc[r]
        \/ /\ pc[r] \notin {"idle", "done", "lease_record", "budget_rollback",
                             "lease_decrement"}
           /\ pc'[r] \notin {"idle", "budget", "lease_record", "budget_rollback",
                             "lease_decrement"}

\* What adding or removing one request does to the cardinality of a set of
\* requests.
LEMMA CardStep ==
    ASSUME NEW S \in SUBSET Requests, NEW x \in Requests
    PROVE  /\ Cardinality(S) \in Nat
           /\ x \notin S => Cardinality(S \cup {x}) = Cardinality(S) + 1
           /\ x \in S => /\ Cardinality(S \ {x}) = Cardinality(S) - 1
                         /\ Cardinality(S) >= 1
<1>1. IsFiniteSet(S)
  BY RequestAssumption, FS_Subset
<1>2. Cardinality(S) \in Nat
  BY <1>1, FS_CardinalityType
<1>3. ASSUME x \notin S PROVE Cardinality(S \cup {x}) = Cardinality(S) + 1
  BY <1>1, <1>3, FS_AddElement
<1>4. ASSUME x \in S
      PROVE  Cardinality(S \ {x}) = Cardinality(S) - 1 /\ Cardinality(S) >= 1
  <2>1. Cardinality(S \ {x}) = Cardinality(S) - 1
    BY <1>1, <1>4, FS_RemoveElement
  <2>2. Cardinality(S) # 0
    BY <1>1, <1>4, FS_EmptySet
  <2> QED
    BY <1>2, <2>1, <2>2
<1> QED
  BY <1>2, <1>3, <1>4

\* A set of integers has at most one least element.
LEMMA LeastUnique ==
    ASSUME NEW S \in SUBSET Int, NEW x, NEW y, IsLeast(x, S), IsLeast(y, S)
    PROVE  x = y
  BY DEF IsLeast

\* Most actions are calm.
LEMMA CalmSteps ==
    ASSUME TypeOK, LeaseInv,
           \/ \E r \in Requests :
                \/ BudgetReject(r) \/ BudgetHotStateLoss(r) \/ QuotaPreflight(r)
                \/ QuotaLimit(r) \/ QuotaReservePass(r) \/ QuotaRate(r)
                \/ QuotaConcurrency(r) \/ RollbackQuota(r) \/ QuotaHotStateLoss(r)
                \/ Admit(r) \/ ProviderAnswers(r) \/ ProviderFails(r)
                \/ InsertFailedAttempt(r) \/ InsertAttempt(r) \/ RecordUsage(r)
                \/ InsertUsage(r) \/ FinalizeQuota(r) \/ FinalizeBudget(r)
                \/ BudgetReleased(r) \/ ReleaseQuota(r) \/ QuotaReleased(r)
                \/ BlockDecision(r) \/ PersistFails(r) \/ Cancel(r)
           \/ ReadUsageEvents \/ CompareCounter \/ RepairCounter \/ TickDone
           \/ Tick \/ FlipHotState
           \/ \E p \in Forceable : ForceBudgetBlock(p)
           \/ UNCHANGED vars
    PROVE  Calm
<1> USE DEF TypeOK, ControlType, LeaseInv, Calm, envVars, storeVars,
            evidenceVars, budgetLocals, controlVars, requestVars, reconVars
<1>1. ASSUME NEW r \in Requests, BudgetReject(r) PROVE Calm
  BY <1>1 DEF BudgetReject
<1>2. ASSUME NEW r \in Requests, BudgetHotStateLoss(r) PROVE Calm
  BY <1>2 DEF BudgetHotStateLoss
<1>3. ASSUME NEW r \in Requests, QuotaPreflight(r) PROVE Calm
  BY <1>3 DEF QuotaPreflight
<1>4. ASSUME NEW r \in Requests, QuotaLimit(r) PROVE Calm
  BY <1>4 DEF QuotaLimit
<1>5. ASSUME NEW r \in Requests, QuotaReservePass(r) PROVE Calm
  BY <1>5 DEF QuotaReservePass
<1>6. ASSUME NEW r \in Requests, QuotaRate(r) PROVE Calm
  BY <1>6 DEF QuotaRate
<1>7. ASSUME NEW r \in Requests, QuotaConcurrency(r) PROVE Calm
  BY <1>7 DEF QuotaConcurrency
<1>8. ASSUME NEW r \in Requests, RollbackQuota(r) PROVE Calm
  BY <1>8 DEF RollbackQuota
<1>9. ASSUME NEW r \in Requests, QuotaHotStateLoss(r) PROVE Calm
  BY <1>9 DEF QuotaHotStateLoss
<1>10. ASSUME NEW r \in Requests, Admit(r) PROVE Calm
  BY <1>10 DEF Admit
<1>11. ASSUME NEW r \in Requests, ProviderAnswers(r) PROVE Calm
  BY <1>11 DEF ProviderAnswers
<1>12. ASSUME NEW r \in Requests, ProviderFails(r) PROVE Calm
  BY <1>12 DEF ProviderFails
<1>13. ASSUME NEW r \in Requests, InsertFailedAttempt(r) PROVE Calm
  BY <1>13 DEF InsertFailedAttempt
<1>14. ASSUME NEW r \in Requests, InsertAttempt(r) PROVE Calm
  BY <1>14 DEF InsertAttempt
<1>15. ASSUME NEW r \in Requests, RecordUsage(r) PROVE Calm
  BY <1>15 DEF RecordUsage
<1>16. ASSUME NEW r \in Requests, InsertUsage(r) PROVE Calm
  BY <1>16 DEF InsertUsage
<1>17. ASSUME NEW r \in Requests, FinalizeQuota(r) PROVE Calm
  BY <1>17 DEF FinalizeQuota
<1>18. ASSUME NEW r \in Requests, FinalizeBudget(r) PROVE Calm
  BY <1>18 DEF FinalizeBudget
<1>19. ASSUME NEW r \in Requests, BudgetReleased(r) PROVE Calm
  BY <1>19 DEF BudgetReleased
<1>20. ASSUME NEW r \in Requests, ReleaseQuota(r) PROVE Calm
  BY <1>20 DEF ReleaseQuota
<1>21. ASSUME NEW r \in Requests, QuotaReleased(r) PROVE Calm
  BY <1>21 DEF QuotaReleased
<1>22. ASSUME NEW r \in Requests, BlockDecision(r) PROVE Calm
  BY <1>22 DEF BlockDecision
<1>23. ASSUME NEW r \in Requests, PersistFails(r) PROVE Calm
  BY <1>23 DEF PersistFails
<1>24. ASSUME NEW r \in Requests, Cancel(r) PROVE Calm
  BY <1>24 DEF Cancel
<1>25. ASSUME ReadUsageEvents PROVE Calm
  BY <1>25 DEF ReadUsageEvents
<1>26. ASSUME CompareCounter PROVE Calm
  BY <1>26 DEF CompareCounter
<1>27. ASSUME RepairCounter PROVE Calm
  BY <1>27 DEF RepairCounter
<1>28. ASSUME TickDone PROVE Calm
  BY <1>28 DEF TickDone
<1>29. ASSUME Tick PROVE Calm
  BY <1>29 DEF Tick
<1>30. ASSUME FlipHotState PROVE Calm
  BY <1>30 DEF FlipHotState
<1>31. ASSUME NEW p \in Forceable, ForceBudgetBlock(p) PROVE Calm
  BY <1>31 DEF ForceBudgetBlock
<1>32. ASSUME UNCHANGED vars PROVE Calm
  BY <1>32 DEF vars
<1> QED
  BY <1>1, <1>2, <1>3, <1>4, <1>5, <1>6, <1>7, <1>8, <1>9, <1>10, <1>11,
     <1>12, <1>13, <1>14, <1>15, <1>16, <1>17, <1>18, <1>19, <1>20, <1>21,
     <1>22, <1>23, <1>24, <1>25, <1>26, <1>27, <1>28, <1>29, <1>30, <1>31,
     <1>32

\* A calm step preserves the invariant.
LEMMA CalmPreserves ==
    ASSUME BudgetInv, TypeOK', Calm PROVE BudgetInv'
<1>1. LeaseInv'
  BY DEF BudgetInv, LeaseInv, Calm
<1>2. ASSUME NEW p \in BudgetPolicies, NEW k \in Times
      PROVE  BudgetHolders(p, k)' = BudgetHolders(p, k)
  BY DEF Calm, BudgetHolders, BudgetContributes
<1> QED
  BY <1>1, <1>2 DEF BudgetInv, BudgetCounterExact, Calm

\* Only the entry of one policy and one period moves when a counter is
\* adjusted by one for request x, who joins or leaves its holders.
LEMMA CounterStep ==
    ASSUME BudgetInv,
           NEW x \in Requests, NEW p \in BudgetPolicies, NEW d \in {1, -1},
           UNCHANGED startedAt,
           budgetCounter' = AdjustBudget(p, BudgetKey(x, p), d),
           \A r \in Requests, b \in BudgetPolicies :
              r # x \/ b # p => (BudgetContributes(r, b)' <=> BudgetContributes(r, b)),
           d = 1 => ~BudgetContributes(x, p) /\ BudgetContributes(x, p)',
           d = -1 => BudgetContributes(x, p) /\ ~BudgetContributes(x, p)'
    PROVE  BudgetCounterExact'
<1> DEFINE key == BudgetKey(x, p)
<1>1. key \in Times
  BY BudgetAssumption DEF BudgetInv, TypeOK, BudgetLocalType
<1> SUFFICES ASSUME NEW b \in BudgetPolicies, NEW k \in Times
             PROVE  budgetCounter'[b][k] = Cardinality(BudgetHolders(b, k)')
  BY DEF BudgetCounterExact
<1>2. budgetCounter[b][k] = Cardinality(BudgetHolders(b, k))
  BY DEF BudgetInv, BudgetCounterExact
<1>3. CASE b # p \/ k # key
  <2>1. BudgetHolders(b, k)' = BudgetHolders(b, k)
    BY <1>3 DEF BudgetHolders
  <2>2. budgetCounter'[b][k] = budgetCounter[b][k]
    BY <1>3 DEF BudgetInv, TypeOK, StoreType, AdjustBudget
  <2> QED
    BY <1>2, <2>1, <2>2
<1>4. CASE b = p /\ k = key
  <2>1. budgetCounter'[b][k] = Adjust(budgetCounter[b][k], d)
    BY <1>1, <1>4 DEF BudgetInv, TypeOK, StoreType, AdjustBudget
  <2>2. BudgetHolders(b, k) \in SUBSET Requests
    BY DEF BudgetHolders
  <2>3. CASE d = 1
    <3>1. ~BudgetContributes(x, p) /\ BudgetContributes(x, p)'
      BY <2>3
    <3>2. x \notin BudgetHolders(b, k)
      BY <1>4, <3>1 DEF BudgetHolders
    <3>3. BudgetHolders(b, k)' = BudgetHolders(b, k) \cup {x}
      BY <1>4, <3>1 DEF BudgetHolders
    <3> QED
      BY <1>2, <2>1, <2>2, <2>3, <3>2, <3>3, CardStep DEF Adjust
  <2>4. CASE d = -1
    <3>1. BudgetContributes(x, p) /\ ~BudgetContributes(x, p)'
      BY <2>4
    <3>2. x \in BudgetHolders(b, k)
      BY <1>4, <3>1 DEF BudgetHolders
    <3>3. BudgetHolders(b, k)' = BudgetHolders(b, k) \ {x}
      BY <1>4, <3>1 DEF BudgetHolders
    <3> QED
      BY <1>2, <2>1, <2>2, <2>4, <3>2, <3>3, CardStep DEF Adjust
  <2> QED
    BY <2>3, <2>4
<1> QED
  BY <1>3, <1>4

\* Request x joins the holders of policy p.
LEMMA CounterUp ==
    ASSUME BudgetInv, NEW x \in Requests, NEW p \in BudgetPolicies,
           UNCHANGED startedAt,
           budgetCounter' = AdjustBudget(p, BudgetKey(x, p), 1),
           \A r \in Requests, b \in BudgetPolicies :
              r # x \/ b # p => (BudgetContributes(r, b)' <=> BudgetContributes(r, b)),
           ~BudgetContributes(x, p), BudgetContributes(x, p)'
    PROVE  BudgetCounterExact'
  BY CounterStep, 1 \in {1, -1}, 1 # -1

\* Request x leaves the holders of policy p.
LEMMA CounterDown ==
    ASSUME BudgetInv, NEW x \in Requests, NEW p \in BudgetPolicies,
           UNCHANGED startedAt,
           budgetCounter' = AdjustBudget(p, BudgetKey(x, p), -1),
           \A r \in Requests, b \in BudgetPolicies :
              r # x \/ b # p => (BudgetContributes(r, b)' <=> BudgetContributes(r, b)),
           BudgetContributes(x, p), ~BudgetContributes(x, p)'
    PROVE  BudgetCounterExact'
  BY CounterStep, -1 \in {1, -1}, 1 # -1

\* A step that moves no counter, changes no contribution and moves the start
\* only of requests that contribute nothing keeps the counters exact.
LEMMA HoldersFrame ==
    ASSUME BudgetInv, UNCHANGED budgetCounter,
           \A r \in Requests, b \in BudgetPolicies :
              /\ BudgetContributes(r, b)' <=> BudgetContributes(r, b)
              /\ startedAt'[r] = startedAt[r] \/ ~BudgetContributes(r, b)
    PROVE  BudgetCounterExact'
<1>1. ASSUME NEW p \in BudgetPolicies, NEW k \in Times
      PROVE  BudgetHolders(p, k)' = BudgetHolders(p, k)
  BY DEF BudgetHolders
<1> QED
  BY <1>1 DEF BudgetInv, BudgetCounterExact

\* Request x's contribution to policy p is what its lease, its position and
\* the reconciler's list say; a step of x leaves the others' alone.
LEMMA OthersFrame ==
    ASSUME NEW x \in Requests, UNCHANGED expiring,
           \A r \in Requests : r # x =>
              /\ lease'[r] = lease[r] /\ pc'[r] = pc[r]
              /\ todo'[r] = todo[r] /\ held'[r] = held[r]
    PROVE  \A r \in Requests, b \in BudgetPolicies :
              r # x => (BudgetContributes(r, b)' <=> BudgetContributes(r, b))
  BY DEF BudgetContributes

\* The invariant holds initially: nothing is reserved.
LEMMA BudgetInvInit == Init => BudgetInv
<1> SUFFICES ASSUME Init PROVE BudgetInv
  OBVIOUS
<1>1. TypeOK
  BY TypeInit
<1>2. LeaseInv
  BY DEF Init, LeaseInv, IsLeast
<1>3. ASSUME NEW p \in BudgetPolicies, NEW k \in Times
      PROVE  budgetCounter[p][k] = Cardinality(BudgetHolders(p, k))
  <2>1. BudgetHolders(p, k) = {}
    BY DEF Init, BudgetHolders, BudgetContributes, IsLeast
  <2> QED
    BY <2>1, FS_EmptySet DEF Init
<1> QED
  BY <1>1, <1>2, <1>3 DEF BudgetInv, BudgetCounterExact

\* A request whose preflight is under way.
LEMMA PreflightSteps ==
    ASSUME BudgetInv, TypeOK', NEW r \in Requests,
           \/ Arrive(r) \/ BudgetPass(r) \/ ReserveBudget(r)
           \/ RollbackBudget(r) \/ RecordLease(r)
    PROVE  BudgetInv'
<1> USE DEF BudgetInv, TypeOK, ControlType, StoreType, BudgetLocalType, ReconType,
            storeVars, evidenceVars, budgetLocals, controlVars, reconVars
<1>1. CASE Arrive(r)
  <2>1. LeaseInv'
    BY <1>1 DEF Arrive, LeaseInv
  <2>2. /\ pc[r] = "idle" /\ pc'[r] \in {"block", "budget"}
        /\ \A x \in Requests : x # r =>
              pc'[x] = pc[x] /\ todo'[x] = todo[x] /\ startedAt'[x] = startedAt[x]
        /\ UNCHANGED <<budgetCounter, lease, held, expiring>>
    BY <1>1 DEF Arrive
  <2>3. \A b \in BudgetPolicies : ~BudgetContributes(r, b) /\ ~BudgetContributes(r, b)'
    BY <2>2 DEF LeaseInv, BudgetContributes
  <2>4. \A x \in Requests, b \in BudgetPolicies :
            x # r => (BudgetContributes(x, b)' <=> BudgetContributes(x, b))
    BY <2>2, OthersFrame
  <2> QED
    BY <2>1, <2>2, <2>3, <2>4, HoldersFrame
<1>2. CASE BudgetPass(r)
  <2>1. LeaseInv'
    BY <1>2 DEF BudgetPass, LeaseInv
  <2>2. \A x \in Requests, b \in BudgetPolicies :
            BudgetContributes(x, b)' <=> BudgetContributes(x, b)
    BY <1>2 DEF BudgetPass, BudgetContributes
  <2>3. UNCHANGED <<budgetCounter, startedAt>>
    BY <1>2 DEF BudgetPass
  <2> QED
    BY <2>1, <2>2, <2>3, HoldersFrame
<1>3. CASE ReserveBudget(r)
  <2>1. PICK p \in todo[r] :
            IsLeast(p, todo[r]) /\ budgetCounter' = AdjustBudget(p, BudgetKey(r, p), 1)
    BY <1>3 DEF ReserveBudget
  <2>2. /\ pc[r] = "budget" /\ pc'[r] \in {"lease_record", "budget_rollback"}
        /\ \A x \in Requests : x # r => pc'[x] = pc[x]
        /\ UNCHANGED <<lease, startedAt, todo, held, expiring, rpc>>
    BY <1>3 DEF ReserveBudget
  <2>3. LeaseInv'
    BY <2>2 DEF LeaseInv
  <2>4. ~BudgetContributes(r, p) /\ BudgetContributes(r, p)'
    BY <2>1, <2>2 DEF LeaseInv, BudgetContributes
  <2>5. ASSUME NEW b \in BudgetPolicies, b # p
        PROVE  BudgetContributes(r, b)' <=> BudgetContributes(r, b)
    <3>1. ~IsLeast(b, todo[r])
      BY <2>1, <2>5, LeastUnique DEF BudgetPolicies
    <3> QED
      BY <2>2, <3>1 DEF BudgetContributes
  <2>6. \A x \in Requests, b \in BudgetPolicies :
            x # r => (BudgetContributes(x, b)' <=> BudgetContributes(x, b))
    BY <2>2, OthersFrame
  <2>7. \A x \in Requests, b \in BudgetPolicies :
            x # r \/ b # p => (BudgetContributes(x, b)' <=> BudgetContributes(x, b))
    BY <2>5, <2>6
  <2>8. p \in BudgetPolicies
    BY <2>1
  <2>9. BudgetCounterExact'
    BY <2>1, <2>2, <2>4, <2>7, <2>8, CounterUp
  <2> QED
    BY <2>3, <2>9
<1>4. CASE RollbackBudget(r)
  <2>1. PICK p \in todo[r] :
            IsLeast(p, todo[r]) /\ budgetCounter' = AdjustBudget(p, BudgetKey(r, p), -1)
    BY <1>4 DEF RollbackBudget
  <2>2. /\ pc[r] = "budget_rollback" /\ pc'[r] = "block"
        /\ \A x \in Requests : x # r => pc'[x] = pc[x]
        /\ UNCHANGED <<lease, startedAt, todo, held, expiring, rpc>>
    BY <1>4 DEF RollbackBudget
  <2>3. LeaseInv'
    BY <2>2 DEF LeaseInv
  <2>4. BudgetContributes(r, p) /\ ~BudgetContributes(r, p)'
    BY <2>1, <2>2 DEF LeaseInv, BudgetContributes
  <2>5. ASSUME NEW b \in BudgetPolicies, b # p
        PROVE  BudgetContributes(r, b)' <=> BudgetContributes(r, b)
    <3>1. ~IsLeast(b, todo[r])
      BY <2>1, <2>5, LeastUnique DEF BudgetPolicies
    <3> QED
      BY <2>2, <3>1 DEF BudgetContributes
  <2>6. \A x \in Requests, b \in BudgetPolicies :
            x # r => (BudgetContributes(x, b)' <=> BudgetContributes(x, b))
    BY <2>2, OthersFrame
  <2>7. \A x \in Requests, b \in BudgetPolicies :
            x # r \/ b # p => (BudgetContributes(x, b)' <=> BudgetContributes(x, b))
    BY <2>5, <2>6
  <2>8. p \in BudgetPolicies
    BY <2>1
  <2>9. BudgetCounterExact'
    BY <2>1, <2>2, <2>4, <2>7, <2>8, CounterDown
  <2> QED
    BY <2>3, <2>9
<1>5. CASE RecordLease(r)
  <2>1. PICK p \in todo[r] :
            /\ IsLeast(p, todo[r])
            /\ lease' = [lease EXCEPT ![r][p] = "reserved"]
            /\ todo' = [todo EXCEPT ![r] = @ \ {p}]
    BY <1>5 DEF RecordLease
  <2>2. /\ pc[r] = "lease_record" /\ pc'[r] = "budget"
        /\ \A x \in Requests : x # r => pc'[x] = pc[x] /\ held'[x] = held[x]
        /\ UNCHANGED <<budgetCounter, startedAt, expiring, rpc>>
    BY <1>5 DEF RecordLease
  <2>3. LeaseInv'
    BY <2>1, <2>2 DEF LeaseInv
  <2>4. BudgetContributes(r, p) /\ BudgetContributes(r, p)'
    BY <2>1, <2>2 DEF BudgetContributes
  <2>5. ASSUME NEW b \in BudgetPolicies, b # p
        PROVE  BudgetContributes(r, b)' <=> BudgetContributes(r, b)
    <3>1. ~IsLeast(b, todo[r])
      BY <2>1, <2>5, LeastUnique DEF BudgetPolicies
    <3>2. lease'[r][b] = lease[r][b]
      BY <2>1, <2>5
    <3> QED
      BY <2>2, <3>1, <3>2 DEF BudgetContributes
  <2>6. \A x \in Requests, b \in BudgetPolicies :
            x # r => (BudgetContributes(x, b)' <=> BudgetContributes(x, b))
    BY <2>1, <2>2, OthersFrame
  <2>7. \A x \in Requests, b \in BudgetPolicies :
            BudgetContributes(x, b)' <=> BudgetContributes(x, b)
    BY <2>4, <2>5, <2>6
  <2> QED
    BY <2>2, <2>3, <2>7, HoldersFrame
<1> QED
  BY <1>1, <1>2, <1>3, <1>4, <1>5

\* A request that gives its leases back.
LEMMA ReleaseSteps ==
    ASSUME BudgetInv, TypeOK', NEW r \in Requests,
           ReleaseLease(r) \/ DecrementLease(r)
    PROVE  BudgetInv'
<1> USE DEF BudgetInv, TypeOK, ControlType, StoreType, BudgetLocalType, ReconType,
            storeVars, evidenceVars, budgetLocals, controlVars, reconVars
<1>1. CASE ReleaseLease(r)
  <2>1. PICK p \in held[r] :
            /\ IsLeast(p, held[r])
            /\ \/ /\ lease[r][p] = "reserved"
                  /\ lease' = [lease EXCEPT ![r][p] = "released"]
                  /\ pc' = [pc EXCEPT ![r] = "lease_decrement"]
                  /\ UNCHANGED held
               \/ /\ lease[r][p] # "reserved"
                  /\ held' = [held EXCEPT ![r] = @ \ {p}]
                  /\ UNCHANGED <<lease, pc>>
    BY <1>1 DEF ReleaseLease, StillReserved
  <2>2. /\ pc[r] = "release_budget"
        /\ UNCHANGED <<budgetCounter, startedAt, todo, expiring, rpc>>
    BY <1>1 DEF ReleaseLease
  <2>3. \A b \in BudgetPolicies : IsLeast(b, held[r]) => b = p
    BY <2>1, LeastUnique DEF BudgetPolicies
  <2>4. LeaseInv'
    <3>1. CASE lease[r][p] = "reserved"
      <4>1. /\ lease'[r][p] = "released" /\ UNCHANGED held
            /\ \A x \in Requests, b \in BudgetPolicies :
                  x # r \/ b # p => lease'[x][b] = lease[x][b]
            /\ \A x \in Requests : x # r => pc'[x] = pc[x]
            /\ pc'[r] = "lease_decrement"
        BY <2>1, <3>1
      <4>2. <<r, p>> \notin expiring
        BY <2>1, <3>1 DEF LeaseInv
      <4>3. \A b \in BudgetPolicies :
               /\ IsLeast(b, held'[r]) => lease'[r][b] = "released"
               /\ <<r, b>> \in expiring' => lease'[r][b] = "expired"
        BY <2>2, <2>3, <4>1, <4>2 DEF LeaseInv
      <4>4. \A x \in Requests, b \in BudgetPolicies : x # r =>
               /\ pc'[x] = pc[x] /\ held'[x] = held[x] /\ todo'[x] = todo[x]
               /\ lease'[x][b] = lease[x][b]
        BY <2>2, <4>1
      <4>5. ASSUME NEW x \in Requests, NEW b \in BudgetPolicies
            PROVE  /\ pc'[x] = "idle" => lease'[x][b] = "none"
                   /\ pc'[x] \in {"budget", "lease_record", "budget_rollback"}
                        /\ b \in todo'[x] => lease'[x][b] = "none"
                   /\ pc'[x] = "lease_decrement" /\ IsLeast(b, held'[x])
                        => lease'[x][b] = "released"
                   /\ <<x, b>> \in expiring' => lease'[x][b] = "expired"
        <5>1. CASE x = r
          BY <4>1, <4>3, <5>1
        <5>2. CASE x # r
          BY <2>2, <4>4, <5>2 DEF LeaseInv
        <5> QED
          BY <5>1, <5>2
      <4> QED
        BY <2>2, <4>5 DEF LeaseInv
    <3>2. CASE lease[r][p] # "reserved"
      <4>1. /\ UNCHANGED <<lease, pc>>
            /\ \A x \in Requests : x # r => held'[x] = held[x]
        BY <2>1, <3>2
      <4>2. \A x \in Requests : pc[x] = "lease_decrement" => held'[x] = held[x]
        BY <2>2, <4>1
      <4> QED
        BY <2>2, <4>1, <4>2 DEF LeaseInv
    <3> QED
      BY <3>1, <3>2
  <2>5. \A b \in BudgetPolicies : BudgetContributes(r, b)' <=> BudgetContributes(r, b)
    BY <2>1, <2>2, <2>3 DEF BudgetContributes
  <2>6. \A x \in Requests, b \in BudgetPolicies :
            x # r => (BudgetContributes(x, b)' <=> BudgetContributes(x, b))
    BY <2>1, <2>2, OthersFrame
  <2>7. \A x \in Requests, b \in BudgetPolicies :
            BudgetContributes(x, b)' <=> BudgetContributes(x, b)
    BY <2>5, <2>6
  <2> QED
    BY <2>2, <2>4, <2>7, HoldersFrame
<1>2. CASE DecrementLease(r)
  <2>1. PICK p \in held[r] :
            /\ IsLeast(p, held[r])
            /\ budgetCounter' = AdjustBudget(p, BudgetKey(r, p), -1)
    BY <1>2 DEF DecrementLease
  <2>2. /\ pc[r] = "lease_decrement" /\ pc'[r] = "release_budget"
        /\ \A x \in Requests : x # r => pc'[x] = pc[x] /\ held'[x] = held[x]
        /\ UNCHANGED <<lease, startedAt, todo, expiring, rpc>>
    BY <1>2 DEF DecrementLease
  <2>3. LeaseInv'
    <3>1. \A x \in Requests :
              pc'[x] = "lease_decrement" => pc[x] = pc'[x] /\ held'[x] = held[x]
      BY <2>2
    <3>2. \A x \in Requests : pc'[x] # "release_budget" => pc'[x] = pc[x]
      BY <2>2
    <3> QED
      BY <2>2, <3>1, <3>2 DEF LeaseInv
  <2>4. BudgetContributes(r, p) /\ ~BudgetContributes(r, p)'
    BY <2>1, <2>2 DEF LeaseInv, BudgetContributes
  <2>5. ASSUME NEW b \in BudgetPolicies, b # p
        PROVE  BudgetContributes(r, b)' <=> BudgetContributes(r, b)
    <3>1. ~IsLeast(b, held[r])
      BY <2>1, <2>5, LeastUnique DEF BudgetPolicies
    <3> QED
      BY <2>2, <3>1 DEF BudgetContributes
  <2>6. \A x \in Requests, b \in BudgetPolicies :
            x # r => (BudgetContributes(x, b)' <=> BudgetContributes(x, b))
    BY <2>2, OthersFrame
  <2>7. \A x \in Requests, b \in BudgetPolicies :
            x # r \/ b # p => (BudgetContributes(x, b)' <=> BudgetContributes(x, b))
    BY <2>5, <2>6
  <2>8. p \in BudgetPolicies
    BY <2>1
  <2>9. BudgetCounterExact'
    BY <2>1, <2>2, <2>4, <2>7, <2>8, CounterDown
  <2> QED
    BY <2>3, <2>9
<1> QED
  BY <1>1, <1>2

\* The reconciler marks overdue leases under one lock, then takes each of them
\* off its counter.
LEMMA ReclaimSteps ==
    ASSUME BudgetInv, TypeOK',
           \/ ExpireLeases
           \/ \E r \in Requests, p \in BudgetPolicies : ReclaimLease(r, p)
    PROVE  BudgetInv'
<1> USE DEF BudgetInv, TypeOK, ControlType, StoreType, BudgetLocalType, ReconType,
            storeVars, evidenceVars, budgetLocals, controlVars, requestVars
<1>1. CASE ExpireLeases
  <2>1. /\ expiring = {} /\ expiring' = Overdue /\ rpc' = "expire"
        /\ UNCHANGED <<budgetCounter, startedAt, todo, held, pc>>
    BY <1>1 DEF ExpireLeases, LeaseInv
  <2>2. \A r \in Requests, p \in BudgetPolicies :
            lease'[r][p] = IF <<r, p>> \in Overdue THEN "expired" ELSE lease[r][p]
    BY <1>1 DEF ExpireLeases
  <2>3. \A r \in Requests, p \in BudgetPolicies :
            <<r, p>> \in Overdue => lease[r][p] = "reserved"
    BY DEF Overdue
  <2>4. LeaseInv'
    BY <2>1, <2>2, <2>3 DEF LeaseInv
  <2>5. \A r \in Requests, p \in BudgetPolicies :
            BudgetContributes(r, p)' <=> BudgetContributes(r, p)
    BY <2>1, <2>2, <2>3 DEF BudgetContributes
  <2> QED
    BY <2>1, <2>4, <2>5, HoldersFrame
<1>2. ASSUME NEW r \in Requests, NEW p \in BudgetPolicies, ReclaimLease(r, p)
      PROVE  BudgetInv'
  <2>1. /\ <<r, p>> \in expiring /\ expiring' = expiring \ {<<r, p>>}
        /\ budgetCounter' = AdjustBudget(p, BudgetKey(r, p), -1)
        /\ UNCHANGED <<lease, startedAt, todo, held, pc, rpc>>
    BY <1>2 DEF ReclaimLease
  <2>2. LeaseInv'
    BY <2>1 DEF LeaseInv
  <2>3. BudgetContributes(r, p) /\ ~BudgetContributes(r, p)'
    BY <2>1 DEF LeaseInv, BudgetContributes, IsLeast
  <2>4. \A x \in Requests, b \in BudgetPolicies :
            x # r \/ b # p => (BudgetContributes(x, b)' <=> BudgetContributes(x, b))
    BY <2>1 DEF BudgetContributes
  <2> QED
    BY <2>1, <2>2, <2>3, <2>4, CounterDown
<1> QED
  BY <1>1, <1>2

\* Every step preserves the invariant.
LEMMA BudgetInvStep == BudgetInv /\ [Next]_vars => BudgetInv'
<1> SUFFICES ASSUME BudgetInv, [Next]_vars PROVE BudgetInv'
  OBVIOUS
<1>1. TypeOK /\ LeaseInv
  BY DEF BudgetInv
<1>2. TypeOK'
  BY <1>1, TypeStep
<1>3. CASE Calm
  BY <1>2, <1>3, CalmPreserves
<1>4. ASSUME NEW r \in Requests,
             \/ Arrive(r) \/ BudgetPass(r) \/ ReserveBudget(r)
             \/ RollbackBudget(r) \/ RecordLease(r)
      PROVE  BudgetInv'
  BY <1>2, <1>4, PreflightSteps
<1>5. ASSUME NEW r \in Requests, ReleaseLease(r) \/ DecrementLease(r)
      PROVE  BudgetInv'
  BY <1>2, <1>5, ReleaseSteps
<1>6. CASE ExpireLeases \/ \E r \in Requests, p \in BudgetPolicies : ReclaimLease(r, p)
  BY <1>2, <1>6, ReclaimSteps
<1> QED
  BY <1>1, <1>3, <1>4, <1>5, <1>6, CalmSteps DEF Next, RequestStep, ReconcilerStep

\* The in-flight counter of every request budget counts each open reservation
\* exactly once, for any number of requests, policies and reconciler passes.
THEOREM BudgetCounterCorrect == Spec => []BudgetCounterExact
<1>1. BudgetInv => BudgetCounterExact
  BY DEF BudgetInv
<1> QED
  BY <1>1, BudgetInvInit, BudgetInvStep, PTL DEF Spec

(***************************************************************************)
(* The hard limit. Only ReserveBudget adds a reservation, and it does so   *)
(* after comparing the value its own increment returned; by the exactness  *)
(* of the counter that value bounds the number of reservations.            *)
(***************************************************************************)

HardLimitInv == BudgetInv /\ ReservedWithinHardLimit

\* A step that adds no reservation keeps the number within the limit.
LEMMA NoNewReservation ==
    ASSUME HardLimitInv,
           \A r \in Requests, b \in BudgetPolicies :
              HoldsBudget(r, b)' => HoldsBudget(r, b) /\ startedAt'[r] = startedAt[r]
    PROVE  ReservedWithinHardLimit'
<1> SUFFICES ASSUME NEW b \in BudgetPolicies, NEW k \in Times
             PROVE  Cardinality(Reserved(b, k)') <= BLimit[b]
  BY DEF ReservedWithinHardLimit
<1>1. Reserved(b, k)' \subseteq Reserved(b, k)
  BY DEF Reserved
<1>2. IsFiniteSet(Reserved(b, k))
  BY RequestAssumption, FS_Subset DEF Reserved
<1>3. Cardinality(Reserved(b, k)) <= BLimit[b] /\ BLimit[b] \in Nat
  BY BudgetAssumption DEF HardLimitInv, ReservedWithinHardLimit
<1>4. /\ Cardinality(Reserved(b, k)) \in Nat /\ Cardinality(Reserved(b, k)') \in Nat
      /\ Cardinality(Reserved(b, k)') <= Cardinality(Reserved(b, k))
  BY <1>1, <1>2, FS_Subset, FS_CardinalityType
<1> QED
  BY <1>3, <1>4

\* The step that takes a reservation.
LEMMA ReserveWithinLimit ==
    ASSUME HardLimitInv, BudgetInv', NEW r \in Requests, ReserveBudget(r)
    PROVE  ReservedWithinHardLimit'
<1> USE DEF HardLimitInv, BudgetInv, TypeOK, ControlType, StoreType, BudgetLocalType
<1>1. PICK p \in todo[r] :
          /\ IsLeast(p, todo[r])
          /\ budgetCounter' = AdjustBudget(p, BudgetKey(r, p), 1)
          /\ IF OverReserved(r, p)
               THEN pc' = [pc EXCEPT ![r] = "budget_rollback"]
               ELSE pc' = [pc EXCEPT ![r] = "lease_record"]
  BY DEF ReserveBudget
<1>2. UNCHANGED <<lease, startedAt, todo>>
  BY DEF ReserveBudget, budgetLocals
<1>3. p \in BudgetPolicies /\ BudgetKey(r, p) \in Times
  BY <1>1, BudgetAssumption
<1>4. CASE OverReserved(r, p)
  <2>1. \A x \in Requests, b \in BudgetPolicies :
            HoldsBudget(x, b)' => HoldsBudget(x, b) /\ startedAt'[x] = startedAt[x]
    BY <1>1, <1>2, <1>4 DEF HoldsBudget
  <2> QED
    BY <2>1, NoNewReservation
<1>5. CASE ~OverReserved(r, p)
  <2> SUFFICES ASSUME NEW b \in BudgetPolicies, NEW k \in Times
               PROVE  Cardinality(Reserved(b, k)') <= BLimit[b]
    BY DEF ReservedWithinHardLimit
  <2>1. CASE b = p /\ k = BudgetKey(r, p)
    <3>1. budgetCounter'[b][k] = Adjust(budgetCounter[b][k], 1)
      BY <1>1, <1>3, <2>1 DEF AdjustBudget
    <3>2. Adjust(budgetCounter[b][k], 1) \in Nat
      BY DEF Adjust
    <3>3. snap[r][b] \in Nat /\ BLimit[b] \in Nat
      BY BudgetAssumption
    <3>4. budgetCounter'[b][k] <= BLimit[b]
      BY <1>5, <2>1, <3>1, <3>2, <3>3 DEF OverReserved
    <3>5. budgetCounter'[b][k] = Cardinality(BudgetHolders(b, k)')
      BY DEF BudgetCounterExact
    <3>6. /\ Cardinality(Reserved(b, k)') <= Cardinality(BudgetHolders(b, k)')
          /\ Cardinality(Reserved(b, k)') \in Nat
      <4>1. Reserved(b, k)' \subseteq BudgetHolders(b, k)'
        BY DEF Reserved, BudgetHolders, HoldsBudget, BudgetContributes
      <4>2. IsFiniteSet(BudgetHolders(b, k)')
        BY RequestAssumption, FS_Subset DEF BudgetHolders
      <4> QED
        BY <4>1, <4>2, FS_Subset, FS_CardinalityType
    <3> QED
      BY <3>1, <3>2, <3>3, <3>4, <3>5, <3>6
  <2>2. CASE b # p \/ k # BudgetKey(r, p)
    <3>1. Reserved(b, k)' = Reserved(b, k)
      <4>1. b # p => ~IsLeast(b, todo[r])
        BY <1>1, <1>3, LeastUnique DEF BudgetPolicies
      <4>2. \A x \in Requests : x # r => (HoldsBudget(x, b)' <=> HoldsBudget(x, b))
        BY <1>1, <1>2 DEF HoldsBudget
      <4>3. b # p => (HoldsBudget(r, b)' <=> HoldsBudget(r, b))
        BY <1>1, <1>2, <4>1 DEF HoldsBudget
      <4> QED
        BY <1>2, <2>2, <4>2, <4>3 DEF Reserved
    <3> QED
      BY <3>1 DEF ReservedWithinHardLimit
  <2> QED
    BY <2>1, <2>2
<1> QED
  BY <1>4, <1>5

\* Every step preserves the limit.
LEMMA HardLimitStep == HardLimitInv /\ [Next]_vars => HardLimitInv'
<1> SUFFICES ASSUME HardLimitInv, [Next]_vars PROVE HardLimitInv'
  OBVIOUS
<1>1. BudgetInv /\ BudgetInv'
  BY BudgetInvStep DEF HardLimitInv
<1> DEFINE Goal == \A r \in Requests, b \in BudgetPolicies :
                      HoldsBudget(r, b)' => HoldsBudget(r, b) /\ startedAt'[r] = startedAt[r]
<1>2. Goal => HardLimitInv'
  BY <1>1, NoNewReservation DEF HardLimitInv
<1> HIDE DEF Goal
<1> USE DEF BudgetInv, TypeOK, ControlType, StoreType, BudgetLocalType,
            storeVars, evidenceVars, budgetLocals, controlVars, requestVars, reconVars
<1>3. CASE Calm
  <2>1. Goal
    BY <1>3 DEF Calm, HoldsBudget, Goal
  <2> QED
    BY <1>2, <2>1
<1>4. ASSUME NEW r \in Requests, ReserveBudget(r) PROVE HardLimitInv'
  BY <1>1, <1>4, ReserveWithinLimit DEF HardLimitInv
<1>5. ASSUME NEW r \in Requests, Arrive(r) PROVE Goal
  <2>1. \A b \in BudgetPolicies : lease'[r][b] = "none" /\ pc'[r] # "lease_record"
    BY <1>1, <1>5 DEF Arrive, LeaseInv
  <2> QED
    BY <1>1, <1>5, <2>1 DEF Arrive, HoldsBudget, Goal
<1>6. ASSUME NEW r \in Requests, BudgetPass(r) \/ RollbackBudget(r) PROVE Goal
  BY <1>1, <1>6 DEF BudgetPass, RollbackBudget, HoldsBudget, Goal
<1>7. ASSUME NEW r \in Requests, RecordLease(r) PROVE Goal
  BY <1>1, <1>7 DEF RecordLease, HoldsBudget, Goal
<1>8. ASSUME NEW r \in Requests, ReleaseLease(r) \/ DecrementLease(r) PROVE Goal
  <2>1. \A x \in Requests, b \in BudgetPolicies :
            lease'[x][b] = "reserved" => lease[x][b] = "reserved"
    <3>1. \/ UNCHANGED lease
          \/ \E p \in held[r] : lease' = [lease EXCEPT ![r][p] = "released"]
      BY <1>8 DEF ReleaseLease, DecrementLease
    <3>2. ASSUME NEW p \in held[r], lease' = [lease EXCEPT ![r][p] = "released"],
                 NEW x \in Requests, NEW b \in BudgetPolicies, lease[x][b] # "reserved"
          PROVE  lease'[x][b] # "reserved"
      BY <1>1, <3>2
    <3> QED
      BY <3>1, <3>2
  <2>2. \A x \in Requests : pc'[x] = "lease_record" => pc[x] = "lease_record"
    BY <1>1, <1>8 DEF ReleaseLease, DecrementLease
  <2>3. UNCHANGED <<startedAt, todo>>
    BY <1>8 DEF ReleaseLease, DecrementLease
  <2> QED
    BY <2>1, <2>2, <2>3 DEF HoldsBudget, Goal
<1>9. CASE ExpireLeases
  BY <1>1, <1>2, <1>9 DEF ExpireLeases, HoldsBudget, Goal
<1>10. ASSUME NEW r \in Requests, NEW p \in BudgetPolicies, ReclaimLease(r, p) PROVE Goal
  BY <1>10 DEF ReclaimLease, HoldsBudget, Goal
<1> QED
  BY <1>1, <1>2, <1>3, <1>4, <1>5, <1>6, <1>7, <1>8, <1>9, <1>10, CalmSteps
     DEF Next, RequestStep, ReconcilerStep

\* However the preflights interleave, with whatever stale view of the ledger,
\* no request budget is ever reserved beyond its hard limit.
THEOREM HardLimitHolds == Spec => []ReservedWithinHardLimit
<1>1. Init => HardLimitInv
  <2> SUFFICES ASSUME Init PROVE HardLimitInv
    OBVIOUS
  <2>1. BudgetInv
    BY BudgetInvInit
  <2>2. ASSUME NEW p \in BudgetPolicies, NEW k \in Times
        PROVE  Cardinality(Reserved(p, k)) <= BLimit[p]
    <3>1. Reserved(p, k) = {}
      BY DEF Init, Reserved, HoldsBudget
    <3> QED
      BY <3>1, FS_EmptySet, BudgetAssumption
  <2> QED
    BY <2>1, <2>2 DEF HardLimitInv, ReservedWithinHardLimit
<1>2. HardLimitInv => ReservedWithinHardLimit
  BY DEF HardLimitInv
<1> QED
  BY <1>1, <1>2, HardLimitStep, PTL DEF Spec

(***************************************************************************)
(* Leases of running requests. The clock does not pass the deadline of a   *)
(* request in flight, and a lease is overdue only after its time to live.  *)
(***************************************************************************)

DeadlineInv ==
    \A r \in Requests \ Turns : InFlight(r) => now <= startedAt[r] + RequestTimeout

LiveLeaseInv == BudgetInv /\ DeadlineInv /\ ActiveLeaseNotExpired

\* A step that moves no clock and no start, brings no request into flight and
\* expires nothing preserves the invariant.
LEMMA LiveLeaseFrame ==
    ASSUME LiveLeaseInv, BudgetInv', UNCHANGED now,
           \A x \in Requests \ Turns : InFlight(x)' =>
              /\ InFlight(x) /\ startedAt'[x] = startedAt[x]
              /\ \A b \in BudgetPolicies :
                    lease'[x][b] = "expired" => lease[x][b] = "expired"
    PROVE  LiveLeaseInv'
  BY DEF LiveLeaseInv, DeadlineInv, ActiveLeaseNotExpired

\* Every step preserves the invariant when requests end before their leases.
LEMMA LiveLeaseStep ==
    ASSUME RequestTimeout < LeaseTTL, LiveLeaseInv, [Next]_vars
    PROVE  LiveLeaseInv'
<1>1. BudgetInv /\ BudgetInv'
  BY BudgetInvStep DEF LiveLeaseInv
<1>2. /\ now \in Int /\ now' \in Int /\ RequestTimeout \in Nat /\ LeaseTTL \in Nat
      /\ \A r \in Requests : startedAt[r] \in Int /\ startedAt'[r] \in Int
  BY <1>1, ClockAssumption
     DEF BudgetInv, TypeOK, EnvType, BudgetLocalType, Times, MaxTime
<1> DEFINE Goal == UNCHANGED now /\ \A x \in Requests \ Turns : InFlight(x)' =>
                      /\ InFlight(x) /\ startedAt'[x] = startedAt[x]
                      /\ \A b \in BudgetPolicies :
                            lease'[x][b] = "expired" => lease[x][b] = "expired"
<1>3. Goal => LiveLeaseInv'
  BY <1>1, LiveLeaseFrame
<1> HIDE DEF Goal
<1>4. CASE Tick
  <2>1. /\ now' = now + 1
        /\ \A r \in Requests \ Turns : InFlight(r) => now < startedAt[r] + RequestTimeout
        /\ UNCHANGED <<pc, lease, startedAt>>
    BY <1>4 DEF Tick, storeVars, requestVars, controlVars, budgetLocals
  <2> QED
    BY <1>1, <1>2, <2>1 DEF LiveLeaseInv, DeadlineInv, ActiveLeaseNotExpired, InFlight
<1>5. ASSUME NEW r \in Requests, Arrive(r) PROVE LiveLeaseInv'
  <2>1. /\ UNCHANGED <<now, lease>> /\ startedAt'[r] = now
        /\ \A x \in Requests : x # r => pc'[x] = pc[x] /\ startedAt'[x] = startedAt[x]
        /\ \A b \in BudgetPolicies : lease[r][b] = "none"
    BY <1>1, <1>5 DEF Arrive, envVars, storeVars, BudgetInv, TypeOK, ControlType,
                      BudgetLocalType, LeaseInv
  <2>2. DeadlineInv'
    BY <1>2, <2>1 DEF LiveLeaseInv, DeadlineInv, InFlight
  <2>3. ActiveLeaseNotExpired'
    BY <2>1 DEF LiveLeaseInv, ActiveLeaseNotExpired, InFlight
  <2> QED
    BY <1>1, <2>2, <2>3 DEF LiveLeaseInv
<1>6. CASE ExpireLeases
  <2>1. UNCHANGED <<now, pc, startedAt>>
    BY <1>6 DEF ExpireLeases, envVars, requestVars, controlVars, budgetLocals
  <2>2. \A r \in Requests \ Turns, p \in BudgetPolicies :
            InFlight(r) => <<r, p>> \notin Overdue
    BY <1>2 DEF LiveLeaseInv, DeadlineInv, Overdue
  <2>3. \A r \in Requests \ Turns, p \in BudgetPolicies :
            InFlight(r) => lease'[r][p] = lease[r][p]
    BY <1>6, <2>2 DEF ExpireLeases
  <2>4. Goal
    BY <2>1, <2>3 DEF Goal, InFlight
  <2> QED
    BY <1>3, <2>4
<1> USE DEF BudgetInv, TypeOK, ControlType, StoreType, InFlight, Goal,
            envVars, storeVars, budgetLocals, controlVars, requestVars
<1>7. CASE Calm /\ ~Tick
  <2>1. Goal
    BY <1>7 DEF Calm
  <2> QED
    BY <1>3, <2>1
<1>8. ASSUME NEW r \in Requests,
             BudgetPass(r) \/ ReserveBudget(r) \/ RollbackBudget(r)
      PROVE  Goal
  BY <1>1, <1>8 DEF BudgetPass, ReserveBudget, RollbackBudget
<1>9. ASSUME NEW r \in Requests, RecordLease(r) PROVE Goal
  <2>1. \A x \in Requests, b \in BudgetPolicies :
            lease'[x][b] = "expired" => lease[x][b] = "expired"
    BY <1>1, <1>9 DEF RecordLease
  <2> QED
    BY <1>1, <1>9, <2>1 DEF RecordLease
<1>10. ASSUME NEW r \in Requests, ReleaseLease(r) \/ DecrementLease(r) PROVE Goal
  <2>1. \/ UNCHANGED lease
        \/ \E p \in held[r] : lease' = [lease EXCEPT ![r][p] = "released"]
    BY <1>10 DEF ReleaseLease, DecrementLease
  <2>2. ASSUME NEW p \in held[r], lease' = [lease EXCEPT ![r][p] = "released"],
               NEW x \in Requests, NEW b \in BudgetPolicies, lease'[x][b] = "expired"
        PROVE  lease[x][b] = "expired"
    BY <1>1, <2>2
  <2>3. /\ UNCHANGED <<now, startedAt>>
        /\ \A x \in Requests : InFlight(x)' => InFlight(x)
    BY <1>1, <1>10 DEF ReleaseLease, DecrementLease
  <2> QED
    BY <2>1, <2>2, <2>3
<1>11. ASSUME NEW r \in Requests, NEW p \in BudgetPolicies, ReclaimLease(r, p) PROVE Goal
  BY <1>11 DEF ReclaimLease
<1> HIDE DEF BudgetInv, InFlight, Goal
<1> QED
  BY <1>1, <1>3, <1>4, <1>5, <1>6, <1>7, <1>8, <1>9, <1>10, <1>11, CalmSteps
     DEF Next, RequestStep, ReconcilerStep, BudgetInv

\* When the request timeout is shorter than the lease's time to live, the
\* reconciler never expires the lease of a request that is still running, turns
\* of a WebSocket apart, which no timeout ends.
THEOREM RunningLeaseKept ==
    ASSUME RequestTimeout < LeaseTTL
    PROVE  Spec => []ActiveLeaseNotExpired
<1>1. Init => LiveLeaseInv
  BY BudgetInvInit DEF Init, LiveLeaseInv, DeadlineInv, ActiveLeaseNotExpired, InFlight
<1>2. LiveLeaseInv /\ [Next]_vars => LiveLeaseInv'
  BY LiveLeaseStep
<1>3. LiveLeaseInv => ActiveLeaseNotExpired
  BY DEF LiveLeaseInv
<1> QED
  BY <1>1, <1>2, <1>3, PTL DEF Spec

-----------------------------------------------------------------------------
(***************************************************************************)
(* The quota counters: for every table of quota policies and every         *)
(* interleaving of preflights, releases, cancellations, outages of the hot *)
(* state and the reconciler.                                               *)
(***************************************************************************)

\* The request takes up one unit of a concurrency counter: it holds a slot, or
\* is about to give back the one it was refused.
TakesSlot(r, q) ==
    \/ q \in qheld[r] /\ qAvail[r]
    \/ pc[r] = "quota_rollback" /\ IsLeast(q, qtodo[r])

\* The reserve pass has let the request past the policy.
Past(r, q) ==
    /\ q \in QuotaPoliciesFor(r)
    /\ Admitted(r) \/ (pc[r] = "quota_reserve" /\ q \notin qtodo[r])

\* Who counts against the limit of a rate quota, and against the allowance of a
\* policy whose hot state was lost: at a time for a slot, for good otherwise.
RatePassed(q, s) ==
    {r \in Requests : Past(r, q) /\ qAvail[r] /\ QuotaKey(r, q) = s}

LossHeld(q, s) ==
    {r \in Requests : q \in qheld[r] /\ ~qAvail[r] /\ QuotaKey(r, q) = s}

LossPassed(q, s) ==
    {r \in Requests : Past(r, q) /\ ~qAvail[r] /\ QuotaKey(r, q) = s}

(***************************************************************************)
(* The inductive invariant. A concurrency counter is exact; the counters   *)
(* of a rate quota and of a loss allowance are only bounds from above,     *)
(* since a refused request leaves its increment and a cancelled one keeps  *)
(* it. Each limit is compared with the value the increment returned, so    *)
(* the bound on the counter carries over to the requests it counts.        *)
(***************************************************************************)

\* What a request holds and has still to visit, by where it is; the
\* reconciler repairs the counters of usage quotas only.
QuotaLocalInv ==
    /\ \A r \in Requests :
        /\ \A q \in qheld[r] : QKind[q] \in ConcurrencyKinds
        /\ pc[r] \in {"idle", "budget", "lease_record", "budget_rollback",
                      "quota_limits"} => qheld[r] = {}
        /\ pc[r] \in {"quota_reserve", "quota_rollback"} => qtodo[r] \cap qheld[r] = {}
        /\ pc[r] = "quota_rollback" =>
              /\ qAvail[r]
              /\ \A q \in qtodo[r] : IsLeast(q, qtodo[r]) => QKind[q] \in ConcurrencyKinds
        /\ pc[r] = "finalize_quota" => \A q \in qtodo[r] : QKind[q] \in UsageKinds
        /\ pc[r] = "block" => outcome[r] = "blocked"
    /\ \A q \in rtodo : QKind[q] \in UsageKinds

RateInv ==
    \A q \in QuotaPolicies, s \in Times :
        QKind[q] = "request_rate" =>
            /\ Cardinality(RatePassed(q, s)) <= quotaCounter[q][s]
            /\ Cardinality(RatePassed(q, s)) <= QLimit[q]

LossHeldInv ==
    \A q \in QuotaPolicies, s \in Times :
        QKind[q] \in ConcurrencyKinds =>
            /\ Cardinality(LossHeld(q, s)) <= lossCounter[q][s]
            /\ Cardinality(LossHeld(q, s)) <= QBurst[q]

LossPassedInv ==
    \A q \in QuotaPolicies, s \in Times :
        NeedsHotState(q) =>
          /\ QLoss[q] = "fail_closed" => LossPassed(q, s) = {}
          /\ QLoss[q] = "fail_limited" /\ QKind[q] \notin ConcurrencyKinds =>
                /\ Cardinality(LossPassed(q, s)) <= lossCounter[q][s]
                /\ Cardinality(LossPassed(q, s)) <= QBurst[q]

QuotaCounting ==
    /\ ConcurrencyCounterExact /\ ConcurrencyWithinLimit
    /\ RateInv /\ LossHeldInv /\ LossPassedInv

QuotaInv == TypeOK /\ QuotaLocalInv /\ QuotaCounting

(***************************************************************************)
(* Cardinalities of sets of requests.                                      *)
(***************************************************************************)

\* A set of requests has no more members than one that includes it.
LEMMA CardMono ==
    ASSUME NEW T \in SUBSET Requests, NEW S \in SUBSET T
    PROVE  Cardinality(S) \in Nat /\ Cardinality(T) \in Nat
             /\ Cardinality(S) <= Cardinality(T)
<1>1. IsFiniteSet(T)
  BY RequestAssumption, FS_Subset
<1>2. IsFiniteSet(S)
  BY <1>1, FS_Subset
<1> QED
  BY <1>1, <1>2, FS_Subset, FS_CardinalityType

\* One more request makes a set larger by at most one.
LEMMA CardGrow ==
    ASSUME NEW S \in SUBSET Requests, NEW x \in Requests, NEW T \in SUBSET (S \cup {x})
    PROVE  Cardinality(T) \in Nat /\ Cardinality(S) \in Nat
             /\ Cardinality(T) <= Cardinality(S) + 1
<1>1. Cardinality(S) \in Nat /\ Cardinality(S \cup {x}) <= Cardinality(S) + 1
  <2>1. CASE x \in S
    <3>1. S \cup {x} = S
      BY <2>1
    <3>2. Cardinality(S \cup {x}) = Cardinality(S)
      BY <3>1, Zenon
    <3>3. Cardinality(S) \in Nat
      BY CardStep
    <3> QED
      BY <3>2, <3>3
  <2>2. CASE x \notin S
    BY <2>2, CardStep
  <2> QED
    BY <2>1, <2>2
<1>2. S \cup {x} \in SUBSET Requests
  OBVIOUS
<1>3. /\ Cardinality(T) \in Nat /\ Cardinality(S \cup {x}) \in Nat
      /\ Cardinality(T) <= Cardinality(S \cup {x})
  BY <1>2, CardMono
<1> QED
  BY <1>1, <1>3

(***************************************************************************)
(* What a step must leave alone for each part of the invariant to stay.    *)
(***************************************************************************)

\* No slot is taken or given back.
LEMMA SlotFrame ==
    ASSUME ConcurrencyCounterExact, ConcurrencyWithinLimit,
           \A q \in QuotaPolicies :
              QKind[q] \in ConcurrencyKinds => quotaCounter'[q] = quotaCounter[q],
           \A r \in Requests, q \in QuotaPolicies :
              /\ TakesSlot(r, q)' <=> TakesSlot(r, q)
              /\ q \in qheld'[r] <=> q \in qheld[r]
              /\ TakesSlot(r, q) => startedAt'[r] = startedAt[r]
              /\ q \in qheld[r] => qAvail'[r] = qAvail[r]
    PROVE  ConcurrencyCounterExact' /\ ConcurrencyWithinLimit'
<1>1. ASSUME NEW q \in QuotaPolicies, NEW s \in Times
      PROVE  SlotHolders(q, s)' = SlotHolders(q, s)
  BY DEF SlotHolders, TakesSlot
<1>2. ConcurrencyCounterExact'
  BY <1>1 DEF ConcurrencyCounterExact
<1>3. ASSUME NEW q \in QuotaPolicies, NEW s \in Times
      PROVE  {r \in Requests : q \in qheld'[r] /\ qAvail'[r] /\ QSlot[q][startedAt'[r]] = s}
               = {r \in Requests : q \in qheld[r] /\ qAvail[r] /\ QSlot[q][startedAt[r]] = s}
  BY DEF TakesSlot
<1>4. ConcurrencyWithinLimit'
  BY <1>3 DEF ConcurrencyWithinLimit
<1> QED
  BY <1>2, <1>4

\* No request passes a rate quota, whose counter does not fall.
LEMMA RateFrame ==
    ASSUME TypeOK, TypeOK', RateInv,
           \A q \in QuotaPolicies, s \in Times :
              QKind[q] = "request_rate" => quotaCounter'[q][s] >= quotaCounter[q][s],
           \A r \in Requests, q \in QuotaPolicies :
              QKind[q] = "request_rate" /\ Past(r, q)' /\ qAvail'[r] =>
                  Past(r, q) /\ qAvail[r] /\ startedAt'[r] = startedAt[r]
    PROVE  RateInv'
<1> SUFFICES ASSUME NEW q \in QuotaPolicies, NEW s \in Times, QKind[q] = "request_rate"
             PROVE  /\ Cardinality(RatePassed(q, s)') <= quotaCounter'[q][s]
                    /\ Cardinality(RatePassed(q, s)') <= QLimit[q]
  BY DEF RateInv
<1>1. RatePassed(q, s)' \in SUBSET RatePassed(q, s)
  BY DEF RatePassed
<1>2. RatePassed(q, s) \in SUBSET Requests
  BY DEF RatePassed
<1>3. /\ Cardinality(RatePassed(q, s)') \in Nat /\ Cardinality(RatePassed(q, s)) \in Nat
      /\ Cardinality(RatePassed(q, s)') <= Cardinality(RatePassed(q, s))
  BY <1>1, <1>2, CardMono
<1>4. QLimit[q] \in Nat /\ quotaCounter[q][s] \in Nat /\ quotaCounter'[q][s] \in Nat
  BY QuotaAssumption DEF TypeOK, StoreType
<1> QED
  BY <1>3, <1>4 DEF RateInv

\* No request is let through on a loss allowance of a concurrency quota.
LEMMA LossHeldFrame ==
    ASSUME TypeOK, TypeOK', LossHeldInv,
           \A q \in QuotaPolicies, s \in Times :
              QKind[q] \in ConcurrencyKinds => lossCounter'[q][s] >= lossCounter[q][s],
           \A r \in Requests, q \in QuotaPolicies :
              q \in qheld'[r] /\ ~qAvail'[r] =>
                  q \in qheld[r] /\ ~qAvail[r] /\ startedAt'[r] = startedAt[r]
    PROVE  LossHeldInv'
<1> SUFFICES ASSUME NEW q \in QuotaPolicies, NEW s \in Times, QKind[q] \in ConcurrencyKinds
             PROVE  /\ Cardinality(LossHeld(q, s)') <= lossCounter'[q][s]
                    /\ Cardinality(LossHeld(q, s)') <= QBurst[q]
  BY DEF LossHeldInv
<1>1. LossHeld(q, s)' \in SUBSET LossHeld(q, s)
  BY DEF LossHeld
<1>2. LossHeld(q, s) \in SUBSET Requests
  BY DEF LossHeld
<1>3. /\ Cardinality(LossHeld(q, s)') \in Nat /\ Cardinality(LossHeld(q, s)) \in Nat
      /\ Cardinality(LossHeld(q, s)') <= Cardinality(LossHeld(q, s))
  BY <1>1, <1>2, CardMono
<1>4. QBurst[q] \in Nat /\ lossCounter[q][s] \in Nat /\ lossCounter'[q][s] \in Nat
  BY QuotaAssumption DEF TypeOK, StoreType
<1> QED
  BY <1>3, <1>4 DEF LossHeldInv

\* No request passes another quota while its hot state is lost.
LEMMA LossPassedFrame ==
    ASSUME TypeOK, TypeOK', LossPassedInv,
           \A q \in QuotaPolicies, s \in Times :
              QKind[q] \notin ConcurrencyKinds => lossCounter'[q][s] >= lossCounter[q][s],
           \A r \in Requests, q \in QuotaPolicies :
              NeedsHotState(q) /\ Past(r, q)' /\ ~qAvail'[r] =>
                  Past(r, q) /\ ~qAvail[r] /\ startedAt'[r] = startedAt[r]
    PROVE  LossPassedInv'
<1> SUFFICES ASSUME NEW q \in QuotaPolicies, NEW s \in Times, NeedsHotState(q)
             PROVE  /\ QLoss[q] = "fail_closed" => LossPassed(q, s)' = {}
                    /\ QLoss[q] = "fail_limited" /\ QKind[q] \notin ConcurrencyKinds =>
                          /\ Cardinality(LossPassed(q, s)') <= lossCounter'[q][s]
                          /\ Cardinality(LossPassed(q, s)') <= QBurst[q]
  BY DEF LossPassedInv, NeedsHotState
<1>1. LossPassed(q, s)' \in SUBSET LossPassed(q, s)
  BY DEF LossPassed
<1>2. LossPassed(q, s) \in SUBSET Requests
  BY DEF LossPassed
<1>3. /\ Cardinality(LossPassed(q, s)') \in Nat /\ Cardinality(LossPassed(q, s)) \in Nat
      /\ Cardinality(LossPassed(q, s)') <= Cardinality(LossPassed(q, s))
  BY <1>1, <1>2, CardMono
<1>4. QBurst[q] \in Nat /\ lossCounter[q][s] \in Nat /\ lossCounter'[q][s] \in Nat
  BY QuotaAssumption DEF TypeOK, StoreType
<1>5. ASSUME QLoss[q] = "fail_closed" PROVE LossPassed(q, s)' = {}
  BY <1>1, <1>5 DEF LossPassedInv
<1>6. ASSUME QLoss[q] = "fail_limited", QKind[q] \notin ConcurrencyKinds
      PROVE  /\ Cardinality(LossPassed(q, s)') <= lossCounter'[q][s]
             /\ Cardinality(LossPassed(q, s)') <= QBurst[q]
  BY <1>3, <1>4, <1>6 DEF LossPassedInv
<1> QED
  BY <1>5, <1>6

(***************************************************************************)
(* A quiet step takes no slot, gives none back and lets nobody past a      *)
(* quota: it preserves the counting part whatever else it does.            *)
(***************************************************************************)
Quiet ==
    /\ UNCHANGED lossCounter
    /\ \A q \in QuotaPolicies :
        QKind[q] \notin UsageKinds => quotaCounter'[q] = quotaCounter[q]
    /\ \A r \in Requests, q \in QuotaPolicies :
        /\ TakesSlot(r, q)' <=> TakesSlot(r, q)
        /\ q \in qheld'[r] <=> q \in qheld[r]
        /\ Past(r, q)' /\ NeedsHotState(q) /\ (~qAvail'[r] \/ QKind[q] = "request_rate")
             => Past(r, q)
        /\ TakesSlot(r, q) \/ q \in qheld[r] \/ Past(r, q)
             => startedAt'[r] = startedAt[r] /\ qAvail'[r] = qAvail[r]

\* A quiet step preserves the counting part of the invariant.
LEMMA QuietPreserves ==
    ASSUME TypeOK, TypeOK', QuotaCounting, Quiet PROVE QuotaCounting'
<1>1. \A q \in QuotaPolicies : QKind[q] \in ConcurrencyKinds \cup {"request_rate"} =>
          QKind[q] \notin UsageKinds /\ NeedsHotState(q)
  BY DEF ConcurrencyKinds, UsageKinds, NeedsHotState
<1>2. \A q \in QuotaPolicies, s \in Times :
          /\ quotaCounter[q][s] \in Nat /\ lossCounter[q][s] \in Nat
          /\ lossCounter'[q][s] = lossCounter[q][s]
          /\ QKind[q] = "request_rate" => quotaCounter'[q][s] = quotaCounter[q][s]
  BY <1>1 DEF TypeOK, StoreType, Quiet
<1>3. ConcurrencyCounterExact' /\ ConcurrencyWithinLimit'
  BY <1>1, SlotFrame DEF Quiet, QuotaCounting
<1>4. RateInv'
  BY <1>1, <1>2, RateFrame DEF Quiet, QuotaCounting
<1>5. LossHeldInv'
  BY <1>2, LossHeldFrame DEF Quiet, QuotaCounting
<1>6. LossPassedInv'
  BY <1>2, LossPassedFrame DEF Quiet, QuotaCounting
<1> QED
  BY <1>3, <1>4, <1>5, <1>6 DEF QuotaCounting

\* Most actions are quiet.
LEMMA QuietSteps ==
    ASSUME TypeOK, QuotaLocalInv,
           \/ \E r \in Requests :
                \/ Arrive(r) \/ BudgetReject(r) \/ BudgetPass(r)
                \/ BudgetHotStateLoss(r) \/ ReserveBudget(r) \/ RollbackBudget(r)
                \/ RecordLease(r) \/ QuotaPreflight(r) \/ QuotaLimit(r)
                \/ QuotaReservePass(r) \/ Admit(r) \/ ProviderAnswers(r)
                \/ ProviderFails(r) \/ InsertFailedAttempt(r) \/ InsertAttempt(r)
                \/ RecordUsage(r) \/ InsertUsage(r) \/ FinalizeQuota(r)
                \/ FinalizeBudget(r) \/ ReleaseLease(r) \/ DecrementLease(r)
                \/ BudgetReleased(r) \/ QuotaReleased(r) \/ BlockDecision(r)
                \/ PersistFails(r) \/ Cancel(r)
           \/ ReconcilerStep \/ Tick \/ FlipHotState
           \/ \E p \in Forceable : ForceBudgetBlock(p)
           \/ UNCHANGED vars
    PROVE  Quiet /\ QuotaLocalInv'
<1> USE DEF TypeOK, StoreType, ControlType, BudgetLocalType, QuotaLocalType,
            ReconType, QuotaLocalInv, TakesSlot, Past, Admitted, envVars, storeVars,
            evidenceVars, budgetLocals, quotaLocals, controlVars, requestVars,
            reconVars
<1>1. ASSUME NEW r \in Requests, Arrive(r) PROVE Quiet /\ QuotaLocalInv'
  <2>1. Quiet
    BY <1>1 DEF Arrive, Quiet
  <2>2. QuotaLocalInv'
    BY <1>1 DEF Arrive
  <2> QED
    BY <2>1, <2>2
<1>2. ASSUME NEW r \in Requests, BudgetReject(r) PROVE Quiet /\ QuotaLocalInv'
  <2>1. Quiet
    BY <1>2 DEF BudgetReject, Quiet
  <2>2. QuotaLocalInv'
    BY <1>2 DEF BudgetReject
  <2> QED
    BY <2>1, <2>2
<1>3. ASSUME NEW r \in Requests, BudgetPass(r) PROVE Quiet /\ QuotaLocalInv'
  <2>1. Quiet
    BY <1>3 DEF BudgetPass, Quiet
  <2>2. QuotaLocalInv'
    BY <1>3 DEF BudgetPass
  <2> QED
    BY <2>1, <2>2
<1>4. ASSUME NEW r \in Requests, BudgetHotStateLoss(r) PROVE Quiet /\ QuotaLocalInv'
  <2>1. Quiet
    BY <1>4 DEF BudgetHotStateLoss, Quiet
  <2>2. QuotaLocalInv'
    BY <1>4 DEF BudgetHotStateLoss
  <2> QED
    BY <2>1, <2>2
<1>5. ASSUME NEW r \in Requests, ReserveBudget(r) PROVE Quiet /\ QuotaLocalInv'
  <2>1. Quiet
    BY <1>5 DEF ReserveBudget, Quiet
  <2>2. /\ pc[r] = "budget" /\ pc'[r] \in {"budget_rollback", "lease_record"}
        /\ \A x \in Requests : x # r => pc'[x] = pc[x]
        /\ UNCHANGED <<outcome, qAvail, qtodo, qheld, rtodo>>
    BY <1>5 DEF ReserveBudget
  <2>3. QuotaLocalInv'
    BY <2>2
  <2> QED
    BY <2>1, <2>3
<1>6. ASSUME NEW r \in Requests, RollbackBudget(r) PROVE Quiet /\ QuotaLocalInv'
  <2>1. Quiet
    BY <1>6 DEF RollbackBudget, Quiet
  <2>2. QuotaLocalInv'
    BY <1>6 DEF RollbackBudget
  <2> QED
    BY <2>1, <2>2
<1>7. ASSUME NEW r \in Requests, RecordLease(r) PROVE Quiet /\ QuotaLocalInv'
  <2>1. Quiet
    BY <1>7 DEF RecordLease, Quiet
  <2>2. QuotaLocalInv'
    BY <1>7 DEF RecordLease
  <2> QED
    BY <2>1, <2>2
<1>8. ASSUME NEW r \in Requests, QuotaPreflight(r) PROVE Quiet /\ QuotaLocalInv'
  <2>1. Quiet
    BY <1>8 DEF QuotaPreflight, Quiet
  <2>2. QuotaLocalInv'
    BY <1>8 DEF QuotaPreflight
  <2> QED
    BY <2>1, <2>2
<1>9. ASSUME NEW r \in Requests, QuotaLimit(r) PROVE Quiet /\ QuotaLocalInv'
  <2>1. /\ pc[r] = "quota_limits"
        /\ \/ pc'[r] = "release_budget" /\ outcome'[r] = "blocked"
           \/ pc'[r] = "quota_limits"
        /\ \A x \in Requests : x # r =>
              pc'[x] = pc[x] /\ outcome'[x] = outcome[x] /\ qtodo'[x] = qtodo[x]
        /\ UNCHANGED <<storeVars, startedAt, qAvail, qheld, rtodo>>
    BY <1>9 DEF QuotaLimit
  <2>2. Quiet
    BY <2>1 DEF Quiet
  <2>3. QuotaLocalInv'
    BY <2>1
  <2> QED
    BY <2>2, <2>3
<1>10. ASSUME NEW r \in Requests, QuotaReservePass(r) PROVE Quiet /\ QuotaLocalInv'
  <2>1. \A q \in QuotaPoliciesFor(r) :
            NeedsHotState(q) /\ (~qAvail[r] \/ QKind[q] = "request_rate") => q \in qtodo'[r]
    BY <1>10 DEF QuotaReservePass, ReserveChecked, UsageKinds
  <2>2. Quiet
    BY <1>10, <2>1 DEF QuotaReservePass, Quiet, QuotaPoliciesFor, SkipsRequest
  <2>3. QuotaLocalInv'
    BY <1>10 DEF QuotaReservePass
  <2> QED
    BY <2>2, <2>3
<1>11. ASSUME NEW r \in Requests, Admit(r) PROVE Quiet /\ QuotaLocalInv'
  <2>1. Quiet
    BY <1>11 DEF Admit, Quiet
  <2>2. QuotaLocalInv'
    BY <1>11 DEF Admit
  <2> QED
    BY <2>1, <2>2
<1>12. ASSUME NEW r \in Requests, ProviderAnswers(r) PROVE Quiet /\ QuotaLocalInv'
  <2>1. Quiet
    BY <1>12 DEF ProviderAnswers, Quiet
  <2>2. QuotaLocalInv'
    BY <1>12 DEF ProviderAnswers
  <2> QED
    BY <2>1, <2>2
<1>13. ASSUME NEW r \in Requests, ProviderFails(r) PROVE Quiet /\ QuotaLocalInv'
  <2>1. Quiet
    BY <1>13 DEF ProviderFails, Quiet
  <2>2. QuotaLocalInv'
    BY <1>13 DEF ProviderFails
  <2> QED
    BY <2>1, <2>2
<1>14. ASSUME NEW r \in Requests, InsertFailedAttempt(r) PROVE Quiet /\ QuotaLocalInv'
  <2>1. Quiet
    BY <1>14 DEF InsertFailedAttempt, Quiet
  <2>2. QuotaLocalInv'
    BY <1>14 DEF InsertFailedAttempt
  <2> QED
    BY <2>1, <2>2
<1>15. ASSUME NEW r \in Requests, InsertAttempt(r) PROVE Quiet /\ QuotaLocalInv'
  <2>1. Quiet
    BY <1>15 DEF InsertAttempt, Quiet
  <2>2. QuotaLocalInv'
    BY <1>15 DEF InsertAttempt
  <2> QED
    BY <2>1, <2>2
<1>16. ASSUME NEW r \in Requests, RecordUsage(r) PROVE Quiet /\ QuotaLocalInv'
  <2>1. Quiet
    BY <1>16 DEF RecordUsage, Quiet
  <2>2. QuotaLocalInv'
    BY <1>16 DEF RecordUsage
  <2> QED
    BY <2>1, <2>2
<1>17. ASSUME NEW r \in Requests, InsertUsage(r) PROVE Quiet /\ QuotaLocalInv'
  <2>1. Quiet
    BY <1>17 DEF InsertUsage, Quiet
  <2>2. QuotaLocalInv'
    BY <1>17 DEF InsertUsage, FinalizedQuotas
  <2> QED
    BY <2>1, <2>2
<1>18. ASSUME NEW r \in Requests, FinalizeQuota(r) PROVE Quiet /\ QuotaLocalInv'
  <2>1. \A q \in QuotaPolicies :
            QKind[q] \notin UsageKinds => quotaCounter'[q] = quotaCounter[q]
    BY <1>18 DEF FinalizeQuota, AdjustQuota
  <2>2. /\ pc[r] = "finalize_quota" /\ pc'[r] \in {"finalize_quota", "finalize_budget"}
        /\ \A x \in Requests : x # r => pc'[x] = pc[x] /\ qtodo'[x] = qtodo[x]
        /\ UNCHANGED <<lossCounter, outcome, startedAt, qAvail, qheld>>
    BY <1>18 DEF FinalizeQuota
  <2>3. Quiet
    BY <2>1, <2>2 DEF Quiet
  <2>4. QuotaLocalInv'
    BY <1>18 DEF FinalizeQuota
  <2> QED
    BY <2>3, <2>4
<1>19. ASSUME NEW r \in Requests, FinalizeBudget(r) PROVE Quiet /\ QuotaLocalInv'
  <2>1. Quiet
    BY <1>19 DEF FinalizeBudget, Quiet
  <2>2. QuotaLocalInv'
    BY <1>19 DEF FinalizeBudget
  <2> QED
    BY <2>1, <2>2
<1>20. ASSUME NEW r \in Requests, ReleaseLease(r) PROVE Quiet /\ QuotaLocalInv'
  <2>1. Quiet
    BY <1>20 DEF ReleaseLease, Quiet
  <2>2. QuotaLocalInv'
    BY <1>20 DEF ReleaseLease
  <2> QED
    BY <2>1, <2>2
<1>21. ASSUME NEW r \in Requests, DecrementLease(r) PROVE Quiet /\ QuotaLocalInv'
  <2>1. Quiet
    BY <1>21 DEF DecrementLease, Quiet
  <2>2. QuotaLocalInv'
    BY <1>21 DEF DecrementLease
  <2> QED
    BY <2>1, <2>2
<1>22. ASSUME NEW r \in Requests, BudgetReleased(r) PROVE Quiet /\ QuotaLocalInv'
  <2>1. Quiet
    BY <1>22 DEF BudgetReleased, Quiet
  <2>2. QuotaLocalInv'
    BY <1>22 DEF BudgetReleased
  <2> QED
    BY <2>1, <2>2
<1>23. ASSUME NEW r \in Requests, QuotaReleased(r) PROVE Quiet /\ QuotaLocalInv'
  <2>1. Quiet
    BY <1>23 DEF QuotaReleased, Quiet
  <2>2. QuotaLocalInv'
    BY <1>23 DEF QuotaReleased
  <2> QED
    BY <2>1, <2>2
<1>24. ASSUME NEW r \in Requests, BlockDecision(r) PROVE Quiet /\ QuotaLocalInv'
  <2>1. Quiet
    BY <1>24 DEF BlockDecision, Quiet
  <2>2. QuotaLocalInv'
    BY <1>24 DEF BlockDecision
  <2> QED
    BY <2>1, <2>2
<1>25. ASSUME NEW r \in Requests, PersistFails(r) PROVE Quiet /\ QuotaLocalInv'
  <2>1. Quiet
    BY <1>25 DEF PersistFails, Quiet
  <2>2. QuotaLocalInv'
    BY <1>25 DEF PersistFails
  <2> QED
    BY <2>1, <2>2
<1>26. ASSUME NEW r \in Requests, Cancel(r) PROVE Quiet /\ QuotaLocalInv'
  <2>1. Quiet
    BY <1>26 DEF Cancel, Quiet
  <2>2. QuotaLocalInv'
    BY <1>26 DEF Cancel
  <2> QED
    BY <2>1, <2>2
<1>27. ASSUME ExpireLeases PROVE Quiet /\ QuotaLocalInv'
  <2>1. Quiet
    BY <1>27 DEF ExpireLeases, Quiet
  <2>2. QuotaLocalInv'
    BY <1>27 DEF ExpireLeases
  <2> QED
    BY <2>1, <2>2
<1>28. ASSUME NEW r \in Requests, NEW p \in BudgetPolicies, ReclaimLease(r, p)
       PROVE  Quiet /\ QuotaLocalInv'
  <2>1. Quiet
    BY <1>28 DEF ReclaimLease, Quiet
  <2>2. QuotaLocalInv'
    BY <1>28 DEF ReclaimLease
  <2> QED
    BY <2>1, <2>2
<1>29. ASSUME ReadUsageEvents PROVE Quiet /\ QuotaLocalInv'
  <2>1. Quiet
    BY <1>29 DEF ReadUsageEvents, Quiet
  <2>2. QuotaLocalInv'
    BY <1>29 DEF ReadUsageEvents
  <2> QED
    BY <2>1, <2>2
<1>30. ASSUME CompareCounter PROVE Quiet /\ QuotaLocalInv'
  <2>1. Quiet
    BY <1>30 DEF CompareCounter, Quiet
  <2>2. QuotaLocalInv'
    BY <1>30 DEF CompareCounter
  <2> QED
    BY <2>1, <2>2
<1>31. ASSUME RepairCounter PROVE Quiet /\ QuotaLocalInv'
  <2>1. \A q \in QuotaPolicies :
            QKind[q] \notin UsageKinds => quotaCounter'[q] = quotaCounter[q]
    BY <1>31 DEF RepairCounter, AdjustQuota
  <2>2. UNCHANGED <<lossCounter, requestVars>>
    BY <1>31 DEF RepairCounter
  <2>3. Quiet
    BY <2>1, <2>2 DEF Quiet
  <2>4. QuotaLocalInv'
    BY <1>31 DEF RepairCounter
  <2> QED
    BY <2>3, <2>4
<1>32. ASSUME TickDone PROVE Quiet /\ QuotaLocalInv'
  <2>1. Quiet
    BY <1>32 DEF TickDone, Quiet
  <2>2. QuotaLocalInv'
    BY <1>32 DEF TickDone
  <2> QED
    BY <2>1, <2>2
<1>33. ASSUME Tick PROVE Quiet /\ QuotaLocalInv'
  <2>1. Quiet
    BY <1>33 DEF Tick, Quiet
  <2>2. QuotaLocalInv'
    BY <1>33 DEF Tick
  <2> QED
    BY <2>1, <2>2
<1>34. ASSUME FlipHotState PROVE Quiet /\ QuotaLocalInv'
  <2>1. Quiet
    BY <1>34 DEF FlipHotState, Quiet
  <2>2. QuotaLocalInv'
    BY <1>34 DEF FlipHotState
  <2> QED
    BY <2>1, <2>2
<1>35. ASSUME NEW p \in Forceable, ForceBudgetBlock(p) PROVE Quiet /\ QuotaLocalInv'
  <2>1. Quiet
    BY <1>35 DEF ForceBudgetBlock, Quiet
  <2>2. QuotaLocalInv'
    BY <1>35 DEF ForceBudgetBlock
  <2> QED
    BY <2>1, <2>2
<1>36. ASSUME UNCHANGED vars PROVE Quiet /\ QuotaLocalInv'
  <2>1. Quiet
    BY <1>36 DEF vars, Quiet
  <2>2. QuotaLocalInv'
    BY <1>36 DEF vars
  <2> QED
    BY <2>1, <2>2
<1> QED
  BY <1>1, <1>2, <1>3, <1>4, <1>5, <1>6, <1>7, <1>8, <1>9, <1>10, <1>11,
     <1>12, <1>13, <1>14, <1>15, <1>16, <1>17, <1>18, <1>19, <1>20, <1>21,
     <1>22, <1>23, <1>24, <1>25, <1>26, <1>27, <1>28, <1>29, <1>30, <1>31,
     <1>32, <1>33, <1>34, <1>35, <1>36
     DEF ReconcilerStep

(***************************************************************************)
(* The steps that are not quiet, for the counters they move.               *)
(***************************************************************************)

\* Where the start of a request falls in a policy's windows.
LEMMA QuotaKeyType ==
    ASSUME TypeOK, NEW r \in Requests, NEW q \in QuotaPolicies
    PROVE  QuotaKey(r, q) \in Times
  BY QuotaAssumption DEF TypeOK, BudgetLocalType

\* Adjusting a counter table by d moves one entry.
LEMMA AdjustEntry ==
    ASSUME NEW f \in [QuotaPolicies -> [Times -> Nat]], NEW q \in QuotaPolicies,
           NEW s \in Times, NEW d \in Int
    PROVE  LET g == [f EXCEPT ![q][s] = Adjust(@, d)] IN
           /\ g[q][s] = Adjust(f[q][s], d)
           /\ \A b \in QuotaPolicies : b # q => g[b] = f[b]
           /\ \A b \in QuotaPolicies, t \in Times :
                b # q \/ t # s => g[b][t] = f[b][t]
  OBVIOUS

\* One request takes or gives back one unit of a concurrency counter.
LEMMA SlotStep ==
    ASSUME TypeOK, ConcurrencyCounterExact,
           NEW x \in Requests, NEW q \in QuotaPolicies, NEW d \in {1, -1},
           UNCHANGED startedAt,
           quotaCounter' = AdjustQuota(q, QuotaKey(x, q), d),
           \A r \in Requests, b \in QuotaPolicies :
              r # x \/ b # q => (TakesSlot(r, b)' <=> TakesSlot(r, b)),
           d = 1 => ~TakesSlot(x, q) /\ TakesSlot(x, q)',
           d = -1 => TakesSlot(x, q) /\ ~TakesSlot(x, q)'
    PROVE  ConcurrencyCounterExact'
<1> DEFINE key == QuotaKey(x, q)
<1>1. key \in Times
  BY QuotaKeyType
<1>2. \A b \in QuotaPolicies, s \in Times :
          /\ SlotHolders(b, s) = {r \in Requests : QuotaKey(r, b) = s /\ TakesSlot(r, b)}
          /\ SlotHolders(b, s)' = {r \in Requests : QuotaKey(r, b) = s /\ TakesSlot(r, b)'}
  BY DEF SlotHolders, TakesSlot
<1> SUFFICES ASSUME NEW b \in QuotaPolicies, NEW s \in Times,
                    QKind[b] \in ConcurrencyKinds
             PROVE  quotaCounter'[b][s] = Cardinality(SlotHolders(b, s)')
  BY DEF ConcurrencyCounterExact
<1>3. quotaCounter[b][s] = Cardinality(SlotHolders(b, s)) /\ quotaCounter[b][s] \in Nat
  BY DEF ConcurrencyCounterExact, TypeOK, StoreType
<1>4. d \in Int /\ quotaCounter \in [QuotaPolicies -> [Times -> Nat]]
  BY DEF TypeOK, StoreType
<1>5. CASE b # q \/ s # key
  <2>1. SlotHolders(b, s)' = SlotHolders(b, s)
    <3>1. \A r \in Requests :
              QuotaKey(r, b) = s => (TakesSlot(r, b)' <=> TakesSlot(r, b))
      BY <1>5
    <3>2. {r \in Requests : QuotaKey(r, b) = s /\ TakesSlot(r, b)'}
            = {r \in Requests : QuotaKey(r, b) = s /\ TakesSlot(r, b)}
      BY <3>1
    <3> QED
      BY <1>2, <3>2, Zenon
  <2>2. quotaCounter'[b][s] = quotaCounter[b][s]
    BY <1>1, <1>4, <1>5, AdjustEntry DEF AdjustQuota
  <2> QED
    BY <1>3, <2>1, <2>2
<1>6. CASE b = q /\ s = key
  <2>1. quotaCounter'[b][s] = Adjust(quotaCounter[b][s], d)
    BY <1>1, <1>4, <1>6, AdjustEntry DEF AdjustQuota
  <2>2. SlotHolders(b, s) \in SUBSET Requests
    BY <1>2
  <2>3. CASE d = 1
    <3>1. ~TakesSlot(x, q) /\ TakesSlot(x, q)'
      BY <2>3
    <3>2. x \notin SlotHolders(b, s)
      BY <1>2, <1>6, <3>1
    <3>3. SlotHolders(b, s)' = SlotHolders(b, s) \cup {x}
      BY <1>2, <1>6, <3>1
    <3> QED
      BY <1>3, <2>1, <2>2, <2>3, <3>2, <3>3, CardStep DEF Adjust
  <2>4. CASE d = -1
    <3>1. TakesSlot(x, q) /\ ~TakesSlot(x, q)'
      BY <2>4
    <3>2. x \in SlotHolders(b, s)
      BY <1>2, <1>6, <3>1
    <3>3. SlotHolders(b, s)' = SlotHolders(b, s) \ {x}
      BY <1>2, <1>6, <3>1
    <3> QED
      BY <1>3, <2>1, <2>2, <2>4, <3>2, <3>3, CardStep DEF Adjust
  <2> QED
    BY <2>3, <2>4
<1> QED
  BY <1>5, <1>6

\* Request x takes a slot of quota q, kept or about to be given back.
LEMMA SlotUp ==
    ASSUME TypeOK, ConcurrencyCounterExact,
           NEW x \in Requests, NEW q \in QuotaPolicies, UNCHANGED startedAt,
           quotaCounter' = AdjustQuota(q, QuotaKey(x, q), 1),
           \A r \in Requests, b \in QuotaPolicies :
              r # x \/ b # q => (TakesSlot(r, b)' <=> TakesSlot(r, b)),
           ~TakesSlot(x, q), TakesSlot(x, q)'
    PROVE  ConcurrencyCounterExact'
  BY SlotStep, 1 \in {1, -1}, 1 # -1

\* Request x gives its slot of quota q back.
LEMMA SlotDown ==
    ASSUME TypeOK, ConcurrencyCounterExact,
           NEW x \in Requests, NEW q \in QuotaPolicies, UNCHANGED startedAt,
           quotaCounter' = AdjustQuota(q, QuotaKey(x, q), -1),
           \A r \in Requests, b \in QuotaPolicies :
              r # x \/ b # q => (TakesSlot(r, b)' <=> TakesSlot(r, b)),
           TakesSlot(x, q), ~TakesSlot(x, q)'
    PROVE  ConcurrencyCounterExact'
  BY SlotStep, -1 \in {1, -1}, 1 # -1

\* The limit of a concurrency quota holds of the slots kept after a step if
\* every one of them was kept before, or if the counter is within the limit.
LEMMA SlotLimit ==
    ASSUME TypeOK, TypeOK', ConcurrencyWithinLimit, ConcurrencyCounterExact',
           UNCHANGED <<startedAt, qAvail>>, NEW x \in Requests, NEW q \in QuotaPolicies,
           \A r \in Requests, b \in QuotaPolicies :
              r # x \/ b # q => (b \in qheld'[r] => b \in qheld[r]),
           \/ q \in qheld'[x] => q \in qheld[x]
           \/ quotaCounter'[q][QuotaKey(x, q)] <= QLimit[q]
    PROVE  ConcurrencyWithinLimit'
<1> DEFINE Kept(b, s) == {r \in Requests : b \in qheld[r] /\ qAvail[r] /\ QuotaKey(r, b) = s}
           Keeps(b, s) == {r \in Requests : b \in qheld'[r] /\ qAvail[r] /\ QuotaKey(r, b) = s}
<1> SUFFICES ASSUME NEW b \in QuotaPolicies, NEW s \in Times,
                    QKind[b] \in ConcurrencyKinds
             PROVE  Cardinality(Keeps(b, s)) <= QLimit[b]
  BY DEF ConcurrencyWithinLimit
<1>1. /\ Cardinality(Kept(b, s)) <= QLimit[b] /\ QLimit[b] \in Nat
      /\ quotaCounter'[b][s] = Cardinality(SlotHolders(b, s)')
  BY QuotaAssumption DEF ConcurrencyWithinLimit, ConcurrencyCounterExact
<1>2. /\ Kept(b, s) \in SUBSET Requests /\ SlotHolders(b, s)' \in SUBSET Requests
      /\ Keeps(b, s) \in SUBSET SlotHolders(b, s)'
  BY DEF SlotHolders
<1>3. CASE Keeps(b, s) \in SUBSET Kept(b, s)
  <2>1. /\ Cardinality(Keeps(b, s)) \in Nat /\ Cardinality(Kept(b, s)) \in Nat
        /\ Cardinality(Keeps(b, s)) <= Cardinality(Kept(b, s))
    BY <1>2, <1>3, CardMono
  <2> HIDE DEF Kept, Keeps
  <2> QED
    BY <1>1, <2>1
<1>4. CASE ~(Keeps(b, s) \in SUBSET Kept(b, s))
  <2>1. PICK r \in Requests : r \in Keeps(b, s) /\ r \notin Kept(b, s)
    BY <1>4
  <2>2. r = x /\ b = q /\ s = QuotaKey(x, q) /\ ~(q \in qheld'[x] => q \in qheld[x])
    BY <2>1
  <2>3. Cardinality(SlotHolders(b, s)') <= QLimit[b]
    BY <1>1, <2>2
  <2>4. /\ Cardinality(Keeps(b, s)) \in Nat /\ Cardinality(SlotHolders(b, s)') \in Nat
        /\ Cardinality(Keeps(b, s)) <= Cardinality(SlotHolders(b, s)')
    BY <1>2, CardMono
  <2> HIDE DEF Kept, Keeps
  <2> QED
    BY <1>1, <2>3, <2>4
<1> QED
  BY <1>3, <1>4

\* A request passes a rate quota: its increment returned at most the limit.
LEMMA RateStep ==
    ASSUME TypeOK, TypeOK', RateInv, NEW x \in Requests, NEW q \in QuotaPolicies,
           UNCHANGED <<startedAt, qAvail>>,
           quotaCounter' = AdjustQuota(q, QuotaKey(x, q), 1),
           quotaCounter'[q][QuotaKey(x, q)] <= QLimit[q],
           \A r \in Requests, b \in QuotaPolicies :
              r # x \/ b # q => (Past(r, b)' => Past(r, b))
    PROVE  RateInv'
<1> DEFINE key == QuotaKey(x, q)
<1>1. key \in Times /\ quotaCounter \in [QuotaPolicies -> [Times -> Nat]]
  BY QuotaKeyType DEF TypeOK, StoreType
<1> SUFFICES ASSUME NEW b \in QuotaPolicies, NEW s \in Times, QKind[b] = "request_rate"
             PROVE  /\ Cardinality(RatePassed(b, s)') <= quotaCounter'[b][s]
                    /\ Cardinality(RatePassed(b, s)') <= QLimit[b]
  BY DEF RateInv
<1>2. /\ Cardinality(RatePassed(b, s)) <= quotaCounter[b][s]
      /\ Cardinality(RatePassed(b, s)) <= QLimit[b]
      /\ quotaCounter[b][s] \in Nat /\ QLimit[b] \in Nat
  BY QuotaAssumption DEF RateInv, TypeOK, StoreType
<1>3. RatePassed(b, s) \in SUBSET Requests
  BY DEF RatePassed
<1>4. CASE b # q \/ s # key
  <2>1. RatePassed(b, s)' \in SUBSET RatePassed(b, s)
    BY <1>4 DEF RatePassed
  <2>2. quotaCounter'[b][s] = quotaCounter[b][s]
    BY <1>1, <1>4, AdjustEntry DEF AdjustQuota
  <2>3. /\ Cardinality(RatePassed(b, s)') \in Nat /\ Cardinality(RatePassed(b, s)) \in Nat
        /\ Cardinality(RatePassed(b, s)') <= Cardinality(RatePassed(b, s))
    BY <1>3, <2>1, CardMono
  <2> QED
    BY <1>2, <2>2, <2>3
<1>5. CASE b = q /\ s = key
  <2>1. RatePassed(b, s)' \in SUBSET (RatePassed(b, s) \cup {x})
    BY DEF RatePassed
  <2>2. /\ quotaCounter'[b][s] = Adjust(quotaCounter[b][s], 1)
        /\ quotaCounter'[b][s] <= QLimit[b]
    BY <1>1, <1>5, AdjustEntry DEF AdjustQuota
  <2>3. quotaCounter'[b][s] = quotaCounter[b][s] + 1
    BY <1>2, <2>2 DEF Adjust
  <2>4. /\ Cardinality(RatePassed(b, s)') \in Nat /\ Cardinality(RatePassed(b, s)) \in Nat
        /\ Cardinality(RatePassed(b, s)') <= Cardinality(RatePassed(b, s)) + 1
    BY <1>3, <2>1, CardGrow
  <2> QED
    BY <1>2, <2>2, <2>3, <2>4
<1> QED
  BY <1>4, <1>5

\* A request is let through a concurrency quota on its loss allowance.
LEMMA LossHeldStep ==
    ASSUME TypeOK, TypeOK', LossHeldInv, NEW x \in Requests, NEW q \in QuotaPolicies,
           UNCHANGED <<startedAt, qAvail>>,
           lossCounter' = AdjustLoss(q, QuotaKey(x, q), 1),
           lossCounter'[q][QuotaKey(x, q)] <= QBurst[q],
           \A r \in Requests, b \in QuotaPolicies :
              r # x \/ b # q => (b \in qheld'[r] => b \in qheld[r])
    PROVE  LossHeldInv'
<1> DEFINE key == QuotaKey(x, q)
<1>1. key \in Times /\ lossCounter \in [QuotaPolicies -> [Times -> Nat]]
  BY QuotaKeyType DEF TypeOK, StoreType
<1> SUFFICES ASSUME NEW b \in QuotaPolicies, NEW s \in Times,
                    QKind[b] \in ConcurrencyKinds
             PROVE  /\ Cardinality(LossHeld(b, s)') <= lossCounter'[b][s]
                    /\ Cardinality(LossHeld(b, s)') <= QBurst[b]
  BY DEF LossHeldInv
<1>2. /\ Cardinality(LossHeld(b, s)) <= lossCounter[b][s]
      /\ Cardinality(LossHeld(b, s)) <= QBurst[b]
      /\ lossCounter[b][s] \in Nat /\ QBurst[b] \in Nat
  BY QuotaAssumption DEF LossHeldInv, TypeOK, StoreType
<1>3. LossHeld(b, s) \in SUBSET Requests
  BY DEF LossHeld
<1>4. CASE b # q \/ s # key
  <2>1. LossHeld(b, s)' \in SUBSET LossHeld(b, s)
    BY <1>4 DEF LossHeld
  <2>2. lossCounter'[b][s] = lossCounter[b][s]
    BY <1>1, <1>4, AdjustEntry DEF AdjustLoss
  <2>3. /\ Cardinality(LossHeld(b, s)') \in Nat /\ Cardinality(LossHeld(b, s)) \in Nat
        /\ Cardinality(LossHeld(b, s)') <= Cardinality(LossHeld(b, s))
    BY <1>3, <2>1, CardMono
  <2> QED
    BY <1>2, <2>2, <2>3
<1>5. CASE b = q /\ s = key
  <2>1. LossHeld(b, s)' \in SUBSET (LossHeld(b, s) \cup {x})
    BY DEF LossHeld
  <2>2. /\ lossCounter'[b][s] = Adjust(lossCounter[b][s], 1)
        /\ lossCounter'[b][s] <= QBurst[b]
    BY <1>1, <1>5, AdjustEntry DEF AdjustLoss
  <2>3. lossCounter'[b][s] = lossCounter[b][s] + 1
    BY <1>2, <2>2 DEF Adjust
  <2>4. /\ Cardinality(LossHeld(b, s)') \in Nat /\ Cardinality(LossHeld(b, s)) \in Nat
        /\ Cardinality(LossHeld(b, s)') <= Cardinality(LossHeld(b, s)) + 1
    BY <1>3, <2>1, CardGrow
  <2> QED
    BY <1>2, <2>2, <2>3, <2>4
<1> QED
  BY <1>4, <1>5

\* A request gives back what it took of a loss allowance.
LEMMA LossReleaseStep ==
    ASSUME TypeOK, TypeOK', LossHeldInv, NEW x \in Requests, NEW q \in QuotaPolicies,
           UNCHANGED <<startedAt, qAvail>>,
           lossCounter' = AdjustLoss(q, QuotaKey(x, q), -1),
           q \in qheld[x], ~qAvail[x], q \notin qheld'[x],
           \A r \in Requests, b \in QuotaPolicies : b \in qheld'[r] => b \in qheld[r]
    PROVE  LossHeldInv'
<1> DEFINE key == QuotaKey(x, q)
<1>1. key \in Times /\ lossCounter \in [QuotaPolicies -> [Times -> Nat]] /\ -1 \in Int
  BY QuotaKeyType DEF TypeOK, StoreType
<1> SUFFICES ASSUME NEW b \in QuotaPolicies, NEW s \in Times,
                    QKind[b] \in ConcurrencyKinds
             PROVE  /\ Cardinality(LossHeld(b, s)') <= lossCounter'[b][s]
                    /\ Cardinality(LossHeld(b, s)') <= QBurst[b]
  BY DEF LossHeldInv
<1>2. /\ Cardinality(LossHeld(b, s)) <= lossCounter[b][s]
      /\ Cardinality(LossHeld(b, s)) <= QBurst[b]
      /\ lossCounter[b][s] \in Nat /\ QBurst[b] \in Nat
  BY QuotaAssumption DEF LossHeldInv, TypeOK, StoreType
<1>3. LossHeld(b, s) \in SUBSET Requests
  BY DEF LossHeld
<1>4. CASE b # q \/ s # key
  <2>1. LossHeld(b, s)' \in SUBSET LossHeld(b, s)
    BY DEF LossHeld
  <2>2. lossCounter'[b][s] = lossCounter[b][s]
    BY <1>1, <1>4, AdjustEntry DEF AdjustLoss
  <2>3. /\ Cardinality(LossHeld(b, s)') \in Nat /\ Cardinality(LossHeld(b, s)) \in Nat
        /\ Cardinality(LossHeld(b, s)') <= Cardinality(LossHeld(b, s))
    BY <1>3, <2>1, CardMono
  <2> QED
    BY <1>2, <2>2, <2>3
<1>5. CASE b = q /\ s = key
  <2>1. x \in LossHeld(b, s) /\ LossHeld(b, s)' \in SUBSET (LossHeld(b, s) \ {x})
    BY <1>5 DEF LossHeld
  <2>2. lossCounter'[b][s] = Adjust(lossCounter[b][s], -1)
    BY <1>1, <1>5, AdjustEntry DEF AdjustLoss
  <2>3. /\ Cardinality(LossHeld(b, s) \ {x}) = Cardinality(LossHeld(b, s)) - 1
        /\ Cardinality(LossHeld(b, s)) >= 1 /\ Cardinality(LossHeld(b, s)) \in Nat
    BY <1>3, <2>1, CardStep
  <2>4. LossHeld(b, s) \ {x} \in SUBSET Requests
    BY <1>3
  <2>5. /\ Cardinality(LossHeld(b, s)') \in Nat
        /\ Cardinality(LossHeld(b, s)') <= Cardinality(LossHeld(b, s) \ {x})
    BY <2>1, <2>4, CardMono
  <2> QED
    BY <1>2, <2>2, <2>3, <2>5 DEF Adjust
<1> QED
  BY <1>4, <1>5

\* A request passes a quota whose hot state was lost: on its loss allowance, or
\* because the quota fails open.
LEMMA LossPassedStep ==
    ASSUME TypeOK, TypeOK', LossPassedInv, NEW x \in Requests, NEW q \in QuotaPolicies,
           UNCHANGED <<startedAt, qAvail>>, QLoss[q] # "fail_closed",
           \/ QLoss[q] = "fail_open" /\ UNCHANGED lossCounter
           \/ /\ lossCounter' = AdjustLoss(q, QuotaKey(x, q), 1)
              /\ lossCounter'[q][QuotaKey(x, q)] <= QBurst[q],
           \A r \in Requests, b \in QuotaPolicies :
              r # x \/ b # q => (Past(r, b)' => Past(r, b))
    PROVE  LossPassedInv'
<1> DEFINE key == QuotaKey(x, q)
<1>1. key \in Times /\ lossCounter \in [QuotaPolicies -> [Times -> Nat]]
  BY QuotaKeyType DEF TypeOK, StoreType
<1> SUFFICES ASSUME NEW b \in QuotaPolicies, NEW s \in Times, NeedsHotState(b)
             PROVE  /\ QLoss[b] = "fail_closed" => LossPassed(b, s)' = {}
                    /\ QLoss[b] = "fail_limited" /\ QKind[b] \notin ConcurrencyKinds =>
                          /\ Cardinality(LossPassed(b, s)') <= lossCounter'[b][s]
                          /\ Cardinality(LossPassed(b, s)') <= QBurst[b]
  BY DEF LossPassedInv, NeedsHotState
<1>2. /\ QLoss[b] = "fail_closed" => LossPassed(b, s) = {}
      /\ QLoss[b] = "fail_limited" /\ QKind[b] \notin ConcurrencyKinds =>
            /\ Cardinality(LossPassed(b, s)) <= lossCounter[b][s]
            /\ Cardinality(LossPassed(b, s)) <= QBurst[b]
      /\ lossCounter[b][s] \in Nat /\ QBurst[b] \in Nat
  BY QuotaAssumption DEF LossPassedInv, TypeOK, StoreType
<1>3. LossPassed(b, s) \in SUBSET Requests
  BY DEF LossPassed
<1>4. CASE b # q \/ s # key
  <2>1. LossPassed(b, s)' \in SUBSET LossPassed(b, s)
    BY <1>4 DEF LossPassed
  <2>2. lossCounter'[b][s] = lossCounter[b][s]
    BY <1>1, <1>4, AdjustEntry DEF AdjustLoss
  <2>3. /\ Cardinality(LossPassed(b, s)') \in Nat /\ Cardinality(LossPassed(b, s)) \in Nat
        /\ Cardinality(LossPassed(b, s)') <= Cardinality(LossPassed(b, s))
    BY <1>3, <2>1, CardMono
  <2>4. ASSUME QLoss[b] = "fail_closed" PROVE LossPassed(b, s)' = {}
    BY <1>2, <2>1, <2>4
  <2>5. ASSUME QLoss[b] = "fail_limited", QKind[b] \notin ConcurrencyKinds
        PROVE  /\ Cardinality(LossPassed(b, s)') <= lossCounter'[b][s]
               /\ Cardinality(LossPassed(b, s)') <= QBurst[b]
    BY <1>2, <2>2, <2>3, <2>5
  <2> QED
    BY <2>4, <2>5
<1>5. CASE b = q /\ s = key
  <2> SUFFICES ASSUME QLoss[b] = "fail_limited", QKind[b] \notin ConcurrencyKinds
               PROVE  /\ Cardinality(LossPassed(b, s)') <= lossCounter'[b][s]
                      /\ Cardinality(LossPassed(b, s)') <= QBurst[b]
    BY <1>5
  <2>1. LossPassed(b, s)' \in SUBSET (LossPassed(b, s) \cup {x})
    BY DEF LossPassed
  <2>2. /\ lossCounter'[b][s] = Adjust(lossCounter[b][s], 1)
        /\ lossCounter'[b][s] <= QBurst[b]
    BY <1>1, <1>5, AdjustEntry DEF AdjustLoss
  <2>3. lossCounter'[b][s] = lossCounter[b][s] + 1
    BY <1>2, <2>2 DEF Adjust
  <2>4. /\ Cardinality(LossPassed(b, s)') \in Nat /\ Cardinality(LossPassed(b, s)) \in Nat
        /\ Cardinality(LossPassed(b, s)') <= Cardinality(LossPassed(b, s)) + 1
    BY <1>3, <2>1, CardGrow
  <2> QED
    BY <1>2, <2>2, <2>3, <2>4
<1> QED
  BY <1>4, <1>5

(***************************************************************************)
(* The five actions that are not quiet.                                    *)
(***************************************************************************)

\* A step of one request leaves what the others take and have passed alone.
LEMMA OthersQuota ==
    ASSUME NEW x \in Requests,
           \A r \in Requests : r # x =>
              /\ pc'[r] = pc[r] /\ outcome'[r] = outcome[r] /\ qtodo'[r] = qtodo[r]
              /\ qheld'[r] = qheld[r] /\ qAvail'[r] = qAvail[r]
    PROVE  \A r \in Requests, b \in QuotaPolicies : r # x =>
              /\ TakesSlot(r, b)' <=> TakesSlot(r, b)
              /\ Past(r, b)' <=> Past(r, b)
  BY DEF TakesSlot, Past, Admitted

\* A counter that is adjusted upwards does not fall.
LEMMA AdjustGrows ==
    ASSUME NEW f \in [QuotaPolicies -> [Times -> Nat]], NEW q \in QuotaPolicies,
           NEW s \in Times
    PROVE  \A b \in QuotaPolicies, t \in Times :
              [f EXCEPT ![q][s] = Adjust(@, 1)][b][t] >= f[b][t]
  BY DEF Adjust

\* A request visits a rate quota.
LEMMA QuotaRateStep ==
    ASSUME QuotaInv, TypeOK', NEW r \in Requests, QuotaRate(r) PROVE QuotaInv'
<1> USE DEF QuotaInv, QuotaCounting
<1>1. PICK q \in qtodo[r] :
          /\ QKind[q] = "request_rate"
          /\ quotaCounter' = AdjustQuota(q, QuotaKey(r, q), 1)
          /\ IF OverLimit(Adjust(quotaCounter[q][QuotaKey(r, q)], 1), QLimit[q])
               THEN pc' = [pc EXCEPT ![r] = "quota_unwind"] /\ UNCHANGED qtodo
               ELSE qtodo' = [qtodo EXCEPT ![r] = @ \ {q}] /\ UNCHANGED pc
  BY DEF QuotaRate
<1>2. /\ pc[r] = "quota_reserve" /\ qAvail[r]
      /\ pc'[r] \in {"quota_reserve", "quota_unwind"}
      /\ \A x \in Requests : x # r => pc'[x] = pc[x] /\ qtodo'[x] = qtodo[x]
      /\ qtodo'[r] \in SUBSET qtodo[r] /\ \A b \in qtodo[r] : b # q => b \in qtodo'[r]
      /\ UNCHANGED <<outcome, startedAt, lossCounter, qAvail, qheld, rtodo>>
  BY <1>1 DEF QuotaRate, TypeOK, ControlType, QuotaLocalType, budgetLocals, reconVars
<1>3. QuotaLocalInv'
  BY <1>2 DEF QuotaLocalInv
<1>4. q \in QuotaPolicies /\ QuotaKey(r, q) \in Times /\ 1 \in Int
        /\ quotaCounter \in [QuotaPolicies -> [Times -> Nat]]
  BY <1>1, QuotaKeyType DEF TypeOK, QuotaLocalType, StoreType
<1>5. \A x \in Requests, b \in QuotaPolicies : x # r =>
          (TakesSlot(x, b)' <=> TakesSlot(x, b)) /\ (Past(x, b)' <=> Past(x, b))
  BY <1>2, OthersQuota
<1>6. \A b \in QuotaPolicies :
          /\ TakesSlot(r, b)' <=> TakesSlot(r, b)
          /\ b # q => (Past(r, b)' => Past(r, b))
  BY <1>2 DEF TakesSlot, Past, Admitted
<1>7. ConcurrencyCounterExact' /\ ConcurrencyWithinLimit'
  <2>1. \A b \in QuotaPolicies :
            QKind[b] \in ConcurrencyKinds => quotaCounter'[b] = quotaCounter[b]
    BY <1>1, <1>4, AdjustEntry DEF AdjustQuota, ConcurrencyKinds
  <2> QED
    BY <1>2, <1>5, <1>6, <2>1, SlotFrame
<1>8. RateInv'
  <2>1. CASE OverLimit(Adjust(quotaCounter[q][QuotaKey(r, q)], 1), QLimit[q])
    <3>1. \A b \in QuotaPolicies : ~Past(r, b)'
      BY <1>1, <1>2, <2>1 DEF Past, Admitted, TypeOK, ControlType
    <3>2. \A b \in QuotaPolicies, s \in Times : quotaCounter'[b][s] >= quotaCounter[b][s]
      BY <1>1, <1>4, AdjustGrows DEF AdjustQuota
    <3> QED
      BY <1>2, <1>5, <3>1, <3>2, RateFrame
  <2>2. CASE ~OverLimit(Adjust(quotaCounter[q][QuotaKey(r, q)], 1), QLimit[q])
    <3>1. quotaCounter'[q][QuotaKey(r, q)] = Adjust(quotaCounter[q][QuotaKey(r, q)], 1)
      BY <1>1, <1>4, AdjustEntry DEF AdjustQuota
    <3>2. quotaCounter'[q][QuotaKey(r, q)] <= QLimit[q]
      <4>1. quotaCounter[q][QuotaKey(r, q)] \in Nat /\ QLimit[q] \in Nat
        BY <1>4, QuotaAssumption
      <4> QED
        BY <2>2, <3>1, <4>1 DEF OverLimit, Adjust
    <3> QED
      BY <1>1, <1>2, <1>4, <1>5, <1>6, <3>2, RateStep
  <2> QED
    BY <2>1, <2>2
<1>9. LossHeldInv'
  BY <1>2, LossHeldFrame DEF TypeOK, StoreType
<1>10. LossPassedInv'
  <2>1. \A b \in QuotaPolicies, s \in Times : lossCounter'[b][s] >= lossCounter[b][s]
    BY <1>2 DEF TypeOK, StoreType
  <2> QED
    BY <1>2, <1>5, <2>1, LossPassedFrame
<1> QED
  BY <1>3, <1>7, <1>8, <1>9, <1>10

\* A request visits a concurrency quota.
LEMMA QuotaConcurrencyStep ==
    ASSUME QuotaInv, TypeOK', NEW r \in Requests, QuotaConcurrency(r) PROVE QuotaInv'
<1> USE DEF QuotaInv, QuotaCounting
<1>1. PICK q \in qtodo[r] :
          /\ IsLeast(q, qtodo[r]) /\ QKind[q] \in ConcurrencyKinds
          /\ quotaCounter' = AdjustQuota(q, QuotaKey(r, q), 1)
          /\ IF OverLimit(Adjust(quotaCounter[q][QuotaKey(r, q)], 1), QLimit[q])
               THEN pc' = [pc EXCEPT ![r] = "quota_rollback"] /\ UNCHANGED <<qtodo, qheld>>
               ELSE /\ qheld' = [qheld EXCEPT ![r] = @ \cup {q}]
                    /\ qtodo' = [qtodo EXCEPT ![r] = @ \ {q}]
                    /\ UNCHANGED pc
  BY DEF QuotaConcurrency
<1>2. /\ pc[r] = "quota_reserve" /\ qAvail[r]
      /\ pc'[r] \in {"quota_reserve", "quota_rollback"}
      /\ \A x \in Requests : x # r =>
            pc'[x] = pc[x] /\ qtodo'[x] = qtodo[x] /\ qheld'[x] = qheld[x]
      /\ UNCHANGED <<outcome, startedAt, lossCounter, qAvail, rtodo>>
  BY <1>1 DEF QuotaConcurrency, TypeOK, ControlType, QuotaLocalType, budgetLocals, reconVars
<1>3. q \in QuotaPolicies /\ QuotaKey(r, q) \in Times /\ 1 \in Int
        /\ quotaCounter \in [QuotaPolicies -> [Times -> Nat]]
        /\ q \notin qheld[r] /\ qtodo[r] \in SUBSET QuotaPolicies
  BY <1>1, <1>2, QuotaKeyType DEF TypeOK, QuotaLocalType, StoreType, QuotaLocalInv
<1>4. \A x \in Requests, b \in QuotaPolicies : x # r =>
          (TakesSlot(x, b)' <=> TakesSlot(x, b)) /\ (Past(x, b)' <=> Past(x, b))
  BY <1>2, OthersQuota
<1>5. \A b \in QuotaPolicies : b # q => ~IsLeast(b, qtodo[r])
  BY <1>1, <1>3, LeastUnique DEF QuotaPolicies
<1>6. \/ /\ pc'[r] = "quota_rollback" /\ qtodo'[r] = qtodo[r] /\ qheld'[r] = qheld[r]
         /\ OverLimit(Adjust(quotaCounter[q][QuotaKey(r, q)], 1), QLimit[q])
      \/ /\ pc'[r] = "quota_reserve"
         /\ qtodo'[r] = qtodo[r] \ {q} /\ qheld'[r] = qheld[r] \cup {q}
         /\ ~OverLimit(Adjust(quotaCounter[q][QuotaKey(r, q)], 1), QLimit[q])
  BY <1>1, <1>2 DEF TypeOK, ControlType, QuotaLocalType
<1>7. QuotaLocalInv'
  BY <1>1, <1>2, <1>3, <1>5, <1>6 DEF QuotaLocalInv
<1>8. ~TakesSlot(r, q) /\ TakesSlot(r, q)'
  <2>1. IsLeast(q, qtodo[r]) => (qtodo'[r] = qtodo[r] => IsLeast(q, qtodo'[r]))
    OBVIOUS
  <2> QED
    BY <1>1, <1>2, <1>3, <1>6, <2>1 DEF TakesSlot
<1>9. \A b \in QuotaPolicies : b # q =>
          /\ TakesSlot(r, b)' <=> TakesSlot(r, b)
          /\ Past(r, b)' => Past(r, b)
  BY <1>2, <1>5, <1>6 DEF TakesSlot, Past, Admitted
<1>10. ConcurrencyCounterExact'
  BY <1>1, <1>2, <1>3, <1>4, <1>8, <1>9, SlotUp
<1>11. ConcurrencyWithinLimit'
  <2>1. quotaCounter'[q][QuotaKey(r, q)] = Adjust(quotaCounter[q][QuotaKey(r, q)], 1)
    BY <1>1, <1>3, AdjustEntry DEF AdjustQuota
  <2>2. quotaCounter[q][QuotaKey(r, q)] \in Nat /\ QLimit[q] \in Nat
    BY <1>3, QuotaAssumption
  <2>3. \/ qheld'[r] = qheld[r]
        \/ quotaCounter'[q][QuotaKey(r, q)] <= QLimit[q]
    BY <1>6, <2>1, <2>2 DEF OverLimit, Adjust
  <2>4. \A x \in Requests, b \in QuotaPolicies :
            x # r \/ b # q => (b \in qheld'[x] => b \in qheld[x])
    BY <1>2, <1>6
  <2> QED
    BY <1>2, <1>3, <1>10, <2>3, <2>4, SlotLimit
<1>12. RateInv'
  <2>1. QKind[q] # "request_rate"
    BY <1>1 DEF ConcurrencyKinds
  <2>2. \A b \in QuotaPolicies, s \in Times : quotaCounter'[b][s] >= quotaCounter[b][s]
    BY <1>1, <1>3, AdjustGrows DEF AdjustQuota
  <2> QED
    BY <1>2, <1>4, <1>9, <2>1, <2>2, RateFrame
<1>13. LossHeldInv'
  <2>1. \A b \in QuotaPolicies, s \in Times : lossCounter'[b][s] >= lossCounter[b][s]
    BY <1>2 DEF TypeOK, StoreType
  <2> QED
    BY <1>2, <2>1, LossHeldFrame
<1>14. LossPassedInv'
  <2>1. \A b \in QuotaPolicies, s \in Times : lossCounter'[b][s] >= lossCounter[b][s]
    BY <1>2 DEF TypeOK, StoreType
  <2> QED
    BY <1>2, <1>4, <2>1, LossPassedFrame
<1> QED
  BY <1>7, <1>10, <1>11, <1>12, <1>13, <1>14

\* A refused slot is given back.
LEMMA RollbackQuotaStep ==
    ASSUME QuotaInv, TypeOK', NEW r \in Requests, RollbackQuota(r) PROVE QuotaInv'
<1> USE DEF QuotaInv, QuotaCounting
<1>1. PICK q \in qtodo[r] :
          IsLeast(q, qtodo[r]) /\ quotaCounter' = AdjustQuota(q, QuotaKey(r, q), -1)
  BY DEF RollbackQuota
<1>2. /\ pc[r] = "quota_rollback" /\ pc'[r] = "quota_unwind" /\ qAvail[r]
      /\ \A x \in Requests : x # r => pc'[x] = pc[x]
      /\ UNCHANGED <<outcome, startedAt, lossCounter, qAvail, qtodo, qheld, rtodo>>
  BY DEF RollbackQuota, TypeOK, ControlType, QuotaLocalInv, budgetLocals, quotaLocals,
         reconVars
<1>3. q \in QuotaPolicies /\ QuotaKey(r, q) \in Times /\ -1 \in Int
        /\ quotaCounter \in [QuotaPolicies -> [Times -> Nat]]
        /\ q \notin qheld[r] /\ qtodo[r] \in SUBSET QuotaPolicies
        /\ QKind[q] \in ConcurrencyKinds
  BY <1>1, <1>2, QuotaKeyType DEF TypeOK, QuotaLocalType, StoreType, QuotaLocalInv
<1>4. \A x \in Requests, b \in QuotaPolicies : x # r =>
          (TakesSlot(x, b)' <=> TakesSlot(x, b)) /\ (Past(x, b)' <=> Past(x, b))
  BY <1>2, OthersQuota
<1>5. \A b \in QuotaPolicies : b # q => ~IsLeast(b, qtodo[r])
  BY <1>1, <1>3, LeastUnique DEF QuotaPolicies
<1>6. QuotaLocalInv'
  BY <1>2 DEF QuotaLocalInv
<1>7. TakesSlot(r, q) /\ ~TakesSlot(r, q)'
  BY <1>1, <1>2, <1>3 DEF TakesSlot
<1>8. \A b \in QuotaPolicies :
          /\ b # q => (TakesSlot(r, b)' <=> TakesSlot(r, b))
          /\ ~Past(r, b)'
  BY <1>2, <1>5 DEF TakesSlot, Past, Admitted
<1>9. ConcurrencyCounterExact'
  BY <1>1, <1>2, <1>3, <1>4, <1>7, <1>8, SlotDown
<1>10. ConcurrencyWithinLimit'
  BY <1>2, <1>3, <1>9, SlotLimit
<1>11. RateInv'
  <2>1. \A b \in QuotaPolicies, s \in Times :
            QKind[b] = "request_rate" => quotaCounter'[b][s] >= quotaCounter[b][s]
    <3>1. \A b \in QuotaPolicies : QKind[b] = "request_rate" => b # q
      BY <1>3 DEF ConcurrencyKinds
    <3>2. \A b \in QuotaPolicies : b # q => quotaCounter'[b] = quotaCounter[b]
      BY <1>1, <1>3, AdjustEntry DEF AdjustQuota
    <3> QED
      BY <1>3, <3>1, <3>2
  <2> QED
    BY <1>2, <1>4, <1>8, <2>1, RateFrame
<1>12. \A b \in QuotaPolicies, s \in Times : lossCounter'[b][s] >= lossCounter[b][s]
  BY <1>2 DEF TypeOK, StoreType
<1>13. LossHeldInv'
  BY <1>2, <1>12, LossHeldFrame
<1>14. LossPassedInv'
  BY <1>2, <1>4, <1>8, <1>12, LossPassedFrame
<1> QED
  BY <1>6, <1>9, <1>10, <1>11, <1>13, <1>14

\* A request visits a quota that needs the lost hot state.
LEMMA QuotaLossStep ==
    ASSUME QuotaInv, TypeOK', NEW r \in Requests, QuotaHotStateLoss(r) PROVE QuotaInv'
<1> USE DEF QuotaInv, QuotaCounting
<1> DEFINE over(q) == OverLimit(Adjust(lossCounter[q][QuotaKey(r, q)], 1), QBurst[q])
           refused == /\ pc'[r] = "release_budget" /\ outcome'[r] = "blocked"
                      /\ UNCHANGED <<qtodo, qheld>>
           passed(q) == qtodo'[r] = qtodo[r] \ {q} /\ UNCHANGED <<pc, outcome>>
<1>1. PICK q \in qtodo[r] :
          \/ QLoss[q] = "fail_open" /\ passed(q) /\ UNCHANGED <<lossCounter, qheld>>
          \/ refused /\ UNCHANGED lossCounter
          \/ /\ QLoss[q] = "fail_limited" /\ lossCounter' = AdjustLoss(q, QuotaKey(r, q), 1)
             /\ \/ over(q) /\ refused
                \/ /\ ~over(q) /\ passed(q)
                   /\ qheld' = IF QKind[q] \in ConcurrencyKinds
                                 THEN [qheld EXCEPT ![r] = @ \cup {q}] ELSE qheld
  BY DEF QuotaHotStateLoss, TypeOK, ControlType, QuotaLocalType
<1>2. /\ pc[r] = "quota_reserve" /\ ~qAvail[r]
      /\ pc'[r] \in {"quota_reserve", "release_budget"}
      /\ \A x \in Requests : x # r =>
            /\ pc'[x] = pc[x] /\ outcome'[x] = outcome[x]
            /\ qtodo'[x] = qtodo[x] /\ qheld'[x] = qheld[x]
      /\ UNCHANGED <<startedAt, quotaCounter, qAvail, rtodo>>
  BY DEF QuotaHotStateLoss, TypeOK, ControlType, QuotaLocalType, budgetLocals, reconVars
<1>3. q \in QuotaPolicies /\ QuotaKey(r, q) \in Times /\ 1 \in Int
        /\ lossCounter \in [QuotaPolicies -> [Times -> Nat]]
        /\ q \notin qheld[r] /\ qtodo[r] \in SUBSET QuotaPolicies
        /\ qheld[r] \in SUBSET QuotaPolicies
  BY <1>1, <1>2, QuotaKeyType DEF TypeOK, QuotaLocalType, StoreType, QuotaLocalInv
<1>4. \A x \in Requests, b \in QuotaPolicies : x # r =>
          (TakesSlot(x, b)' <=> TakesSlot(x, b)) /\ (Past(x, b)' <=> Past(x, b))
  BY <1>2, OthersQuota
<1>5. \/ refused
      \/ /\ passed(q)
         /\ \/ qheld'[r] = qheld[r]
            \/ qheld'[r] = qheld[r] \cup {q} /\ QKind[q] \in ConcurrencyKinds
  BY <1>1 DEF TypeOK, QuotaLocalType
<1>6. QuotaLocalInv'
  BY <1>2, <1>3, <1>5 DEF QuotaLocalInv
<1>7. \A b \in QuotaPolicies : ~TakesSlot(r, b) /\ ~TakesSlot(r, b)'
  BY <1>2 DEF TakesSlot
<1>8. \A b \in QuotaPolicies : b # q => (Past(r, b)' => Past(r, b))
  BY <1>2, <1>5 DEF Past, Admitted
<1>9. ASSUME refused PROVE \A b \in QuotaPolicies : ~Past(r, b)'
  BY <1>9 DEF Past, Admitted
<1>10. ConcurrencyCounterExact'
  <2>1. \A b \in QuotaPolicies, s \in Times : SlotHolders(b, s)' = SlotHolders(b, s)
    <3>1. ASSUME NEW b \in QuotaPolicies, NEW s \in Times
          PROVE /\ SlotHolders(b, s) = {x \in Requests : QuotaKey(x, b) = s /\ TakesSlot(x, b)}
                /\ SlotHolders(b, s)' = {x \in Requests : QuotaKey(x, b) = s /\ TakesSlot(x, b)'}
      BY <1>2 DEF SlotHolders, TakesSlot
    <3> QED
      BY <1>4, <1>7, <3>1
  <2> QED
    BY <1>2, <2>1 DEF ConcurrencyCounterExact
<1>11. ConcurrencyWithinLimit'
  <2>1. ASSUME NEW b \in QuotaPolicies, NEW s \in Times
        PROVE {x \in Requests : b \in qheld'[x] /\ qAvail'[x] /\ QSlot[b][startedAt'[x]] = s}
                = {x \in Requests : b \in qheld[x] /\ qAvail[x] /\ QSlot[b][startedAt[x]] = s}
    BY <1>2
  <2> QED
    BY <2>1 DEF ConcurrencyWithinLimit
<1>12. RateInv'
  <2>1. \A b \in QuotaPolicies, s \in Times : quotaCounter'[b][s] >= quotaCounter[b][s]
    BY <1>2 DEF TypeOK, StoreType
  <2> QED
    BY <1>2, <1>4, <2>1, RateFrame
<1>13. /\ QBurst[q] \in Nat /\ lossCounter[q][QuotaKey(r, q)] \in Nat
       /\ \/ UNCHANGED lossCounter
          \/ /\ lossCounter' = AdjustLoss(q, QuotaKey(r, q), 1)
             /\ lossCounter'[q][QuotaKey(r, q)] = Adjust(lossCounter[q][QuotaKey(r, q)], 1)
  BY <1>1, <1>3, AdjustEntry, QuotaAssumption DEF AdjustLoss
<1>14. \A b \in QuotaPolicies, s \in Times : lossCounter'[b][s] >= lossCounter[b][s]
  <2>1. CASE UNCHANGED lossCounter
    BY <2>1, <1>3
  <2>2. CASE lossCounter' = AdjustLoss(q, QuotaKey(r, q), 1)
    BY <2>2, <1>3, AdjustGrows DEF AdjustLoss
  <2> QED
    BY <1>13, <2>1, <2>2
<1>15. CASE refused
  <2>1. LossHeldInv'
    BY <1>2, <1>14, <1>15, LossHeldFrame
  <2>2. LossPassedInv'
    BY <1>2, <1>4, <1>9, <1>14, <1>15, LossPassedFrame
  <2> QED
    BY <1>6, <1>10, <1>11, <1>12, <2>1, <2>2
<1>16. CASE QLoss[q] = "fail_open" /\ UNCHANGED <<lossCounter, qheld>>
  <2>1. LossHeldInv'
    BY <1>2, <1>14, <1>16, LossHeldFrame
  <2>2. \A x \in Requests, b \in QuotaPolicies :
            x # r \/ b # q => (Past(x, b)' => Past(x, b))
    BY <1>4, <1>8
  <2>3. LossPassedInv'
    BY <1>2, <1>3, <1>16, <2>2, LossPassedStep
  <2> QED
    BY <1>6, <1>10, <1>11, <1>12, <2>1, <2>3
<1>17. CASE QLoss[q] = "fail_limited" /\ lossCounter' = AdjustLoss(q, QuotaKey(r, q), 1)
              /\ ~over(q)
  <2>1. lossCounter'[q][QuotaKey(r, q)] <= QBurst[q]
    <3>1. lossCounter'[q][QuotaKey(r, q)] = Adjust(lossCounter[q][QuotaKey(r, q)], 1)
      BY <1>3, <1>17, AdjustEntry DEF AdjustLoss
    <3> QED
      BY <1>13, <1>17, <3>1 DEF OverLimit, Adjust
  <2>2. \A x \in Requests, b \in QuotaPolicies :
            x # r \/ b # q => (b \in qheld'[x] => b \in qheld[x])
    BY <1>2, <1>5
  <2>3. LossHeldInv'
    BY <1>2, <1>3, <1>17, <2>1, <2>2, LossHeldStep
  <2>4. \A x \in Requests, b \in QuotaPolicies :
            x # r \/ b # q => (Past(x, b)' => Past(x, b))
    BY <1>4, <1>8
  <2>5. LossPassedInv'
    BY <1>2, <1>3, <1>17, <2>1, <2>4, LossPassedStep
  <2> QED
    BY <1>6, <1>10, <1>11, <1>12, <2>3, <2>5
<1> QED
  BY <1>1, <1>15, <1>16, <1>17

\* A request gives back one of its quota reservations.
LEMMA ReleaseQuotaStep ==
    ASSUME QuotaInv, TypeOK', NEW r \in Requests, ReleaseQuota(r) PROVE QuotaInv'
<1> USE DEF QuotaInv, QuotaCounting
<1>1. PICK q \in qheld[r] :
          /\ IF qAvail[r]
               THEN quotaCounter' = AdjustQuota(q, QuotaKey(r, q), -1) /\ UNCHANGED lossCounter
               ELSE lossCounter' = AdjustLoss(q, QuotaKey(r, q), -1) /\ UNCHANGED quotaCounter
          /\ qheld' = [qheld EXCEPT ![r] = @ \ {q}]
  BY DEF ReleaseQuota
<1>2. /\ pc[r] \in {"quota_unwind", "release_quota"}
      /\ \A x \in Requests : x # r => qheld'[x] = qheld[x]
      /\ qheld'[r] = qheld[r] \ {q}
      /\ UNCHANGED <<pc, outcome, startedAt, qAvail, qtodo, rtodo>>
  BY <1>1 DEF ReleaseQuota, TypeOK, QuotaLocalType, budgetLocals, reconVars
<1>3. q \in QuotaPolicies /\ QuotaKey(r, q) \in Times /\ -1 \in Int
        /\ quotaCounter \in [QuotaPolicies -> [Times -> Nat]]
        /\ lossCounter \in [QuotaPolicies -> [Times -> Nat]]
        /\ QKind[q] \in ConcurrencyKinds
  BY <1>1, QuotaKeyType DEF TypeOK, QuotaLocalType, StoreType, QuotaLocalInv
<1>4. QuotaLocalInv'
  BY <1>2 DEF QuotaLocalInv
<1>5. \A x \in Requests, b \in QuotaPolicies :
          /\ x # r \/ b # q => (TakesSlot(x, b)' <=> TakesSlot(x, b))
          /\ Past(x, b)' <=> Past(x, b)
          /\ b \in qheld'[x] => b \in qheld[x]
  BY <1>2 DEF TakesSlot, Past, Admitted
<1>6. q \in qheld[r] /\ q \notin qheld'[r]
  BY <1>1, <1>2
<1>7. CASE qAvail[r]
  <2>1. quotaCounter' = AdjustQuota(q, QuotaKey(r, q), -1) /\ UNCHANGED lossCounter
    BY <1>1, <1>7
  <2>2. TakesSlot(r, q) /\ ~TakesSlot(r, q)'
    BY <1>2, <1>6, <1>7 DEF TakesSlot
  <2>3. ConcurrencyCounterExact'
    BY <1>2, <1>3, <1>5, <2>1, <2>2, SlotDown
  <2>4. ConcurrencyWithinLimit'
    BY <1>2, <1>3, <1>5, <2>3, SlotLimit
  <2>5. RateInv'
    <3>1. \A b \in QuotaPolicies, s \in Times :
              QKind[b] = "request_rate" => quotaCounter'[b][s] >= quotaCounter[b][s]
      <4>1. \A b \in QuotaPolicies : QKind[b] = "request_rate" => b # q
        BY <1>3 DEF ConcurrencyKinds
      <4>2. \A b \in QuotaPolicies : b # q => quotaCounter'[b] = quotaCounter[b]
        BY <1>3, <2>1, AdjustEntry DEF AdjustQuota
      <4> QED
        BY <1>3, <4>1, <4>2
    <3> QED
      BY <1>2, <1>5, <3>1, RateFrame
  <2>6. \A b \in QuotaPolicies, s \in Times : lossCounter'[b][s] >= lossCounter[b][s]
    BY <1>3, <2>1
  <2>7. LossHeldInv'
    BY <1>2, <1>5, <2>6, LossHeldFrame
  <2>8. LossPassedInv'
    BY <1>2, <1>5, <2>6, LossPassedFrame
  <2> QED
    BY <1>4, <2>3, <2>4, <2>5, <2>7, <2>8
<1>8. CASE ~qAvail[r]
  <2>1. lossCounter' = AdjustLoss(q, QuotaKey(r, q), -1) /\ UNCHANGED quotaCounter
    BY <1>1, <1>8
  <2>2. TakesSlot(r, q) <=> TakesSlot(r, q)'
    BY <1>2, <1>8 DEF TakesSlot
  <2>3. ConcurrencyCounterExact'
    <3>1. ASSUME NEW b \in QuotaPolicies, NEW s \in Times
          PROVE /\ SlotHolders(b, s) = {x \in Requests : QuotaKey(x, b) = s /\ TakesSlot(x, b)}
                /\ SlotHolders(b, s)' = {x \in Requests : QuotaKey(x, b) = s /\ TakesSlot(x, b)'}
      BY <1>2 DEF SlotHolders, TakesSlot
    <3>2. \A b \in QuotaPolicies, s \in Times : SlotHolders(b, s)' = SlotHolders(b, s)
      BY <1>5, <2>2, <3>1
    <3> QED
      BY <2>1, <3>2 DEF ConcurrencyCounterExact
  <2>4. ConcurrencyWithinLimit'
    BY <1>2, <1>3, <1>5, <2>3, SlotLimit
  <2>5. RateInv'
    <3>1. \A b \in QuotaPolicies, s \in Times : quotaCounter'[b][s] >= quotaCounter[b][s]
      BY <1>3, <2>1
    <3> QED
      BY <1>2, <1>5, <3>1, RateFrame
  <2>6. LossHeldInv'
    BY <1>2, <1>3, <1>5, <1>6, <1>8, <2>1, LossReleaseStep
  <2>7. LossPassedInv'
    <3>1. \A b \in QuotaPolicies, s \in Times :
              QKind[b] \notin ConcurrencyKinds => lossCounter'[b][s] >= lossCounter[b][s]
      <4>1. \A b \in QuotaPolicies : b # q => lossCounter'[b] = lossCounter[b]
        BY <1>3, <2>1, AdjustEntry DEF AdjustLoss
      <4> QED
        BY <1>3, <4>1
    <3> QED
      BY <1>2, <1>5, <3>1, LossPassedFrame
  <2> QED
    BY <1>4, <2>3, <2>4, <2>5, <2>6, <2>7
<1> QED
  BY <1>7, <1>8

\* The invariant holds initially: nobody has been let through and nothing is
\* counted.
LEMMA QuotaInvInit == Init => QuotaInv
<1> SUFFICES ASSUME Init PROVE QuotaInv
  OBVIOUS
<1>1. TypeOK
  BY TypeInit
<1>2. QuotaLocalInv
  BY DEF Init, QuotaLocalInv
<1>3. ASSUME NEW q \in QuotaPolicies, NEW s \in Times
      PROVE  /\ SlotHolders(q, s) = {} /\ RatePassed(q, s) = {}
             /\ LossHeld(q, s) = {} /\ LossPassed(q, s) = {}
             /\ {r \in Requests : q \in qheld[r] /\ qAvail[r] /\ QuotaKey(r, q) = s} = {}
  BY DEF Init, SlotHolders, RatePassed, LossHeld, LossPassed, Past, Admitted
<1>4. Cardinality({}) = 0
  BY FS_EmptySet
<1>5. ASSUME NEW q \in QuotaPolicies, NEW s \in Times
      PROVE  /\ Cardinality(SlotHolders(q, s)) = 0 /\ Cardinality(RatePassed(q, s)) = 0
             /\ Cardinality(LossHeld(q, s)) = 0 /\ Cardinality(LossPassed(q, s)) = 0
             /\ Cardinality({r \in Requests :
                    q \in qheld[r] /\ qAvail[r] /\ QuotaKey(r, q) = s}) = 0
  BY <1>3, <1>4, Zenon
<1>6. ASSUME NEW q \in QuotaPolicies, NEW s \in Times
      PROVE  /\ quotaCounter[q][s] = 0 /\ lossCounter[q][s] = 0
             /\ QLimit[q] \in Nat /\ QBurst[q] \in Nat
  BY QuotaAssumption DEF Init
<1>7. ConcurrencyCounterExact
  BY <1>5, <1>6 DEF ConcurrencyCounterExact
<1>8. ConcurrencyWithinLimit
  BY <1>5, <1>6 DEF ConcurrencyWithinLimit
<1>9. RateInv /\ LossHeldInv
  <2>1. ASSUME NEW q \in QuotaPolicies, NEW s \in Times
        PROVE  /\ Cardinality(RatePassed(q, s)) <= quotaCounter[q][s]
               /\ Cardinality(RatePassed(q, s)) <= QLimit[q]
               /\ Cardinality(LossHeld(q, s)) <= lossCounter[q][s]
               /\ Cardinality(LossHeld(q, s)) <= QBurst[q]
    <3>1. /\ Cardinality(RatePassed(q, s)) = 0 /\ Cardinality(LossHeld(q, s)) = 0
          /\ quotaCounter[q][s] = 0 /\ lossCounter[q][s] = 0
      BY <1>5, <1>6
    <3>2. QLimit[q] \in Nat /\ QBurst[q] \in Nat
      BY <1>6
    <3> QED
      BY <3>1, <3>2
  <2> QED
    BY <2>1 DEF RateInv, LossHeldInv
<1>10. LossPassedInv
  BY <1>3, <1>5, <1>6 DEF LossPassedInv
<1> QED
  BY <1>1, <1>2, <1>7, <1>8, <1>9, <1>10 DEF QuotaInv, QuotaCounting

\* Every step preserves the invariant.
LEMMA QuotaInvStep == QuotaInv /\ [Next]_vars => QuotaInv'
<1> SUFFICES ASSUME QuotaInv, [Next]_vars PROVE QuotaInv'
  OBVIOUS
<1>1. TypeOK /\ QuotaLocalInv /\ QuotaCounting /\ TypeOK'
  BY TypeStep DEF QuotaInv
<1>2. ASSUME NEW r \in Requests,
             \/ QuotaRate(r) \/ QuotaConcurrency(r) \/ RollbackQuota(r)
             \/ QuotaHotStateLoss(r) \/ ReleaseQuota(r)
      PROVE  QuotaInv'
  BY <1>1, <1>2, QuotaRateStep, QuotaConcurrencyStep, RollbackQuotaStep,
     QuotaLossStep, ReleaseQuotaStep
<1>3. ASSUME Quiet, QuotaLocalInv' PROVE QuotaInv'
  BY <1>1, <1>3, QuietPreserves DEF QuotaInv
<1> QED
  BY <1>1, <1>2, <1>3, QuietSteps DEF Next, RequestStep

\* The invariant holds in every reachable state.
THEOREM QuotaInvariant == Spec => []QuotaInv
  BY QuotaInvInit, QuotaInvStep, PTL DEF Spec

\* A concurrency counter equals the number of requests that hold a slot or are
\* about to give a refused one back, whatever the interleaving
\* (reserve_runtime_quota_counter, release_runtime_quota_reservations).
THEOREM ConcurrencyCounterCorrect == Spec => []ConcurrencyCounterExact
<1>1. QuotaInv => ConcurrencyCounterExact
  BY DEF QuotaInv, QuotaCounting
<1> QED
  BY <1>1, QuotaInvariant, PTL

\* Never more requests hold a slot of a concurrency quota than its limit.
THEOREM ConcurrencyLimitHolds == Spec => []ConcurrencyWithinLimit
<1>1. QuotaInv => ConcurrencyWithinLimit
  BY DEF QuotaInv, QuotaCounting
<1> QED
  BY <1>1, QuotaInvariant, PTL

\* Within one window a rate quota admits at most its limit, however preflights
\* and cancellations interleave (increment_runtime_quota_counter).
THEOREM RateLimitHolds == Spec => []RateWithinLimit
<1>1. ASSUME QuotaInv PROVE RateWithinLimit
  <2> SUFFICES ASSUME NEW q \in QuotaPolicies, NEW s \in Times, QKind[q] = "request_rate"
               PROVE  Cardinality({r \in Requests : Admitted(r) /\ r \in QMatch[q]
                         /\ qAvail[r] /\ QuotaKey(r, q) = s}) <= QLimit[q]
    BY DEF RateWithinLimit
  <2> DEFINE admitted == {r \in Requests : Admitted(r) /\ r \in QMatch[q]
                             /\ qAvail[r] /\ QuotaKey(r, q) = s}
  <2>1. admitted \in SUBSET RatePassed(q, s)
    BY DEF RatePassed, Past, QuotaPoliciesFor, SkipsRequest, StreamKinds
  <2>2. RatePassed(q, s) \in SUBSET Requests
    BY DEF RatePassed
  <2>3. Cardinality(RatePassed(q, s)) <= QLimit[q] /\ QLimit[q] \in Nat
    BY <1>1, QuotaAssumption DEF QuotaInv, QuotaCounting, RateInv
  <2> HIDE DEF admitted
  <2>4. /\ Cardinality(admitted) \in Nat /\ Cardinality(RatePassed(q, s)) \in Nat
        /\ Cardinality(admitted) <= Cardinality(RatePassed(q, s))
    BY <2>1, <2>2, CardMono
  <2>5. Cardinality(admitted) <= QLimit[q]
    BY <2>3, <2>4
  <2> QED
    BY <2>5 DEF admitted
<1> QED
  BY <1>1, QuotaInvariant, PTL

\* While the hot state is lost, a fail_limited quota lets at most its burst
\* allowance through and a fail_closed quota nothing
\* (handle_runtime_quota_hot_state_loss).
THEOREM LossAllowanceHolds == Spec => []LossAllowanceBounded
<1>1. ASSUME QuotaInv PROVE LossAllowanceBounded
  <2> DEFINE lost(q, s) == {r \in Requests : q \in QuotaPoliciesFor(r)
                               /\ ~qAvail[r] /\ QuotaKey(r, q) = s}
             passed(q, s) == {r \in lost(q, s) :
                                \/ Admitted(r)
                                \/ pc[r] = "quota_reserve" /\ q \notin qtodo[r]}
             holding(q, s) == {r \in lost(q, s) : q \in qheld[r]}
             bounded(q, s) ==
                /\ QLoss[q] = "fail_closed" => passed(q, s) = {}
                /\ QLoss[q] = "fail_limited" =>
                      IF QKind[q] \in ConcurrencyKinds
                        THEN Cardinality(holding(q, s)) <= QBurst[q]
                        ELSE Cardinality(passed(q, s)) <= QBurst[q]
  <2>1. ASSUME NEW q \in QuotaPolicies, NEW s \in Times, NeedsHotState(q)
        PROVE  bounded(q, s)
    <3>1. passed(q, s) = LossPassed(q, s)
      BY DEF LossPassed, Past
    <3>2. holding(q, s) \in SUBSET LossHeld(q, s) /\ LossHeld(q, s) \in SUBSET Requests
      BY DEF LossHeld
    <3> HIDE DEF passed, holding
    <3>3. ASSUME QLoss[q] = "fail_closed" PROVE passed(q, s) = {}
      BY <1>1, <2>1, <3>1, <3>3 DEF QuotaInv, QuotaCounting, LossPassedInv
    <3>4. ASSUME QLoss[q] = "fail_limited", QKind[q] \notin ConcurrencyKinds
          PROVE  Cardinality(passed(q, s)) <= QBurst[q]
      BY <1>1, <2>1, <3>1, <3>4 DEF QuotaInv, QuotaCounting, LossPassedInv
    <3>5. ASSUME QKind[q] \in ConcurrencyKinds
          PROVE  Cardinality(holding(q, s)) <= QBurst[q]
      <4>1. Cardinality(LossHeld(q, s)) <= QBurst[q] /\ QBurst[q] \in Nat
        BY <1>1, <3>5, QuotaAssumption DEF QuotaInv, QuotaCounting, LossHeldInv
      <4>2. /\ Cardinality(holding(q, s)) \in Nat /\ Cardinality(LossHeld(q, s)) \in Nat
            /\ Cardinality(holding(q, s)) <= Cardinality(LossHeld(q, s))
        BY <3>2, CardMono
      <4> QED
        BY <4>1, <4>2
    <3> QED
      BY <3>3, <3>4, <3>5
  <2>2. \A q \in QuotaPolicies, s \in Times : NeedsHotState(q) => bounded(q, s)
    BY <2>1
  <2> QED
    BY <2>2, Zenon DEF LossAllowanceBounded
<1> QED
  BY <1>1, QuotaInvariant, PTL

(***************************************************************************)
(* What an answered request leaves behind.                                 *)
(***************************************************************************)

\* A reserved lease is one its request still knows of, and the two releases
\* empty what the request holds, one after the other, on every way to an answer.
AnsweredInv ==
    \A r \in Requests :
        /\ \A p \in BudgetPolicies : lease[r][p] = "reserved" => p \in held[r]
        /\ pc[r] = "release_quota" => held[r] = {}
        /\ pc[r] = "done" /\ outcome[r] \in {"completed", "failed"} =>
              qheld[r] = {} /\ held[r] = {}
        /\ pc[r] = "block" => outcome[r] = "blocked"

\* Every step preserves it: a lease leaves `held` only once it is no longer
\* reserved, which for the second write of a release is the lease invariant's
\* part.
LEMMA AnsweredStep ==
    ASSUME BudgetInv, AnsweredInv, [Next]_vars PROVE AnsweredInv'
<1> USE DEF BudgetInv, TypeOK, StoreType, ControlType, BudgetLocalType, QuotaLocalType,
            AnsweredInv, envVars, storeVars, evidenceVars, budgetLocals, quotaLocals,
            controlVars, requestVars, reconVars
<1>1. ASSUME NEW r \in Requests, Arrive(r) PROVE AnsweredInv'
  BY <1>1 DEF Arrive
<1>2. ASSUME NEW r \in Requests, BudgetReject(r) PROVE AnsweredInv'
  BY <1>2 DEF BudgetReject
<1>3. ASSUME NEW r \in Requests, BudgetPass(r) PROVE AnsweredInv'
  BY <1>3 DEF BudgetPass
<1>4. ASSUME NEW r \in Requests, BudgetHotStateLoss(r) PROVE AnsweredInv'
  BY <1>4 DEF BudgetHotStateLoss
<1>5. ASSUME NEW r \in Requests, ReserveBudget(r) PROVE AnsweredInv'
  BY <1>5 DEF ReserveBudget
<1>6. ASSUME NEW r \in Requests, RollbackBudget(r) PROVE AnsweredInv'
  BY <1>6 DEF RollbackBudget
<1>7. ASSUME NEW r \in Requests, RecordLease(r) PROVE AnsweredInv'
  BY <1>7 DEF RecordLease
<1>8. ASSUME NEW r \in Requests, QuotaPreflight(r) PROVE AnsweredInv'
  BY <1>8 DEF QuotaPreflight
<1>9. ASSUME NEW r \in Requests, QuotaLimit(r) PROVE AnsweredInv'
  BY <1>9 DEF QuotaLimit
<1>10. ASSUME NEW r \in Requests, QuotaReservePass(r) PROVE AnsweredInv'
  BY <1>10 DEF QuotaReservePass
<1>11. ASSUME NEW r \in Requests, QuotaRate(r) PROVE AnsweredInv'
  BY <1>11 DEF QuotaRate
<1>12. ASSUME NEW r \in Requests, QuotaConcurrency(r) PROVE AnsweredInv'
  BY <1>12 DEF QuotaConcurrency
<1>13. ASSUME NEW r \in Requests, RollbackQuota(r) PROVE AnsweredInv'
  BY <1>13 DEF RollbackQuota
<1>14. ASSUME NEW r \in Requests, QuotaHotStateLoss(r) PROVE AnsweredInv'
  BY <1>14 DEF QuotaHotStateLoss
<1>15. ASSUME NEW r \in Requests, Admit(r) PROVE AnsweredInv'
  BY <1>15 DEF Admit
<1>16. ASSUME NEW r \in Requests, ProviderAnswers(r) PROVE AnsweredInv'
  BY <1>16 DEF ProviderAnswers
<1>17. ASSUME NEW r \in Requests, ProviderFails(r) PROVE AnsweredInv'
  BY <1>17 DEF ProviderFails
<1>18. ASSUME NEW r \in Requests, InsertFailedAttempt(r) PROVE AnsweredInv'
  BY <1>18 DEF InsertFailedAttempt
<1>19. ASSUME NEW r \in Requests, InsertAttempt(r) PROVE AnsweredInv'
  BY <1>19 DEF InsertAttempt
<1>20. ASSUME NEW r \in Requests, RecordUsage(r) PROVE AnsweredInv'
  BY <1>20 DEF RecordUsage
<1>21. ASSUME NEW r \in Requests, InsertUsage(r) PROVE AnsweredInv'
  BY <1>21 DEF InsertUsage
<1>22. ASSUME NEW r \in Requests, FinalizeQuota(r) PROVE AnsweredInv'
  BY <1>22 DEF FinalizeQuota
<1>23. ASSUME NEW r \in Requests, FinalizeBudget(r) PROVE AnsweredInv'
  BY <1>23 DEF FinalizeBudget
<1>24. ASSUME NEW r \in Requests, ReleaseLease(r) PROVE AnsweredInv'
  <2>1. PICK p \in held[r] :
            \/ /\ lease' = [lease EXCEPT ![r][p] = "released"]
               /\ pc' = [pc EXCEPT ![r] = "lease_decrement"]
               /\ UNCHANGED held
            \/ /\ lease[r][p] # "reserved"
               /\ held' = [held EXCEPT ![r] = @ \ {p}]
               /\ UNCHANGED <<lease, pc>>
    BY <1>24 DEF ReleaseLease, StillReserved
  <2>2. pc[r] = "release_budget" /\ UNCHANGED <<outcome, qheld>>
    BY <1>24 DEF ReleaseLease
  <2>3. \A x \in Requests, b \in BudgetPolicies :
            lease'[x][b] = "reserved" => b \in held'[x]
    <3>1. CASE lease' = [lease EXCEPT ![r][p] = "released"] /\ UNCHANGED held
      <4>1. \A x \in Requests, b \in BudgetPolicies :
                lease'[x][b] = "reserved" => lease[x][b] = "reserved"
        BY <3>1
      <4> QED
        BY <3>1, <4>1
    <3>2. CASE lease[r][p] # "reserved" /\ held' = [held EXCEPT ![r] = @ \ {p}]
                 /\ UNCHANGED lease
      BY <3>2
    <3> QED
      BY <2>1, <3>1, <3>2
  <2>4. pc'[r] \in {"release_budget", "lease_decrement"}
          /\ \A x \in Requests : x # r => pc'[x] = pc[x] /\ held'[x] = held[x]
    BY <2>1, <2>2
  <2> QED
    BY <2>2, <2>3, <2>4
<1>25. ASSUME NEW r \in Requests, DecrementLease(r) PROVE AnsweredInv'
  <2>1. PICK p \in held[r] :
            IsLeast(p, held[r]) /\ held' = [held EXCEPT ![r] = @ \ {p}]
    BY <1>25 DEF DecrementLease
  <2>2. /\ pc[r] = "lease_decrement" /\ pc'[r] = "release_budget"
        /\ \A x \in Requests : x # r => pc'[x] = pc[x]
        /\ UNCHANGED <<lease, outcome, qheld>>
    BY <1>25 DEF DecrementLease
  <2>3. lease[r][p] = "released"
    BY <2>1, <2>2 DEF LeaseInv
  <2> QED
    BY <2>1, <2>2, <2>3
<1>26. ASSUME NEW r \in Requests, BudgetReleased(r) PROVE AnsweredInv'
  BY <1>26 DEF BudgetReleased
<1>27. ASSUME NEW r \in Requests, ReleaseQuota(r) PROVE AnsweredInv'
  BY <1>27 DEF ReleaseQuota
<1>28. ASSUME NEW r \in Requests, QuotaReleased(r) PROVE AnsweredInv'
  BY <1>28 DEF QuotaReleased
<1>29. ASSUME NEW r \in Requests, BlockDecision(r) PROVE AnsweredInv'
  BY <1>29 DEF BlockDecision
<1>30. ASSUME NEW r \in Requests, PersistFails(r) PROVE AnsweredInv'
  BY <1>30 DEF PersistFails
<1>31. ASSUME NEW r \in Requests, Cancel(r) PROVE AnsweredInv'
  BY <1>31 DEF Cancel
<1>32. ASSUME ExpireLeases PROVE AnsweredInv'
  BY <1>32 DEF ExpireLeases
<1>33. ASSUME NEW r \in Requests, NEW p \in BudgetPolicies, ReclaimLease(r, p)
       PROVE  AnsweredInv'
  BY <1>33 DEF ReclaimLease
<1>34. ASSUME ReadUsageEvents PROVE AnsweredInv'
  BY <1>34 DEF ReadUsageEvents
<1>35. ASSUME CompareCounter PROVE AnsweredInv'
  BY <1>35 DEF CompareCounter
<1>36. ASSUME RepairCounter PROVE AnsweredInv'
  BY <1>36 DEF RepairCounter
<1>37. ASSUME TickDone PROVE AnsweredInv'
  BY <1>37 DEF TickDone
<1>38. ASSUME Tick PROVE AnsweredInv'
  BY <1>38 DEF Tick
<1>39. ASSUME FlipHotState PROVE AnsweredInv'
  BY <1>39 DEF FlipHotState
<1>40. ASSUME NEW p \in Forceable, ForceBudgetBlock(p) PROVE AnsweredInv'
  BY <1>40 DEF ForceBudgetBlock
<1>41. ASSUME UNCHANGED vars PROVE AnsweredInv'
  BY <1>41 DEF vars
<1> QED
  BY <1>1, <1>2, <1>3, <1>4, <1>5, <1>6, <1>7, <1>8, <1>9, <1>10, <1>11,
     <1>12, <1>13, <1>14, <1>15, <1>16, <1>17, <1>18, <1>19, <1>20, <1>21,
     <1>22, <1>23, <1>24, <1>25, <1>26, <1>27, <1>28, <1>29, <1>30, <1>31,
     <1>32, <1>33, <1>34, <1>35, <1>36, <1>37, <1>38, <1>39, <1>40, <1>41
     DEF Next, RequestStep, ReconcilerStep

\* A request that was answered, or that the provider failed, has given back
\* every quota slot and every budget lease before its handler returns
\* (model_ingress: release_runtime_policy_reservations on both ways out).
THEOREM AnsweredRequestHoldsNothing == Spec => []AnsweredHoldsNothing
<1>1. Init => BudgetInv /\ AnsweredInv
  BY BudgetInvInit DEF Init, AnsweredInv
<1>2. BudgetInv /\ AnsweredInv /\ [Next]_vars => (BudgetInv /\ AnsweredInv)'
  BY BudgetInvStep, AnsweredStep
<1>3. BudgetInv /\ AnsweredInv => AnsweredHoldsNothing
  BY DEF AnsweredInv, AnsweredHoldsNothing
<1> QED
  BY <1>1, <1>2, <1>3, PTL DEF Spec

=============================================================================
