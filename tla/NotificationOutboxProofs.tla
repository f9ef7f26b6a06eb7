----------------------- MODULE NotificationOutboxProofs -----------------------
(***************************************************************************)
(* Proofs about NotificationOutbox, for any sources, subscriptions, sinks, *)
(* retry budgets and batch limit.                                          *)
(*                                                                         *)
(* Everything rests on one fact: the worker's copy of an event stays       *)
(* current until the worker has recorded its attempt. With it the count    *)
(* the worker decides with is the stored one, and what it overwrites was   *)
(* still live.                                                             *)
(***************************************************************************)
EXTENDS NotificationOutbox, TLAPS

\* What the worker holds in its hands while a call is pending.
CallInv == wpc = "record" /\ wresult = "succeeded" => \A k \in calling : acked[k]

OutboxInv ==
    /\ TypeOK
    /\ BatchIsCurrent
    /\ AttemptsBounded
    /\ DeliveredWasAcknowledged
    /\ CallInv

\* The variables TypeOK constrains, by group, each left alone by most actions.
ConfigOK   == /\ sinkActive \in [Sinks -> BOOLEAN] /\ sinkMax \in [Sinks -> MaxAttempts]
              /\ secret \in [Sinks -> BOOLEAN] /\ subActive \in [Subs -> BOOLEAN]
StoreOK    == /\ status \in [Keys -> Statuses] /\ attempts \in [Keys -> Nat]
              /\ due \in [Keys -> BOOLEAN] /\ rank \in [Keys -> Nat]
ProducerOK == /\ ppc \in [Sources -> {"idle", "append", "done"}]
              /\ ptodo \in [Sources -> SUBSET Subs]
              /\ prank \in [Sources -> Nat] /\ raised \in Nat
WorkerOK   == /\ wpc \in {"idle", "deliver", "record"} /\ batch \subseteq Keys
              /\ calling \subseteq batch /\ (wpc # "record" => calling = {})
              /\ seen \in [Keys -> Nat] /\ wmax \in MaxAttempts /\ wresult \in Results
OtherOK    == acked \in [Keys -> BOOLEAN] /\ ops \in 0..AdminLimit

\* Nothing is in the outbox and the worker is idle.
LEMMA OutboxInit == Init => OutboxInv
  <1> SUFFICES ASSUME Init PROVE OutboxInv
    OBVIOUS
  <1>1. TypeOK
    BY OutboxAssumption DEF Init, TypeOK, Statuses, Live, Settled, Results
  <1>2. \A k \in Keys : status[k] = "none" /\ attempts[k] = 0
    BY DEF Init
  <1>3. batch = {} /\ wpc = "idle"
    BY DEF Init
  <1>4. \A n \in MaxAttempts : n \in Nat /\ 0 < n
    BY OutboxAssumption
  <1>5. AttemptsBounded
    BY <1>2, <1>4 DEF AttemptsBounded
  <1> QED
    BY <1>1, <1>2, <1>3, <1>5
    DEF OutboxInv, BatchIsCurrent, DeliveredWasAcknowledged, CallInv

\* A step that leaves the outbox, the acknowledgements and the worker alone.
LEMMA QuietStep ==
    ASSUME OutboxInv, TypeOK', UNCHANGED <<outboxVars, acked, workerVars>>
    PROVE  OutboxInv'
  BY DEF OutboxInv, outboxVars, workerVars, BatchIsCurrent, AttemptsBounded,
         DeliveredWasAcknowledged, CallInv

-----------------------------------------------------------------------------
(* Types                                                                   *)

\* What record_notification_delivery_attempt writes is well typed.
LEMMA RecordType ==
    ASSUME TypeOK, NEW k \in Keys,
           NEW s \in {"succeeded", "retryable_failed", "permanent_failed", "dead_lettered"},
           RecordAttempt(k, s)
    PROVE  StoreOK' /\ batch' \subseteq batch
  BY DEF TypeOK, RecordAttempt, RecordedStatus, StoreOK, Statuses, Live, Settled

\* A producer's step keeps the types.
LEMMA ProducerType ==
    ASSUME TypeOK, NEW x \in Sources, Raise(x) \/ ProducerStep(x)
    PROVE  TypeOK'
  <1>1. CASE Raise(x)
    <2>1. raised' \in Nat
      BY <1>1 DEF TypeOK, Raise
    <2>2. ProducerOK'
      BY <1>1, <2>1, OutboxAssumption DEF TypeOK, Raise, ProducerOK
    <2> QED
      BY <1>1, <2>2 DEF TypeOK, ProducerOK, Raise, configVars, outboxVars, workerVars
  <1>2. CASE Raised(x)
    BY <1>2 DEF TypeOK, Raised, configVars, outboxVars, workerVars
  <1>3. ASSUME NEW b \in Subs, AppendEvent(x, b)
        PROVE  TypeOK'
    <2> DEFINE k == <<Cause[x], b>>
    <2>1. k \in Keys
      BY OutboxAssumption DEF Keys
    <2>2. StoreOK'
      <3>1. CASE UNCHANGED outboxVars
        BY <3>1 DEF TypeOK, StoreOK, outboxVars
      <3>2. CASE /\ status' = [status EXCEPT ![k] = "pending"]
                 /\ attempts' = [attempts EXCEPT ![k] = 0]
                 /\ due' = [due EXCEPT ![k] = TRUE]
                 /\ rank' = [rank EXCEPT ![k] = prank[x]]
        BY <3>2, <2>1 DEF TypeOK, StoreOK, Statuses, Live
      <3> QED
        BY <1>3, <3>1, <3>2 DEF AppendEvent
    <2>3. ConfigOK' /\ ProducerOK' /\ WorkerOK' /\ OtherOK'
      BY <1>3 DEF TypeOK, AppendEvent, ConfigOK, ProducerOK, WorkerOK, OtherOK,
                  configVars, workerVars
    <2> QED
      BY <2>2, <2>3
      DEF TypeOK, ConfigOK, StoreOK, ProducerOK, WorkerOK, OtherOK
  <1> QED
    BY <1>1, <1>2, <1>3 DEF ProducerStep

\* A step of the worker keeps the types.
LEMMA WorkerType ==
    ASSUME TypeOK, WorkerStep
    PROVE  TypeOK'
  <1>1. CASE StartPass
    <2>1. batch' \subseteq Keys /\ calling' = {}
      BY <1>1 DEF TypeOK, StartPass, Batches, DueEvents
    <2> QED
      BY <1>1, <2>1 DEF TypeOK, StartPass, configVars, outboxVars, producerVars
  <1>2. CASE PassDone
    BY <1>2 DEF TypeOK, PassDone, configVars, outboxVars, producerVars
  <1>3. ASSUME NEW k \in Keys, DeliverLocally(k)
        PROVE  TypeOK'
    <2>1. StoreOK' /\ batch' \subseteq batch
      BY <1>3, RecordType DEF DeliverLocally
    <2> QED
      BY <1>3, <2>1 DEF TypeOK, StoreOK, DeliverLocally, configVars, producerVars
  <1>4. ASSUME NEW k \in Keys, DeliveryError(k)
        PROVE  TypeOK'
    BY <1>4 DEF TypeOK, DeliveryError, configVars, outboxVars, producerVars
  <1>5. ASSUME NEW k \in Keys, Post(k)
        PROVE  TypeOK'
    <2>1. sinkMax[SinkOf(k)] \in MaxAttempts
      BY OutboxAssumption DEF TypeOK, SinkOf, Keys
    <2>2. WorkerOK'
      BY <1>5, <2>1
      DEF TypeOK, Post, IsNext, SeenResults, Results, WorkerOK
    <2>3. acked' \in [Keys -> BOOLEAN]
      BY <1>5 DEF TypeOK, Post
    <2> QED
      BY <1>5, <2>2, <2>3
      DEF TypeOK, Post, WorkerOK, configVars, outboxVars, producerVars
  <1>6. ASSUME NEW k \in Keys, RecordPost(k)
        PROVE  TypeOK'
    <2>1. StoreOK' /\ batch' \subseteq batch
      BY <1>6, RecordType DEF RecordPost, TypeOK, Results
    <2> QED
      BY <1>6, <2>1, OutboxAssumption
      DEF TypeOK, StoreOK, RecordPost, Results, configVars, producerVars
  <1> QED
    BY <1>1, <1>2, <1>3, <1>4, <1>5, <1>6 DEF WorkerStep

\* An administrator's step keeps the types.
LEMMA AdminType ==
    ASSUME TypeOK, AdminStep
    PROVE  TypeOK'
  <1>1. ASSUME Operate PROVE ops' \in 0..AdminLimit
    BY <1>1, OutboxAssumption DEF Operate, TypeOK
  <1>2. ASSUME NEW k \in Keys, Replay(k)
        PROVE  TypeOK'
    <2>1. StoreOK'
      BY <1>2 DEF TypeOK, Replay, StoreOK, Statuses, Live
    <2> QED
      BY <1>1, <1>2, <2>1
      DEF TypeOK, StoreOK, Replay, configVars, producerVars, workerVars
  <1>3. ASSUME NEW s \in Sinks, UpdateSink(s)
        PROVE  TypeOK'
    BY <1>1, <1>3 DEF TypeOK, UpdateSink, outboxVars, producerVars, workerVars
  <1>4. ASSUME NEW s \in Sinks, FlipSecret(s)
        PROVE  TypeOK'
    BY <1>1, <1>4 DEF TypeOK, FlipSecret, outboxVars, producerVars, workerVars
  <1>5. ASSUME NEW b \in Subs, UpdateSubscription(b)
        PROVE  TypeOK'
    BY <1>1, <1>5 DEF TypeOK, UpdateSubscription, outboxVars, producerVars, workerVars
  <1> QED
    BY <1>2, <1>3, <1>4, <1>5 DEF AdminStep

\* Every step keeps the types.
LEMMA TypeStep ==
    ASSUME TypeOK, [Next]_vars
    PROVE  TypeOK'
  <1>1. ASSUME NEW k \in Keys, RetryDue(k)
        PROVE  TypeOK'
    BY <1>1 DEF TypeOK, RetryDue, configVars, producerVars, workerVars
  <1>2. CASE UNCHANGED vars
    BY <1>2 DEF TypeOK, vars, configVars, outboxVars, producerVars, workerVars
  <1> QED
    BY <1>1, <1>2, ProducerType, WorkerType, AdminType DEF Next

-----------------------------------------------------------------------------
(* The invariant                                                           *)

\* Recording an attempt of an event of the batch: it was live, so nothing
\* settled is overwritten, and its count was the one the worker decided with.
LEMMA RecordStep ==
    ASSUME OutboxInv, TypeOK', NEW k \in batch,
           NEW s \in {"succeeded", "retryable_failed", "permanent_failed", "dead_lettered"},
           RecordAttempt(k, s), seen' = seen, acked' = acked,
           s = "retryable_failed" => ~Exhausted(k) /\ wmax \in MaxAttempts,
           s = "succeeded" => SinkKind[SinkOf(k)] # "webhook" \/ acked[k]
    PROVE  BatchIsCurrent' /\ AttemptsBounded' /\ DeliveredWasAcknowledged'
  <1>1. k \in Keys
    BY DEF OutboxInv, TypeOK
  <1>2. status[k] \in Live /\ attempts[k] = seen[k]
    BY DEF OutboxInv, BatchIsCurrent
  <1>3. attempts'[k] = attempts[k] + 1 /\ status'[k] = RecordedStatus(s)
    BY <1>1 DEF RecordAttempt, OutboxInv, TypeOK
  <1>4. \A j \in Keys \ {k} : attempts'[j] = attempts[j] /\ status'[j] = status[j]
    BY <1>1 DEF RecordAttempt, OutboxInv, TypeOK
  <1>5. BatchIsCurrent'
    BY <1>4 DEF RecordAttempt, BatchIsCurrent, OutboxInv, TypeOK
  <1>6. AttemptsBounded'
    <2> SUFFICES ASSUME NEW j \in Keys, NEW n \in MaxAttempts,
                        \A m \in MaxAttempts : m <= n
                 PROVE  attempts'[j] <= n /\ (status'[j] \in Live => attempts'[j] < n)
      BY DEF AttemptsBounded
    <2>1. CASE j # k
      BY <2>1, <1>4 DEF OutboxInv, AttemptsBounded
    <2>2. CASE j = k
      <3>1. n \in Nat /\ attempts[k] \in Nat /\ attempts[k] < n
        BY <1>1, <1>2, OutboxAssumption DEF OutboxInv, AttemptsBounded, TypeOK
      <3>2. attempts'[k] <= n
        BY <1>3, <3>1
      <3>3. ASSUME s = "retryable_failed" PROVE attempts'[k] < n
        <4>1. wmax \in Nat /\ wmax <= n /\ seen[k] + 1 < wmax
          BY <3>3, <1>1, OutboxAssumption DEF Exhausted, OutboxInv, TypeOK
        <4> QED
          BY <4>1, <1>2, <1>3, <3>1
      <3>4. ASSUME s # "retryable_failed" PROVE status'[k] \notin Live
        BY <3>4, <1>3 DEF RecordedStatus, Live
      <3> QED
        BY <2>2, <3>2, <3>3, <3>4
    <2> QED
      BY <2>1, <2>2
  <1>7. DeliveredWasAcknowledged'
    <2> SUFFICES ASSUME NEW j \in Keys, status'[j] = "delivered",
                        SinkKind[SinkOf(j)] = "webhook"
                 PROVE  acked[j]
      BY DEF DeliveredWasAcknowledged
    <2>1. CASE j # k
      BY <2>1, <1>4 DEF OutboxInv, DeliveredWasAcknowledged
    <2>2. CASE j = k
      BY <2>2, <1>3 DEF RecordedStatus
    <2> QED
      BY <2>1, <2>2
  <1> QED
    BY <1>5, <1>6, <1>7

\* The worker's steps keep the invariant.
LEMMA WorkerInv ==
    ASSUME OutboxInv, TypeOK', WorkerStep
    PROVE  OutboxInv'
  <1> USE DEF OutboxInv
  <1>1. CASE StartPass
    <2>1. \A k \in batch' : k \in Keys /\ status[k] \in Live
      BY <1>1 DEF StartPass, Batches, DueEvents
    <2>2. BatchIsCurrent'
      BY <1>1, <2>1 DEF StartPass, outboxVars, BatchIsCurrent
    <2> QED
      BY <1>1, <2>2
      DEF StartPass, outboxVars, AttemptsBounded, DeliveredWasAcknowledged, CallInv
  <1>2. CASE PassDone
    BY <1>2 DEF PassDone, outboxVars, BatchIsCurrent, AttemptsBounded,
                DeliveredWasAcknowledged, CallInv
  <1>3. ASSUME NEW k \in Keys, DeliverLocally(k)
        PROVE  OutboxInv'
    <2> DEFINE s == IF sinkActive[SinkOf(k)] /\ SinkKind[SinkOf(k)] = "stdout"
                      THEN "succeeded" ELSE "permanent_failed"
    <2>1. RecordAttempt(k, s) /\ k \in batch /\ seen' = seen /\ acked' = acked
      BY <1>3 DEF DeliverLocally, IsNext
    <2>2. s = "succeeded" => SinkKind[SinkOf(k)] # "webhook"
      OBVIOUS
    <2>3. BatchIsCurrent' /\ AttemptsBounded' /\ DeliveredWasAcknowledged'
      BY <2>1, <2>2, RecordStep
    <2>4. CallInv'
      BY <1>3 DEF DeliverLocally, CallInv
    <2> QED
      BY <2>3, <2>4
  <1>4. ASSUME NEW k \in Keys, DeliveryError(k)
        PROVE  OutboxInv'
    BY <1>4 DEF DeliveryError, outboxVars, BatchIsCurrent, AttemptsBounded,
                DeliveredWasAcknowledged, CallInv
  <1>5. ASSUME NEW k \in Keys, Post(k)
        PROVE  OutboxInv'
    <2>1. \A j \in Keys : acked[j] => acked'[j]
      BY <1>5 DEF Post, TypeOK
    <2>2. wresult' = "succeeded" => acked'[k]
      BY <1>5 DEF Post, TypeOK, SeenResults
    <2>3. calling' = {k} /\ UNCHANGED <<status, attempts, batch, seen>>
      BY <1>5 DEF Post, outboxVars
    <2> QED
      BY <2>1, <2>2, <2>3
      DEF BatchIsCurrent, AttemptsBounded, DeliveredWasAcknowledged, CallInv
  <1>6. ASSUME NEW k \in Keys, RecordPost(k)
        PROVE  OutboxInv'
    <2> DEFINE s == IF wresult = "retryable_failed" /\ Exhausted(k)
                      THEN "dead_lettered" ELSE wresult
    <2>1. RecordAttempt(k, s) /\ k \in batch /\ seen' = seen /\ acked' = acked
      BY <1>6 DEF RecordPost, TypeOK
    <2>2. s = "succeeded" => acked[k]
      BY <1>6 DEF RecordPost, CallInv
    <2>3. s \in {"succeeded", "retryable_failed", "permanent_failed", "dead_lettered"}
      BY DEF TypeOK, Results
    <2>4. s = "retryable_failed" => ~Exhausted(k) /\ wmax \in MaxAttempts
      BY DEF TypeOK
    <2>5. BatchIsCurrent' /\ AttemptsBounded' /\ DeliveredWasAcknowledged'
      BY <2>1, <2>2, <2>3, <2>4, RecordStep
    <2>6. CallInv'
      BY <1>6 DEF RecordPost, CallInv
    <2> QED
      BY <2>5, <2>6
  <1> QED
    BY <1>1, <1>2, <1>3, <1>4, <1>5, <1>6 DEF WorkerStep

\* An event that is not in the batch is put in the outbox or replayed: it gets
\* a fresh count, which is below every retry budget.
LEMMA RequeueStep ==
    ASSUME OutboxInv, TypeOK', NEW k \in Keys, status[k] \notin Live,
           status' = [status EXCEPT ![k] = "pending"],
           attempts' = [attempts EXCEPT ![k] = 0],
           acked' = acked, UNCHANGED workerVars
    PROVE  OutboxInv'
  <1>1. k \notin batch
    BY DEF OutboxInv, BatchIsCurrent
  <1>2. attempts'[k] = 0 /\ status'[k] = "pending"
    BY DEF OutboxInv, TypeOK
  <1>3. \A j \in Keys \ {k} : attempts'[j] = attempts[j] /\ status'[j] = status[j]
    BY DEF OutboxInv, TypeOK
  <1>4. BatchIsCurrent'
    BY <1>1, <1>3 DEF OutboxInv, TypeOK, BatchIsCurrent, workerVars
  <1>5. \A n \in MaxAttempts : n \in Nat /\ 0 < n
    BY OutboxAssumption
  <1>6. AttemptsBounded'
    BY <1>2, <1>3, <1>5 DEF OutboxInv, AttemptsBounded
  <1>7. DeliveredWasAcknowledged'
    BY <1>2, <1>3 DEF OutboxInv, DeliveredWasAcknowledged
  <1> QED
    BY <1>4, <1>6, <1>7 DEF OutboxInv, CallInv, workerVars

\* Every step keeps the invariant.
LEMMA OutboxStep ==
    ASSUME OutboxInv, [Next]_vars
    PROVE  OutboxInv'
  <1>0. TypeOK /\ TypeOK'
    BY TypeStep DEF OutboxInv
  <1>1. ASSUME NEW x \in Sources, Raise(x) \/ ProducerStep(x)
        PROVE  OutboxInv'
    <2>1. CASE Raise(x) \/ Raised(x)
      BY <1>0, <2>1, QuietStep DEF Raise, Raised
    <2>2. ASSUME NEW b \in Subs, AppendEvent(x, b)
          PROVE  OutboxInv'
      <3>1. <<Cause[x], b>> \in Keys
        BY OutboxAssumption DEF Keys
      <3>2. CASE UNCHANGED outboxVars
        BY <1>0, <2>2, <3>2, QuietStep DEF AppendEvent
      <3>3. CASE ~ UNCHANGED outboxVars
        <4>1. /\ status[<<Cause[x], b>>] = "none"
              /\ status' = [status EXCEPT ![<<Cause[x], b>>] = "pending"]
              /\ attempts' = [attempts EXCEPT ![<<Cause[x], b>>] = 0]
              /\ acked' = acked /\ UNCHANGED workerVars
          BY <2>2, <3>3 DEF AppendEvent, NewKey
        <4>2. status[<<Cause[x], b>>] \notin Live
          BY <4>1 DEF Live
        <4> QED
          BY <1>0, <3>1, <4>1, <4>2, RequeueStep
      <3> QED
        BY <3>2, <3>3
    <2> QED
      BY <1>1, <2>1, <2>2 DEF ProducerStep
  <1>2. CASE WorkerStep
    BY <1>0, <1>2, WorkerInv
  <1>3. ASSUME NEW k \in Keys, RetryDue(k)
        PROVE  OutboxInv'
    BY <1>0, <1>3 DEF RetryDue, workerVars, OutboxInv, BatchIsCurrent,
                      AttemptsBounded, DeliveredWasAcknowledged, CallInv
  <1>4. CASE AdminStep
    <2>1. ASSUME NEW k \in Keys, Replay(k)
          PROVE  OutboxInv'
      <3>1. status[k] \notin Live
        BY <2>1 DEF Replay, Replayable, Live
      <3> QED
        BY <1>0, <2>1, <3>1, RequeueStep DEF Replay
    <2>2. ASSUME NEW s \in Sinks, UpdateSink(s) \/ FlipSecret(s)
          PROVE  OutboxInv'
      BY <1>0, <2>2, QuietStep DEF UpdateSink, FlipSecret
    <2>3. ASSUME NEW b \in Subs, UpdateSubscription(b)
          PROVE  OutboxInv'
      BY <1>0, <2>3, QuietStep DEF UpdateSubscription
    <2> QED
      BY <1>4, <2>1, <2>2, <2>3 DEF AdminStep
  <1>5. CASE UNCHANGED vars
    BY <1>0, <1>5, QuietStep DEF vars
  <1> QED
    BY <1>1, <1>2, <1>3, <1>4, <1>5 DEF Next

\* The invariant holds in every behaviour of the outbox.
LEMMA Invariance == Spec => []OutboxInv
  BY OutboxInit, OutboxStep, PTL DEF Spec

-----------------------------------------------------------------------------
(* The theorems                                                            *)

\* Every reachable state is well typed.
THEOREM TypeCorrect == Spec => []TypeOK
  <1>1. OutboxInv => TypeOK
    BY DEF OutboxInv
  <1> QED
    BY <1>1, Invariance, PTL

\* While the worker of deliver_due_notifications_with_transport is suspended in
\* a webhook call, no producer and no administrator can make its copy of the
\* batch out of date.
THEOREM BatchStaysCurrent == Spec => []BatchIsCurrent
  <1>1. OutboxInv => BatchIsCurrent
    BY DEF OutboxInv
  <1> QED
    BY <1>1, Invariance, PTL

\* The retry budget of notification_delivery_status_from_result bounds the
\* attempts, whatever administrators do to it meanwhile.
THEOREM RetriesBounded == Spec => []AttemptsBounded
  <1>1. OutboxInv => AttemptsBounded
    BY DEF OutboxInv
  <1> QED
    BY <1>1, Invariance, PTL

\* A webhook event is marked delivered only once its receiver said so.
THEOREM DeliveredIsAcknowledged == Spec => []DeliveredWasAcknowledged
  <1>1. OutboxInv => DeliveredWasAcknowledged
    BY DEF OutboxInv
  <1> QED
    BY <1>1, Invariance, PTL

\* A step touches only one event, which is live, new or dead-lettered.
LEMMA KeptStep ==
    ASSUME OutboxInv, OutboxInv', [Next]_vars
    PROVE  [SettledKept]_vars
  <1> SUFFICES ASSUME Next, NEW k \in Keys,
                      status[k] \in {"delivered", "permanent_failed"}
               PROVE  status'[k] = status[k] /\ attempts'[k] = attempts[k] /\ k \notin calling'
    BY DEF SettledKept
  <1>1. status'[k] = status[k] /\ attempts'[k] = attempts[k]
    <2>1. ASSUME NEW j \in Keys, NEW s, RecordAttempt(j, s), j \in batch
          PROVE  status'[k] = status[k] /\ attempts'[k] = attempts[k]
      <3>1. j # k
        BY <2>1 DEF OutboxInv, BatchIsCurrent, Live
      <3> QED
        BY <2>1, <3>1 DEF RecordAttempt, OutboxInv, TypeOK
    <2>2. ASSUME NEW x \in Sources, Raise(x) \/ ProducerStep(x)
          PROVE  status'[k] = status[k] /\ attempts'[k] = attempts[k]
      <3>1. CASE Raise(x) \/ Raised(x)
        BY <3>1 DEF Raise, Raised, outboxVars
      <3>2. ASSUME NEW b \in Subs, AppendEvent(x, b)
            PROVE  status'[k] = status[k] /\ attempts'[k] = attempts[k]
        <4>1. CASE UNCHANGED outboxVars
          BY <4>1 DEF outboxVars
        <4>2. CASE ~ UNCHANGED outboxVars
          BY <3>2, <4>2 DEF AppendEvent, NewKey, OutboxInv, TypeOK
        <4> QED
          BY <4>1, <4>2
      <3> QED
        BY <2>2, <3>1, <3>2 DEF ProducerStep
    <2>3. CASE WorkerStep
      <3>1. CASE StartPass \/ PassDone
        BY <3>1 DEF StartPass, PassDone, outboxVars
      <3>2. ASSUME NEW j \in Keys, DeliverLocally(j)
            PROVE  status'[k] = status[k] /\ attempts'[k] = attempts[k]
        BY <3>2, <2>1 DEF DeliverLocally, IsNext
      <3>3. ASSUME NEW j \in Keys, DeliveryError(j) \/ Post(j)
            PROVE  status'[k] = status[k] /\ attempts'[k] = attempts[k]
        BY <3>3 DEF DeliveryError, Post, outboxVars
      <3>4. ASSUME NEW j \in Keys, RecordPost(j)
            PROVE  status'[k] = status[k] /\ attempts'[k] = attempts[k]
        BY <3>4, <2>1 DEF RecordPost, OutboxInv, TypeOK
      <3> QED
        BY <2>3, <3>1, <3>2, <3>3, <3>4 DEF WorkerStep
    <2>4. ASSUME NEW j \in Keys, RetryDue(j)
          PROVE  status'[k] = status[k] /\ attempts'[k] = attempts[k]
      BY <2>4 DEF RetryDue
    <2>5. CASE AdminStep
      <3>1. ASSUME NEW j \in Keys, Replay(j)
            PROVE  status'[k] = status[k] /\ attempts'[k] = attempts[k]
        BY <3>1 DEF Replay, Replayable, OutboxInv, TypeOK
      <3> QED
        BY <2>5, <3>1 DEF AdminStep, UpdateSink, FlipSecret, UpdateSubscription, outboxVars
    <2> QED
      BY <2>2, <2>3, <2>4, <2>5 DEF Next
  <1>2. ASSUME k \in calling' PROVE FALSE
    <2>1. status'[k] \in Live
      BY <1>2 DEF OutboxInv, TypeOK, BatchIsCurrent
    <2> QED
      BY <2>1, <1>1 DEF Live
  <1> QED
    BY <1>1, <1>2

\* An event that is delivered or refused is never requeued, re-attempted or
\* called again.
THEOREM SettledStays == Spec => SettledIsFinal
  BY Invariance, KeptStep, PTL DEF Spec, SettledIsFinal

=============================================================================
