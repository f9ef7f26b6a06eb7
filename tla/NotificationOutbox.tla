-------------------------- MODULE NotificationOutbox --------------------------
(***************************************************************************)
(* The notification outbox of the gateway: runtime code appends events for *)
(* the active subscriptions, a background worker delivers the due ones to  *)
(* their sinks and retries them, and administrators change sinks and       *)
(* subscriptions and replay dead-lettered events, all at the same time.    *)
(*                                                                         *)
(* An event is identified by its dedupe key: what caused it, and the       *)
(* subscription it is for. The worker takes a copy of a batch of due events *)
(* and works through the copy; a webhook call suspends it, and everything  *)
(* else may happen before it records the result.                           *)
(*                                                                         *)
(* Time is reduced to its effect: a retry becomes due some time after it   *)
(* was scheduled, and events are ordered by the time of their cause.       *)
(***************************************************************************)
EXTENDS Integers, FiniteSets

CONSTANTS
    Sources,      \* blocked requests and crossed thresholds
    Causes,       \* the part of a dedupe key that names the cause
    Cause,        \* the cause of each source
    Subs,         \* notification subscriptions
    Matches,      \* the subscriptions whose family and filter match a source
    Sinks,        \* notification sinks
    SubSink,      \* the sink of each subscription
    SinkKind,     \* "webhook", "stdout" or "disabled"
    Managed,      \* sinks and subscriptions that administrators change
    MaxAttempts,  \* the retry_policy.max_attempts values in use
    DefaultMax,   \* max_attempts of a sink that sets none
    BatchLimit,   \* notification_worker_batch_limit
    AdminLimit    \* bound: administrative operations

Keys == Causes \X Subs
SinkOf(k) == SubSink[k[2]]

ASSUME OutboxAssumption ==
    /\ IsFiniteSet(Sources)
    /\ Cause \in [Sources -> Causes]
    /\ Matches \in [Sources -> SUBSET Subs]
    /\ SubSink \in [Subs -> Sinks]
    /\ SinkKind \in [Sinks -> {"webhook", "stdout", "disabled"}]
    /\ MaxAttempts \subseteq Nat \ {0}
    /\ DefaultMax \in MaxAttempts
    /\ BatchLimit \in Nat \ {0}
    /\ AdminLimit \in Nat

VARIABLES
    sinkActive,  \* status of a sink is Active
    sinkMax,     \* its configured max_attempts
    secret,      \* its signing secret can be read
    subActive,   \* status of a subscription is Active
    status, attempts, due, rank,   \* the outbox
    acked,       \* the receiver of an event has answered with success
    ops,         \* administrative operations so far
    ppc, ptodo, prank, raised,     \* producers
    wpc, batch, seen, calling, wmax, wresult \* the worker

configVars   == <<sinkActive, sinkMax, secret, subActive>>
outboxVars   == <<status, attempts, due, rank>>
producerVars == <<ppc, ptodo, prank, raised>>
workerVars   == <<wpc, batch, seen, calling, wmax, wresult>>
vars == <<configVars, outboxVars, acked, ops, producerVars, workerVars>>

Live     == {"pending", "retryable_failed"}
Settled  == {"delivered", "permanent_failed", "dead_lettered"}
Statuses == {"none"} \cup Live \cup Settled
Results  == {"succeeded", "retryable_failed", "permanent_failed"}

Init ==
    /\ sinkActive = [s \in Sinks |-> TRUE]
    /\ sinkMax = [s \in Sinks |-> DefaultMax]
    /\ secret = [s \in Sinks |-> TRUE]
    /\ subActive = [b \in Subs |-> TRUE]
    /\ status = [k \in Keys |-> "none"]
    /\ attempts = [k \in Keys |-> 0]
    /\ due = [k \in Keys |-> FALSE]
    /\ rank = [k \in Keys |-> 0]
    /\ acked = [k \in Keys |-> FALSE]
    /\ ops = 0
    /\ ppc = [x \in Sources |-> "idle"]
    /\ ptodo = [x \in Sources |-> {}]
    /\ prank = [x \in Sources |-> 0]
    /\ raised = 0
    /\ wpc = "idle" /\ batch = {} /\ calling = {}
    /\ seen = [k \in Keys |-> 0]
    /\ wmax = DefaultMax /\ wresult = "succeeded"

-----------------------------------------------------------------------------
(* Producers                                                               *)

\* enqueue_runtime_policy_notification_events and
\* enqueue_runtime_budget_threshold_event read the subscriptions once.
Raise(x) ==
    /\ ppc[x] = "idle"
    /\ ptodo' = [ptodo EXCEPT ![x] = {b \in Matches[x] : subActive[b]}]
    /\ raised' = raised + 1
    /\ prank' = [prank EXCEPT ![x] = raised']
    /\ ppc' = [ppc EXCEPT ![x] = "append"]
    /\ UNCHANGED <<configVars, outboxVars, acked, ops, workerVars>>

\* Mutant: the outbox is not searched for the dedupe key.
NewKeyAlways(k) == TRUE

\* No event of the tenant has this dedupe key.
NewKey(k) == status[k] = "none"

\* append_notification_outbox_event, for a subscription whose sink is active.
AppendEvent(x, b) ==
    LET k == <<Cause[x], b>> IN
    /\ ppc[x] = "append" /\ b \in ptodo[x]
    /\ ptodo' = [ptodo EXCEPT ![x] = @ \ {b}]
    /\ IF sinkActive[SubSink[b]] /\ NewKey(k)
         THEN /\ status' = [status EXCEPT ![k] = "pending"]
              /\ attempts' = [attempts EXCEPT ![k] = 0]
              /\ due' = [due EXCEPT ![k] = TRUE]
              /\ rank' = [rank EXCEPT ![k] = prank[x]]
         ELSE UNCHANGED outboxVars
    /\ UNCHANGED <<configVars, acked, ops, ppc, prank, raised, workerVars>>

Raised(x) ==
    /\ ppc[x] = "append" /\ ptodo[x] = {}
    /\ ppc' = [ppc EXCEPT ![x] = "done"]
    /\ prank' = [prank EXCEPT ![x] = 0]
    /\ UNCHANGED <<configVars, outboxVars, acked, ops, ptodo, raised,
                   workerVars>>

-----------------------------------------------------------------------------
(* The delivery worker                                                     *)

\* Mutant: retries are forgotten.
DueEventsPending == {k \in Keys : status[k] = "pending" /\ due[k]}

DueEvents == {k \in Keys : status[k] \in Live /\ due[k]}

\* Sorted by creation time, then by a random id, and truncated.
Batches ==
    {B \in SUBSET DueEvents :
        /\ Cardinality(B) <= BatchLimit
        /\ B = DueEvents \/ Cardinality(B) = BatchLimit
        /\ \A k \in B, j \in DueEvents \ B : rank[k] <= rank[j]}

\* due_notification_outbox_events returns copies of the records.
StartPass ==
    /\ wpc = "idle" /\ DueEvents # {}
    /\ batch' \in Batches
    /\ seen' = attempts
    /\ wpc' = "deliver"
    /\ UNCHANGED <<configVars, outboxVars, acked, ops, producerVars,
                   calling, wmax, wresult>>

IsNext(k) == k \in batch /\ \A j \in batch : rank[k] <= rank[j]

\* Mutant: the attempt's status is stored as it is.
RecordedStatusRaw(s) == s

\* The event's status for an attempt's status.
RecordedStatus(s) == IF s = "succeeded" THEN "delivered" ELSE s

\* record_notification_delivery_attempt, under one write lock: whatever the
\* event's status is by then, it is overwritten.
RecordAttempt(k, s) ==
    /\ attempts' = [attempts EXCEPT ![k] = @ + 1]
    /\ status' = [status EXCEPT ![k] = RecordedStatus(s)]
    /\ due' = [due EXCEPT ![k] = FALSE]
    /\ batch' = batch \ {k}
    /\ UNCHANGED rank

\* A sink that is not active, or is not a webhook, is settled without a call.
DeliverLocally(k) ==
    LET s == SinkOf(k) IN
    /\ wpc = "deliver" /\ IsNext(k)
    /\ ~sinkActive[s] \/ SinkKind[s] # "webhook"
    /\ RecordAttempt(k, IF sinkActive[s] /\ SinkKind[s] = "stdout"
                          THEN "succeeded" ELSE "permanent_failed")
    /\ UNCHANGED <<configVars, acked, ops, producerVars, wpc, seen,
                   calling, wmax, wresult>>

\* webhook_delivery_plan fails before the call: the error is swallowed, no
\* attempt is recorded, and the event stays due.
DeliveryError(k) ==
    LET s == SinkOf(k) IN
    /\ wpc = "deliver" /\ IsNext(k)
    /\ sinkActive[s] /\ SinkKind[s] = "webhook" /\ ~secret[s]
    /\ batch' = batch \ {k}
    /\ UNCHANGED <<configVars, outboxVars, acked, ops, producerVars,
                   wpc, seen, calling, wmax, wresult>>

\* Mutant: a call that timed out counts as delivered.
SeenResultsOptimistic(a) == {a, "succeeded"}

\* What execute_webhook_delivery makes of answer a: whether the call reached
\* the receiver or not, the worker may only see a time-out.
SeenResults(a) == {a, "retryable_failed"}

\* The call: the worker waits for the receiver's answer.
Post(k) ==
    LET s == SinkOf(k) IN
    /\ wpc = "deliver" /\ IsNext(k)
    /\ sinkActive[s] /\ SinkKind[s] = "webhook" /\ secret[s]
    /\ wmax' = sinkMax[s]
    /\ \E a \in Results :
         /\ acked' = [acked EXCEPT ![k] = @ \/ a = "succeeded"]
         /\ wresult' \in SeenResults(a)
    /\ wpc' = "record" /\ calling' = {k}
    /\ UNCHANGED <<configVars, outboxVars, ops, producerVars, batch, seen>>

\* Mutant: off by one.
ExhaustedLate(k) == seen[k] >= wmax

\* The attempt count is the one in the worker's copy.
Exhausted(k) == seen[k] + 1 >= wmax

\* notification_delivery_status_from_result, then the attempt is recorded.
RecordPost(k) ==
    /\ wpc = "record" /\ k \in calling
    /\ RecordAttempt(k, IF wresult = "retryable_failed" /\ Exhausted(k)
                          THEN "dead_lettered" ELSE wresult)
    /\ wpc' = "deliver" /\ calling' = {} /\ wmax' = DefaultMax /\ wresult' = "succeeded"
    /\ UNCHANGED <<configVars, acked, ops, producerVars, seen>>

PassDone ==
    /\ wpc = "deliver" /\ batch = {}
    /\ wpc' = "idle"
    /\ seen' = [k \in Keys |-> 0]
    /\ UNCHANGED <<configVars, outboxVars, acked, ops, producerVars,
                   batch, calling, wmax, wresult>>

\* NOTIFICATION_DELIVERY_RETRY_DELAY_SECONDS have passed.
RetryDue(k) ==
    /\ status[k] = "retryable_failed" /\ ~due[k]
    /\ due' = [due EXCEPT ![k] = TRUE]
    /\ UNCHANGED <<configVars, status, attempts, rank, acked, ops,
                   producerVars, workerVars>>

-----------------------------------------------------------------------------
(* Administrators                                                          *)

Operate == ops < AdminLimit /\ ops' = ops + 1

\* Mutant: an event that waits for its retry may be replayed as well.
ReplayableUndelivered(k) == status[k] \in {"retryable_failed", "dead_lettered"}

Replayable(k) == status[k] = "dead_lettered"

\* replay_dead_lettered_notification_outbox_event
Replay(k) ==
    /\ Replayable(k) /\ Operate
    /\ status' = [status EXCEPT ![k] = "pending"]
    /\ attempts' = [attempts EXCEPT ![k] = 0]
    /\ due' = [due EXCEPT ![k] = TRUE]
    /\ UNCHANGED <<configVars, rank, acked, producerVars, workerVars>>

\* update_notification_sink: status, endpoint configuration, signing secret.
UpdateSink(s) ==
    /\ s \in Managed /\ Operate
    /\ \E on \in BOOLEAN : sinkActive' = [sinkActive EXCEPT ![s] = on]
    /\ \E n \in MaxAttempts : sinkMax' = [sinkMax EXCEPT ![s] = n]
    /\ UNCHANGED <<secret, subActive, outboxVars, acked,
                   producerVars, workerVars>>

\* The secret ref is disabled, or usable again.
FlipSecret(s) ==
    /\ s \in Managed /\ Operate
    /\ secret' = [secret EXCEPT ![s] = ~@]
    /\ UNCHANGED <<sinkActive, sinkMax, subActive, outboxVars, acked,
                   producerVars, workerVars>>

\* update_notification_subscription_status
UpdateSubscription(b) ==
    /\ b \in Managed /\ Operate
    /\ subActive' = [subActive EXCEPT ![b] = ~@]
    /\ UNCHANGED <<sinkActive, sinkMax, secret, outboxVars, acked,
                   producerVars, workerVars>>

-----------------------------------------------------------------------------

WorkerStep ==
    \/ StartPass \/ PassDone
    \/ \E k \in Keys : DeliverLocally(k) \/ DeliveryError(k) \/ Post(k) \/ RecordPost(k)

ProducerStep(x) == Raised(x) \/ \E b \in Subs : AppendEvent(x, b)

AdminStep ==
    \/ \E k \in Keys : Replay(k)
    \/ \E s \in Sinks : UpdateSink(s) \/ FlipSecret(s)
    \/ \E b \in Subs : UpdateSubscription(b)

Next ==
    \/ \E x \in Sources : Raise(x) \/ ProducerStep(x)
    \/ WorkerStep
    \/ \E k \in Keys : RetryDue(k)
    \/ AdminStep

Spec == Init /\ [][Next]_vars

\* The scheduler loop never stops, a webhook call has a timeout, a producer
\* does not block, and retry delays elapse.
Fairness ==
    /\ WF_vars(WorkerStep)
    /\ \A x \in Sources : WF_vars(ProducerStep(x))
    /\ \A k \in Keys : WF_vars(RetryDue(k))

FairSpec == Spec /\ Fairness

-----------------------------------------------------------------------------
(* Properties                                                              *)

TypeOK ==
    /\ sinkActive \in [Sinks -> BOOLEAN] /\ sinkMax \in [Sinks -> MaxAttempts]
    /\ secret \in [Sinks -> BOOLEAN] /\ subActive \in [Subs -> BOOLEAN]
    /\ status \in [Keys -> Statuses] /\ attempts \in [Keys -> Nat]
    /\ due \in [Keys -> BOOLEAN] /\ rank \in [Keys -> Nat]
    /\ acked \in [Keys -> BOOLEAN]
    /\ ops \in 0..AdminLimit
    /\ ppc \in [Sources -> {"idle", "append", "done"}]
    /\ ptodo \in [Sources -> SUBSET Subs]
    /\ prank \in [Sources -> Nat] /\ raised \in Nat
    /\ wpc \in {"idle", "deliver", "record"} /\ batch \subseteq Keys
    /\ calling \subseteq batch /\ (wpc # "record" => calling = {})
    /\ seen \in [Keys -> Nat] /\ wmax \in MaxAttempts /\ wresult \in Results

\* The copy the worker delivers from is never out of date: until the worker
\* records its attempt, nobody else settles, replays or re-attempts an event
\* of its batch, so the attempt count it decides with is the stored one
\* (deliver_due_notifications_with_transport).
BatchIsCurrent ==
    \A k \in batch : status[k] \in Live /\ attempts[k] = seen[k]

\* No event is attempted more often than the largest retry budget before it is
\* settled, also when administrators change the budget between attempts and
\* while the worker waits (notification_delivery_status_from_result).
AttemptsBounded ==
    \A k \in Keys, n \in MaxAttempts :
        (\A m \in MaxAttempts : m <= n) =>
            attempts[k] <= n /\ (status[k] \in Live => attempts[k] < n)

\* An event is marked delivered only after its receiver has acknowledged it.
DeliveredWasAcknowledged ==
    \A k \in Keys :
        status[k] = "delivered" /\ SinkKind[SinkOf(k)] = "webhook" =>
            acked[k]

\* What a step does to an event that is delivered or has failed for good.
SettledKept ==
    \A k \in Keys : status[k] \in {"delivered", "permanent_failed"} =>
        status'[k] = status[k] /\ attempts'[k] = attempts[k] /\ k \notin calling'

\* What is delivered, or has failed for good, is never touched or called again,
\* whoever raises, replays or delivers (append_notification_outbox_event,
\* replay_dead_lettered_notification_outbox_event).
SettledIsFinal == [][SettledKept]_vars

\* Delivery is at least once: an event does not stay undelivered for ever
\* while its sink can be called; it is delivered, refused or dead-lettered.
EventsSettle ==
    \A k \in Keys :
        []<>(status[k] \notin Live \/ ~secret[SinkOf(k)])

=============================================================================
