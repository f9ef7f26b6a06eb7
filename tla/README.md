# A TLA+ model of starweaver-platform

The repository holds two Rust services. The **gateway** (`crates/starweaver-gateway`)
proxies model requests to providers under budgets, quotas, routing and
administration. The **platform** (`crates/starweaver-platform`) is the identity and
membership service beside it. This directory models both in TLA+: every handler that
changes state, the background workers and the repositories behind them. TLC checks
small instances; TLAPS proves the invariants of budgets, quotas, the notification outbox,
the admin API, the gateway's identity side, its data plane and the platform service for every
value of the constants.

Paths below are relative to the repository; `service.rs` and `storage.rs` are the
gateway's. `PROJECT.json` maps the definitions to the lines they translate; a definition
whose code lies inside the lines of the definition that uses it has no entry of its own.

## 1. The system

| Part | State it keeps | Operations | What must hold |
| --- | --- | --- | --- |
| Budget preflight and leases (`service.rs` 15727–15968, `storage.rs` 3042–3170) | in-flight counter per policy and period, lease records | check the ledger, increment, compare, roll back, record a lease, release, expire | counter = open reservations; never above the hard limit; nothing is kept for ever |
| Quotas (`service.rs` 16057–16404) | counters per policy and window, local loss allowance | read-only limit pass, reserve pass, hot-state loss, release | concurrency and rate within their limits; a slot goes back where it was taken |
| Request lifecycle (`service.rs` 13928–14012, 14752–15410) | reservations held by the handler's future | preflight, provider call, evidence, usage, finalize, release; dropped by the timeout at any `await` | an answered request holds nothing |
| Usage and ledger (`storage.rs` 2991–3007) | usage events, folded buckets | record once per request id, fold | thresholds are noticed; the hard cap holds |
| Reconciler (`service.rs` 16417–16518) | none of its own | expire leases, decrement, repair counters from usage events | never expires a running request; always gets to an abandoned lease |
| Notification outbox (`storage.rs` 3454–3642, `service.rs` 17501–17962) | events with status, attempts, next attempt | append once per dedupe key, take a batch, deliver, record, replay | bounded retries; delivered means acknowledged; every event settles |
| Sinks and subscriptions (`storage.rs` 5990–6124) | status, endpoint, secret, version | update | no lost updates |
| Redis hot state (`redis_hot_state.rs`, `hot_state.rs`) | the same counters and leases, shared; drain, health and sticky records, each for one config version | the same, as separate commands; a failed read is "not there", a failed write is lost | as above, across processes; a route respects the drain of its version |
| Config publication (`config.rs`, `storage.rs` 2790–2900) | snapshots, pointer per tenant, invalidations, worker reloads | publish, roll back, reload | versions increase; a request is never planned under a snapshot that was superseded before it began |
| Admin resources (`service.rs` 6610–11878, 18322–18450) | some twenty resource kinds with versions; idempotency records | create, update, validate, freeze | one mutation per key; no lost update; a freeze lets through only what was past its check |
| Emergency operations (`service.rs` 4556–5126) | operation records with an expiry | disable, drain, freeze, roll back, force a budget block | in force until the expiry, and no longer |
| Login, sessions, invitations, API keys, tenancy (`service.rs` 12078–13023, 23243–23990) | attempts, sessions, identities, memberships | start, callback, accept, revoke, suspend | an attempt or an invitation is used once; what is suspended has no access |
| Routing, authorization, pricing (`catalog.rs`, `routing.rs`, `policy.rs`) | configuration only | bind an alias, collect candidates, choose, authorize, price | the choice is legal under one published snapshot: statuses, grants, drain, stickiness |
| WebSocket sessions (`service.rs` 14014–14445) | one upstream per session, one turn at a time | turn, proxy, finish | each turn is admitted, finalized and charged |
| Exporter, export jobs, Codex OAuth, secret refs | schedules, jobs, sessions, secrets | run when due, write a manifest, start, revoke, rotate | retry without loss; a revoked secret is not used |
| Dashboards and evidence (`service.rs` 4041–4341, 5523–6543) | none; they read decisions, attempts, usage events and buckets | list, summarise, break down | the roll-ups agree with the events; nothing of another tenant is shown |
| Platform service | identities, sessions, users, memberships, roles, invitations, secrets, audit | as above, in memory or in Postgres | as above |

Requests run as tokio tasks and interleave at every `await`, and between any two
locks of the store even without one. One background loop per process
(`background_worker_scheduler_loop`) runs, for each tenant in turn, the delivery
worker, the exporter and the reconciler. A middleware drops a request's future when
it exceeds its timeout, wherever it is suspended. These three facts produce most of
the hazards listed in `PROJECT.json`.

## 2. Modules

```
RuntimePolicy ┬ MCRuntimePolicy                              budgets, quotas, reconciler
              └ RuntimePolicyProofs
NotificationOutbox ─ MCNotificationOutbox, NotificationOutboxProofs
AdminState ┬ AdminProviders ─ AdminPolicies ─ AdminOperations ┐
           ├ AdminRouting ────────────────────────────────────┴ AdminApi ┬ MCAdmin
           │                         AdminReferenceProofs ─ AdminStoreProofs ─ AdminProofs ┘
           ├ AdminDirectory ─ GatewayLogin ─ GatewayIdentity ─ MCIdentity, GatewayIdentityProofs
           └ AdminOperations, GatewayCatalog ─ ConfigPublication ─ DataPlane
                            ─ GatewayEvidence ─ GatewayRuntime ─ MCDataPlane, GatewayRuntimeProofs
PlatformStore ─ PlatformAdmin ─ PlatformTenancy ─ PlatformLogin ─ PlatformIdentity ┬ MCPlatform
                                                                                  └ PlatformProofs
LoginSessions (abstract; implemented by PlatformIdentity)
```

`RuntimePolicy` — budgets, quotas, the request lifecycle, the ledger and the
reconciler, with the in-process repository. Each request is a process whose `pc`
names the `await` it is suspended at. The requests in `Turns` are turns of a Responses
WebSocket: they have no timeout, are not dropped, and leave by `?` also when the evidence of a
failed attempt cannot be written.

| State | Code |
| --- | --- |
| `now`, `hotAvailable`, `forced` | the clock, `runtime_policy_hot_state_available`, active `force_budget_block` operations |
| `budgetCounter`, `lease`, `quotaCounter`, `lossCounter` | the counters, budget leases and loss-allowance counters of `RuntimePolicyRepository` |
| `attempt`, `events`, `ledger`, `durable`, `notified` | route attempts, usage events, ledger buckets, the usage per quota window that the events add up to, thresholds for which an event was enqueued |
| `pc`, `outcome`, `startedAt`, `endedAt`, `snap`, `todo`, `held`, `qAvail`, `qtodo`, `qheld` | locals of `model_ingress` and of the functions it calls, per request |
| `rpc`, `rnow`, `expiring`, `rdurable`, `rtodo`, `rread` | locals of `run_runtime_policy_reconciler_once` |

An action is the code between two suspensions: `ReserveBudget` increments and decides,
`RollbackBudget` and `RecordLease` are the two ways on. Steps are merged where no other
process can tell: the forced-block check, the read of the ledger and the reading of the
clock; the availability test and the increment behind it; pushing a usage event and
folding it. `Cancel` drops a request at any of its suspensions. Data is reduced to
what the policies tell apart: a policy is an index into tables of kind, limit, matching
requests and periods; a provider's answer is its token count; token and cost budgets
are one kind, `usage`, because both compare a ledger sum and reserve nothing. Counter
keys keep their period, so a counter of an earlier period is a different counter.

`NotificationOutbox` — producers, the delivery worker and administrators. An event
is its dedupe key (cause and subscription). The worker holds the copies
`due_notification_outbox_events` returned (`batch`, `seen`) and is suspended during a
webhook call (`calling`). A retry delay is the step `RetryDue`. `acked` records what
the receiver answered and is not part of the program. A sink is a webhook, a local or a
disabled one; "the secret can be read" stands for everything that can make
`webhook_delivery_plan` fail before the call. Events are never removed from the outbox,
in the code as in the model.

`AdminState` — the gateway's store as all admin handlers see it. `db[k]` is the
sequence of the rows of kind `k`; a row has its tenant, status, `resource_version` and
the fields `f` the code looks at. A handler is one step for its reads up to the first
write (`authorize_admin_route`, the freeze, the idempotency lookup, validation), one for
each lock it then writes under, and one for the audit event with the idempotency record.
Requests in flight (`op`) interleave between these steps, and a handler that awaits may be
dropped there.

- `AdminProviders`: secret refs and their values, provider endpoints, upstream
  credentials, Codex OAuth connections and sessions, pricing SKUs, model targets, imports.
- `AdminRouting`: routing groups and targets, aliases, route policies, provider grants.
- `AdminPolicies`: budget and quota policies, OTel configurations, notification sinks and
  subscriptions, login providers. Validation exists twice in the code, in the handler and
  in the store; both are translated (`XValidation`, `ValidateXRequest`).
- `AdminOperations`: export jobs, emergency operations, maintenance windows.
- `AdminApi`: all of them over one store, and what they promise together.

`AdminDirectory`, `GatewayLogin`, `GatewayIdentity` — organizations, projects, users,
sessions, identities, memberships, service accounts, API keys and invitations; external and
single-user login; verification of sessions and keys with the failed-attempt throttle. With
Postgres a session is kept twice, `status` in memory and `f.durable` in Postgres, and the
admin handlers change only the copy in memory, as the code does.

`GatewayCatalog`, `ConfigPublication`, `DataPlane`, `GatewayEvidence`, `GatewayRuntime` —
what a published snapshot means (`catalog.rs`: decoding, validation, alias binding,
candidates, grants); how it becomes current (the four locks of `insert_config_snapshot`,
rollback, emergency rollback, invalidation, worker reload, hot state); a model request
(plan, sticky and drain reads, decision, authorization, preflight, provider call and
failover, attempt, usage event, ledger) and the Responses WebSocket with its turns; the
dashboards, evidence routes, readiness and the OTel exporter; and the composition.
A weighted choice is any candidate of positive weight, and the health of a provider's
answer is nondeterministic. Cedar's evaluation and the provider are external: they may
allow or refuse, answer, fail or never return.

`PlatformStore`, `PlatformAdmin`, `PlatformTenancy`, `PlatformLogin`, `PlatformIdentity` —
the platform service. Every repository operation is given for the in-memory store, for the
SQL statement, and as the choice between them, so that the properties are checked of both.
Authorization is the static grants, the role bindings and the actions that require a user.
`Restart` drops every handler and keeps the database, the request timeout drops one where it
waits. `LoginSessions` is the abstract specification of logging in: one session per attempt,
consumed by the very step that makes the session, ended sessions never come back.
`PlatformIdentity!LoginSpec` instantiates it with a refinement mapping under which an attempt
that memory has consumed while its session is still to be written counts as open. A login waits
at its session when the table of sessions is full: that is the bound of the model, not the code's.

The MC modules hold the seeded rows, the request bodies and the scenarios; the modules named
`...Proofs` hold the proofs, and only those. The store models write `f ++ g` for the record
`f` with the fields of `g` added: it is TLC's `@@`, defined in `AdminState` so that the provers
see what it means. Operators whose comment begins with "Mutant" or "Mistake" are
plausible mistakes in the definition that follows them, kept to show that the properties
notice; they are not part of the specification. Variables and fields named as history
(`history`, `f.earlier`, `late`, `acked`, `alone`) serve the properties only.

## 3. Runs

| Run | Instance | Shows |
| --- | --- | --- |
| `budget` | a request and a WebSocket turn, two request budgets (limits 2 and 1, the second with a new period at every tick), reconciler, clock | counters are exact and within the hard limit; running HTTP requests keep their leases; every reservation is eventually reclaimed |
| `quota` | a request and a turn longer than a lease, six quotas (one of each kind) with all three loss behaviours, a lease budget and a forced token budget | concurrency counters exact; concurrency, rate and loss allowance within their limits; who is answered keeps neither a slot nor a lease |
| `outbox` | two producers of one event, two webhook subscriptions, retry budget 1 or 2, two administrative operations | the worker's copy stays current; attempts bounded; delivered means acknowledged; settled is final; every event settles while its secret can be read |
| `admin` | two admins of tenant 1, rows of a second tenant, 25 scenarios, acceptable requests and ones that each rule refuses | references stay within a tenant and consistent; a dry run promises what the store keeps; one audited update per version; one mutation per idempotency key; fewer changes slip past a freeze than requests may be in flight; Codex credentials stay with their connection; answers stay in the tenant |
| `identity` | two requests, two users sharing an email, two organizations, 14 scenarios, memory and Postgres | one session per login attempt; a disabled user's earlier sessions end (without Postgres); a revoked session stays revoked; an invitation admits the one it is addressed to; the throttle is bounded |
| `platform` | two clients, two tenants, two subjects (one new), 11 scenarios, each in memory and in Postgres, with dropped handlers and a restart | shutting out a user or a member takes sessions, projects and roles along; an invitation admits once; answers stay in the tenant; logging in implements `LoginSessions` |
| `data_plane` | two requests of tenant 1, evidence of tenant 2, six payloads that close, move or break the route, 18 scenarios, memory, Redis and Postgres, whose reads return two rows at most | publications go forward; every request is routed as one snapshot says; the ledger agrees with the events in every scope and dimension, and past the read limit shows no more than happened; answers and exports stay in the tenant |
| `hard_cap`, `threshold`, `slot_leak`, `outbox_starved`, `turn_usage` | as small as exhibits the behaviour | a disagreement between a document and the code, see section 6 |

The properties say what is excused. `AuditTrailComplete` covers the kinds whose update is
checked and written under one lock; sinks and exporter configurations are checked under one
and written under another, and the model has the update they may lose. `OncePerKey` is about
requests that did not overlap another with the same key; overlapping ones both mutate.
`FreezeBounded` counts what it cannot exclude: `reject_frozen_config_mutation` reads once, at the
start of a handler, so a change that was past it when the freeze was stored is made and audited
while the freeze is in force. The instance has one such change, and the property fails with a bound
of none. `EarlierSessionsRevoked` is about a gateway without Postgres, since `update_user` leaves
the sessions in Postgres alone, and it and `ShutOutHolds` excuse what is written after the user was
shut out (`late`). `AnsweredHoldsNothing` is about requests that completed or whose provider failed:
a preflight, a success or a turn that leaves by `?` keeps what it has. `ActiveLeaseNotExpired` is
about HTTP requests; a turn does lose its lease, and `BudgetCounterExact` then says that its late
release does not decrement again. `RollupsAgree` excuses the events between the two locks of
`record_usage_event`, and compares for equality as long as Postgres returns all rows of the tenant;
beyond that a sum may be too small, since the limit is one for buckets of all five kinds together,
and the points after the earliest bucket read are still exact. A cascade that a timeout or a restart
cut off stays half done, and `ShutOutHolds` excuses the rows it names in `history.partial`.
`ShutOutHolds` also excuses handlers that never look whether a principal is shut out of the
organization of the row they write: a login, the single user's bootstrap, and an invitation, whose
project nothing ties to its organization. Such an invitation re-activates a project membership of
another organization (`UPSERT_INVITED_PROJECT_MEMBER_SQL` keeps the row's `organization_id`) and
leaves the suspended or removed membership there as it is; one of the seeded invitations is such.
`PublicationOrder` excuses overlapping publications, which may get one version.
`RoutedAsPublished` excuses a drain that could not be read, and judges a later WebSocket turn
by the snapshot its route was pinned under.

Bounds. Two requests suffice for the races of a counter at its limit: with limit 1 each
can be the one that overshoots, rolls back, is cancelled or expires while the other is
anywhere. Two policies per request give the partial preflight: one reservation held,
the next one refused. Time ends at `MaxTime`, after the last arrival, timeout and
lease expiry. `AdminLimit` bounds administrative operations to two: pause and resume,
pause and replay, lower the retry budget and replay. `DefaultMax` 2 is the least budget
with a retry. In the store models two requests in flight give every race between two
handlers, and a scenario names the routes that work on the same rows: `mutations`
(`admin`, `identity`, `data_plane`) or `requests` (`platform`) bounds how many are made, two
or three being an operation, its rival and its repetition; `horizon` bounds the clock at the
last expiry that matters; `logins`, `failures` and `turns` bound logins, failed keys and
WebSocket turns. `UsageScanLimit` 2, for the code's 100000, keeps
some of an event's buckets and cuts off others. `MaxVersion` 2 is the least with a stale expectation, `MaxSnapshots` bounds
the store, `MaxDiagnostics` what dry runs leave behind. A behaviour picks one scenario
at the start and keeps it. The requests in flight are interchangeable, hence the symmetry;
the configurations with liveness use none.
Deadlock checking is off where the system may be quiet: for the outbox when nothing is due,
and for the store models when a scenario's requests are used up.

Fairness. The scheduler loop never ends, so the reconciler and the worker are weakly
fair; a webhook call has a timeout; a request's future is polled until it ends or is
dropped, so its steps are weakly fair; time and retry delays pass. Nothing is assumed of
callers, administrators or the hot state, nor that a provider ever ends a turn. In `budget`, `Tick` does not pass the
deadline of a running request: that is `request_timeout_middleware`, whose limit of at
most 300 s starts before the preflight and does not exceed the lease's 300 s
(`RequestTimeout < LeaseTTL` in the cfg and in the theorem; a timeout equal to the
TTL meets its deadline on the tick of the expiry, which the model does not separate).
WebSocket turns have no such limit: in both runs the clock passes a turn, which may outlive its lease.
The store models promise safety only: a handler may be dropped, and no worker completes it.

## 4. Proofs

All for any set of requests, policies, limits, periods, sources, subscriptions, sinks,
administrators, seeded rows, request bodies and scenarios. The named assumptions give the
constants their types and, as `SeedAssumption`, say what the seeded rows look like: in `AdminApi`
rows of version 1 with a tenant, emergency operations already applied, and (`ReferenceAssumption`)
references that lead to seeded rows; in `PlatformIdentity`
rows in a status of their kind, each invitation with its own token, no session of an attempt, and
(`ShutOutAssumption`) nobody who is shut out and has kept something; in
`GatewayIdentity` rows of version 1 in a status of their kind, sessions, identities and memberships
of users of their tenant, and no login attempt, admission or failed key yet; in `GatewayRuntime`
(`RuntimeAssumption`) rows of version 1, one pointer for a tenant that has snapshots, which like its
invalidations and its latest snapshot leads to a snapshot of the tenant and version, and finitely
many kinds of ledger bucket.
TLC evaluates each of them in the runs. The shape of a case split over some hundred actions is
the same everywhere: an action is first shown to have one of a few *shapes*, which say what it
may change, and the invariants are proved of the shapes.

*RuntimePolicyProofs.* `TypeCorrect`: every reachable state is well typed.
`BudgetCounterCorrect`: the in-flight counter equals the number of open reservations
(so the floor at zero of `adjust_runtime_policy_counter` never hides a decrement too
many). The equation alone is not inductive: `BudgetInv` adds `LeaseInv`, which says, for
each request and policy, what the request's `pc` and the reconciler's work list imply of
the lease's status, so that the releasing request and the reconciler never both
decrement. The lemmas `CounterUp` and `CounterDown` change the
cardinality of the set of holders by one with the counter; `HoldersFrame` and
`OthersFrame` carry the rest. `HardLimitHolds` follows: a snapshot, however stale, is
not negative, so a reservation that passed its comparison found the counter, which is
exact, at or below the limit, and nothing but another such comparison can raise it.
`RunningLeaseKept` assumes `RequestTimeout < LeaseTTL` and is proved from `LiveLeaseInv`,
which adds that the clock has not passed the deadline of an HTTP request in flight.

The second half of the module is about quotas. `QuotaInv` adds to the type invariant what a request's `pc` says of its
lists (`QuotaLocalInv`) and four counting facts. A concurrency counter *equals* the slots taken,
those about to be given back after a refusal included, which is `ConcurrencyCounterCorrect`. A
rate counter and a loss counter are only *at least* the requests that passed them: a refused
request has counted as well and is not uncounted, so equality would be false. The limits follow
as for budgets, an increment being compared by the same step that makes it. A step that moves no
counter and lets nobody pass is `Quiet` (36 of the actions, one lemma); the others take or give
back one unit. `AnsweredRequestHoldsNothing` needs nothing of the counters, only that the release
loop ends with empty lists.

*NotificationOutboxProofs.* `OutboxInv` joins the type invariant, `BatchIsCurrent`, the
bound, the acknowledgement and what the worker knows while a call is pending.
`BatchIsCurrent` carries the others: producers add only new keys and administrators
replay only dead letters, so neither touches an event of the batch; the count the worker
decides with is therefore the stored one (`RetriesBounded`), and what it overwrites was
live (`SettledStays`).

*AdminProofs.* `AdminSteps` shows that every step of the admin API reads (`Looks`), takes up a
request (`Asks`, `Enters`), moves one (`Moves`) or finishes it. `KeyInv` is what `OncePerKeyHolds`
needs beyond itself: a request that believes it is alone has no rival with its key in flight
(`RivalsKnow`), and every audited mutation of a key is still in the idempotency records until it
expires or a rival overlapped it (`Remembered`), so that a later request would have been answered
from the record. `DryRunAgreesWithStore` compares, kind by kind, the validation in the handler
with the one in the store, rule by rule; of the state it needs only that the clock is a number.

*AdminStoreProofs.* `StoreInv` says what the tables look like (`DbOK`) and what a request in flight
is *ready* to do: which row or which id its next step will use, and that it lies in the admin's
tenant. A first step `Begins` ready; a later one is a `MoveOK`, whose store steps only add rows,
keep tenants and, but for six kinds, keep fields (`Grows`). From there:
`FreezeIsRespected` by counting (`FreezeInv`): the changes that slipped past a freeze and the
requests in flight that still may (`MaySlip`) are together fewer than the tenant's admins. When the
freeze is audited its own handler is none of them (`FreezeFinished`); later a request in flight
becomes an audited change one for one, and a new request that the freeze forbids comes in only after
its expiry, because an operation stays in the table and keeps its expiry (`OperationsStay`);
`AnswersKeepTenant`, because an idempotency record names a row of its own tenant (`AnswerInv`);
`AuditTrailHolds`, from six facts (`AuditInv`) which say that events and the events still owed
describe versions that were replaced, that no two describe the same one, and that none is missing.
A compare-and-set that succeeds adds one owed event (`ReplaceTrail`), `Finish` turns an owed event
into a recorded one (`FinishTrail`), all else is `QuietTrail`; the two cardinalities of the property
then add up to one. `AdminTypes` also needs `CountInv`, the bound on mutations.

*AdminReferenceProofs.* A handler validates references in its first step and writes under another
lock later, where nothing is checked again. `RefInv` therefore joins to `ReferencesConsistent` and
`CodexCredentialConsistent` what each request in flight has validated (`RefReady`): the row it will
insert or the patch it will write refers to rows that are there, and a session being started has
stored the credential, and then the session, that its connection will be given. No step spoils this,
because rows stay, keep their tenant and, where references rely on a field, keep that field
(`RefGrows`: an alias keeps its family and a connection its endpoint, though their rows change).
Each step adds or rewrites only rows whose references were there before it (`RowsRefer`) and gives
a connection nothing but a credential of one of its own sessions (`CredentialsHeld`).
`ReferenceAssumption` also says that a request for a sink or an exporter has a scope, which may be
empty, and that the update of a sink cannot name one.

*GatewayIdentityProofs.* Every action of a request is a `StepOf` it: rows are only added or
rewritten, with their tenant, owner, attempt and addressee kept (`Grows`), the request is left
`Ready` for its next step, and what the step is to each of the five promises is one of a few cases.
None of the promises is inductive. `IdentityOneLogin` needs `LoginInv`: two requests never hold the
same attempt, and none holds one that a session already has, because taking it needs the attempt
pending and consumes it under one lock. `IdentityOneInvited` needs `InviteInv`, which counts the
users that a request has accepted for and not yet written down, and that an accepted invitation
stays accepted. `IdentitySignedOut` needs `SignInv`: a session in memory is exposed only while a request that
shuts its user out is still to revoke it; `StoreInv` supports it, since a session on its way through
Postgres into memory is stored by one request only and as `late` if its user is shut out by then.
`IdentityThrottled` needs `ThrottleInv`: the fresh failures and the requests past the check together
stay below the limit and one per request, so each record that follows is already counted.
`IdentityStaysRevoked` is read off `Grows`. `LoginAssumption` says the throttle allows one attempt.

*PlatformProofs.* Every action of a client is a `StepOf` it: rows are only added or rewritten
well formed, the handler is left `Ready` for its next write, and what the step is to logins
(`LoginStep`) and to invitations (`InviteStep`) is one of a few cases; most actions are `Plain`
to both. `PlatformTypes` needs `Ready`, because the memory repository writes back a user it read
some steps ago. `InvitationsAdmitOnce` needs `InviteInv`: tokens are distinct also among the
invitations that a handler is about to insert, which in memory may land on an id in use.
`LoginRefines` needs `LoginInv`: an attempt is held by one handler at most, either consumed in
memory with the session still to come or locked by a transaction of Postgres. Every `LoginStep`
is then a step of `LoginSessions` or a stutter, a `Plain` one the end of some sessions.
`OneSessionPerAttempt` reads the promise back off the table of sessions.

`ShutOutStays` needs `ShutInv`: of a user or member who is shut out nothing active is left that is
not late, or the row is in `history.partial`, or some handler is at the step that takes it away
*and holds the tenant, organization and principal that the row has now* — `HalfMade` alone says
only that a handler is there, and in memory an id may be written over with somebody else's row
while a cascade is under way. `ShutStep` is what every action of a client keeps of it: what the
shut out have and is not late was theirs before, and they were shut out before or the client owes
the consequences after the step. Most actions are `Quiet`; the others are shown one by one, the
cascades to discharge what they owe and the writers of sessions, projects and roles to write late
what they write for the shut out. A dropped handler and a restart move what is owed into
`history.partial` (`CutKept`). The proof is how the invitation across organizations, above, was
found: without it among the late writes `ShutInv` is not kept, and TLC shows the same once the
instance has such an invitation.

*GatewayRuntimeProofs.* `Inv` is stated over tables and requests given as values, so that its
lemmas can speak of a table before and after a step. `PublicationGoesForward` is not inductive: a
publisher reads the latest version, pushes its snapshot, sets the pointer, pushes the invalidation
and sets the latest snapshot under separate locks, and another may do the same in between. Three
facts of `PublicationOK` carry it. `Unsettled`: nobody counts as done a snapshot that a handler
still has in its hands. `LeadOK` and `OnePointer`: a tenant's one pointer, its invalidations and
its latest snapshot lead to snapshots of the tenant and version. `Ahead`: once the pointer was set
to a snapshot, or past it, it does not go back to one that was done before that snapshot began. So
a publisher that finds others done takes a version above theirs, and a request planned from the
pointer is planned under nothing that was replaced before (`DecisionsOK`, `Planned`). `Ready` says
of each request in flight what its next step will use: the snapshot to push, its id, the plan of a
model request or of the pinned turn of a WebSocket, the configs the exporter has read. `AnswersHold`
needs of these that a finishing handler names a row of its tenant, and of the idempotency records
(`RecordsOK`) that a replay does too; the reads are shown one by one to show rows that are `Owned`.
Most steps of a model request are `Benign`: they add or rewrite evidence, which nothing above
relies on. `TypesHold` is read off `Inv`.

Only model-checked:

- `RoutedAsPublished`: the code chooses among candidates it has *sorted*, and that a finite set has
  a sorted sequence of its elements is an induction over the set.
- `RollupsAgree`: the sums of a dashboard are folds over the buckets, and what a fold computes is
  an induction over the data.
- `BudgetReservationsReclaimed` and `EventsSettle`: liveness under fairness, which is out of the
  prover's reach.

## 5. What is not modelled

- The lease and counter commands of Redis (`redis_hot_state.rs` from 340): leases are read and
  written in separate commands there. `RuntimePolicy` models the in-process repository, which
  is one lock per operation. The two hazards this leaves open are listed without a property.
- Cedar's evaluation (`policy.rs`) and the providers' protocols: external, nondeterministic.
- Request translation, streaming frames, replay fixtures (`runtime.rs`, `replay.rs`,
  `responses_websocket.rs`): data that no property tells apart.
- Cost arithmetic: a usage event is one unit. Buckets and budgets add units.
- The HTTP route table, record types, OpenAPI and migrations: static data. SQL text and row
  conversion: each statement is its guard and its effect.
- Paging, sorting and percentiles of the dashboards; queries can only narrow an answer. So do the
  limits of 10000 route decisions and attempts and of 1000 snapshots read from Postgres, which are
  left out; the one on usage rows is modelled, with creation order for the order of the ids.
- `xtask`: build tooling.
- In `RuntimePolicy`: the enqueueing of notifications for blocked requests as part of the
  request (the outbox takes any producer), and usage quotas without a window. A preflight and
  its attempt read the clock separately in the code and in one tick there.
- `DataPlane` takes the outcome of the budget and quota preflight as a choice: it is what
  `RuntimePolicy` models, and nothing else of the data plane depends on how it is reached.
- Reads that a handler makes before its first write are one step in the store models, and so
  are the reads of a dashboard: that a sum may be taken from two moments is not covered.

## 6. Disagreements between documents and code

- `hard_cap`: a preflight that read the ledger before another request's usage was
  folded, and reserves after that request released, sees neither: the ledger ends above
  the hard limit (`spec/gateway/memos/2026-06-24-implementation-plan.md:365`).
- `threshold`: when two events are folded before either is finalized, each
  finalization takes the other's event for an earlier one and nobody notifies
  (`spec/gateway/09-validation-and-rollout.md:316`).
- `slot_leak`: a concurrency slot has no lease: a dropped request keeps it for ever
  (`spec/gateway/06-usage-cost-budget-notifications.md:396`).
- `outbox_starved`: events that fail before the call are retried first in every pass;
  a batch full of them starves the others
  (`spec/gateway/06-usage-cost-budget-notifications.md:540`). `outbox` shows the
  same property with a batch that is large enough. The instance has batches of one
  event; the default limit is 100.
- `turn_usage`: the turns of a WebSocket share the request id of its upgrade, and
  `record_usage_event` drops an event whose request id it has seen: every turn after the
  first is completed and not charged (`spec/gateway/05-runtime-protocol.md:112`, "It records
  terminal usage from `response.completed.response.usage` when present").

Four more were met while modelling. The model has the behaviour and the property concerned
excuses it, as section 3 says.

- Disabling a user: with Postgres a session is authenticated from its durable row, which
  `update_user` never revokes, and the single-user login makes a session whatever the user's
  status. `spec/gateway/09-validation-and-rollout.md:361` says "active sessions revoked and new
  sessions rejected", `spec/gateway/11-login-user-management.md:532` "disabled user cannot create a
  new session" (`EarlierSessionsRevoked`, without Postgres).
- Overlapping publications: two publishers that read the same latest version both publish the
  next one, and the pointer may end at either, while `spec/gateway/07-admin-config-api.md:254`,
  `00:335`, `08:523` and `09:587` speak of monotonic versions (`PublicationOrder`, for publications
  that do not overlap).
- Overlapping requests with one idempotency key both mutate (`OncePerKey`, for those that do not
  overlap).
- A notification whose sink is paused when it becomes due fails for good, where
  `spec/gateway/09-validation-and-rollout.md:412` has it remain pending or paused (`SettledIsFinal`
  keeps it failed).

## 7. Plan

A model of the Redis repository as separate commands, with the in-process one as its
abstract specification, would close the two open hazards of `redis_hot_state.rs`. What is
only model-checked (section 4) needs induction over data.
