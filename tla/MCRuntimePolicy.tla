-------------------------- MODULE MCRuntimePolicy --------------------------
(***************************************************************************)
(* Small instances of RuntimePolicy. Each family of definitions below is   *)
(* one table of policies; a cfg picks a table by assigning the constants.  *)
(***************************************************************************)
EXTENDS RuntimePolicy, TLC

CONSTANTS r1, r2, r3

TwoRequests   == {r1, r2}
ThreeRequests == {r1, r2, r3}

OwnId     == [r \in Requests |-> r]
OneToken  == [r \in Requests |-> 1]
NoneSet    == {}
NoPolicies == <<>>
AllTime   == [t \in Times |-> 0]
EachTick  == [t \in Times |-> t]

\* Two request budgets: the tenant's, and one whose period ends with each tick
\* and whose limit is the lower, so that it refuses a request that already
\* holds a lease of the first.
BudgetKinds      == <<"requests", "requests">>
BudgetLimits     == <<2, 1>>
BudgetMatches    == <<Requests, Requests>>
BudgetPeriods    == <<AllTime, EachTick>>
BudgetThresholds == <<{2}, {}>>
BudgetEnforced   == {1, 2}
BudgetTurns      == {r2}

\* Quota policies of every kind; r1 streams and r2, without a catalog, does not.
\* When the hot state is lost, each of the three loss behaviours occurs.
QuotaStreaming == {r1}
QuotaRouted    == {r1}
QuotaKindTable == <<"concurrent_request", "request_rate", "token_actual_rate",
                    "stream_duration", "concurrent_stream", "request_body_bytes">>
QuotaLimits    == <<1, 1, 1, 1, 1, 1>>
QuotaBursts    == <<1, 1, 0, 0, 0, 0>>
QuotaLosses    == <<"fail_limited", "fail_limited", "fail_open", "fail_open",
                    "fail_closed", "fail_open">>
QuotaMatches   == <<Requests, Requests, Requests, {r1}, {r1}, {r2}>>
QuotaSlots     == <<AllTime, EachTick, AllTime, AllTime, AllTime, AllTime>>

\* The budgets of the quota instance: one that leases, and a token budget that
\* an operator may force-block.
SideKinds      == <<"requests", "usage">>
SideLimits     == <<2, 1>>
SideMatches    == <<{r1}, {r2}>>
SidePeriods    == <<AllTime, AllTime>>
SideThresholds == <<{}, {}>>
SideEnforced   == {1, 2}
SideForceable  == {2}

\* One policy at a time, for the runs that exhibit a disagreement.
OneRequestBudget == <<"requests">>
OneLimit         == <<1>>
TwoLimit         == <<2>>
OneMatch         == <<Requests>>
OnePeriod        == <<AllTime>>
OneThreshold     == <<{1}>>
NoThreshold      == <<{}>>
FirstPolicy      == {1}
OneConcurrency   == <<"concurrent_request">>
OneBurst         == <<0>>
OneLoss          == <<"fail_closed">>

=============================================================================
