----------------------------- MODULE LoginSessions ----------------------------
(***************************************************************************)
(* What logging in promises: an attempt that was started leads to one      *)
(* session at most, and is used up by the very step that makes the         *)
(* session; a session that has ended never comes back.                     *)
(***************************************************************************)
EXTENDS Naturals

CONSTANTS Attempts, Sessions

VARIABLES
    attempt,   \* per attempt: "none", "open" or "used"
    session,   \* per session: "none", "live" or "ended"
    origin     \* per session: the attempt it is of, 0 for a password

vars == <<attempt, session, origin>>

Init ==
    /\ attempt \in [Attempts -> {"none", "open"}]
    /\ session \in [Sessions -> {"none", "live", "ended"}]
    /\ origin = [s \in Sessions |-> 0]

Start(a) ==
    /\ attempt[a] = "none"
    /\ attempt' = [attempt EXCEPT ![a] = "open"]
    /\ UNCHANGED <<session, origin>>

Begin(s, a) ==
    /\ session[s] = "none"
    /\ session' = [session EXCEPT ![s] = "live"]
    /\ origin' = [origin EXCEPT ![s] = a]
LogIn(a, s) ==
    /\ attempt[a] = "open"
    /\ attempt' = [attempt EXCEPT ![a] = "used"]
    /\ Begin(s, a)
LogInWithPassword(s) == Begin(s, 0) /\ UNCHANGED attempt

End(ended) ==
    /\ \A s \in ended : session[s] = "live"
    /\ session' = [s \in Sessions |-> IF s \in ended THEN "ended" ELSE session[s]]
    /\ UNCHANGED <<attempt, origin>>

Next ==
    \/ \E a \in Attempts : Start(a) \/ \E s \in Sessions : LogIn(a, s)
    \/ \E s \in Sessions : LogInWithPassword(s)
    \/ \E ended \in SUBSET Sessions : End(ended)

Spec == Init /\ [][Next]_vars
=============================================================================
