------------------------ MODULE MCNotificationOutbox ------------------------
(***************************************************************************)
(* Small instances of NotificationOutbox. Two requests cross the same      *)
(* threshold; both are reported to the first subscription, whose sink is a *)
(* webhook, and the first is also reported to the second subscription.     *)
(***************************************************************************)
EXTENDS NotificationOutbox, TLC

CONSTANTS x1, x2, b1, b2, s1, s2

MCSources  == {x1, x2}
MCCauses   == {"threshold"}
MCCause    == [x \in MCSources |-> "threshold"]
MCSubs     == {b1, b2}
MCMatches  == x1 :> {b1, b2} @@ x2 :> {b1}
MCSinks    == {s1, s2}
MCSinkKind == s1 :> "webhook" @@ s2 :> "stdout"
MCManaged  == {s1, b2}
OneOrTwo   == {1, 2}

\* The second subscription is for the local sink.
TwoSinks   == b1 :> s1 @@ b2 :> s2

=============================================================================
