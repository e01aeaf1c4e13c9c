--------------------------- MODULE MCEventGateway ---------------------------
(* Model-checking instances of EventGateway.                               *)
EXTENDS EventGateway, TLC

CONSTANTS e1, e2, e3, r1, r2, r3, r4

\* e1 is submitted twice, the second time before or after the first is
\* answered; e2 and e3 once each.
Resubmission == r1 :> e1 @@ r2 :> e1 @@ r3 :> e2 @@ r4 :> e3

\* The smallest races: one event submitted twice, two events.
Twice == r1 :> e1 @@ r2 :> e1
Pair == r1 :> e1 @@ r2 :> e2
=============================================================================
