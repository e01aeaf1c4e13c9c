------------------------ MODULE MCEventLedgerSystem ------------------------
(* Model-checking instance of EventLedgerSystem.                           *)
EXTENDS EventLedgerSystem, TLC

CONSTANTS e1, e2, e3, r1, r2, r3, r4

\* e1 is submitted twice with different contents, the second time before or
\* after the first is answered; e2 and e3 once each.
Resubmission == r1 :> e1 @@ r2 :> e1 @@ r3 :> e2 @@ r4 :> e3
=============================================================================
