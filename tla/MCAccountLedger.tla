-------------------------- MODULE MCAccountLedger --------------------------
(* Model-checking instance of AccountLedger.                               *)
EXTENDS AccountLedger, TLC

CONSTANTS e1, e2, e3, c1, c2, c3, c4, c5, c6, v1, alice, bob

\* e1 is sent twice for one account; then e2 for the same account, and once
\* more, by mistake, for another account.  e3 exceeds the precision; it is
\* also sent with an amount that validation refuses.  Of the account's
\* transactions e2 is the latest, and a view lists two.
Event == c1 :> e1 @@ c2 :> e1 @@ c3 :> e2 @@ c4 :> e2 @@ c5 :> e3 @@ c6 :> e3
Owner == c1 :> alice @@ c2 :> alice @@ c3 :> alice @@ c4 :> bob @@ c5 :> alice @@ c6 :> alice
Body  == LET tx(t, a, c, i) == [type |-> t, amount |-> a, currency |-> c, at |-> i]
         IN c1 :> tx("CREDIT", 9, "USD", 1) @@ c2 :> tx("CREDIT", 9, "USD", 1)
            @@ c3 :> tx("DEBIT", 31, "EUR", 2) @@ c4 :> tx("DEBIT", 31, "GBP", 2)
            @@ c5 :> tx("CREDIT", 995, "EUR", 1) @@ c6 :> tx("CREDIT", 0, "EUR", 1)
Asked == v1 :> alice
=============================================================================
