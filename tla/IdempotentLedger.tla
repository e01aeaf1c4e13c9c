-------------------------- MODULE IdempotentLedger --------------------------
(***************************************************************************)
(* What the Account Service promises the Gateway: a store that takes each  *)
(* event once, from the first call that gets through, and tells every      *)
(* later call whose transaction it holds.  A call may fail without effect, *)
(* or never be answered.                                                   *)
(***************************************************************************)
CONSTANTS Events, Calls, EventOf

VARIABLES
  book,    \* per event: the call whose transaction is stored, or "absent"
  answer   \* per call: HTTP status, 0 before, and the transaction it names

vars == <<book, answer>>

Init ==
  /\ book = [e \in Events |-> "absent"]
  /\ answer = [c \in Calls |-> <<0, "absent">>]

Respond(c, code, named) ==
  /\ answer[c] = <<0, "absent">>
  /\ answer' = [answer EXCEPT ![c] = <<code, named>>]

\* 201: stored.
Record(c) ==
  /\ book[EventOf[c]] = "absent"
  /\ book' = [book EXCEPT ![EventOf[c]] = c]
  /\ Respond(c, 201, c)

\* 200: whatever this call carries, the answer is about what is stored.
Repeat(c) ==
  /\ book[EventOf[c]] # "absent"
  /\ Respond(c, 200, book[EventOf[c]])
  /\ UNCHANGED book

\* 400 or 500: no effect.
Fail(c) == \E code \in {400, 500} : Respond(c, code, "absent") /\ UNCHANGED book

Next == \E c \in Calls : Record(c) \/ Repeat(c) \/ Fail(c)

Spec == Init /\ [][Next]_vars
=============================================================================
