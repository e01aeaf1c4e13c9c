--------------------------- MODULE AccountLedger ---------------------------
(***************************************************************************)
(* The Account Service: POST /accounts/{id}/transactions handlers          *)
(* (LedgerService.apply) and GET /accounts/{id} handlers (get_account)     *)
(* over one SQLite database.                                               *)
(*                                                                         *)
(* apply opens its transaction with INSERT ... ON CONFLICT DO NOTHING,     *)
(* which takes the write lock whether or not it inserts; the balance it    *)
(* answers with is summed inside the transaction, over the committed rows  *)
(* and its own.  get_account never opens a transaction: its SELECTs each   *)
(* see what is committed at that moment.                                   *)
(*                                                                         *)
(* A call is one POST; what it carries is given by the call, so that two   *)
(* calls may name one event with different accounts or amounts.  The       *)
(* balance is the decimal sum of module LedgerArithmetic, over the rows in *)
(* any order: the SELECT has no ORDER BY.                                  *)
(*                                                                         *)
(* A commit and the answer after it are one step: reply is what a handler  *)
(* decided at its commit, whether or not it still reaches the caller.      *)
(***************************************************************************)
EXTENDS LedgerArithmetic, FiniteSetsExt

CONSTANTS
  Events,     \* event ids
  Calls,      \* POST requests, the Gateway's retries and replays included
  EventOf, AccountOf,
  Transaction, \* of a call: its type, amount, currency and place in time
  Unsummable, \* calls whose row makes the sum of its account raise
  Reads,      \* GET /accounts/{id} requests
  ReadOf,     \* the account each of them asks for
  RecentLimit, \* list_by_account(limit=50)
  MaxCrashes  \* bound of the model: crashes of the process

ASSUME CallsAssumption ==
  /\ EventOf \in [Calls -> Events]
  /\ \A c \in Calls : Transaction[c].amount \in Int /\ Transaction[c].at \in Int
  /\ DOMAIN AccountOf = Calls /\ DOMAIN ReadOf = Reads /\ Unsummable \subseteq Calls
  /\ "nobody" \notin Calls /\ "absent" \notin Calls
ASSUME BoundsAssumption == RecentLimit \in Nat \ {0} /\ MaxCrashes \in Nat

VARIABLES
  row,      \* transactions table: per event, the call whose row it holds
  audit,    \* audit_log: the actions recorded per event
  writer,   \* the session that holds the write lock
  pc,       \* per call: "new", "sum", "commit", "done", "lost"
  stored,   \* per call: the call whose row it read back, itself if it inserted
  balance,  \* per call: the sum it will answer with
  reply,    \* per call: its HTTP status, 0 before
  view,     \* per read: events in the balance, then in the recent transactions
  label,    \* per read: the currency its answer names, "none" before
  crashes

calls == <<writer, pc, stored, balance, reply>>
reads == <<view, label>>
vars == <<row, audit, calls, reads, crashes>>

Currencies == {Transaction[c].currency : c \in Calls} \union {"USD"}

TypeOK ==
  /\ row \in [Events -> Calls \union {"absent"}]
  /\ audit \in [Events -> Seq({"APPLIED", "DEDUPED"})]
  /\ writer \in Calls \union {"nobody"}
  /\ pc \in [Calls -> {"new", "sum", "commit", "done", "lost"}]
  /\ stored \in [Calls -> Calls \union {"absent"}]
  /\ balance \in [Calls -> Int]
  /\ reply \in [Calls -> {0, 200, 201, 400, 500}]
  /\ view \in [Reads -> Seq(SUBSET Events)]
  /\ label \in [Reads -> Currencies \union {"none"}]
  /\ crashes \in 0..MaxCrashes
  /\ \A c \in Calls : writer = c <=> pc[c] \in {"sum", "commit"}

Init ==
  /\ row = [e \in Events |-> "absent"]
  /\ audit = [e \in Events |-> <<>>]
  /\ writer = "nobody"
  /\ pc = [c \in Calls |-> "new"]
  /\ stored = [c \in Calls |-> "absent"]
  /\ balance = [c \in Calls |-> 0]
  /\ reply = [c \in Calls |-> 0]
  /\ view = [v \in Reads |-> <<>>]
  /\ label = [v \in Reads |-> "none"]
  /\ crashes = 0

Answer(c, code) ==
  /\ pc' = [pc EXCEPT ![c] = "done"]
  /\ reply' = [reply EXCEPT ![c] = code]

\* What TransactionIn lets through.
Valid(c) == Transaction[c].type \in {"CREDIT", "DEBIT"} /\ Transaction[c].amount > 0

\* The rows of an account, and the totals that adding them up may give.
Rows(table, a) == {e \in Events : table[e] # "absent" /\ AccountOf[table[e]] = a}
Balances(table, a) == {Total([i \in DOMAIN order |-> Transaction[table[order[i]]]]) :
                         order \in SetToSeqs(Rows(table, a))}

\* ON CONFLICT DO NOTHING, then the row is read back; the table as the session of
\* c sees it after that.
ReadBack(c) == IF row[EventOf[c]] = "absent" THEN c ELSE row[EventOf[c]]
Mutation(c) == [row EXCEPT ![EventOf[c]] = stored[c]]

-----------------------------------------------------------------------------
(* LedgerService.apply.                                                    *)

\* Validation, before the handler: 400.
Refuse(c) ==
  /\ pc[c] = "new" /\ ~Valid(c)
  /\ Answer(c, 400)
  /\ UNCHANGED <<row, audit, writer, stored, balance, reads, crashes>>

\* Mutants: INSERT OR REPLACE; a lookup before the INSERT instead of ON CONFLICT.
Overwrite(c) ==
  /\ pc[c] = "new" /\ Valid(c) /\ writer = "nobody"
  /\ writer' = c
  /\ stored' = [stored EXCEPT ![c] = c]
  /\ pc' = [pc EXCEPT ![c] = "sum"]
  /\ UNCHANGED <<row, audit, balance, reply, reads, crashes>>

InsertUnlocked(c) ==
  /\ pc[c] = "new" /\ Valid(c)
  /\ stored' = [stored EXCEPT ![c] = ReadBack(c)]
  /\ pc' = [pc EXCEPT ![c] = "sum"]
  /\ UNCHANGED <<row, audit, writer, balance, reply, reads, crashes>>

InsertIfAbsent(c) ==
  /\ pc[c] = "new" /\ Valid(c) /\ writer = "nobody"
  /\ writer' = c
  /\ stored' = [stored EXCEPT ![c] = ReadBack(c)]
  /\ pc' = [pc EXCEPT ![c] = "sum"]
  /\ UNCHANGED <<row, audit, balance, reply, reads, crashes>>

\* "database is locked": 500, which the Gateway retries.
LockTimeout(c) ==
  /\ pc[c] = "new" /\ Valid(c) /\ writer # "nobody"
  /\ Answer(c, 500)
  /\ UNCHANGED <<row, audit, writer, stored, balance, reads, crashes>>

Raises(c) == \E e \in Rows(Mutation(c), AccountOf[c]) : Mutation(c)[e] \in Unsummable

\* Mutant: the balance of the account before the transaction.
SumCommitted(c) ==
  /\ pc[c] = "sum" /\ ~Raises(c)
  /\ \E b \in Balances(row, AccountOf[c]) : balance' = [balance EXCEPT ![c] = b]
  /\ pc' = [pc EXCEPT ![c] = "commit"]
  /\ UNCHANGED <<row, audit, writer, stored, reply, reads, crashes>>

SumBalance(c) ==
  /\ pc[c] = "sum" /\ ~Raises(c)
  /\ \E b \in Balances(Mutation(c), AccountOf[c]) : balance' = [balance EXCEPT ![c] = b]
  /\ pc' = [pc EXCEPT ![c] = "commit"]
  /\ UNCHANGED <<row, audit, writer, stored, reply, reads, crashes>>

\* The sum raises (decimal.Overflow): rolled back, 500, every time it is tried.
SumRaises(c) ==
  /\ pc[c] = "sum" /\ Raises(c)
  /\ writer' = "nobody"
  /\ Answer(c, 500)
  /\ UNCHANGED <<row, audit, stored, balance, reads, crashes>>

WriteAudit(c, action) == audit' = [audit EXCEPT ![EventOf[c]] = Append(@, action)]

\* Mutant: every call is audited as applied.
CommitAuditsApplied(c) ==
  /\ pc[c] = "commit"
  /\ row' = Mutation(c)
  /\ WriteAudit(c, "APPLIED")
  /\ writer' = "nobody"
  /\ Answer(c, IF stored[c] = c THEN 201 ELSE 200)
  /\ UNCHANGED <<stored, balance, reads, crashes>>

Commit(c) ==
  /\ pc[c] = "commit"
  /\ row' = Mutation(c)
  /\ WriteAudit(c, IF stored[c] = c THEN "APPLIED" ELSE "DEDUPED")
  /\ writer' = "nobody"
  /\ Answer(c, IF stored[c] = c THEN 201 ELSE 200)
  /\ UNCHANGED <<stored, balance, reads, crashes>>

Crash ==
  /\ crashes < MaxCrashes /\ crashes' = crashes + 1
  /\ pc' = [c \in Calls |-> IF pc[c] \in {"sum", "commit"} THEN "lost" ELSE pc[c]]
  /\ writer' = "nobody"
  /\ UNCHANGED <<row, audit, stored, balance, reply, reads>>

-----------------------------------------------------------------------------
(* LedgerService.get_account, and get_balance, which ends before the recent *)
(* transactions.                                                            *)

ReadBalance(v) ==
  /\ view[v] = <<>>
  /\ view' = [view EXCEPT ![v] = <<Rows(row, ReadOf[v])>>]
  /\ UNCHANGED <<row, audit, calls, label, crashes>>

\* Mutant: WHERE event_id = account_id.
CurrencyByEvent(a) == {Transaction[row[e]].currency : e \in {f \in Events : f = a}}

\* currency_for takes any one row of the account.
CurrenciesOf(a) == {Transaction[row[e]].currency : e \in Rows(row, a)}

ReadCurrency(v) ==
  /\ Len(view[v]) = 1 /\ label[v] = "none"
  /\ \E currency \in IF CurrenciesOf(ReadOf[v]) = {} THEN {"USD"} ELSE CurrenciesOf(ReadOf[v]) :
       label' = [label EXCEPT ![v] = currency]
  /\ UNCHANGED <<row, audit, calls, view, crashes>>

At(e) == Transaction[row[e]].at

\* ORDER BY event_timestamp DESC LIMIT RecentLimit: all rows if they are few, or as
\* many of the latest as the limit allows; the order decides nothing between equals.
Recent(rows) == {shown \in SUBSET rows :
  /\ shown = rows \/ Cardinality(shown) = RecentLimit
  /\ Cardinality(shown) <= RecentLimit
  /\ \A e \in shown, f \in rows \ shown : At(f) <= At(e)}

\* Mutant: the recent transactions are those of before the balance.
ReadRecentFirst(v) ==
  /\ Len(view[v]) = 1 /\ label[v] # "none"
  /\ \E shown \in Recent(view[v][1]) :
       view' = [view EXCEPT ![v] = <<Rows(row, ReadOf[v]), shown>>]
  /\ UNCHANGED <<row, audit, calls, label, crashes>>

ReadRecent(v) ==
  /\ Len(view[v]) = 1 /\ label[v] # "none"
  /\ \E shown \in Recent(Rows(row, ReadOf[v])) : view' = [view EXCEPT ![v] = Append(@, shown)]
  /\ UNCHANGED <<row, audit, calls, label, crashes>>

Handle(c) == \/ Refuse(c) \/ InsertIfAbsent(c) \/ LockTimeout(c) \/ SumBalance(c) \/ SumRaises(c)
             \/ Commit(c)

Next ==
  \/ \E c \in Calls : Handle(c)
  \/ \E v \in Reads : ReadBalance(v) \/ ReadCurrency(v) \/ ReadRecent(v)
  \/ Crash

Spec == Init /\ [][Next]_vars

-----------------------------------------------------------------------------

answer == [c \in Calls |->
  <<reply[c], IF reply[c] \in {200, 201} THEN stored[c] ELSE "absent">>]

Ledger == INSTANCE IdempotentLedger WITH book <- row

\* The handlers are an idempotent ledger: the first call of an event that commits
\* stores it, nothing changes it afterwards, and every duplicate, a conflicting one
\* for another account included, is answered with the stored transaction.
ImplementsLedger == Ledger!Spec

\* Idempotence: however often and however concurrently an event is sent, one
\* call stores it and is told so (201); a 200 means that a call stored it before,
\* and the stored row is that call's.
AppliedOnce == \A e \in Events :
  LET fresh == {c \in Calls : EventOf[c] = e /\ reply[c] = 201}
  IN /\ Cardinality(fresh) <= 1
     /\ \A c \in fresh : row[e] = c
     /\ \A c \in Calls : EventOf[c] = e /\ reply[c] = 200 => row[e] \notin {c, "absent"}

\* The sums of an account's amounts, without and with their signs.
Amount(tx) == IF tx.type = "CREDIT" THEN tx.amount ELSE -tx.amount
Volume(table, a) == SumFunction([e \in Rows(table, a) |-> Transaction[table[e]].amount])
Exact(table, a) == SumFunction([e \in Rows(table, a) |-> Amount(Transaction[table[e]])])

\* The balance in a reply is the account's at the moment it is committed, with this
\* transaction counted once: no other call slips in between.  It is exact, whatever
\* the order of the rows, as long as the account's amounts together fit the
\* precision.
ReplyBalanceCurrent ==
  [][\A c \in Calls : /\ reply[c] = 0 /\ reply'[c] \in {200, 201}
                      /\ Volume(row', AccountOf[c]) < 10 ^ Precision
       => balance[c] = Exact(row', AccountOf[c])]_vars

\* The audit log has one APPLIED per stored event, first, and a DEDUPED for each
\* duplicate that was answered.
AuditTrail == \A e \in Events :
  LET duplicates == {c \in Calls : EventOf[c] = e /\ reply[c] = 200}
  IN /\ audit[e] # <<>> <=> row[e] # "absent"
     /\ audit[e] # <<>> => /\ audit[e][1] = "APPLIED"
                           /\ \A i \in 2..Len(audit[e]) : audit[e][i] = "DEDUPED"
                           /\ Len(audit[e]) = 1 + Cardinality(duplicates)

\* What a list leaves out: it is full, of transactions that are no older.
CutOff(e, listed) == Cardinality(listed) = RecentLimit /\ \A f \in listed : At(e) <= At(f)

\* A view of an account is not a snapshot, but it errs on one side only: what is in
\* its balance is listed, unless the list is full of transactions that are no older;
\* and what a view has counted or listed stays.
ViewCoversBalance == \A v \in Reads :
  /\ \A i \in DOMAIN view[v] : view[v][i] \subseteq Rows(row, ReadOf[v])
  /\ Len(view[v]) = 2 =>
       \A e \in view[v][1] \ view[v][2] : CutOff(e, view[v][2])

\* The currency that labels a balance is that of a transaction the view lists, or of
\* one that is no younger than a full list, or the default where the balance was that
\* of an account without transactions.
LabelExplained == \A v \in Reads : Len(view[v]) = 2 =>
  \/ \E e \in Rows(row, ReadOf[v]) :
       /\ label[v] = Transaction[row[e]].currency
       /\ e \in view[v][2] \/ CutOff(e, view[v][2])
  \/ view[v][1] = {} /\ label[v] = "USD"
=============================================================================
