------------------------ MODULE AccountLedgerProofs ------------------------
(***************************************************************************)
(* The Account Service implements IdempotentLedger, its tables, audit log  *)
(* and views agree, and the balances it answers with are current and       *)
(* exact, for any calls, reads, rejections and crashes.                    *)
(***************************************************************************)
EXTENDS AccountLedger, LedgerArithmeticProofs, FiniteSetTheorems, TLAPS

-----------------------------------------------------------------------------
(* The inductive invariant.  What a sum comes to is no part of it.         *)

LedgerType ==
  /\ row \in [Events -> Calls \union {"absent"}]
  /\ pc \in [Calls -> {"new", "sum", "commit", "done", "lost"}]
  /\ stored \in [Calls -> Calls \union {"absent"}]
  /\ reply \in [Calls -> {0, 200, 201, 400, 500}]

\* Between the insert and the commit a handler has the lock, so that the row it
\* read back is still the one.
LockInv == \A c \in Calls :
  /\ writer = c <=> pc[c] \in {"sum", "commit"}
  /\ pc[c] \in {"sum", "commit"} => stored[c] = ReadBack(c)

\* What was answered, and what is stored, are about each other.
OutcomeInv ==
  /\ \A c \in Calls : /\ reply[c] # 0 <=> pc[c] = "done"
                      /\ reply[c] = 201 => row[EventOf[c]] = c
                      /\ reply[c] = 200 => row[EventOf[c]] \notin {c, "absent"}
  /\ \A e \in Events : row[e] # "absent" => EventOf[row[e]] = e /\ reply[row[e]] = 201

IInv == LedgerType /\ LockInv /\ OutcomeInv

LEMMA IInvInit == Init => IInv
  BY CallsAssumption DEF Init, IInv, LedgerType, LockInv, OutcomeInv

\* A step that answers a call with an error, and may free the lock.
LEMMA FailureKeeps ==
  ASSUME IInv, NEW c \in Calls, NEW code \in {400, 500}, pc[c] \in {"new", "sum"},
         Answer(c, code), UNCHANGED <<row, stored>>,
         writer' = IF writer = c THEN "nobody" ELSE writer
  PROVE  IInv'
<1> USE DEF IInv, Answer
<1>1. LedgerType'
  BY DEF LedgerType
<1>2. LockInv'
  BY CallsAssumption DEF LockInv, LedgerType, ReadBack
<1>3. OutcomeInv'
  BY CallsAssumption DEF OutcomeInv, LedgerType
<1> QED BY <1>1, <1>2, <1>3

LEMMA InsertKeeps ==
  ASSUME IInv, NEW c \in Calls, InsertIfAbsent(c)
  PROVE  IInv'
<1> USE CallsAssumption DEF IInv, InsertIfAbsent
<1>0. ReadBack(c) \in Calls
  <2>1. EventOf[c] \in Events
    OBVIOUS
  <2>2. row[EventOf[c]] \in Calls \union {"absent"}
    BY <2>1 DEF LedgerType
  <2> QED BY <2>2, Zenon DEF ReadBack
<1>1. LedgerType'
  BY <1>0 DEF LedgerType
<1>2. LockInv'
  BY DEF LockInv, LedgerType, ReadBack
<1>3. OutcomeInv'
  BY DEF OutcomeInv, LedgerType
<1> QED BY <1>1, <1>2, <1>3

\* What a handler that commits has read back.
LEMMA AtCommit ==
  ASSUME IInv, NEW c \in Calls, pc[c] = "commit"
  PROVE  /\ EventOf[c] \in Events /\ writer = c /\ reply[c] = 0
         /\ stored[c] = c => row[EventOf[c]] = "absent"
         /\ stored[c] # c => stored[c] = row[EventOf[c]] /\ row[EventOf[c]] # "absent"
  BY CallsAssumption DEF IInv, LedgerType, LockInv, OutcomeInv, ReadBack

LEMMA CommitKeeps ==
  ASSUME IInv, NEW c \in Calls, Commit(c)
  PROVE  IInv'
<1> USE CallsAssumption DEF IInv, Commit, Mutation, Answer
<1>1. /\ EventOf[c] \in Events /\ writer = c /\ reply[c] = 0
      /\ stored[c] = c => row[EventOf[c]] = "absent"
      /\ stored[c] # c => stored[c] = row[EventOf[c]] /\ row[EventOf[c]] # "absent"
  BY AtCommit
<1>2. LedgerType'
  BY <1>1 DEF LedgerType
<1>3. LockInv'
  BY <1>1 DEF LockInv, LedgerType, ReadBack
<1>4. OutcomeInv'
  <2>1. CASE stored[c] = c
    BY <1>1, <2>1 DEF OutcomeInv, LedgerType
  <2>2. CASE stored[c] # c
    <3>1. row' = row
      BY <1>1, <2>2 DEF LedgerType
    <3> QED BY <1>1, <2>2, <3>1 DEF OutcomeInv, LedgerType
  <2> QED BY <2>1, <2>2
<1> QED BY <1>2, <1>3, <1>4

LEMMA CrashKeeps == IInv /\ Crash => IInv'
<1> SUFFICES ASSUME IInv, Crash PROVE IInv'
  OBVIOUS
<1> USE CallsAssumption DEF IInv, Crash
<1>1. LedgerType'
  BY DEF LedgerType
<1>2. LockInv'
  BY DEF LockInv, LedgerType
<1>3. OutcomeInv'
  BY DEF OutcomeInv, LedgerType
<1> QED BY <1>1, <1>2, <1>3

LEMMA IInvNext == IInv /\ [Next]_vars => IInv'
<1> SUFFICES ASSUME IInv, [Next]_vars PROVE IInv'
  OBVIOUS
<1>1. ASSUME NEW c \in Calls, Handle(c) PROVE IInv'
  <2>1. CASE Refuse(c)
    BY <2>1, FailureKeeps, CallsAssumption DEF Refuse, IInv, LockInv
  <2>2. CASE InsertIfAbsent(c)
    BY <2>2, InsertKeeps
  <2>3. CASE LockTimeout(c)
    BY <2>3, FailureKeeps, CallsAssumption DEF LockTimeout, IInv, LockInv
  <2>4. CASE SumBalance(c)
    BY <2>4 DEF SumBalance, IInv, LedgerType, LockInv, OutcomeInv, ReadBack
  <2>5. CASE SumRaises(c)
    BY <2>5, FailureKeeps DEF SumRaises, IInv, LockInv
  <2>6. CASE Commit(c)
    BY <2>6, CommitKeeps
  <2> QED BY <1>1, <2>1, <2>2, <2>3, <2>4, <2>5, <2>6 DEF Handle
<1>2. ASSUME NEW v \in Reads, ReadBalance(v) \/ ReadCurrency(v) \/ ReadRecent(v) PROVE IInv'
  BY <1>2 DEF ReadBalance, ReadCurrency, ReadRecent, calls, IInv, LedgerType, LockInv,
              OutcomeInv, ReadBack
<1>3. CASE UNCHANGED vars
  BY <1>3 DEF vars, calls, IInv, LedgerType, LockInv, OutcomeInv, ReadBack
<1> QED BY <1>1, <1>2, <1>3, CrashKeeps DEF Next

LEMMA Invariant == Spec => []IInv
<1> QED BY IInvInit, IInvNext, PTL DEF Spec

-----------------------------------------------------------------------------
(* The abstract specification.                                             *)

LEMMA RefineInit == Init => Ledger!Init
  BY DEF Init, Ledger!Init, answer

LEMMA AnswerStep ==
  ASSUME NEW c \in Calls, \A d \in Calls \ {c} : reply'[d] = reply[d], stored' = stored
  PROVE  answer' = [answer EXCEPT ![c] = answer'[c]]
<1>1. \A d \in Calls \ {c} : answer'[d] = answer[d]
  BY DEF answer
<1>2. DOMAIN answer = Calls /\ answer = [d \in Calls |-> answer[d]]
  BY DEF answer
<1>3. DOMAIN answer' = Calls /\ answer' = [d \in Calls |-> answer'[d]]
  BY DEF answer
<1> QED BY <1>1, <1>2, <1>3

\* The answer of c is given with the row it read back.
LEMMA RefineCommit ==
  ASSUME IInv, NEW c \in Calls, Commit(c)
  PROVE  Ledger!Next
<1> USE DEF IInv, Commit, Mutation, Answer
<1>1. /\ EventOf[c] \in Events /\ writer = c /\ reply[c] = 0
      /\ stored[c] = c => row[EventOf[c]] = "absent"
      /\ stored[c] # c => stored[c] = row[EventOf[c]] /\ row[EventOf[c]] # "absent"
  BY AtCommit
<1>2. answer[c] = <<0, "absent">>
  BY <1>1 DEF answer
<1>3. answer' = [answer EXCEPT ![c] = answer'[c]]
  BY AnswerStep DEF LedgerType
<1>4. CASE stored[c] = c
  <2>1. answer'[c] = <<201, c>>
    BY <1>4 DEF answer, LedgerType
  <2>2. Ledger!Record(c)
    BY <1>1, <1>2, <1>3, <1>4, <2>1 DEF Ledger!Record, Ledger!Respond
  <2> QED BY <2>2 DEF Ledger!Next
<1>5. CASE stored[c] # c
  <2>1. row' = row
    BY <1>1, <1>5 DEF LedgerType
  <2>2. answer'[c] = <<200, row[EventOf[c]]>>
    BY <1>1, <1>5 DEF answer, LedgerType
  <2>3. Ledger!Repeat(c)
    <3> HIDE DEF IInv, Commit
    <3> QED BY <1>1, <1>2, <1>3, <1>5, <2>1, <2>2 DEF Ledger!Repeat, Ledger!Respond
  <2> QED BY <2>3 DEF Ledger!Next
<1> QED BY <1>4, <1>5

LEMMA RefineFailure ==
  ASSUME IInv, NEW c \in Calls, NEW code \in {400, 500}, pc[c] \in {"new", "sum"},
         Answer(c, code), UNCHANGED <<row, stored>>
  PROVE  Ledger!Next
<1>1. reply[c] = 0 /\ reply'[c] = code /\ \A d \in Calls \ {c} : reply'[d] = reply[d]
  BY DEF IInv, LedgerType, OutcomeInv, Answer
<1>2. answer' = [answer EXCEPT ![c] = answer'[c]]
  BY <1>1, AnswerStep
<1>3. answer[c] = <<0, "absent">>
  BY <1>1 DEF answer
<1>4. answer'[c] = <<code, "absent">>
  BY <1>1 DEF answer
<1>5. Ledger!Fail(c)
  BY <1>2, <1>3, <1>4 DEF Ledger!Fail, Ledger!Respond
<1> QED BY <1>5 DEF Ledger!Next

LEMMA RefineNext == IInv /\ [Next]_vars => [Ledger!Next]_(Ledger!vars)
<1> SUFFICES ASSUME IInv, [Next]_vars PROVE [Ledger!Next]_(Ledger!vars)
  OBVIOUS
<1>1. ASSUME NEW c \in Calls, Handle(c) PROVE [Ledger!Next]_(Ledger!vars)
  <2>1. CASE Refuse(c)
    BY <2>1, RefineFailure DEF Refuse
  <2>2. CASE InsertIfAbsent(c)
    <3>1. \A d \in Calls : reply[d] \in {200, 201} => d # c
      BY <2>2 DEF InsertIfAbsent, IInv, OutcomeInv
    <3>2. UNCHANGED Ledger!vars
      BY <2>2, <3>1 DEF InsertIfAbsent, Ledger!vars, answer, IInv, LedgerType
    <3> QED BY <3>2
  <2>3. CASE LockTimeout(c)
    BY <2>3, RefineFailure DEF LockTimeout
  <2>4. CASE SumBalance(c)
    BY <2>4 DEF SumBalance, Ledger!vars, answer
  <2>5. CASE SumRaises(c)
    BY <2>5, RefineFailure DEF SumRaises
  <2>6. CASE Commit(c)
    BY <2>6, RefineCommit
  <2> QED BY <1>1, <2>1, <2>2, <2>3, <2>4, <2>5, <2>6 DEF Handle
<1>2. ASSUME NEW v \in Reads, ReadBalance(v) \/ ReadCurrency(v) \/ ReadRecent(v)
      PROVE [Ledger!Next]_(Ledger!vars)
  BY <1>2 DEF ReadBalance, ReadCurrency, ReadRecent, calls, Ledger!vars, answer
<1>3. CASE Crash \/ UNCHANGED vars
  BY <1>3 DEF Crash, vars, calls, Ledger!vars, answer
<1> QED BY <1>1, <1>2, <1>3 DEF Next

\* Every behaviour of the handlers of POST /accounts/{id}/transactions, with their
\* lock timeouts, failing sums and crashes, is one of an idempotent ledger.
THEOREM Refinement == Spec => ImplementsLedger
<1> QED BY RefineInit, RefineNext, Invariant, PTL DEF Spec, ImplementsLedger, Ledger!Spec

-----------------------------------------------------------------------------

\* However many calls carry an event, one is told that it stored it, the stored row
\* is that call's, and the others are told that it was there.
THEOREM StoredOnce == Spec => []AppliedOnce
<1>1. ASSUME IInv, NEW e \in Events
      PROVE  Cardinality({c \in Calls : EventOf[c] = e /\ reply[c] = 201}) <= 1
  <2> DEFINE fresh == {c \in Calls : EventOf[c] = e /\ reply[c] = 201}
  <2>1. fresh \subseteq {row[e]}
    BY <1>1 DEF IInv, OutcomeInv
  <2>2. IsFiniteSet({row[e]}) /\ Cardinality({row[e]}) = 1
    BY FS_Singleton
  <2>3. Cardinality(fresh) <= 1
    BY <2>1, <2>2, FS_Subset
  <2> QED BY <2>3
<1>2. IInv => AppliedOnce
  BY <1>1 DEF AppliedOnce, IInv, OutcomeInv
<1> QED BY <1>2, Invariant, PTL

-----------------------------------------------------------------------------
(* The audit log.                                                          *)

Duplicates(e) == {c \in Calls : EventOf[c] = e /\ reply[c] = 200}

Log == audit \in [Events -> Seq({"APPLIED", "DEDUPED"})]

Told(e) ==
  /\ IsFiniteSet(Duplicates(e))
  /\ audit[e] # <<>> <=> row[e] # "absent"
  /\ audit[e] # <<>> => /\ audit[e][1] = "APPLIED"
                        /\ \A i \in 2..Len(audit[e]) : audit[e][i] = "DEDUPED"
                        /\ Len(audit[e]) = 1 + Cardinality(Duplicates(e))

AuditInv == Log /\ \A e \in Events : Told(e)

LEMMA AuditInit == Init => AuditInv
<1> SUFFICES ASSUME Init PROVE AuditInv
  OBVIOUS
<1>1. Log
  BY DEF Init, Log
<1>2. ASSUME NEW e \in Events PROVE Told(e)
  <2>1. Duplicates(e) = {}
    BY DEF Init, Duplicates
  <2> QED BY <2>1, FS_EmptySet DEF Init, Told
<1> QED BY <1>1, <1>2 DEF AuditInv

\* A step that answers nobody with a 200 and leaves the tables alone.
LEMMA AuditUntouched ==
  ASSUME AuditInv, UNCHANGED <<row, audit>>,
         \A c \in Calls : reply'[c] = 200 <=> reply[c] = 200
  PROVE  AuditInv'
<1>1. \A e \in Events : Duplicates(e)' = Duplicates(e)
  BY DEF Duplicates
<1> QED BY <1>1 DEF AuditInv, Log, Told

LEMMA AuditCommit ==
  ASSUME IInv, AuditInv, NEW c \in Calls, Commit(c)
  PROVE  AuditInv'
<1> DEFINE e == EventOf[c]
<1>1. /\ e \in Events /\ reply[c] = 0
      /\ stored[c] = c => row[e] = "absent"
      /\ stored[c] # c => stored[c] = row[e] /\ row[e] # "absent"
  BY AtCommit DEF Commit
<1>2. /\ row' = [row EXCEPT ![e] = stored[c]]
      /\ audit' = [audit EXCEPT ![e] = Append(@, IF stored[c] = c THEN "APPLIED" ELSE "DEDUPED")]
      /\ reply' = [reply EXCEPT ![c] = IF stored[c] = c THEN 201 ELSE 200]
  BY DEF Commit, Mutation, WriteAudit, Answer
<1>3. row \in [Events -> Calls \union {"absent"}] /\ reply \in [Calls -> {0, 200, 201, 400, 500}]
  BY DEF IInv, LedgerType
<1>4. audit[e] \in Seq({"APPLIED", "DEDUPED"}) /\ Told(e) /\ Log
  BY <1>1 DEF AuditInv, Log
<1>5. c # "absent"
  BY CallsAssumption
<1> HIDE DEF e
<1>6. Log'
  BY <1>1, <1>2, <1>4 DEF Log
<1>7. ASSUME NEW f \in Events, f # e PROVE Told(f)'
  <2>1. Duplicates(f)' = Duplicates(f)
    BY <1>2, <1>3, <1>7 DEF Duplicates, e
  <2>2. row'[f] = row[f] /\ audit'[f] = audit[f]
    BY <1>2, <1>3, <1>4, <1>7 DEF Log
  <2> QED BY <2>1, <2>2 DEF AuditInv, Told
<1>8. CASE stored[c] = c
  <2>1. audit[e] = <<>> /\ row'[e] = c
    BY <1>1, <1>2, <1>3, <1>4, <1>8 DEF Told
  <2>2. audit'[e] = <<"APPLIED">>
    BY <1>1, <1>2, <1>4, <1>8, <2>1 DEF Log
  <2>3. Duplicates(e) = {}
    BY <1>1, <1>8 DEF Duplicates, IInv, OutcomeInv
  <2>4. Duplicates(e)' = {}
    BY <1>2, <1>3, <1>8, <2>3 DEF Duplicates
  <2>5. Told(e)'
    BY <1>5, <2>1, <2>2, <2>4, FS_EmptySet DEF Told
  <2> QED BY <1>6, <1>7, <2>5 DEF AuditInv
<1>9. CASE stored[c] # c
  <2>1. row'[e] = row[e] /\ row[e] # "absent"
    BY <1>1, <1>2, <1>3, <1>9
  <2>2. audit[e] # <<>> /\ audit'[e] = Append(audit[e], "DEDUPED")
    BY <1>1, <1>2, <1>4, <1>9, <2>1 DEF Told, Log
  <2>3. Duplicates(e)' = Duplicates(e) \union {c} /\ c \notin Duplicates(e)
    BY <1>1, <1>2, <1>3, <1>9 DEF Duplicates, e
  <2>4. /\ IsFiniteSet(Duplicates(e)')
        /\ Cardinality(Duplicates(e)') = Cardinality(Duplicates(e)) + 1
    BY <1>4, <2>3, FS_AddElement DEF Told
  <2>5. Cardinality(Duplicates(e)) \in Nat
    BY <1>4, FS_CardinalityType DEF Told
  <2>6. /\ Len(audit'[e]) = Len(audit[e]) + 1
        /\ audit'[e][1] = "APPLIED"
        /\ \A i \in 2..Len(audit'[e]) : audit'[e][i] = "DEDUPED"
    BY <1>4, <2>2 DEF Told
  <2>7. audit'[e] # <<>>
    BY <1>4, <2>2
  <2>8. Told(e)'
    BY <1>4, <2>1, <2>2, <2>4, <2>5, <2>6, <2>7 DEF Told
  <2> QED BY <1>6, <1>7, <2>8 DEF AuditInv
<1> QED BY <1>8, <1>9

LEMMA AuditNext == IInv /\ AuditInv /\ [Next]_vars => AuditInv'
<1> SUFFICES ASSUME IInv, AuditInv, [Next]_vars PROVE AuditInv'
  OBVIOUS
<1>1. ASSUME NEW c \in Calls, Handle(c), ~Commit(c) PROVE AuditInv'
  <2>1. UNCHANGED <<row, audit>>
    BY <1>1 DEF Handle, Refuse, InsertIfAbsent, LockTimeout, SumBalance, SumRaises
  <2>2. reply' = reply \/ \E code \in {400, 500} :
          pc[c] # "done" /\ reply' = [reply EXCEPT ![c] = code]
    BY <1>1 DEF Handle, Refuse, InsertIfAbsent, LockTimeout, SumBalance, SumRaises, Answer
  <2>3. \A d \in Calls : reply'[d] = 200 <=> reply[d] = 200
    BY <2>2 DEF IInv, LedgerType, OutcomeInv
  <2> QED BY <2>1, <2>3, AuditUntouched
<1>2. ASSUME NEW v \in Reads, ReadBalance(v) \/ ReadCurrency(v) \/ ReadRecent(v) PROVE AuditInv'
  BY <1>2, AuditUntouched DEF ReadBalance, ReadCurrency, ReadRecent, calls
<1>3. CASE Crash \/ UNCHANGED vars
  BY <1>3, AuditUntouched DEF Crash, vars, calls
<1> QED BY <1>1, <1>2, <1>3, AuditCommit DEF Next

\* The audit log has one APPLIED per stored event, first, and one DEDUPED for each
\* call that was answered as a duplicate, whatever failed or crashed in between.
THEOREM AuditComplete == Spec => []AuditTrail
<1>1. AuditInv => AuditTrail
  BY DEF AuditInv, Told, Duplicates, AuditTrail
<1> QED BY <1>1, AuditInit, AuditNext, Invariant, PTL DEF Spec

-----------------------------------------------------------------------------
(* Views.                                                                  *)

ViewType ==
  /\ view \in [Reads -> Seq(SUBSET Events)]
  /\ label \in [Reads -> Currencies \union {"none"}]

\* The label is that of a row the account has, or the default of an empty one.
Labelled(v) ==
  \/ \E e \in Rows(row, ReadOf[v]) : label[v] = Transaction[row[e]].currency
  \/ view[v][1] = {} /\ label[v] = "USD"

\* Each row of the account that a finished view can have met is listed or cut off.
Complete(v, rows) == \A e \in rows \ view[v][2] : CutOff(e, view[v][2])

LabelledBy(v) ==
  \/ \E e \in Rows(row, ReadOf[v]) :
       /\ label[v] = Transaction[row[e]].currency
       /\ e \in view[v][2] \/ CutOff(e, view[v][2])
  \/ view[v][1] = {} /\ label[v] = "USD"

Seen(v) ==
  /\ Len(view[v]) \in 0..2 /\ (Len(view[v]) = 0 => label[v] = "none")
  /\ \A i \in 1..Len(view[v]) : view[v][i] \subseteq Rows(row, ReadOf[v])
  /\ Len(view[v]) = 2 => Complete(v, view[v][1]) /\ LabelledBy(v)
  /\ Len(view[v]) = 1 /\ label[v] # "none" => Labelled(v)

ViewInv == ViewType /\ \A v \in Reads : Seen(v)

LEMMA ViewInit == Init => ViewInv
<1> SUFFICES ASSUME Init PROVE ViewInv
  OBVIOUS
<1>1. ViewType
  BY DEF Init, ViewType
<1>2. \A v \in Reads : Seen(v)
  BY DEF Init, Seen
<1> QED BY <1>1, <1>2 DEF ViewInv

\* Rows are stored once and for ever.
LEMMA RowsStay ==
  ASSUME IInv, [Next]_vars, NEW e \in Events, row[e] # "absent"
  PROVE  row'[e] = row[e]
<1>1. ASSUME NEW c \in Calls, Commit(c) PROVE row'[e] = row[e]
  <2>1. /\ EventOf[c] \in Events
        /\ stored[c] = c => row[EventOf[c]] = "absent"
        /\ stored[c] # c => stored[c] = row[EventOf[c]]
    BY <1>1, AtCommit DEF Commit
  <2> QED BY <1>1, <2>1 DEF Commit, Mutation, IInv, LedgerType
<1>2. (\A c \in Calls : ~Commit(c)) => row' = row
  BY DEF Next, Handle, Refuse, InsertIfAbsent, LockTimeout, SumBalance, SumRaises, Crash,
         ReadBalance, ReadCurrency, ReadRecent, vars
<1> QED BY <1>1, <1>2

LEMMA RowsGrow ==
  ASSUME IInv, [Next]_vars, NEW a
  PROVE  Rows(row, a) \subseteq Rows(row', a)
  BY RowsStay DEF Rows

\* A view that does not take a step is as good as before.
LEMMA SeenStays ==
  ASSUME IInv, [Next]_vars, ViewType, NEW v \in Reads, Seen(v),
         view'[v] = view[v], label'[v] = label[v]
  PROVE  Seen(v)'
<1>1. Rows(row, ReadOf[v]) \subseteq Rows(row', ReadOf[v])
  BY RowsGrow
<1>2. \A e \in Rows(row, ReadOf[v]) : row'[e] = row[e]
  BY RowsStay DEF Rows
<1>3. view[v] \in Seq(SUBSET Events)
  BY DEF ViewType
<1>4. Labelled(v) => Labelled(v)'
  BY <1>1, <1>2 DEF Labelled
<1>5. ASSUME Len(view[v]) = 2 PROVE Complete(v, view[v][1])' /\ LabelledBy(v)'
  <2>1. view[v][1] \subseteq Rows(row, ReadOf[v]) /\ view[v][2] \subseteq Rows(row, ReadOf[v])
    BY <1>3, <1>5 DEF Seen
  <2>2. \A e \in Rows(row, ReadOf[v]) : CutOff(e, view[v][2]) => CutOff(e, view[v][2])'
    BY <1>2, <2>1 DEF CutOff, At
  <2>3. Complete(v, view[v][1])'
    BY <1>5, <2>1, <2>2 DEF Seen, Complete
  <2>4. LabelledBy(v)'
    BY <1>1, <1>2, <1>5, <2>2 DEF Seen, LabelledBy
  <2> QED BY <2>3, <2>4
<1>6. \A i \in 1..Len(view[v]) : view[v][i] \subseteq Rows(row', ReadOf[v])
  BY <1>1, <1>3 DEF Seen
<1> QED BY <1>3, <1>4, <1>5, <1>6 DEF Seen

LEMMA ViewNext == IInv /\ ViewInv /\ [Next]_vars => ViewInv'
<1> SUFFICES ASSUME IInv, ViewInv, [Next]_vars PROVE ViewInv'
  OBVIOUS
<1>1. CASE UNCHANGED reads
  BY <1>1, SeenStays DEF ViewInv, ViewType, reads
<1>2. ASSUME NEW v \in Reads, ReadBalance(v) PROVE ViewInv'
  <2>1. /\ view' = [view EXCEPT ![v] = <<Rows(row, ReadOf[v])>>]
        /\ row' = row /\ label' = label /\ view[v] = <<>>
    BY <1>2 DEF ReadBalance
  <2>2. ViewType /\ Rows(row, ReadOf[v]) \subseteq Events
    BY DEF ViewInv, Rows
  <2>3. ViewType'
    BY <2>1, <2>2 DEF ViewType
  <2>4. view'[v] = <<Rows(row, ReadOf[v])>> /\ label[v] = "none"
    BY <2>1, <2>2 DEF ViewType, ViewInv, Seen
  <2>5. Seen(v)'
    BY <2>1, <2>4 DEF Seen
  <2>6. ASSUME NEW u \in Reads, u # v PROVE Seen(u)'
    BY <2>1, <2>2, <2>6, SeenStays DEF ViewInv, ViewType
  <2> QED BY <2>3, <2>5, <2>6 DEF ViewInv
<1>3. ASSUME NEW v \in Reads, ReadCurrency(v) PROVE ViewInv'
  <2>1. PICK currency \in IF CurrenciesOf(ReadOf[v]) = {} THEN {"USD"}
                           ELSE CurrenciesOf(ReadOf[v]) :
          label' = [label EXCEPT ![v] = currency]
    BY <1>3 DEF ReadCurrency
  <2>2. row' = row /\ view' = view /\ Len(view[v]) = 1
    BY <1>3 DEF ReadCurrency, calls
  <2>3. ViewType /\ Seen(v)
    BY DEF ViewInv
  <2>4. row \in [Events -> Calls \union {"absent"}]
    BY DEF IInv, LedgerType
  <2>5. currency \in Currencies
    BY <2>1, <2>4 DEF CurrenciesOf, Currencies, Rows
  <2>6. ViewType'
    BY <2>1, <2>2, <2>3, <2>5 DEF ViewType
  <2>7. label'[v] = currency
    BY <2>1, <2>3 DEF ViewType
  <2>8. Labelled(v)'
    <3>1. CASE CurrenciesOf(ReadOf[v]) = {}
      <4>1. Rows(row, ReadOf[v]) = {}
        BY <3>1 DEF CurrenciesOf
      <4>2. view[v][1] = {}
        BY <2>2, <2>3, <4>1 DEF Seen
      <4> QED BY <2>1, <2>2, <2>7, <3>1, <4>2 DEF Labelled
    <3>2. CASE CurrenciesOf(ReadOf[v]) # {}
      BY <2>1, <2>2, <2>7, <3>2 DEF CurrenciesOf, Labelled
    <3> QED BY <3>1, <3>2
  <2>9. Seen(v)'
    BY <2>2, <2>3, <2>8 DEF Seen
  <2>10. ASSUME NEW u \in Reads, u # v PROVE Seen(u)'
    BY <2>1, <2>2, <2>3, <2>10, SeenStays DEF ViewInv, ViewType
  <2> QED BY <2>6, <2>9, <2>10 DEF ViewInv
<1>4. ASSUME NEW v \in Reads, ReadRecent(v) PROVE ViewInv'
  <2>1. PICK shown \in Recent(Rows(row, ReadOf[v])) :
          view' = [view EXCEPT ![v] = Append(@, shown)]
    BY <1>4 DEF ReadRecent
  <2>2. /\ row' = row /\ label' = label /\ Len(view[v]) = 1 /\ label[v] # "none"
        /\ ViewType /\ Seen(v) /\ Rows(row, ReadOf[v]) \subseteq Events
    BY <1>4 DEF ReadRecent, calls, ViewInv, Rows
  <2>3. /\ view[v] \in Seq(SUBSET Events) /\ shown \in SUBSET Events
        /\ shown \subseteq Rows(row, ReadOf[v])
        /\ \A e \in Rows(row, ReadOf[v]) \ shown : CutOff(e, shown)
    BY <2>1, <2>2 DEF ViewType, Recent, CutOff
  <2>4. ViewType'
    BY <2>1, <2>2, <2>3 DEF ViewType
  <2>5. view'[v] = Append(view[v], shown)
    BY <2>1, <2>2 DEF ViewType
  <2>6. Len(view'[v]) = 2 /\ view'[v][1] = view[v][1] /\ view'[v][2] = shown
    BY <2>2, <2>3, <2>5
  <2>7. view[v][1] \subseteq Rows(row, ReadOf[v]) /\ Labelled(v)
    BY <2>2 DEF Seen
  <2>8. Complete(v, view[v][1])' /\ LabelledBy(v)'
    <3>1. \A e : CutOff(e, shown)' <=> CutOff(e, shown)
      BY <2>2 DEF CutOff, At
    <3>2. Complete(v, view[v][1])'
      BY <2>3, <2>6, <2>7, <3>1 DEF Complete
    <3>3. LabelledBy(v)'
      BY <2>2, <2>3, <2>6, <2>7, <3>1 DEF Labelled, LabelledBy
    <3> QED BY <3>2, <3>3
  <2>9. Seen(v)'
    BY <2>2, <2>3, <2>6, <2>7, <2>8 DEF Seen
  <2>10. ASSUME NEW u \in Reads, u # v PROVE Seen(u)'
    BY <2>1, <2>2, <2>10, SeenStays DEF ViewInv, ViewType
  <2> QED BY <2>4, <2>9, <2>10 DEF ViewInv
<1>5. (\A v \in Reads : ~ReadBalance(v) /\ ~ReadCurrency(v) /\ ~ReadRecent(v)) => UNCHANGED reads
  BY DEF Next, Handle, Refuse, InsertIfAbsent, LockTimeout, SumBalance, SumRaises, Commit,
         Crash, vars
<1> QED BY <1>1, <1>2, <1>3, <1>4, <1>5

\* A view lists every transaction that its balance counts, up to the limit of the list
\* and the latest first, and what it has counted or listed stays.
THEOREM ViewsCover == Spec => []ViewCoversBalance
<1>1. ViewInv => ViewCoversBalance
  BY DEF ViewInv, ViewType, Seen, Complete, ViewCoversBalance
<1> QED BY <1>1, ViewInit, ViewNext, Invariant, PTL DEF Spec

\* The currency of a view is that of a transaction it lists, or of one that a full list
\* cuts off, or the default.
THEOREM LabelsExplained == Spec => []LabelExplained
<1>1. ViewInv => LabelExplained
  BY DEF ViewInv, Seen, LabelledBy, LabelExplained
<1> QED BY <1>1, ViewInit, ViewNext, Invariant, PTL DEF Spec

-----------------------------------------------------------------------------
(* Balances.  A session sums over finitely many valid rows, and from its   *)
(* sum to its commit no row changes.                                       *)

Filled(table) == {e \in Events : table[e] # "absent"}

Summable(table) ==
  /\ IsFiniteSet(Filled(table))
  /\ \A e \in Filled(table) : table[e] \in Calls /\ Valid(table[e])

RowsInv ==
  /\ Summable(row)
  /\ \A c \in Calls : pc[c] \in {"sum", "commit"} => Valid(c)

BalanceInv == \A c \in Calls :
  pc[c] = "commit" => balance[c] \in Balances(Mutation(c), AccountOf[c])

\* A row that a session may add.
LEMMA MutationSummable ==
  ASSUME IInv, RowsInv, NEW c \in Calls, pc[c] \in {"sum", "commit"}
  PROVE  Summable(Mutation(c))
<1>1. EventOf[c] \in Events /\ row \in [Events -> Calls \union {"absent"}] /\ Valid(c)
  BY CallsAssumption DEF IInv, LedgerType, RowsInv
<1>2. stored[c] = c \/ stored[c] = row[EventOf[c]]
  BY DEF IInv, LockInv, ReadBack
<1>3. /\ Mutation(c)[EventOf[c]] = stored[c]
      /\ \A e \in Events : e # EventOf[c] => Mutation(c)[e] = row[e]
  BY <1>1 DEF Mutation
<1> DEFINE table == Mutation(c)
<1> HIDE DEF table
<1>4. Filled(table) \subseteq Filled(row) \union {EventOf[c]}
  BY <1>3 DEF Filled, table
<1>5. IsFiniteSet(Filled(row) \union {EventOf[c]})
  BY FS_AddElement DEF RowsInv, Summable
<1>6. IsFiniteSet(Filled(table))
  BY <1>4, <1>5, FS_Subset
<1>7. ASSUME NEW e \in Filled(table) PROVE table[e] \in Calls /\ Valid(table[e])
  <2>1. CASE table[e] = c
    BY <1>1, <2>1
  <2>2. CASE table[e] # c
    <3>1. table[e] = row[e] /\ e \in Filled(row)
      BY <1>2, <1>3, <1>7, <2>2 DEF Filled, table
    <3> QED BY <3>1 DEF RowsInv, Summable
  <2> QED BY <2>1, <2>2
<1> QED BY <1>6, <1>7 DEF Summable, table

\* The transactions that a balance adds up, in the order the rows are read.
LEMMA ListAddedUp ==
  ASSUME NEW table, Summable(table), NEW a, NEW order \in SetToSeqs(Rows(table, a))
  PROVE  LET S == Rows(table, a)
             txs == [i \in DOMAIN order |-> Transaction[table[order[i]]]]
         IN /\ IsFiniteSet(S) /\ Cardinality(S) \in Nat
            /\ DOMAIN txs = 1..Cardinality(S) /\ DOMAIN order = 1..Cardinality(S)
            /\ \A i \in 1..Cardinality(S) : order[i] \in S /\ txs[i].amount \in Int
            /\ \A e \in S : /\ Transaction[table[e]].type \in {"CREDIT", "DEBIT"}
                            /\ Transaction[table[e]].amount \in Nat
<1> DEFINE S == Rows(table, a)
<1>1. S \subseteq Filled(table)
  BY DEF Rows, Filled
<1>2. IsFiniteSet(S) /\ Cardinality(S) \in Nat
  BY <1>1, FS_Subset, FS_CardinalityType DEF Summable
<1>3. \A e \in S : table[e] \in Calls /\ Valid(table[e])
  BY <1>1 DEF Summable
<1>4. \A e \in S : /\ Transaction[table[e]].type \in {"CREDIT", "DEBIT"}
                   /\ Transaction[table[e]].amount \in Nat
  BY <1>3, CallsAssumption DEF Valid
<1> HIDE DEF S
<1>5. DOMAIN order = 1..Cardinality(S) /\ \A i \in 1..Cardinality(S) : order[i] \in S
  BY DEF SetToSeqs, S
<1> QED BY <1>2, <1>4, <1>5 DEF S

\* A balance is a number, and exact while the amounts together fit the precision.
LEMMA BalanceComesTo ==
  ASSUME NEW table, Summable(table), NEW a, NEW b \in Balances(table, a)
  PROVE  b \in Int /\ (Volume(table, a) < 10 ^ Precision => b = Exact(table, a))
<1> DEFINE S == Rows(table, a)
           n == Cardinality(S)
<1>1. PICK order \in SetToSeqs(S) :
        b = Total([i \in DOMAIN order |-> Transaction[table[order[i]]]])
  BY DEF Balances
<1> DEFINE txs == [i \in DOMAIN order |-> Transaction[table[order[i]]]]
           tx == [e \in S |-> Transaction[table[e]]]
<1>2. /\ IsFiniteSet(S) /\ n \in Nat
      /\ DOMAIN txs = 1..n /\ DOMAIN order = 1..n
      /\ \A i \in 1..n : order[i] \in S /\ txs[i].amount \in Int
      /\ \A e \in S : tx[e].type \in {"CREDIT", "DEBIT"} /\ tx[e].amount \in Nat
  BY ListAddedUp
<1>3. b \in Int
  <2>1. b = Total(txs)
    BY <1>1
  <2> HIDE DEF txs, n
  <2>2. \E f \in [0..n -> Int] : /\ f[0] = 0
                                 /\ \A i \in 1..n : f[i] = Plus(f[i - 1], txs[i])
                                 /\ Total(txs) = f[n]
    BY <1>2, TotalSteps
  <2>3. n \in 0..n
    BY <1>2
  <2> QED BY <2>1, <2>2, <2>3
<1>4. ASSUME Volume(table, a) < 10 ^ Precision PROVE b = Exact(table, a)
  <2>1. SumFunction([e \in S |-> tx[e].amount]) = Volume(table, a)
    BY DEF Volume
  <2>2. [i \in DOMAIN order |-> tx[order[i]]] = txs
    BY <1>2
  <2>3. SumFunction([e \in S |-> IF tx[e].type = "CREDIT" THEN tx[e].amount ELSE -tx[e].amount])
        = Exact(table, a)
    BY DEF Exact, Amount
  <2>4. b = Total(txs)
    BY <1>1
  <2> HIDE DEF S, tx, txs, n
  <2>5. Total([i \in DOMAIN order |-> tx[order[i]]]) =
        SumFunction([e \in S |-> IF tx[e].type = "CREDIT" THEN tx[e].amount ELSE -tx[e].amount])
    BY <1>2, <1>4, <2>1, TotalExact
  <2> QED BY <2>2, <2>3, <2>4, <2>5
<1> QED BY <1>3, <1>4

OtherType ==
  /\ writer \in Calls \union {"nobody"}
  /\ balance \in [Calls -> Int]
  /\ crashes \in 0..MaxCrashes

LEMMA OtherTypeNext == IInv /\ RowsInv /\ OtherType /\ [Next]_vars => OtherType'
<1> SUFFICES ASSUME IInv, RowsInv, OtherType, [Next]_vars PROVE OtherType'
  OBVIOUS
<1> USE DEF OtherType
<1>1. ASSUME NEW c \in Calls, Handle(c), ~SumBalance(c) PROVE OtherType'
  BY <1>1 DEF Handle, Refuse, InsertIfAbsent, LockTimeout, SumRaises, Commit
<1>2. ASSUME NEW c \in Calls, SumBalance(c) PROVE OtherType'
  <2>1. PICK b \in Balances(Mutation(c), AccountOf[c]) : balance' = [balance EXCEPT ![c] = b]
    BY <1>2 DEF SumBalance
  <2>2. b \in Int
    BY <1>2, <2>1, MutationSummable, BalanceComesTo DEF SumBalance
  <2> QED BY <1>2, <2>1, <2>2 DEF SumBalance
<1>3. ASSUME NEW v \in Reads, ReadBalance(v) \/ ReadCurrency(v) \/ ReadRecent(v)
      PROVE  OtherType'
  BY <1>3 DEF ReadBalance, ReadCurrency, ReadRecent, calls
<1>4. CASE Crash
  BY <1>4, BoundsAssumption DEF Crash
<1>5. CASE UNCHANGED vars
  BY <1>5 DEF vars, calls
<1> QED BY <1>1, <1>2, <1>3, <1>4, <1>5 DEF Next

\* A step that changes no row, reads none back, sums nothing, and brings no call into
\* a transaction.
LEMMA BalancesKept ==
  ASSUME RowsInv, BalanceInv, UNCHANGED <<row, stored, balance>>,
         \A c \in Calls : pc'[c] \in {"sum", "commit"} => pc'[c] = pc[c]
  PROVE  RowsInv' /\ BalanceInv'
<1>1. RowsInv'
  BY DEF RowsInv, Summable, Filled, Valid
<1>2. \A c \in Calls : Balances(Mutation(c), AccountOf[c])' = Balances(Mutation(c), AccountOf[c])
  BY DEF Mutation, Balances, Rows
<1>3. BalanceInv'
  BY <1>2 DEF BalanceInv
<1> QED BY <1>1, <1>3

\* Only the session that holds the lock is between its sum and its commit.
LEMMA OneAtCommit ==
  ASSUME IInv, NEW c \in Calls, NEW d \in Calls, pc[c] \in {"sum", "commit"},
         pc[d] \in {"sum", "commit"}
  PROVE  c = d
  BY DEF IInv, LockInv

LEMMA BalancesNext ==
  IInv /\ RowsInv /\ OtherType /\ BalanceInv /\ [Next]_vars => RowsInv' /\ BalanceInv'
<1> SUFFICES ASSUME IInv, RowsInv, OtherType, BalanceInv, [Next]_vars PROVE RowsInv' /\ BalanceInv'
  OBVIOUS
<1>0. LedgerType
  BY DEF IInv
<1>1. ASSUME NEW c \in Calls, Refuse(c) \/ LockTimeout(c) \/ SumRaises(c)
      PROVE  RowsInv' /\ BalanceInv'
  <2>1. \E code \in {400, 500} : Answer(c, code)
    BY <1>1 DEF Refuse, LockTimeout, SumRaises
  <2>2. \A d \in Calls : pc'[d] \in {"sum", "commit"} => pc'[d] = pc[d]
    BY <1>0, <2>1 DEF Answer, LedgerType
  <2>3. UNCHANGED <<row, stored, balance>>
    BY <1>1 DEF Refuse, LockTimeout, SumRaises
  <2> QED BY <2>2, <2>3, BalancesKept
<1>2. ASSUME NEW c \in Calls, InsertIfAbsent(c) PROVE RowsInv' /\ BalanceInv'
  <2>1. /\ row' = row /\ pc' = [pc EXCEPT ![c] = "sum"] /\ Valid(c)
        /\ \A d \in Calls : pc[d] \notin {"sum", "commit"}
    BY <1>2, CallsAssumption DEF InsertIfAbsent, IInv, LockInv
  <2>2. BalanceInv'
    BY <1>0, <2>1 DEF BalanceInv, LedgerType
  <2>3. RowsInv'
    BY <1>0, <2>1 DEF RowsInv, LedgerType, Summable, Filled, Valid
  <2> QED BY <2>2, <2>3
<1>3. ASSUME NEW c \in Calls, SumBalance(c) PROVE RowsInv' /\ BalanceInv'
  <2>1. PICK b \in Balances(Mutation(c), AccountOf[c]) : balance' = [balance EXCEPT ![c] = b]
    BY <1>3 DEF SumBalance
  <2>2. /\ UNCHANGED <<row, stored>> /\ pc[c] = "sum" /\ pc' = [pc EXCEPT ![c] = "commit"]
    BY <1>3 DEF SumBalance
  <2>3. RowsInv'
    BY <1>0, <2>2 DEF RowsInv, LedgerType, Summable, Filled, Valid
  <2>4. ASSUME NEW d \in Calls, pc'[d] = "commit"
        PROVE  balance'[d] \in Balances(Mutation(d), AccountOf[d])'
    <3>1. d = c
      BY <1>0, <2>2, <2>4, OneAtCommit DEF LedgerType
    <3>2. Balances(Mutation(c), AccountOf[c])' = Balances(Mutation(c), AccountOf[c])
      BY <2>2 DEF Mutation, Balances, Rows
    <3>3. balance'[c] = b
      BY <2>1 DEF OtherType
    <3> QED BY <3>1, <3>2, <3>3
  <2> QED BY <2>3, <2>4 DEF BalanceInv
<1>4. ASSUME NEW c \in Calls, Commit(c) PROVE RowsInv' /\ BalanceInv'
  <2>1. /\ row' = Mutation(c) /\ pc[c] = "commit" /\ pc' = [pc EXCEPT ![c] = "done"]
    BY <1>4 DEF Commit, Answer
  <2>2. Summable(Mutation(c))
    BY <2>1, MutationSummable
  <2>3. Summable(row')
    BY <2>1, <2>2
  <2>4. \A d \in Calls : pc'[d] \notin {"sum", "commit"}
    BY <1>0, <2>1, OneAtCommit DEF LedgerType
  <2>5. RowsInv'
    BY <2>3, <2>4 DEF RowsInv, Summable, Filled, Valid
  <2>6. BalanceInv'
    BY <2>4 DEF BalanceInv
  <2> QED BY <2>5, <2>6
<1>5. CASE Crash
  <2>1. \A d \in Calls : pc'[d] \in {"sum", "commit"} => pc'[d] = pc[d]
    BY <1>5 DEF Crash
  <2> QED BY <1>5, <2>1, BalancesKept DEF Crash
<1>6. CASE UNCHANGED <<row, calls>>
  BY <1>6, BalancesKept DEF calls
<1>7. ASSUME NEW v \in Reads, ReadBalance(v) \/ ReadCurrency(v) \/ ReadRecent(v)
      PROVE  UNCHANGED <<row, calls>>
  BY <1>7 DEF ReadBalance, ReadCurrency, ReadRecent
<1>8. UNCHANGED vars => UNCHANGED <<row, calls>>
  BY DEF vars
<1> QED BY <1>1, <1>2, <1>3, <1>4, <1>5, <1>6, <1>7, <1>8 DEF Next, Handle

LEMMA BalancesInit == Init => RowsInv /\ OtherType /\ BalanceInv
<1> SUFFICES ASSUME Init PROVE RowsInv /\ OtherType /\ BalanceInv
  OBVIOUS
<1>1. Filled(row) = {}
  BY DEF Init, Filled
<1>2. RowsInv
  BY <1>1, FS_EmptySet DEF Init, RowsInv, Summable
<1>3. BalanceInv
  BY DEF Init, BalanceInv
<1>4. OtherType
  BY BoundsAssumption DEF Init, OtherType
<1> QED BY <1>2, <1>3, <1>4

LEMMA BalancesHold == Spec => [](IInv /\ RowsInv /\ OtherType /\ BalanceInv)
<1> QED BY BalancesInit, OtherTypeNext, BalancesNext, Invariant, PTL DEF Spec

\* The balance of a reply is the account's when the reply's transaction commits: no
\* other call slips in between, and the sum is exact, whatever the order of the rows,
\* as long as the account's amounts together fit the precision.
THEOREM BalanceCurrent == Spec => ReplyBalanceCurrent
<1> DEFINE Reply == \A c \in Calls :
             /\ reply[c] = 0 /\ reply'[c] \in {200, 201}
             /\ Volume(row', AccountOf[c]) < 10 ^ Precision
             => balance[c] = Exact(row', AccountOf[c])
<1>1. IInv /\ RowsInv /\ BalanceInv /\ [Next]_vars => [Reply]_vars
  <2> SUFFICES ASSUME IInv, RowsInv, BalanceInv, [Next]_vars,
                      NEW c \in Calls, reply[c] = 0, reply'[c] \in {200, 201},
                      Volume(row', AccountOf[c]) < 10 ^ Precision
               PROVE  balance[c] = Exact(row', AccountOf[c])
    OBVIOUS
  <2>1. Commit(c)
    BY DEF Next, Handle, Refuse, InsertIfAbsent, LockTimeout, SumBalance, SumRaises, Commit,
           Answer, Crash, ReadBalance, ReadCurrency, ReadRecent, calls, vars, IInv, LedgerType
  <2>2. row' = Mutation(c) /\ pc[c] = "commit"
    BY <2>1 DEF Commit
  <2>3. Summable(Mutation(c)) /\ balance[c] \in Balances(Mutation(c), AccountOf[c])
    BY <2>2, MutationSummable DEF BalanceInv
  <2>4. Volume(Mutation(c), AccountOf[c]) < 10 ^ Precision
    BY <2>2
  <2>5. balance[c] = Exact(Mutation(c), AccountOf[c])
    BY <2>3, <2>4, BalanceComesTo
  <2> QED BY <2>2, <2>5
<1> QED BY <1>1, BalancesHold, PTL DEF Spec, ReplyBalanceCurrent

-----------------------------------------------------------------------------
(* Types.                                                                  *)

\* Every variable keeps its type, the totals and the audit log included, and the write
\* lock belongs to the call that is in its transaction.
THEOREM TypeCorrect == Spec => []TypeOK
<1>1. IInv /\ OtherType /\ AuditInv /\ ViewInv => TypeOK
  BY DEF IInv, LedgerType, LockInv, OtherType, AuditInv, Log, ViewInv, ViewType, TypeOK
<1>2. Spec => [](AuditInv /\ ViewInv)
  BY AuditInit, AuditNext, ViewInit, ViewNext, Invariant, PTL DEF Spec
<1> QED BY <1>1, <1>2, BalancesHold, PTL
=============================================================================
