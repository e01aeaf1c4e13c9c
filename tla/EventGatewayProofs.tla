------------------------- MODULE EventGatewayProofs -------------------------
(***************************************************************************)
(* Safety of the Event Gateway, for any events, requests, batch limit and  *)
(* number of crashes, and its refinement of the event state machine.       *)
(***************************************************************************)
EXTENDS EventGateway, FiniteSetTheorems, SequenceTheorems, TLAPS

-----------------------------------------------------------------------------
(* Type correctness.                                                       *)

LEMMA TypeInit == Init => TypeOK
<1> SUFFICES ASSUME Init PROVE TypeOK
  OBVIOUS
<1> USE DEF Init, Statuses, Codes
<1>1. audit \in [Events -> Seq(Actions)]
  OBVIOUS
<1>2. crashes \in 0..MaxCrashes
  BY BoundsAssumption
<1>3. dirty \in BOOLEAN
  OBVIOUS
<1> QED BY <1>1, <1>2, <1>3 DEF TypeOK

LEMMA AnswerType ==
  ASSUME TypeOK, NEW r \in Requests, NEW code \in Codes, Answer(r, code)
  PROVE  /\ pc' \in [Requests -> {"new", "dedupe", "insert", "call", "done", "lost"}]
         /\ saw' \in [Requests -> Statuses]
         /\ reply' \in [Requests -> Codes \union {0}]
  BY DEF TypeOK, Answer

LEMMA CommitType ==
  ASSUME TypeOK, NEW r \in Requests, NEW s \in {"QUEUED", "APPLIED", "FAILED"},
         NEW code \in Codes, CommitEvent(r, s, code),
         outbox' \subseteq Events, ahead' \in [Events -> SUBSET Events]
  PROVE  TypeOK'
<1>1. status' \in [Events -> Statuses]
  BY RequestsAssumption DEF CommitEvent, TypeOK, Statuses
<1>2. <<"RECEIVED", s>> \in Seq(Actions)
  BY DEF Actions
<1>3. audit' \in [Events -> Seq(Actions)]
  BY <1>2, RequestsAssumption DEF CommitEvent, TypeOK
<1>4. Answer(r, code)
  BY DEF CommitEvent
<1>5. /\ pc' \in [Requests -> {"new", "dedupe", "insert", "call", "done", "lost"}]
      /\ saw' \in [Requests -> Statuses]
      /\ reply' \in [Requests -> Codes \union {0}]
  BY <1>4, AnswerType
<1>6. UNCHANGED <<rp, todo, dirty, applied, failed, sent, ledger, crashes>>
  BY DEF CommitEvent, session, account
<1> QED BY <1>1, <1>3, <1>5, <1>6 DEF CommitEvent, TypeOK

LEMMA TypeNext == TypeOK /\ [Next]_vars => TypeOK'
<1> SUFFICES ASSUME TypeOK, [Next]_vars PROVE TypeOK'
  OBVIOUS
<1> USE RequestsAssumption DEF tables, handlers, session, account
<1>1. ASSUME NEW r \in Requests, Lookup(r) PROVE TypeOK'
  BY <1>1 DEF Lookup, TypeOK
<1>2. ASSUME NEW r \in Requests, Dedupe(r) PROVE TypeOK'
  <2>1. DuplicateCode(saw[r]) \in Codes
    BY DEF DuplicateCode, Codes
  <2>2. audit' \in [Events -> Seq(Actions)]
    BY <1>2 DEF Dedupe, TypeOK, Actions
  <2> QED BY <1>2, <2>1, <2>2, AnswerType DEF Dedupe, TypeOK
<1>3. ASSUME NEW r \in Requests, Insert(r) PROVE TypeOK'
  BY <1>3 DEF Insert, TypeOK
<1>4. ASSUME NEW r \in Requests, DuplicateKey(r) PROVE TypeOK'
  BY <1>4, AnswerType DEF DuplicateKey, TypeOK, Codes
<1>5. ASSUME NEW r \in Requests, LockTimeout(r) PROVE TypeOK'
  BY <1>5, AnswerType DEF LockTimeout, TypeOK, Codes
<1>6. ASSUME NEW r \in Requests, Send(r) PROVE TypeOK'
  BY <1>6 DEF Send, TypeOK
<1>7. ASSUME NEW r \in Requests, CallApplied(r) PROVE TypeOK'
  <2>1. CommitEvent(r, "APPLIED", 201) /\ UNCHANGED <<outbox, ahead>>
    BY <1>7 DEF CallApplied
  <2>2. 201 \in Codes
    BY DEF Codes
  <2>3. outbox' \subseteq Events /\ ahead' \in [Events -> SUBSET Events]
    BY <2>1 DEF TypeOK
  <2> QED BY <2>1, <2>2, <2>3, CommitType
<1>8. ASSUME NEW r \in Requests, CallUnavailable(r) PROVE TypeOK'
  <2>1. CommitEvent(r, "QUEUED", 503)
    BY <1>8 DEF CallUnavailable, Enqueue
  <2>2. 503 \in Codes
    BY DEF Codes
  <2>3. outbox' \subseteq Events /\ ahead' \in [Events -> SUBSET Events]
    BY <1>8 DEF CallUnavailable, Enqueue, TypeOK
  <2> QED BY <2>1, <2>2, <2>3, CommitType
<1>9. ASSUME NEW r \in Requests, CallRejected(r) PROVE TypeOK'
  <2>1. CommitEvent(r, "FAILED", 400) /\ UNCHANGED <<outbox, ahead>>
    BY <1>9 DEF CallRejected
  <2>2. 400 \in Codes
    BY DEF Codes
  <2>3. outbox' \subseteq Events /\ ahead' \in [Events -> SUBSET Events]
    BY <2>1 DEF TypeOK
  <2> QED BY <2>1, <2>2, <2>3, CommitType
<1>10. CASE DrainStart
  BY <1>10 DEF DrainStart, TypeOK, Batch
<1>11. CASE Fetch
  <2>1. writer' \in Requests \union {"replayer", "nobody"}
    BY <1>11 DEF Fetch, Flush, TypeOK
  <2>2. dirty' \in BOOLEAN
    BY <1>11 DEF Fetch, Flush, TypeOK
  <2> QED BY <1>11, <2>1, <2>2 DEF Fetch, TypeOK
<1>12. ASSUME NEW e \in Events, ReplaySend(e) PROVE TypeOK'
  BY <1>12 DEF ReplaySend, TypeOK
<1>13. ASSUME NEW e \in Events, ReplayApplied(e) PROVE TypeOK'
  <2>1. dirty' \in BOOLEAN
    BY <1>13 DEF ReplayApplied, Flush
  <2> QED BY <1>13, <2>1 DEF ReplayApplied, Flush, Visited, TypeOK
<1>14. ASSUME NEW e \in Events, ReplayRejected(e) PROVE TypeOK'
  <2>1. dirty' \in BOOLEAN
    BY <1>14 DEF ReplayRejected, Flush
  <2> QED BY <1>14, <2>1 DEF ReplayRejected, Flush, Visited, TypeOK
<1>15. ASSUME NEW e \in Events, ReplayDeferred(e) PROVE TypeOK'
  <2>1. dirty' \in BOOLEAN
    BY <1>15 DEF ReplayDeferred
  <2> QED BY <1>15, <2>1 DEF ReplayDeferred, Visited, TypeOK
<1>16. CASE DrainCommit
  <2>1. dirty' \in BOOLEAN
    BY <1>16 DEF DrainCommit, EndDrain
  <2>2. status' \in [Events -> Statuses]
    BY <1>16 DEF DrainCommit, TypeOK, Statuses
  <2>3. audit' \in [Events -> Seq(Actions)]
    <3>1. ASSUME NEW e \in Events PROVE Trail(e) \in Seq(Actions)
      <4>1. <<"REPLAYED">> \in Seq(Actions) /\ <<"FAILED">> \in Seq(Actions)
        BY DEF Actions
      <4>2. << >> \in Seq(Actions)
        OBVIOUS
      <4> QED BY <4>1, <4>2 DEF Trail
    <3>2. \A e \in Events : audit[e] \o Trail(e) \in Seq(Actions)
      BY <3>1 DEF TypeOK
    <3> QED BY <1>16, <3>2 DEF DrainCommit
  <2> QED BY <1>16, <2>1, <2>2, <2>3 DEF DrainCommit, EndDrain, TypeOK
<1>17. CASE DrainLockTimeout
  <2>1. dirty' \in BOOLEAN
    BY <1>17 DEF DrainLockTimeout, EndDrain
  <2> QED BY <1>17, <2>1 DEF DrainLockTimeout, EndDrain, TypeOK
<1>18. ASSUME NEW e \in Events, Apply(e) PROVE TypeOK'
  BY <1>18 DEF Apply, TypeOK
<1>19. CASE Crash
  <2>1. dirty' \in BOOLEAN
    BY <1>19 DEF Crash, EndDrain
  <2>2. crashes' \in 0..MaxCrashes
    BY <1>19, BoundsAssumption DEF Crash, TypeOK
  <2> QED BY <1>19, <2>1, <2>2 DEF Crash, EndDrain, TypeOK
<1>20. CASE UNCHANGED vars
  BY <1>20 DEF vars, TypeOK
<1> QED
  BY <1>1, <1>2, <1>3, <1>4, <1>5, <1>6, <1>7, <1>8, <1>9, <1>10, <1>11, <1>12, <1>13,
     <1>14, <1>15, <1>16, <1>17, <1>18, <1>19, <1>20
  DEF Next, Ingest, Replay, Drain

\* Every reachable state of the Gateway is well typed.
THEOREM TypeCorrect == Spec => []TypeOK
  BY TypeInit, TypeNext, PTL DEF Spec
-----------------------------------------------------------------------------
(* The inductive invariant.  The properties are not inductive alone: they  *)
(* rest on who may write when (HandlerInv, SessionInv) and on what the     *)
(* Account Service can know (LedgerInv, SentKnown).                        *)

\* A handler in its call holds the lock and its event has no committed row; a
\* duplicate's event has one, and what its lookup saw of a settled one holds.
HandlerInv == \A r \in Requests :
  /\ pc[r] = "call" <=> writer = r
  /\ pc[r] = "call" => status[EventOf[r]] = "absent"
  /\ pc[r] = "dedupe" => /\ saw[r] # "absent" /\ status[EventOf[r]] # "absent"
                         /\ saw[r] \in {"APPLIED", "FAILED"} => status[EventOf[r]] = saw[r]

SessionInv ==
  /\ DrainSnapshotFresh
  /\ rp = "sleep" => applied = {} /\ failed = {}
  /\ applied \subseteq ledger /\ failed \subseteq Rejected

LedgerInv == ledger \subseteq sent /\ ledger \cap Rejected = {}

SentKnown == \A e \in sent :
  status[e] # "absent" \/ crashes > 0 \/ \E r \in Requests : writer = r /\ EventOf[r] = e

IInv == /\ TypeOK /\ HandlerInv /\ SessionInv /\ LedgerInv /\ SentKnown
        /\ QueuedIffPending /\ Agreement /\ ReplyDurable /\ OneOriginal

LEMMA IInvInit == Init => IInv
<1> SUFFICES ASSUME Init PROVE IInv
  OBVIOUS
<1>1. TypeOK
  BY TypeInit
<1>2. HandlerInv
  BY RequestsAssumption DEF Init, HandlerInv
<1>3. SessionInv /\ LedgerInv /\ SentKnown
  BY DEF Init, SessionInv, LedgerInv, SentKnown, DrainSnapshotFresh
<1>4. QueuedIffPending /\ Agreement
  BY DEF Init, QueuedIffPending, Agreement
<1>5. ReplyDurable /\ OneOriginal
  BY DEF Init, ReplyDurable, OneOriginal
<1> QED BY <1>1, <1>2, <1>3, <1>4, <1>5 DEF IInv

\* The committed tables change only when a handler or a drain commits.
LEMMA TablesChange ==
  ASSUME [Next]_vars
  PROVE  \/ \E r \in Requests : CallApplied(r) \/ CallUnavailable(r) \/ CallRejected(r)
         \/ DrainCommit
         \/ UNCHANGED <<status, outbox>>
  BY DEF Next, Ingest, Replay, Drain, vars, tables, Lookup, Dedupe, Insert, DuplicateKey,
     LockTimeout, Send, DrainStart, Fetch, ReplaySend, ReplayApplied, ReplayRejected,
     ReplayDeferred, Visited, DrainLockTimeout, Apply, Crash

\* A handler commits under the lock the outcome of an event that had no row.
LEMMA HandlerCommit ==
  ASSUME IInv, NEW r \in Requests, CallApplied(r) \/ CallUnavailable(r) \/ CallRejected(r)
  PROVE  /\ EventOf[r] \in Events /\ writer = r /\ status[EventOf[r]] = "absent"
         /\ applied = {} /\ failed = {}
         /\ UNCHANGED <<rp, todo, applied, failed, sent, ledger, crashes>>
         /\ writer' = "nobody" /\ saw' = saw /\ pc' = [pc EXCEPT ![r] = "done"]
         /\ \/ /\ status' = [status EXCEPT ![EventOf[r]] = "APPLIED"] /\ outbox' = outbox
               /\ reply' = [reply EXCEPT ![r] = 201] /\ EventOf[r] \in ledger
            \/ /\ status' = [status EXCEPT ![EventOf[r]] = "QUEUED"]
               /\ outbox' = outbox \union {EventOf[r]} /\ reply' = [reply EXCEPT ![r] = 503]
            \/ /\ status' = [status EXCEPT ![EventOf[r]] = "FAILED"] /\ outbox' = outbox
               /\ reply' = [reply EXCEPT ![r] = 400] /\ EventOf[r] \in Rejected
<1>1. EventOf[r] \in Events /\ r # "replayer" /\ r # "nobody"
  BY RequestsAssumption
<1>2. pc[r] = "call"
  BY DEF CallApplied, CallUnavailable, Enqueue, CallRejected
<1>3. writer = r /\ status[EventOf[r]] = "absent"
  BY <1>2 DEF IInv, HandlerInv
<1>4. applied = {} /\ failed = {}
  BY <1>1, <1>3 DEF IInv, SessionInv, DrainSnapshotFresh
<1>5. CASE CallApplied(r)
  BY <1>1, <1>3, <1>4, <1>5 DEF CallApplied, CommitEvent, Answer, session, account
<1>6. CASE CallUnavailable(r)
  BY <1>1, <1>3, <1>4, <1>6 DEF CallUnavailable, Enqueue, CommitEvent, Answer, session, account
<1>7. CASE CallRejected(r)
  BY <1>1, <1>3, <1>4, <1>7 DEF CallRejected, CommitEvent, Answer, session, account
<1> QED BY <1>5, <1>6, <1>7

\* No step takes a row away, and none changes a settled one.
LEMMA StatusForward ==
  ASSUME IInv, [Next]_vars, NEW e \in Events
  PROVE  /\ status[e] # "absent" => status'[e] # "absent"
         /\ status[e] \in {"APPLIED", "FAILED"} => status'[e] = status[e]
<1>1. ASSUME NEW r \in Requests, CallApplied(r) \/ CallUnavailable(r) \/ CallRejected(r)
      PROVE  status[e] # "absent" => status'[e] = status[e]
  BY <1>1, HandlerCommit DEF IInv, TypeOK
<1>2. CASE DrainCommit
  BY <1>2 DEF DrainCommit, IInv, TypeOK, SessionInv, DrainSnapshotFresh, QueuedIffPending
<1> QED BY <1>1, <1>2, TablesChange

\* QUEUED rows and outbox rows come and go together.
LEMMA QueuedNext ==
  ASSUME IInv, [Next]_vars PROVE QueuedIffPending'
<1>1. ASSUME NEW r \in Requests, CallApplied(r) \/ CallUnavailable(r) \/ CallRejected(r)
      PROVE  QueuedIffPending'
  BY <1>1, HandlerCommit DEF IInv, TypeOK, QueuedIffPending
<1>2. CASE DrainCommit
  BY <1>2 DEF DrainCommit, IInv, TypeOK, SessionInv, DrainSnapshotFresh, QueuedIffPending
<1>3. CASE UNCHANGED <<status, outbox>>
  BY <1>3 DEF IInv, QueuedIffPending
<1> QED BY <1>1, <1>2, <1>3, TablesChange
\* Calls are executed only after they were sent, and never for a rejected event.
LEMMA LedgerNext ==
  ASSUME IInv, [Next]_vars
  PROVE  LedgerInv' /\ ledger \subseteq ledger' /\ sent \subseteq sent'
<1>1. \/ UNCHANGED <<sent, ledger>>
      \/ \E r \in Requests : Send(r)
      \/ \E e \in Events : ReplaySend(e) \/ Apply(e)
  BY DEF Next, Ingest, Replay, Drain, vars, account, Lookup, Dedupe, Insert, DuplicateKey,
     LockTimeout, CallApplied, CallUnavailable, Enqueue, CallRejected, CommitEvent, DrainStart,
     Fetch, ReplayApplied, ReplayRejected, ReplayDeferred, Visited, DrainCommit,
     DrainLockTimeout, Crash
<1> QED BY <1>1 DEF IInv, LedgerInv, Send, ReplaySend, Apply

\* A settled row says what the Account Service did.
LEMMA AgreementNext ==
  ASSUME IInv, [Next]_vars PROVE Agreement'
<1>1. LedgerInv' /\ ledger \subseteq ledger'
  BY LedgerNext
<1>2. ASSUME NEW r \in Requests, CallApplied(r) \/ CallUnavailable(r) \/ CallRejected(r)
      PROVE  Agreement'
  BY <1>1, <1>2, HandlerCommit DEF IInv, TypeOK, Agreement, LedgerInv
<1>3. CASE DrainCommit
  BY <1>1, <1>3 DEF DrainCommit, IInv, TypeOK, SessionInv, DrainSnapshotFresh, Agreement,
     LedgerInv
<1>4. CASE UNCHANGED <<status, outbox>>
  BY <1>1, <1>4 DEF IInv, Agreement, LedgerInv
<1> QED BY <1>2, <1>3, <1>4, TablesChange

\* Who takes the lock, who gives it back, and that nobody takes another's.
LEMMA WriterChange ==
  ASSUME IInv, [Next]_vars
  PROVE  \/ writer' = writer
         \/ \E r \in Requests : Insert(r) \/ CallApplied(r) \/ CallUnavailable(r) \/ CallRejected(r)
         \/ writer \notin Requests /\ writer' \in {"replayer", "nobody"}
         \/ Crash
  BY RequestsAssumption
  DEF Next, Ingest, Replay, Drain, vars, Lookup, Dedupe, DuplicateKey, LockTimeout, Send,
      DrainStart, Fetch, Flush, CanWrite, ReplaySend, ReplayApplied, ReplayRejected,
      ReplayDeferred, Visited, DrainCommit, DrainLockTimeout, Apply

\* An event that was called for has a row or a running handler, or a crash
\* took its handler away.
LEMMA SentKnownNext ==
  ASSUME IInv, [Next]_vars PROVE SentKnown'
<1> SUFFICES ASSUME NEW e \in sent'
             PROVE  \/ status'[e] # "absent" \/ crashes' > 0
                    \/ \E r \in Requests : writer' = r /\ EventOf[r] = e
  BY DEF SentKnown
<1>1. e \in Events
  BY TypeNext DEF IInv, TypeOK
<1>2. crashes \in Nat /\ crashes' \in Nat /\ (crashes' = crashes \/ crashes' = crashes + 1)
  <2>1. crashes' = crashes \/ crashes' = crashes + 1
    BY DEF Next, Ingest, Replay, Drain, vars, Lookup, Dedupe, Insert, DuplicateKey, LockTimeout,
       Send, CallApplied, CallUnavailable, Enqueue, CallRejected, CommitEvent, DrainStart, Fetch,
       ReplaySend, ReplayApplied, ReplayRejected, ReplayDeferred, Visited, DrainCommit,
       DrainLockTimeout, Apply, Crash
  <2> QED BY <2>1, BoundsAssumption DEF IInv, TypeOK
<1>3. CASE e \in sent /\ (status[e] # "absent" \/ crashes > 0)
  BY <1>1, <1>2, <1>3, StatusForward
<1>4. CASE e \notin sent
  <2>1. (\E r \in Requests : Send(r) /\ EventOf[r] = e) \/ ReplaySend(e)
    BY <1>4 DEF Next, Ingest, Replay, Drain, vars, account, Lookup, Dedupe, Insert, DuplicateKey,
       LockTimeout, Send, CallApplied, CallUnavailable, Enqueue, CallRejected, CommitEvent,
       DrainStart, Fetch, ReplaySend, ReplayApplied, ReplayRejected, ReplayDeferred, Visited,
       DrainCommit, DrainLockTimeout, Apply, Crash
  <2>2. ASSUME NEW r \in Requests, Send(r), EventOf[r] = e
        PROVE  writer' = r
    BY <2>2 DEF Send, IInv, HandlerInv
  <2>3. CASE ReplaySend(e)
    <3>1. e \in outbox
      BY <2>3 DEF ReplaySend, Current, IInv, SessionInv, DrainSnapshotFresh
    <3>2. status[e] # "absent"
      BY <3>1, <1>1 DEF IInv, QueuedIffPending
    <3> QED BY <3>2, <1>1, StatusForward
  <2> QED BY <2>1, <2>2, <2>3
<1>5. ASSUME e \in sent, NEW r \in Requests, writer = r, EventOf[r] = e
      PROVE  \/ status'[e] # "absent" \/ crashes' > 0
             \/ \E q \in Requests : writer' = q /\ EventOf[q] = e
  <2>1. CASE writer' = writer
    BY <1>5, <2>1
  <2>2. ASSUME NEW q \in Requests, Insert(q) PROVE FALSE
    BY <1>5, <2>2, RequestsAssumption DEF Insert, CanWrite, IInv, HandlerInv
  <2>3. ASSUME NEW q \in Requests, CallApplied(q) \/ CallUnavailable(q) \/ CallRejected(q)
        PROVE  status'[e] # "absent"
    BY <1>1, <1>5, <2>3, HandlerCommit DEF IInv, TypeOK
  <2>4. CASE Crash
    <3>1. crashes' = crashes + 1
      BY <2>4 DEF Crash
    <3> QED BY <3>1, <1>2
  <2> QED BY <1>5, <2>1, <2>2, <2>3, <2>4, WriterChange
<1> QED BY <1>3, <1>4, <1>5 DEF IInv, SentKnown
\* Handlers keep to the lock: what one has seen or is about to write stays true
\* while the others run.
LEMMA HandlerNext ==
  ASSUME IInv, [Next]_vars PROVE HandlerInv'
<1>1. \A q \in Requests : EventOf[q] \in Events /\ q # "replayer" /\ q # "nobody"
  BY RequestsAssumption
<1> USE <1>1
<1>2. ASSUME NEW r \in Requests, Lookup(r) PROVE HandlerInv'
  BY <1>2 DEF Lookup, tables, IInv, TypeOK, HandlerInv
<1>3. ASSUME NEW r \in Requests, Dedupe(r) PROVE HandlerInv'
  BY <1>3 DEF Dedupe, Answer, IInv, TypeOK, HandlerInv
<1>4. ASSUME NEW r \in Requests, Insert(r) PROVE HandlerInv'
  <2>1. \A x \in Requests : pc[x] # "call"
    BY <1>4, RequestsAssumption DEF Insert, CanWrite, IInv, HandlerInv
  <2> QED BY <1>4, <2>1, RequestsAssumption DEF Insert, tables, IInv, TypeOK, HandlerInv
<1>5. ASSUME NEW r \in Requests, DuplicateKey(r) \/ LockTimeout(r) PROVE HandlerInv'
  BY <1>5 DEF DuplicateKey, LockTimeout, Answer, tables, IInv, TypeOK, HandlerInv
<1>6. ASSUME NEW r \in Requests, CallApplied(r) \/ CallUnavailable(r) \/ CallRejected(r)
      PROVE  HandlerInv'
  <2>1. writer = r /\ writer' = "nobody" /\ saw' = saw /\ pc' = [pc EXCEPT ![r] = "done"]
    BY <1>6, HandlerCommit
  <2>2. ASSUME NEW x \in Requests PROVE pc'[x] # "call" /\ x # "nobody"
    BY <2>1, RequestsAssumption DEF IInv, TypeOK, HandlerInv
  <2>3. ASSUME NEW x \in Requests, pc'[x] = "dedupe" PROVE pc[x] = "dedupe" /\ saw'[x] = saw[x]
    BY <2>1, <2>3 DEF IInv, TypeOK
  <2>4. ASSUME NEW x \in Requests
        PROVE  /\ status[EventOf[x]] # "absent" => status'[EventOf[x]] # "absent"
               /\ status[EventOf[x]] \in {"APPLIED", "FAILED"}
                    => status'[EventOf[x]] = status[EventOf[x]]
    BY RequestsAssumption, StatusForward
  <2> QED BY <2>1, <2>2, <2>3, <2>4 DEF IInv, HandlerInv
<1>7. CASE DrainCommit
  <2>1. \A x \in Requests : pc[x] # "call" /\ x # "nobody"
    BY <1>7, RequestsAssumption DEF DrainCommit, CanWrite, IInv, HandlerInv
  <2>2. pc' = pc /\ saw' = saw /\ writer' = "nobody"
    BY <1>7 DEF DrainCommit, handlers
  <2>3. \A x \in Requests : /\ status[EventOf[x]] # "absent" => status'[EventOf[x]] # "absent"
                            /\ status[EventOf[x]] \in {"APPLIED", "FAILED"}
                                 => status'[EventOf[x]] = status[EventOf[x]]
    BY RequestsAssumption, StatusForward
  <2> QED BY <2>1, <2>2, <2>3 DEF IInv, HandlerInv
<1>8. CASE UNCHANGED <<status, pc, saw>> /\ writer \notin Requests
           /\ writer' \in {"replayer", "nobody"}
  BY <1>8, RequestsAssumption DEF IInv, HandlerInv
<1>9. CASE UNCHANGED <<status, pc, saw, writer>>
  BY <1>9 DEF IInv, HandlerInv
<1>10. CASE Crash
  <2>1. \A x \in Requests : pc'[x] # "call" /\ pc'[x] # "dedupe" /\ x # "nobody"
    BY <1>10, RequestsAssumption DEF Crash, IInv, TypeOK
  <2> QED BY <1>10, <2>1 DEF Crash, HandlerInv
<1>11. \/ \E r \in Requests : Lookup(r) \/ Dedupe(r) \/ Insert(r) \/ DuplicateKey(r)
            \/ LockTimeout(r) \/ CallApplied(r) \/ CallUnavailable(r) \/ CallRejected(r)
       \/ DrainCommit \/ Crash
       \/ UNCHANGED <<status, pc, saw, writer>>
       \/ /\ UNCHANGED <<status, pc, saw>> /\ writer \notin Requests
          /\ writer' \in {"replayer", "nobody"}
  BY RequestsAssumption
  DEF Next, Ingest, Replay, Drain, vars, tables, handlers, Send, DrainStart, Fetch, Flush,
      CanWrite, ReplaySend, ReplayApplied, ReplayRejected, ReplayDeferred, Visited,
      DrainLockTimeout, Apply
<1>12. CASE \E r \in Requests : Lookup(r) \/ Dedupe(r) \/ Insert(r) \/ DuplicateKey(r)
              \/ LockTimeout(r) \/ CallApplied(r) \/ CallUnavailable(r) \/ CallRejected(r)
  BY <1>2, <1>3, <1>4, <1>5, <1>6, <1>12
<1> QED BY <1>7, <1>8, <1>9, <1>10, <1>11, <1>12

\* The replayer's batch stays what it was when it was read.
LEMMA SessionNext ==
  ASSUME IInv, [Next]_vars PROVE SessionInv'
<1> USE DEF SessionInv, DrainSnapshotFresh
<1>1. ASSUME NEW r \in Requests, CallApplied(r) \/ CallUnavailable(r) \/ CallRejected(r)
      PROVE  SessionInv'
  BY <1>1, HandlerCommit DEF IInv
<1>2. ASSUME NEW r \in Requests, Insert(r) PROVE SessionInv'
  BY <1>2, RequestsAssumption DEF Insert, CanWrite, tables, session, account, IInv
<1>3. CASE DrainStart
  BY <1>3 DEF DrainStart, Batch, tables, account, IInv
<1>4. CASE Fetch
  BY <1>4 DEF Fetch, Flush, tables, account, IInv
<1>5. ASSUME NEW e \in Events, ReplayApplied(e) PROVE SessionInv'
  BY <1>5 DEF ReplayApplied, Current, Flush, Visited, tables, account, IInv
<1>6. ASSUME NEW e \in Events, ReplayRejected(e) PROVE SessionInv'
  BY <1>6 DEF ReplayRejected, Current, Flush, Visited, tables, account, IInv
<1>7. ASSUME NEW e \in Events, ReplayDeferred(e) PROVE SessionInv'
  BY <1>7 DEF ReplayDeferred, Current, Visited, tables, account, IInv
<1>8. CASE DrainCommit \/ DrainLockTimeout \/ Crash
  BY <1>8 DEF DrainCommit, DrainLockTimeout, Crash, EndDrain
<1>9. ASSUME NEW e \in Events, Apply(e) PROVE SessionInv'
  BY <1>9 DEF Apply, tables, session, IInv
<1>10. CASE UNCHANGED <<outbox, writer, rp, todo, applied, failed, ledger>>
  BY <1>10 DEF IInv
<1>11. \/ \E r \in Requests : Insert(r) \/ CallApplied(r) \/ CallUnavailable(r) \/ CallRejected(r)
       \/ \E e \in Events : ReplayApplied(e) \/ ReplayRejected(e) \/ ReplayDeferred(e) \/ Apply(e)
       \/ DrainStart \/ Fetch \/ DrainCommit \/ DrainLockTimeout \/ Crash
       \/ UNCHANGED <<outbox, writer, rp, todo, applied, failed, ledger>>
  BY DEF Next, Ingest, Replay, Drain, vars, tables, session, account, Lookup, Dedupe,
     DuplicateKey, LockTimeout, Send, ReplaySend
<1> QED BY <1>1, <1>2, <1>3, <1>4, <1>5, <1>6, <1>7, <1>8, <1>9, <1>10, <1>11
\* Answers are given by these steps only, from what the handler committed or saw.
LEMMA ReplyChange ==
  ASSUME IInv, [Next]_vars, NEW r \in Requests, reply'[r] # reply[r]
  PROVE  \/ CallApplied(r) \/ CallUnavailable(r) \/ CallRejected(r)
         \/ reply'[r] = 500
         \/ reply'[r] = DuplicateCode(saw[r]) /\ pc[r] = "dedupe" /\ status' = status
<1>1. ASSUME NEW q \in Requests, NEW code, Answer(q, code)
      PROVE  q = r /\ reply'[r] = code
  BY <1>1 DEF Answer, IInv, TypeOK
<1>2. ASSUME NEW q \in Requests, Dedupe(q) \/ DuplicateKey(q) \/ LockTimeout(q)
      PROVE  \/ reply'[r] = 500
             \/ reply'[r] = DuplicateCode(saw[r]) /\ pc[r] = "dedupe" /\ status' = status
  BY <1>1, <1>2 DEF Dedupe, DuplicateKey, LockTimeout
<1>3. ASSUME NEW q \in Requests, CallApplied(q) \/ CallUnavailable(q) \/ CallRejected(q)
      PROVE  q = r
  BY <1>1, <1>3 DEF CallApplied, CallUnavailable, Enqueue, CallRejected, CommitEvent
<1>4. \/ UNCHANGED reply
      \/ \E q \in Requests : Dedupe(q) \/ DuplicateKey(q) \/ LockTimeout(q) \/ CallApplied(q)
           \/ CallUnavailable(q) \/ CallRejected(q)
  BY DEF Next, Ingest, Replay, Drain, vars, handlers, Lookup, Insert, Send, DrainStart, Fetch,
     ReplaySend, ReplayApplied, ReplayRejected, ReplayDeferred, Visited, DrainCommit,
     DrainLockTimeout, Apply, Crash
<1> QED BY <1>2, <1>3, <1>4

\* What was answered stays true.
LEMMA ReplyNext ==
  ASSUME IInv, [Next]_vars PROVE ReplyDurable'
<1> SUFFICES ASSUME NEW r \in Requests
             PROVE  LET s == status'[EventOf[r]] IN
                    /\ reply'[r] \in {202, 503} => s # "absent"
                    /\ reply'[r] = 201 => s = "APPLIED"
                    /\ reply'[r] = 200 => s \in {"APPLIED", "FAILED"}
                    /\ reply'[r] = 400 => s = "FAILED"
  BY DEF ReplyDurable
<1>1. EventOf[r] \in Events
  BY RequestsAssumption
<1>2. CASE reply'[r] = reply[r]
  BY <1>1, <1>2, StatusForward DEF IInv, ReplyDurable
<1>3. CASE CallApplied(r) \/ CallUnavailable(r) \/ CallRejected(r)
  BY <1>1, <1>3, HandlerCommit DEF IInv, TypeOK
<1>4. CASE reply'[r] = DuplicateCode(saw[r]) /\ pc[r] = "dedupe" /\ status' = status
  BY <1>1, <1>4 DEF DuplicateCode, IInv, HandlerInv, TypeOK, Statuses
<1>5. CASE reply'[r] = 500
  BY <1>5
<1> QED BY <1>2, <1>3, <1>4, <1>5, ReplyChange

\* A second original answer would need a second handler in its call for an event
\* that already has a row.
LEMMA OriginalNext ==
  ASSUME IInv, [Next]_vars PROVE OneOriginal'
<1> DEFINE original == {201, 503, 400}
<1>1. ASSUME NEW r \in Requests, reply'[r] # reply[r], reply'[r] \in original
      PROVE  /\ CallApplied(r) \/ CallUnavailable(r) \/ CallRejected(r)
             /\ status[EventOf[r]] = "absent"
             /\ \A q \in Requests : q # r => reply'[q] = reply[q]
  <2>1. CallApplied(r) \/ CallUnavailable(r) \/ CallRejected(r)
    BY <1>1, ReplyChange DEF DuplicateCode
  <2> QED BY <2>1, HandlerCommit DEF IInv, TypeOK
<1>2. ASSUME NEW q \in Requests, reply[q] \in original
      PROVE  status[EventOf[q]] # "absent"
  BY <1>2 DEF IInv, ReplyDurable
<1>3. ASSUME NEW r1 \in Requests, NEW r2 \in Requests, EventOf[r1] = EventOf[r2],
             reply'[r1] \in original, reply'[r2] \in original
      PROVE  r1 = r2
  <2>1. CASE reply'[r1] = reply[r1] /\ reply'[r2] = reply[r2]
    BY <1>3, <2>1 DEF IInv, OneOriginal
  <2>2. CASE reply'[r1] # reply[r1]
    BY <1>1, <1>2, <1>3, <2>2
  <2>3. CASE reply'[r2] # reply[r2]
    BY <1>1, <1>2, <1>3, <2>3
  <2> QED BY <2>1, <2>2, <2>3
<1> QED BY <1>3 DEF OneOriginal

LEMMA IInvNext == IInv /\ [Next]_vars => IInv'
<1> SUFFICES ASSUME IInv, [Next]_vars PROVE IInv'
  OBVIOUS
<1>1. TypeOK'
  BY TypeNext DEF IInv
<1>2. HandlerInv' /\ SessionInv'
  BY HandlerNext, SessionNext
<1>3. LedgerInv' /\ SentKnown' /\ Agreement'
  BY LedgerNext, SentKnownNext, AgreementNext
<1>4. QueuedIffPending' /\ ReplyDurable' /\ OneOriginal'
  BY QueuedNext, ReplyNext, OriginalNext
<1> QED BY <1>1, <1>2, <1>3, <1>4 DEF IInv

LEMMA InductiveInvariant == Spec => []IInv
  BY IInvInit, IInvNext, PTL DEF Spec

-----------------------------------------------------------------------------
(* The theorems.                                                           *)

\* An event is QUEUED exactly while the outbox has a row for it
\* (event_service.py:102-112, outbox_replayer.py:79-101).
THEOREM QueueConsistent == Spec => []QueuedIffPending
<1>1. IInv => QueuedIffPending  BY DEF IInv
<1> QED BY <1>1, InductiveInvariant, PTL

\* The entries a drain read stay queued until its commit, which nobody can
\* interleave with (outbox_replayer.py:58-101).
THEOREM SnapshotFresh == Spec => []DrainSnapshotFresh
<1>1. IInv => DrainSnapshotFresh  BY DEF IInv, SessionInv
<1> QED BY <1>1, InductiveInvariant, PTL

\* Gateway and Account Service agree on every settled event, under any loss,
\* delay or duplication of calls and any number of crashes.
THEOREM ServicesAgree == Spec => []Agreement
<1>1. IInv => Agreement  BY DEF IInv
<1> QED BY <1>1, InductiveInvariant, PTL

\* Without a crash the Account Service holds nothing the Gateway does not know.
THEOREM NoOrphan == Spec => []NoOrphanWithoutCrash
<1>1. IInv => NoOrphanWithoutCrash
  BY DEF IInv, LedgerInv, SentKnown, NoOrphanWithoutCrash
<1> QED BY <1>1, InductiveInvariant, PTL

\* At most one of the requests for an event is answered as the original
\* (event_service.py:53-138, the primary key of events).
THEOREM OriginalUnique == Spec => []OneOriginal
<1>1. IInv => OneOriginal  BY DEF IInv
<1> QED BY <1>1, InductiveInvariant, PTL

\* No later step, replay or crash makes an answer untrue.
THEOREM RepliesDurable == Spec => []ReplyDurable
<1>1. IInv => ReplyDurable  BY DEF IInv
<1> QED BY <1>1, InductiveInvariant, PTL

-----------------------------------------------------------------------------
(* The audit log.  Its invariant rests on IInv, and on a request being     *)
(* answered once.                                                          *)

AnsweredOnce == \A r \in Requests : reply[r] # 0 => pc[r] = "done"

\* The two parts of AuditTrail: how many entries are about duplicates, and what the
\* others tell.
Counted(log, n) == Cardinality(DOMAIN log \ Told(log)) = n

Tells(log, s) ==
  \/ s = "absent" /\ log = <<>>
  \/ /\ s # "absent" /\ Len(log) >= 2 /\ log[1] = "RECEIVED"
     /\ \/ log[2] = s /\ Told(log) = {1, 2}
        \/ /\ log[2] = "QUEUED" /\ s # "QUEUED"
           /\ \E k \in 3..Len(log) :
                /\ Told(log) = {1, 2, k}
                /\ log[k] = IF s = "APPLIED" THEN "REPLAYED" ELSE "FAILED"

AuditOf(e) == /\ IsFiniteSet(Duplicates(e))
              /\ Counted(audit[e], Cardinality(Duplicates(e)))
              /\ Tells(audit[e], status[e])

AuditInv == AnsweredOnce /\ \A e \in Events : AuditOf(e)

LEMMA AuditInvGives == AuditInv => AuditTrail
  BY Zenon DEF AuditInv, AuditOf, Counted, Tells, AuditTrail

\* One entry more.
LEMMA ToldAppend ==
  ASSUME NEW log \in Seq(Actions), NEW x \in Actions
  PROVE  LET b == Append(log, x)
             n == Len(log) + 1
         IN /\ b \in Seq(Actions) /\ Len(b) = n /\ b[n] = x
            /\ \A k \in 1..Len(log) : b[k] = log[k]
            /\ x = "DEDUPED" => /\ Told(b) = Told(log)
                                /\ DOMAIN b \ Told(b) = (DOMAIN log \ Told(log)) \union {n}
            /\ x # "DEDUPED" => /\ Told(b) = Told(log) \union {n}
                                /\ DOMAIN b \ Told(b) = DOMAIN log \ Told(log)
            /\ n \notin DOMAIN log /\ IsFiniteSet(DOMAIN log \ Told(log))
<1> DEFINE b == Append(log, x)  n == Len(log) + 1
<1>1. /\ b \in Seq(Actions) /\ Len(b) = n /\ b[n] = x /\ Len(log) \in Nat
      /\ \A k \in 1..Len(log) : b[k] = log[k]
      /\ DOMAIN b = 1..n /\ DOMAIN log = 1..Len(log) /\ n \in Nat
  OBVIOUS
<1> HIDE DEF b
<1>2. 1..n = (1..Len(log)) \union {n} /\ n \notin 1..Len(log)
  BY <1>1
<1>3. \A k : k \in Told(b) <=> k \in Told(log) \/ (k = n /\ x # "DEDUPED")
  BY <1>1, <1>2 DEF Told
<1>4. x = "DEDUPED" => Told(b) = Told(log)
  BY <1>3
<1>5. x # "DEDUPED" => Told(b) = Told(log) \union {n}
  BY <1>3
<1>6. Told(log) \subseteq DOMAIN log
  BY DEF Told
<1>7. x = "DEDUPED" => DOMAIN b \ Told(b) = (DOMAIN log \ Told(log)) \union {n}
  BY <1>1, <1>2, <1>4, <1>6
<1>8. x # "DEDUPED" => DOMAIN b \ Told(b) = DOMAIN log \ Told(log)
  BY <1>1, <1>2, <1>5, <1>6
<1>9. IsFiniteSet(DOMAIN log \ Told(log))
  <2>1. IsFiniteSet(1..Len(log))
    BY <1>1, FS_Interval
  <2> QED BY <1>1, <2>1, FS_Difference
<1> QED BY <1>1, <1>2, <1>4, <1>5, <1>7, <1>8, <1>9 DEF b

\* A duplicate's entry is counted and tells nothing new.
LEMMA DedupedEntry ==
  ASSUME NEW log \in Seq(Actions), NEW s, s # "absent", Tells(log, s),
         NEW n, Counted(log, n)
  PROVE  Tells(Append(log, "DEDUPED"), s) /\ Counted(Append(log, "DEDUPED"), n + 1)
<1> DEFINE b == Append(log, "DEDUPED")
<1>1. /\ "DEDUPED" \in Actions /\ Len(log) \in Nat
  BY DEF Actions
<1>2. /\ Len(b) = Len(log) + 1 /\ \A k \in 1..Len(log) : b[k] = log[k]
      /\ Told(b) = Told(log)
      /\ DOMAIN b \ Told(b) = (DOMAIN log \ Told(log)) \union {Len(log) + 1}
      /\ Len(log) + 1 \notin DOMAIN log /\ IsFiniteSet(DOMAIN log \ Told(log))
  BY <1>1, ToldAppend
<1> HIDE DEF b
<1>3. Counted(b, n + 1)
  BY <1>2, FS_AddElement DEF Counted
<1>4. /\ Len(log) >= 2 /\ Len(b) >= 2 /\ b[1] = "RECEIVED" /\ b[2] = log[2]
      /\ \A k \in 3..Len(log) : k \in 3..Len(b) /\ b[k] = log[k]
  BY <1>1, <1>2 DEF Tells
<1>5. ASSUME log[2] = s, Told(log) = {1, 2} PROVE Tells(b, s)
  <2>1. b[2] = s /\ Told(b) = {1, 2}
    BY <1>2, <1>4, <1>5
  <2> QED BY <1>4, <2>1, Zenon DEF Tells
<1>6. ASSUME ~(log[2] = s /\ Told(log) = {1, 2}) PROVE Tells(b, s)
  <2>1. PICK k \in 3..Len(log) : /\ Told(log) = {1, 2, k}
                                 /\ log[k] = IF s = "APPLIED" THEN "REPLAYED" ELSE "FAILED"
    BY <1>6 DEF Tells
  <2>2. log[2] = "QUEUED" /\ s # "QUEUED"
    BY <1>6 DEF Tells
  <2>3. k \in 3..Len(b) /\ b[k] = log[k]
    BY <1>4
  <2>4. Told(b) = {1, 2, k} /\ b[k] = IF s = "APPLIED" THEN "REPLAYED" ELSE "FAILED"
    BY <1>2, <2>1, <2>3
  <2>5. b[2] = "QUEUED"
    BY <1>4, <2>2
  <2> QED BY <1>4, <2>2, <2>3, <2>4, <2>5, Zenon DEF Tells
<1> QED BY <1>3, <1>5, <1>6 DEF b

\* The two entries a handler commits.
LEMMA FirstEntries ==
  ASSUME NEW s \in {"QUEUED", "APPLIED", "FAILED"}
  PROVE  LET b == <<>> \o <<"RECEIVED", s>>
         IN Tells(b, s) /\ DOMAIN b \ Told(b) = {}
<1> DEFINE b == <<"RECEIVED", s>>
<1>1. <<>> \o b = b
  OBVIOUS
<1>2. Len(b) = 2 /\ DOMAIN b = {1, 2} /\ b[1] = "RECEIVED" /\ b[2] = s
  OBVIOUS
<1> HIDE DEF b
<1>3. Told(b) = {1, 2}
  BY <1>2 DEF Told
<1>4. Tells(b, s) /\ DOMAIN b \ Told(b) = {}
  BY <1>2, <1>3 DEF Tells
<1> QED BY <1>1, <1>4 DEF b

\* The entry a drain commits for an event that it settles.
LEMMA SettlingEntry ==
  ASSUME NEW log \in Seq(Actions), Tells(log, "QUEUED"), NEW n, Counted(log, n),
         NEW s \in {"APPLIED", "FAILED"}
  PROVE  LET b == log \o (IF s = "APPLIED" THEN <<"REPLAYED">> ELSE <<"FAILED">>)
         IN Tells(b, s) /\ Counted(b, n)
<1> DEFINE x == IF s = "APPLIED" THEN "REPLAYED" ELSE "FAILED"
           b == Append(log, x)
<1>1. x \in Actions /\ x # "DEDUPED" /\ Len(log) \in Nat
  BY DEF Actions
<1>2. log \o (IF s = "APPLIED" THEN <<"REPLAYED">> ELSE <<"FAILED">>) = b
  OBVIOUS
<1>3. /\ Len(b) = Len(log) + 1 /\ \A k \in 1..Len(log) : b[k] = log[k]
      /\ b[Len(log) + 1] = x
      /\ Told(b) = Told(log) \union {Len(log) + 1}
      /\ DOMAIN b \ Told(b) = DOMAIN log \ Told(log)
  BY <1>1, ToldAppend
<1> HIDE DEF b
<1>4. Counted(b, n)
  BY <1>3 DEF Counted
<1>5. Len(log) >= 2 /\ log[1] = "RECEIVED" /\ log[2] = "QUEUED" /\ Told(log) = {1, 2}
  BY DEF Tells
<1>6. Len(b) >= 2 /\ b[1] = "RECEIVED" /\ b[2] = "QUEUED" /\ Len(log) + 1 \in 3..Len(b)
  BY <1>1, <1>3, <1>5
<1>7. Told(b) = {1, 2, Len(log) + 1}
  BY <1>3, <1>5
<1>8. Tells(b, s)
  BY <1>3, <1>6, <1>7 DEF Tells
<1> QED BY <1>2, <1>4, <1>8

\* A handler that is still running has not answered.
LEMMA AnsweredOnceNext ==
  ASSUME IInv, AnsweredOnce, [Next]_vars PROVE AnsweredOnce'
<1> USE DEF AnsweredOnce, IInv, TypeOK
<1>1. ASSUME NEW r \in Requests, NEW code, Answer(r, code) PROVE AnsweredOnce'
  BY <1>1 DEF Answer
<1>2. ASSUME NEW r \in Requests, Lookup(r) \/ Insert(r) PROVE AnsweredOnce'
  BY <1>2 DEF Lookup, Insert
<1>3. ASSUME NEW r \in Requests, Dedupe(r) \/ DuplicateKey(r) \/ LockTimeout(r) PROVE AnsweredOnce'
  BY <1>1, <1>3 DEF Dedupe, DuplicateKey, LockTimeout
<1>4. ASSUME NEW r \in Requests, CallApplied(r) \/ CallUnavailable(r) \/ CallRejected(r)
      PROVE  AnsweredOnce'
  BY <1>1, <1>4 DEF CallApplied, CallUnavailable, CallRejected, CommitEvent
<1>5. CASE Crash
  BY <1>5 DEF Crash
<1>6. CASE UNCHANGED <<pc, reply>>
  BY <1>6
<1>7. \/ \E r \in Requests : Lookup(r) \/ Insert(r) \/ Dedupe(r) \/ DuplicateKey(r) \/ LockTimeout(r)
           \/ CallApplied(r) \/ CallUnavailable(r) \/ CallRejected(r)
      \/ Crash
      \/ UNCHANGED <<pc, reply>>
  BY DEF Next, Ingest, Replay, Drain, vars, handlers, Send, DrainStart, Fetch, ReplaySend,
     ReplayApplied, ReplayRejected, ReplayDeferred, Visited, DrainCommit, DrainLockTimeout, Apply
<1> QED BY <1>2, <1>3, <1>4, <1>5, <1>6, <1>7

\* The audit log grows in three kinds of steps; in any other only an error is answered.
LEMMA AuditChange ==
  ASSUME IInv, AnsweredOnce, [Next]_vars
  PROVE  \/ \E r \in Requests : Dedupe(r) \/ CallApplied(r) \/ CallUnavailable(r) \/ CallRejected(r)
         \/ DrainCommit
         \/ UNCHANGED <<status, audit, reply>>
         \/ /\ UNCHANGED <<status, audit>>
            /\ \E r \in Requests : reply[r] = 0 /\ reply' = [reply EXCEPT ![r] = 500]
<1>1. ASSUME NEW r \in Requests, DuplicateKey(r) \/ LockTimeout(r)
      PROVE  /\ UNCHANGED <<status, audit>>
             /\ reply[r] = 0 /\ reply' = [reply EXCEPT ![r] = 500]
  BY <1>1 DEF DuplicateKey, LockTimeout, Answer, tables, AnsweredOnce
<1>2. \/ \E r \in Requests : Dedupe(r) \/ CallApplied(r) \/ CallUnavailable(r) \/ CallRejected(r)
           \/ DuplicateKey(r) \/ LockTimeout(r)
      \/ DrainCommit
      \/ UNCHANGED <<status, audit, reply>>
  BY DEF Next, Ingest, Replay, Drain, vars, tables, handlers, Lookup, Insert, Send, DrainStart,
     Fetch, ReplaySend, ReplayApplied, ReplayRejected, ReplayDeferred, Visited,
     DrainLockTimeout, Apply, Crash
<1> QED BY <1>1, <1>2

LEMMA AuditKept ==
  ASSUME NEW e \in Events, AuditOf(e), Duplicates(e)' = Duplicates(e),
         audit'[e] = audit[e], status'[e] = status[e]
  PROVE  AuditOf(e)'
  BY DEF AuditOf, Counted, Tells

LEMMA AuditOfPrimed ==
  ASSUME NEW e, IsFiniteSet(Duplicates(e)'), Tells(audit'[e], status'[e]),
         Counted(audit'[e], Cardinality(Duplicates(e)'))
  PROVE  AuditOf(e)'
  BY DEF AuditOf, Counted, Tells

LEMMA DedupeAudits ==
  ASSUME IInv, AuditInv, NEW r \in Requests, Dedupe(r), NEW e \in Events
  PROVE  AuditOf(e)'
<1>1. /\ pc[r] = "dedupe" /\ status' = status /\ reply[r] = 0
      /\ audit' = [audit EXCEPT ![EventOf[r]] = Append(@, "DEDUPED")]
      /\ reply' = [reply EXCEPT ![r] = DuplicateCode(saw[r])]
  BY DEF Dedupe, Answer, AuditInv, AnsweredOnce
<1>2. DuplicateCode(saw[r]) \in {200, 202}
  BY DEF DuplicateCode
<1>3. AuditOf(e)
  BY DEF AuditInv
<1>4. CASE e # EventOf[r]
  <2>1. Duplicates(e)' = Duplicates(e)
    BY <1>1, <1>4 DEF IInv, TypeOK, Duplicates
  <2>2. audit'[e] = audit[e] /\ status'[e] = status[e]
    BY <1>1, <1>4 DEF IInv, TypeOK
  <2> QED BY <1>3, <2>1, <2>2, AuditKept
<1>5. CASE e = EventOf[r]
  <2>1. Duplicates(e)' = Duplicates(e) \union {r} /\ r \notin Duplicates(e)
    BY <1>1, <1>2, <1>5 DEF IInv, TypeOK, Duplicates
  <2>2. /\ IsFiniteSet(Duplicates(e)')
        /\ Cardinality(Duplicates(e)') = Cardinality(Duplicates(e)) + 1
    BY <1>3, <2>1, FS_AddElement DEF AuditOf
  <2>3. audit'[e] = Append(audit[e], "DEDUPED") /\ audit[e] \in Seq(Actions) /\ status'[e] = status[e]
    BY <1>1, <1>5 DEF IInv, TypeOK
  <2>4. status[e] # "absent"
    BY <1>1, <1>5 DEF IInv, HandlerInv
  <2>5. /\ Tells(Append(audit[e], "DEDUPED"), status[e])
        /\ Counted(Append(audit[e], "DEDUPED"), Cardinality(Duplicates(e)) + 1)
    BY <1>3, <2>3, <2>4, DedupedEntry DEF AuditOf
  <2>6. Tells(audit'[e], status'[e]) /\ Counted(audit'[e], Cardinality(Duplicates(e)'))
    BY <2>2, <2>3, <2>5
  <2> QED BY <2>2, <2>6, AuditOfPrimed
<1> QED BY <1>4, <1>5

LEMMA CommitAudits ==
  ASSUME IInv, AuditInv, NEW r \in Requests, CallApplied(r) \/ CallUnavailable(r) \/ CallRejected(r),
         NEW e \in Events
  PROVE  AuditOf(e)'
<1>1. PICK s \in {"QUEUED", "APPLIED", "FAILED"} :
        CommitEvent(r, s, IF s = "APPLIED" THEN 201 ELSE IF s = "QUEUED" THEN 503 ELSE 400)
  BY DEF CallApplied, CallUnavailable, CallRejected
<1>2. PICK code \in {201, 503, 400} : CommitEvent(r, s, code)
  BY <1>1
<1>3. status' = [status EXCEPT ![EventOf[r]] = s] /\ reply' = [reply EXCEPT ![r] = code]
  BY <1>2 DEF CommitEvent, Answer
<1>4. audit' = [audit EXCEPT ![EventOf[r]] = @ \o <<"RECEIVED", s>>]
  BY <1>2 DEF CommitEvent
<1>5. pc[r] = "call" /\ status[EventOf[r]] = "absent" /\ reply[r] = 0
  <2>1. pc[r] = "call"
    BY DEF CallApplied, CallUnavailable, CallRejected
  <2> QED BY <2>1 DEF IInv, HandlerInv, AuditInv, AnsweredOnce
<1>6. Duplicates(e)' = Duplicates(e)
  BY <1>3, <1>5 DEF IInv, TypeOK, Duplicates
<1>7. AuditOf(e)
  BY DEF AuditInv
<1>8. CASE e # EventOf[r]
  <2>1. audit'[e] = audit[e] /\ status'[e] = status[e]
    BY <1>3, <1>4, <1>8 DEF IInv, TypeOK
  <2> QED BY <1>6, <1>7, <2>1, AuditKept
<1>9. CASE e = EventOf[r]
  <2>1. audit[e] = <<>>
    BY <1>5, <1>7, <1>9 DEF AuditOf, Tells
  <2>2. audit'[e] = <<>> \o <<"RECEIVED", s>> /\ status'[e] = s
    BY <1>3, <1>4, <1>9, <2>1 DEF IInv, TypeOK
  <2>3. Tells(audit'[e], status'[e]) /\ DOMAIN (audit'[e]) \ Told(audit'[e]) = {}
    BY <2>2, FirstEntries
  <2>4. Cardinality(Duplicates(e)) = 0
    <3>1. Cardinality(DOMAIN (<<>>) \ Told(<<>>)) = Cardinality(Duplicates(e))
      BY <1>7, <2>1 DEF AuditOf, Counted
    <3>2. DOMAIN (<<>>) \ Told(<<>>) = {}
      OBVIOUS
    <3> QED BY <3>1, <3>2, FS_EmptySet
  <2>5. Counted(audit'[e], Cardinality(Duplicates(e)'))
    BY <1>6, <2>3, <2>4, FS_EmptySet DEF Counted
  <2>6. IsFiniteSet(Duplicates(e)')
    BY <1>6, <1>7 DEF AuditOf
  <2> QED BY <2>3, <2>5, <2>6, AuditOfPrimed
<1> QED BY <1>8, <1>9

LEMMA DrainAudits ==
  ASSUME IInv, AuditInv, DrainCommit, NEW e \in Events
  PROVE  AuditOf(e)'
<1>1. /\ reply' = reply /\ audit'[e] = audit[e] \o Trail(e)
      /\ status'[e] = IF e \in applied THEN "APPLIED" ELSE IF e \in failed THEN "FAILED" ELSE status[e]
  BY DEF DrainCommit, handlers
<1>2. Duplicates(e)' = Duplicates(e)
  BY <1>1 DEF Duplicates
<1>3. AuditOf(e) /\ audit[e] \in Seq(Actions)
  BY DEF AuditInv, IInv, TypeOK
<1>4. ASSUME NEW s \in {"APPLIED", "FAILED"}, status[e] = "QUEUED", status'[e] = s,
             Trail(e) = IF s = "APPLIED" THEN <<"REPLAYED">> ELSE <<"FAILED">>
      PROVE  AuditOf(e)'
  <2>1. Tells(audit[e], "QUEUED") /\ Counted(audit[e], Cardinality(Duplicates(e)))
    BY <1>3, <1>4 DEF AuditOf
  <2>2. audit'[e] = audit[e] \o (IF s = "APPLIED" THEN <<"REPLAYED">> ELSE <<"FAILED">>)
    BY <1>1, <1>4
  <2>3. Tells(audit'[e], s) /\ Counted(audit'[e], Cardinality(Duplicates(e)))
    BY <1>3, <2>1, <2>2, SettlingEntry
  <2>4. IsFiniteSet(Duplicates(e)') /\ Counted(audit'[e], Cardinality(Duplicates(e)'))
    BY <1>2, <1>3, <2>3 DEF AuditOf
  <2> QED BY <1>4, <2>3, <2>4, AuditOfPrimed
<1>5. e \in applied \union failed => status[e] = "QUEUED"
  BY DEF IInv, SessionInv, DrainSnapshotFresh, QueuedIffPending
<1>6. CASE e \in applied
  BY <1>1, <1>4, <1>5, <1>6 DEF Trail
<1>7. CASE e \in failed /\ e \notin applied
  BY <1>1, <1>4, <1>5, <1>7 DEF Trail
<1>8. CASE e \notin applied \union failed
  <2>1. audit'[e] = audit[e] \o <<>> /\ status'[e] = status[e]
    BY <1>1, <1>8 DEF Trail
  <2>2. audit'[e] = audit[e]
    BY <1>3, <2>1, ConcatEmptySeq
  <2> QED BY <1>2, <1>3, <2>1, <2>2, AuditKept
<1> QED BY <1>6, <1>7, <1>8

LEMMA AuditInvNext == IInv /\ AuditInv /\ [Next]_vars => AuditInv'
<1> SUFFICES ASSUME IInv, AuditInv, [Next]_vars PROVE AuditInv'
  OBVIOUS
<1>1. AnsweredOnce'
  BY AnsweredOnceNext DEF AuditInv
<1>2. ASSUME NEW e \in Events PROVE AuditOf(e)'
  <2>1. AuditOf(e)
    BY DEF AuditInv
  <2>2. ASSUME NEW r \in Requests,
               Dedupe(r) \/ CallApplied(r) \/ CallUnavailable(r) \/ CallRejected(r)
        PROVE  AuditOf(e)'
    BY <2>2, DedupeAudits, CommitAudits
  <2>3. CASE DrainCommit
    BY <2>3, DrainAudits
  <2>4. CASE UNCHANGED <<status, audit, reply>>
    <3>1. Duplicates(e)' = Duplicates(e)
      BY <2>4 DEF Duplicates
    <3> QED BY <2>1, <2>4, <3>1, AuditKept
  <2>5. ASSUME UNCHANGED <<status, audit>>,
               NEW r \in Requests, reply[r] = 0, reply' = [reply EXCEPT ![r] = 500]
        PROVE  AuditOf(e)'
    <3>1. Duplicates(e)' = Duplicates(e)
      BY <2>5 DEF IInv, TypeOK, Duplicates
    <3> QED BY <2>1, <2>5, <3>1, AuditKept
  <2> QED BY <2>2, <2>3, <2>4, <2>5, AuditChange DEF AuditInv
<1> QED BY <1>1, <1>2 DEF AuditInv

LEMMA AuditInvInit == Init => AuditInv
<1> SUFFICES ASSUME Init PROVE AuditInv
  OBVIOUS
<1>1. AnsweredOnce
  BY DEF Init, AnsweredOnce
<1>2. ASSUME NEW e \in Events PROVE AuditOf(e)
  <2>1. status[e] = "absent" /\ audit[e] = <<>>
    BY <1>2 DEF Init
  <2>2. Duplicates(e) = {}
    BY DEF Init, Duplicates
  <2>3. DOMAIN (<<>>) \ Told(<<>>) = {}
    OBVIOUS
  <2> QED BY <2>1, <2>2, <2>3, FS_EmptySet DEF AuditOf, Counted, Tells
<1> QED BY <1>1, <1>2 DEF AuditInv

\* The audit log of an event tells how it was stored and settled, and of each
\* duplicate that was answered, once (event_service.py:57-64, 86-135,
\* outbox_replayer.py:78-98).
THEOREM AuditComplete == Spec => []AuditTrail
<1>1. Init => IInv /\ AuditInv
  BY IInvInit, AuditInvInit
<1>2. (IInv /\ AuditInv) /\ [Next]_vars => (IInv /\ AuditInv)'
  BY IInvNext, AuditInvNext
<1>3. IInv /\ AuditInv => AuditTrail
  BY AuditInvGives
<1> QED BY <1>1, <1>2, <1>3, PTL DEF Spec

-----------------------------------------------------------------------------
(* Refinement: each step of the Gateway is a step of EventLifecycle or     *)
(* changes nothing there.                                                  *)

\* The mapped state of an event, from who holds the lock.
LEMMA MappedState ==
  ASSUME IInv, NEW e \in Events
  PROVE  /\ InCall(e) => lifecycle[e] = "RECEIVED" /\ status[e] = "absent"
         /\ ~InCall(e) => lifecycle[e] = IF status[e] = "absent" THEN "none" ELSE status[e]
  BY DEF lifecycle, InCall, IInv, HandlerInv

LEMMA OneInCall ==
  ASSUME IInv, NEW r \in Requests, writer = r, NEW e \in Events
  PROVE  InCall(e) <=> e = EventOf[r]
  BY DEF InCall, IInv, HandlerInv

LEMMA NoneInCall ==
  ASSUME IInv, writer \notin Requests, NEW e \in Events
  PROVE  ~InCall(e)
  BY DEF InCall, IInv, HandlerInv

\* Steps that neither start nor end a call, commit, send nor record.
LEMMA Unmoved ==
  ASSUME \A r \in Requests : pc'[r] = "call" <=> pc[r] = "call",
         UNCHANGED <<status, sent, ledger>>
  PROVE  UNCHANGED Lifecycle!vars
  BY DEF Lifecycle!vars, lifecycle, InCall

LEMMA RefineInit == Init => Lifecycle!Init
  BY DEF Init, Lifecycle!Init, lifecycle, InCall

LEMMA RefineNext == IInv /\ IInv' /\ [Next]_vars => [Lifecycle!Next]_(Lifecycle!vars)
<1> SUFFICES ASSUME IInv, IInv', [Next]_vars PROVE [Lifecycle!Next]_(Lifecycle!vars)
  OBVIOUS
<1>1. ASSUME NEW r \in Requests, Insert(r) PROVE Lifecycle!Next
  <2>1. EventOf[r] \in Events /\ writer \notin Requests /\ writer' = r
    BY <1>1, RequestsAssumption DEF Insert, CanWrite, IInv, HandlerInv
  <2>2. \A e \in Events : ~InCall(e) /\ (InCall(e)' <=> e = EventOf[r])
    BY <2>1, NoneInCall, IInv' DEF InCall, IInv, HandlerInv
  <2>3. status' = status /\ status[EventOf[r]] = "absent" /\ UNCHANGED <<sent, ledger>>
    BY <1>1 DEF Insert, tables, account
  <2>4. lifecycle' = [lifecycle EXCEPT ![EventOf[r]] = "RECEIVED"]
    BY <2>1, <2>2, <2>3 DEF lifecycle
  <2>5. lifecycle[EventOf[r]] = "none"
    BY <2>1, <2>2, <2>3 DEF lifecycle
  <2>6. Lifecycle!Receive(EventOf[r])
    BY <2>3, <2>4, <2>5 DEF Lifecycle!Receive, Lifecycle!Move
  <2> QED BY <2>1, <2>6 DEF Lifecycle!Next
<1>2. ASSUME NEW r \in Requests, Send(r) PROVE Lifecycle!Next
  <2>1. EventOf[r] \in Events /\ pc[r] = "call" /\ writer = r
    BY <1>2, RequestsAssumption DEF Send, IInv, HandlerInv
  <2>2. lifecycle[EventOf[r]] = "RECEIVED"
    BY <2>1 DEF lifecycle, InCall
  <2>3. lifecycle' = lifecycle
    BY <1>2 DEF Send, tables, handlers, lifecycle, InCall
  <2>4. Lifecycle!Attempt(EventOf[r])
    BY <1>2, <2>2, <2>3 DEF Send, Lifecycle!Attempt
  <2> QED BY <2>1, <2>4 DEF Lifecycle!Next
<1>3. ASSUME NEW r \in Requests, CallApplied(r) \/ CallUnavailable(r) \/ CallRejected(r)
      PROVE  Lifecycle!Next
  <2>1. /\ EventOf[r] \in Events /\ writer = r /\ status[EventOf[r]] = "absent"
        /\ writer' = "nobody" /\ UNCHANGED <<sent, ledger>>
    BY <1>3, HandlerCommit
  <2>2. \A e \in Events : ~InCall(e)' /\ (InCall(e) <=> e = EventOf[r])
    BY <2>1, OneInCall, RequestsAssumption DEF InCall, IInv, HandlerInv
  <2>3. lifecycle[EventOf[r]] = "RECEIVED"
    BY <2>1, <2>2 DEF lifecycle
  <2>4. ASSUME NEW s \in {"QUEUED", "APPLIED", "FAILED"},
               status' = [status EXCEPT ![EventOf[r]] = s]
        PROVE  Lifecycle!Move(EventOf[r], "RECEIVED", s)
    <3>1. lifecycle' = [lifecycle EXCEPT ![EventOf[r]] = s]
      BY <2>1, <2>2, <2>4 DEF lifecycle, IInv, TypeOK
    <3> QED BY <2>1, <2>3, <3>1 DEF Lifecycle!Move
  <2>5. \/ status' = [status EXCEPT ![EventOf[r]] = "APPLIED"] /\ EventOf[r] \in ledger
        \/ status' = [status EXCEPT ![EventOf[r]] = "QUEUED"]
        \/ status' = [status EXCEPT ![EventOf[r]] = "FAILED"] /\ EventOf[r] \notin ledger
    BY <1>3, HandlerCommit DEF IInv, LedgerInv
  <2>6. \/ Lifecycle!Apply(EventOf[r]) \/ Lifecycle!Queue(EventOf[r])
        \/ Lifecycle!Reject(EventOf[r])
    BY <2>4, <2>5 DEF Lifecycle!Apply, Lifecycle!Queue, Lifecycle!Reject
  <2> QED BY <2>1, <2>6 DEF Lifecycle!Next
<1>4. CASE DrainCommit
  <2>1. writer \notin Requests /\ pc' = pc /\ UNCHANGED <<sent, ledger>>
    BY <1>4, RequestsAssumption DEF DrainCommit, CanWrite, handlers, account
  <2>2. \A e \in Events : ~InCall(e) /\ ~InCall(e)'
    BY <2>1, NoneInCall DEF InCall
  <2>3. applied \union failed \subseteq Events
    BY DEF IInv, TypeOK
  <2>4. \A e \in applied \union failed : status[e] = "QUEUED"
    BY <2>3 DEF IInv, SessionInv, DrainSnapshotFresh, QueuedIffPending
  <2>5. \A e \in applied \union failed : lifecycle[e] = "QUEUED"
    BY <2>2, <2>3, <2>4 DEF lifecycle
  <2>6. applied \subseteq ledger /\ failed \cap ledger = {}
    BY DEF IInv, SessionInv, LedgerInv
  <2>7. lifecycle' = [e \in Events |-> IF e \in applied THEN "APPLIED"
                                       ELSE IF e \in failed THEN "FAILED" ELSE lifecycle[e]]
    BY <1>4, <2>2 DEF DrainCommit, lifecycle
  <2>8. Lifecycle!Replay(applied, failed)
    BY <2>1, <2>5, <2>6, <2>7 DEF Lifecycle!Replay
  <2> QED BY <2>3, <2>8 DEF Lifecycle!Next
<1>5. ASSUME NEW e \in Events, ReplaySend(e) PROVE Lifecycle!Next
  <2>1. e \in outbox
    BY <1>5 DEF ReplaySend, Current, IInv, SessionInv, DrainSnapshotFresh
  <2>2. status[e] = "QUEUED"
    BY <2>1 DEF IInv, QueuedIffPending
  <2>3. lifecycle[e] = "QUEUED"
    BY <2>2, MappedState
  <2>4. lifecycle' = lifecycle
    BY <1>5 DEF ReplaySend, tables, handlers, lifecycle, InCall
  <2>5. Lifecycle!Attempt(e)
    BY <1>5, <2>3, <2>4 DEF ReplaySend, Lifecycle!Attempt
  <2> QED BY <2>5 DEF Lifecycle!Next
<1>6. ASSUME NEW e \in Events, Apply(e) PROVE Lifecycle!Next
  <2>1. lifecycle[e] # "FAILED"
    BY <1>6, MappedState DEF Apply, IInv, Agreement
  <2>2. lifecycle' = lifecycle
    BY <1>6 DEF Apply, tables, handlers, lifecycle, InCall
  <2>3. Lifecycle!Record(e)
    BY <1>6, <2>1, <2>2 DEF Apply, Lifecycle!Record
  <2> QED BY <2>3 DEF Lifecycle!Next
<1>7. CASE Crash
  <2>1. UNCHANGED <<status, sent, ledger>>
    BY <1>7 DEF Crash, tables, account
  <2>2. \A e \in Events : ~InCall(e)'
    BY <1>7 DEF Crash, InCall
  <2>3. CASE writer \notin Requests
    <3>1. lifecycle' = lifecycle
      BY <2>1, <2>2, <2>3, NoneInCall DEF lifecycle
    <3> QED BY <2>1, <3>1 DEF Lifecycle!vars
  <2>4. ASSUME NEW r \in Requests, writer = r PROVE Lifecycle!Next
    <3>1. EventOf[r] \in Events /\ pc[r] = "call"
      BY <2>4, RequestsAssumption DEF IInv, HandlerInv
    <3>2. \A e \in Events : InCall(e) <=> e = EventOf[r]
      BY <2>4, OneInCall
    <3>3. status[EventOf[r]] = "absent"
      BY <3>1 DEF IInv, HandlerInv
    <3>4. lifecycle[EventOf[r]] = "RECEIVED"
      BY <3>1, <3>2 DEF lifecycle
    <3>5. lifecycle' = [lifecycle EXCEPT ![EventOf[r]] = "none"]
      BY <2>1, <2>2, <3>1, <3>2, <3>3 DEF lifecycle
    <3>6. Lifecycle!Forget(EventOf[r])
      BY <2>1, <3>4, <3>5 DEF Lifecycle!Forget, Lifecycle!Move
    <3> QED BY <3>1, <3>6 DEF Lifecycle!Next
  <2> QED BY <2>3, <2>4
<1>8. ASSUME NEW r \in Requests, Lookup(r) \/ Dedupe(r) \/ DuplicateKey(r) \/ LockTimeout(r)
      PROVE  UNCHANGED Lifecycle!vars
  <2>1. UNCHANGED <<status, sent, ledger>>
    BY <1>8 DEF Lookup, Dedupe, DuplicateKey, LockTimeout, tables, account
  <2>2. \A q \in Requests : pc'[q] = "call" <=> pc[q] = "call"
    BY <1>8 DEF Lookup, Dedupe, DuplicateKey, LockTimeout, Answer, IInv, TypeOK
  <2> QED BY <2>1, <2>2, Unmoved
<1>9. CASE UNCHANGED <<status, pc, sent, ledger>>
  BY <1>9, Unmoved
<1>10. \/ \E r \in Requests : Ingest(r)
       \/ \E e \in Events : ReplaySend(e) \/ Apply(e)
       \/ DrainCommit \/ Crash
       \/ UNCHANGED <<status, pc, sent, ledger>>
  BY DEF Next, Replay, Drain, vars, tables, handlers, account, DrainStart, Fetch,
     ReplayApplied, ReplayRejected, ReplayDeferred, Visited, DrainLockTimeout
<1> QED BY <1>1, <1>2, <1>3, <1>4, <1>5, <1>6, <1>7, <1>8, <1>9, <1>10 DEF Ingest

\* Every behaviour of handlers, replayer, network and crashes is one that the
\* state machine of docs/diagrams/event-state-machine.mmd allows.
THEOREM Refinement == Spec => ImplementsLifecycle
  BY RefineInit, RefineNext, InductiveInvariant, PTL
  DEF Spec, ImplementsLifecycle, Lifecycle!Spec
=============================================================================
