---------------------- MODULE EventLedgerSystemProofs ----------------------
(***************************************************************************)
(* The Gateway with the contents it sends and the counter it exports, for  *)
(* any events, requests, contents and crashes: every step is one of        *)
(* EventGateway, so that its theorems hold here, and the two databases     *)
(* agree on contents.                                                      *)
(***************************************************************************)
EXTENDS EventLedgerSystem, EventGatewayProofs

-----------------------------------------------------------------------------
(* The system implements the Gateway.                                      *)

LEMMA GatewayStep == [SysNext]_sysvars => [Next]_vars
<1> SUFFICES ASSUME [SysNext]_sysvars PROVE [Next]_vars
  OBVIOUS
<1> USE DEF Next, Ingest, Replay, Drain
<1>1. ASSUME NEW r \in Requests, SysSend(r) PROVE [Next]_vars
  BY <1>1 DEF SysSend, Resend
<1>2. ASSUME NEW r \in Requests, SysApplied(r) \/ SysUnavailable(r) \/ SysRejected(r)
      PROVE  [Next]_vars
  BY <1>2 DEF SysApplied, SysUnavailable, SysRejected
<1>3. ASSUME NEW e \in Events, SysReplaySend(e) PROVE [Next]_vars
  BY <1>3 DEF SysReplaySend
<1>4. ASSUME NEW e \in Events, SysReplayed(e) \/ SysReplayRejected(e) \/ SysApply(e)
      PROVE  [Next]_vars
  BY <1>4 DEF SysReplayed, SysReplayRejected, SysApply
<1>5. CASE SysCrash
  BY <1>5 DEF SysCrash
<1>6. CASE Unmetered
  BY <1>6 DEF Unmetered
<1>7. CASE UNCHANGED sysvars
  BY <1>7 DEF sysvars
<1> QED BY <1>1, <1>2, <1>3, <1>4, <1>5, <1>6, <1>7 DEF SysNext

\* Contents and counted only add to the Gateway: each of its behaviours is one of
\* EventGateway, whatever is submitted under an id.
THEOREM ImplementsGateway == SysSpec => Spec
<1>1. SysInit => Init
  BY DEF SysInit
<1> QED BY <1>1, GatewayStep, PTL DEF SysSpec, Spec

-----------------------------------------------------------------------------
(* The inductive invariant, beside that of the Gateway.                    *)

\* What was sent is the content of a handler in its call, of a committed row, or of
\* a handler that was lost.
ShippedInv == \A q \in shipped : LET e == EventOf[q] IN
  IF status[e] = "absent" THEN pc[q] \in {"call", "lost"}
                          ELSE origin[e] = q \/ pc[q] = "lost"

\* Contents are of the event they are stored for, and were sent before they are
\* executed.
NamesInv == \A e \in Events :
  /\ origin[e] # "absent" => EventOf[origin[e]] = e
  /\ booked[e] # "absent" => booked[e] \in shipped /\ EventOf[booked[e]] = e

ContentType ==
  /\ origin \in [Events -> Requests \union {"absent"}]
  /\ booked \in [Events -> Requests \union {"absent"}]
  /\ shipped \subseteq Requests /\ {EventOf[r] : r \in shipped} = sent
  /\ \A e \in Events : /\ origin[e] = "absent" <=> status[e] = "absent"
                       /\ booked[e] = "absent" <=> e \notin ledger

ContentInv == ContentType /\ NamesInv /\ ShippedInv

\* The events counted are those applied and those marked: all of them, if the process
\* is the first.
CountInv ==
  /\ counted \in [Events -> 0..CountMax]
  /\ \A e \in Events :
       /\ counted[e] <= 1
       /\ e \in applied => counted[e] = 1
       /\ counted[e] = 1 => status[e] = "APPLIED" \/ e \in applied
       /\ status[e] = "APPLIED" /\ crashes = 0 => counted[e] = 1

SysInv == IInv /\ ContentInv /\ CountInv

LEMMA SysInvInit == SysInit => SysInv
<1> SUFFICES ASSUME SysInit PROVE SysInv
  OBVIOUS
<1>1. IInv
  BY IInvInit DEF SysInit
<1>2. ContentInv
  BY DEF SysInit, Init, ContentInv, ContentType, NamesInv, ShippedInv
<1>3. CountInv
  BY SystemAssumption DEF SysInit, Init, CountInv
<1> QED BY <1>1, <1>2, <1>3 DEF SysInv

-----------------------------------------------------------------------------
(* What a step may do to the contents.                                     *)

\* Nothing, while rows, calls and transactions stay and handlers only run on or die.
LEMMA ContentStays ==
  ASSUME ContentInv, UNCHANGED <<content, sent, ledger>>,
         \A e \in Events : status'[e] = "absent" <=> status[e] = "absent",
         \A q \in Requests : /\ pc[q] = "lost" => pc'[q] = "lost"
                             /\ pc[q] = "call" => pc'[q] \in {"call", "lost"}
  PROVE  ContentInv'
<1>1. UNCHANGED <<origin, shipped, booked, sent, ledger>>
  BY DEF content
<1>2. ContentType'
  BY <1>1 DEF ContentInv, ContentType
<1>3. NamesInv'
  BY <1>1 DEF ContentInv, NamesInv
<1>4. ShippedInv'
  BY <1>1, RequestsAssumption DEF ContentInv, ContentType, ShippedInv
<1> QED BY <1>2, <1>3, <1>4 DEF ContentInv

\* One is sent: by a handler in its call, or from the committed row.
LEMMA ContentShipped ==
  ASSUME IInv, ContentInv, NEW r \in Requests,
         pc[r] = "call" \/ (status[EventOf[r]] # "absent" /\ origin[EventOf[r]] = r),
         shipped' = shipped \union {r}, sent' = sent \union {EventOf[r]},
         UNCHANGED <<origin, booked, status, pc, ledger>>
  PROVE  ContentInv'
<1>1. EventOf[r] \in Events
  BY RequestsAssumption
<1>2. ContentType'
  BY DEF ContentInv, ContentType
<1>3. NamesInv'
  BY DEF ContentInv, NamesInv
<1>4. ShippedInv'
  BY <1>1 DEF ContentInv, ShippedInv, IInv, HandlerInv
<1> QED BY <1>2, <1>3, <1>4 DEF ContentInv

\* One is stored, by the handler that holds the lock.  Another content of the same
\* event can only have been sent by a handler that was lost.
LEMMA ContentStored ==
  ASSUME IInv, ContentInv, NEW r \in Requests,
         CallApplied(r) \/ CallUnavailable(r) \/ CallRejected(r),
         Store(r), UNCHANGED <<shipped, booked>>
  PROVE  ContentInv'
<1>1. /\ EventOf[r] \in Events /\ writer = r /\ status[EventOf[r]] = "absent"
      /\ UNCHANGED <<sent, ledger>> /\ pc' = [pc EXCEPT ![r] = "done"]
      /\ \E s \in {"APPLIED", "QUEUED", "FAILED"} : status' = [status EXCEPT ![EventOf[r]] = s]
  BY HandlerCommit
<1>2. origin' = [origin EXCEPT ![EventOf[r]] = r] /\ r # "absent"
  BY SystemAssumption DEF Store
<1>3. ContentType'
  BY <1>1, <1>2 DEF ContentInv, ContentType, IInv, TypeOK
<1>4. NamesInv'
  BY <1>1, <1>2 DEF ContentInv, ContentType, NamesInv
<1>5. ASSUME NEW q \in shipped
      PROVE  IF status'[EventOf[q]] = "absent" THEN pc'[q] \in {"call", "lost"}
             ELSE origin'[EventOf[q]] = q \/ pc'[q] = "lost"
  <2>1. q \in Requests /\ EventOf[q] \in Events
    BY RequestsAssumption DEF ContentInv, ContentType
  <2>2. pc[q] = "call" => q = r
    BY <1>1, <2>1 DEF IInv, HandlerInv
  <2>3. CASE EventOf[q] = EventOf[r]
    <3>1. pc[q] \in {"call", "lost"}
      BY <1>1, <2>3 DEF ContentInv, ShippedInv
    <3>2. q = r => origin'[EventOf[q]] = q
      BY <1>1, <1>2 DEF ContentInv, ContentType
    <3>3. q # r => pc'[q] = "lost"
      BY <1>1, <2>1, <2>2, <3>1 DEF IInv, TypeOK
    <3>4. status'[EventOf[q]] # "absent"
      BY <1>1, <2>3 DEF IInv, TypeOK
    <3> QED BY <3>2, <3>3, <3>4
  <2>4. CASE EventOf[q] # EventOf[r]
    BY <1>1, <1>2, <2>1, <2>4 DEF ContentInv, ContentType, ShippedInv, IInv, TypeOK
  <2> QED BY <2>3, <2>4
<1>6. ShippedInv'
  BY <1>5 DEF ShippedInv
<1> QED BY <1>3, <1>4, <1>6 DEF ContentInv

\* One is executed.
LEMMA ContentExecuted ==
  ASSUME IInv, ContentInv, NEW e \in Events, SysApply(e) PROVE ContentInv'
<1>1. /\ ledger' = ledger \union {e} /\ e \notin ledger
      /\ UNCHANGED <<status, pc, sent, origin, shipped>>
  BY DEF SysApply, Apply, tables, handlers
<1>2. PICK r \in shipped : EventOf[r] = e /\ booked' = [booked EXCEPT ![e] = r]
  BY DEF SysApply
<1>3. r \in Requests /\ r # "absent"
  BY SystemAssumption DEF ContentInv, ContentType
<1>4. ContentType'
  BY <1>1, <1>2, <1>3 DEF ContentInv, ContentType
<1>5. NamesInv'
  BY <1>1, <1>2 DEF ContentInv, ContentType, NamesInv
<1>6. ShippedInv'
  BY <1>1 DEF ContentInv, ShippedInv
<1> QED BY <1>4, <1>5, <1>6 DEF ContentInv

LEMMA ContentNext ==
  ASSUME IInv, ContentInv, SysNext PROVE ContentInv'
<1> USE DEF tables, handlers, session, account
<1>1. ASSUME NEW r \in Requests, SysSend(r) PROVE ContentInv'
  <2>1. pc[r] = "call" /\ sent' = sent \union {EventOf[r]} /\ UNCHANGED <<status, pc, ledger>>
    BY <1>1 DEF SysSend, Send, Resend, vars
  <2> QED BY <1>1, <2>1, ContentShipped DEF SysSend
<1>2. ASSUME NEW r \in Requests, SysApplied(r) \/ SysUnavailable(r) \/ SysRejected(r)
      PROVE  ContentInv'
  BY <1>2, ContentStored DEF SysApplied, SysUnavailable, SysRejected
<1>3. ASSUME NEW e \in Events, SysReplaySend(e) PROVE ContentInv'
  <2>1. status[e] # "absent"
    BY <1>3 DEF SysReplaySend, Current, IInv, SessionInv, DrainSnapshotFresh, QueuedIffPending
  <2>2. origin[e] \in Requests /\ EventOf[origin[e]] = e
    BY <2>1 DEF ContentInv, ContentType, NamesInv
  <2>3. sent' = sent \union {e} /\ UNCHANGED <<status, pc, ledger>>
    BY <1>3 DEF SysReplaySend, ReplaySend, vars
  <2>4. shipped' = shipped \union {origin[e]} /\ UNCHANGED <<origin, booked>>
    BY <1>3 DEF SysReplaySend
  <2> QED BY <2>1, <2>2, <2>3, <2>4, ContentShipped
<1>4. ASSUME NEW e \in Events, SysApply(e) PROVE ContentInv'
  BY <1>4, ContentExecuted
<1>5. ASSUME UNCHANGED <<content, status, sent, ledger>>,
             \A q \in Requests : /\ pc[q] = "lost" => pc'[q] = "lost"
                                 /\ pc[q] = "call" => pc'[q] \in {"call", "lost"}
      PROVE  ContentInv'
  BY <1>5, ContentStays
<1>6. ASSUME NEW e \in Events, SysReplayed(e) \/ SysReplayRejected(e) PROVE ContentInv'
  BY <1>5, <1>6 DEF SysReplayed, SysReplayRejected, ReplayApplied, ReplayRejected, Visited, content
<1>7. CASE SysCrash
  BY <1>5, <1>7 DEF SysCrash, Crash
<1>8. CASE Unmetered
  <2>1. UNCHANGED content
    BY <1>8 DEF Unmetered
  <2>2. CASE DrainCommit
    <3>1. \A e \in Events : status'[e] = "absent" <=> status[e] = "absent"
      BY <2>2 DEF DrainCommit, IInv, SessionInv, DrainSnapshotFresh, QueuedIffPending
    <3>2. UNCHANGED <<pc, sent, ledger>>
      BY <2>2 DEF DrainCommit
    <3> QED BY <2>1, <3>1, <3>2, ContentStays
  <2>3. ASSUME NEW r \in Requests,
               Lookup(r) \/ Dedupe(r) \/ Insert(r) \/ DuplicateKey(r) \/ LockTimeout(r)
        PROVE  ContentInv'
    <3>1. UNCHANGED <<status, sent, ledger>>
      BY <2>3 DEF Lookup, Dedupe, Insert, DuplicateKey, LockTimeout
    <3>2. pc[r] \notin {"call", "lost"} /\ \E to : pc' = [pc EXCEPT ![r] = to]
      BY <2>3 DEF Lookup, Dedupe, Insert, DuplicateKey, LockTimeout, Answer
    <3> QED BY <1>5, <2>1, <3>1, <3>2 DEF IInv, TypeOK
  <2>4. CASE DrainStart \/ Fetch \/ DrainLockTimeout \/ \E e \in Events : ReplayDeferred(e)
    BY <1>5, <2>1, <2>4 DEF DrainStart, Fetch, DrainLockTimeout, ReplayDeferred, Visited
  <2> QED BY <1>8, <2>2, <2>3, <2>4 DEF Unmetered
<1> QED BY <1>1, <1>2, <1>3, <1>4, <1>6, <1>7, <1>8 DEF SysNext

-----------------------------------------------------------------------------
(* What a step may do to the counter.                                      *)

\* Counting an event that was not counted.
LEMMA CountRises ==
  ASSUME CountInv, NEW e \in Events, Inc(e), counted[e] # 1
  PROVE  /\ counted' \in [Events -> 0..CountMax] /\ counted'[e] = 1
         /\ \A f \in Events \ {e} : counted'[f] = counted[f]
<1>1. counted \in [Events -> 0..CountMax] /\ counted[e] = 0 /\ 0 # CountMax /\ 1 \in 0..CountMax
  BY SystemAssumption DEF CountInv
<1>2. counted' = [counted EXCEPT ![e] = 1]
  BY <1>1 DEF Inc
<1> QED BY <1>1, <1>2

\* Steps that neither count nor mark nor commit a mark.
LEMMA CountStays ==
  ASSUME CountInv, UNCHANGED <<counted, applied, crashes>>,
         \A e \in Events : status'[e] = "APPLIED" <=> status[e] = "APPLIED"
  PROVE  CountInv'
  BY DEF CountInv

LEMMA CountNext ==
  ASSUME IInv, CountInv, SysNext PROVE CountInv'
<1> USE DEF tables, handlers, session, account
<1>1. ASSUME NEW r \in Requests, SysSend(r) PROVE CountInv'
  <2>1. UNCHANGED <<counted, applied, crashes, status>>
    BY <1>1 DEF SysSend, Send, Resend, vars
  <2> QED BY <2>1, CountStays
<1>2. ASSUME NEW r \in Requests, SysApplied(r) PROVE CountInv'
  <2>1. /\ EventOf[r] \in Events /\ status[EventOf[r]] = "absent"
        /\ applied = {} /\ UNCHANGED <<applied, crashes>>
    BY <1>2, HandlerCommit DEF SysApplied, CallApplied
  <2>2. status' = [status EXCEPT ![EventOf[r]] = "APPLIED"]
    BY <1>2 DEF SysApplied, CallApplied, CommitEvent
  <2>3. Inc(EventOf[r]) /\ counted[EventOf[r]] # 1
    BY <1>2, <2>1 DEF SysApplied, CountInv
  <2>4. /\ counted' \in [Events -> 0..CountMax] /\ counted'[EventOf[r]] = 1
        /\ \A f \in Events \ {EventOf[r]} : counted'[f] = counted[f]
    BY <2>1, <2>3, CountRises
  <2>5. \A f \in Events : status'[f] = IF f = EventOf[r] THEN "APPLIED" ELSE status[f]
    BY <2>2 DEF IInv, TypeOK
  <2>6. applied' = {} /\ crashes' = crashes
    BY <2>1
  <2> HIDE <2>2
  <2> QED BY <2>1, <2>4, <2>5, <2>6 DEF CountInv
<1>3. ASSUME NEW r \in Requests, SysUnavailable(r) \/ SysRejected(r) PROVE CountInv'
  <2>1. /\ EventOf[r] \in Events /\ status[EventOf[r]] = "absent"
        /\ UNCHANGED <<applied, crashes>>
    BY <1>3, HandlerCommit DEF SysUnavailable, SysRejected
  <2>2. \E s \in {"QUEUED", "FAILED"} : status' = [status EXCEPT ![EventOf[r]] = s]
    BY <1>3 DEF SysUnavailable, SysRejected, CallUnavailable, CallRejected, CommitEvent
  <2>3. UNCHANGED counted
    BY <1>3 DEF SysUnavailable, SysRejected
  <2>4. \A e \in Events : status'[e] = "APPLIED" <=> status[e] = "APPLIED"
    BY <2>1, <2>2 DEF IInv, TypeOK
  <2> QED BY <2>1, <2>3, <2>4, CountStays
<1>4. ASSUME NEW e \in Events, SysReplaySend(e) \/ SysReplayRejected(e) \/ SysApply(e)
      PROVE  CountInv'
  <2>1. UNCHANGED <<counted, applied, crashes, status>>
    BY <1>4 DEF SysReplaySend, ReplaySend, SysReplayRejected, ReplayRejected, Visited,
       SysApply, Apply, vars
  <2> QED BY <2>1, CountStays
<1>5. ASSUME NEW e \in Events, SysReplayed(e) PROVE CountInv'
  <2>1. /\ applied' = applied \union {e} /\ e \in todo
        /\ UNCHANGED <<status, crashes>> /\ Inc(e)
    BY <1>5 DEF SysReplayed, ReplayApplied, Visited, Current
  <2>2. e \notin applied /\ status[e] = "QUEUED"
    BY <2>1 DEF IInv, SessionInv, DrainSnapshotFresh, QueuedIffPending
  <2>3. /\ counted' \in [Events -> 0..CountMax] /\ counted'[e] = 1
        /\ \A f \in Events \ {e} : counted'[f] = counted[f]
    BY <2>1, <2>2, CountRises DEF CountInv
  <2> QED BY <2>1, <2>2, <2>3 DEF CountInv
<1>6. CASE SysCrash
  <2>1. /\ applied' = {} /\ counted' = [e \in Events |-> 0]
        /\ crashes' > 0 /\ UNCHANGED status
    BY <1>6 DEF SysCrash, Crash, EndDrain, IInv, TypeOK
  <2> QED BY <2>1, SystemAssumption DEF CountInv
<1>7. CASE Unmetered
  <2>1. UNCHANGED counted
    BY <1>7 DEF Unmetered
  <2>2. CASE DrainCommit
    <3>1. /\ applied' = {} /\ UNCHANGED crashes
          /\ \A e \in Events : status'[e] = IF e \in applied THEN "APPLIED"
                                 ELSE IF e \in failed THEN "FAILED" ELSE status[e]
      BY <2>1, <2>2 DEF DrainCommit, EndDrain
    <3>2. \A e \in failed : status[e] # "APPLIED"
      BY DEF IInv, TypeOK, SessionInv, DrainSnapshotFresh, QueuedIffPending
    <3> QED BY <2>1, <3>1, <3>2 DEF CountInv
  \* A drain that cannot have the lock has marked nothing.
  <2>3. CASE DrainLockTimeout
    <3>1. applied = {}
      BY <2>3 DEF DrainLockTimeout, CanWrite, IInv, SessionInv, DrainSnapshotFresh
    <3>2. UNCHANGED <<applied, crashes, status>>
      BY <2>3, <3>1 DEF DrainLockTimeout, EndDrain
    <3> QED BY <2>1, <3>2, CountStays
  <2>4. CASE ~DrainCommit /\ ~DrainLockTimeout
    <3>1. UNCHANGED <<applied, crashes, status>>
      BY <1>7, <2>4 DEF Unmetered, Lookup, Dedupe, Insert, DuplicateKey, LockTimeout,
         ReplayDeferred, Visited, DrainStart, Fetch
    <3> QED BY <2>1, <3>1, CountStays
  <2> QED BY <2>2, <2>3, <2>4
<1> QED BY <1>1, <1>2, <1>3, <1>4, <1>5, <1>6, <1>7 DEF SysNext

LEMMA SysInvNext == SysInv /\ [SysNext]_sysvars => SysInv'
<1> SUFFICES ASSUME SysInv, [SysNext]_sysvars PROVE SysInv'
  OBVIOUS
<1>1. IInv'
  BY GatewayStep, IInvNext DEF SysInv
<1>2. CASE SysNext
  BY <1>1, <1>2, ContentNext, CountNext DEF SysInv
<1>3. CASE UNCHANGED sysvars
  <2>1. UNCHANGED <<content, counted, status, pc, sent, ledger, applied, crashes>>
    BY <1>3 DEF sysvars, vars, tables, handlers, session, account
  <2>2. ContentInv'
    BY <2>1, ContentStays DEF SysInv
  <2>3. CountInv'
    BY <2>1, CountStays DEF SysInv
  <2> QED BY <1>1, <2>2, <2>3 DEF SysInv
<1> QED BY <1>2, <1>3

LEMMA SystemInvariant == SysSpec => []SysInv
  BY SysInvInit, SysInvNext, PTL DEF SysSpec

-----------------------------------------------------------------------------
(* The theorems.                                                           *)

\* The variables keep their types, and contents are known of exactly the events
\* that the Gateway knows (event_service.py:71-83, account/db/repository.py:15-34).
THEOREM ContentKnown == SysSpec => []ContentOK
<1>1. SysInv => ContentOK
  BY DEF SysInv, IInv, ContentInv, ContentType, CountInv, ContentOK
<1> QED BY <1>1, SystemInvariant, PTL

\* Gateway and Account Service hold the same content for an event, however late
\* calls are executed and whatever else was submitted under its id, unless the
\* handler whose content was executed died with its process.
THEOREM ContentsAgree == SysSpec => []ContentAgrees
<1>1. SysInv => ContentAgrees
  BY DEF SysInv, ContentInv, ContentType, NamesInv, ShippedInv, ContentAgrees
<1> QED BY <1>1, SystemInvariant, PTL

\* events_applied_total counts each event that the process has applied once, although
\* it is incremented in two tasks and before their commits (event_service.py:136,
\* outbox_replayer.py:99).
THEOREM CountsExact == SysSpec => []CountExact
<1>1. SysInv => CountExact
  BY DEF SysInv, IInv, SessionInv, DrainSnapshotFresh, CountInv, CountExact
<1> QED BY <1>1, SystemInvariant, PTL

\* The theorems about the Gateway alone carry over to the system: the queue, the
\* drain's snapshot, the agreement of the two services on every settled event, what
\* replies promise, the audit log, and the abstract life cycle.
THEOREM GatewayTheoremsHold ==
  SysSpec => /\ []QueuedIffPending /\ []DrainSnapshotFresh
             /\ []Agreement /\ []NoOrphanWithoutCrash
             /\ []OneOriginal /\ []ReplyDurable /\ []AuditTrail
             /\ ImplementsLifecycle
  BY ImplementsGateway, QueueConsistent, SnapshotFresh, ServicesAgree, NoOrphan,
     OriginalUnique, RepliesDurable, AuditComplete, Refinement, PTL
=============================================================================
