---------------------------- MODULE EventGateway ----------------------------
(***************************************************************************)
(* The Event Gateway: POST /events handlers (EventService.ingest) and the  *)
(* outbox replayer (OutboxReplayer.drain_once) over one SQLite database,   *)
(* calling the Account Service across a network.                           *)
(*                                                                         *)
(* Granularity.  Between two awaits a task runs alone; at an await any     *)
(* other task may run.  A lookup is one SELECT outside any transaction.    *)
(* The first write of a session (a flush) takes SQLite's single write lock *)
(* and keeps it until commit or rollback, so a handler holds it across its *)
(* whole Account Service call; another writer waits for it, and gives up   *)
(* after the driver's timeout of 5 s, which one call with its retries can  *)
(* exceed.  Uncommitted rows are seen by nobody else: status, outbox and   *)
(* audit are the committed tables, and everything before a commit lives in *)
(* the control state of the task.  A commit and the answer after it are    *)
(* one step: reply is what a handler decided at its commit, whether or not *)
(* it still reaches the client.                                            *)
(*                                                                         *)
(* The Account Service executes a call that was sent at any later moment,  *)
(* also after the caller timed out, retried or died, and a call may be     *)
(* executed more than once: sent only grows.  Its answer may be lost.  The *)
(* client's verdicts are those of AccountClient.apply_transaction:         *)
(* success, a client error (4xx), or unavailable, which stands for         *)
(* timeouts, exhausted retries and a breaker that refuses, whether or not  *)
(* a call was sent and executed.                                           *)
(*                                                                         *)
(* An event id stands for one payload, so whether the Account Service      *)
(* rejects an event or always breaks on it is a function of the event.     *)
(***************************************************************************)
EXTENDS Naturals, Sequences, FiniteSets

CONSTANTS
  Events,      \* event ids
  Requests,    \* POST /events requests, a client's retries included
  EventOf,     \* the event each request submits
  Rejected,    \* events the Account Service answers with a 4xx
  Poison,      \* events it answers with a 5xx, however often it is asked
  BatchLimit,  \* list_pending(limit=50)
  MaxCrashes   \* bound of the model: crashes of the Gateway process

ASSUME RequestsAssumption ==
  /\ EventOf \in [Requests -> Events]
  /\ "replayer" \notin Requests /\ "nobody" \notin Requests
ASSUME EventsAssumption ==
  Rejected \subseteq Events /\ Poison \subseteq Events /\ Rejected \cap Poison = {}
ASSUME BoundsAssumption == BatchLimit \in Nat \ {0} /\ MaxCrashes \in Nat

VARIABLES
  status,   \* events table: status per event, "absent" if there is no row
  outbox,   \* outbox table: events with a row
  ahead,    \* per event: the rows with an earlier queued_at when it was queued
  audit,    \* audit_log: the actions recorded per event, in order
  writer,   \* the session that holds the database's write lock
  pc,       \* per request: where its handler is
  saw,      \* per request: the status its lookup returned
  reply,    \* per request: the HTTP status it was answered with, 0 before
  rp,       \* the replayer: "sleep", "scan" its batch, or in a "call"
  todo,     \* entries of its batch still to visit
  dirty,    \* its session has attempt counts that are not flushed
  applied,  \* entries its session has marked APPLIED, not yet committed
  failed,   \* entries its session has marked FAILED, not yet committed
  sent,     \* events the Account Service was called for
  ledger,   \* events the Account Service holds a transaction for
  crashes   \* crashes so far

tables   == <<status, outbox, ahead, audit>>
handlers == <<pc, saw, reply>>
session  == <<todo, dirty, applied, failed>>
account  == <<sent, ledger>>
vars == <<tables, writer, handlers, rp, session, account, crashes>>

Statuses == {"absent", "QUEUED", "APPLIED", "FAILED"}
Actions  == {"RECEIVED", "QUEUED", "APPLIED", "FAILED", "REPLAYED", "DEDUPED"}
Codes    == {200, 201, 202, 400, 500, 503}

TypeOK ==
  /\ status \in [Events -> Statuses]
  /\ outbox \subseteq Events
  /\ ahead \in [Events -> SUBSET Events]
  /\ audit \in [Events -> Seq(Actions)]
  /\ writer \in Requests \union {"replayer", "nobody"}
  /\ pc \in [Requests -> {"new", "dedupe", "insert", "call", "done", "lost"}]
  /\ saw \in [Requests -> Statuses]
  /\ reply \in [Requests -> Codes \union {0}]
  /\ rp \in {"sleep", "scan", "call"}
  /\ todo \subseteq Events
  /\ dirty \in BOOLEAN
  /\ applied \subseteq Events /\ failed \subseteq Events
  /\ sent \subseteq Events /\ ledger \subseteq Events
  /\ crashes \in 0..MaxCrashes

Init ==
  /\ status = [e \in Events |-> "absent"]
  /\ outbox = {}
  /\ ahead = [e \in Events |-> {}]
  /\ audit = [e \in Events |-> <<>>]
  /\ writer = "nobody"
  /\ pc = [r \in Requests |-> "new"]
  /\ saw = [r \in Requests |-> "absent"]
  /\ reply = [r \in Requests |-> 0]
  /\ rp = "sleep" /\ todo = {} /\ dirty = FALSE /\ applied = {} /\ failed = {}
  /\ sent = {} /\ ledger = {}
  /\ crashes = 0

\* A session can write if it holds the lock already or can take it.
CanWrite(p) == writer \in {"nobody", p}

Answer(r, code) ==
  /\ pc' = [pc EXCEPT ![r] = "done"]
  /\ reply' = [reply EXCEPT ![r] = code]
  /\ UNCHANGED saw

-----------------------------------------------------------------------------
(* EventService.ingest.                                                    *)

Lookup(r) ==
  /\ pc[r] = "new"
  /\ saw' = [saw EXCEPT ![r] = status[EventOf[r]]]
  /\ pc' = [pc EXCEPT ![r] = IF status[EventOf[r]] = "absent" THEN "insert" ELSE "dedupe"]
  /\ UNCHANGED <<tables, writer, reply, rp, session, account, crashes>>

\* Mutant: a queued duplicate is reported like a settled one.
AlwaysOk(s) == 200

\* status_map.  A RECEIVED row, which it covers too, is never committed.
DuplicateCode(s) == IF s = "QUEUED" THEN 202 ELSE 200

\* A duplicate is answered with the status that the lookup returned.
Dedupe(r) ==
  /\ pc[r] = "dedupe"
  /\ CanWrite(r)
  /\ audit' = [audit EXCEPT ![EventOf[r]] = Append(@, "DEDUPED")]
  /\ Answer(r, DuplicateCode(saw[r]))
  /\ UNCHANGED <<status, outbox, ahead, writer, rp, session, account, crashes>>

\* Mutant: no primary key.
InsertAnyway(r) ==
  /\ pc[r] = "insert"
  /\ CanWrite(r)
  /\ writer' = r
  /\ pc' = [pc EXCEPT ![r] = "call"]
  /\ UNCHANGED <<tables, saw, reply, rp, session, account, crashes>>

\* INSERT and flush: from here to the commit the handler holds the lock.
Insert(r) ==
  /\ pc[r] = "insert"
  /\ CanWrite(r) /\ status[EventOf[r]] = "absent"
  /\ writer' = r
  /\ pc' = [pc EXCEPT ![r] = "call"]
  /\ UNCHANGED <<tables, saw, reply, rp, session, account, crashes>>

\* Mutant: the failed insert's session is not rolled back.
DuplicateKeepsLock(r) ==
  /\ pc[r] = "insert"
  /\ CanWrite(r) /\ status[EventOf[r]] # "absent"
  /\ writer' = r
  /\ Answer(r, 500)
  /\ UNCHANGED <<tables, rp, session, account, crashes>>

\* Someone committed the same event since the lookup: IntegrityError.
DuplicateKey(r) ==
  /\ pc[r] = "insert"
  /\ CanWrite(r) /\ status[EventOf[r]] # "absent"
  /\ Answer(r, 500)
  /\ UNCHANGED <<tables, writer, rp, session, account, crashes>>

\* "database is locked": OperationalError, nothing is stored.
LockTimeout(r) ==
  /\ pc[r] \in {"insert", "dedupe"}
  /\ ~CanWrite(r)
  /\ Answer(r, 500)
  /\ UNCHANGED <<tables, writer, rp, session, account, crashes>>

Send(r) ==
  /\ pc[r] = "call"
  /\ EventOf[r] \notin sent
  /\ sent' = sent \union {EventOf[r]}
  /\ UNCHANGED <<tables, writer, handlers, rp, session, ledger, crashes>>

\* The commit of a call's outcome s: the event's row with its audit trail.
CommitEvent(r, s, code) ==
  /\ status' = [status EXCEPT ![EventOf[r]] = s]
  /\ audit' = [audit EXCEPT ![EventOf[r]] = @ \o <<"RECEIVED", s>>]
  /\ writer' = "nobody"
  /\ Answer(r, code)
  /\ UNCHANGED <<rp, session, account, crashes>>

\* Mutants: the new status is not assigned; a 4xx is taken for an answer.
AppliedKeepsStatus(r) ==
  /\ pc[r] = "call" /\ EventOf[r] \in ledger
  /\ CommitEvent(r, "RECEIVED", 201)
  /\ UNCHANGED <<outbox, ahead>>

AppliedOnAnyAnswer(r) ==
  /\ pc[r] = "call" /\ EventOf[r] \in ledger \union (sent \cap Rejected)
  /\ CommitEvent(r, "APPLIED", 201)
  /\ UNCHANGED <<outbox, ahead>>

CallApplied(r) ==
  /\ pc[r] = "call"
  /\ EventOf[r] \in ledger
  /\ CommitEvent(r, "APPLIED", 201)
  /\ UNCHANGED <<outbox, ahead>>

\* A row in the outbox, younger than all that are there.
Enqueue(e) ==
  /\ outbox' = outbox \union {e}
  /\ ahead' = [ahead EXCEPT ![e] = outbox]

\* Mutants: the outbox row is forgotten; the insert is rolled back; a call that
\* fails is tried again without end.
UnavailableNoOutbox(r) ==
  /\ pc[r] = "call"
  /\ CommitEvent(r, "QUEUED", 503)
  /\ UNCHANGED <<outbox, ahead>>

UnavailableRollsBack(r) ==
  /\ pc[r] = "call"
  /\ writer' = "nobody"
  /\ Answer(r, 503)
  /\ UNCHANGED <<tables, rp, session, account, crashes>>

UnavailableRetriesOn(r) ==
  /\ pc[r] = "call" /\ EventOf[r] \notin Poison
  /\ Enqueue(EventOf[r])
  /\ CommitEvent(r, "QUEUED", 503)

CallUnavailable(r) ==
  /\ pc[r] = "call"
  /\ Enqueue(EventOf[r])
  /\ CommitEvent(r, "QUEUED", 503)

CallRejected(r) ==
  /\ pc[r] = "call"
  /\ EventOf[r] \in sent \cap Rejected
  /\ CommitEvent(r, "FAILED", 400)
  /\ UNCHANGED <<outbox, ahead>>

-----------------------------------------------------------------------------
(* OutboxReplayer.drain_once: one session, one commit at its end.          *)

\* The oldest BatchLimit entries, and the order in which they are visited.
Batch == {e \in outbox : Cardinality(outbox \cap ahead[e]) < BatchLimit}
Current(e) == e \in todo /\ ahead[e] \cap todo = {}

DrainStart ==
  /\ rp = "sleep" /\ outbox # {}
  /\ rp' = "scan"
  /\ todo' = Batch
  /\ UNCHANGED <<tables, writer, handlers, dirty, applied, failed, account, crashes>>

\* Any statement flushes what the session has changed, taking the lock.
Flush == CanWrite("replayer") /\ writer' = "replayer" /\ dirty' = FALSE

\* events.get of the next entry, an autoflush if an earlier one was deferred.
Fetch ==
  /\ rp = "scan" /\ todo # {}
  /\ IF dirty THEN Flush ELSE UNCHANGED <<writer, dirty>>
  /\ rp' = "call"
  /\ UNCHANGED <<tables, handlers, todo, applied, failed, account, crashes>>

ReplaySend(e) ==
  /\ rp = "call" /\ Current(e)
  /\ e \notin sent
  /\ sent' = sent \union {e}
  /\ UNCHANGED <<tables, writer, handlers, rp, session, ledger, crashes>>

Visited(e) ==
  /\ todo' = todo \ {e}
  /\ rp' = "scan"
  /\ UNCHANGED <<tables, handlers, account, crashes>>

ReplayApplied(e) ==
  /\ rp = "call" /\ Current(e)
  /\ e \in ledger
  /\ Flush
  /\ applied' = applied \union {e}
  /\ Visited(e)
  /\ UNCHANGED failed

\* Mutant: any failed attempt counts as a permanent rejection.
ReplayGivesUp(e) ==
  /\ rp = "call" /\ Current(e)
  /\ e \in sent
  /\ Flush
  /\ failed' = failed \union {e}
  /\ Visited(e)
  /\ UNCHANGED applied

ReplayRejected(e) ==
  /\ rp = "call" /\ Current(e)
  /\ e \in sent \cap Rejected
  /\ Flush
  /\ failed' = failed \union {e}
  /\ Visited(e)
  /\ UNCHANGED applied

\* Unavailable: the attempt is counted in the session and the drain goes on.
ReplayDeferred(e) ==
  /\ rp = "call" /\ Current(e)
  /\ dirty' = TRUE
  /\ Visited(e)
  /\ UNCHANGED <<writer, applied, failed>>

\* Mutant: one session for the life of the replayer, never cleared.
EndDrainKeepSession ==
  /\ rp' = "sleep" /\ todo' = {} /\ dirty' = FALSE
  /\ UNCHANGED <<applied, failed>>

EndDrain ==
  /\ rp' = "sleep"
  /\ todo' = {} /\ dirty' = FALSE /\ applied' = {} /\ failed' = {}

\* Mutant: the rejection of a replay is not audited.
TrailOfApplied(e) == IF e \in applied THEN <<"REPLAYED">> ELSE <<>>

Trail(e) == IF e \in applied THEN <<"REPLAYED">>
            ELSE IF e \in failed THEN <<"FAILED">> ELSE <<>>

DrainCommit ==
  /\ rp = "scan" /\ todo = {}
  /\ CanWrite("replayer") /\ writer' = "nobody"
  /\ status' = [e \in Events |-> IF e \in applied THEN "APPLIED"
                                 ELSE IF e \in failed THEN "FAILED" ELSE status[e]]
  /\ outbox' = outbox \ (applied \union failed)
  /\ audit' = [e \in Events |-> audit[e] \o Trail(e)]
  /\ EndDrain
  /\ UNCHANGED <<ahead, handlers, account, crashes>>

\* The replayer needs the lock and a handler keeps it: the drain's session is
\* rolled back, and the loop tries again after its interval.
DrainLockTimeout ==
  /\ ~CanWrite("replayer")
  /\ \/ rp = "scan" /\ (dirty \/ todo = {})
     \/ rp = "call" /\ \E e \in ledger \union (sent \cap Rejected) : Current(e)
  /\ EndDrain
  /\ UNCHANGED <<tables, writer, handlers, account, crashes>>

-----------------------------------------------------------------------------
(* The Account Service and the process.                                    *)

\* The Account Service executes a call: ON CONFLICT DO NOTHING, then commit.
Apply(e) ==
  /\ e \in sent \ (ledger \union Rejected \union Poison)
  /\ ledger' = ledger \union {e}
  /\ UNCHANGED <<tables, writer, handlers, rp, session, sent, crashes>>

\* The Gateway dies and restarts: running handlers are cut off, open sessions
\* rolled back; committed rows stay, and so do the calls on their way.
Crash ==
  /\ crashes < MaxCrashes
  /\ crashes' = crashes + 1
  /\ pc' = [r \in Requests |-> IF pc[r] \in {"new", "done"} THEN pc[r] ELSE "lost"]
  /\ writer' = "nobody"
  /\ EndDrain
  /\ UNCHANGED <<tables, saw, reply, account>>

-----------------------------------------------------------------------------

Ingest(r) ==
  \/ Lookup(r) \/ Dedupe(r) \/ Insert(r) \/ DuplicateKey(r) \/ LockTimeout(r)
  \/ Send(r) \/ CallApplied(r) \/ CallUnavailable(r) \/ CallRejected(r)

Replay(e) ==
  ReplaySend(e) \/ ReplayApplied(e) \/ ReplayRejected(e) \/ ReplayDeferred(e)

Drain == DrainStart \/ Fetch \/ DrainCommit \/ DrainLockTimeout

Next ==
  \/ \E r \in Requests : Ingest(r)
  \/ \E e \in Events : Replay(e) \/ Apply(e)
  \/ Drain
  \/ Crash

Spec == Init /\ [][Next]_vars

(***************************************************************************)
(* A handler runs to its end: the lock wait and every network operation    *)
(* time out, retries are counted; its steps are so few that fairness of    *)
(* all handlers together is fairness of each.  The replayer's loop never   *)
(* dies.  Nothing is assumed of the Account Service: that the outbox       *)
(* drains once it is back is a matter of the breaker (OutboxRecovery).     *)
(***************************************************************************)
Fairness ==
  /\ WF_vars(\E r \in Requests : Ingest(r))
  /\ WF_vars(Drain \/ \E e \in Events : Replay(e))

FairSpec == Spec /\ Fairness

-----------------------------------------------------------------------------
(* Safety.                                                                 *)

\* An event is QUEUED exactly while it has an outbox row: none is stranded
\* without a row, none is replayed after it was settled.
QueuedIffPending == \A e \in Events : status[e] = "QUEUED" <=> e \in outbox

\* What the replayer read at the start of its drain is still true when it acts:
\* the entries it visits or has marked are still queued, and it marks them only
\* while it holds the lock, so that no handler commits in between.
DrainSnapshotFresh ==
  /\ todo \union applied \union failed \subseteq outbox
  /\ applied \cap failed = {} /\ todo \cap (applied \union failed) = {}
  /\ applied \union failed # {} => writer = "replayer"

\* The two services agree: an APPLIED event has its transaction, a FAILED one
\* has none and never will.
Agreement == \A e \in Events :
  /\ status[e] = "APPLIED" => e \in ledger
  /\ status[e] = "FAILED" => e \notin ledger /\ e \in Rejected

\* The Account Service holds a transaction for an event the Gateway does not
\* know only while the event's handler still runs, or after a crash.
NoOrphanWithoutCrash == \A e \in ledger :
  status[e] # "absent" \/ crashes > 0 \/ \E r \in Requests : writer = r /\ EventOf[r] = e

\* However many requests race for an event, at most one is told that it was the
\* one to store it (201, 503 or 4xx).
OneOriginal == \A r1, r2 \in Requests :
  /\ EventOf[r1] = EventOf[r2]
  /\ reply[r1] \in {201, 503, 400} /\ reply[r2] \in {201, 503, 400}
  => r1 = r2

\* An answer stays true, across replays and crashes: a 2xx or 503 names an event
\* that is stored, and one reported as applied or rejected stays so.
ReplyDurable == \A r \in Requests :
  LET s == status[EventOf[r]] IN
  /\ reply[r] \in {202, 503} => s # "absent"
  /\ reply[r] = 201 => s = "APPLIED"
  /\ reply[r] = 200 => s \in {"APPLIED", "FAILED"}
  /\ reply[r] = 400 => s = "FAILED"

\* The requests whose submission was answered as a duplicate, and the entries of an
\* event's audit log that are not about one, by their positions.
Duplicates(e) == {r \in Requests : EventOf[r] = e /\ reply[r] \in {200, 202}}
Told(log) == {k \in DOMAIN log : log[k] # "DEDUPED"}

\* The audit log tells each event's story: that it was received and how its call went,
\* which were committed together, then how a queued one was settled; and one DEDUPED
\* entry per duplicate that was answered as one.
AuditTrail == \A e \in Events :
  LET log == audit[e] IN
  /\ Cardinality(DOMAIN log \ Told(log)) = Cardinality(Duplicates(e))
  /\ \/ status[e] = "absent" /\ log = <<>>
     \/ /\ status[e] # "absent" /\ Len(log) >= 2 /\ log[1] = "RECEIVED"
        /\ \/ log[2] = status[e] /\ Told(log) = {1, 2}
           \/ /\ log[2] = "QUEUED" /\ status[e] # "QUEUED"
              /\ \E k \in 3..Len(log) :
                   /\ Told(log) = {1, 2, k}
                   /\ log[k] = IF status[e] = "APPLIED" THEN "REPLAYED" ELSE "FAILED"

-----------------------------------------------------------------------------
(* The abstract specification it implements.                               *)

InCall(e) == \E r \in Requests : pc[r] = "call" /\ EventOf[r] = e

lifecycle == [e \in Events |-> IF InCall(e) THEN "RECEIVED"
                               ELSE IF status[e] = "absent" THEN "none" ELSE status[e]]

Lifecycle == INSTANCE EventLifecycle WITH state <- lifecycle, attempted <- sent

\* Every behaviour of the Gateway is one the event state machine allows.
ImplementsLifecycle == Lifecycle!Spec

-----------------------------------------------------------------------------
(* Liveness, under Fairness.                                               *)

\* Every request is answered, unless a crash cuts it off.
EveryRequestEnds == <>(\A r \in Requests : pc[r] \in {"done", "lost"})

\* The write lock comes free again and again, whatever becomes of its holder: commit,
\* duplicate key, a drain that fails half-way, a crash.  A session that kept it would
\* have every later POST answered 500.
LockComesFree == []<>(writer = "nobody")

-----------------------------------------------------------------------------
(* What the documentation says.                                            *)

\* README.md:24, "duplicates return the original event": a POST for an event that
\* is stored is not answered with an error.
NoErrorForDuplicate ==
  [][\A r \in Requests : reply[r] # 500 /\ reply'[r] = 500
       => status[EventOf[r]] = "absent"]_vars

\* README.md:27, "when Account is down, POST /events returns 503 with a durable
\* QUEUED event": a new event that is answered at all is stored.
AnsweredIsStored == \A r \in Requests :
  pc[r] = "done" => status[EventOf[r]] # "absent" \/ InCall(EventOf[r])
=============================================================================
