--------------------------- MODULE OutboxRecovery ---------------------------
(***************************************************************************)
(* The outbox replayer behind the circuit breaker, after an outage: does   *)
(* the outbox drain once the Account Service is back?                      *)
(*                                                                         *)
(* EventGateway lets any replay be deferred; here the breaker (module      *)
(* CircuitBreaker) decides which calls are let through.  A client goes on  *)
(* posting meanwhile, one event after the other: its handlers use the same *)
(* breaker, queue what they cannot deliver, and hold the database's write  *)
(* lock from their insert to their commit, so that a drain that needs it   *)
(* may be rolled back.                                                     *)
(*                                                                         *)
(* Entries are numbered in the order of their queued_at: the first ones    *)
(* were left by the outage, the others are posted.                         *)
(***************************************************************************)
EXTENDS Naturals, FiniteSetsExt

CONSTANTS
  Old, N,   \* entries left by the outage; with those that are posted later
  Rejected, \* entries whose transaction the Account Service answers with a 4xx
  Poison,   \* entries it answers with a 5xx, however often it is asked
  BatchLimit, \* list_pending(limit=50)
  FailMax,  \* fail_max of the breaker
  MaxRestarts \* bound of the model: restarts of the Gateway

ASSUME EntriesAssumption ==
  /\ Old \in Nat /\ N \in Nat /\ Old <= N
  /\ Rejected \subseteq 1..N /\ Poison \subseteq 1..N /\ Rejected \cap Poison = {}
  /\ BatchLimit \in Nat \ {0} /\ MaxRestarts \in Nat

VARIABLES
  up,       \* the Account Service can be reached
  pending,  \* the outbox table
  writer,   \* who holds the write lock
  phase,    \* the replayer: "sleep", "scan" its batch, "ask" the breaker, in a
            \* "call", or to "mark" its outcome
  todo,     \* entries of the batch still to visit
  dirty,    \* its session has attempt counts that are not flushed
  marked,   \* entries settled in the session, not yet committed
  post,     \* the client's handler: "none", "ask" or "call" as above
  posted,   \* the last entry that was posted
  restarts, \* so far
  state, failures, elapsed, probing, admitted, result  \* the breaker

Callers == {"replayer", "handler"}

Breaker == INSTANCE CircuitBreaker

breaker == <<state, failures, elapsed, probing, admitted, result>>
drain   == <<phase, todo, dirty, marked>>
client  == <<post, posted>>
vars == <<up, pending, writer, drain, client, restarts, breaker>>

TypeOK ==
  /\ up \in BOOLEAN
  /\ pending \subseteq 1..N /\ todo \subseteq pending /\ marked \subseteq pending
  /\ writer \in Callers \union {"nobody"}
  /\ phase \in {"sleep", "scan", "ask", "call", "mark"} /\ dirty \in BOOLEAN
  /\ post \in {"none", "ask", "call"} /\ posted \in Old..N
  /\ restarts \in 0..MaxRestarts
  /\ Breaker!TypeOK

Init ==
  /\ up = FALSE
  /\ pending = 1..Old /\ writer = "nobody"
  /\ phase = "sleep" /\ todo = {} /\ dirty = FALSE /\ marked = {}
  /\ post = "none" /\ posted = Old
  /\ restarts = 0
  /\ Breaker!Init

Admit(c) == Breaker!AdmitClosed(c) \/ Breaker!AdmitProbe(c)

Accepts(e) == up /\ e \notin Rejected \union Poison
Rejects(e) == up /\ e \in Rejected

\* How a call about e ends: an answer that settles it, which the breaker takes for a
\* failure if it is a 4xx; or none.
Settled(c, e) == \/ Accepts(e) /\ Breaker!Succeed(c)
                 \/ Rejects(e) /\ Breaker!Fail(c, "client_error")

Unavailable(c, e) == ~Accepts(e) /\ ~Rejects(e) /\ Breaker!Fail(c, "unavailable")

-----------------------------------------------------------------------------
(* OutboxReplayer.drain_once.                                              *)

DrainStart ==
  /\ phase = "sleep" /\ pending # {}
  /\ phase' = "scan"
  /\ todo' = {e \in pending : Cardinality({f \in pending : f < e}) < BatchLimit}
  /\ UNCHANGED <<up, pending, writer, dirty, marked, client, restarts, breaker>>

\* Any statement flushes what the session has changed, taking the lock.
Flush == writer # "handler" /\ writer' = "replayer" /\ dirty' = FALSE

\* events.get of the next entry.
Fetch ==
  /\ phase = "scan" /\ todo # {}
  /\ IF dirty THEN Flush ELSE UNCHANGED <<writer, dirty>>
  /\ phase' = "ask"
  /\ UNCHANGED <<up, pending, todo, marked, client, restarts, breaker>>

Call ==
  /\ phase = "ask" /\ Admit("replayer")
  /\ phase' = "call"
  /\ UNCHANGED <<up, pending, writer, todo, dirty, marked, client, restarts>>

\* record_attempt, and on to the next entry: the breaker refuses, or the call fails.
Deferred ==
  /\ \/ phase = "ask" /\ Breaker!Refuse("replayer")
     \/ phase = "call" /\ Unavailable("replayer", Min(todo))
  /\ phase' = "scan" /\ todo' = todo \ {Min(todo)} /\ dirty' = TRUE
  /\ UNCHANGED <<up, pending, writer, marked, client, restarts>>

Answered ==
  /\ phase = "call" /\ Settled("replayer", Min(todo))
  /\ phase' = "mark"
  /\ UNCHANGED <<up, pending, writer, todo, dirty, marked, client, restarts>>

\* APPLIED or FAILED, and the DELETE of the outbox row.
Mark ==
  /\ phase = "mark" /\ Flush
  /\ phase' = "scan" /\ todo' = todo \ {Min(todo)} /\ marked' = marked \union {Min(todo)}
  /\ UNCHANGED <<up, pending, client, restarts, breaker>>

\* Mutant: the session of the drain is kept for the next one.
EndDrainKeepSession == phase' = "sleep" /\ todo' = {} /\ UNCHANGED <<dirty, marked>>

EndDrain == phase' = "sleep" /\ todo' = {} /\ dirty' = FALSE /\ marked' = {}

\* Mutant: the commit is missing.
CommitMissing ==
  /\ phase = "scan" /\ todo = {}
  /\ writer # "handler" /\ writer' = "nobody"
  /\ EndDrain
  /\ UNCHANGED <<up, pending, client, restarts, breaker>>

Commit ==
  /\ phase = "scan" /\ todo = {}
  /\ writer # "handler" /\ writer' = "nobody"
  /\ pending' = pending \ marked
  /\ EndDrain
  /\ UNCHANGED <<up, client, restarts, breaker>>

\* The handler keeps the lock: rollback, and the next drain begins anew.
DrainLockTimeout ==
  /\ writer = "handler"
  /\ phase = "mark" \/ (phase = "scan" /\ (dirty \/ todo = {}))
  /\ EndDrain
  /\ UNCHANGED <<up, pending, writer, client, restarts, breaker>>

-----------------------------------------------------------------------------
(* EventService.ingest, for the client's next event.                       *)

\* The insert takes the lock.
Post ==
  /\ post = "none" /\ posted < N
  /\ writer = "nobody" /\ writer' = "handler"
  /\ post' = "ask" /\ posted' = posted + 1
  /\ UNCHANGED <<up, pending, drain, restarts, breaker>>

\* A drain keeps the lock: the event is not stored.
PostLockTimeout ==
  /\ post = "none" /\ posted < N /\ writer = "replayer"
  /\ posted' = posted + 1
  /\ UNCHANGED <<up, pending, writer, drain, post, restarts, breaker>>

PostCall ==
  /\ post = "ask" /\ Admit("handler")
  /\ post' = "call"
  /\ UNCHANGED <<up, pending, writer, drain, posted, restarts>>

\* The handler's commit, whether the event is queued or settled.
PostEnd ==
  /\ \/ post = "ask" /\ Breaker!Refuse("handler") /\ pending' = pending \union {posted}
     \/ /\ post = "call" /\ Unavailable("handler", posted)
        /\ pending' = pending \union {posted}
     \/ post = "call" /\ Settled("handler", posted) /\ UNCHANGED pending
  /\ post' = "none" /\ writer' = "nobody"
  /\ UNCHANGED <<up, drain, posted, restarts>>

-----------------------------------------------------------------------------

Elapse == Breaker!Elapse /\ UNCHANGED <<up, pending, writer, drain, client, restarts>>

\* The outage ends.
Recover ==
  /\ ~up /\ up' = TRUE
  /\ UNCHANGED <<pending, writer, drain, client, restarts, breaker>>

\* stop cancels the tasks wherever they are, or the process dies: open sessions are
\* rolled back.  The next process has a new breaker and the outbox that was committed.
Restart ==
  /\ restarts < MaxRestarts /\ restarts' = restarts + 1
  /\ EndDrain /\ post' = "none" /\ writer' = "nobody"
  /\ Breaker!Reset
  /\ admitted' = [c \in Callers |-> "no"] /\ result' = [c \in Callers |-> "none"]
  /\ UNCHANGED <<up, pending, posted>>

Replayer == DrainStart \/ Fetch \/ Call \/ Deferred \/ Answered \/ Mark \/ Commit
            \/ DrainLockTimeout

Handler == PostCall \/ PostEnd

Next == Replayer \/ Handler \/ Post \/ PostLockTimeout \/ Elapse \/ Recover \/ Restart

\* The replayer polls, a handler that was begun ends, reset_timeout passes, and the
\* outage ends: nothing else has to happen for the outbox to drain.
Spec ==
  /\ Init /\ [][Next]_vars
  /\ WF_vars(Replayer) /\ WF_vars(Handler) /\ WF_vars(Elapse) /\ WF_vars(Recover)

-----------------------------------------------------------------------------

\* README.md:27, "an outbox replayer drains automatically on recovery": every entry
\* that the Account Service answers is settled in the end, although the breaker
\* refuses calls and drains are rolled back.
DrainsOnRecovery == \A e \in 1..N \ Poison : e \in pending ~> e \notin pending
=============================================================================
