-------------------------- MODULE RequestPipeline --------------------------
(***************************************************************************)
(* The way of a request through the Event Gateway: validation, rate limit, *)
(* handler, answer.                                                        *)
(*                                                                         *)
(* FastAPI validates a body before it calls the handler, and the limiter   *)
(* decorates the handler: a request that does not validate is answered     *)
(* before the limiter sees it.  The limit is on POST /events alone, per    *)
(* client and window of a minute, which begins with the client's first     *)
(* POST; the counts are in the memory of the process.                      *)
(*                                                                         *)
(* No other resource is counted before a handler runs: its session opens a *)
(* connection of its own at its first statement (SQLAlchemy's NullPool).   *)
(* What handlers do to the tables, and their wait for the write lock, is   *)
(* in EventGateway; here it is not told apart what they answer.            *)
(***************************************************************************)
EXTENDS Naturals, FiniteSets

CONSTANTS
  Requests,
  Kind,     \* "post", "get" or "health"
  Client,   \* the address a request comes from
  Body,     \* "valid", "invalid", or "garbled": an amount that is no number
  Limit,    \* rate_limit_per_minute
  MaxCrashes \* bound of the model: crashes of the process

Posts == {r \in Requests : Kind[r] = "post"}
Clients == {Client[r] : r \in Requests}

ASSUME PipelineAssumption ==
  /\ IsFiniteSet(Requests)
  /\ Kind \in [Requests -> {"post", "get", "health"}]
  /\ Body \in [Requests -> {"valid", "invalid", "garbled"}]
  /\ \A r \in Requests : Kind[r] # "post" => Body[r] = "valid"
  /\ DOMAIN Client = Requests
  /\ Limit \in Nat \ {0} /\ MaxCrashes \in Nat

VARIABLES
  at,     \* per request: "new", "run" in its handler, "done", or "lost" in a crash
  reply,  \* per request: its answer, see Replies
  hits,   \* per client: POSTs counted in the current window
  crashes

vars == <<at, reply, hits, crashes>>

\* None yet; the handler's own; 4xx of the validation; 429; 500.
Replies == {"none", "handled", "invalid", "limited", "error"}

TypeOK ==
  /\ at \in [Requests -> {"new", "run", "done", "lost"}]
  /\ reply \in [Requests -> Replies]
  /\ hits \in [Clients -> 0..Limit]
  /\ crashes \in 0..MaxCrashes

Init ==
  /\ at = [r \in Requests |-> "new"]
  /\ reply = [r \in Requests |-> "none"]
  /\ hits = [c \in Clients |-> 0]
  /\ crashes = 0

\* The handler returns, or its exception becomes an answer.
Answer(r, a) ==
  /\ at' = [at EXCEPT ![r] = "done"]
  /\ reply' = [reply EXCEPT ![r] = a]
  /\ UNCHANGED <<hits, crashes>>

-----------------------------------------------------------------------------

\* A request whose amount is no number is not refused but fails: the validator
\* lets decimal.InvalidOperation through, which is no ValueError.
Refuse(r) ==
  /\ at[r] = "new" /\ Body[r] # "valid"
  /\ Answer(r, IF Body[r] = "invalid" THEN "invalid" ELSE "error")

\* Mutant: all clients share one count.
LimitedTogether(r) ==
  /\ at[r] = "new" /\ r \in Posts /\ Body[r] = "valid"
  /\ \E c \in Clients : hits[c] = Limit
  /\ Answer(r, "limited")

Limited(r) ==
  /\ at[r] = "new" /\ r \in Posts /\ Body[r] = "valid"
  /\ hits[Client[r]] = Limit
  /\ Answer(r, "limited")

\* Mutant: the limit is not applied.
AdmitUnlimited(r) ==
  /\ at[r] = "new" /\ Body[r] = "valid"
  /\ hits' = IF r \in Posts THEN [hits EXCEPT ![Client[r]] = @ + 1] ELSE hits
  /\ at' = [at EXCEPT ![r] = "run"]
  /\ UNCHANGED <<reply, crashes>>

Admit(r) ==
  /\ at[r] = "new" /\ Body[r] = "valid"
  /\ IF r \in Posts
     THEN hits[Client[r]] < Limit /\ hits' = [hits EXCEPT ![Client[r]] = @ + 1]
     ELSE UNCHANGED hits
  /\ at' = [at EXCEPT ![r] = "run"]
  /\ UNCHANGED <<reply, crashes>>

\* A handler's own answer, or an exception that only the last handler catches.  The
\* health check has its own answer for every failure.
Handled(r) ==
  /\ at[r] = "run"
  /\ Answer(r, "handled") \/ (Kind[r] # "health" /\ Answer(r, "error"))

-----------------------------------------------------------------------------

NewWindow(c) ==
  /\ hits[c] > 0 /\ hits' = [hits EXCEPT ![c] = 0]
  /\ UNCHANGED <<at, reply, crashes>>

\* The process dies and starts again, with no counts.
Crash ==
  /\ crashes < MaxCrashes /\ crashes' = crashes + 1
  /\ at' = [r \in Requests |-> IF at[r] = "run" THEN "lost" ELSE at[r]]
  /\ hits' = [c \in Clients |-> 0]
  /\ UNCHANGED reply

Handle(r) == Refuse(r) \/ Limited(r) \/ Admit(r) \/ Handled(r)

Next ==
  \/ \E r \in Requests : Handle(r)
  \/ \E c \in Clients : NewWindow(c)
  \/ Crash

Spec == Init /\ [][Next]_vars

-----------------------------------------------------------------------------

\* The POSTs of a client that reached their handler.
Passed(c) == {r \in Posts : /\ Client[r] = c /\ Body[r] = "valid"
                            /\ at[r] # "new" /\ reply[r] # "limited"}

\* A 429 is earned: the client has had as many POSTs handled as the limit allows.
\* Reads, other clients' requests and those that validation refused use nothing up.
LimitEarned == \A r \in Requests :
  reply[r] = "limited" => Cardinality(Passed(Client[r])) >= Limit
=============================================================================
