--------------------------- MODULE AccountClient ---------------------------
(***************************************************************************)
(* The Gateway's client of the Account Service: AccountClient              *)
(* .apply_transaction, composed as circuit_breaker(retry(one_http_call)).  *)
(*                                                                         *)
(* The breaker is module CircuitBreaker.  A call that was admitted makes   *)
(* up to MaxAttempts HTTP requests: a transport error, a timeout or a 5xx  *)
(* (TransientHttpError) is tried again after a pause, anything else ends   *)
(* the call.  The breaker sees only how the call ended.  Its result is     *)
(* also the verdict of apply_transaction: "breaker_open" and "unavailable" *)
(* both become AccountServiceUnavailableError.                             *)
(***************************************************************************)
EXTENDS CircuitBreaker, Sequences

CONSTANTS
  MaxAttempts,  \* retry_attempts
  StreakMax     \* bound of the model: where streak stops counting

ASSUME ClientAssumption ==
  /\ MaxAttempts \in Nat \ {0} /\ StreakMax \in Nat
  /\ IsFiniteSet(Callers)

VARIABLES
  attempt,  \* per caller: the attempt its call is in, 0 outside a call
  log,      \* per caller: the answers its current or last call got, in order
  streak    \* HTTP requests that failed since the last success (history)

clientVars == <<vars, attempt, log, streak>>

\* "odd" is what is neither retried nor a client error: a 3xx that
\* raise_for_status refuses, or a body that is not JSON.
Answers == {"ok", "transient", "client_error", "odd"}

ClientTypeOK ==
  /\ attempt \in [Callers -> 0..MaxAttempts]
  /\ log \in [Callers -> Seq(Answers)]
  /\ \A c \in Callers : Len(log[c]) <= MaxAttempts
  /\ streak \in 0..StreakMax

ClientInit ==
  /\ Init
  /\ attempt = [c \in Callers |-> 0]
  /\ log = [c \in Callers |-> <<>>]
  /\ streak = 0

Begin(c) ==
  /\ AdmitClosed(c) \/ AdmitProbe(c)
  /\ attempt' = [attempt EXCEPT ![c] = 1]
  /\ log' = [log EXCEPT ![c] = <<>>]
  /\ UNCHANGED streak

FailFast(c) ==
  /\ Refuse(c)
  /\ log' = [log EXCEPT ![c] = <<>>]
  /\ UNCHANGED <<attempt, streak>>

\* One HTTP request is answered.
Answered(c, a) ==
  /\ attempt[c] > 0
  /\ log' = [log EXCEPT ![c] = Append(@, a)]
  /\ streak' = IF a = "ok" THEN 0 ELSE IF streak < StreakMax THEN streak + 1 ELSE streak

End(c) == attempt' = [attempt EXCEPT ![c] = 0]

\* Mutants: the breaker inside the retry, so that each attempt counts; a client
\* error that is retried.
RetryCounts(c) ==
  /\ Answered(c, "transient") /\ attempt[c] < MaxAttempts
  /\ failures' = Bump(failures)
  /\ attempt' = [attempt EXCEPT ![c] = @ + 1]
  /\ UNCHANGED <<state, elapsed, probing, admitted, result>>

RetryAnything(c) ==
  /\ \E a \in Answers \ {"ok"} : Answered(c, a)
  /\ attempt[c] < MaxAttempts
  /\ attempt' = [attempt EXCEPT ![c] = @ + 1]
  /\ UNCHANGED vars

\* stop_after_attempt off by one; no limit at all.
RetryOnceMore(c) ==
  /\ Answered(c, "transient") /\ attempt[c] <= MaxAttempts
  /\ attempt' = [attempt EXCEPT ![c] = @ + 1]
  /\ UNCHANGED vars

RetryForEver(c) ==
  /\ attempt[c] > 0
  /\ UNCHANGED <<vars, attempt, log>>
  /\ streak' = IF streak < StreakMax THEN streak + 1 ELSE 0

Retry(c) ==
  /\ Answered(c, "transient") /\ attempt[c] < MaxAttempts
  /\ attempt' = [attempt EXCEPT ![c] = @ + 1]
  /\ UNCHANGED vars

GiveUp(c) ==
  /\ Answered(c, "transient") /\ attempt[c] = MaxAttempts
  /\ Fail(c, "unavailable")
  /\ End(c)

Rejected(c) == Answered(c, "client_error") /\ Fail(c, "client_error") /\ End(c)

Unreadable(c) == Answered(c, "odd") /\ Fail(c, "unavailable") /\ End(c)

Ok(c) == Answered(c, "ok") /\ Succeed(c) /\ End(c)

InCall(c) == Retry(c) \/ GiveUp(c) \/ Rejected(c) \/ Unreadable(c) \/ Ok(c)

ClientNext ==
  \/ \E c \in Callers : Begin(c) \/ FailFast(c) \/ InCall(c)
  \/ Elapse /\ UNCHANGED <<attempt, log, streak>>

(***************************************************************************)
(* Time passes; httpx bounds each network operation, so every request that *)
(* was sent ends; and callers come back: the replayer polls for as long as *)
(* an event is queued, so some caller that finds the breaker open and its  *)
(* timeout over probes it.                                                 *)
(***************************************************************************)
ClientSpec ==
  /\ ClientInit /\ [][ClientNext]_clientVars
  /\ WF_clientVars(Elapse /\ UNCHANGED <<attempt, log, streak>>)
  /\ \A c \in Callers : WF_clientVars(InCall(c))
  /\ WF_clientVars(\E c \in Callers : CanProbe /\ Begin(c))

-----------------------------------------------------------------------------

\* The verdict tells what the call went through.  A client error is reported at
\* once and after nothing but transient failures; unavailable means that the
\* attempts were used up, that the answer made no sense, or that none was made.
VerdictExplained == \A c \in Callers : attempt[c] = 0 =>
  LET n == Len(log[c])
      last == IF n = 0 THEN "none" ELSE log[c][n]
  IN /\ \A i \in 1..(n - 1) : log[c][i] = "transient"
     /\ result[c] = "ok" <=> last = "ok"
     /\ result[c] = "client_error" <=> last = "client_error"
     /\ result[c] = "unavailable" <=> last = "odd" \/ (last = "transient" /\ n = MaxAttempts)

\* DESIGN.md:84, "each Gateway request consumes one breaker attempt": the failure
\* count moves only when a call ends, whatever its attempts.
OneCountPerCall ==
  [][failures' # failures => \E c \in Callers : attempt[c] > 0 /\ attempt'[c] = 0]_clientVars

\* "A sustained outage will trip it": a breaker that is still closed has let no
\* more failing requests through than its threshold and the running calls allow.
OutageBounded == state = "closed" =>
  streak <= (FailMax - 1) * MaxAttempts + Cardinality(Callers) * (MaxAttempts - 1)

\* A call ends, with a verdict.
EveryCallEnds == \A c \in Callers : attempt[c] > 0 ~> attempt[c] = 0
=============================================================================
