--------------------------- MODULE CircuitBreaker ---------------------------
(***************************************************************************)
(* The in-house circuit breaker of the Event Gateway                       *)
(* (services/gateway/app/resilience/circuit_breaker.py, class              *)
(* AsyncCircuitBreaker), shared by every POST /events handler and by the   *)
(* outbox replayer.                                                        *)
(*                                                                         *)
(* call(func) is two critical sections under an asyncio lock with one      *)
(* await of func between them.  Neither section awaits anything, so each   *)
(* is one atomic step here: an admission (or a refusal), and the           *)
(* bookkeeping of an outcome.  Between the two, any other caller runs.     *)
(*                                                                         *)
(* The monotonic clock is abstracted to what call compares:  elapsed says  *)
(* that reset_timeout has passed since _opened_at was last set.  Nothing   *)
(* bounds the length of a call from above (httpx bounds each network       *)
(* operation, and reset_timeout is a setting), so a call admitted while    *)
(* the breaker was closed may still be running in any later state.         *)
(*                                                                         *)
(* consecutive_failures is only ever compared with fail_max, by >=; it is  *)
(* kept saturated at FailMax, which no comparison can tell from its value. *)
(***************************************************************************)
EXTENDS Naturals, FiniteSets

CONSTANTS Callers,    \* tasks that use the breaker: requests, the replayer
          FailMax     \* fail_max

ASSUME FailMaxAssumption == FailMax \in Nat \ {0}

VARIABLES
  state,      \* _state
  failures,   \* _counters.consecutive_failures, saturated at FailMax
  elapsed,    \* monotonic() - _opened_at >= reset_timeout
  probing,    \* _half_open_in_flight
  admitted,   \* per caller: not in call, or how its running call got in
  result      \* per caller: what its last finished call returned or raised

vars == <<state, failures, elapsed, probing, admitted, result>>

States == {"closed", "open", "half_open"}
Outcomes == {"none", "ok", "unavailable", "client_error", "breaker_open"}

TypeOK ==
  /\ state \in States
  /\ failures \in 0..FailMax
  /\ elapsed \in BOOLEAN
  /\ probing \in BOOLEAN
  /\ admitted \in [Callers -> {"no", "regular", "probe"}]
  /\ result \in [Callers -> Outcomes]

Init ==
  /\ state = "closed"
  /\ failures = 0
  /\ elapsed = FALSE
  /\ probing = FALSE
  /\ admitted = [c \in Callers |-> "no"]
  /\ result = [c \in Callers |-> "none"]

\* reset, and the state a new breaker is built with.  A running process never calls
\* it: only a start (module OutboxRecovery) and the tests do.
Reset == state' = "closed" /\ failures' = 0 /\ elapsed' = FALSE /\ probing' = FALSE

-----------------------------------------------------------------------------
(* First critical section of call: admission.                              *)

\* Mutant: a half-open breaker lets everyone in.
AdmitHalfOpen(c) ==
  /\ admitted[c] = "no"
  /\ state # "open"
  /\ admitted' = [admitted EXCEPT ![c] = "regular"]
  /\ UNCHANGED <<state, failures, elapsed, probing, result>>

AdmitClosed(c) ==
  /\ admitted[c] = "no"
  /\ state = "closed"
  /\ admitted' = [admitted EXCEPT ![c] = "regular"]
  /\ UNCHANGED <<state, failures, elapsed, probing, result>>

\* Whether the next caller is let through as a probe.
CanProbe == IF state = "open" THEN elapsed ELSE state = "half_open" /\ ~probing

\* The first caller after the timeout turns the breaker half-open and probes.
AdmitProbe(c) ==
  /\ admitted[c] = "no"
  /\ CanProbe
  /\ state' = "half_open"
  /\ probing' = TRUE
  /\ admitted' = [admitted EXCEPT ![c] = "probe"]
  /\ UNCHANGED <<failures, elapsed, result>>

\* CircuitBreakerError: open and too early, or a probe already in flight.
Refuse(c) ==
  /\ admitted[c] = "no"
  /\ state # "closed" /\ ~CanProbe
  /\ result' = [result EXCEPT ![c] = "breaker_open"]
  /\ UNCHANGED <<state, failures, elapsed, probing, admitted>>

-----------------------------------------------------------------------------
(* Second critical section of call: the outcome of func.                   *)

Bump(n) == IF n < FailMax THEN n + 1 ELSE n

\* Mutants: a success takes one failure back; or leaves the count alone.
SucceedDecrement(c) ==
  /\ admitted[c] # "no"
  /\ failures' = failures - 1
  /\ admitted' = [admitted EXCEPT ![c] = "no"]
  /\ UNCHANGED <<state, elapsed, probing, result>>

SucceedKeepCount(c) ==
  /\ admitted[c] # "no"
  /\ state' = "closed" /\ probing' = FALSE
  /\ admitted' = [admitted EXCEPT ![c] = "no"]
  /\ UNCHANGED <<failures, elapsed, result>>

Succeed(c) ==
  /\ admitted[c] # "no"
  /\ failures' = 0
  /\ IF state = "half_open"
     THEN state' = "closed" /\ probing' = FALSE
     ELSE UNCHANGED <<state, probing>>
  /\ admitted' = [admitted EXCEPT ![c] = "no"]
  /\ result' = [result EXCEPT ![c] = "ok"]
  /\ UNCHANGED elapsed

\* Mutants: the probe's failure leaves its flag set; the probe's failure does not
\* reopen the breaker; the threshold is one failure early.
FailKeepFlag(c, kind) ==
  /\ admitted[c] # "no"
  /\ failures' = Bump(failures)
  /\ IF state = "half_open" \/ failures' >= FailMax
     THEN elapsed' = FALSE /\ state' = "open"
     ELSE UNCHANGED <<elapsed, state>>
  /\ admitted' = [admitted EXCEPT ![c] = "no"]
  /\ UNCHANGED <<probing, result>>

FailNotReopening(c, kind) ==
  /\ admitted[c] # "no"
  /\ failures' = Bump(failures)
  /\ IF state = "closed" /\ failures' >= FailMax
     THEN elapsed' = FALSE /\ state' = "open"
     ELSE UNCHANGED <<elapsed, state>>
  /\ admitted' = [admitted EXCEPT ![c] = "no"]
  /\ UNCHANGED <<probing, result>>

FailOneEarly(c, kind) ==
  /\ admitted[c] # "no"
  /\ failures' = Bump(failures)
  /\ IF state = "half_open" \/ failures' >= FailMax - 1
     THEN elapsed' = FALSE /\ state' = "open" /\ probing' = FALSE
     ELSE UNCHANGED <<elapsed, state, probing>>
  /\ admitted' = [admitted EXCEPT ![c] = "no"]
  /\ UNCHANGED result

\* "except Exception" takes every failure alike, the 4xx of a client error
\* included.  Outside half_open the threshold is compared in any state: a
\* straggler that fails while the breaker is open restarts its timeout.
Fail(c, kind) ==
  /\ admitted[c] # "no"
  /\ failures' = Bump(failures)
  /\ IF state = "half_open"
     THEN elapsed' = FALSE /\ probing' = FALSE /\ state' = "open"
     ELSE /\ IF failures' >= FailMax
             THEN elapsed' = FALSE /\ state' = "open"
             ELSE UNCHANGED <<elapsed, state>>
          /\ UNCHANGED probing
  /\ admitted' = [admitted EXCEPT ![c] = "no"]
  /\ result' = [result EXCEPT ![c] = kind]

-----------------------------------------------------------------------------

\* reset_timeout passes while the breaker is open.
Elapse ==
  /\ state = "open" /\ ~elapsed
  /\ elapsed' = TRUE
  /\ UNCHANGED <<state, failures, probing, admitted, result>>

Finish(c) == Succeed(c) \/ \E kind \in {"unavailable", "client_error"} : Fail(c, kind)

Next ==
  \/ \E c \in Callers :
       AdmitClosed(c) \/ AdmitProbe(c) \/ Refuse(c) \/ Finish(c)
  \/ Elapse

Spec == Init /\ [][Next]_vars

-----------------------------------------------------------------------------
(* Safety.                                                                 *)

\* A closed breaker has seen fewer than fail_max failures since the last
\* success: it never keeps passing calls after the threshold was reached, and
\* it never closes with a count that the next failure would carry past it.
ClosedBelowThreshold == state = "closed" => failures < FailMax

\* The half-open breaker always waits for a probe that really is running, and
\* _half_open_in_flight is set in no other state: a flag left behind would make
\* call refuse every request for ever.
ProbeFlagExact ==
  /\ probing <=> state = "half_open"
  /\ state = "half_open" => \E c \in Callers : admitted[c] = "probe"

\* circuit_breaker.py:41, "HALF_OPEN: a single probe request is allowed": while the
\* breaker is half-open nobody is let in, so each half-open episode has exactly the
\* one probe that began it.  (A straggler from an earlier time may end the episode
\* before its probe returns; the next episode's probe then runs beside it.)
OneProbePerEpisode ==
  [][state = "half_open" =>
       \A c \in Callers : admitted[c] = "no" => admitted'[c] = "no"]_vars

\* Only a call that fails opens the breaker, from the closed state one that fills
\* the count; only a call that succeeds closes it again.
TransitionsHaveCause ==
  [][/\ state' = "open" /\ state # "open" =>
          /\ \E c \in Callers : admitted[c] # "no" /\ admitted'[c] = "no" /\ result'[c] # "ok"
          /\ state = "closed" => failures' = FailMax
     /\ state' = "closed" /\ state # "closed" =>
          /\ \E c \in Callers : admitted[c] # "no" /\ admitted'[c] = "no" /\ result'[c] = "ok"
          /\ failures' = 0]_vars

\* DESIGN.md:85, a 4xx is "no retry, no breaker count": a call that ends with a
\* client error leaves the failure count as it was.
ClientErrorNotCounted ==
  [][\A c \in Callers :
       admitted[c] # "no" /\ admitted'[c] = "no" /\ result'[c] = "client_error"
         => failures' = failures]_vars

-----------------------------------------------------------------------------
(* Liveness, where callers come back and admitted calls end.               *)

\* An open breaker is probed eventually, however many stragglers restart its
\* timeout, and a probe always comes to a verdict: failing fast is never
\* permanent.
NeverStuck ==
  /\ state = "open" ~> state = "half_open"
  /\ state = "half_open" ~> state # "half_open"
=============================================================================
