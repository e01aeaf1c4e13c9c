------------------------ MODULE CircuitBreakerProofs ------------------------
(***************************************************************************)
(* The breaker's safety, for any set of callers and any fail_max.          *)
(***************************************************************************)
EXTENDS CircuitBreaker, TLAPS

\* TypeOK and the two invariants are inductive together.
BreakerInv == TypeOK /\ ClosedBelowThreshold /\ ProbeFlagExact

LEMMA BreakerInvInit == Init => BreakerInv
<1> SUFFICES ASSUME Init PROVE BreakerInv
  OBVIOUS
<1> USE DEF Init, States, Outcomes
<1>1. failures \in 0..FailMax
  BY FailMaxAssumption
<1>2. elapsed \in BOOLEAN /\ probing \in BOOLEAN /\ state \in States
  OBVIOUS
<1>3. admitted \in [Callers -> {"no", "regular", "probe"}] /\ result \in [Callers -> Outcomes]
  OBVIOUS
<1>4. ClosedBelowThreshold
  BY FailMaxAssumption DEF ClosedBelowThreshold
<1>5. ProbeFlagExact
  BY DEF ProbeFlagExact
<1> QED BY <1>1, <1>2, <1>3, <1>4, <1>5 DEF BreakerInv, TypeOK

\* Counting stays within the threshold, and reaches it only from just below.
LEMMA BumpBounded ==
  ASSUME NEW n \in 0..FailMax
  PROVE  Bump(n) \in 0..FailMax /\ (Bump(n) < FailMax \/ Bump(n) >= FailMax)
  BY FailMaxAssumption DEF Bump

LEMMA BreakerInvNext == BreakerInv /\ [Next]_vars => BreakerInv'
<1> SUFFICES ASSUME BreakerInv, [Next]_vars PROVE BreakerInv'
  OBVIOUS
<1> USE DEF BreakerInv, TypeOK, ClosedBelowThreshold, ProbeFlagExact, States, Outcomes
<1>1. ASSUME NEW c \in Callers, AdmitClosed(c) PROVE BreakerInv'
  BY <1>1 DEF AdmitClosed
<1>2. ASSUME NEW c \in Callers, AdmitProbe(c) PROVE BreakerInv'
  BY <1>2 DEF AdmitProbe
<1>3. ASSUME NEW c \in Callers, Refuse(c) PROVE BreakerInv'
  BY <1>3 DEF Refuse
<1>4. ASSUME NEW c \in Callers, Succeed(c) PROVE BreakerInv'
  <2> USE <1>4 DEF Succeed
  <2>1. failures' \in 0..FailMax /\ ClosedBelowThreshold'
    BY FailMaxAssumption
  <2>2. elapsed' \in BOOLEAN /\ state' \in States
    OBVIOUS
  <2>3. admitted' \in [Callers -> {"no", "regular", "probe"}] /\ result' \in [Callers -> Outcomes]
    OBVIOUS
  <2>4. CASE state = "half_open"
    <3>1. probing' \in BOOLEAN /\ ProbeFlagExact'
      BY <2>4
    <3> QED BY <3>1, <2>1, <2>2, <2>3
  <2>5. CASE state # "half_open"
    <3>1. probing' \in BOOLEAN /\ ProbeFlagExact'
      BY <2>5
    <3> QED BY <3>1, <2>1, <2>2, <2>3
  <2> QED BY <2>4, <2>5
<1>5. ASSUME NEW c \in Callers, NEW kind \in {"unavailable", "client_error"}, Fail(c, kind)
      PROVE BreakerInv'
  <2> USE <1>5 DEF Fail
  <2>1. failures' \in 0..FailMax /\ (failures' < FailMax \/ failures' >= FailMax)
    BY BumpBounded
  <2>2. admitted' \in [Callers -> {"no", "regular", "probe"}] /\ result' \in [Callers -> Outcomes]
    OBVIOUS
  <2>3. CASE state = "half_open"
    <3>1. elapsed' \in BOOLEAN /\ probing' \in BOOLEAN /\ state' \in States
      BY <2>3
    <3>2. ClosedBelowThreshold' /\ ProbeFlagExact'
      BY <2>3
    <3> QED BY <2>1, <2>2, <3>1, <3>2
  <2>4. CASE state # "half_open"
    <3>1. elapsed' \in BOOLEAN /\ probing' \in BOOLEAN /\ state' \in States
      BY <2>4
    <3>2. ClosedBelowThreshold'
      BY <2>1, <2>4
    <3>3. ProbeFlagExact'
      BY <2>4
    <3> QED BY <2>1, <2>2, <3>1, <3>2, <3>3
  <2> QED BY <2>3, <2>4
<1>6. CASE Elapse
  BY <1>6 DEF Elapse
<1>7. CASE UNCHANGED vars
  BY <1>7 DEF vars
<1> QED BY <1>1, <1>2, <1>3, <1>4, <1>5, <1>6, <1>7 DEF Next, Finish

LEMMA BreakerInvariant == Spec => []BreakerInv
  BY BreakerInvInit, BreakerInvNext, PTL DEF Spec

\* Every reachable state of the breaker is well typed.
THEOREM TypeCorrect == Spec => []TypeOK
<1>1. BreakerInv => TypeOK  BY DEF BreakerInv
<1> QED BY <1>1, BreakerInvariant, PTL

\* A closed breaker has counted fewer than fail_max failures since the last
\* success (circuit_breaker.py:84-96).
THEOREM ThresholdRespected == Spec => []ClosedBelowThreshold
<1>1. BreakerInv => ClosedBelowThreshold  BY DEF BreakerInv
<1> QED BY <1>1, BreakerInvariant, PTL

\* _half_open_in_flight is set exactly in half_open, and then a probe is running
\* that will clear it: call never refuses for ever.
THEOREM ProbeFlagNeverStale == Spec => []ProbeFlagExact
<1>1. BreakerInv => ProbeFlagExact  BY DEF BreakerInv
<1> QED BY <1>1, BreakerInvariant, PTL

\* Nobody is admitted while the breaker is half-open: each episode has the one
\* probe that began it.
THEOREM ProbeAlone == Spec => OneProbePerEpisode
<1> DEFINE Closed == state = "half_open" =>
                       \A c \in Callers : admitted[c] = "no" => admitted'[c] = "no"
<1>1. BreakerInv /\ [Next]_vars => [Closed]_vars
  <2> SUFFICES ASSUME BreakerInv, Next, state = "half_open",
                      NEW c \in Callers, admitted[c] = "no"
               PROVE admitted'[c] = "no"
    OBVIOUS
  <2> QED BY DEF BreakerInv, TypeOK, ProbeFlagExact, Next, Finish, AdmitClosed, AdmitProbe, CanProbe,
              Refuse, Succeed, Fail, Elapse
<1> QED BY <1>1, BreakerInvariant, PTL DEF Spec, OneProbePerEpisode

\* Opening takes a call that failed, in the closed state one that fills the count,
\* and closing one that succeeded (circuit_breaker.py:82-99).
THEOREM TransitionsExplained == Spec => TransitionsHaveCause
<1> DEFINE Ends(c) == admitted[c] # "no" /\ admitted'[c] = "no"
           Cause == /\ state' = "open" /\ state # "open" =>
                         /\ \E c \in Callers : Ends(c) /\ result'[c] # "ok"
                         /\ state = "closed" => failures' = FailMax
                    /\ state' = "closed" /\ state # "closed" =>
                         /\ \E c \in Callers : Ends(c) /\ result'[c] = "ok"
                         /\ failures' = 0
<1>1. BreakerInv /\ [Next]_vars => [Cause]_vars
  <2> SUFFICES ASSUME BreakerInv, Next PROVE Cause
    OBVIOUS
  <2> USE DEF BreakerInv, TypeOK, States
  <2>1. ASSUME NEW c \in Callers, AdmitClosed(c) \/ AdmitProbe(c) \/ Refuse(c) PROVE Cause
    BY <2>1 DEF AdmitClosed, AdmitProbe, Refuse
  <2>2. ASSUME NEW c \in Callers, Succeed(c) PROVE Cause
    BY <2>2 DEF Succeed
  <2>3. ASSUME NEW c \in Callers, NEW kind \in {"unavailable", "client_error"}, Fail(c, kind)
        PROVE Cause
    <3>1. failures' \in 0..FailMax
      BY <2>3, BumpBounded DEF Fail
    <3>2. Ends(c) /\ result'[c] # "ok"
      BY <2>3 DEF Fail
    <3>3. state = "closed" /\ state' = "open" => failures' = FailMax
      BY <2>3, <3>1, FailMaxAssumption DEF Fail
    <3>4. ~(state' = "closed" /\ state # "closed")
      BY <2>3 DEF Fail
    <3> QED BY <3>2, <3>3, <3>4
  <2>4. CASE Elapse
    BY <2>4 DEF Elapse
  <2> QED BY <2>1, <2>2, <2>3, <2>4 DEF Next, Finish
<1> QED BY <1>1, BreakerInvariant, PTL DEF Spec, TransitionsHaveCause
=============================================================================
