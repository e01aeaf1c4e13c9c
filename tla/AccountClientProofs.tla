------------------------ MODULE AccountClientProofs ------------------------
(***************************************************************************)
(* The Account client's safety, for any finite set of callers, any         *)
(* fail_max and any retry_attempts.  Under the client's calls the breaker  *)
(* takes no step that module CircuitBreaker does not know, so what was     *)
(* proved of it there holds here.                                          *)
(***************************************************************************)
EXTENDS AccountClient, CircuitBreakerProofs, FiniteSetTheorems

\* A caller is in its HTTP requests exactly while the breaker has it admitted.
Admission == \A c \in Callers : attempt[c] > 0 <=> admitted[c] # "no"

\* What a running call was answered so far: a transient failure per finished
\* attempt.
OnlyTransient == \A c \in Callers : attempt[c] > 0 =>
  /\ Len(log[c]) = attempt[c] - 1
  /\ \A i \in 1..Len(log[c]) : log[c][i] = "transient"

\* The finished attempts of the calls that are still running.
Running == {p \in Callers \X (1..(MaxAttempts - 1)) : p[2] < attempt[p[1]]}

\* Why OutageBounded holds: while the breaker is closed, a failed request belongs
\* to a counted call, which has at most MaxAttempts of them, or to a running one.
Covered == state = "closed" => streak <= failures * MaxAttempts + Cardinality(Running)

ClientInv == /\ BreakerInv /\ ClientTypeOK
             /\ Admission /\ OnlyTransient /\ VerdictExplained /\ Covered

-----------------------------------------------------------------------------
(* The client's steps are the breaker's.                                   *)

\* A step of the client is one of the breaker, or an attempt the breaker does not
\* see.
LEMMA ClientStepsAreBreakers == ClientNext => [Next]_vars
<1>1. ASSUME NEW c \in Callers, Begin(c) PROVE Next
  BY <1>1 DEF Begin, Next
<1>2. ASSUME NEW c \in Callers, FailFast(c) PROVE Next
  BY <1>2 DEF FailFast, Next
<1>3. ASSUME NEW c \in Callers, Retry(c) PROVE UNCHANGED vars
  BY <1>3 DEF Retry
<1>4. ASSUME NEW c \in Callers, GiveUp(c) \/ Rejected(c) \/ Unreadable(c) PROVE Finish(c)
  BY <1>4 DEF GiveUp, Rejected, Unreadable, Finish
<1>5. ASSUME NEW c \in Callers, Ok(c) PROVE Finish(c)
  BY <1>5 DEF Ok, Finish
<1> QED BY <1>1, <1>2, <1>3, <1>4, <1>5 DEF ClientNext, InCall, Next

LEMMA ClientStutterIsBreakers == [ClientNext]_clientVars => [Next]_vars
  BY ClientStepsAreBreakers DEF clientVars

\* apply_transaction = breaker(retry(request)) uses the breaker as it is: every
\* behaviour of the client is one of the breaker.
THEOREM ClientUsesBreaker == ClientSpec => Spec
<1>1. ClientInit => Init
  BY DEF ClientInit
<1> QED BY <1>1, ClientStutterIsBreakers, PTL DEF ClientSpec, Spec

-----------------------------------------------------------------------------
(* Sets of attempts.                                                       *)

Attempts(c) == {c} \X (1..(MaxAttempts - 1))

LEMMA AttemptsFinite ==
  /\ IsFiniteSet(Callers \X (1..(MaxAttempts - 1)))
  /\ Cardinality(Callers \X (1..(MaxAttempts - 1))) = Cardinality(Callers) * (MaxAttempts - 1)
  /\ \A c : IsFiniteSet(Attempts(c)) /\ Cardinality(Attempts(c)) = MaxAttempts - 1
<1>1. IsFiniteSet(1..(MaxAttempts - 1)) /\ Cardinality(1..(MaxAttempts - 1)) = MaxAttempts - 1
  BY FS_Interval, ClientAssumption
<1>2. ASSUME NEW c
      PROVE  IsFiniteSet(Attempts(c)) /\ Cardinality(Attempts(c)) = MaxAttempts - 1
  <2>1. IsFiniteSet({c}) /\ Cardinality({c}) = 1
    BY FS_Singleton
  <2>2. IsFiniteSet(Attempts(c)) /\ Cardinality(Attempts(c)) = 1 * (MaxAttempts - 1)
    BY <1>1, <2>1, FS_Product DEF Attempts
  <2> QED BY <2>2, ClientAssumption
<1> QED BY <1>1, <1>2, FS_Product, ClientAssumption

LEMMA RunningBounded ==
  /\ IsFiniteSet(Running)
  /\ Cardinality(Running) \in Nat
  /\ Cardinality(Running) <= Cardinality(Callers) * (MaxAttempts - 1)
<1>1. Running \in SUBSET (Callers \X (1..(MaxAttempts - 1)))
  BY DEF Running
<1> QED BY <1>1, AttemptsFinite, FS_Subset, FS_CardinalityType

\* A call that ends takes at most MaxAttempts - 1 attempts out of the running ones.
LEMMA EndRemovesFew ==
  ASSUME ClientTypeOK, NEW c \in Callers, End(c)
  PROVE  /\ Cardinality(Running') \in Nat
         /\ Cardinality(Running) <= Cardinality(Running') + (MaxAttempts - 1)
<1>1. Running' = Running \ Attempts(c)
  <2>1. Running' \subseteq Running \ Attempts(c)
    BY ClientAssumption DEF Running, Attempts, End, ClientTypeOK
  <2>2. Running \ Attempts(c) \subseteq Running'
    BY ClientAssumption DEF Running, Attempts, End, ClientTypeOK
  <2> QED BY <2>1, <2>2
<1>2. Running \cap Attempts(c) \in SUBSET Attempts(c)
  OBVIOUS
<1>3. /\ IsFiniteSet(Running \cap Attempts(c))
      /\ Cardinality(Running \cap Attempts(c)) <= MaxAttempts - 1
  BY <1>2, AttemptsFinite, FS_Subset
<1>4. Cardinality(Running \ Attempts(c))
        = Cardinality(Running) - Cardinality(Running \cap Attempts(c))
  BY RunningBounded, FS_Difference
<1>5. Cardinality(Running \cap Attempts(c)) \in Nat
  BY <1>3, FS_CardinalityType
<1>6. IsFiniteSet(Running \ Attempts(c)) /\ Cardinality(Running \ Attempts(c)) \in Nat
  BY RunningBounded, FS_Difference, FS_CardinalityType
<1> QED BY <1>1, <1>3, <1>4, <1>5, <1>6, RunningBounded, ClientAssumption

\* A retry adds the attempt that just failed.
LEMMA RetryAddsOne ==
  ASSUME ClientTypeOK, NEW c \in Callers, attempt[c] > 0, attempt[c] < MaxAttempts,
         attempt' = [attempt EXCEPT ![c] = @ + 1]
  PROVE  Cardinality(Running') = Cardinality(Running) + 1
<1>1. <<c, attempt[c]>> \notin Running
  BY DEF Running, ClientTypeOK
<1>2. Running' = Running \union {<<c, attempt[c]>>}
  <2>1. ASSUME NEW d \in Callers, NEW i \in 1..(MaxAttempts - 1)
        PROVE  i < attempt'[d] <=> i < attempt[d] \/ (d = c /\ i = attempt[c])
    BY ClientAssumption DEF ClientTypeOK
  <2>2. <<c, attempt[c]>> \in Callers \X (1..(MaxAttempts - 1))
    BY ClientAssumption DEF ClientTypeOK
  <2> QED BY <2>1, <2>2 DEF Running
<1> QED BY <1>1, <1>2, RunningBounded, FS_AddElement

-----------------------------------------------------------------------------
(* The inductive invariant, part by part.                                  *)

LEMMA ClientInvInit == ClientInit => ClientInv
<1> SUFFICES ASSUME ClientInit PROVE ClientInv
  OBVIOUS
<1>1. BreakerInv
  BY BreakerInvInit DEF ClientInit
<1>2. ClientTypeOK
  BY ClientAssumption DEF ClientInit, ClientTypeOK
<1>3. Admission /\ OnlyTransient
  BY DEF ClientInit, Init, Admission, OnlyTransient
<1>4. VerdictExplained
  BY DEF ClientInit, Init, VerdictExplained
<1>5. Covered
  <2>1. streak = 0 /\ failures * MaxAttempts = 0
    BY ClientAssumption DEF ClientInit, Init
  <2> QED BY <2>1, RunningBounded DEF Covered
<1> QED BY <1>1, <1>2, <1>3, <1>4, <1>5 DEF ClientInv

\* One answer appended to a log that had room for it.
LEMMA AnsweredTyped ==
  ASSUME ClientTypeOK, OnlyTransient, NEW c \in Callers, NEW a \in Answers, Answered(c, a)
  PROVE  /\ log' \in [Callers -> Seq(Answers)]
         /\ \A d \in Callers : Len(log'[d]) <= MaxAttempts
         /\ log'[c] = Append(log[c], a) /\ Len(log'[c]) = attempt[c]
         /\ log'[c][attempt[c]] = a
         /\ \A i \in 1..(attempt[c] - 1) : log'[c][i] = "transient"
         /\ \A d \in Callers \ {c} : log'[d] = log[d]
         /\ streak' \in 0..StreakMax /\ (streak' <= streak + 1 \/ a = "ok") /\ (a = "ok" => streak' = 0)
<1> USE DEF ClientTypeOK, OnlyTransient, Answered
<1>1. attempt[c] \in 1..MaxAttempts /\ Len(log[c]) = attempt[c] - 1 /\ log[c] \in Seq(Answers)
  BY ClientAssumption
<1>2. log'[c] = Append(log[c], a) /\ log' \in [Callers -> Seq(Answers)]
  <2>1. Append(log[c], a) \in Seq(Answers)
    BY <1>1
  <2> QED BY <2>1
<1>3. /\ Len(log'[c]) = attempt[c] /\ log'[c][attempt[c]] = a
      /\ \A i \in 1..(attempt[c] - 1) : log'[c][i] = log[c][i]
  BY <1>1, <1>2, ClientAssumption
<1>4. \A d \in Callers \ {c} : log'[d] = log[d]
  OBVIOUS
<1>5. \A d \in Callers : Len(log'[d]) <= MaxAttempts
  BY <1>1, <1>3, <1>4
<1>6. \A i \in 1..(attempt[c] - 1) : log'[c][i] = "transient"
  BY <1>1, <1>3
<1>7. streak' \in 0..StreakMax /\ (streak' <= streak + 1 \/ a = "ok") /\ (a = "ok" => streak' = 0)
  BY ClientAssumption
<1> QED BY <1>2, <1>3, <1>4, <1>5, <1>6, <1>7

\* Typing and the two invariants of a running call.
LEMMA CallNext ==
  ASSUME ClientInv, ClientNext
  PROVE  ClientTypeOK' /\ Admission' /\ OnlyTransient'
<1> USE DEF ClientInv, BreakerInv
<1>1. ASSUME NEW c \in Callers, Begin(c) PROVE ClientTypeOK' /\ Admission' /\ OnlyTransient'
  <2>1. admitted' = [admitted EXCEPT ![c] = "regular"] \/ admitted' = [admitted EXCEPT ![c] = "probe"]
    BY <1>1 DEF Begin, AdmitClosed, AdmitProbe
  <2>2. /\ attempt' = [attempt EXCEPT ![c] = 1] /\ log' = [log EXCEPT ![c] = <<>>]
        /\ UNCHANGED streak
    BY <1>1 DEF Begin
  <2>3. ClientTypeOK'
    BY <2>2, ClientAssumption DEF ClientTypeOK
  <2>4. Admission'
    BY <2>1, <2>2 DEF Admission, ClientTypeOK, TypeOK
  <2>5. OnlyTransient'
    BY <2>2 DEF OnlyTransient, ClientTypeOK
  <2> QED BY <2>3, <2>4, <2>5
<1>2. ASSUME NEW c \in Callers, FailFast(c) PROVE ClientTypeOK' /\ Admission' /\ OnlyTransient'
  <2>1. attempt[c] = 0
    BY <1>2 DEF FailFast, Refuse, Admission, ClientTypeOK
  <2> QED BY <1>2, <2>1, ClientAssumption
          DEF FailFast, Refuse, ClientTypeOK, Admission, OnlyTransient
<1>3. ASSUME NEW c \in Callers, Retry(c) PROVE ClientTypeOK' /\ Admission' /\ OnlyTransient'
  <2>1. "transient" \in Answers /\ Answered(c, "transient")
    BY <1>3 DEF Answers, Retry
  <2>2. /\ attempt[c] \in 1..(MaxAttempts - 1) /\ attempt' = [attempt EXCEPT ![c] = @ + 1]
        /\ admitted' = admitted
    BY <1>3, ClientAssumption DEF Retry, Answered, ClientTypeOK, vars
  <2>3. ClientTypeOK'
    BY <2>1, <2>2, AnsweredTyped, ClientAssumption DEF ClientTypeOK
  <2>4. Admission'
    BY <2>2 DEF Admission, ClientTypeOK
  <2>5. attempt'[c] = attempt[c] + 1 /\ \A d \in Callers \ {c} : attempt'[d] = attempt[d]
    BY <2>2 DEF ClientTypeOK
  <2>6. \A i \in 1..Len(log'[c]) : log'[c][i] = "transient"
    <3>1. Len(log'[c]) = attempt[c] /\ log'[c][attempt[c]] = "transient"
      BY <2>1, AnsweredTyped
    <3>2. \A i \in 1..(attempt[c] - 1) : log'[c][i] = "transient"
      BY <2>1, AnsweredTyped
    <3> QED BY <2>2, <3>1, <3>2
  <2>7. Len(log'[c]) = attempt[c] /\ \A d \in Callers \ {c} : log'[d] = log[d]
    BY <2>1, AnsweredTyped
  <2>8. OnlyTransient'
    BY <2>2, <2>5, <2>6, <2>7 DEF OnlyTransient
  <2> QED BY <2>3, <2>4, <2>8
<1>4. ASSUME NEW c \in Callers, NEW a \in Answers, Answered(c, a), End(c),
             admitted' = [admitted EXCEPT ![c] = "no"]
      PROVE  ClientTypeOK' /\ Admission' /\ OnlyTransient'
  <2>1. attempt' \in [Callers -> 0..MaxAttempts] /\ attempt'[c] = 0
    BY <1>4, ClientAssumption DEF End, ClientTypeOK
  <2>2. \A d \in Callers \ {c} : attempt'[d] = attempt[d]
    BY <1>4 DEF End, ClientTypeOK
  <2>3. ClientTypeOK'
    BY <1>4, <2>1, AnsweredTyped DEF ClientTypeOK
  <2>4. Admission'
    BY <1>4, <2>1, <2>2 DEF Admission, TypeOK
  <2>5. \A d \in Callers \ {c} : log'[d] = log[d]
    BY <1>4, AnsweredTyped
  <2>6. OnlyTransient'
    BY <2>1, <2>2, <2>5 DEF OnlyTransient
  <2> QED BY <2>3, <2>4, <2>6
<1>5. ASSUME NEW c \in Callers, GiveUp(c) \/ Rejected(c) \/ Unreadable(c) \/ Ok(c)
      PROVE  ClientTypeOK' /\ Admission' /\ OnlyTransient'
  <2>1. End(c) /\ \E a \in Answers : Answered(c, a)
    BY <1>5 DEF GiveUp, Rejected, Unreadable, Ok, Answers
  <2>2. admitted' = [admitted EXCEPT ![c] = "no"]
    BY <1>5 DEF GiveUp, Rejected, Unreadable, Ok, Fail, Succeed
  <2> QED BY <1>4, <2>1, <2>2
<1>6. CASE Elapse /\ UNCHANGED <<attempt, log, streak>>
  BY <1>6 DEF Elapse, ClientTypeOK, Admission, OnlyTransient
<1> QED BY <1>1, <1>2, <1>3, <1>5, <1>6 DEF ClientNext, InCall

\* The body of VerdictExplained, of a log and a result.
Explained(l, r) ==
  LET n == Len(l)
      last == IF n = 0 THEN "none" ELSE l[n]
  IN /\ \A i \in 1..(n - 1) : l[i] = "transient"
     /\ r = "ok" <=> last = "ok"
     /\ r = "client_error" <=> last = "client_error"
     /\ r = "unavailable" <=> last = "odd" \/ (last = "transient" /\ n = MaxAttempts)

LEMMA VerdictIsExplained ==
  /\ VerdictExplained <=> \A c \in Callers : attempt[c] = 0 => Explained(log[c], result[c])
  /\ VerdictExplained' <=> \A c \in Callers : attempt'[c] = 0 => Explained(log'[c], result'[c])
  BY DEF VerdictExplained, Explained

\* No HTTP request was made: the verdict can only be that of an open breaker.
LEMMA NoRequest == Explained(<<>>, "breaker_open")
  BY DEF Explained

\* The verdict of a call that ends with answer a.
LEMMA VerdictOfEnd ==
  ASSUME NEW l, NEW n \in Nat \ {0}, Len(l) = n, \A i \in 1..(n - 1) : l[i] = "transient",
         NEW r, \/ l[n] = "ok" /\ r = "ok"
                \/ l[n] = "client_error" /\ r = "client_error"
                \/ l[n] = "odd" /\ r = "unavailable"
                \/ l[n] = "transient" /\ r = "unavailable" /\ n = MaxAttempts
  PROVE  Explained(l, r)
  BY DEF Explained

LEMMA VerdictNext ==
  ASSUME ClientInv, ClientNext
  PROVE  VerdictExplained'
<1> SUFFICES ASSUME NEW d \in Callers, attempt'[d] = 0
             PROVE  Explained(log'[d], result'[d])
  BY VerdictIsExplained
<1> USE DEF ClientInv, BreakerInv
<1>0. attempt[d] = 0 => Explained(log[d], result[d])
  BY VerdictIsExplained
<1>1. ASSUME NEW c \in Callers, Begin(c) PROVE Explained(log'[d], result'[d])
  BY <1>0, <1>1 DEF Begin, AdmitClosed, AdmitProbe, ClientTypeOK
<1>2. ASSUME NEW c \in Callers, FailFast(c) PROVE Explained(log'[d], result'[d])
  <2>1. CASE c = d
    <3>1. log'[d] = <<>> /\ result'[d] = "breaker_open"
      BY <1>2, <2>1 DEF FailFast, Refuse, ClientTypeOK, TypeOK
    <3> QED BY <3>1, NoRequest
  <2>2. CASE c # d
    BY <1>0, <1>2, <2>2 DEF FailFast, Refuse, ClientTypeOK, TypeOK
  <2> QED BY <2>1, <2>2
<1>3. ASSUME NEW c \in Callers, Retry(c) PROVE Explained(log'[d], result'[d])
  <2>1. attempt[d] = 0 /\ c # d
    BY <1>3, ClientAssumption DEF Retry, Answered, ClientTypeOK
  <2>2. log'[d] = log[d] /\ result' = result
    BY <1>3, <2>1 DEF Retry, Answered, ClientTypeOK, vars
  <2> QED BY <1>0, <2>1, <2>2
<1>4. ASSUME NEW c \in Callers, NEW a \in Answers, NEW r, Answered(c, a), End(c),
             result' = [result EXCEPT ![c] = r],
             \/ a = "ok" /\ r = "ok"
             \/ a = "client_error" /\ r = "client_error"
             \/ a = "odd" /\ r = "unavailable"
             \/ a = "transient" /\ r = "unavailable" /\ attempt[c] = MaxAttempts
      PROVE  Explained(log'[d], result'[d])
  <2>1. CASE c = d
    <3>1. Len(log'[c]) = attempt[c] /\ log'[c][attempt[c]] = a
      BY <1>4, AnsweredTyped
    <3>2. \A i \in 1..(attempt[c] - 1) : log'[c][i] = "transient"
      BY <1>4, AnsweredTyped
    <3>3. attempt[c] \in Nat \ {0} /\ result'[c] = r
      BY <1>4, ClientAssumption DEF Answered, ClientTypeOK, TypeOK
    <3> QED BY <1>4, <2>1, <3>1, <3>2, <3>3, VerdictOfEnd
  <2>2. CASE c # d
    <3>1. log'[d] = log[d]
      BY <1>4, <2>2, AnsweredTyped
    <3>2. attempt'[d] = attempt[d] /\ result'[d] = result[d]
      BY <1>4, <2>2 DEF End, ClientTypeOK, TypeOK
    <3> QED BY <1>0, <3>1, <3>2
  <2> QED BY <2>1, <2>2
<1>5. ASSUME NEW c \in Callers, GiveUp(c) \/ Rejected(c) \/ Unreadable(c) \/ Ok(c)
      PROVE  Explained(log'[d], result'[d])
  <2>1. CASE GiveUp(c)
    BY <1>4, <2>1 DEF GiveUp, Fail, Answers
  <2>2. CASE Rejected(c)
    BY <1>4, <2>2 DEF Rejected, Fail, Answers
  <2>3. CASE Unreadable(c)
    BY <1>4, <2>3 DEF Unreadable, Fail, Answers
  <2>4. CASE Ok(c)
    BY <1>4, <2>4 DEF Ok, Succeed, Answers
  <2> QED BY <1>5, <2>1, <2>2, <2>3, <2>4
<1>6. CASE Elapse /\ UNCHANGED <<attempt, log, streak>>
  BY <1>0, <1>6 DEF Elapse
<1> QED BY <1>1, <1>2, <1>3, <1>5, <1>6 DEF ClientNext, InCall

\* Multiplication by the number of attempts, stated for a solver without it.
LEMMA OneMoreCall ==
  ASSUME NEW n \in Nat
  PROVE  /\ (n + 1) * MaxAttempts = n * MaxAttempts + MaxAttempts
         /\ n * MaxAttempts \in Nat
         /\ n < FailMax => n * MaxAttempts <= (FailMax - 1) * MaxAttempts
<1>1. MaxAttempts \in Nat
  BY ClientAssumption
<1>2. \A a, b \in Nat : a <= b => a * MaxAttempts <= b * MaxAttempts
  BY <1>1
<1>3. n < FailMax => n \in Nat /\ FailMax - 1 \in Nat /\ n <= FailMax - 1
  BY FailMaxAssumption
<1> QED BY <1>1, <1>2, <1>3

LEMMA CoveredNext ==
  ASSUME ClientInv, ClientNext
  PROVE  Covered'
<1> USE DEF ClientInv, BreakerInv
<1>0. failures \in Nat /\ streak \in Nat /\ failures * MaxAttempts \in Nat
  BY OneMoreCall, FailMaxAssumption, ClientAssumption DEF TypeOK, ClientTypeOK
<1>1. ASSUME NEW c \in Callers, Begin(c) PROVE Covered'
  <2>1. (state' = "closed" => state = "closed") /\ UNCHANGED <<streak, failures>>
    BY <1>1 DEF Begin, AdmitClosed, AdmitProbe
  <2>2. Running' = Running
    <3>1. attempt[c] = 0 /\ attempt' = [attempt EXCEPT ![c] = 1]
      BY <1>1 DEF Begin, AdmitClosed, AdmitProbe, Admission, ClientTypeOK
    <3>2. ASSUME NEW d \in Callers, NEW i \in 1..(MaxAttempts - 1)
          PROVE  i < attempt'[d] <=> i < attempt[d]
      BY <3>1, ClientAssumption DEF ClientTypeOK
    <3> QED BY <3>2 DEF Running
  <2> QED BY <2>1, <2>2 DEF Covered
<1>2. ASSUME NEW c \in Callers, FailFast(c) PROVE Covered'
  BY <1>2 DEF FailFast, Refuse, Covered
<1>3. ASSUME NEW c \in Callers, Retry(c) PROVE Covered'
  <2>1. UNCHANGED <<state, failures>> /\ streak' <= streak + 1 /\ streak' \in Nat
    BY <1>3, ClientAssumption DEF Retry, Answered, ClientTypeOK, vars
  <2>2. Cardinality(Running') = Cardinality(Running) + 1
    BY <1>3, RetryAddsOne DEF Retry, Answered
  <2> QED BY <1>0, <2>1, <2>2, RunningBounded DEF Covered
<1>4. ASSUME NEW c \in Callers, NEW kind \in {"unavailable", "client_error"}, NEW a \in Answers,
             Answered(c, a), Fail(c, kind), End(c)
      PROVE  Covered'
  <2> SUFFICES ASSUME state' = "closed"
               PROVE  streak' <= failures' * MaxAttempts + Cardinality(Running')
    BY DEF Covered
  <2>1. state = "closed" /\ failures' < FailMax
    BY <1>4, BumpBounded DEF Fail, TypeOK, States
  <2>2. failures' = failures + 1
    BY <1>4, <2>1, FailMaxAssumption DEF Fail, Bump, TypeOK
  <2>3. failures' * MaxAttempts = failures * MaxAttempts + MaxAttempts
    BY <1>0, <2>2, OneMoreCall
  <2>4. streak' \in Nat /\ streak' <= streak + 1
    BY <1>4, ClientAssumption DEF Answered, ClientTypeOK
  <2>5. /\ Cardinality(Running') \in Nat
        /\ Cardinality(Running) <= Cardinality(Running') + (MaxAttempts - 1)
    BY <1>4, EndRemovesFew
  <2>6. streak <= failures * MaxAttempts + Cardinality(Running)
    BY <2>1 DEF Covered
  <2> DEFINE F == failures * MaxAttempts  R == Cardinality(Running)  S == Cardinality(Running')
  <2>7. F \in Nat /\ R \in Nat /\ S \in Nat /\ MaxAttempts \in Nat /\ streak \in Nat
    BY <1>0, <2>5, RunningBounded, ClientAssumption
  <2> HIDE DEF F, R, S
  <2>8. streak' <= (F + MaxAttempts) + S
    BY <2>4, <2>5, <2>6, <2>7 DEF F, R, S
  <2> QED BY <2>3, <2>8 DEF F, S
<1>5. ASSUME NEW c \in Callers, Ok(c) PROVE Covered'
  <2>1. streak' = 0 /\ failures' = 0 /\ End(c)
    BY <1>5 DEF Ok, Answered, Succeed
  <2>2. failures' * MaxAttempts = 0 /\ Cardinality(Running') \in Nat
    BY <2>1, EndRemovesFew, ClientAssumption
  <2> QED BY <2>1, <2>2 DEF Covered
<1>6. ASSUME NEW c \in Callers, GiveUp(c) \/ Rejected(c) \/ Unreadable(c) PROVE Covered'
  BY <1>4, <1>6 DEF GiveUp, Rejected, Unreadable, Answers
<1>7. CASE Elapse /\ UNCHANGED <<attempt, log, streak>>
  BY <1>7 DEF Elapse, Covered
<1>8. ASSUME NEW c \in Callers, InCall(c) PROVE Covered'
  BY <1>3, <1>5, <1>6, <1>8 DEF InCall
<1> QED BY <1>1, <1>2, <1>7, <1>8 DEF ClientNext

LEMMA ClientInvNext == ClientInv /\ [ClientNext]_clientVars => ClientInv'
<1>1. ASSUME ClientInv, ClientNext PROVE ClientInv'
  <2>1. BreakerInv'
    BY <1>1, ClientStepsAreBreakers, BreakerInvNext DEF ClientInv
  <2>2. ClientTypeOK' /\ Admission' /\ OnlyTransient'
    BY <1>1, CallNext
  <2>3. VerdictExplained' /\ Covered'
    BY <1>1, VerdictNext, CoveredNext
  <2> QED BY <2>1, <2>2, <2>3 DEF ClientInv
<1>2. ASSUME ClientInv, UNCHANGED clientVars PROVE ClientInv'
  <2> USE <1>2 DEF ClientInv, clientVars
  <2>1. BreakerInv'
    BY BreakerInvNext
  <2>2. ClientTypeOK' /\ Admission' /\ OnlyTransient'
    BY DEF ClientTypeOK, Admission, OnlyTransient, vars
  <2>3. VerdictExplained'
    BY DEF VerdictExplained, vars
  <2>4. Covered'
    BY DEF Covered, Running, vars
  <2> QED BY <2>1, <2>2, <2>3, <2>4
<1> QED BY <1>1, <1>2

LEMMA ClientInvariant == ClientSpec => []ClientInv
  BY ClientInvInit, ClientInvNext, PTL DEF ClientSpec

-----------------------------------------------------------------------------
(* The results.                                                            *)

\* Every reachable state of the client is well typed: no call makes more than
\* retry_attempts requests, whatever the answers.
THEOREM ClientTypeCorrect == ClientSpec => []ClientTypeOK
<1>1. ClientInv => ClientTypeOK  BY DEF ClientInv
<1> QED BY <1>1, ClientInvariant, PTL

\* The verdict a caller gets tells what its call went through
\* (account_client.py: apply_transaction).
THEOREM VerdictTellsTheCall == ClientSpec => []VerdictExplained
<1>1. ClientInv => VerdictExplained  BY DEF ClientInv
<1> QED BY <1>1, ClientInvariant, PTL

\* A breaker that is still closed has let at most (fail_max - 1) * retry_attempts
\* failing requests through since the last success, and what the running calls may
\* have added: a sustained outage does trip it, however many callers there are.
THEOREM OutageTripsBreaker == ClientSpec => []OutageBounded
<1>1. ASSUME ClientInv PROVE OutageBounded
  <2> SUFFICES ASSUME state = "closed"
               PROVE streak <= (FailMax - 1) * MaxAttempts + Cardinality(Callers) * (MaxAttempts - 1)
    BY DEF OutageBounded
  <2> DEFINE F == failures * MaxAttempts  G == (FailMax - 1) * MaxAttempts
             R == Cardinality(Running)    P == Cardinality(Callers) * (MaxAttempts - 1)
  <2>1. failures \in Nat /\ failures < FailMax /\ streak \in Nat
    BY <1>1, FailMaxAssumption, ClientAssumption
       DEF ClientInv, BreakerInv, TypeOK, ClosedBelowThreshold, ClientTypeOK
  <2>2. F \in Nat /\ F <= G /\ G \in Nat
    BY <2>1, OneMoreCall, FailMaxAssumption
  <2>3. R \in Nat /\ R <= P /\ P \in Nat
    BY RunningBounded, AttemptsFinite, FS_CardinalityType
  <2>4. streak <= F + R
    BY <1>1 DEF ClientInv, Covered
  <2> HIDE DEF F, G, R, P
  <2>5. streak <= G + P
    BY <2>1, <2>2, <2>3, <2>4
  <2> QED BY <2>5 DEF G, P
<1> QED BY <1>1, ClientInvariant, PTL

\* However many requests a call makes, the breaker counts it once, when it ends.
THEOREM CallCountedOnce == ClientSpec => OneCountPerCall
<1> DEFINE Once == failures' # failures => \E c \in Callers : attempt[c] > 0 /\ attempt'[c] = 0
<1>1. ClientInv /\ [ClientNext]_clientVars => [Once]_clientVars
  <2> SUFFICES ASSUME ClientInv, ClientNext, failures' # failures
               PROVE  \E c \in Callers : attempt[c] > 0 /\ attempt'[c] = 0
    OBVIOUS
  <2>1. ~\E c \in Callers : Begin(c) \/ FailFast(c) \/ Retry(c)
    BY DEF Begin, AdmitClosed, AdmitProbe, FailFast, Refuse, Retry, vars
  <2>2. ~Elapse
    BY DEF Elapse
  <2>3. PICK c \in Callers : GiveUp(c) \/ Rejected(c) \/ Unreadable(c) \/ Ok(c)
    BY <2>1, <2>2 DEF ClientNext, InCall
  <2>4. attempt[c] > 0 /\ End(c)
    BY <2>3 DEF GiveUp, Rejected, Unreadable, Ok, Answered
  <2> QED BY <2>4 DEF End, ClientInv, ClientTypeOK
<1> QED BY <1>1, ClientInvariant, PTL DEF ClientSpec, OneCountPerCall

\* What was proved of the breaker alone holds of it under the client's calls.
THEOREM BreakerSafeUnderClient ==
  ClientSpec => /\ []TypeOK /\ []ClosedBelowThreshold /\ []ProbeFlagExact
                /\ OneProbePerEpisode /\ TransitionsHaveCause
  BY ClientUsesBreaker, TypeCorrect, ThresholdRespected, ProbeFlagNeverStale, ProbeAlone,
     TransitionsExplained
=============================================================================
