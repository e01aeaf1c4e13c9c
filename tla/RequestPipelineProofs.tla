----------------------- MODULE RequestPipelineProofs -----------------------
(***************************************************************************)
(* The rate limit of the Gateway, for any requests, clients and limit.     *)
(***************************************************************************)
EXTENDS RequestPipeline, FiniteSetTheorems, TLAPS

\* What is counted in a window has reached its handler; and who is new has no answer.
HitsEarned ==
  /\ \A c \in Clients : hits[c] <= Cardinality(Passed(c))
  /\ \A r \in Requests : at[r] \in {"new", "run"} => reply[r] = "none"

IInv == TypeOK /\ HitsEarned /\ LimitEarned

\* A client's handled POSTs are finitely many, and stay handled.
LEMMA PassedFinite ==
  ASSUME NEW c
  PROVE  IsFiniteSet(Passed(c)) /\ Cardinality(Passed(c)) \in Nat
<1>1. Passed(c) \subseteq Requests
  BY DEF Passed, Posts
<1> QED BY <1>1, PipelineAssumption, FS_Subset, FS_CardinalityType

LEMMA IInvInit == Init => IInv
<1> SUFFICES ASSUME Init PROVE IInv
  OBVIOUS
<1>1. TypeOK
  BY PipelineAssumption DEF Init, TypeOK, Replies
<1>2. HitsEarned
  BY PassedFinite DEF Init, HitsEarned
<1>3. LimitEarned
  BY DEF Init, LimitEarned
<1> QED BY <1>1, <1>2, <1>3 DEF IInv

\* A step after which no fewer POSTs were handled and no more are counted.
LEMMA LimitStays ==
  ASSUME IInv, \A c \in Clients : Passed(c) \subseteq Passed(c)',
         \A c \in Clients : hits'[c] <= hits[c] \/ hits'[c] <= Cardinality(Passed(c)'),
         \A c \in Clients : hits[c] \in Nat /\ hits'[c] \in Nat,
         \A r \in Requests : reply'[r] = "limited" =>
            reply[r] = "limited" \/ hits[Client[r]] = Limit,
         \A c \in Clients : IsFiniteSet(Passed(c)')
  PROVE  LimitEarned' /\ \A c \in Clients : hits'[c] <= Cardinality(Passed(c)')
<1>1. \A c \in Clients : /\ Cardinality(Passed(c)) \in Nat /\ Cardinality(Passed(c)') \in Nat
                         /\ Cardinality(Passed(c)) <= Cardinality(Passed(c)')
  BY FS_Subset, FS_CardinalityType, PassedFinite
<1>2. \A r \in Requests : Client[r] \in Clients
  BY DEF Clients
<1>3. ASSUME NEW r \in Requests, reply'[r] = "limited"
      PROVE  Cardinality(Passed(Client[r])') >= Limit
  <2>1. Cardinality(Passed(Client[r])) >= Limit
    BY <1>2, <1>3, <1>1, PipelineAssumption DEF IInv, LimitEarned, HitsEarned
  <2> QED BY <2>1, <1>1, <1>2, PipelineAssumption
<1>4. ASSUME NEW c \in Clients PROVE hits'[c] <= Cardinality(Passed(c)')
  BY <1>1 DEF IInv, HitsEarned
<1> QED BY <1>3, <1>4 DEF LimitEarned

LEMMA AnswerKeeps ==
  ASSUME IInv, NEW r \in Requests, NEW a \in Replies, Answer(r, a), a # "none",
         at[r] = "new" \/ (at[r] = "run" /\ a # "limited"),
         a = "limited" => hits[Client[r]] = Limit
  PROVE  IInv'
<1>1. TypeOK'
  BY DEF IInv, TypeOK, Answer
<1>2. /\ at' = [at EXCEPT ![r] = "done"] /\ reply' = [reply EXCEPT ![r] = a]
      /\ hits' = hits
      /\ at \in [Requests -> {"new", "run", "done", "lost"}] /\ reply \in [Requests -> Replies]
  BY DEF Answer, IInv, TypeOK
<1>3. \A c \in Clients : Passed(c) \subseteq Passed(c)'
  BY <1>2 DEF Passed, Posts
<1>4. \A c \in Clients : IsFiniteSet(Passed(c)')
  <2>1. \A c : Passed(c)' \subseteq Requests
    BY DEF Passed, Posts
  <2> QED BY <2>1, PipelineAssumption, FS_Subset
<1>5. LimitEarned' /\ \A c \in Clients : hits'[c] <= Cardinality(Passed(c)')
  <2>1. \A c \in Clients : hits[c] \in Nat /\ hits'[c] <= hits[c] /\ hits'[c] \in Nat
    BY <1>2, PipelineAssumption DEF IInv, TypeOK
  <2>2. \A q \in Requests : reply'[q] = "limited" =>
           reply[q] = "limited" \/ hits[Client[q]] = Limit
    BY <1>2
  <2> QED BY <1>3, <1>4, <2>1, <2>2, LimitStays
<1>6. \A q \in Requests : at'[q] \in {"new", "run"} => reply'[q] = "none"
  BY <1>2 DEF IInv, HitsEarned
<1> QED BY <1>1, <1>5, <1>6 DEF IInv, HitsEarned

LEMMA AdmitKeeps ==
  ASSUME IInv, NEW r \in Requests, Admit(r)
  PROVE  IInv'
<1>1. /\ at' = [at EXCEPT ![r] = "run"] /\ reply' = reply /\ crashes' = crashes
      /\ at[r] = "new" /\ Body[r] = "valid" /\ reply[r] = "none"
      /\ at \in [Requests -> {"new", "run", "done", "lost"}]
      /\ hits \in [Clients -> 0..Limit] /\ Client[r] \in Clients
  BY DEF Admit, IInv, TypeOK, HitsEarned, Clients
<1>2. CASE r \in Posts
  <2>1. /\ hits' = [hits EXCEPT ![Client[r]] = @ + 1] /\ hits[Client[r]] < Limit
    BY <1>2 DEF Admit
  <2>2. TypeOK'
    BY <1>1, <2>1, PipelineAssumption DEF IInv, TypeOK
  <2>3. /\ Passed(Client[r])' = Passed(Client[r]) \union {r} /\ r \notin Passed(Client[r])
        /\ \A c \in Clients \ {Client[r]} : Passed(c)' = Passed(c)
    BY <1>1, <1>2 DEF Passed, Posts
  <2>4. /\ IsFiniteSet(Passed(Client[r])')
        /\ Cardinality(Passed(Client[r])') = Cardinality(Passed(Client[r])) + 1
    <3>1. /\ IsFiniteSet(Passed(Client[r]) \union {r})
          /\ Cardinality(Passed(Client[r]) \union {r}) = Cardinality(Passed(Client[r])) + 1
      BY <2>3, PassedFinite, FS_AddElement
    <3> QED BY <2>3, <3>1
  <2>5. LimitEarned' /\ \A c \in Clients : hits'[c] <= Cardinality(Passed(c)')
    <3>1. \A c \in Clients : Passed(c) \subseteq Passed(c)' /\ IsFiniteSet(Passed(c)')
      BY <2>3, <2>4, PassedFinite
    <3>2. \A c \in Clients : hits[c] \in Nat /\ hits'[c] \in Nat
      BY <1>1, <2>1, PipelineAssumption
    <3>3. hits[Client[r]] <= Cardinality(Passed(Client[r]))
      BY <1>1 DEF IInv, HitsEarned
    <3>4. \A c \in Clients : hits'[c] <= hits[c] \/ hits'[c] <= Cardinality(Passed(c)')
      <4>1. hits'[Client[r]] <= Cardinality(Passed(Client[r])')
        BY <1>1, <2>1, <2>4, <3>2, <3>3, PassedFinite
      <4>2. \A c \in Clients \ {Client[r]} : hits'[c] <= hits[c]
        BY <1>1, <2>1, <3>2
      <4> QED BY <4>1, <4>2
    <3>5. \A q \in Requests : reply'[q] = "limited" => reply[q] = "limited"
      BY <1>1
    <3> QED BY <3>1, <3>2, <3>4, <3>5, LimitStays
  <2> QED BY <1>1, <2>2, <2>5 DEF IInv, HitsEarned
<1>3. CASE r \notin Posts
  <2>1. hits' = hits
    BY <1>3 DEF Admit
  <2>2. TypeOK'
    BY <1>1, <2>1 DEF IInv, TypeOK
  <2>3. \A c : Passed(c)' = Passed(c)
    BY <1>1, <1>3 DEF Passed, Posts
  <2> QED BY <1>1, <2>1, <2>2, <2>3 DEF IInv, HitsEarned, LimitEarned
<1> QED BY <1>2, <1>3

\* A window or a process that ends takes counts away only.
LEMMA ForgetKeeps ==
  ASSUME IInv, (\E c \in Clients : NewWindow(c)) \/ Crash
  PROVE  IInv'
<1>1. /\ at' \in [Requests -> {"new", "run", "done", "lost"}] /\ reply' = reply
      /\ \A r \in Requests : /\ at'[r] = "new" <=> at[r] = "new"
                             /\ at'[r] \in {"new", "run"} => at[r] \in {"new", "run"}
      /\ hits' \in [Clients -> 0..Limit] /\ crashes' \in 0..MaxCrashes
      /\ \A c \in Clients : hits'[c] = hits[c] \/ hits'[c] = 0
  BY PipelineAssumption DEF NewWindow, Crash, IInv, TypeOK
<1>2. \A c : Passed(c)' = Passed(c)
  BY <1>1 DEF Passed, Posts
<1>3. \A c \in Clients : hits'[c] <= Cardinality(Passed(c)')
  BY <1>1, <1>2, PassedFinite DEF IInv, HitsEarned
<1> QED BY <1>1, <1>2, <1>3 DEF IInv, TypeOK, HitsEarned, LimitEarned

LEMMA IInvNext == IInv /\ [Next]_vars => IInv'
<1> SUFFICES ASSUME IInv, [Next]_vars PROVE IInv'
  OBVIOUS
<1>1. ASSUME NEW r \in Requests, Refuse(r) \/ Limited(r) \/ Handled(r) PROVE IInv'
  BY <1>1, AnswerKeeps DEF Refuse, Limited, Handled, Replies
<1>2. ASSUME NEW r \in Requests, Admit(r) PROVE IInv'
  BY <1>2, AdmitKeeps
<1>3. CASE UNCHANGED vars
  BY <1>3 DEF vars, IInv, TypeOK, HitsEarned, LimitEarned, Passed
<1> QED BY <1>1, <1>2, <1>3, ForgetKeeps DEF Next, Handle

LEMMA Invariant == Spec => []IInv
<1> QED BY IInvInit, IInvNext, PTL DEF Spec

-----------------------------------------------------------------------------

\* The variables keep their types: no client has more POSTs handled in a window than
\* its limit (api/events.py:24, resilience/rate_limit.py).
THEOREM TypeCorrect == Spec => []TypeOK
<1> QED BY Invariant, PTL DEF IInv

\* No client is answered 429 before it has had as many POSTs handled as the limit
\* allows, whatever others send, and whatever validation refuses (main.py:32-42).
THEOREM LimitedOnlyByOwn == Spec => []LimitEarned
<1> QED BY Invariant, PTL DEF IInv
=============================================================================
