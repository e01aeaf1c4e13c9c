--------------------------- MODULE EventLifecycle ---------------------------
(***************************************************************************)
(* What the Event Gateway promises of an event, whatever its interleavings *)
(* of requests, replays and restarts: the state machine of                 *)
(* docs/diagrams/event-state-machine.mmd, tied to what the Account Service *)
(* has recorded.  EventGateway implements this specification.              *)
(*                                                                         *)
(* Two things the diagram leaves out are part of the promise the code can  *)
(* keep.  RECEIVED is only the state of an event whose POST is running: it *)
(* is lost with the process (Forget).  And the Account Service may record  *)
(* an event, once it was called for it, at any later moment, even one the  *)
(* Gateway forgot.                                                         *)
(***************************************************************************)

CONSTANT Events

VARIABLES
  state,      \* per event, where it is in its life
  attempted,  \* events the Account Service was ever called for
  ledger      \* events it has recorded a transaction for

vars == <<state, attempted, ledger>>

Init ==
  /\ state = [e \in Events |-> "none"]
  /\ attempted = {}
  /\ ledger = {}

Move(e, from, to) ==
  /\ state[e] = from
  /\ state' = [state EXCEPT ![e] = to]
  /\ UNCHANGED <<attempted, ledger>>

\* The Gateway calls for an event only while the event is in its hands.
Attempt(e) ==
  /\ state[e] \in {"RECEIVED", "QUEUED"}
  /\ attempted' = attempted \union {e}
  /\ UNCHANGED <<state, ledger>>

\* An event that was reported as FAILED is never recorded afterwards.
Record(e) ==
  /\ e \in attempted /\ state[e] # "FAILED"
  /\ ledger' = ledger \union {e}
  /\ UNCHANGED <<state, attempted>>

Receive(e) == Move(e, "none", "RECEIVED")
Queue(e)   == Move(e, "RECEIVED", "QUEUED")
Apply(e)   == e \in ledger /\ Move(e, "RECEIVED", "APPLIED")
Reject(e)  == e \notin ledger /\ Move(e, "RECEIVED", "FAILED")
Forget(e)  == Move(e, "RECEIVED", "none")

\* One drain of the outbox settles its events together.
Replay(A, F) ==
  /\ \A e \in A \union F : state[e] = "QUEUED"
  /\ A \subseteq ledger /\ F \cap ledger = {}
  /\ state' = [e \in Events |-> IF e \in A THEN "APPLIED"
                                ELSE IF e \in F THEN "FAILED" ELSE state[e]]
  /\ UNCHANGED <<attempted, ledger>>

Next ==
  \/ \E e \in Events : \/ Receive(e) \/ Queue(e) \/ Apply(e) \/ Reject(e) \/ Forget(e)
                       \/ Attempt(e) \/ Record(e)
  \/ \E A, F \in SUBSET Events : Replay(A, F)

Spec == Init /\ [][Next]_vars
=============================================================================
