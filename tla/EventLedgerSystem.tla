------------------------- MODULE EventLedgerSystem -------------------------
(***************************************************************************)
(* The Gateway of module EventGateway together with what travels from it   *)
(* to the Account Service: the content of events, and the counter the      *)
(* Gateway exports about them.                                             *)
(*                                                                         *)
(* EventGateway takes an event id for its content.  Here two requests may  *)
(* submit one id with different contents, so a content is named by its     *)
(* request.  A handler sends its own request's content, the replayer that  *)
(* of the stored row, and the Account Service keeps the first content it   *)
(* executes (module IdempotentLedger).  A call counts as answered only if  *)
(* its own content was sent.  Whether the Account Service accepts an event *)
(* is still a matter of its id.                                            *)
(***************************************************************************)
EXTENDS EventGateway

CONSTANT CountMax \* bound of the model: the counter per event saturates here

ASSUME SystemAssumption == CountMax \in Nat \ {0, 1} /\ "absent" \notin Requests

VARIABLES
  origin,  \* per event: the request whose content its committed row has
  shipped, \* requests whose content was sent to the Account Service
  booked,  \* per event: the request whose content the Account Service has
  counted  \* events_applied_total, per event, of this process

content == <<origin, shipped, booked>>
sysvars == <<vars, content, counted>>

\* The content is known of exactly the events that EventGateway knows.
ContentOK ==
  /\ TypeOK
  /\ origin \in [Events -> Requests \union {"absent"}]
  /\ booked \in [Events -> Requests \union {"absent"}]
  /\ \A e \in Events : /\ origin[e] = "absent" <=> status[e] = "absent"
                       /\ booked[e] = "absent" <=> e \notin ledger
  /\ shipped \subseteq Requests /\ {EventOf[r] : r \in shipped} = sent
  /\ counted \in [Events -> 0..CountMax]

SysInit ==
  /\ Init
  /\ origin = [e \in Events |-> "absent"] /\ booked = origin
  /\ shipped = {}
  /\ counted = [e \in Events |-> 0]

\* events_applied_total.inc(), before the commit.
Inc(e) == counted' = [counted EXCEPT ![e] = IF @ = CountMax THEN @ ELSE @ + 1]

Store(r) == origin' = [origin EXCEPT ![EventOf[r]] = r]

-----------------------------------------------------------------------------

\* The call of a request whose event was sent before, by a request that was lost,
\* changes nothing that EventGateway sees.
Resend(r) == pc[r] = "call" /\ EventOf[r] \in sent /\ UNCHANGED vars

SysSend(r) ==
  /\ Send(r) \/ Resend(r)
  /\ r \notin shipped /\ shipped' = shipped \union {r}
  /\ UNCHANGED <<origin, booked, counted>>

SysApplied(r) ==
  /\ CallApplied(r) /\ r \in shipped
  /\ Store(r) /\ Inc(EventOf[r])
  /\ UNCHANGED <<shipped, booked>>

SysUnavailable(r) == CallUnavailable(r) /\ Store(r) /\ UNCHANGED <<shipped, booked, counted>>

SysRejected(r) ==
  /\ CallRejected(r) /\ r \in shipped
  /\ Store(r) /\ UNCHANGED <<shipped, booked, counted>>

SysReplaySend(e) ==
  /\ rp = "call" /\ Current(e)
  /\ ReplaySend(e) \/ (e \in sent /\ UNCHANGED vars)
  /\ origin[e] \notin shipped /\ shipped' = shipped \union {origin[e]}
  /\ UNCHANGED <<origin, booked, counted>>

\* Mutant: the counter is forgotten in the replayer.
ReplayedUncounted(e) ==
  /\ ReplayApplied(e) /\ origin[e] \in shipped
  /\ UNCHANGED <<content, counted>>

SysReplayed(e) ==
  /\ ReplayApplied(e) /\ origin[e] \in shipped
  /\ Inc(e)
  /\ UNCHANGED content

SysReplayRejected(e) ==
  /\ ReplayRejected(e) /\ origin[e] \in shipped /\ UNCHANGED <<content, counted>>

\* One of the contents that were sent is executed.
SysApply(e) ==
  /\ Apply(e)
  /\ \E r \in shipped : EventOf[r] = e /\ booked' = [booked EXCEPT ![e] = r]
  /\ UNCHANGED <<origin, shipped, counted>>

\* The counters of a process start at zero.
SysCrash ==
  /\ Crash
  /\ counted' = [e \in Events |-> 0]
  /\ UNCHANGED content

\* The steps that neither send, store nor count.
Unmetered ==
  /\ \/ \E r \in Requests : \/ Lookup(r) \/ Dedupe(r) \/ Insert(r)
                            \/ DuplicateKey(r) \/ LockTimeout(r)
     \/ \E e \in Events : ReplayDeferred(e)
     \/ DrainStart \/ Fetch \/ DrainCommit \/ DrainLockTimeout
  /\ UNCHANGED <<content, counted>>

SysNext ==
  \/ \E r \in Requests : SysSend(r) \/ SysApplied(r) \/ SysUnavailable(r) \/ SysRejected(r)
  \/ \E e \in Events : \/ SysReplaySend(e) \/ SysReplayed(e) \/ SysReplayRejected(e)
                       \/ SysApply(e)
  \/ SysCrash \/ Unmetered

SysSpec == SysInit /\ [][SysNext]_sysvars

-----------------------------------------------------------------------------

\* End to end, the two databases hold the same content for an event, although an id
\* may be submitted with several and calls are executed late.  The one exception: the
\* handler of the content that was executed died with its process.
ContentAgrees == \A e \in Events :
  status[e] # "absent" /\ e \in ledger => origin[e] = booked[e] \/ pc[booked[e]] = "lost"

\* events_applied_total, which a handler and the replayer increment before their
\* commits, counts every event once that this process has applied: what it counts is
\* applied, or marked in a drain that nothing but the end of the process can undo.
CountExact == \A e \in Events :
  /\ counted[e] <= 1
  /\ status[e] = "APPLIED" /\ crashes = 0 => counted[e] = 1
  /\ counted[e] = 1 => status[e] = "APPLIED" \/ (e \in applied /\ writer = "replayer")
=============================================================================
