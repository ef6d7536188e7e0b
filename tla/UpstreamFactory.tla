-------------------------- MODULE UpstreamFactory --------------------------
(***************************************************************************)
(* What an upstream factory (UpstreamFactoryBase::StartRequest, base.h)   *)
(* promises its caller, the downstream SOCKS server: every request that   *)
(* was started is answered by exactly one invocation of its callback, and *)
(* an answer that hands over a transport carries no error code and        *)
(* reports, as the transport's local address, a bound address of the far *)
(* side.  A failure answer carries no transport; whether its error code   *)
(* is set is left open: spec 10 admits an empty one.                     *)
(***************************************************************************)
CONSTANTS
  Req,          \* the requests (StartRequest calls)
  ErrorCodes,   \* error codes a callback may carry, NoError included
  NoError,      \* the empty ec_type()
  Bound,        \* bound addresses a far side may report
  NoTransport,  \* a null std::shared_ptr<TransportBase>
  None          \* no answer yet

VARIABLES
  requested,    \* requests StartRequest has been called for
  answer        \* answer[r]: the one callback invocation for r, or None

vars == <<requested, answer>>

(* The callback arguments an upstream factory may deliver.                *)
Answers ==
  {a \in [ec : ErrorCodes, transport : Bound \cup {NoTransport}] :
     a.transport # NoTransport => a.ec = NoError}

Init ==
  /\ requested = {}
  /\ answer = [r \in Req |-> None]

StartRequest(r) ==
  /\ r \notin requested
  /\ requested' = requested \cup {r}
  /\ UNCHANGED answer

Answer(r) ==
  /\ r \in requested
  /\ answer[r] = None
  /\ \E a \in Answers : answer' = [answer EXCEPT ![r] = a]
  /\ UNCHANGED requested

(* A factory may invoke the callback from within StartRequest itself,    *)
(* before StartRequest returns to its caller.                             *)
StartAndAnswer(r) ==
  /\ r \notin requested
  /\ requested' = requested \cup {r}
  /\ \E a \in Answers : answer' = [answer EXCEPT ![r] = a]

Next == \E r \in Req : StartRequest(r) \/ StartAndAnswer(r) \/ Answer(r)

(* A started request is eventually answered: the factory never drops one. *)
Spec == Init /\ [][Next]_vars /\ \A r \in Req : WF_vars(Answer(r))

=============================================================================
