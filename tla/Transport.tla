------------------------------ MODULE Transport ------------------------------
(***************************************************************************)
(* The transports (TcpTransportImpl in tcp_transport.cc, SslTransportImpl *)
(* in ssl.cc) as their users see them: StartRead, StartWrite and          *)
(* StartClose, the completion of each asynchronous operation, and the     *)
(* peer at the far end, which sends data and closes its side whenever it  *)
(* likes.  At most one read and one write are outstanding on a transport  *)
(* (spec 4.2); a caller starts them and waits for their completion.       *)
(*                                                                         *)
(* A TCP StartClose is synchronous: shutdown(both), then close, then the  *)
(* callback with the shutdown's error; every operation still pending on  *)
(* the socket then completes with "operation aborted".  A TLS StartClose  *)
(* only starts async_shutdown, which sends close_notify and completes     *)
(* when the peer's own close arrives; the socket stays open meanwhile.    *)
(***************************************************************************)
EXTENDS Naturals, Sequences

CONSTANTS
  Transports,   \* the transports
  Kind,         \* Kind[t]: "tcp" or "ssl"
  MaxData,      \* bound on the chunks a peer has sent and we have not read
  MaxCloses     \* bound on the StartClose calls per transport

ASSUME
  /\ Kind \in [Transports -> {"tcp", "ssl"}]
  /\ MaxData \in Nat /\ MaxCloses \in Nat \ {0}

VARIABLES
  sock,      \* sock[t]: open, shutting (TLS), shut (TLS) or closed (TCP)
  peer,      \* peer[t]: open, or closed once the peer has ended its side
  avail,     \* avail[t]: chunks the peer sent that are not yet read
  rd,        \* rd[t]: idle, or the read outstanding: pending, or
             \*        pendingAfterClose when started after StartClose
  wr,        \* wr[t]: the same for the write
  closes,    \* closes[t]: the StartClose calls made on t
  outcome    \* outcome[t]: the last read or write completion on t

tvars == <<sock, peer, avail, rd, wr, closes, outcome>>

NoOutcome == [op |-> "read", result |-> "aborted", afterClose |-> FALSE]

(* StartClose has been called on t.                                        *)
Closing(t) == closes[t] > 0

(* The operation a caller starts on a transport that was already closed.  *)
Pending(t) == IF Closing(t) THEN "pendingAfterClose" ELSE "pending"

Complete(t, op, res, old) ==
  outcome' = [outcome EXCEPT ![t] = [op |-> op, result |-> res,
                                     afterClose |-> old = "pendingAfterClose"]]

TInit ==
  /\ sock = [t \in Transports |-> "open"]
  /\ peer = [t \in Transports |-> "open"]
  /\ avail = [t \in Transports |-> 0]
  /\ rd = [t \in Transports |-> "idle"]
  /\ wr = [t \in Transports |-> "idle"]
  /\ closes = [t \in Transports |-> 0]
  /\ outcome = [t \in Transports |-> NoOutcome]

(* The operations below give only the variables they change, so that a  *)
(* handler of a user can start or close several transports in one step;   *)
(* the user's actions add what each leaves unchanged.                     *)

(* StartRead: async_read_some (a short read, as the relay uses).         *)
StartRead(t) ==
  /\ rd[t] = "idle"
  /\ rd' = [rd EXCEPT ![t] = Pending(t)]

(* StartWrite: async_write of the whole buffer.                           *)
StartWrite(t) ==
  /\ wr[t] = "idle"
  /\ wr' = [wr EXCEPT ![t] = Pending(t)]

(* The errors shutdown(both) can return: the descriptor is gone after a   *)
(* close, and the socket is no longer connected once the peer has gone.   *)
ShutdownErrors(t) ==
  CASE sock[t] = "closed" -> {"bad_descriptor"}
    [] peer[t] = "closed" -> {"none", "not_connected"}
    [] OTHER -> {"none"}

(* Mutant of TcpClosed: a failed shutdown skips the close.                *)
TcpClosedNoForce(t, ec) == IF ec = "none" THEN "closed" ELSE sock[t]

(* TcpTransportImpl::StartClose: shutdown(both, ec), then the socket is   *)
(* closed whether or not the shutdown failed.                             *)
TcpClosed(t, ec) == "closed"

(* Mutant of AfterClose: the TLS StartClose never starts the shutdown.    *)
AfterCloseSslNoShutdown(t, ec) ==
  IF Kind[t] = "tcp" THEN TcpClosed(t, ec) ELSE sock[t]

(* The socket after StartClose with shutdown error ec: a TLS StartClose   *)
(* starts async_shutdown on an open stream (SslTransportImpl::StartClose) *)
(* and leaves a stream already shut down as it is.                        *)
AfterClose(t, ec) ==
  IF Kind[t] = "tcp" THEN TcpClosed(t, ec)
  ELSE IF sock[t] = "open" THEN "shutting" ELSE sock[t]

(* StartClose on every transport of S, in one handler; ec[t] is the error *)
(* of t's shutdown, which the callback receives.  Neither StartClose      *)
(* checks whether the transport was closed before: a second TCP close     *)
(* shuts down a closed descriptor, a second TLS close starts another      *)
(* async_shutdown.                                                        *)
CloseAll(S) ==
  /\ \A t \in S : closes[t] < MaxCloses
  /\ closes' = [t \in Transports |->
                  IF t \in S THEN closes[t] + 1 ELSE closes[t]]
  /\ \E ec \in [S -> {"none", "not_connected", "bad_descriptor"}] :
       /\ \A t \in S : ec[t] \in ShutdownErrors(t)
       /\ sock' = [t \in Transports |->
                     IF t \in S THEN AfterClose(t, ec[t]) ELSE sock[t]]

(* The async_shutdown handler runs once the peer's close has arrived,     *)
(* with or without its close_notify.  The stream sends its close_notify   *)
(* only after the record of a write in flight, so a write started before  *)
(* the close completes first.                                             *)
ShutdownDone(t) ==
  /\ sock[t] = "shutting"
  /\ peer[t] = "closed"
  /\ wr[t] # "pending"
  /\ sock' = [sock EXCEPT ![t] = "shut"]

(* The read handler.  Data the peer sent is delivered while the socket is *)
(* open and while a TLS shutdown waits for the peer's close_notify; after *)
(* the peer's close, or a completed TLS shutdown, a read finds end of     *)
(* file; a TCP socket that was closed aborts the read.                    *)
ReadDone(t, res) ==
  /\ rd[t] # "idle"
  /\ \/ res = "data" /\ avail[t] > 0 /\ sock[t] \in {"open", "shutting"}
     \/ res = "eof" /\ avail[t] = 0 /\ peer[t] = "closed" /\ sock[t] # "closed"
     \/ res = "eof" /\ sock[t] = "shut"
     \/ res = "aborted" /\ sock[t] = "closed"
  /\ avail' = [avail EXCEPT ![t] = IF res = "data" THEN @ - 1 ELSE @]
  /\ rd' = [rd EXCEPT ![t] = "idle"]
  /\ Complete(t, "read", res, rd[t])

(* The write handler.  A write on an open socket succeeds, or fails once  *)
(* the peer has gone; a TCP socket that was closed aborts the write.  A   *)
(* TLS write encrypts its data when it starts (async_write on the         *)
(* ssl::stream): one started before the shutdown still flushes and may    *)
(* succeed, one started after it is refused.                              *)
WriteDone(t, res) ==
  /\ wr[t] # "idle"
  /\ \/ res = "ok" /\ sock[t] = "open"
     \/ res = "ok" /\ sock[t] = "shutting" /\ wr[t] = "pending"
     \/ res = "error" /\ sock[t] = "open" /\ peer[t] = "closed"
     \/ res = "error" /\ sock[t] \in {"shutting", "shut"}
     \/ res = "aborted" /\ sock[t] = "closed"
  /\ wr' = [wr EXCEPT ![t] = "idle"]
  /\ Complete(t, "write", res, wr[t])

(* The peer sends a chunk of data.                                        *)
PeerSend(t) ==
  /\ peer[t] = "open"
  /\ avail[t] < MaxData
  /\ avail' = [avail EXCEPT ![t] = @ + 1]

(* The peer ends its side (FIN, or TLS close_notify).                     *)
PeerClose(t) ==
  /\ peer[t] = "open"
  /\ peer' = [peer EXCEPT ![t] = "closed"]

Results == {"data", "ok", "eof", "error", "aborted"}

-----------------------------------------------------------------------------
(* Spec 8: a transport that has been closed reports errors on any write  *)
(* started after the close (StartClose, then StartWrite).                 *)
ClosedWritesFail ==
  \A t \in Transports :
    outcome[t].op = "write" /\ outcome[t].afterClose =>
      outcome[t].result # "ok"

=============================================================================
