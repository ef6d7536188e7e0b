------------------------------- MODULE Relay -------------------------------
(***************************************************************************)
(* The relay of spec 4.9 over two transports, D (downstream client) and   *)
(* U (upstream), whose operations are those of the Transport module.      *)
(* Direction du reads D and writes U; direction ud reads U and writes D.  *)
(* Each direction keeps one read or one write outstanding; the first      *)
(* direction to meet an error or end of file closes both transports, and  *)
(* the relay is complete once both directions have exited.  Then the      *)
(* relay lets go of both transports, and each is destroyed once no        *)
(* pending handler holds it.                                              *)
(*                                                                         *)
(* The relay loop itself is not in the source tree and follows the spec;  *)
(* the transports' behaviour follows tcp_transport.cc and ssl.cc.         *)
(***************************************************************************)
EXTENDS Transport

CONSTANTS D, U

ASSUME Transports = {D, U} /\ D # U

Directions == {"du", "ud"}
Src(d) == IF d = "du" THEN D ELSE U
Dst(d) == IF d = "du" THEN U ELSE D

VARIABLES
  dpc,        \* dpc[d]: start, reading, writing or exited
  destroyed   \* destroyed[t]: the transport object has been destroyed

vars == <<tvars, dpc, destroyed>>

Init ==
  /\ TInit
  /\ dpc = [d \in Directions |-> "start"]
  /\ destroyed = [t \in Transports |-> FALSE]

(* The direction starts its loop with a read_some on its source.          *)
Begin(d) ==
  /\ dpc[d] = "start"
  /\ StartRead(Src(d))
  /\ dpc' = [dpc EXCEPT ![d] = "reading"]
  /\ UNCHANGED <<sock, peer, avail, wr, closes, outcome, destroyed>>

(* Mutant of Exit: the first direction to exit closes nothing.            *)
ExitNoClose(d) ==
  /\ dpc' = [dpc EXCEPT ![d] = "exited"]
  /\ UNCHANGED <<sock, closes>>

(* A direction exits; the first one to do so closes both transports.      *)
Exit(d) ==
  /\ dpc' = [dpc EXCEPT ![d] = "exited"]
  /\ IF \E e \in Directions : dpc[e] = "exited"
       THEN UNCHANGED <<sock, closes>>
       ELSE CloseAll(Transports)

(* The read handler: data is written to the destination whole; an error  *)
(* or end of file ends the direction.                                     *)
ReadHandler(d, res) ==
  /\ dpc[d] = "reading"
  /\ ReadDone(Src(d), res)
  /\ IF res = "data"
       THEN /\ StartWrite(Dst(d))
            /\ dpc' = [dpc EXCEPT ![d] = "writing"]
            /\ UNCHANGED <<sock, closes>>
       ELSE /\ Exit(d)
            /\ UNCHANGED wr
  /\ UNCHANGED <<peer, destroyed>>

(* The write handler: the next read is started; an error ends the         *)
(* direction.                                                             *)
WriteHandler(d, res) ==
  /\ dpc[d] = "writing"
  /\ WriteDone(Dst(d), res)
  /\ IF res = "ok"
       THEN /\ StartRead(Src(d))
            /\ dpc' = [dpc EXCEPT ![d] = "reading"]
            /\ UNCHANGED <<sock, closes>>
       ELSE /\ Exit(d)
            /\ UNCHANGED rd
  /\ UNCHANGED <<peer, avail, destroyed>>

(* A pending handler keeps the transport it captured alive: a read or a   *)
(* write handler, and the TLS shutdown handler, which captures the        *)
(* transport itself (SslTransportImpl::StartClose).                       *)
Held(t) == rd[t] # "idle" \/ wr[t] # "idle" \/ sock[t] = "shutting"

(* Once the relay is complete, a transport no handler holds is destroyed. *)
Destroy(t) ==
  /\ \A d \in Directions : dpc[d] = "exited"
  /\ ~destroyed[t]
  /\ ~Held(t)
  /\ destroyed' = [destroyed EXCEPT ![t] = TRUE]
  /\ UNCHANGED <<tvars, dpc>>

(* The transports' own completions that no relay handler waits for, and  *)
(* the peers.                                                             *)
Environment(t) ==
  \/ ShutdownDone(t) /\ UNCHANGED <<peer, avail, rd, wr, closes, outcome>>
  \/ PeerSend(t) /\ UNCHANGED <<sock, peer, rd, wr, closes, outcome>>
  \/ PeerClose(t) /\ UNCHANGED <<sock, avail, rd, wr, closes, outcome>>

Next ==
  \/ \E d \in Directions :
       \/ Begin(d)
       \/ \E res \in Results : ReadHandler(d, res) \/ WriteHandler(d, res)
  \/ \E t \in Transports :
       \/ Destroy(t)
       \/ Environment(t) /\ UNCHANGED <<dpc, destroyed>>

(* The reactor runs every handler whose operation has completed: a read   *)
(* once data or the peer's close has arrived, and any operation the       *)
(* closing of its socket aborted.  A write's success depends on the peer  *)
(* draining it, and a peer may keep silent for ever: neither is assumed.  *)
Fairness ==
  /\ \A d \in Directions :
       /\ WF_vars(Begin(d))
       /\ WF_vars(\E res \in {"data", "eof", "aborted"} : ReadHandler(d, res))
       /\ WF_vars(\E res \in {"error", "aborted"} : WriteHandler(d, res))
  /\ \A t \in Transports :
       /\ WF_vars(Destroy(t))
       /\ WF_vars(ShutdownDone(t) /\ UNCHANGED <<peer, avail, rd, wr, closes,
                                               outcome, dpc, destroyed>>)

Spec == Init /\ [][Next]_vars /\ Fairness

-----------------------------------------------------------------------------
(* Spec 4.9 and 5: once one direction has exited and closed both           *)
(* transports, which aborts every operation pending on them, the other    *)
(* direction exits too, so the relay completes.                           *)
RelayCompletes ==
  (\E d \in Directions : dpc[d] = "exited") ~>
    (\A d \in Directions : dpc[d] = "exited")

=============================================================================
