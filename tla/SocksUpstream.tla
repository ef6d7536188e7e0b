--------------------------- MODULE SocksUpstream ---------------------------
(***************************************************************************)
(* SocksTcpUpstreamFactory (src/src/socks_upstream.cc) over the transport *)
(* factory it dials with (TcpTransportFactoryImpl, tcp_transport.cc, or   *)
(* SslTransportFactoryImpl, ssl.cc).                                      *)
(*                                                                         *)
(* A request first resolves the upstream server lazily: an unlocked read  *)
(* of is_upstream_endpoint_init_, then a mutex, a second check, a         *)
(* synchronous resolve and TryConnect, and the stores of                  *)
(* upstream_endpoint_ and of the flag.  Later requests dial the           *)
(* remembered endpoint with StartConnect.  On the transport it then       *)
(* drives the client side of SOCKS5: AuthMethodList, AuthMethodSelect,    *)
(* RequestPacket, ResponsePacket (header, then body), and answers its     *)
(* callback.                                                              *)
(*                                                                         *)
(* Requests run on reactor threads (ThreadOf).  The handlers of one       *)
(* thread run one at a time, and a thread inside the synchronous part of  *)
(* StartRequest (waiting for the mutex, resolving, storing) runs nothing  *)
(* else.  The two stores of the locked section are separate steps that   *)
(* may become visible in either order: the unlocked read at line 35 is a  *)
(* data race, and neither compiler nor processor orders the two plain     *)
(* stores for a reader that does not take the mutex.                      *)
(***************************************************************************)
EXTENDS Naturals, Sequences, SequencesExt

CONSTANTS
  Req,              \* StartRequest calls, one per downstream connection
  Threads,          \* reactor threads running the io_service
  ThreadOf,         \* [Req -> Threads]: the thread a request runs on
  Factory,          \* "tcp" or "ssl": the TcpTransportFactory in use
  ResolverResults,  \* the endpoints the resolver returns for upstream_host_
  Reachable,        \* the endpoints that may accept a connection
  NoEndpoint,       \* a default-constructed tcp::endpoint
  Bound,            \* the bound address the upstream server reports
  LocalAddr,        \* the local address of the socket to the upstream
  SelfServed,       \* the upstream is a TLS listener of this same process
  NoTransport,      \* nullptr
  None              \* no value yet

Endpoints == ToSet(ResolverResults)

ASSUME
  /\ Factory \in {"tcp", "ssl"}
  /\ SelfServed \in BOOLEAN
  /\ ThreadOf \in [Req -> Threads]
  /\ Len(ResolverResults) > 0
  /\ Reachable \subseteq Endpoints

(* Error codes, abstracted to their origin.  "none" is ec_type(), "rep"   *)
(* a non-success REP code of the upstream passed through by               *)
(* error::make_error_code.                                                *)
ErrorCodes == {"none", "resolve", "connect", "handshake", "io", "rep"}

VARIABLES
  pc,                 \* pc[r]: where request r is
  lockHolder,         \* the request holding upstream_endpoint_init_mtx_
  isInit,             \* is_upstream_endpoint_init_
  upstreamEndpoint,   \* upstream_endpoint_
  iter,               \* iter[r]: the resolver iterator after TryConnect
  tryConnected,       \* the endpoint TryConnect's transport connected to
  target,             \* target[r]: the endpoint StartConnect dialled
  tstate,             \* tstate[r]: r's transport to the upstream server
  respCode,           \* respCode[r]: REP of the response header read
  replies,            \* replies[r]: every invocation of r's callback
  inits               \* how many times the endpoint was initialised

vars == <<pc, lockHolder, isInit, upstreamEndpoint, iter, tryConnected,
          target, tstate, respCode, replies, inits>>

(* pc values inside the synchronous part of StartRequest, during which   *)
(* the request's thread runs nothing else.                               *)
Blocking == {"lock", "check", "handshake", "store", "endpointStored",
             "flagStored", "unlock"}

Runnable(r) ==
  \A q \in Req \ {r} : ThreadOf[q] = ThreadOf[r] => pc[q] \notin Blocking

(* A reactor thread that is free to run a handler: none of its requests  *)
(* is inside the synchronous part of StartRequest.                        *)
FreeThread(th) == \A q \in Req : ThreadOf[q] = th => pc[q] \notin Blocking

Failure(ec) == [ec |-> ec, transport |-> NoTransport]

(* callback(ec, ...) of the request.                                      *)
Reply(r, res) == replies' = [replies EXCEPT ![r] = Append(@, res)]

(* transport->StartClose() followed by callback(ec, nullptr).             *)
CloseAndFail(r, ec) ==
  /\ tstate' = [tstate EXCEPT ![r] = "closed"]
  /\ Reply(r, Failure(ec))

Init ==
  /\ pc = [r \in Req |-> "idle"]
  /\ lockHolder = None
  /\ isInit = FALSE
  /\ upstreamEndpoint = NoEndpoint
  /\ iter = [r \in Req |-> None]
  /\ tryConnected = None
  /\ target = [r \in Req |-> None]
  /\ tstate = [r \in Req |-> "none"]
  /\ respCode = [r \in Req |-> None]
  /\ replies = [r \in Req |-> <<>>]
  /\ inits = 0

-----------------------------------------------------------------------------
(* StartRequest: the unlocked check of is_upstream_endpoint_init_.  When  *)
(* it reads TRUE the request dials upstream_endpoint_ at once.            *)
StartRequest(r) ==
  /\ pc[r] = "idle"
  /\ Runnable(r)
  /\ IF isInit
       THEN /\ pc' = [pc EXCEPT ![r] = "connecting"]
            /\ target' = [target EXCEPT ![r] = upstreamEndpoint]
       ELSE /\ pc' = [pc EXCEPT ![r] = "lock"]
            /\ UNCHANGED target
  /\ UNCHANGED <<lockHolder, isInit, upstreamEndpoint, iter, tryConnected,
                 tstate, respCode, replies, inits>>

(* std::lock_guard on upstream_endpoint_init_mtx_.                        *)
Acquire(r) ==
  /\ pc[r] = "lock"
  /\ Runnable(r)
  /\ lockHolder = None
  /\ lockHolder' = r
  /\ pc' = [pc EXCEPT ![r] = "check"]
  /\ UNCHANGED <<isInit, upstreamEndpoint, iter, tryConnected, target,
                 tstate, respCode, replies, inits>>

(* The second check finds the endpoint initialised by another request:   *)
(* the lock is released and upstream_endpoint_ dialled.                  *)
CheckInit(r) ==
  /\ pc[r] = "check"
  /\ Runnable(r)
  /\ isInit
  /\ lockHolder' = None
  /\ pc' = [pc EXCEPT ![r] = "connecting"]
  /\ target' = [target EXCEPT ![r] = upstreamEndpoint]
  /\ UNCHANGED <<isInit, upstreamEndpoint, iter, tryConnected, tstate,
                 respCode, replies, inits>>

(* The contract of TcpTransportFactory::TryConnect (tcp_transport.h): the  *)
(* results are tried in order, and the index of the first one that        *)
(* accepts (of those in up) is where iter is to be left; 0 when none      *)
(* does and error_code is set.                                            *)
FirstConnectable(up) == SelectInSeq(ResolverResults, LAMBDA e : e \in up)

(* Mutant of TryConnectIter: the iterator is not advanced by either     *)
(* factory.                                                               *)
TryConnectIterUnadvanced(i) == 1

(* The iterator TryConnect leaves behind when the i-th result connected. *)
(* SslTransportFactoryImpl assigns the result of boost::asio::connect to  *)
(* iter; TcpTransportFactoryImpl discards it, so iter still points at    *)
(* the first result.                                                     *)
TryConnectIter(i) == IF Factory = "ssl" THEN i ELSE 1

(* Mutant of InitFailed: the `return` after the callback is missing and   *)
(* the request goes on to store *iter.                                    *)
InitFailedNoReturn(r, ec) ==
  /\ pc' = [pc EXCEPT ![r] = "store"]
  /\ CloseAndFail(r, ec)
  /\ UNCHANGED lockHolder

(* Mutant of InitFailed: the early return leaves the mutex locked, as a  *)
(* lock() without the lock_guard would.                                   *)
InitFailedKeepsLock(r, ec) ==
  /\ pc' = [pc EXCEPT ![r] = "done"]
  /\ CloseAndFail(r, ec)
  /\ UNCHANGED lockHolder

(* The resolve or TryConnect failed: callback(ec, nullptr) and return,   *)
(* which releases the lock.  TryConnect's transport is closed (TLS) or    *)
(* destroyed (TCP).                                                       *)
InitFailed(r, ec) ==
  /\ pc' = [pc EXCEPT ![r] = "done"]
  /\ CloseAndFail(r, ec)
  /\ lockHolder' = None

(* Under the lock: the synchronous resolve, then TryConnect, which tries *)
(* the results in order (boost::asio::connect); TLS goes on to the client *)
(* handshake.  `up` is the set of endpoints accepting right now.  The     *)
(* kernel completes a TCP connect to a listening socket by itself.        *)
ResolveAndTryConnect(r) ==
  /\ \/ /\ InitFailed(r, "resolve")
        /\ UNCHANGED <<iter, tryConnected>>
     \/ \E up \in SUBSET Reachable :
          LET i == FirstConnectable(up)
          IN \/ /\ i = 0
                /\ InitFailed(r, "connect")
                /\ UNCHANGED <<iter, tryConnected>>
             \/ /\ i # 0
                /\ pc' = [pc EXCEPT ![r] = IF Factory = "ssl" THEN "handshake"
                                                            ELSE "store"]
                /\ iter' = [iter EXCEPT ![r] =
                              ResolverResults[TryConnectIter(i)]]
                /\ tryConnected' = ResolverResults[i]
                /\ tstate' = [tstate EXCEPT ![r] = "open"]
                /\ UNCHANGED <<lockHolder, replies>>
  /\ UNCHANGED <<isInit, upstreamEndpoint, target, respCode, inits>>

(* SslTransportFactoryImpl::TryConnect, lines 162-176: the blocking      *)
(* client handshake, still under the lock, on the request's own thread.  *)
(* A failure closes the transport and StartRequest fails the request     *)
(* (lines 59-63).  When the upstream is a TLS listener of this process,  *)
(* its side of the handshake (the accept and handshake handlers of       *)
(* SslTransportFactoryImpl::DoAccept) must run on a free reactor thread   *)
(* while the client waits for the server's last message.                 *)
TryConnectHandshake(r) ==
  /\ pc[r] = "handshake"
  /\ Runnable(r)
  /\ SelfServed => \E th \in Threads : FreeThread(th)
  /\ \/ /\ pc' = [pc EXCEPT ![r] = "store"]
        /\ UNCHANGED <<lockHolder, tstate, replies>>
     \/ InitFailed(r, "handshake")
  /\ UNCHANGED <<isInit, upstreamEndpoint, iter, tryConnected, target,
                 respCode, inits>>

(* Mutant of InitEndpoint: the second check of the flag under the lock   *)
(* is missing.                                                            *)
InitEndpointNoRecheck(r) ==
  /\ pc[r] = "check"
  /\ Runnable(r)
  /\ ResolveAndTryConnect(r)

(* The second check finds the endpoint not initialised.                  *)
InitEndpoint(r) ==
  /\ pc[r] = "check"
  /\ Runnable(r)
  /\ ~isInit
  /\ ResolveAndTryConnect(r)

(* upstream_endpoint_ = *iter.                                            *)
StoreEndpoint(r) ==
  /\ pc[r] \in {"store", "flagStored"}
  /\ Runnable(r)
  /\ upstreamEndpoint' = iter[r]
  /\ pc' = [pc EXCEPT ![r] = IF @ = "store" THEN "endpointStored"
                                             ELSE "unlock"]
  /\ UNCHANGED <<lockHolder, isInit, iter, tryConnected, target, tstate,
                 respCode, replies, inits>>

(* is_upstream_endpoint_init_ = true.                                     *)
StoreFlag(r) ==
  /\ pc[r] \in {"store", "endpointStored"}
  /\ Runnable(r)
  /\ isInit' = TRUE
  /\ inits' = inits + 1
  /\ pc' = [pc EXCEPT ![r] = IF @ = "store" THEN "flagStored"
                                             ELSE "unlock"]
  /\ UNCHANGED <<lockHolder, upstreamEndpoint, iter, tryConnected, target,
                 tstate, respCode, replies>>

(* The lock_guard goes out of scope and SendAuthRequest writes the       *)
(* AuthMethodList {NoAuth} on the transport TryConnect returned.         *)
Unlock(r) ==
  /\ pc[r] = "unlock"
  /\ Runnable(r)
  /\ lockHolder' = None
  /\ pc' = [pc EXCEPT ![r] = "authWrite"]
  /\ UNCHANGED <<isInit, upstreamEndpoint, iter, tryConnected, target,
                 tstate, respCode, replies, inits>>

-----------------------------------------------------------------------------
(* TcpTransportFactoryImpl::StartConnect's handler: on success the       *)
(* callback runs SendAuthRequest; on failure the transport is closed and  *)
(* the request fails.                                                    *)
TcpConnectDone(r) ==
  \/ /\ target[r] \in Reachable
     /\ pc' = [pc EXCEPT ![r] = "authWrite"]
     /\ tstate' = [tstate EXCEPT ![r] = "open"]
     /\ UNCHANGED replies
  \/ /\ pc' = [pc EXCEPT ![r] = "done"]
     /\ CloseAndFail(r, "connect")

(* SslTransportFactoryImpl::StartConnect's connect handler: on success   *)
(* the client handshake starts.  On failure the transport is closed and  *)
(* the callback invoked, and then, with no return after it, the          *)
(* handshake is started all the same.                                    *)
SslConnectDone(r) ==
  /\ pc' = [pc EXCEPT ![r] = "handshaking"]
  /\ \/ /\ target[r] \in Reachable
        /\ tstate' = [tstate EXCEPT ![r] = "open"]
        /\ UNCHANGED replies
     \/ CloseAndFail(r, "connect")

(* Completion of the async_connect StartConnect started.                 *)
ConnectDone(r) ==
  /\ pc[r] = "connecting"
  /\ Runnable(r)
  /\ IF Factory = "tcp" THEN TcpConnectDone(r) ELSE SslConnectDone(r)
  /\ UNCHANGED <<lockHolder, isInit, upstreamEndpoint, iter, tryConnected,
                 target, respCode, inits>>

(* Mutant of HandshakeDone: a failed handshake does not close the       *)
(* transport before the callback.                                         *)
HandshakeDoneNoClose(r) ==
  /\ pc[r] = "handshaking"
  /\ Runnable(r)
  /\ \/ /\ tstate[r] = "open"
        /\ pc' = [pc EXCEPT ![r] = "authWrite"]
        /\ UNCHANGED replies
     \/ /\ pc' = [pc EXCEPT ![r] = "done"]
        /\ Reply(r, Failure("handshake"))
  /\ UNCHANGED <<lockHolder, isInit, upstreamEndpoint, iter, tryConnected,
                 target, tstate, respCode, inits>>

(* Completion of the TLS client handshake started by StartConnect.  It   *)
(* can only succeed on a connected socket.                                *)
HandshakeDone(r) ==
  /\ pc[r] = "handshaking"
  /\ Runnable(r)
  /\ \/ /\ tstate[r] = "open"
        /\ pc' = [pc EXCEPT ![r] = "authWrite"]
        /\ UNCHANGED <<tstate, replies>>
     \/ /\ pc' = [pc EXCEPT ![r] = "done"]
        /\ CloseAndFail(r, "handshake")
  /\ UNCHANGED <<lockHolder, isInit, upstreamEndpoint, iter, tryConnected,
                 target, respCode, inits>>

(* A step of the SOCKS5 client exchange: the pending write or read       *)
(* either fails, which closes the transport and fails the request with   *)
(* the transport error, or completes and moves on.                       *)
IoFailed(r) ==
  /\ pc' = [pc EXCEPT ![r] = "done"]
  /\ CloseAndFail(r, "io")

IoStep(r, from, to) ==
  /\ pc[r] = from
  /\ Runnable(r)
  /\ \/ IoFailed(r)
     \/ /\ pc' = [pc EXCEPT ![r] = to]
        /\ UNCHANGED <<tstate, replies>>
  /\ UNCHANGED <<lockHolder, isInit, upstreamEndpoint, iter, tryConnected,
                 target, respCode, inits>>

(* SendAuthRequest: the AuthMethodList write completes; the              *)
(* AuthMethodSelectPacket read is started.                               *)
AuthWriteDone(r) == IoStep(r, "authWrite", "authRead")

(* The AuthMethodSelectPacket read completes.  A method other than       *)
(* NoAuth closes the transport and invokes callback(ec, nullptr) with the *)
(* ec of the successful read, which is empty.                             *)
AuthReadDone(r) ==
  /\ pc[r] = "authRead"
  /\ Runnable(r)
  /\ \/ IoFailed(r)
     \/ /\ pc' = [pc EXCEPT ![r] = "reqWrite"]
        /\ UNCHANGED <<tstate, replies>>
     \/ /\ pc' = [pc EXCEPT ![r] = "done"]
        /\ CloseAndFail(r, "none")
  /\ UNCHANGED <<lockHolder, isInit, upstreamEndpoint, iter, tryConnected,
                 target, respCode, inits>>

(* SendSocksRequest: the RequestPacket {Connect, target} write completes; *)
(* the ResponsePacket read starts with its header.                       *)
ReqWriteDone(r) == IoStep(r, "reqWrite", "respHeader")

(* PacketWithHeader::StartCreateFrom: the ResponseHeader read completes  *)
(* and the body (the bound Address) is read next.  An error skips the    *)
(* body and reaches the callback at once.                                *)
RespHeaderDone(r) ==
  /\ pc[r] = "respHeader"
  /\ Runnable(r)
  /\ \/ /\ IoFailed(r)
        /\ UNCHANGED respCode
     \/ /\ pc' = [pc EXCEPT ![r] = "respBody"]
        /\ \E rep \in {"success", "failure"} :
             respCode' = [respCode EXCEPT ![r] = rep]
        /\ UNCHANGED <<tstate, replies>>
  /\ UNCHANGED <<lockHolder, isInit, upstreamEndpoint, iter, tryConnected,
                 target, inits>>

(* Mutant of RespBodyDone: the transport is handed over unwrapped, so    *)
(* its local address is that of the socket to the upstream.              *)
RespBodyDoneUnwrapped(r) ==
  /\ pc[r] = "respBody"
  /\ Runnable(r)
  /\ pc' = [pc EXCEPT ![r] = "done"]
  /\ \/ CloseAndFail(r, "io")
     \/ /\ respCode[r] = "failure"
        /\ CloseAndFail(r, "rep")
     \/ /\ respCode[r] = "success"
        /\ tstate' = [tstate EXCEPT ![r] = "handed"]
        /\ Reply(r, [ec |-> "none", transport |-> LocalAddr])
  /\ UNCHANGED <<lockHolder, isInit, upstreamEndpoint, iter, tryConnected,
                 target, respCode, inits>>

(* The body read completes and SendSocksRequest's callback judges the    *)
(* response: an error or a non-success REP closes the transport and      *)
(* fails; success hands over a SocksTransportWrapper whose local address *)
(* is the bound address the upstream reported.                            *)
RespBodyDone(r) ==
  /\ pc[r] = "respBody"
  /\ Runnable(r)
  /\ pc' = [pc EXCEPT ![r] = "done"]
  /\ \/ CloseAndFail(r, "io")
     \/ /\ respCode[r] = "failure"
        /\ CloseAndFail(r, "rep")
     \/ /\ respCode[r] = "success"
        /\ tstate' = [tstate EXCEPT ![r] = "handed"]
        /\ Reply(r, [ec |-> "none", transport |-> Bound])
  /\ UNCHANGED <<lockHolder, isInit, upstreamEndpoint, iter, tryConnected,
                 target, respCode, inits>>

-----------------------------------------------------------------------------
Step(r) ==
  \/ Acquire(r) \/ CheckInit(r) \/ InitEndpoint(r) \/ TryConnectHandshake(r)
  \/ StoreEndpoint(r) \/ StoreFlag(r) \/ Unlock(r)
  \/ ConnectDone(r) \/ HandshakeDone(r)
  \/ AuthWriteDone(r) \/ AuthReadDone(r) \/ ReqWriteDone(r)
  \/ RespHeaderDone(r) \/ RespBodyDone(r)

Next == \E r \in Req : StartRequest(r) \/ Step(r)

(* Every handler that is ready eventually runs: the reactor runs every   *)
(* completed operation's handler, and every pending operation eventually *)
(* completes, with success or an error (peers and the network answer).   *)
Spec == Init /\ [][Next]_vars /\ \A r \in Req : WF_vars(Step(r))

-----------------------------------------------------------------------------
(* The type invariant.                                                    *)
TypeOK ==
  /\ pc \in [Req -> {"idle", "connecting", "handshaking", "authWrite",
                     "authRead", "reqWrite", "respHeader", "respBody",
                     "done"} \cup Blocking]
  /\ lockHolder \in Req \cup {None}
  /\ isInit \in BOOLEAN
  /\ upstreamEndpoint \in Endpoints \cup {NoEndpoint}
  /\ iter \in [Req -> Endpoints \cup {None}]
  /\ tryConnected \in Endpoints \cup {None}
  /\ target \in [Req -> Endpoints \cup {NoEndpoint, None}]
  /\ tstate \in [Req -> {"none", "open", "closed", "handed"}]
  /\ respCode \in [Req -> {"success", "failure", None}]
  /\ replies \in [Req -> Seq([ec : ErrorCodes,
                              transport : {Bound, LocalAddr, NoTransport}])]
  /\ inits \in Nat

(* The double-checked lock of StartRequest (lines 35-68): however the     *)
(* first requests of several threads interleave, the upstream endpoint is *)
(* resolved and stored once.                                              *)
EndpointWrittenOnce == inits <= 1

(* Lines 58-67 and the contract of TryConnect (tcp_transport.h: "It will  *)
(* be advanced to the first connectable result"): the endpoint remembered *)
(* for every later request is the one the first connection reached.       *)
RememberedIsConnected ==
  upstreamEndpoint # NoEndpoint => upstreamEndpoint = tryConnected

(* No request dials the default-constructed upstream_endpoint_: a request *)
(* that sees is_upstream_endpoint_init_ set (line 35) also sees the       *)
(* endpoint stored before it (line 66).                                   *)
NoDefaultEndpointDial == \A r \in Req : target[r] # NoEndpoint

(* The callback of a request is invoked at most once: StartConnect of the *)
(* transport factory reports one outcome per connection attempt.          *)
ReplyOnce == \A r \in Req : Len(replies[r]) <= 1

(* A request that fails leaves no transport of its own open: every       *)
(* failure path of StartRequest, SendAuthRequest, SendSocksRequest and of *)
(* the factory's connect closes what it opened.                           *)
ClosedOnFailure ==
  \A r \in Req :
    (replies[r] # <<>> /\ Last(replies[r]).transport = NoTransport)
      => tstate[r] \in {"none", "closed"}

(* Spec 5, "the upstream address cache is protected by one mutex held    *)
(* only during resolution": a request that takes the mutex eventually     *)
(* releases it, so no request queued on it, and no other request of the  *)
(* threads they block, waits for ever.                                    *)
LockReleased == \A r \in Req : lockHolder = r ~> lockHolder # r

(* SocksTcpUpstreamFactory implements UpstreamFactory: a started request *)
(* is answered exactly once, eventually, and a success carries the bound *)
(* address the upstream server reported.                                  *)
Upstream == INSTANCE UpstreamFactory WITH
  ErrorCodes <- ErrorCodes,
  NoError <- "none",
  Bound <- {Bound},
  requested <- {r \in Req : pc[r] # "idle"},
  answer <- [r \in Req |-> IF replies[r] = <<>> THEN None
                                                ELSE Last(replies[r])]

UpstreamSpec == Upstream!Spec

=============================================================================
