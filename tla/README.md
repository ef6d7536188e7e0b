# TLA+ models of thestral

thestral is a SOCKS5 relay. It accepts SOCKS5 clients, optionally over TLS. It
reaches each requested target either directly or through another SOCKS5
server, optionally over TLS. Then it relays bytes both ways. This directory
holds TLA+ models of its concurrent and failure-prone parts, the TLC
configurations that check them, and `PROJECT.json`. `PROJECT.json` lists the
components, the runs, the mutants, the map from every definition to the
source lines it models, the findings and the hazards.

## 1. Inventory

Source files (under `src/`):

| File | Contents |
|---|---|
| `include/common.h` | `Address` (type, host, port), `FromAsioEndpoint`, `ToString` |
| `unnamed/part_002` | `base.h`: `TransportBase`, `TransportFactoryBase`, `UpstreamFactoryBase`, packet templates `PacketWithHeader`, `PacketWithSize` |
| `include/tcp_transport.h`, `src/tcp_transport.cc` | TCP transport and its factory (accept loop, connect, `TryConnect`) |
| `unnamed/part_004` | `ssl.cc`: TLS transport, its factory (accept + server handshake, connect + client handshake, `TryConnect`), the context builder |
| `src/socks_upstream.cc` lines 1-183 | `SocksTcpUpstreamFactory`: the SOCKS5 client side |
| `src/socks_upstream.cc` lines 184-258 | `DirectTcpUpstreamFactory` (the content of `direct_upstream.cc`) |
| `unnamed/part_000`, `tests/example2.conf` | configuration examples |
| `unnamed/part_001`, `unnamed/part_003` | CMake files and the `MockTransport` test header |

The downstream SOCKS server (`socks_server.cc`), the SOCKS packets
(`socks.cc`), the relay loop and `main_app.cc` are not in the source tree. The
spec describes them (sections 4.1, 4.5, 4.6 and 4.9).

### Components, state and operations

- **Transports** (`TcpTransportImpl`, `SslTransportImpl`). State: a socket,
  or a TLS stream over one. Operations: `StartRead` (exact or short),
  `StartWrite`, `StartClose`, `GetLocalAddress`. A TCP close is
  `shutdown(both)` then `close`, and the callback gets the shutdown error. A
  TLS close is `async_shutdown` only.
- **Transport factories**. State: the io_service and the TLS context. The
  accept loop (`StartAccept`/`DoAccept`) re-arms from inside its handler. For
  TLS that happens only after the server handshake completes. `StartConnect`
  dials asynchronously; TLS then does a client handshake. `TryConnect`
  synchronously tries a list of resolver results in order.
- **Packet framing** (`base.h`). `PacketWithSize` reads N bytes. A
  `PacketWithHeader` reads its header, stops on error, then reads its body.
- **SOCKS upstream** (`SocksTcpUpstreamFactory`). Shared state across
  connections: `is_upstream_endpoint_init_`, `upstream_endpoint_` and a
  mutex. The first request resolves the upstream host and connects
  synchronously under a double-checked lock. Later requests dial the
  remembered endpoint asynchronously. Each request then runs the client
  handshake: AuthMethodList, AuthMethodSelect, RequestPacket, ResponsePacket.
  It answers its callback once with a transport wrapped to report the
  upstream's bound address, or with an error.
- **Direct upstream** (`DirectTcpUpstreamFactory`). Dispatches on the
  address type. A domain name is resolved asynchronously and only the first
  result is dialled. An unknown type gets an empty error code and a null
  transport.
- **SOCKS server** (spec 4.6). Handles each accepted transport: greeting,
  method selection, request, upstream request, response, relay.
- **Relay** (spec 4.9). Two directions, each with one read and one write
  outstanding at most. The first direction to end closes both transports,
  and the relay completes when both directions have exited.
- **Address codec** (spec 4.1). A pure encode/decode of type-tagged
  addresses.

### Interactions

The server's accept callback receives transports from a transport factory.
For each one it calls an upstream factory's `StartRequest` with a callback.
The SOCKS upstream in turn uses a transport factory. On success the server
hands both transports to the relay. Everything runs as completion handlers
on io_service threads. Handlers of one thread run one at a time, and any
number of threads may share the upstream factory (spec 5). The only shared
mutable state across connections is the upstream endpoint cache.

### What is hard

- The endpoint cache: an unlocked read, a mutex, a second check, and two
  plain stores that another thread may observe in either order.
- Callbacks that must run exactly once on every path, including failure
  paths that forget to `return`.
- Failure at each of the five asynchronous steps of the client handshake,
  each of which must close its transport.
- Accept loops that re-arm only from their handler, so one stalled TLS
  handshake stops the listener.
- Half-close in the relay, and closing a TLS stream while a read on it is
  still pending.
- No timeouts anywhere: progress depends on every peer answering.

### Properties that make each component correct

- SOCKS upstream: each request is answered exactly once and eventually. A
  success carries the bound address the upstream reported. A failure carries
  an error and leaves no transport open. The endpoint is resolved once, and
  the remembered endpoint is one that accepted a connection.
- Direct upstream: the same UpstreamFactory contract.
- Transports: closing twice is harmless. A closed transport fails further
  I/O.
- Listener: every connecting client is eventually handed to the callback
  while accepting continues.
- Server: exactly one response per request, carrying the mapped code (spec
  7), and relay only after Success.
- Relay: at most one read and one write outstanding per transport. Both
  directions end once either side closes. Both transports are closed when
  the relay completes.

## 2. Plan

Done so far: `UpstreamFactory`, `SocksUpstream`, `DirectUpstream`,
`Listener`, `SocksServer`, `Transport` and `Relay` (section 3). Left, most
important first:

1. Packet framing (`PacketWithHeader`, `PacketWithSize` in base.h): the
   header is read, then the body; `StartCreateFrom` stops on a read error
   only, never on a failed `Validate` (spec 4.5 says it should). This is a
   one-step divergence a unit test reaches, and it needs a run of its own.
2. The TLS side of `StartConnect` in `Transport`.

The SOCKS5 wire codec (spec 4.1) is not on the plan: `socks.cc` is not in
the tree (section 4).

All twelve runs the project can keep are in use. A new component's run must
therefore replace one, as the composed `socks_server` run replaced the
listener's own run and took over its properties.

## 3. Modules and runs so far

### `UpstreamFactory`

This is the contract of `UpstreamFactoryBase::StartRequest` (base.h 139-158)
as its caller relies on it. A started request is eventually answered, and
answered once. An answer with a transport has no error code, and its local
address is a bound address of the far side.

### `SocksUpstream` (`MC_SocksUpstream`)

One request `r` of `Req` is one `StartRequest` call. `pc[r]` follows the
code: `idle`, the synchronous section (`lock`, `check`, `handshake` for
the TLS `TryConnect`, `store`, `endpointStored`/`flagStored`, `unlock`), then
the asynchronous steps (`connecting`, `handshaking` for TLS, `authWrite`, `authRead`, `reqWrite`,
`respHeader`, `respBody`), then `done`. Shared variables are
`isInit`/`upstreamEndpoint`/`lockHolder` (the factory members). Per-request
variables are `iter`, `target` (the endpoint dialled), `tstate` (the
transport: none, open, closed, handed over), `respCode` and `replies` (every
callback invocation). `ThreadOf` assigns requests to reactor threads.
`Runnable` keeps a thread from running anything while one of its requests is
in the synchronous section. Each completion handler is one action. The
outcomes a peer or the network decides are `\E` choices: success or error of
every read and write, the auth method and REP code, which endpoints accept a
connection now, and TLS handshake success. `Factory` selects the TCP or TLS
transport factory.

The model has three requests on two threads (r1 and r2 race, r3 shares r1's
thread), and two resolver results, each of which may refuse. These bounds
give: two first requests racing through the double-checked lock; a third
request taking the fast path, queued behind a thread's synchronous section;
TryConnect succeeding on the second result; and every failure point.

| Run | Cfg | Expect | Shows |
|---|---|---|---|
| upstream_tcp | SocksUpstreamTcp.cfg | pass | `UpstreamSpec` (refinement of UpstreamFactory, including liveness), `EndpointWrittenOnce`, `TypeOK` |
| upstream_ssl | SocksUpstreamSsl.cfg | pass | `RememberedIsConnected`, `ClosedOnFailure` and `LockReleased` (every lock taken is released) with the TLS factory |
| tcp_tryconnect_iter | SocksUpstreamTcpIter.cfg | violation | TCP `TryConnect` leaves the iterator at the first result: the remembered endpoint refused |
| ssl_connect_double_callback | SocksUpstreamSslReply.cfg | violation | TLS `StartConnect` lacks a `return` after a failed connect: two callbacks (one thread) |
| init_flag_race | SocksUpstreamRace.cfg | violation | the unlocked flag read can see the flag before the endpoint: the default endpoint is dialled |
| self_tls_deadlock | SocksUpstreamSelfTls.cfg | violation | `LockReleased`: the TLS `TryConnect` handshakes synchronously under the mutex; when the upstream is a TLS listener of the same process, two requests occupy both reactor threads (one in the handshake holding the lock, one waiting for it) and the handshake can never be served |

`TryConnectHandshake(r)` is the blocking `SSL_do_handshake` of the TLS
`TryConnect` (`ssl.cc` 162-176). It runs with the mutex held. With
`SelfServed` (the upstream is this process's own TLS listener, as in the
chained configuration of `part_000`), the handshake completes only while
some reactor thread is free (`FreeThread`) to run the server side. A thread
is not free while one of its requests blocks in the synchronous section.
`upstream_ssl` checks `LockReleased` with an external upstream, where it
holds.

**Fairness.** `WF_vars(Step(r))` for every request. The reactor runs every
ready handler. The model assumes every pending I/O completes, with success
or with an error. The code has no timeouts, so a peer that never answers
would leave the request pending forever. That case is outside the checked
liveness, and the hazard list records it. Deadlock checking is off because
the final state (every request done) has no successor. The refinement's
liveness part checks that every started request is answered, which a stuck
lock or a lost handler would break.

**Refinement.** `Upstream == INSTANCE UpstreamFactory WITH requested <- {r :
pc[r] # "idle"}, answer <- last element of replies[r]`. A second callback
changes `answer` after it was set, which the abstract spec forbids. A success
with the socket's own local address is not among its `Answers`.

### `DirectUpstream` (`MC_DirectUpstream`)

`pc[r]` is `idle`, `resolving`, `connecting` or `done`. `request[r]` is
the `Address` (`common.h`: the SOCKS5 type, the host bytes or name, the
port). `target[r]` is the asio endpoint (family, address bytes, port).
`StartRequest` is the switch on `address.type` (socks_upstream.cc 207-257). A
domain starts `async_resolve`. An IP address is converted by `IpEndpoint`,
the copy of the host into the family's `bytes_type`, and dialled at once. An unknown
type answers within `StartRequest` with an empty error code and a null
transport; the abstract contract allows that as `StartAndAnswer`.
`ResolveDone` reports a resolve error, or dials `Head(res)`, the first result
only. `ConnectDone` is the TCP factory's connect handler. On success it
answers with `GetLocalAddress`, which is `Address::FromAsioEndpoint` of the
socket's local endpoint.

The model has three requests. Each picks one of five addresses: 127.0.0.1,
10.0.0.2 (which refuses), `::1`, a domain name, and an unknown type. The name
resolves to `<<A>>` or `<<B, A>>`, where only A accepts. That makes the
"first result only" path fail where trying the second would work. Host
lengths are the exact 4 and 16 bytes the server's decoder produces.

| Run | Cfg | Expect | Shows |
|---|---|---|---|
| direct_upstream | DirectUpstream.cfg | pass | `UpstreamSpec`: the direct upstream refines `UpstreamFactory` (one answer per request, eventually; the bound address is the transport's own). `DialsRequestedAddress`: the endpoint dialled for an IP request converts back (`FromAsioEndpoint`) to the requested Address |

Fairness: `WF_vars(Step(r))`. The resolver and the connect complete, and
the reactor runs their handlers.

### `Listener` (`MC_Listener`)

This models the accept loops of both transport factories together with the
server's accept callback. The callback answers "continue" (spec 4.6 and 7);
it is spec-modelled as `ContinueAccepting`. There is one listener per server
block. `l1` is TCP and `l2` is TLS, with two clients each. One client of each
(`Silent`) connects and never takes part in a TLS handshake.

- `Connect` queues the client in the kernel backlog. `accepted[l]` is a
  history variable: the clients in the order `async_accept` took them.
- `TcpAcceptDone` and `TcpAcceptFailed` are the TCP accept handler. It calls
  back and re-arms if the callback says so.
- `SslAcceptDone` starts the server handshake without re-arming.
- `SslAcceptFailed` calls back with a null transport and returns for good.
- `SslHandshakeDone` calls back (with the transport only on success) and
  re-arms.

| Run | Cfg | Expect | Shows |
|---|---|---|---|
| tls_handshake_stall | ListenerSslStall.cfg | violation | `SslAcceptProgress`: one silent TLS client keeps the next one in the backlog for ever |

Fairness is weak fairness on the accept completions (a queued client with
an armed acceptor) and on the handshake of a client that takes part in it.
Accept errors and clients are the environment's choice. The listener's
passing properties are checked in the composed `socks_server` run below.

`DeliveredInAcceptOrder` holds only because the TLS loop re-arms after the
handshake (`ssl.cc` 108). That same choice causes the stall. A fix that
re-arms at once would let a quick handshake overtake a slow one and break
the order spec 5 promises.

### `SocksServer` (`MC_SocksServer`)

The downstream server of spec 4.6. Its source (`socks_server.cc`) is not in
the tree, so its definitions are spec-modelled. It `EXTENDS Listener` and
composes it with the server's sessions. It instantiates the `UpstreamFactory`
contract as `Up`, with the clients as requests. `DirectUpstream` and the TCP
`SocksUpstream` are checked to refine that contract; the TLS `SocksUpstream`
does not (its failed connect calls back twice, `ssl_connect_double_callback`).

The composition is there for the listeners: it makes the accept callback a
real consumer of what the loops deliver. The session's own properties (a
null transport is never relayed, a handed upstream transport is closed on
failure, every asked session answers its client) restated single guards of
spec-modelled handlers and were dropped; they say nothing about this
repository's code.

- `spc[c]` is client c's session: `greeting`, `selecting`/`rejecting`,
  `request`, `upstream`, `responding`, then `relaying` or `closed`.
- `resp[c]` is the ResponsePacket written (REP code and bound address).
- `upT[c]` is the upstream transport: held, relayed or closed.
- `requested` and `answer` are the contract's variables.
- `AcceptCallback` starts a session when a listener step calls back with a
  transport and no error. `WithCallback` conjoins it into every listener step.
- `GreetingRead`, `SelectWritten`, `RequestRead`, `UpstreamAnswered` and
  `ResponseWritten` are the session's completion handlers.
  - `RequestRead` either calls `Up!StartRequest`, or, when the factory answers
    inside the call, `Up!StartAndAnswer` together with the callback.
- `OnUpstream` is the request callback. With a transport it writes Success
  with the transport's local address. Without one it writes the spec 7
  mapping of the error code (`MapError`), even when that code is empty.

Bounds: the listener's four clients, error codes {none, connect, resolve},
and one bound address `b1`. That covers a handed transport, a refused
connect, a failed resolve, and the empty code with a null transport that
both upstreams can answer.

| Run | Cfg | Expect | Shows |
|---|---|---|---|
| socks_server | SocksServer.cfg | pass | `TcpAcceptProgress`: every TCP client that connects is handed to the callback, despite silent clients and one accept error. `DeliveredInAcceptOrder`: a client accepted later is never settled before one accepted earlier, as spec 5 says; the TLS loop keeps this only because it re-arms after the handshake |

Fairness: the listener's fairness, taken with the callback. The upstream's
promise to answer every request. The completion of the ten-byte response
write. A client may stay silent for ever, so the session's reads are not
assumed to complete. Deadlock checking is off, because every session can end
closed.

### `Transport` and `Relay` (`MC_Relay`)

`Transport` gives the TCP and TLS transports as the relay sees them.

- `StartRead` and `StartWrite` record whether they were started after a
  close.
- `CloseAll(S)` is `StartClose` on every transport of S in one handler.
  TCP runs `shutdown(both)`, which can fail, and then closes the socket.
  TLS only starts `async_shutdown`. Neither checks for an earlier close:
  a second close is allowed, up to `MaxCloses`.
- A TLS write already in flight when the shutdown starts may still
  succeed: asio queues close_notify behind it. A write started after the
  shutdown fails.
- `ShutdownDone` completes once the peer's close has arrived and no write
  is in flight.
- `ReadDone` and `WriteDone` deliver what the socket state allows: data,
  end of file, error, or "operation aborted" on a closed TCP socket.
- `PeerSend` and `PeerClose` are the far end.

The operations give only what they change, so that a relay handler can
compose them.

`Relay` follows spec 4.9. Each direction reads its source and writes the
whole chunk to its destination. The first direction to end closes both
transports. Once both directions have exited, a transport that no pending
handler holds is destroyed. The TLS shutdown handler holds its transport
(`ssl.cc` 47).

Bounds: two unread chunks per peer (`MaxData = 2`) and two closes per
transport (`MaxCloses = 2`). Two chunks let a direction complete a whole
read-write round and start a second before the close. The close bound is
above the one close the relay makes, so it never hides a second one.

| Run | Cfg | Expect | Shows |
|---|---|---|---|
| relay_tcp | RelayTcp.cfg | pass | `RelayCompletes`: once one direction exits, the other does too. `ClosedWritesFail`: no write started after a close succeeds, even when the shutdown failed |
| relay_ssl | RelaySsl.cfg | pass | `ClosedWritesFail` over TLS: a write started after `async_shutdown` fails, while one already in flight, queued ahead of close_notify, may succeed |
| tls_relay_hangs | RelaySslHang.cfg | violation | `RelayCompletes` fails with a TLS downstream: the read on the closed stream is not aborted, and a client that ignores close_notify hangs the relay |

Fairness is weak fairness on every handler the reactor runs once its
operation has completed. That covers a read once data or the peer's close
has arrived, anything aborted by the close, the TLS shutdown once the peer
has closed, and the destruction of a released transport. Writes that
succeed, and the peers' actions, are not assumed. Deadlock checking is off:
a finished relay has no successor.

### Findings

The violation runs show six disagreements between the code and what the
spec or the header says:

- the TCP `TryConnect` iterator;
- the TLS connect double callback;
- the unlocked init flag;
- the self-served TLS upstream that deadlocks the synchronous handshake;
- the TLS accept loop stalled by one handshake;
- the TLS relay that does not abort the pending read on close.

`PROJECT.json` gives each one's source line.

## 4. Not modelled (and why)

- Byte formatting, logging, `Address::ToString`: data, no behaviour.
- `include/tcp_transport.h`: declarations. Its one body of note is the
  `TryConnect` contract: `FirstConnectable` in `SocksUpstream`, against
  which `RememberedIsConnected` checks the iterator each factory leaves.
- The SOCKS5 wire codec (spec 4.1): `socks.cc` is not in the tree, so there
  is no code to translate. Its round trip is a property of a pure function
  over bytes, which unit tests enumerate better than TLC. The packets' `Validate`
  (the VER check of the replies the SOCKS upstream reads) is there too; the
  model abstracts the replies to their method and REP code.
- The sharing of the direct factory's one `resolver_` between reactor
  threads (`socks_upstream.cc` 219): asio's `async_resolve` only copies the
  resolver's cancel token and posts to a work thread started under a mutex,
  so concurrent calls do not interfere. Requests are modelled as
  independent.
- The TLS context builder options: configuration.
- Closing a transport twice (spec 8 says it is harmless; a second TCP close
  reports `bad_descriptor`, `tcp_transport.cc` 57). The code that would
  close twice, the server and the relay, is not in the tree, and the relay
  of spec 4.9 closes once; the divergence is one call from a unit test.
- Destroying a TLS stream during its shutdown: `Relay` keeps the capture of
  `ssl.cc` 47 (a pending shutdown holds its transport), so no run can reach
  it, and a property saying so would only restate that guard.
- `main_app.cc`, the configuration parser, the CLI: not in the tree, and
  out of scope per the spec.
